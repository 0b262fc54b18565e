------------------------- MODULE CaptureRingProofs -------------------------
(***************************************************************************)
(* What holds of the recorder for every number of ring buffers, workers    *)
(* and frames and for every cap: no frame is lost, no buffer holds two,    *)
(* and the overflow stays within its bound.                                *)
(***************************************************************************)
EXTENDS CaptureRing, FiniteSetTheorems, SequenceTheorems, TLAPS

Buffers == Ring \cup Nat
Threads == Workers \cup {Reserver}

SensorLabels == {"loop", "take", "push", "notify", "stop", "stopped", "join",
                 "joined", "returned"}
IdleLabels   == {"start", "test", "drowsy", "asleep"}
Labels       == IdleLabels \cup {"encode", "allocate", "done"}

PcType   == sensor \in SensorLabels /\ pc \in [Threads -> Labels]
FlagType == {stop, worker_error, capture_prealloc} \subseteq BOOLEAN
PoolType ==
    /\ free_list \subseteq Buffers
    /\ owned \subseteq Nat /\ IsFiniteSet(owned) /\ ready_pool \subseteq owned
    /\ overflow_used \in Nat /\ pool_reserved \in Nat
FrameType ==
    /\ pending \in Seq(Buffers)
    /\ inHand \in Buffers \cup {Nil}
    /\ encoding \in [Workers -> Buffers \cup {Nil}]
    /\ captured \in Nat /\ encoded \in Nat

TypeInv == PcType /\ FlagType /\ PoolType /\ FrameType

\* A thread holds a buffer exactly while it works on one; what a worker that
\* threw held is lost with it.
HandsMatchPc ==
    /\ (sensor = "push") <=> (inHand # Nil)
    /\ \A w \in Workers :
          /\ pc[w] \in IdleLabels => encoding[w] = Nil
          /\ pc[w] = "encode" => encoding[w] # Nil

\* Without an error a worker leaves nothing behind: the take was stopped and
\* no frame is pending, and only the sensor stops a take, after its last push.
EndInOrder ==
    /\ stop /\ ~worker_error =>
          sensor \in {"stop", "stopped", "join", "joined", "returned"}
    /\ \A w \in Workers : pc[w] = "done" /\ ~worker_error =>
          encoding[w] = Nil /\ stop /\ pending = <<>>
    /\ sensor \in {"joined", "returned"} => \A w \in Workers : pc[w] = "done"

Busy == {w \in Workers : encoding[w] # Nil}
Counted == captured = encoded + Len(pending) + Cardinality(Busy)

FrameInv == TypeInv /\ HandsMatchPc /\ EndInOrder /\ Counted

\* The overflow is numbered from 1; what is not reserved was taken, and a
\* buffer the reserver is about to allocate still fits.
OverflowCounted ==
    /\ owned = 1..Cardinality(owned)
    /\ Cardinality(owned) = Cardinality(ready_pool) + overflow_used
    /\ Cardinality(ready_pool) <= pool_reserved
    /\ overflow_used <= Cap
    /\ pc[Reserver] = "allocate" => Cardinality(owned) <= Cap
    /\ ~HasReserver => pc[Reserver] = "done"
    /\ OverflowWithinCap

OverflowInv == FrameInv /\ OverflowCounted

\* The buffers in use: none is held twice, and no buffer is lost.
Entries(q)  == {q[i] : i \in DOMAIN q}
Distinct(q) == \A i, j \in DOMAIN q : q[i] = q[j] => i = j
InWork      == {encoding[w] : w \in Busy}
Filling     == {inHand} \ {Nil}
Held        == Filling \cup Entries(pending) \cup InWork

HeldOnce ==
    /\ Distinct(pending)
    /\ \A v, w \in Busy : encoding[v] = encoding[w] => v = w
    /\ InWork \cap Entries(pending) = {}
    /\ Filling \cap (Entries(pending) \cup InWork) = {}

NoneLost ==
    /\ free_list \cup ready_pool \cup Held = Ring \cup owned
    /\ Held \cap (free_list \cup ready_pool) = {}
    /\ free_list \cap ready_pool = {}

BufferInv == OverflowInv /\ HeldOnce /\ NoneLost

-----------------------------------------------------------------------------
(* The steps of the threads: what they do to the program counters.         *)

\* A notification only moves sleepers among the notified to their test.
Roused(S) == \A t \in Threads :
    pc'[t] = pc[t] \/ (t \in S /\ pc[t] = "asleep" /\ pc'[t] = "test")

LEMMA AwakenFacts ==
  ASSUME PcType, NEW S \in SUBSET Threads, Awaken(S) \/ AwakenOne(S)
  PROVE  pc' \in [Threads -> Labels] /\ Roused(S)
<1>1. CASE Awaken(S)
  BY <1>1 DEF Awaken, Asleep, Roused, PcType, Labels, IdleLabels
<1>2. CASE AwakenOne(S)
  <2>1. CASE UNCHANGED pc
    BY <2>1 DEF PcType, Roused
  <2>2. CASE \E t \in Asleep(S) : pc' = [pc EXCEPT ![t] = "test"]
    BY <2>2 DEF Asleep, Roused, PcType, Labels, IdleLabels
  <2> QED BY <1>2, <2>1, <2>2 DEF AwakenOne
<1> QED BY <1>1, <1>2

LEMMA ThreadFacts ==
  /\ Workers \subseteq Threads /\ {Reserver} \subseteq Threads
  /\ Reserver \in Threads /\ Reserver \notin Workers
  /\ \A w \in Workers : w # Reserver
  BY CaptureAssumption DEF Threads

\* The invariants look at pc only through these.
LEMMA RousedFacts ==
  ASSUME PcType, NEW S \in SUBSET Threads, pc' \in [Threads -> Labels], Roused(S)
  PROVE  /\ \A t \in Threads : pc'[t] \in IdleLabels <=> pc[t] \in IdleLabels
         /\ \A t \in Threads, l \in {"encode", "allocate", "done"} :
               pc'[t] = l <=> pc[t] = l
  BY DEF Roused, PcType, IdleLabels

LEMMA BufferFacts ==
  Nil \notin Buffers /\ Ring \subseteq Buffers /\ Nat \subseteq Buffers
  BY CaptureAssumption DEF Buffers

-----------------------------------------------------------------------------
(* The types.                                                              *)

LEMMA PreallocFinite ==
  ASSUME NEW n \in Nat
  PROVE  IsFiniteSet(1..n) /\ Cardinality(1..n) = n
  BY FS_Interval

LEMMA InitTypeInv == Init => TypeInv
<1> SUFFICES ASSUME Init PROVE TypeInv
  OBVIOUS
<1> USE CaptureAssumption
<1>1. PcType
  BY ThreadFacts DEF Init, PcType, Threads, Labels, IdleLabels, SensorLabels
<1>2. FlagType
  BY DEF Init, FlagType
<1>3. \E n \in Nat : owned = 1..n
  <2>1. CASE capture_prealloc
    BY <2>1 DEF Init
  <2>2. CASE ~capture_prealloc
    BY <2>2, 1..0 = {} DEF Init
  <2> QED BY <2>1, <2>2
<1>4. owned \subseteq Nat /\ IsFiniteSet(owned) /\ Cardinality(owned) \in Nat
  BY <1>3, PreallocFinite
<1>5. PoolType
  BY <1>4 DEF Init, PoolType, Buffers
<1>6. FrameType
  BY DEF Init, FrameType
<1> QED BY <1>1, <1>2, <1>5, <1>6 DEF TypeInv

\* Growing the overflow keeps it finite.
LEMMA GrowthFacts ==
  ASSUME IsFiniteSet(owned), owned \subseteq Nat
  PROVE  /\ Cardinality(owned) \in Nat /\ NewBuffer \in Nat
         /\ IsFiniteSet(owned \cup {NewBuffer})
         /\ owned \cup {NewBuffer} \subseteq Nat
<1>1. Cardinality(owned) \in Nat /\ NewBuffer \in Nat
  BY FS_CardinalityType DEF NewBuffer
<1>2. IsFiniteSet(owned \cup {NewBuffer})
  BY FS_AddElement
<1> QED BY <1>1, <1>2

\* What taking from and adding to a queue does to its type.
LEMMA QueueFacts ==
  ASSUME NEW S, NEW q \in Seq(S), q # <<>>
  PROVE  Head(q) \in S /\ Tail(q) \in Seq(S)
  OBVIOUS

\* Each thread keeps the types, one step per action of the thread.
LEMMA SensorTypeInv ==
  ASSUME TypeInv, HandsMatchPc, Sensor
  PROVE  TypeInv'
<1> USE BufferFacts, ThreadFacts DEF TypeInv
<1>1. CASE SensorLoop
  BY <1>1 DEF SensorLoop, PcType, FlagType, PoolType, FrameType, poolVars,
     frameVars, flagVars, SensorLabels
<1>2. CASE SensorTake
  <2>1. PcType'
    BY <1>2, AwakenFacts DEF SensorTake, PcType, SensorLabels
  <2>2. PoolType' /\ inHand' \in Buffers
    <3> USE <1>2, GrowthFacts DEF PoolType, Buffers
    <3>1. CASE \E b \in free_list : inHand' = b
                  /\ free_list' = free_list \ {b}
                  /\ UNCHANGED <<ready_pool, owned, overflow_used, pc>>
      BY <3>1 DEF SensorTake
    <3>2. CASE /\ \E b \in ready_pool : inHand' = b
                                       /\ ready_pool' = ready_pool \ {b}
               /\ overflow_used' = overflow_used + 1
               /\ UNCHANGED <<free_list, owned>>
      BY <3>2 DEF SensorTake
    <3>3. CASE /\ inHand' = NewBuffer /\ owned' = owned \cup {NewBuffer}
               /\ overflow_used' = overflow_used + 1
               /\ UNCHANGED <<free_list, ready_pool, pc>>
      <4>1. NewBuffer \in Nat /\ IsFiniteSet(owned') /\ owned' \subseteq Nat
        BY <3>3
      <4> QED BY <3>3, <4>1 DEF SensorTake
    <3> QED BY <3>1, <3>2, <3>3 DEF SensorTake
  <2>3. FlagType' /\ FrameType'
    BY <1>2, <2>2 DEF SensorTake, FlagType, FrameType, flagVars
  <2> QED BY <2>1, <2>2, <2>3
<1>3. CASE SensorFull \/ SensorOutOfMemory
  <2>1. PcType'
    BY <1>3, AwakenFacts DEF SensorFull, SensorOutOfMemory, PcType, SensorLabels
  <2> QED BY <1>3, <2>1 DEF SensorFull, SensorOutOfMemory, FlagType, PoolType,
          FrameType, poolVars, frameVars
<1>4. CASE SensorPush
  BY <1>4 DEF SensorPush, HandsMatchPc, PcType, FlagType, PoolType, FrameType,
     poolVars, flagVars, SensorLabels
<1>5. CASE SensorNotify \/ SensorNotifyAll \/ SensorJoin
  <2>1. PcType'
    BY <1>5, AwakenFacts DEF SensorNotify, SensorNotifyAll, SensorJoin, PcType,
       SensorLabels
  <2> QED BY <1>5, <2>1 DEF SensorNotify, SensorNotifyAll, SensorJoin, FlagType,
          PoolType, FrameType, poolVars, frameVars, flagVars
<1>6. CASE SensorStop \/ SensorReturn
  BY <1>6 DEF SensorStop, SensorReturn, PcType, FlagType, PoolType, FrameType,
     poolVars, frameVars, flagVars, SensorLabels
<1> QED BY <1>1, <1>2, <1>3, <1>4, <1>5, <1>6 DEF Sensor

LEMMA WorkerTypeInv ==
  ASSUME TypeInv, HandsMatchPc, NEW w \in Workers, Worker(w) \/ WorkerThrow(w)
  PROVE  TypeInv'
<1> USE BufferFacts, ThreadFacts DEF TypeInv, Labels, IdleLabels
<1>1. CASE WorkerStart(w) \/ Sleep(w)
  BY <1>1 DEF WorkerStart, Sleep, PcType, FlagType, PoolType, FrameType,
     poolVars, frameVars, flagVars
<1>2. CASE WorkerTest(w)
  <2>1. PcType'
    BY <1>2 DEF WorkerTest, PcType
  <2>2. FrameType'
    <3>1. CASE UNCHANGED <<pending, encoding>>
      BY <1>2, <3>1 DEF WorkerTest, FrameType
    <3>2. CASE /\ pending # <<>> /\ pending' = Tail(pending)
               /\ encoding' = [encoding EXCEPT ![w] = Head(pending)]
      <4>1. Head(pending) \in Buffers /\ Tail(pending) \in Seq(Buffers)
        BY <3>2, QueueFacts DEF FrameType
      <4> QED BY <1>2, <3>2, <4>1 DEF WorkerTest, FrameType
    <3> QED BY <1>2, <3>1, <3>2 DEF WorkerTest
  <2> QED BY <1>2, <2>1, <2>2 DEF WorkerTest, FlagType, PoolType, poolVars, flagVars
<1>3. CASE WorkerReturn(w)
  BY <1>3 DEF WorkerReturn, HandsMatchPc, PcType, FlagType, PoolType, FrameType,
     flagVars
<1>4. CASE WorkerThrow(w)
  BY <1>4 DEF WorkerThrow, Asleep, PcType, FlagType, PoolType, FrameType,
     poolVars, frameVars
<1> QED BY <1>1, <1>2, <1>3, <1>4 DEF Worker

LEMMA ReserveTypeInv ==
  ASSUME TypeInv, Reserve \/ \E t \in Threads : Wake(t)
  PROVE  TypeInv'
<1> USE ThreadFacts DEF TypeInv, Labels, IdleLabels
<1>1. CASE ReserverTest \/ Sleep(Reserver) \/ \E t \in Threads : Wake(t)
  BY <1>1 DEF ReserverTest, Sleep, Wake, PcType, FlagType, PoolType, FrameType,
     poolVars, frameVars, flagVars
<1>2. CASE ReserverAllocate
  <2>1. PcType' /\ FlagType' /\ FrameType'
    BY <1>2 DEF ReserverAllocate, PcType, FlagType, FrameType, frameVars, flagVars
  <2>2. CASE UNCHANGED <<owned, ready_pool, pool_reserved>>
    BY <1>2, <2>1, <2>2 DEF ReserverAllocate, PoolType
  <2>3. CASE /\ owned' = owned \cup {NewBuffer}
             /\ ready_pool' = ready_pool \cup {NewBuffer}
             /\ pool_reserved' = pool_reserved + 1
    <3>1. IsFiniteSet(owned') /\ owned' \subseteq Nat
      BY <2>3, GrowthFacts DEF PoolType
    <3>2. ready_pool' \subseteq owned'
      BY <2>3 DEF PoolType
    <3>3. pool_reserved \in Nat
      BY DEF PoolType
    <3>4. pool_reserved' \in Nat
      BY ONLY <2>3, <3>3
    <3>5. free_list' \subseteq Buffers /\ overflow_used' \in Nat
      BY <1>2 DEF ReserverAllocate, PoolType
    <3> QED BY <2>1, <3>1, <3>2, <3>4, <3>5 DEF PoolType
  <2> QED BY <1>2, <2>2, <2>3 DEF ReserverAllocate
<1> QED BY <1>1, <1>2 DEF Reserve

-----------------------------------------------------------------------------
(* No frame is lost.                                                       *)

LEMMA InitFrameInv == Init => FrameInv
<1> SUFFICES ASSUME Init PROVE FrameInv
  OBVIOUS
<1>1. TypeInv
  BY InitTypeInv
<1>2. Busy = {}
  BY DEF Init, Busy
<1>3. Counted
  BY <1>2, FS_EmptySet DEF Init, Counted
<1>4. HandsMatchPc /\ EndInOrder
  BY CaptureAssumption, ThreadFacts
  DEF Init, HandsMatchPc, EndInOrder, IdleLabels, Threads
<1> QED BY <1>1, <1>3, <1>4 DEF FrameInv

LEMMA BusyFacts == IsFiniteSet(Busy) /\ Cardinality(Busy) \in Nat
  BY CaptureAssumption, FS_Subset, FS_CardinalityType DEF Busy

\* One worker picks up a buffer, or puts its buffer down.
LEMMA PickUpFacts ==
  ASSUME FrameType, NEW w \in Workers, NEW b,
         encoding' = [encoding EXCEPT ![w] = b]
  PROVE  /\ encoding[w] = Nil /\ b # Nil =>
               Cardinality(Busy') = Cardinality(Busy) + 1
         /\ encoding[w] # Nil /\ b = Nil =>
               Cardinality(Busy') = Cardinality(Busy) - 1
<1>1. ASSUME encoding[w] = Nil, b # Nil PROVE Busy' = Busy \cup {w} /\ w \notin Busy
  BY <1>1 DEF Busy, FrameType
<1>2. ASSUME encoding[w] # Nil, b = Nil PROVE Busy' = Busy \ {w} /\ w \in Busy
  BY <1>2 DEF Busy, FrameType
<1>3. encoding[w] = Nil /\ b # Nil => Cardinality(Busy') = Cardinality(Busy) + 1
  BY <1>1, BusyFacts, FS_AddElement
<1>4. encoding[w] # Nil /\ b = Nil => Cardinality(Busy') = Cardinality(Busy) - 1
  BY <1>2, BusyFacts, FS_RemoveElement
<1> QED BY <1>3, <1>4

\* Steps that touch no frame and stop nothing.
LEMMA QuietStep ==
  ASSUME FrameInv, UNCHANGED <<frameVars, stop, worker_error>>,
         pc' \in [Threads -> Labels], Roused(Threads),
         \/ UNCHANGED sensor
         \/ /\ {sensor, sensor'} \subseteq SensorLabels \ {"push", "joined", "returned"}
            /\ sensor \in {"stop", "stopped"} => sensor' \in {"stopped", "join"}
            /\ sensor # "join"
         \/ /\ \A w \in Workers : pc[w] = "done"
            /\ {sensor, sensor'} \subseteq {"join", "joined", "returned"}
  PROVE  HandsMatchPc' /\ EndInOrder' /\ Counted'
<1>1. \A w \in Workers : /\ pc'[w] \in IdleLabels <=> pc[w] \in IdleLabels
                         /\ pc'[w] = "encode" <=> pc[w] = "encode"
                         /\ pc'[w] = "done" <=> pc[w] = "done"
  BY RousedFacts, ThreadFacts DEF FrameInv, TypeInv
<1>2. Counted'
  BY DEF FrameInv, Counted, Busy, frameVars
<1>3. HandsMatchPc'
  BY <1>1 DEF FrameInv, HandsMatchPc, frameVars
<1>4. EndInOrder'
  BY <1>1 DEF FrameInv, EndInOrder, frameVars, SensorLabels
<1> QED BY <1>2, <1>3, <1>4

LEMMA SensorFrameInv ==
  ASSUME FrameInv, Sensor
  PROVE  FrameInv'
<1>1. TypeInv'
  BY SensorTypeInv DEF FrameInv
<1>2. PcType /\ TypeInv /\ HandsMatchPc /\ EndInOrder /\ Counted
  BY DEF FrameInv, TypeInv
<1>3. pc' \in [Threads -> Labels] /\ sensor' \in SensorLabels
  BY <1>1 DEF TypeInv, PcType
<1>4. Roused(Threads)
  <2>1. CASE UNCHANGED pc
    BY <2>1 DEF Roused
  <2>2. ASSUME NEW S \in SUBSET Threads, Awaken(S) \/ AwakenOne(S)
        PROVE  Roused(Threads)
    BY <1>2, <2>2, AwakenFacts DEF Roused
  <2> QED BY <2>1, <2>2, ThreadFacts
          DEF Sensor, SensorLoop, SensorTake, SensorFull, SensorOutOfMemory,
              SensorPush, SensorNotify, SensorStop, SensorNotifyAll, SensorJoin,
              SensorReturn
<1>5. \A w \in Workers : /\ pc'[w] \in IdleLabels <=> pc[w] \in IdleLabels
                         /\ pc'[w] = "encode" <=> pc[w] = "encode"
                         /\ pc'[w] = "done" <=> pc[w] = "done"
  BY <1>2, <1>3, <1>4, RousedFacts, ThreadFacts
<1>6. CASE SensorLoop
  BY <1>1, <1>3, <1>4, <1>6, QuietStep DEF SensorLoop, SensorLabels, flagVars, FrameInv
<1>7. CASE SensorTake
  <2>1. inHand' # Nil
    <3>1. free_list \cup ready_pool \cup {NewBuffer} \subseteq Buffers
      BY <1>2, GrowthFacts, BufferFacts DEF TypeInv, PoolType
    <3> QED BY <1>7, <3>1, BufferFacts DEF SensorTake
  <2>2. HandsMatchPc' /\ EndInOrder'
    BY <1>2, <1>5, <1>7, <2>1 DEF SensorTake, HandsMatchPc, EndInOrder, flagVars
  <2>3. Counted'
    BY <1>2, <1>7 DEF SensorTake, Counted, Busy
  <2> QED BY <1>1, <2>2, <2>3 DEF FrameInv
<1>8. CASE SensorFull \/ SensorOutOfMemory \/ SensorStop
  <2>1. HandsMatchPc' /\ EndInOrder'
    BY <1>2, <1>5, <1>8 DEF SensorFull, SensorOutOfMemory, SensorStop,
       HandsMatchPc, EndInOrder, frameVars
  <2>2. Counted'
    BY <1>2, <1>8 DEF SensorFull, SensorOutOfMemory, SensorStop, Counted, Busy,
       frameVars
  <2> QED BY <1>1, <2>1, <2>2 DEF FrameInv
<1>9. CASE SensorPush
  <2>1. Len(pending') = Len(pending) + 1 /\ Len(pending) \in Nat
    BY <1>2, <1>9, BufferFacts DEF SensorPush, TypeInv, FrameType, HandsMatchPc
  <2>2. Counted'
    <3>1. Busy' = Busy /\ captured' = captured + 1 /\ encoded' = encoded
      BY <1>9 DEF SensorPush, Busy
    <3>2. captured \in Nat /\ encoded \in Nat
      BY <1>2 DEF TypeInv, FrameType
    <3> QED BY <1>2, <2>1, <3>1, <3>2, BusyFacts DEF Counted
  <2>3. HandsMatchPc'
    BY <1>2, <1>5, <1>9 DEF SensorPush, HandsMatchPc
  <2>4. EndInOrder'
    BY <1>2, <1>5, <1>9 DEF SensorPush, EndInOrder, flagVars
  <2> QED BY <1>1, <2>2, <2>3, <2>4 DEF FrameInv
<1>10. CASE SensorNotify \/ SensorNotifyAll
  BY <1>1, <1>3, <1>4, <1>10, QuietStep
  DEF SensorNotify, SensorNotifyAll, SensorLabels, flagVars, FrameInv
<1>11. CASE SensorJoin \/ SensorReturn
  <2>1. \A w \in Workers : pc[w] = "done"
    BY <1>2, <1>11 DEF SensorJoin, SensorReturn, EndInOrder
  <2>2. /\ {sensor, sensor'} \subseteq {"join", "joined", "returned"}
        /\ UNCHANGED <<frameVars, stop, worker_error>>
    BY <1>11 DEF SensorJoin, SensorReturn, flagVars
  <2> QED BY <1>1, <1>3, <1>4, <2>1, <2>2, QuietStep DEF FrameInv
<1> QED BY <1>6, <1>7, <1>8, <1>9, <1>10, <1>11 DEF Sensor

LEMMA WorkerFrameInv ==
  ASSUME FrameInv, NEW w \in Workers, Worker(w) \/ WorkerThrow(w)
  PROVE  FrameInv'
<1>1. TypeInv'
  BY WorkerTypeInv DEF FrameInv
<1>2. PcType /\ FrameType /\ HandsMatchPc /\ EndInOrder /\ Counted
  BY DEF FrameInv, TypeInv
<1>3. pc' \in [Threads -> Labels] /\ captured \in Nat /\ encoded \in Nat
  BY <1>1, <1>2 DEF TypeInv, PcType, FrameType
<1> USE ThreadFacts DEF PcType, FrameType
<1>4. CASE WorkerStart(w) \/ Sleep(w)
  <2>1. HandsMatchPc'
    BY <1>2, <1>4 DEF WorkerStart, Sleep, HandsMatchPc, IdleLabels, frameVars
  <2>2. EndInOrder'
    BY <1>2, <1>4 DEF WorkerStart, Sleep, EndInOrder, frameVars, flagVars
  <2>3. Counted'
    BY <1>2, <1>4 DEF WorkerStart, Sleep, Counted, Busy, frameVars
  <2> QED BY <1>1, <2>1, <2>2, <2>3 DEF FrameInv
<1>5. CASE WorkerTest(w)
  <2>1. CASE UNCHANGED <<pending, encoding>>
    <3>1. HandsMatchPc'
      BY <1>2, <1>5, <2>1 DEF WorkerTest, HandsMatchPc, IdleLabels
    <3>2. EndInOrder'
      BY <1>2, <1>5, <2>1 DEF WorkerTest, HandsMatchPc, EndInOrder, IdleLabels,
         flagVars
    <3>3. Counted'
      BY <1>2, <1>5, <2>1 DEF WorkerTest, Counted, Busy
    <3> QED BY <1>1, <3>1, <3>2, <3>3 DEF FrameInv
  <2>2. CASE /\ pending # <<>>
             /\ encoding' = [encoding EXCEPT ![w] = Head(pending)]
             /\ pending' = Tail(pending)
             /\ pc' = [pc EXCEPT ![w] = "encode"]
    <3>1. Head(pending) # Nil
      BY <1>2, <2>2, QueueFacts, BufferFacts
    <3>2. Len(pending') = Len(pending) - 1 /\ Len(pending) \in Nat
      BY <1>2, <2>2
    <3>3. encoding[w] = Nil
      BY <1>2, <1>5 DEF WorkerTest, HandsMatchPc, IdleLabels
    <3>4. Cardinality(Busy') = Cardinality(Busy) + 1
      BY <1>2, <2>2, <3>1, <3>3, PickUpFacts
    <3>5. Counted'
      <4>1. captured' = captured /\ encoded' = encoded
        BY <1>5 DEF WorkerTest
      <4> QED BY <1>2, <1>3, <3>2, <3>4, <4>1, BusyFacts DEF Counted
    <3>6. HandsMatchPc'
      BY <1>2, <1>5, <2>2, <3>1 DEF WorkerTest, HandsMatchPc, IdleLabels
    <3>7. EndInOrder'
      BY <1>2, <1>5, <2>2 DEF WorkerTest, EndInOrder, flagVars
    <3> QED BY <1>1, <3>5, <3>6, <3>7 DEF FrameInv
  <2> QED BY <1>5, <2>1, <2>2 DEF WorkerTest
<1>6. CASE WorkerReturn(w)
  <2>1. Cardinality(Busy') = Cardinality(Busy) - 1
    BY <1>2, <1>6, PickUpFacts DEF WorkerReturn, HandsMatchPc
  <2>2. Counted'
    <3>1. captured' = captured /\ encoded' = encoded + 1 /\ pending' = pending
      BY <1>6 DEF WorkerReturn
    <3>2. Len(pending) \in Nat
      BY <1>2
    <3> QED BY <1>2, <1>3, <2>1, <3>1, <3>2, BusyFacts DEF Counted
  <2>3. HandsMatchPc'
    BY <1>2, <1>6 DEF WorkerReturn, HandsMatchPc, IdleLabels
  <2>4. EndInOrder'
    BY <1>2, <1>6 DEF WorkerReturn, EndInOrder, flagVars
  <2> QED BY <1>1, <2>2, <2>3, <2>4 DEF FrameInv
<1>7. CASE WorkerThrow(w)
  <2>1. HandsMatchPc'
    BY <1>2, <1>7 DEF WorkerThrow, Asleep, HandsMatchPc, IdleLabels, frameVars
  <2>2. EndInOrder'
    BY <1>2, <1>7 DEF WorkerThrow, Asleep, EndInOrder, frameVars
  <2>3. Counted'
    BY <1>2, <1>7 DEF WorkerThrow, Counted, Busy, frameVars
  <2> QED BY <1>1, <2>1, <2>2, <2>3 DEF FrameInv
<1> QED BY <1>4, <1>5, <1>6, <1>7 DEF Worker

LEMMA ReserveFrameInv ==
  ASSUME FrameInv, Reserve \/ \E t \in Threads : Wake(t)
  PROVE  FrameInv'
<1>1. TypeInv'
  BY ReserveTypeInv DEF FrameInv
<1>2. PcType /\ HandsMatchPc /\ EndInOrder /\ Counted
  BY DEF FrameInv, TypeInv
<1>3. UNCHANGED <<sensor, pending, inHand, encoding, captured, encoded, stop,
                  worker_error>>
  BY DEF Reserve, ReserverTest, ReserverAllocate, Sleep, Wake, frameVars, flagVars
<1>4. \A w \in Workers : /\ pc'[w] \in IdleLabels <=> pc[w] \in IdleLabels
                         /\ pc'[w] = "encode" <=> pc[w] = "encode"
                         /\ pc'[w] = "done" <=> pc[w] = "done"
  BY <1>2, ThreadFacts
  DEF PcType, Reserve, ReserverTest, ReserverAllocate, Sleep, Wake, IdleLabels
<1>5. HandsMatchPc' /\ EndInOrder'
  BY <1>2, <1>3, <1>4 DEF HandsMatchPc, EndInOrder
<1>6. Counted'
  BY <1>2, <1>3 DEF Counted, Busy
<1> QED BY <1>1, <1>5, <1>6 DEF FrameInv

LEMMA FrameInvStep == FrameInv /\ [Next]_vars => FrameInv'
<1> SUFFICES ASSUME FrameInv, [Next]_vars PROVE FrameInv'
  OBVIOUS
<1>1. CASE UNCHANGED vars
  BY <1>1 DEF vars, poolVars, frameVars, flagVars, FrameInv, TypeInv, PcType,
     FlagType, PoolType, FrameType, HandsMatchPc, EndInOrder, Counted, Busy
<1>2. CASE Next
  BY <1>2, SensorFrameInv, WorkerFrameInv, ReserveFrameInv DEF Next, Threads
<1> QED BY <1>1, <1>2

\* A take that returns has seen every worker done, and without an error none
\* of them left a frame in hand or pending.
LEMMA FrameInvImplies == FrameInv => NothingDropped
<1> SUFFICES ASSUME FrameInv PROVE NothingDropped
  OBVIOUS
<1>1. captured = encoded + Len(pending) + Cardinality(Busy)
  BY DEF FrameInv, Counted
<1>2. ASSUME sensor = "returned", ~worker_error PROVE encoded = captured
  <2>1. pending = <<>> /\ Busy = {}
    BY <1>2, CaptureAssumption DEF FrameInv, EndInOrder, Busy
  <2>2. encoded \in Nat
    BY DEF FrameInv, TypeInv, FrameType
  <2> QED BY <1>1, <2>1, <2>2, FS_EmptySet
<1> QED BY <1>1, <1>2 DEF NothingDropped, Busy

\* Whatever the ring, the cap, the workers and their failures: every captured
\* frame is pending, in a worker's hands or encoded, and a take that returns
\* without an error has encoded them all.
THEOREM NoFrameIsLost == Spec => []NothingDropped
<1>1. Spec => []FrameInv
  BY InitFrameInv, FrameInvStep, PTL DEF Spec
<1> QED BY <1>1, FrameInvImplies, PTL

-----------------------------------------------------------------------------
(* The overflow stays within its bound.                                    *)

LEMMA InitOverflow == Init => OverflowCounted
<1> SUFFICES ASSUME Init PROVE OverflowCounted
  OBVIOUS
<1> USE CaptureAssumption
<1>1. PICK n \in 0..Cap : owned = 1..n
  <2>1. CASE capture_prealloc
    BY <2>1 DEF Init
  <2>2. CASE ~capture_prealloc
    <3>1. owned = {} /\ 0 \in 0..Cap
      BY <2>2 DEF Init
    <3>2. 1..0 = {}
      OBVIOUS
    <3> QED BY <3>1, <3>2
  <2> QED BY <2>1, <2>2
<1>2. Cardinality(owned) = n
  BY <1>1, PreallocFinite
<1>3. ready_pool = owned /\ overflow_used = 0 /\ pool_reserved = Cardinality(owned)
  BY DEF Init
<1>4. /\ ~HasReserver => pc[Reserver] = "done"
      /\ pc[Reserver] # "allocate"
  BY ThreadFacts DEF Init
<1>5. OverflowWithinCap
  BY <1>2 DEF OverflowWithinCap
<1> QED BY <1>1, <1>2, <1>3, <1>4, <1>5 DEF OverflowCounted

LEMMA PoolFacts ==
  ASSUME PoolType
  PROVE  /\ IsFiniteSet(ready_pool) /\ Cardinality(ready_pool) \in Nat
         /\ Cardinality(owned) \in Nat
  BY FS_Subset, FS_CardinalityType DEF PoolType

\* The next number is a new one.
LEMMA NewBufferFacts ==
  ASSUME PoolType, owned = 1..Cardinality(owned)
  PROVE  /\ NewBuffer \notin owned
         /\ Cardinality(owned \cup {NewBuffer}) = Cardinality(owned) + 1
         /\ owned \cup {NewBuffer} = 1..Cardinality(owned \cup {NewBuffer})
<1>1. Cardinality(owned) \in Nat
  BY PoolFacts
<1>2. NewBuffer \notin owned
  BY <1>1 DEF NewBuffer
<1>3. Cardinality(owned \cup {NewBuffer}) = Cardinality(owned) + 1
  BY <1>2, FS_AddElement DEF PoolType
<1>4. owned \cup {NewBuffer} = 1..(Cardinality(owned) + 1)
  BY <1>1 DEF NewBuffer
<1> QED BY <1>2, <1>3, <1>4

\* A step that neither allocates nor takes, nor sends the reserver to.
LEMMA OverflowKept ==
  ASSUME OverflowCounted, UNCHANGED <<owned, ready_pool, overflow_used,
                                      pool_reserved, capture_prealloc>>,
         pc'[Reserver] = "allocate" => pc[Reserver] = "allocate",
         pc[Reserver] = "done" => pc'[Reserver] = "done"
  PROVE  OverflowCounted'
  BY DEF OverflowCounted, OverflowWithinCap, HasReserver

LEMMA TakeOverflow ==
  ASSUME OverflowInv, SensorTake
  PROVE  OverflowCounted'
<1>1. PcType /\ PoolType /\ OverflowCounted
  BY DEF OverflowInv, FrameInv, TypeInv
<1>2. /\ overflow_used \in Nat /\ pool_reserved \in Nat /\ Cap \in Nat
      /\ Cardinality(ready_pool) \in Nat /\ Cardinality(owned) \in Nat
  BY <1>1, PoolFacts, CaptureAssumption DEF PoolType
<1>3. /\ pc'[Reserver] = "allocate" => pc[Reserver] = "allocate"
      /\ pc[Reserver] = "done" => pc'[Reserver] = "done"
  <2>1. CASE UNCHANGED pc
    BY <2>1
  <2>2. CASE AwakenOne({Reserver})
    BY <1>1, <2>2, AwakenFacts, ThreadFacts DEF Roused
  <2> QED BY <2>1, <2>2 DEF SensorTake
<1>4. UNCHANGED <<pool_reserved, capture_prealloc>>
  BY DEF SensorTake, flagVars
<1>5. CASE UNCHANGED <<owned, ready_pool, overflow_used>>
  BY <1>1, <1>3, <1>4, <1>5, OverflowKept
<1>6. CASE /\ overflow_used < Cap /\ owned' = owned
           /\ overflow_used' = overflow_used + 1
           /\ \E b \in ready_pool : ready_pool' = ready_pool \ {b}
  <2>1. Cardinality(ready_pool') = Cardinality(ready_pool) - 1
    BY <1>1, <1>6, PoolFacts, FS_RemoveElement
  <2>2. /\ owned' = 1..Cardinality(owned')
        /\ Cardinality(owned') = Cardinality(ready_pool') + overflow_used'
        /\ Cardinality(ready_pool') <= pool_reserved'
        /\ overflow_used' <= Cap
    BY <1>1, <1>2, <1>4, <1>6, <2>1 DEF OverflowCounted
  <2>3. OverflowWithinCap'
    BY <1>1, <1>4, <1>6 DEF OverflowCounted, OverflowWithinCap, HasReserver
  <2> QED BY <1>1, <1>3, <1>4, <1>6, <2>2, <2>3 DEF OverflowCounted, HasReserver
<1>7. CASE /\ overflow_used < Cap /\ ready_pool = {} /\ ready_pool' = ready_pool
           /\ overflow_used' = overflow_used + 1
           /\ owned' = owned \cup {NewBuffer}
  <2>1. /\ Cardinality(owned') = Cardinality(owned) + 1
        /\ owned' = 1..Cardinality(owned')
    BY <1>1, <1>7, NewBufferFacts DEF OverflowCounted
  <2>2. Cardinality(ready_pool) = 0
    BY <1>7, FS_EmptySet
  <2>3. /\ Cardinality(owned') = Cardinality(ready_pool') + overflow_used'
        /\ Cardinality(ready_pool') <= pool_reserved'
        /\ overflow_used' <= Cap /\ Cardinality(owned') <= Cap
    BY <1>1, <1>2, <1>4, <1>7, <2>1, <2>2 DEF OverflowCounted
  <2>4. OverflowWithinCap'
    BY <1>2, <2>1, <2>3 DEF OverflowWithinCap
  <2> QED BY <1>1, <1>3, <1>4, <2>1, <2>3, <2>4 DEF OverflowCounted, HasReserver
<1> QED BY <1>5, <1>6, <1>7 DEF SensorTake

LEMMA AllocateOverflow ==
  ASSUME OverflowInv, ReserverAllocate
  PROVE  OverflowCounted'
<1>1. PcType /\ PoolType /\ OverflowCounted
  BY DEF OverflowInv, FrameInv, TypeInv
<1>2. /\ overflow_used \in Nat /\ pool_reserved \in Nat /\ Cap \in Nat
      /\ Cardinality(ready_pool) \in Nat /\ Cardinality(owned) \in Nat
  BY <1>1, PoolFacts, CaptureAssumption DEF PoolType
<1>3. HasReserver /\ Cardinality(owned) <= Cap /\ UNCHANGED capture_prealloc
  BY <1>1 DEF ReserverAllocate, OverflowCounted, flagVars
<1>4. pc'[Reserver] # "allocate" /\ UNCHANGED overflow_used
  BY <1>1, ThreadFacts DEF ReserverAllocate, PcType
<1>5. HasReserver'
  BY <1>3 DEF HasReserver
<1>6. CASE UNCHANGED <<owned, ready_pool, pool_reserved>>
  BY <1>1, <1>3, <1>4, <1>5, <1>6 DEF OverflowCounted, OverflowWithinCap, HasReserver
<1>7. CASE /\ owned' = owned \cup {NewBuffer}
           /\ ready_pool' = ready_pool \cup {NewBuffer}
           /\ pool_reserved' = pool_reserved + 1
  <2>1. /\ Cardinality(owned') = Cardinality(owned) + 1
        /\ owned' = 1..Cardinality(owned')
        /\ NewBuffer \notin ready_pool
    BY <1>1, <1>7, NewBufferFacts DEF OverflowCounted, PoolType
  <2>2. Cardinality(ready_pool') = Cardinality(ready_pool) + 1
    BY <1>1, <1>7, <2>1, PoolFacts, FS_AddElement
  <2>3. /\ Cardinality(owned') = Cardinality(ready_pool') + overflow_used'
        /\ Cardinality(ready_pool') <= pool_reserved'
        /\ overflow_used' <= Cap
    BY <1>1, <1>2, <1>4, <1>7, <2>1, <2>2 DEF OverflowCounted
  <2>4. OverflowWithinCap'
    BY <1>2, <1>3, <1>5, <2>1 DEF OverflowWithinCap
  <2> QED BY <1>4, <1>5, <2>1, <2>3, <2>4 DEF OverflowCounted
<1> QED BY <1>6, <1>7 DEF ReserverAllocate

\* The reserver's test leaves room for one more.
LEMMA TestOverflow ==
  ASSUME OverflowInv, ReserverTest
  PROVE  OverflowCounted'
<1>1. PcType /\ PoolType /\ OverflowCounted
  BY DEF OverflowInv, FrameInv, TypeInv
<1>2. /\ overflow_used \in Nat /\ pool_reserved \in Nat /\ Cap \in Nat
      /\ Cardinality(ready_pool) \in Nat /\ Cardinality(owned) \in Nat
  BY <1>1, PoolFacts, CaptureAssumption DEF PoolType
<1>3. WantsMore => Cardinality(owned) <= Cap
  BY <1>1, <1>2 DEF WantsMore, OverflowCounted
<1>4. HasReserver
  BY <1>1 DEF OverflowCounted, ReserverTest
<1>5. pc'[Reserver] = "allocate" => WantsMore
  BY <1>1, ThreadFacts DEF ReserverTest, PcType
<1>6. UNCHANGED <<owned, ready_pool, overflow_used, pool_reserved, capture_prealloc>>
  BY DEF ReserverTest, poolVars, flagVars
<1> QED BY <1>1, <1>3, <1>4, <1>5, <1>6 DEF OverflowCounted, OverflowWithinCap,
        HasReserver

LEMMA OverflowInvStep == OverflowInv /\ [Next]_vars => OverflowInv'
<1> SUFFICES ASSUME OverflowInv, [Next]_vars PROVE OverflowInv'
  OBVIOUS
<1>1. FrameInv'
  BY FrameInvStep DEF OverflowInv
<1>2. PcType /\ OverflowCounted
  BY DEF OverflowInv, FrameInv, TypeInv
<1> SUFFICES OverflowCounted'
  BY <1>1 DEF OverflowInv
<1>3. CASE UNCHANGED vars
  BY <1>2, <1>3, OverflowKept DEF vars, poolVars, flagVars
<1>4. CASE Sensor /\ ~SensorTake
  <2>1. \/ UNCHANGED pc
        \/ \E S \in SUBSET Threads : Awaken(S) \/ AwakenOne(S)
    BY <1>4, ThreadFacts
    DEF Sensor, SensorLoop, SensorFull, SensorOutOfMemory, SensorPush,
        SensorNotify, SensorStop, SensorNotifyAll, SensorJoin, SensorReturn
  <2>2. UNCHANGED <<owned, ready_pool, overflow_used, pool_reserved, capture_prealloc>>
    BY <1>4
    DEF Sensor, SensorLoop, SensorFull, SensorOutOfMemory, SensorPush,
        SensorNotify, SensorStop, SensorNotifyAll, SensorJoin, SensorReturn,
        poolVars, flagVars
  <2>3. /\ pc'[Reserver] = "allocate" => pc[Reserver] = "allocate"
        /\ pc[Reserver] = "done" => pc'[Reserver] = "done"
    <3>1. CASE UNCHANGED pc
      BY <3>1
    <3>2. ASSUME NEW S \in SUBSET Threads, Awaken(S) \/ AwakenOne(S)
          PROVE  pc'[Reserver] \in {pc[Reserver], "test"} /\
                 (pc[Reserver] = "done" => pc'[Reserver] = "done")
      BY <1>2, <3>2, AwakenFacts, ThreadFacts DEF Roused
    <3> QED BY <2>1, <3>1, <3>2
  <2> QED BY <1>2, <2>2, <2>3, OverflowKept
<1>5. ASSUME NEW w \in Workers, Worker(w) \/ WorkerThrow(w)
      PROVE  OverflowCounted'
  <2>1. pc'[Reserver] = pc[Reserver]
    BY <1>2, <1>5, ThreadFacts
    DEF Worker, WorkerStart, WorkerTest, WorkerReturn, Sleep, WorkerThrow,
        Asleep, PcType
  <2>2. UNCHANGED <<owned, ready_pool, overflow_used, pool_reserved, capture_prealloc>>
    BY <1>5 DEF Worker, WorkerStart, WorkerTest, WorkerReturn, Sleep,
       WorkerThrow, poolVars, flagVars
  <2> QED BY <1>2, <2>1, <2>2, OverflowKept
<1>6. CASE Sleep(Reserver) \/ \E t \in Threads : Wake(t)
  <2>1. /\ pc'[Reserver] = "allocate" => pc[Reserver] = "allocate"
        /\ pc[Reserver] = "done" => pc'[Reserver] = "done"
    BY <1>2, <1>6, ThreadFacts DEF Sleep, Wake, PcType
  <2>2. UNCHANGED <<owned, ready_pool, overflow_used, pool_reserved, capture_prealloc>>
    BY <1>6 DEF Sleep, Wake, poolVars, flagVars
  <2> QED BY <1>2, <2>1, <2>2, OverflowKept
<1> QED BY <1>3, <1>4, <1>5, <1>6, TakeOverflow, AllocateOverflow, TestOverflow
        DEF Next, Reserve, Threads

\* Whatever the cap, the preallocation and the interleaving of the sensor and
\* the reserver: the overflow exceeds overflow_cap_frames by the reserver's one
\* buffer at most, and by none without a reserver.
THEOREM OverflowIsBounded == Spec => []OverflowWithinCap
<1>1. Init => OverflowInv
  BY InitFrameInv, InitOverflow DEF OverflowInv
<1>2. OverflowInv => OverflowWithinCap
  BY DEF OverflowInv, OverflowCounted
<1> QED BY <1>1, <1>2, OverflowInvStep, PTL DEF Spec

-----------------------------------------------------------------------------
(* No two frames share a buffer, and no buffer is lost.                    *)

\* A queue of different entries, after one was added or taken.
LEMMA AppendFacts ==
  ASSUME NEW S, NEW q \in Seq(S), NEW e \in S
  PROVE  /\ Entries(Append(q, e)) = Entries(q) \cup {e}
         /\ Distinct(q) /\ e \notin Entries(q) => Distinct(Append(q, e))
<1>1. /\ Len(Append(q, e)) = Len(q) + 1 /\ Len(q) \in Nat
      /\ DOMAIN q = 1..Len(q) /\ DOMAIN Append(q, e) = 1..(Len(q) + 1)
      /\ \A i \in 1..Len(q) : Append(q, e)[i] = q[i]
      /\ Append(q, e)[Len(q) + 1] = e
  OBVIOUS
<1>2. \A i \in 1..(Len(q) + 1) : i \in 1..Len(q) \/ i = Len(q) + 1
  BY <1>1
<1>3. Entries(Append(q, e)) = Entries(q) \cup {e}
  BY <1>1, <1>2 DEF Entries
<1>4. Distinct(q) /\ e \notin Entries(q) => Distinct(Append(q, e))
  BY <1>1, <1>2 DEF Entries, Distinct
<1> QED BY <1>3, <1>4

LEMMA TailFacts ==
  ASSUME NEW S, NEW q \in Seq(S), q # <<>>
  PROVE  /\ Entries(q) = Entries(Tail(q)) \cup {Head(q)}
         /\ Distinct(q) => Distinct(Tail(q)) /\ Head(q) \notin Entries(Tail(q))
<1>1. /\ Len(q) \in Nat \ {0} /\ DOMAIN q = 1..Len(q) /\ Head(q) = q[1]
      /\ DOMAIN Tail(q) = 1..(Len(q) - 1)
      /\ \A i \in 1..(Len(q) - 1) : Tail(q)[i] = q[i + 1]
  OBVIOUS
<1>2. \A i \in 1..Len(q) : i = 1 \/ \E j \in 1..(Len(q) - 1) : i = j + 1
  <2>1. \A i \in 1..Len(q) : i = 1 \/ (i - 1 \in 1..(Len(q) - 1) /\ i = (i - 1) + 1)
    BY <1>1
  <2> QED BY <2>1
<1>3. \A i \in 1..(Len(q) - 1) : i + 1 \in 1..Len(q) /\ i + 1 # 1
  BY <1>1
<1>4. Entries(q) \subseteq Entries(Tail(q)) \cup {Head(q)}
  <2> SUFFICES ASSUME NEW i \in 1..Len(q)
               PROVE  q[i] \in Entries(Tail(q)) \cup {Head(q)}
    BY <1>1 DEF Entries
  <2>1. CASE i = 1
    BY <1>1, <2>1
  <2>2. ASSUME NEW j \in 1..(Len(q) - 1), i = j + 1
        PROVE  q[i] \in Entries(Tail(q))
    BY <1>1, <2>2 DEF Entries
  <2> QED BY <1>2, <2>1, <2>2
<1>5. Entries(Tail(q)) \cup {Head(q)} \subseteq Entries(q)
  BY <1>1, <1>3 DEF Entries
<1>6. ASSUME Distinct(q) PROVE Distinct(Tail(q)) /\ Head(q) \notin Entries(Tail(q))
  <2>1. \A i, j \in 1..(Len(q) - 1) : i + 1 = j + 1 => i = j
    BY <1>1
  <2>2. Distinct(Tail(q))
    BY <1>1, <1>3, <1>6, <2>1 DEF Distinct
  <2>3. Head(q) \notin Entries(Tail(q))
    <3>1. 1 \in 1..Len(q)
      BY <1>1
    <3> QED BY <1>1, <1>3, <1>6, <3>1 DEF Entries, Distinct
  <2> QED BY <2>2, <2>3
<1> QED BY <1>4, <1>5, <1>6

LEMMA InitBuffers == Init => HeldOnce /\ NoneLost
<1> SUFFICES ASSUME Init PROVE HeldOnce /\ NoneLost
  OBVIOUS
<1>1. Busy = {} /\ Filling = {}
  BY DEF Init, Busy, Filling
<1>2. DOMAIN pending = {}
  BY DEF Init
<1>3. Entries(pending) = {} /\ InWork = {} /\ Distinct(pending)
  BY <1>1, <1>2 DEF Entries, InWork, Distinct
<1>4. owned \subseteq Nat /\ ready_pool = owned /\ free_list = Ring
  BY InitTypeInv DEF Init, TypeInv, PoolType
<1>5. HeldOnce
  BY <1>1, <1>3 DEF HeldOnce
<1>6. NoneLost
  BY <1>1, <1>3, <1>4, CaptureAssumption DEF NoneLost, Held
<1> QED BY <1>5, <1>6

\* A step that moves no buffer.
LEMMA BuffersKept ==
  ASSUME HeldOnce, NoneLost,
         UNCHANGED <<free_list, ready_pool, owned, pending, inHand, encoding>>
  PROVE  HeldOnce' /\ NoneLost'
<1>1. /\ Busy' = Busy /\ Filling' = Filling /\ InWork' = InWork
      /\ Entries(pending)' = Entries(pending) /\ Distinct(pending)' = Distinct(pending)
  BY DEF Busy, Filling, InWork, Entries, Distinct
<1> QED BY <1>1 DEF HeldOnce, NoneLost, Held

LEMMA TakeBuffer ==
  ASSUME BufferInv, SensorTake
  PROVE  HeldOnce' /\ NoneLost'
<1>1. PoolType /\ HandsMatchPc /\ OverflowCounted /\ HeldOnce /\ NoneLost
  BY DEF BufferInv, OverflowInv, FrameInv, TypeInv
<1>2. inHand = Nil
  BY <1>1 DEF SensorTake, HandsMatchPc
<1>3. UNCHANGED <<pending, encoding>>
  BY DEF SensorTake
<1>4. /\ Busy' = Busy /\ InWork' = InWork /\ Entries(pending)' = Entries(pending)
      /\ Distinct(pending)' = Distinct(pending)
  BY <1>3 DEF Busy, InWork, Entries, Distinct
<1>5. NewBuffer \in Nat /\ NewBuffer \notin owned /\ NewBuffer \notin Ring
  BY <1>1, GrowthFacts, NewBufferFacts, CaptureAssumption
  DEF PoolType, OverflowCounted
<1>6. inHand' \notin Held /\ inHand' # Nil
  <2>1. inHand' \in free_list \cup ready_pool \cup {NewBuffer}
    BY DEF SensorTake
  <2>2. free_list \cup ready_pool \cup Held = Ring \cup owned
        /\ Held \cap (free_list \cup ready_pool) = {}
    BY <1>1 DEF NoneLost
  <2>3. Nil \notin Ring \cup owned \cup {NewBuffer}
    BY <1>1, <1>5, CaptureAssumption DEF PoolType
  <2> QED BY <1>5, <2>1, <2>2, <2>3
<1>7. Filling = {} /\ Filling' = {inHand'}
  BY <1>2, <1>6 DEF Filling
<1>8. Held' = Held \cup {inHand'}
  BY <1>4, <1>7 DEF Held
<1>9. HeldOnce'
  BY <1>1, <1>3, <1>4, <1>6, <1>7 DEF HeldOnce, Held
<1>10. \/ /\ inHand' \in free_list /\ free_list' = free_list \ {inHand'}
          /\ UNCHANGED <<ready_pool, owned>>
       \/ /\ inHand' \in ready_pool /\ ready_pool' = ready_pool \ {inHand'}
          /\ UNCHANGED <<free_list, owned>>
       \/ /\ inHand' = NewBuffer /\ owned' = owned \cup {inHand'}
          /\ UNCHANGED <<free_list, ready_pool>>
  BY DEF SensorTake
<1>11. NoneLost'
  BY <1>1, <1>5, <1>6, <1>8, <1>10 DEF NoneLost
<1> QED BY <1>9, <1>11

LEMMA PushBuffer ==
  ASSUME BufferInv, SensorPush
  PROVE  HeldOnce' /\ NoneLost'
<1>1. FrameType /\ HandsMatchPc /\ HeldOnce /\ NoneLost
  BY DEF BufferInv, OverflowInv, FrameInv, TypeInv
<1>2. inHand \in Buffers /\ inHand # Nil /\ Filling = {inHand}
  BY <1>1 DEF SensorPush, HandsMatchPc, FrameType, Filling
<1>3. Filling' = {} /\ Busy' = Busy /\ InWork' = InWork
  BY DEF SensorPush, Filling, Busy, InWork
<1>4. pending' = Append(pending, inHand) /\ UNCHANGED <<free_list, ready_pool, owned>>
  BY DEF SensorPush, poolVars
<1>5. /\ Entries(pending)' = Entries(pending) \cup {inHand}
      /\ Distinct(pending)'
  <2>1. inHand \notin Entries(pending) /\ Distinct(pending)
    BY <1>1, <1>2 DEF HeldOnce
  <2>2. pending \in Seq(Buffers)
    BY <1>1 DEF FrameType
  <2>3. /\ Entries(Append(pending, inHand)) = Entries(pending) \cup {inHand}
        /\ Distinct(Append(pending, inHand))
    BY <1>2, <2>1, <2>2, AppendFacts
  <2> QED BY <1>4, <2>3 DEF Entries, Distinct
<1>6. HeldOnce'
  <2>1. UNCHANGED encoding
    BY DEF SensorPush
  <2> QED BY <1>1, <1>2, <1>3, <1>5, <2>1 DEF HeldOnce
<1>7. Held' = Held
  BY <1>2, <1>3, <1>5 DEF Held
<1> QED BY <1>1, <1>4, <1>6, <1>7 DEF NoneLost

LEMMA PickBuffer ==
  ASSUME BufferInv, NEW w \in Workers, WorkerTest(w)
  PROVE  HeldOnce' /\ NoneLost'
<1>1. FrameType /\ HandsMatchPc /\ HeldOnce /\ NoneLost
  BY DEF BufferInv, OverflowInv, FrameInv, TypeInv
<1>2. UNCHANGED <<free_list, ready_pool, owned, inHand>>
  BY DEF WorkerTest, poolVars
<1>3. CASE UNCHANGED <<pending, encoding>>
  BY <1>1, <1>2, <1>3, BuffersKept
<1>4. CASE /\ pending # <<>>
           /\ encoding' = [encoding EXCEPT ![w] = Head(pending)]
           /\ pending' = Tail(pending)
  <2>1. w \notin Busy
    BY <1>1 DEF WorkerTest, HandsMatchPc, IdleLabels, Busy
  <2>2. pending \in Seq(Buffers) /\ Distinct(pending)
    BY <1>1 DEF FrameType, HeldOnce
  <2>3. Head(pending) # Nil
    BY <1>4, <2>2, QueueFacts, BufferFacts
  <2>4. /\ Entries(pending) = Entries(Tail(pending)) \cup {Head(pending)}
        /\ Distinct(Tail(pending)) /\ Head(pending) \notin Entries(Tail(pending))
    BY <1>4, <2>2, TailFacts
  <2>5. /\ Entries(pending)' = Entries(Tail(pending))
        /\ Distinct(pending)'
    BY <1>4, <2>4 DEF Entries, Distinct
  <2>6. /\ Busy' = Busy \cup {w} /\ encoding'[w] = Head(pending)
        /\ \A v \in Busy : encoding'[v] = encoding[v]
    BY <1>1, <1>4, <2>1, <2>3 DEF Busy, FrameType
  <2>7. InWork' = InWork \cup {Head(pending)} /\ Filling' = Filling
    BY <1>2, <2>6 DEF InWork, Filling
  <2>8. Head(pending) \notin InWork /\ \A v \in Busy : encoding[v] # Head(pending)
    BY <1>1, <2>4 DEF HeldOnce, InWork
  <2>9. HeldOnce'
    <3>1. \A u, v \in Busy' : encoding'[u] = encoding'[v] => u = v
      BY <1>1, <2>6, <2>8 DEF HeldOnce
    <3> QED BY <1>1, <2>4, <2>5, <2>7, <2>8, <3>1 DEF HeldOnce
  <2>10. Held' = Held
    BY <2>4, <2>5, <2>7 DEF Held
  <2> QED BY <1>1, <1>2, <2>9, <2>10 DEF NoneLost
<1> QED BY <1>3, <1>4 DEF WorkerTest

LEMMA ReturnBuffer ==
  ASSUME BufferInv, NEW w \in Workers, WorkerReturn(w)
  PROVE  HeldOnce' /\ NoneLost'
<1>1. FrameType /\ HandsMatchPc /\ HeldOnce /\ NoneLost
  BY DEF BufferInv, OverflowInv, FrameInv, TypeInv
<1>2. /\ UNCHANGED <<ready_pool, owned, inHand, pending>>
      /\ free_list' = free_list \cup {encoding[w]}
  BY DEF WorkerReturn
<1>3. w \in Busy /\ encoding[w] \in InWork
  BY <1>1 DEF WorkerReturn, HandsMatchPc, Busy, InWork
<1>4. /\ Busy' = Busy \ {w}
      /\ \A v \in Busy' : encoding'[v] = encoding[v]
  BY <1>1 DEF WorkerReturn, Busy, FrameType
<1>5. InWork' = InWork \ {encoding[w]}
  BY <1>1, <1>3, <1>4 DEF InWork, HeldOnce
<1>6. /\ Entries(pending)' = Entries(pending) /\ Filling' = Filling
      /\ Distinct(pending)' = Distinct(pending)
  BY <1>2 DEF Entries, Filling, Distinct
<1>7. HeldOnce'
  BY <1>1, <1>4, <1>5, <1>6 DEF HeldOnce
<1>8. Held' = Held \ {encoding[w]} /\ encoding[w] \in Held
  BY <1>1, <1>3, <1>5, <1>6 DEF Held, HeldOnce
<1> QED BY <1>1, <1>2, <1>7, <1>8 DEF NoneLost

\* The reserver publishes a buffer nobody has seen.
LEMMA PublishBuffer ==
  ASSUME BufferInv, ReserverAllocate
  PROVE  HeldOnce' /\ NoneLost'
<1>1. PoolType /\ OverflowCounted /\ HeldOnce /\ NoneLost
  BY DEF BufferInv, OverflowInv, FrameInv, TypeInv
<1>2. UNCHANGED <<free_list, pending, inHand, encoding>>
  BY DEF ReserverAllocate, frameVars
<1>3. CASE UNCHANGED <<owned, ready_pool>>
  BY <1>1, <1>2, <1>3, BuffersKept
<1>4. CASE /\ owned' = owned \cup {NewBuffer}
           /\ ready_pool' = ready_pool \cup {NewBuffer}
  <2>1. NewBuffer \notin owned /\ NewBuffer \notin Ring
    BY <1>1, GrowthFacts, NewBufferFacts, CaptureAssumption
    DEF PoolType, OverflowCounted
  <2>2. /\ Busy' = Busy /\ Filling' = Filling /\ InWork' = InWork
        /\ Entries(pending)' = Entries(pending)
        /\ Distinct(pending)' = Distinct(pending)
    BY <1>2 DEF Busy, Filling, InWork, Entries, Distinct
  <2>3. HeldOnce' /\ Held' = Held
    BY <1>1, <1>2, <2>2 DEF HeldOnce, Held
  <2>4. NewBuffer \notin Held \cup free_list \cup ready_pool
    BY <1>1, <2>1 DEF NoneLost
  <2> QED BY <1>1, <1>2, <1>4, <2>3, <2>4 DEF NoneLost
<1> QED BY <1>3, <1>4 DEF ReserverAllocate

LEMMA BufferInvStep == BufferInv /\ [Next]_vars => BufferInv'
<1> SUFFICES ASSUME BufferInv, [Next]_vars PROVE HeldOnce' /\ NoneLost'
  BY OverflowInvStep DEF BufferInv
<1>1. HeldOnce /\ NoneLost
  BY DEF BufferInv
<1>2. CASE UNCHANGED vars
  BY <1>1, <1>2, BuffersKept DEF vars, poolVars, frameVars
<1>3. CASE Sensor /\ ~SensorTake /\ ~SensorPush
  BY <1>1, <1>3, BuffersKept
  DEF Sensor, SensorLoop, SensorFull, SensorOutOfMemory, SensorNotify, SensorStop,
      SensorNotifyAll, SensorJoin, SensorReturn, poolVars, frameVars
<1>4. CASE \E w \in Workers : WorkerStart(w) \/ WorkerThrow(w)
  BY <1>1, <1>4, BuffersKept DEF WorkerStart, WorkerThrow, poolVars, frameVars
<1>5. CASE ReserverTest \/ \E t \in Threads : Sleep(t) \/ Wake(t)
  BY <1>1, <1>5, BuffersKept DEF ReserverTest, Sleep, Wake, poolVars, frameVars
<1> QED BY <1>2, <1>3, <1>4, <1>5, ThreadFacts, TakeBuffer, PushBuffer, PickBuffer,
        ReturnBuffer, PublishBuffer
        DEF Next, Sensor, Worker, Reserve, Threads

\* As many entries as places, and one buffer for every busy worker.
LEMMA EntriesCounted ==
  ASSUME NEW S, NEW q \in Seq(S), Distinct(q)
  PROVE  IsFiniteSet(Entries(q)) /\ Cardinality(Entries(q)) = Len(q)
<1> DEFINE f == [i \in 1..Len(q) |-> q[i]]
<1>1. Len(q) \in Nat /\ DOMAIN q = 1..Len(q)
  OBVIOUS
<1>2. f \in Bijection(1..Len(q), Entries(q))
  BY <1>1 DEF Bijection, Injection, IsInjective, Surjection, Entries, Distinct
<1>3. ExistsBijection(1..Len(q), Entries(q))
  BY <1>2 DEF ExistsBijection
<1> QED BY <1>1, <1>3, PreallocFinite, FS_Bijection

LEMMA InWorkCounted ==
  ASSUME HeldOnce
  PROVE  IsFiniteSet(InWork) /\ Cardinality(InWork) = Cardinality(Busy)
<1> DEFINE f == [w \in Busy |-> encoding[w]]
<1>1. f \in Bijection(Busy, InWork)
  BY DEF Bijection, Injection, IsInjective, Surjection, InWork, HeldOnce
<1>2. ExistsBijection(Busy, InWork)
  BY <1>1 DEF ExistsBijection
<1> QED BY <1>2, BusyFacts, FS_Bijection

LEMMA DisjointUnion ==
  ASSUME NEW S, IsFiniteSet(S), NEW T, IsFiniteSet(T), S \cap T = {}
  PROVE  /\ IsFiniteSet(S \cup T)
         /\ Cardinality(S \cup T) = Cardinality(S) + Cardinality(T)
<1>1. Cardinality(S \cap T) = 0
  BY FS_EmptySet
<1>2. Cardinality(S) \in Nat /\ Cardinality(T) \in Nat
  BY FS_CardinalityType
<1>3. /\ IsFiniteSet(S \cup T)
      /\ Cardinality(S \cup T) = Cardinality(S) + Cardinality(T) - Cardinality(S \cap T)
  BY FS_Union
<1> QED BY <1>1, <1>2, <1>3

LEMMA BufferInvImplies == BufferInv => OneFramePerBuffer
<1> SUFFICES ASSUME BufferInv PROVE OneFramePerBuffer
  OBVIOUS
<1>1. PoolType /\ FrameType /\ HeldOnce /\ NoneLost
  BY DEF BufferInv, OverflowInv, FrameInv, TypeInv
<1>2. InUse = Held
  <2>1. Nil \notin Ring \cup owned
    BY <1>1, CaptureAssumption DEF PoolType
  <2>2. \A b \in Ring \cup owned : Used(b) <=> b \in Held
    BY <2>1 DEF Used, Held, Filling, Entries, InWork, Busy
  <2>3. Held \subseteq Ring \cup owned
    BY <1>1 DEF NoneLost
  <2> QED BY <2>2, <2>3 DEF InUse
<1>3. /\ IsFiniteSet(Entries(pending)) /\ Cardinality(Entries(pending)) = Len(pending)
      /\ Len(pending) \in Nat
  BY <1>1, EntriesCounted DEF FrameType, HeldOnce
<1>4. IsFiniteSet(InWork) /\ Cardinality(InWork) = Cardinality(Busy)
  BY <1>1, InWorkCounted
<1>5. /\ IsFiniteSet(Filling)
      /\ Cardinality(Filling) = IF inHand = Nil THEN 0 ELSE 1
  <2>1. Filling = IF inHand = Nil THEN {} ELSE {inHand}
    BY DEF Filling
  <2> QED BY <2>1, FS_EmptySet, FS_Singleton
<1>6. /\ IsFiniteSet(Filling \cup Entries(pending))
      /\ Cardinality(Filling \cup Entries(pending)) = Cardinality(Filling) + Len(pending)
  <2>1. Filling \cap Entries(pending) = {}
    BY <1>1 DEF HeldOnce
  <2> QED BY <1>3, <1>5, <2>1, DisjointUnion
<1>7. Cardinality(Held) = Cardinality(Filling) + Len(pending) + Cardinality(Busy)
  <2>1. (Filling \cup Entries(pending)) \cap InWork = {}
    BY <1>1 DEF HeldOnce
  <2> QED BY <1>4, <1>6, <2>1, DisjointUnion DEF Held
<1> QED BY <1>1, <1>2, <1>5, <1>7 DEF OneFramePerBuffer, NoneLost, Busy

\* Whatever the ring, the overflow and the workers: two frames never share a
\* buffer and no buffer is lost.
THEOREM BuffersAreExclusive == Spec => []OneFramePerBuffer
<1>1. Init => BufferInv
  BY InitFrameInv, InitOverflow, InitBuffers DEF BufferInv, OverflowInv
<1> QED BY <1>1, BufferInvStep, BufferInvImplies, PTL DEF Spec
=============================================================================
