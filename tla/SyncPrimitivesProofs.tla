------------------------ MODULE SyncPrimitivesProofs ------------------------
(***************************************************************************)
(* Proofs about the two primitives the threads and processes meet in.      *)
(*                                                                         *)
(* Queue<T>, for every number of threads and every capacity: no wakeup is  *)
(* lost, and every step is a step of the queue the stages rely on          *)
(* (BoundedQueue).                                                         *)
(*                                                                         *)
(* The seqlock of the live statistics, for any payload, any number of      *)
(* publications and any order of the words' loads and stores: no torn      *)
(* snapshot passes it.  A reader whose first load of the sequence still    *)
(* holds has only loaded words of the publication that sequence counts.    *)
(***************************************************************************)
EXTENDS QueueMonitor, LiveStats, FiniteSetTheorems, TLAPS

-----------------------------------------------------------------------------
(* The queue.                                                              *)

PopCalls == {"pop", "try_pop", "pop_until"}

TypeInv ==
    /\ queue \in Seq(Nat) /\ Len(queue) <= Capacity
    /\ closed \in BOOLEAN
    /\ pc \in [Threads -> {"idle", "calling", "blocked"}]
    /\ op \in [Threads -> PopCalls \cup {"push", "none"}]
    /\ pushed \in Nat

\* Producers only push, consumers only pop, and a try_pop never waits.
RightCall ==
    /\ \A p \in Producers : pc[p] # "idle" => op[p] = "push"
    /\ \A c \in Consumers : pc[c] # "idle" => op[c] \in PopCalls

QueueInv == TypeInv /\ RightCall /\ NoMissedWakeup

LEMMA ThreadFacts ==
  /\ IsFiniteSet(Producers) /\ IsFiniteSet(Consumers)
  /\ \A p \in Producers : p \notin Consumers
  /\ Producers \subseteq Threads /\ Consumers \subseteq Threads
  /\ Capacity \in Nat \ {0}
  BY QueueAssumption DEF Threads

LEMMA CallingFacts ==
  /\ IsFiniteSet(Calling(Producers)) /\ Cardinality(Calling(Producers)) \in Nat
  /\ IsFiniteSet(Calling(Consumers)) /\ Cardinality(Calling(Consumers)) \in Nat
  BY ThreadFacts, FS_Subset, FS_CardinalityType DEF Calling

LEMMA QueueFacts ==
  ASSUME NEW q \in Seq(Nat)
  PROVE  /\ Len(q) \in Nat
         /\ \A e \in Nat : Append(q, e) \in Seq(Nat) /\ Len(Append(q, e)) = Len(q) + 1
         /\ q = <<>> <=> Len(q) = 0
         /\ q # <<>> => /\ Head(q) \in Nat /\ Tail(q) \in Seq(Nat)
                        /\ Len(Tail(q)) = Len(q) - 1
  OBVIOUS

LEMMA InitQueueInv == Init => QueueInv
<1> SUFFICES ASSUME Init PROVE QueueInv
  OBVIOUS
<1>1. queue \in Seq(Nat) /\ Len(queue) = 0
  BY DEF Init
<1>2. TypeInv /\ RightCall
  <2>1. /\ closed = FALSE /\ pushed = 0
        /\ pc = [t \in Threads |-> "idle"] /\ op = [t \in Threads |-> "none"]
    BY DEF Init
  <2>2. Len(queue) <= Capacity
    BY <1>1, ThreadFacts
  <2>3. RightCall
    BY <2>1, ThreadFacts DEF RightCall
  <2> QED BY <1>1, <2>1, <2>2, <2>3 DEF TypeInv
<1>3. Blocked(Producers) = {} /\ Blocked(Consumers) = {} /\ Blocked(Threads) = {}
  BY ThreadFacts DEF Init, Blocked, Threads
<1>4. NoMissedWakeup
  BY <1>3 DEF NoMissedWakeup, Init
<1> QED BY <1>2, <1>4 DEF QueueInv

-----------------------------------------------------------------------------
(* Who is awake.                                                           *)

\* One thread starts or stops calling.
LEMMA JoinFacts ==
  ASSUME NEW S, IsFiniteSet(S), pc \in [Threads -> {"idle", "calling", "blocked"}],
         S \subseteq Threads, NEW t \in Threads, NEW label,
         pc' = [pc EXCEPT ![t] = label]
  PROVE  /\ t \notin S => Calling(S)' = Calling(S) /\ Blocked(S)' = Blocked(S)
         /\ t \in S /\ pc[t] = "calling" /\ label # "calling" =>
               Cardinality(Calling(S)') = Cardinality(Calling(S)) - 1
         /\ t \in S /\ pc[t] # "calling" /\ label = "calling" =>
               Cardinality(Calling(S)') = Cardinality(Calling(S)) + 1
         /\ label # "blocked" => Blocked(S)' = Blocked(S) \ {t}
<1>1. t \notin S => Calling(S)' = Calling(S) /\ Blocked(S)' = Blocked(S)
  BY DEF Calling, Blocked
<1>2. IsFiniteSet(Calling(S))
  BY FS_Subset DEF Calling
<1>3. ASSUME t \in S, pc[t] = "calling", label # "calling"
      PROVE  Cardinality(Calling(S)') = Cardinality(Calling(S)) - 1
  <2>1. Calling(S)' = Calling(S) \ {t} /\ t \in Calling(S)
    BY <1>3 DEF Calling
  <2> QED BY <1>2, <2>1, FS_RemoveElement
<1>4. ASSUME t \in S, pc[t] # "calling", label = "calling"
      PROVE  Cardinality(Calling(S)') = Cardinality(Calling(S)) + 1
  <2>1. Calling(S)' = Calling(S) \cup {t} /\ t \notin Calling(S)
    BY <1>4 DEF Calling
  <2> QED BY <1>2, <2>1, FS_AddElement
<1>5. label # "blocked" => Blocked(S)' = Blocked(S) \ {t}
  BY DEF Blocked
<1> QED BY <1>1, <1>3, <1>4, <1>5

\* A call ends and notifies the other side: nobody waited there, or one more
\* of them is awake.
LEMMA NotifyFacts ==
  ASSUME NEW Mine, NEW Others, IsFiniteSet(Mine), IsFiniteSet(Others),
         Mine \subseteq Threads, Others \subseteq Threads, Mine \cap Others = {},
         pc \in [Threads -> {"idle", "calling", "blocked"}],
         NEW t \in Mine, pc[t] = "calling", GotoNotifyingOne(t, "idle", Others)
  PROVE  /\ pc' \in [Threads -> {"idle", "calling", "blocked"}]
         /\ pc'[t] = "idle" /\ \A u \in Threads : u # t /\ pc'[u] # "idle" => pc[u] # "idle"
         /\ \A u \in Threads : u # t => (pc'[u] = "idle" <=> pc[u] = "idle")
         /\ Blocked(Mine)' = Blocked(Mine)
         /\ Cardinality(Calling(Mine)') = Cardinality(Calling(Mine)) - 1
         /\ \/ Blocked(Others)' = {}
            \/ Cardinality(Calling(Others)') = Cardinality(Calling(Others)) + 1
         /\ Blocked(Threads) = {} => Blocked(Threads)' = {}
<1>1. IsFiniteSet(Calling(Mine)) /\ IsFiniteSet(Calling(Others))
  BY FS_Subset DEF Calling
<1>2. /\ pc' \in [Threads -> {"idle", "calling", "blocked"}]
      /\ \A u \in Threads : u # t => (pc'[u] = "idle" <=> pc[u] = "idle")
      /\ pc'[t] = "idle"
      /\ \A u \in Mine : u # t => pc'[u] = pc[u]
      /\ Blocked(Threads) = {} => Blocked(Threads)' = {}
  BY DEF GotoNotifyingOne, Blocked
<1>3. Blocked(Mine)' = Blocked(Mine) /\ Calling(Mine)' = Calling(Mine) \ {t}
      /\ t \in Calling(Mine)
  BY <1>2 DEF Blocked, Calling
<1>4. Cardinality(Calling(Mine)') = Cardinality(Calling(Mine)) - 1
  BY <1>1, <1>3, FS_RemoveElement
<1>5. CASE Blocked(Others) = {} /\ pc' = [pc EXCEPT ![t] = "idle"]
  <2>1. Blocked(Others)' = {}
    BY <1>5 DEF Blocked
  <2> QED BY <1>2, <1>3, <1>4, <2>1
<1>6. CASE \E r \in Blocked(Others) :
              pc' = [pc EXCEPT ![t] = "idle", ![r] = "calling"]
  <2>1. PICK r \in Blocked(Others) :
           pc' = [pc EXCEPT ![t] = "idle", ![r] = "calling"]
    BY <1>6
  <2>2. Calling(Others)' = Calling(Others) \cup {r} /\ r \notin Calling(Others)
    BY <2>1 DEF Blocked, Calling
  <2>3. Cardinality(Calling(Others)') = Cardinality(Calling(Others)) + 1
    BY <1>1, <2>2, FS_AddElement
  <2> QED BY <1>2, <1>3, <1>4, <2>3
<1> QED BY <1>5, <1>6 DEF GotoNotifyingOne

-----------------------------------------------------------------------------
(* No wakeup is lost: one lemma per action.                                *)

LEMMA CallStep ==
  ASSUME QueueInv, NEW t \in Threads, NEW name, Call(t, name),
         \/ t \in Producers /\ name = "push"
         \/ t \in Consumers /\ name \in PopCalls
  PROVE  QueueInv'
<1>1. TypeInv /\ RightCall /\ NoMissedWakeup
  BY DEF QueueInv
<1>2. /\ pc' = [pc EXCEPT ![t] = "calling"] /\ pc[t] = "idle"
      /\ op' = [op EXCEPT ![t] = name]
      /\ UNCHANGED <<queue, closed, pushed>>
  BY DEF Call
<1>3. TypeInv'
  BY <1>1, <1>2 DEF TypeInv, PopCalls
<1>4. RightCall'
  BY <1>1, <1>2, ThreadFacts DEF RightCall, TypeInv
<1>5. \A S \in SUBSET Threads : Blocked(S)' = Blocked(S)
  BY <1>1, <1>2 DEF Blocked, TypeInv
<1>6. \A S \in {Producers, Consumers} : Cardinality(Calling(S)') >= Cardinality(Calling(S))
  <2>1. ASSUME NEW S \in {Producers, Consumers}
        PROVE  \/ Cardinality(Calling(S)') = Cardinality(Calling(S))
               \/ Cardinality(Calling(S)') = Cardinality(Calling(S)) + 1
    BY <1>1, <1>2, JoinFacts, ThreadFacts DEF TypeInv
  <2> QED BY <2>1, CallingFacts
<1>7. NoMissedWakeup'
  <2>1. Cardinality(Calling(Producers)') \in Nat /\ Cardinality(Calling(Consumers)') \in Nat
    BY ThreadFacts, FS_Subset, FS_CardinalityType DEF Calling
  <2>2. Len(queue) \in Nat /\ Capacity - Len(queue) \in Int
    BY <1>1, QueueFacts, ThreadFacts DEF TypeInv
  <2> QED BY <1>1, <1>2, <1>5, <1>6, <2>1, <2>2, ThreadFacts, CallingFacts DEF NoMissedWakeup
<1> QED BY <1>3, <1>4, <1>7 DEF QueueInv

LEMMA WakeStep ==
  ASSUME QueueInv, NEW t \in Threads, Wake(t)
  PROVE  QueueInv'
<1>1. TypeInv /\ RightCall /\ NoMissedWakeup
  BY DEF QueueInv
<1>2. /\ pc' = [pc EXCEPT ![t] = "calling"] /\ pc[t] = "blocked"
      /\ UNCHANGED <<queue, closed, op, pushed>>
  BY DEF Wake
<1>3. TypeInv' /\ RightCall'
  BY <1>1, <1>2, ThreadFacts DEF TypeInv, RightCall
<1>4. \A S \in SUBSET Threads : Blocked(S)' \subseteq Blocked(S)
  BY <1>1, <1>2 DEF Blocked, TypeInv
<1>5. \A S \in {Producers, Consumers} : Cardinality(Calling(S)') >= Cardinality(Calling(S))
  <2>1. ASSUME NEW S \in {Producers, Consumers}
        PROVE  \/ Cardinality(Calling(S)') = Cardinality(Calling(S))
               \/ Cardinality(Calling(S)') = Cardinality(Calling(S)) + 1
    BY <1>1, <1>2, JoinFacts, ThreadFacts DEF TypeInv
  <2> QED BY <2>1, CallingFacts
<1>6. NoMissedWakeup'
  <2>1. Cardinality(Calling(Producers)') \in Nat /\ Cardinality(Calling(Consumers)') \in Nat
    BY ThreadFacts, FS_Subset, FS_CardinalityType DEF Calling
  <2>2. Len(queue) \in Nat /\ Capacity - Len(queue) \in Int
    BY <1>1, QueueFacts, ThreadFacts DEF TypeInv
  <2>3. \A S \in {Producers, Consumers, Threads} : Blocked(S)' # {} => Blocked(S) # {}
    BY <1>4, ThreadFacts
  <2> QED BY <1>1, <1>2, <1>5, <2>1, <2>2, <2>3, CallingFacts DEF NoMissedWakeup
<1> QED BY <1>3, <1>6 DEF QueueInv

\* A thread waits only when there is nothing for it.
LEMMA WaitStep ==
  ASSUME QueueInv, NEW t \in Threads, Wait(t)
  PROVE  QueueInv'
<1>1. TypeInv /\ RightCall /\ NoMissedWakeup
  BY DEF QueueInv
<1>2. /\ pc' = [pc EXCEPT ![t] = "blocked"] /\ pc[t] = "calling" /\ ~closed
      /\ UNCHANGED <<queue, closed, op, pushed>>
  BY DEF Wait
<1>3. TypeInv' /\ RightCall'
  BY <1>1, <1>2, ThreadFacts DEF TypeInv, RightCall
<1>4. Len(queue) \in Nat /\ Capacity - Len(queue) \in Int
  BY <1>1, QueueFacts, ThreadFacts DEF TypeInv
<1>5. CASE t \in Producers
  <2>1. Len(queue) >= Capacity
    BY <1>1, <1>5, <1>2 DEF Wait, RightCall, PopCalls
  <2>2. Calling(Consumers)' = Calling(Consumers) /\ Blocked(Consumers)' = Blocked(Consumers)
    BY <1>1, <1>2, <1>5, ThreadFacts, JoinFacts DEF TypeInv
  <2>3. Capacity - Len(queue) <= 0 /\ Cardinality(Calling(Producers)') \in Nat
    BY <1>4, <2>1, ThreadFacts, FS_Subset, FS_CardinalityType DEF Calling
  <2>4. Capacity - Len(queue) <= Cardinality(Calling(Producers)')
    BY <1>4, <2>3
  <2> QED BY <1>1, <1>2, <1>3, <2>2, <2>4 DEF NoMissedWakeup, QueueInv
<1>6. CASE t \in Consumers
  <2>1. queue = <<>>
    BY <1>1, <1>6, <1>2 DEF Wait, RightCall, PopCalls
  <2>2. Calling(Producers)' = Calling(Producers) /\ Blocked(Producers)' = Blocked(Producers)
    BY <1>1, <1>2, <1>6, ThreadFacts, JoinFacts DEF TypeInv
  <2>3. Len(queue) = 0 /\ Cardinality(Calling(Consumers)') \in Nat
    BY <2>1, ThreadFacts, FS_Subset, FS_CardinalityType DEF Calling
  <2> QED BY <1>1, <1>2, <1>3, <2>2, <2>3 DEF NoMissedWakeup, QueueInv
<1> QED BY <1>5, <1>6 DEF Threads

LEMMA PushStep ==
  ASSUME QueueInv, NEW t \in Threads, Push(t)
  PROVE  QueueInv'
<1>1. TypeInv /\ RightCall /\ NoMissedWakeup
  BY DEF QueueInv
<1>2. /\ pc[t] = "calling" /\ ~closed /\ Len(queue) < Capacity
      /\ queue' = Append(queue, pushed + 1) /\ pushed' = pushed + 1
      /\ GotoNotifyingOne(t, "idle", Consumers) /\ UNCHANGED <<closed, op>>
  BY DEF Push
<1>3. t \in Producers /\ Producers \cap Consumers = {}
  BY <1>1, <1>2, ThreadFacts DEF Push, RightCall, PopCalls, Threads
<1>4. /\ pushed + 1 \in Nat /\ Len(queue) \in Nat /\ Capacity \in Nat
      /\ queue' \in Seq(Nat) /\ Len(queue') = Len(queue) + 1
  <2>1. pushed + 1 \in Nat
    BY <1>1 DEF TypeInv
  <2> QED BY <1>1, <1>2, <2>1, QueueFacts, ThreadFacts DEF TypeInv
<1>5. /\ pc' \in [Threads -> {"idle", "calling", "blocked"}] /\ pc'[t] = "idle"
      /\ \A u \in Threads : u # t /\ pc'[u] # "idle" => pc[u] # "idle"
      /\ Blocked(Producers)' = Blocked(Producers)
      /\ Cardinality(Calling(Producers)') = Cardinality(Calling(Producers)) - 1
      /\ \/ Blocked(Consumers)' = {}
         \/ Cardinality(Calling(Consumers)') = Cardinality(Calling(Consumers)) + 1
  BY <1>1, <1>2, <1>3, ThreadFacts, NotifyFacts DEF TypeInv
<1>6. TypeInv'
  BY <1>1, <1>2, <1>4, <1>5 DEF TypeInv
<1>7. RightCall'
  BY <1>1, <1>2, <1>5, ThreadFacts DEF RightCall
<1>8. Blocked(Consumers)' # {} => Blocked(Consumers) # {}
  BY <1>1, <1>2, ThreadFacts DEF TypeInv, GotoNotifyingOne, Blocked
<1>9. Blocked(Consumers)' # {} => Len(queue') <= Cardinality(Calling(Consumers)')
  <2> HAVE Blocked(Consumers)' # {}
  <2>1. Len(queue) <= Cardinality(Calling(Consumers))
    BY <1>1, <1>8 DEF NoMissedWakeup
  <2>2. Cardinality(Calling(Consumers)') = Cardinality(Calling(Consumers)) + 1
    BY <1>5
  <2> QED BY <1>4, <2>1, <2>2, CallingFacts
<1>10. Blocked(Producers)' # {} =>
          Capacity - Len(queue') <= Cardinality(Calling(Producers)')
  BY <1>1, <1>4, <1>5, CallingFacts DEF NoMissedWakeup
<1> QED BY <1>2, <1>6, <1>7, <1>9, <1>10 DEF QueueInv, NoMissedWakeup

LEMMA PopStep ==
  ASSUME QueueInv, NEW t \in Threads, Pop(t)
  PROVE  QueueInv'
<1>1. TypeInv /\ RightCall /\ NoMissedWakeup
  BY DEF QueueInv
<1>2. /\ pc[t] = "calling" /\ op[t] # "push" /\ queue # <<>>
      /\ queue' = Tail(queue)
      /\ GotoNotifyingOne(t, "idle", Producers) /\ UNCHANGED <<closed, op, pushed>>
  BY DEF Pop
<1>3. t \in Consumers /\ Consumers \cap Producers = {}
  BY <1>1, <1>2, ThreadFacts DEF RightCall, Threads
<1>4. /\ Len(queue) \in Nat /\ Capacity \in Nat /\ Len(queue) <= Capacity
      /\ queue' \in Seq(Nat) /\ Len(queue') = Len(queue) - 1
  BY <1>1, <1>2, QueueFacts, ThreadFacts DEF TypeInv
<1>5. /\ pc' \in [Threads -> {"idle", "calling", "blocked"}] /\ pc'[t] = "idle"
      /\ \A u \in Threads : u # t /\ pc'[u] # "idle" => pc[u] # "idle"
      /\ Blocked(Consumers)' = Blocked(Consumers)
      /\ Cardinality(Calling(Consumers)') = Cardinality(Calling(Consumers)) - 1
      /\ \/ Blocked(Producers)' = {}
         \/ Cardinality(Calling(Producers)') = Cardinality(Calling(Producers)) + 1
      /\ Blocked(Threads) = {} => Blocked(Threads)' = {}
  BY <1>1, <1>2, <1>3, ThreadFacts, NotifyFacts DEF TypeInv
<1>6. TypeInv'
  BY <1>1, <1>2, <1>4, <1>5 DEF TypeInv
<1>7. RightCall'
  BY <1>1, <1>2, <1>5, ThreadFacts DEF RightCall
<1>8. Blocked(Producers)' # {} => Blocked(Producers) # {}
  BY <1>1, <1>2, ThreadFacts DEF TypeInv, GotoNotifyingOne, Blocked
<1>9. Blocked(Producers)' # {} =>
          Capacity - Len(queue') <= Cardinality(Calling(Producers)')
  <2> HAVE Blocked(Producers)' # {}
  <2>1. Capacity - Len(queue) <= Cardinality(Calling(Producers))
    BY <1>1, <1>8 DEF NoMissedWakeup
  <2>2. Cardinality(Calling(Producers)') = Cardinality(Calling(Producers)) + 1
    BY <1>5
  <2> QED BY <1>4, <2>1, <2>2, CallingFacts
<1>10. Blocked(Consumers)' # {} => Len(queue') <= Cardinality(Calling(Consumers)')
  BY <1>1, <1>4, <1>5, CallingFacts DEF NoMissedWakeup
<1>11. closed' => Blocked(Threads)' = {}
  BY <1>1, <1>2, <1>5 DEF NoMissedWakeup
<1> QED BY <1>6, <1>7, <1>9, <1>10, <1>11 DEF QueueInv, NoMissedWakeup

\* A thread is turned away when nobody waits any more, or empty-handed.
LEMMA RefuseStep ==
  ASSUME QueueInv, NEW t \in Threads, Refuse(t)
  PROVE  QueueInv'
<1>1. TypeInv /\ RightCall /\ NoMissedWakeup
  BY DEF QueueInv
<1>2. /\ pc' = [pc EXCEPT ![t] = "idle"] /\ pc[t] = "calling"
      /\ UNCHANGED <<queue, closed, op, pushed>>
      /\ closed \/ (t \in Consumers /\ queue = <<>>)
  BY <1>1 DEF Refuse, RightCall, Threads
<1>3. TypeInv' /\ RightCall'
  BY <1>1, <1>2, ThreadFacts DEF TypeInv, RightCall
<1>4. \A S \in SUBSET Threads : Blocked(S)' = Blocked(S)
  BY <1>1, <1>2 DEF Blocked, TypeInv
<1>5. CASE closed
  <2>1. Blocked(Producers) = {} /\ Blocked(Consumers) = {} /\ Blocked(Threads) = {}
    BY <1>1, <1>5, ThreadFacts DEF NoMissedWakeup, Blocked
  <2> QED BY <1>3, <1>4, <2>1, ThreadFacts DEF NoMissedWakeup, QueueInv
<1>6. CASE ~closed /\ t \in Consumers /\ queue = <<>>
  <2>1. Len(queue) = 0 /\ Cardinality(Calling(Consumers)') \in Nat
    BY <1>6, ThreadFacts, FS_Subset, FS_CardinalityType DEF Calling
  <2>2. Calling(Producers)' = Calling(Producers)
    BY <1>1, <1>2, <1>6, ThreadFacts, JoinFacts DEF TypeInv
  <2> QED BY <1>1, <1>2, <1>3, <1>4, <1>6, <2>1, <2>2, ThreadFacts
          DEF NoMissedWakeup, QueueInv
<1> QED BY <1>2, <1>5, <1>6

LEMMA CloseStep ==
  ASSUME QueueInv, Close
  PROVE  QueueInv'
<1>1. TypeInv /\ RightCall
  BY DEF QueueInv
<1>2. TypeInv' /\ RightCall'
  BY <1>1, ThreadFacts DEF Close, TypeInv, RightCall
<1>3. \A S \in SUBSET Threads : Blocked(S)' = {}
  BY <1>1 DEF Close, Blocked, TypeInv
<1> QED BY <1>2, <1>3, ThreadFacts DEF QueueInv, NoMissedWakeup

LEMMA QueueInvStep == QueueInv /\ [Next]_vars => QueueInv'
<1> SUFFICES ASSUME QueueInv, [Next]_vars PROVE QueueInv'
  OBVIOUS
<1>1. CASE UNCHANGED vars
  BY <1>1 DEF vars, QueueInv, TypeInv, RightCall, NoMissedWakeup, Blocked, Calling
<1>2. CASE Next
  BY <1>2, CallStep, WakeStep, WaitStep, PushStep, PopStep, RefuseStep, CloseStep,
     ThreadFacts DEF Next, Serve, PopCalls
<1> QED BY <1>1, <1>2

\* Whatever the number of threads and the capacity, notify_one is enough: while
\* a thread waits there are as many of its side awake as there are items, or
\* free places, for them; and nobody waits on a closed queue.
THEOREM NoWakeupIsLost == Spec => []NoMissedWakeup
<1>1. QueueInv => NoMissedWakeup
  BY DEF QueueInv
<1> QED BY <1>1, InitQueueInv, QueueInvStep, PTL DEF Spec

-----------------------------------------------------------------------------
(* Every step of the monitor is a step of the queue it promises, or none.  *)

Inside == {t \in Threads : pc[t] # "idle"}

\* A thread enters or leaves its call; the other threads do neither.
LEMMA InsideFacts ==
  ASSUME TypeInv, NEW t \in Threads, pc' \in [Threads -> {"idle", "calling", "blocked"}],
         \A u \in Threads : u # t => (pc'[u] = "idle" <=> pc[u] = "idle")
  PROVE  /\ pc[t] = "idle" /\ pc'[t] # "idle" => t \notin Inside /\ Inside' = Inside \cup {t}
         /\ pc[t] # "idle" /\ pc'[t] = "idle" => t \in Inside /\ Inside' = Inside \ {t}
         /\ pc[t] # "idle" /\ pc'[t] # "idle" => Inside' = Inside
  BY DEF Inside, TypeInv

LEMMA StepIsPromised ==
  ASSUME QueueInv, Next
  PROVE  Promise!Next \/ UNCHANGED Promise!queueVars
<1>1. TypeInv /\ RightCall /\ pc \in [Threads -> {"idle", "calling", "blocked"}]
  BY DEF QueueInv, TypeInv
<1>2. ASSUME NEW t \in Threads, NEW name, Call(t, name) PROVE Promise!Call(t)
  <2>1. /\ pc[t] = "idle" /\ pc' = [pc EXCEPT ![t] = "calling"]
        /\ UNCHANGED <<queue, closed, pushed, popped>>
    BY <1>2 DEF Call
  <2>2. t \notin Inside /\ Inside' = Inside \cup {t}
    BY <1>1, <2>1, InsideFacts
  <2> QED BY <2>1, <2>2 DEF Promise!Call, Inside
<1>3. ASSUME NEW t \in Threads, Wait(t) \/ Wake(t) PROVE UNCHANGED Promise!queueVars
  <2>1. /\ pc[t] # "idle" /\ UNCHANGED <<queue, closed, pushed, popped>>
        /\ \E l \in {"calling", "blocked"} : pc' = [pc EXCEPT ![t] = l]
    BY <1>3 DEF Wait, Wake
  <2>2. Inside' = Inside
    BY <1>1, <2>1, InsideFacts
  <2> QED BY <2>1, <2>2 DEF Promise!queueVars, Inside
<1>4. ASSUME NEW t \in Threads, Push(t) PROVE t \in Producers /\ Promise!Accept(t)
  <2>1. /\ pc[t] = "calling" /\ ~closed /\ Len(queue) < Capacity
        /\ queue' = Append(queue, pushed + 1) /\ pushed' = pushed + 1
        /\ GotoNotifyingOne(t, "idle", Consumers) /\ UNCHANGED <<closed, popped>>
    BY <1>4 DEF Push
  <2>2. t \in Producers /\ Producers \cap Consumers = {}
    BY <1>1, <1>4, ThreadFacts DEF Push, RightCall, PopCalls, Threads
  <2>3. t \in Inside /\ Inside' = Inside \ {t}
    BY <1>1, <2>1, <2>2, NotifyFacts, ThreadFacts, InsideFacts
  <2> QED BY <2>1, <2>2, <2>3 DEF Promise!Accept, Inside
<1>5. ASSUME NEW t \in Threads, Pop(t) PROVE t \in Consumers /\ Promise!Give(t)
  <2>1. /\ pc[t] = "calling" /\ op[t] # "push" /\ queue # <<>>
        /\ queue' = Tail(queue) /\ popped' = Append(popped, Head(queue))
        /\ GotoNotifyingOne(t, "idle", Producers) /\ UNCHANGED <<closed, pushed>>
    BY <1>5 DEF Pop
  <2>2. t \in Consumers /\ Consumers \cap Producers = {}
    BY <1>1, <2>1, ThreadFacts DEF RightCall, Threads
  <2>3. t \in Inside /\ Inside' = Inside \ {t}
    BY <1>1, <2>1, <2>2, NotifyFacts, ThreadFacts, InsideFacts
  <2> QED BY <2>1, <2>2, <2>3 DEF Promise!Give, Inside
<1>6. ASSUME NEW t \in Threads, Refuse(t) PROVE Promise!Refuse(t)
  <2>1. /\ pc[t] = "calling" /\ pc' = [pc EXCEPT ![t] = "idle"]
        /\ UNCHANGED <<queue, closed, pushed, popped>>
        /\ closed \/ (queue = <<>> /\ t \in Consumers)
    BY <1>1, <1>6 DEF Refuse, RightCall, Threads
  <2>2. t \in Inside /\ Inside' = Inside \ {t}
    BY <1>1, <2>1, InsideFacts
  <2> QED BY <2>1, <2>2 DEF Promise!Refuse, Inside
<1>7. ASSUME Close PROVE Promise!Close
  <2>1. Inside' = Inside
    BY <1>1, <1>7 DEF Close, Inside
  <2> QED BY <1>7, <2>1 DEF Close, Promise!Close, Inside
<1> QED BY <1>2, <1>3, <1>4, <1>5, <1>6, <1>7, ThreadFacts
        DEF Next, Serve, Promise!Next, Threads

\* The safety of ImplementsQueue for any number of threads and any capacity:
\* what the monitor does is what a bounded FIFO may do.
THEOREM StepsArePromised ==
  Spec => Promise!Init /\ [][Promise!Next]_(Promise!queueVars)
<1>1. Init => Promise!Init
  BY ThreadFacts DEF Init, Promise!Init
<1>2. QueueInv /\ [Next]_vars => [Promise!Next]_(Promise!queueVars)
  <2>1. UNCHANGED vars => UNCHANGED Promise!queueVars
    BY DEF vars, Promise!queueVars
  <2> QED BY <2>1, StepIsPromised
<1> QED BY <1>1, <1>2, InitQueueInv, QueueInvStep, PTL DEF Spec

-----------------------------------------------------------------------------
(* The live statistics.                                                    *)

\* The writer's half: at rest the block holds publication n, and an even
\* sequence says which; while it is written the sequence is odd.
WriterInv ==
    /\ n \in Nat /\ sequence \in Nat /\ word \in [Words -> Nat]
    /\ left \subseteq Words
    /\ wpc \in {"idle", "copy", "done"}
    /\ wpc # "copy" => sequence = 2 * n /\ \A w \in Words : word[w] = n
    /\ wpc = "copy" => /\ sequence = 2 * n - 1 /\ keep = sequence
                       /\ \A w \in Words \ left : word[w] = n

\* The reader's half.
ReaderInv ==
    /\ seq1 \in Nat /\ copy \in [Words -> Nat] /\ missing \subseteq Words
    /\ seq1 <= sequence
    /\ rpc = "copy" =>
         /\ seq1 % 2 = 0
         /\ sequence = seq1 => \A w \in Words \ missing : 2 * copy[w] = seq1
    /\ rpc = "accepted" => \A w \in Words : 2 * copy[w] = seq1
    /\ ~torn

LiveInv == ~run.buggy => WriterInv /\ ReaderInv

LEMMA LiveInvInit == LiveInit => LiveInv
  BY DEF LiveInit, LiveInv, WriterInv, ReaderInv, Zero

\* Nothing of the block or of the writer changes: only the reader's half is
\* left to show.
LEMMA WriterStands ==
    ASSUME WriterInv, UNCHANGED <<mapping, writerVars>>
    PROVE  WriterInv'
  BY DEF WriterInv, mapping, writerVars

LEMMA ReaderStands ==
    ASSUME ReaderInv, UNCHANGED <<mapping, readerVars>>
    PROVE  ReaderInv'
  BY DEF ReaderInv, mapping, readerVars

LEMMA BeginPublishStep ==
    ASSUME ~run.buggy, WriterInv, ReaderInv, BeginPublish
    PROVE  WriterInv' /\ ReaderInv'
  <1>1. wpc = "idle" /\ n \in Nat /\ sequence = 2 * n
    BY DEF BeginPublish, WriterInv
  <1>2. /\ n' = n + 1 /\ sequence' = sequence + 1 /\ keep' = sequence + 1
        /\ left' = Words /\ wpc' = "copy" /\ word' = word
    BY DEF BeginPublish, Fields
  <1>3. sequence' = 2 * n' - 1 /\ n' \in Nat /\ sequence' \in Nat
    BY ONLY <1>1, <1>2
  <1>4. WriterInv'
    BY <1>2, <1>3 DEF WriterInv
  <1>5. seq1 \in Nat /\ seq1 <= sequence /\ sequence \in Nat
    BY DEF ReaderInv, WriterInv
  <1>6. seq1 <= sequence' /\ sequence' # seq1
    BY ONLY <1>2, <1>5
  <1> QED BY <1>4, <1>6 DEF ReaderInv, BeginPublish, readerVars

LEMMA StoreFieldStep ==
    ASSUME ~run.buggy, WriterInv, ReaderInv, StoreField
    PROVE  WriterInv' /\ ReaderInv'
  <1>1. PICK f \in left :
           /\ word' = IF f \in Words THEN [word EXCEPT ![f] = n] ELSE word
           /\ sequence' = IF f = "sequence" THEN 0 ELSE sequence
           /\ left' = left \ {f}
    BY DEF StoreField
  <1>2. f \in Words /\ f # "sequence"
    BY <1>1, LiveAssumption DEF WriterInv
  <1>3. WriterInv'
    BY <1>1, <1>2 DEF StoreField, WriterInv
  <1>4. ReaderInv'
    BY <1>1, <1>2 DEF StoreField, ReaderInv, readerVars
  <1> QED BY <1>3, <1>4

LEMMA EndPublishStep ==
    ASSUME ~run.buggy, WriterInv, ReaderInv, EndPublish
    PROVE  WriterInv' /\ ReaderInv'
  <1>1. /\ wpc = "copy" /\ left = {} /\ sequence' = keep + 1 /\ wpc' = "idle"
        /\ UNCHANGED <<word, n, left, readerVars>>
    BY DEF EndPublish, Even
  <1>2. /\ n \in Nat /\ sequence = 2 * n - 1 /\ keep = sequence
        /\ \A w \in Words : word[w] = n
    BY <1>1 DEF WriterInv
  <1>3. sequence' = 2 * n /\ sequence' \in Nat
    BY ONLY <1>1, <1>2
  <1>4. WriterInv'
    BY <1>1, <1>2, <1>3 DEF WriterInv
  <1>5. seq1 \in Nat /\ seq1 <= sequence
    BY DEF ReaderInv
  <1>6. seq1 <= sequence' /\ sequence' # seq1
    BY ONLY <1>2, <1>3, <1>5
  <1> QED BY <1>1, <1>4, <1>6 DEF ReaderInv, readerVars

\* A load of an even sequence finds the block at rest.
LEMMA AtRest ==
    ASSUME WriterInv, sequence % 2 = 0
    PROVE  sequence = 2 * n /\ \A w \in Words : word[w] = n
  <1>1. wpc = "copy" => n \in Nat /\ sequence = 2 * n - 1
    BY DEF WriterInv
  <1>2. wpc # "copy"
    <2> SUFFICES ASSUME wpc = "copy" PROVE FALSE
      OBVIOUS
    <2>1. n \in Nat /\ sequence = 2 * n - 1 /\ sequence % 2 = 0
      BY <1>1
    <2> QED BY ONLY <2>1
  <1> QED BY <1>2 DEF WriterInv

LEMMA FirstLoadStep ==
    ASSUME ~run.buggy, WriterInv, ReaderInv, FirstLoad
    PROVE  ReaderInv'
  <1>1. /\ seq1' = sequence /\ UNCHANGED <<sequence, copy, torn>>
        /\ sequence \in Nat
        /\ IF sequence % 2 = 1 THEN rpc' = "refused" /\ missing' = {}
                               ELSE rpc' = "copy" /\ missing' = Words
    BY DEF FirstLoad, mapping, WriterInv
  <1>2. sequence % 2 = 1 \/ sequence % 2 = 0
    BY <1>1
  <1>3. CASE sequence % 2 = 1
    BY <1>1, <1>3 DEF ReaderInv
  <1>4. CASE sequence % 2 = 0
    BY <1>1, <1>4 DEF ReaderInv
  <1> QED BY <1>2, <1>3, <1>4

LEMMA LoadWordStep ==
    ASSUME ~run.buggy, WriterInv, ReaderInv, LoadWord
    PROVE  ReaderInv'
  <1>1. PICK w \in missing : /\ copy' = [copy EXCEPT ![w] = word[w]]
                             /\ missing' = missing \ {w}
    BY DEF LoadWord
  <1>2. /\ rpc = "copy" /\ rpc' = "copy"
        /\ UNCHANGED <<sequence, seq1, torn, word>>
    BY DEF LoadWord, mapping
  <1>3. /\ w \in Words /\ copy \in [Words -> Nat] /\ word \in [Words -> Nat]
        /\ seq1 % 2 = 0
    BY <1>1, <1>2 DEF ReaderInv, WriterInv
  <1>4. ASSUME sequence = seq1
        PROVE  2 * word[w] = seq1
    BY <1>3, <1>4, AtRest
  <1>5. copy' \in [Words -> Nat] /\ missing' \subseteq Words
    BY <1>1, <1>3 DEF ReaderInv
  <1>6. ASSUME sequence = seq1, NEW v \in Words \ missing'
        PROVE  2 * copy'[v] = seq1
    <2>1. CASE v = w
      <3>1. copy'[v] = word[w]
        BY <1>1, <1>3, <2>1
      <3> QED BY <3>1, <1>4, <1>6
    <2>2. CASE v # w
      <3>1. v \in Words \ missing /\ copy'[v] = copy[v]
        BY <1>1, <1>3, <1>6, <2>2
      <3> QED BY <1>2, <1>6, <3>1 DEF ReaderInv
    <2> QED BY <2>1, <2>2
  <1> QED BY <1>2, <1>5, <1>6 DEF ReaderInv

LEMMA SecondLoadStep ==
    ASSUME ~run.buggy, WriterInv, ReaderInv, SecondLoad
    PROVE  ReaderInv'
  BY DEF SecondLoad, Unchanged, ReaderInv, mapping

LEMMA ReportStep ==
    ASSUME ~run.buggy, WriterInv, ReaderInv, Report
    PROVE  ReaderInv'
  <1>1. \A v, w \in Words : copy[v] = copy[w]
    <2> SUFFICES ASSUME NEW v \in Words, NEW w \in Words
                 PROVE  copy[v] = copy[w]
      OBVIOUS
    <2>1. /\ 2 * copy[v] = seq1 /\ 2 * copy[w] = seq1
          /\ copy[v] \in Nat /\ copy[w] \in Nat
      BY DEF Report, ReaderInv
    <2> QED BY ONLY <2>1
  <1>2. ~torn'
    BY <1>1 DEF Report, ReaderInv
  <1> QED BY <1>2 DEF Report, ReaderInv, mapping

\* The steps that touch neither the block nor what the reader has loaded.
LEMMA OtherSteps ==
    ASSUME ~run.buggy, WriterInv, ReaderInv,
           \/ Open \/ WriterEnds \/ Attach \/ AttachFails \/ AttachAgain \/ Refused
           \/ ReaderEnds \/ Stop \/ Verdict \/ Deadline
    PROVE  WriterInv' /\ ReaderInv'
  <1>1. CASE Open
    BY <1>1 DEF Open, WriterInv, ReaderInv, writerVars, readerVars
  <1>2. CASE WriterEnds
    BY <1>2 DEF WriterEnds, WriterInv, ReaderInv, mapping, readerVars
  <1>3. CASE Attach \/ AttachFails \/ AttachAgain \/ Refused \/ ReaderEnds \/ Verdict
    BY <1>3 DEF Attach, AttachFails, AttachAgain, Refused, ReaderEnds, Verdict,
                WriterInv, ReaderInv, mapping, writerVars
  <1>4. CASE Stop \/ Deadline
    BY <1>4 DEF Stop, Deadline, WriterInv, ReaderInv, mapping, writerVars,
                readerVars
  <1> QED BY <1>1, <1>2, <1>3, <1>4

LEMMA LiveInvStep ==
    ASSUME LiveInv, [LiveNext]_liveVars
    PROVE  LiveInv'
  <1>1. run' = run
    BY DEF LiveNext, liveVars, Open, Writer, Reader, Stop, Verdict, Deadline,
           FinishPublish, BeginPublish, StoreField, RestoreMagic, RestoreSequence, EndPublish,
           WriterEnds, Attach, AttachFails, AttachAgain, FirstLoad, LoadWord,
           SecondLoad, Report, Refused, ReaderEnds
  <1> SUFFICES ASSUME ~run.buggy PROVE WriterInv' /\ ReaderInv'
    BY <1>1 DEF LiveInv
  <1>2. WriterInv /\ ReaderInv
    BY DEF LiveInv
  <1>3. CASE UNCHANGED liveVars
    BY <1>2, <1>3, WriterStands, ReaderStands DEF liveVars
  <1>4. CASE BeginPublish
    BY <1>2, <1>4, BeginPublishStep
  <1>5. CASE StoreField
    BY <1>2, <1>5, StoreFieldStep
  <1>6. CASE EndPublish
    BY <1>2, <1>6, EndPublishStep
  <1>7. ~RestoreMagic /\ ~RestoreSequence
    BY <1>2 DEF RestoreMagic, RestoreSequence, WriterInv
  <1>8. CASE FirstLoad \/ LoadWord \/ SecondLoad \/ Report
    <2>1. WriterInv'
      BY <1>2, <1>8, WriterStands DEF FirstLoad, LoadWord, SecondLoad, Report
    <2>2. ReaderInv'
      BY <1>2, <1>8, FirstLoadStep, LoadWordStep, SecondLoadStep, ReportStep
    <2> QED BY <2>1, <2>2
  <1>9. CASE \/ Open \/ WriterEnds \/ Attach \/ AttachFails \/ AttachAgain \/ Refused
             \/ ReaderEnds \/ Stop \/ Verdict \/ Deadline
    BY <1>2, <1>9, OtherSteps
  <1> QED BY <1>3, <1>4, <1>5, <1>6, <1>7, <1>8, <1>9
          DEF LiveNext, Writer, FinishPublish, Reader

\* "fixed writer: expect 0 torn snapshots", whatever the payload, the number
\* of publications and the interleaving.
THEOREM NoTornSnapshot == LiveSpec => []SnapshotWhole
  <1>1. LiveInit => LiveInv
    BY LiveInvInit
  <1>2. LiveInv /\ [LiveNext]_liveVars => LiveInv'
    BY LiveInvStep
  <1>3. LiveInv => SnapshotWhole
    BY DEF LiveInv, ReaderInv, SnapshotWhole
  <1> QED BY <1>1, <1>2, <1>3, PTL DEF LiveSpec
=============================================================================
