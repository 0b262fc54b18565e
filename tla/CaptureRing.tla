---------------------------- MODULE CaptureRing ----------------------------
(***************************************************************************)
(* run_capture_simulation: the recorder.  The sensor (the main thread)     *)
(* writes frames into a ring of RAW buffers and, when that is full, into   *)
(* an overflow of up to Cap more; N encoder workers drain them.  The take  *)
(* ends when its time is over, when no buffer is left, or when a worker    *)
(* fails.  The overflow is reserved before the take (capture_prealloc) or  *)
(* stocked during it by a reserver thread.                                 *)
(*                                                                         *)
(* A block under the mutex mu is one step.  A thread that finds nothing to *)
(* do keeps mu until it sleeps on its condition variable ("drowsy"); the   *)
(* flag `stop` and the notifications are not all made under mu.            *)
(***************************************************************************)
EXTENDS Naturals, Sequences, FiniteSets

CONSTANTS Ring,           \* the ring_frames buffers; those of the overflow
                          \* are numbered in the order of their allocation
          Cap,            \* overflow_cap_frames
          Workers,
          Preallocs,      \* the values of capture_prealloc a run tries
          ReserverFits,   \* a core is left for the reserver
          READY_TARGET,
          MaxFrames,      \* bound: frames captured in a run
          MayFail,        \* a worker may throw
          Nil

Reserver == "reserver"

ASSUME CaptureAssumption ==
    /\ IsFiniteSet(Ring) /\ Ring \cap Nat = {}
    /\ Ring # {} /\ IsFiniteSet(Workers) /\ Workers # {}
    /\ Cap \in Nat
    /\ READY_TARGET \in Nat /\ MaxFrames \in Nat
    /\ Preallocs \subseteq BOOLEAN /\ {ReserverFits, MayFail} \subseteq BOOLEAN
    /\ Nil \notin Ring \cup Nat \cup Workers /\ Reserver \notin Workers

VARIABLES capture_prealloc,
          sensor, pc,       \* where the sensor and the other threads are
          mu,               \* the drowsy thread that still holds mu
          free_list, pending, ready_pool,
          inHand,           \* the buffer the sensor fills
          encoding,         \* the buffer each worker encodes
          owned,            \* overflow buffers allocated so far
          overflow_used, pool_reserved,
          stop, stop_full, worker_error,
          captured, encoded

poolVars  == <<free_list, ready_pool, owned, overflow_used, pool_reserved>>
frameVars == <<pending, inHand, encoding, captured, encoded>>
flagVars  == <<capture_prealloc, stop, stop_full, worker_error>>
vars == <<sensor, pc, mu, poolVars, frameVars, flagVars>>

HasReserver == ~capture_prealloc /\ Cap > 0 /\ ReserverFits

NewBuffer == Cardinality(owned) + 1

Init ==
    /\ capture_prealloc \in Preallocs
    /\ sensor = "loop"
    /\ pc = [t \in Workers \cup {Reserver} |->
                IF t # Reserver THEN "start"
                ELSE IF HasReserver THEN "test" ELSE "done"]
    /\ mu = Nil
    /\ free_list = Ring
    /\ pending = <<>> /\ inHand = Nil
    /\ encoding = [w \in Workers |-> Nil]
    \* A preallocation that runs out of memory takes what it got.
    /\ owned \in IF capture_prealloc THEN {1..n : n \in 0..Cap} ELSE {{}}
    /\ ready_pool = owned
    /\ overflow_used = 0 /\ pool_reserved = Cardinality(owned)
    /\ stop = FALSE /\ stop_full = FALSE /\ worker_error = FALSE
    /\ captured = 0 /\ encoded = 0

Asleep(S) == {t \in S : pc[t] = "asleep"}
Awaken(S) == pc' = [t \in DOMAIN pc |-> IF t \in Asleep(S) THEN "test"
                                        ELSE pc[t]]
AwakenOne(S) == \/ Asleep(S) = {} /\ UNCHANGED pc
                \/ \E t \in Asleep(S) : pc' = [pc EXCEPT ![t] = "test"]

-----------------------------------------------------------------------------
(* The sensor.                                                             *)

\* The time is over, or somebody stopped the take, or a frame is due.
SensorLoop ==
    /\ sensor = "loop"
    /\ \/ sensor' = "stop"
       \/ ~stop /\ captured < MaxFrames /\ sensor' = "take"
    /\ UNCHANGED <<pc, mu, poolVars, frameVars, flagVars>>

\* Seeded fault: the overflow grows as long as there is memory.
TakeUncapped ==
    /\ sensor = "take" /\ mu = Nil
    /\ \/ \E b \in free_list :
             /\ inHand' = b
             /\ free_list' = free_list \ {b}
             /\ UNCHANGED <<ready_pool, owned, overflow_used, pc>>
       \/ /\ free_list = {}
          /\ \E b \in ready_pool : inHand' = b /\ ready_pool' = ready_pool \ {b}
          /\ overflow_used' = overflow_used + 1
          /\ AwakenOne({Reserver})
          /\ UNCHANGED <<free_list, owned>>
       \/ /\ free_list = {} /\ ready_pool = {}
          /\ inHand' = NewBuffer /\ owned' = owned \cup {NewBuffer}
          /\ overflow_used' = overflow_used + 1
          /\ UNCHANGED <<free_list, ready_pool, pc>>
    /\ sensor' = "push"
    /\ UNCHANGED <<mu, pool_reserved, pending, encoding, captured, encoded,
                   flagVars>>

\* A buffer of the ring, of the reserved overflow, or a new one.
SensorTake ==
    /\ sensor = "take" /\ mu = Nil
    /\ \/ \E b \in free_list :
             /\ inHand' = b
             /\ free_list' = free_list \ {b}
             /\ UNCHANGED <<ready_pool, owned, overflow_used, pc>>
       \/ /\ free_list = {} /\ overflow_used < Cap
          /\ \E b \in ready_pool : inHand' = b /\ ready_pool' = ready_pool \ {b}
          /\ overflow_used' = overflow_used + 1
          /\ AwakenOne({Reserver})
          /\ UNCHANGED <<free_list, owned>>
       \/ /\ free_list = {} /\ overflow_used < Cap /\ ready_pool = {}
          /\ inHand' = NewBuffer /\ owned' = owned \cup {NewBuffer}
          /\ overflow_used' = overflow_used + 1
          /\ UNCHANGED <<free_list, ready_pool, pc>>
    /\ sensor' = "push"
    /\ UNCHANGED <<mu, pool_reserved, pending, encoding, captured, encoded,
                   flagVars>>

\* Seeded fault: the workers are not told that the take has ended.
FullSilently ==
    /\ sensor = "take" /\ mu = Nil
    /\ free_list = {} /\ overflow_used >= Cap
    /\ stop_full' = TRUE
    /\ sensor' = "stop"
    /\ UNCHANGED <<capture_prealloc, pc, mu, poolVars, frameVars, stop,
                   worker_error>>

\* Nowhere left to put the frame: the take ends, under mu.
SensorFull ==
    /\ sensor = "take" /\ mu = Nil
    /\ free_list = {} /\ overflow_used >= Cap
    /\ stop_full' = TRUE /\ stop' = TRUE
    /\ Awaken(Workers)
    /\ sensor' = "stop"
    /\ UNCHANGED <<capture_prealloc, mu, poolVars, frameVars, worker_error>>

\* So it does when a new buffer cannot be allocated.
SensorOutOfMemory ==
    /\ sensor = "take" /\ mu = Nil
    /\ free_list = {} /\ overflow_used < Cap /\ ready_pool = {}
    /\ stop_full' = TRUE /\ stop' = TRUE
    /\ Awaken(Workers)
    /\ sensor' = "stop"
    /\ UNCHANGED <<capture_prealloc, mu, poolVars, frameVars, worker_error>>

SensorPush ==
    /\ sensor = "push" /\ mu = Nil
    /\ pending' = Append(pending, inHand)
    /\ inHand' = Nil
    /\ captured' = captured + 1
    /\ sensor' = "notify"
    /\ UNCHANGED <<pc, mu, poolVars, encoding, encoded, flagVars>>

\* cv_work.notify_one; another frame may be due already.
SensorNotify ==
    /\ sensor = "notify"
    /\ AwakenOne(Workers)
    /\ \/ sensor' = "loop"
       \/ captured < MaxFrames /\ sensor' = "take"
    /\ UNCHANGED <<mu, poolVars, frameVars, flagVars>>

\* stop.store(true), without mu.
SensorStop ==
    /\ sensor = "stop"
    /\ stop' = TRUE
    /\ sensor' = "stopped"
    /\ UNCHANGED <<capture_prealloc, pc, mu, poolVars, frameVars, stop_full,
                   worker_error>>

SensorNotifyAll ==
    /\ sensor = "stopped"
    /\ Awaken(Workers)
    /\ sensor' = "join"
    /\ UNCHANGED <<mu, poolVars, frameVars, flagVars>>

SensorJoin ==
    /\ sensor = "join" /\ \A w \in Workers : pc[w] = "done"
    /\ Awaken({Reserver})
    /\ sensor' = "joined"
    /\ UNCHANGED <<mu, poolVars, frameVars, flagVars>>

SensorReturn ==
    /\ sensor = "joined" /\ pc[Reserver] = "done"
    /\ sensor' = "returned"
    /\ UNCHANGED <<pc, mu, poolVars, frameVars, flagVars>>

Sensor == \/ SensorLoop \/ SensorTake \/ SensorFull \/ SensorOutOfMemory
          \/ SensorPush \/ SensorNotify \/ SensorStop \/ SensorNotifyAll
          \/ SensorJoin \/ SensorReturn

-----------------------------------------------------------------------------
(* The encoder workers.                                                    *)

\* The worker's encoder and planes are allocated.
WorkerStart(w) ==
    /\ pc[w] = "start"
    /\ pc' = [pc EXCEPT ![w] = "test"]
    /\ UNCHANGED <<sensor, mu, poolVars, frameVars, flagVars>>

\* Seeded fault: a stopped worker leaves the frames that are still pending.
LeavesPending(w) ==
    /\ pc[w] = "test" /\ mu = Nil
    /\ \/ stop /\ pc' = [pc EXCEPT ![w] = "done"]
          /\ UNCHANGED <<pending, encoding, mu>>
       \/ /\ ~stop /\ pending # <<>>
          /\ encoding' = [encoding EXCEPT ![w] = Head(pending)]
          /\ pending' = Tail(pending)
          /\ pc' = [pc EXCEPT ![w] = "encode"]
          /\ UNCHANGED mu
       \/ /\ ~stop /\ pending = <<>>
          /\ pc' = [pc EXCEPT ![w] = "drowsy"]
          /\ mu' = w
          /\ UNCHANGED <<pending, encoding>>
    /\ UNCHANGED <<sensor, poolVars, inHand, captured, encoded, flagVars>>

WorkerTest(w) ==
    /\ pc[w] = "test" /\ mu = Nil
    /\ \/ /\ pending # <<>>
          /\ encoding' = [encoding EXCEPT ![w] = Head(pending)]
          /\ pending' = Tail(pending)
          /\ pc' = [pc EXCEPT ![w] = "encode"]
          /\ UNCHANGED mu
       \/ /\ pending = <<>> /\ stop
          /\ pc' = [pc EXCEPT ![w] = "done"]
          /\ UNCHANGED <<pending, encoding, mu>>
       \/ /\ pending = <<>> /\ ~stop
          /\ pc' = [pc EXCEPT ![w] = "drowsy"]
          /\ mu' = w
          /\ UNCHANGED <<pending, encoding>>
    /\ UNCHANGED <<sensor, poolVars, inHand, captured, encoded, flagVars>>

\* Seeded fault: the buffer is given back before it is encoded.
ReturnsTwice(w) ==
    /\ pc[w] = "encode" /\ mu = Nil
    /\ free_list' = free_list \cup {encoding[w]}
    /\ encoded' = encoded + 1
    /\ pc' = [pc EXCEPT ![w] = "test"]
    /\ UNCHANGED <<sensor, mu, ready_pool, owned, overflow_used,
                   pool_reserved, pending, inHand, encoding, captured,
                   flagVars>>

\* The frame is encoded and its buffer free again (nobody waits on cv_free).
WorkerReturn(w) ==
    /\ pc[w] = "encode" /\ mu = Nil
    /\ free_list' = free_list \cup {encoding[w]}
    /\ encoding' = [encoding EXCEPT ![w] = Nil]
    /\ encoded' = encoded + 1
    /\ pc' = [pc EXCEPT ![w] = "test"]
    /\ UNCHANGED <<sensor, mu, ready_pool, owned, overflow_used,
                   pool_reserved, pending, inHand, captured, flagVars>>

\* The catch block of a worker, under mu.
WorkerThrow(w) ==
    /\ MayFail /\ pc[w] \in {"start", "encode"} /\ mu = Nil
    /\ worker_error' = TRUE /\ stop' = TRUE
    /\ pc' = [t \in DOMAIN pc |->
                IF t = w THEN "done"
                ELSE IF t \in Asleep(Workers) THEN "test" ELSE pc[t]]
    /\ UNCHANGED <<capture_prealloc, sensor, mu, poolVars, frameVars, stop_full>>

-----------------------------------------------------------------------------
(* The reserver.                                                           *)

WantsMore == /\ Cardinality(ready_pool) < READY_TARGET
             /\ pool_reserved + overflow_used < Cap

ReserverTest ==
    /\ pc[Reserver] = "test" /\ mu = Nil
    /\ \/ stop /\ pc' = [pc EXCEPT ![Reserver] = "done"] /\ UNCHANGED mu
       \/ /\ ~stop /\ WantsMore
          /\ pc' = [pc EXCEPT ![Reserver] = "allocate"]
          /\ UNCHANGED mu
       \/ /\ ~stop /\ ~WantsMore
          /\ pc' = [pc EXCEPT ![Reserver] = "drowsy"]
          /\ mu' = Reserver
    /\ UNCHANGED <<sensor, poolVars, frameVars, flagVars>>

\* The buffer is allocated without mu and published under it.
ReserverAllocate ==
    /\ pc[Reserver] = "allocate" /\ mu = Nil
    /\ \/ /\ owned' = owned \cup {NewBuffer}
          /\ ready_pool' = ready_pool \cup {NewBuffer}
          /\ pool_reserved' = pool_reserved + 1
          /\ pc' = [pc EXCEPT ![Reserver] = "test"]
       \/ /\ pc' = [pc EXCEPT ![Reserver] = "done"]
          /\ UNCHANGED <<owned, ready_pool, pool_reserved>>
    /\ UNCHANGED <<sensor, mu, free_list, overflow_used, frameVars, flagVars>>

\* A drowsy thread gives up mu and sleeps.
Sleep(t) ==
    /\ pc[t] = "drowsy" /\ mu = t
    /\ pc' = [pc EXCEPT ![t] = "asleep"]
    /\ mu' = Nil
    /\ UNCHANGED <<sensor, poolVars, frameVars, flagVars>>

\* A wait may return without a notification.
Wake(t) ==
    /\ pc[t] = "asleep"
    /\ pc' = [pc EXCEPT ![t] = "test"]
    /\ UNCHANGED <<sensor, mu, poolVars, frameVars, flagVars>>

Worker(w) == WorkerStart(w) \/ WorkerTest(w) \/ WorkerReturn(w) \/ Sleep(w)
Reserve   == ReserverTest \/ ReserverAllocate \/ Sleep(Reserver)

Next == \/ Sensor
        \/ \E w \in Workers : Worker(w) \/ WorkerThrow(w)
        \/ Reserve
        \/ \E t \in Workers \cup {Reserver} : Wake(t)

\* Every thread runs, and one that keeps asking for mu gets it; a wait is not
\* owed a wakeup nobody sends.
Spec == /\ Init /\ [][Next]_vars
        /\ SF_vars(Sensor)
        /\ \A w \in Workers : SF_vars(Worker(w))
        /\ SF_vars(Reserve)

-----------------------------------------------------------------------------
(* Properties.                                                             *)

Used(b) == \/ b = inHand
           \/ \E i \in DOMAIN pending : pending[i] = b
           \/ \E w \in Workers : encoding[w] = b
InUse == {b \in Ring \cup owned : Used(b)}

\* Every buffer is in one place: free, in the reserved pool, or holding one
\* frame; two frames never share a buffer and no buffer is lost.
OneFramePerBuffer ==
    /\ InUse \cap (free_list \cup ready_pool) = {}
    /\ free_list \cap ready_pool = {}
    /\ InUse \cup free_list \cup ready_pool = Ring \cup owned
    /\ Cardinality(InUse) =
          (IF inHand = Nil THEN 0 ELSE 1) + Len(pending)
          + Cardinality({w \in Workers : encoding[w] # Nil})

\* Every captured frame is pending, being encoded or encoded, and a take that
\* returns without an error has encoded them all.
NothingDropped ==
    /\ captured = encoded + Len(pending)
                  + Cardinality({w \in Workers : encoding[w] # Nil})
    /\ sensor = "returned" /\ ~worker_error => encoded = captured

\* A take that ends because the buffers are full, or because a worker failed,
\* ends: every worker and the reserver are told.
FullTakeReturns == (stop_full \/ worker_error) ~> (sensor = "returned")

\* The overflow never grows beyond overflow_cap_frames.  Stocked lazily it may
\* pass it by the one buffer the reserver allocates without mu after it has
\* tested the budget.  This is the cap the sensor tests (10946), and not the one
\* a short reservation announces: CAPTURE_RESERVE_SHORT says "the cap is now what
\* was actually reserved" (10680), but no step lowers the cap, and once the
\* reserved buffers are in use SensorTake allocates up to it.
OverflowWithinCap ==
    Cardinality(owned) <= Cap + (IF HasReserver THEN 1 ELSE 0)

=============================================================================
