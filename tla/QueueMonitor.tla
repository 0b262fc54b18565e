---------------------------- MODULE QueueMonitor ----------------------------
(***************************************************************************)
(* Queue<T>: a mutex, two condition variables and a deque.  A thread that  *)
(* is inside a call either waits on its condition variable ("blocked") or  *)
(* holds, or is about to take, the mutex to test its predicate             *)
(* ("calling"): a notified, a timed-out and a spuriously woken thread are  *)
(* all back in "calling", where another thread may still overtake them.    *)
(***************************************************************************)
EXTENDS Naturals, Sequences, FiniteSets

CONSTANTS Producers, Consumers,
          Capacity,         \* capacity_
          MaxItems          \* bound: pushes accepted in a run

Threads == Producers \cup Consumers

ASSUME QueueAssumption ==
    /\ IsFiniteSet(Producers) /\ IsFiniteSet(Consumers)
    /\ Producers \cap Consumers = {}
    /\ Capacity \in Nat \ {0}
    /\ MaxItems \in Nat

VARIABLES queue,            \* queue_: items, numbered as they are accepted
          closed,           \* closed_
          highWater,        \* high_water_
          pc,               \* "idle", "calling" or "blocked"
          op,               \* the call a thread is in
          pushed,           \* items accepted so far
          popped            \* history: items given out, in order

vars == <<queue, closed, highWater, pc, op, pushed, popped>>

Init ==
    /\ queue = <<>> /\ closed = FALSE /\ highWater = 0
    /\ pc = [t \in Threads |-> "idle"]
    /\ op = [t \in Threads |-> "none"]
    /\ pushed = 0 /\ popped = <<>>

Blocked(S) == {t \in S : pc[t] = "blocked"}
Calling(S) == {t \in S : pc[t] = "calling"}

\* Thread t moves to label and notify_one wakes one of the threads waiting in
\* S, if there is any.
GotoNotifyingOne(t, label, S) ==
    \/ /\ Blocked(S) = {}
       /\ pc' = [pc EXCEPT ![t] = label]
    \/ \E r \in Blocked(S) :
          pc' = [pc EXCEPT ![t] = label, ![r] = "calling"]

\* Enter push, pop, try_pop or pop_until.
Call(t, name) ==
    /\ pc[t] = "idle"
    /\ name = "push" => pushed < MaxItems
    /\ pc' = [pc EXCEPT ![t] = "calling"]
    /\ op' = [op EXCEPT ![t] = name]
    /\ UNCHANGED <<queue, closed, highWater, pushed, popped>>

\* The predicate of the wait is false: the mutex is released.
Wait(t) ==
    /\ pc[t] = "calling" /\ ~closed
    /\ \/ op[t] = "push" /\ Len(queue) >= Capacity
       \/ op[t] \in {"pop", "pop_until"} /\ queue = <<>>
    /\ pc' = [pc EXCEPT ![t] = "blocked"]
    /\ UNCHANGED <<queue, closed, highWater, op, pushed, popped>>

\* push: queue_.push_back, high_water_, cv_read_.notify_one.
Push(t) ==
    /\ pc[t] = "calling" /\ op[t] = "push"
    /\ ~closed /\ Len(queue) < Capacity
    /\ queue' = Append(queue, pushed + 1)
    /\ pushed' = pushed + 1
    /\ highWater' = IF Len(queue') > highWater THEN Len(queue') ELSE highWater
    /\ GotoNotifyingOne(t, "idle", Consumers)
    /\ UNCHANGED <<closed, op, popped>>

\* Seeded fault: a pop does not tell the threads waiting to push.
PopSilently(t) ==
    /\ pc[t] = "calling" /\ op[t] # "push" /\ queue # <<>>
    /\ op[t] = "try_pop" => ~closed
    /\ queue' = Tail(queue)
    /\ popped' = Append(popped, Head(queue))
    /\ pc' = [pc EXCEPT ![t] = "idle"]
    /\ UNCHANGED <<closed, highWater, op, pushed>>

\* Seeded fault: the newest item is taken.
PopNewest(t) ==
    /\ pc[t] = "calling" /\ op[t] # "push" /\ queue # <<>>
    /\ op[t] = "try_pop" => ~closed
    /\ queue' = SubSeq(queue, 1, Len(queue) - 1)
    /\ popped' = Append(popped, queue[Len(queue)])
    /\ GotoNotifyingOne(t, "idle", Producers)
    /\ UNCHANGED <<closed, highWater, op, pushed>>

\* pop, try_pop, pop_until: queue_.pop_front, cv_write_.notify_one.
Pop(t) ==
    /\ pc[t] = "calling" /\ op[t] # "push" /\ queue # <<>>
    /\ op[t] = "try_pop" => ~closed
    /\ queue' = Tail(queue)
    /\ popped' = Append(popped, Head(queue))
    /\ GotoNotifyingOne(t, "idle", Producers)
    /\ UNCHANGED <<closed, highWater, op, pushed>>

\* return false.
Refuse(t) ==
    /\ pc[t] = "calling"
    /\ \/ op[t] = "push" /\ closed
       \/ op[t] = "pop" /\ closed /\ queue = <<>>
       \/ op[t] = "try_pop" /\ (closed \/ queue = <<>>)
       \/ op[t] = "pop_until" /\ queue = <<>>
    /\ pc' = [pc EXCEPT ![t] = "idle"]
    /\ UNCHANGED <<queue, closed, highWater, op, pushed, popped>>

\* A wait may return without a notification; a timed one does at its deadline.
Wake(t) ==
    /\ pc[t] = "blocked"
    /\ pc' = [pc EXCEPT ![t] = "calling"]
    /\ UNCHANGED <<queue, closed, highWater, op, pushed, popped>>

\* Seeded fault: close() wakes a single thread.
CloseWakesOne ==
    /\ closed' = TRUE
    /\ \/ Blocked(Threads) = {} /\ UNCHANGED pc
       \/ \E r \in Blocked(Threads) : pc' = [pc EXCEPT ![r] = "calling"]
    /\ UNCHANGED <<queue, highWater, op, pushed, popped>>

\* close: both condition variables notify_all.
Close ==
    /\ closed' = TRUE
    /\ pc' = [t \in Threads |->
                IF pc[t] = "blocked" THEN "calling" ELSE pc[t]]
    /\ UNCHANGED <<queue, highWater, op, pushed, popped>>

Serve(t) == Wait(t) \/ Push(t) \/ Pop(t) \/ Refuse(t)

Next == \/ \E p \in Producers : Call(p, "push")
        \/ \E c \in Consumers, name \in {"pop", "try_pop", "pop_until"} :
              Call(c, name)
        \/ \E t \in Threads : Serve(t) \/ Wake(t)
        \/ Close

\* A thread that is not waiting gets the mutex and goes on; nobody has to
\* call, to close, or to wake without a reason.
Spec == Init /\ [][Next]_vars /\ \A t \in Threads : WF_vars(Serve(t))

-----------------------------------------------------------------------------
(* Properties.                                                             *)

\* No lost wakeup: while a consumer waits, every item has a consumer awake to
\* take it, while a producer waits every free place has one awake to fill it,
\* and nobody waits on a closed queue.
NoMissedWakeup ==
    /\ Blocked(Consumers) # {} =>
          Len(queue) <= Cardinality(Calling(Consumers))
    /\ Blocked(Producers) # {} =>
          Capacity - Len(queue) <= Cardinality(Calling(Producers))
    /\ closed => Blocked(Threads) = {}

\* What the pipelines rely on: whoever can be served is, in FIFO order.
Promise == INSTANCE BoundedQueue WITH
    calling <- {t \in Threads : pc[t] # "idle"}
ImplementsQueue == Promise!Spec

\* A closed queue lets everyone go: no call outlasts a close(), so cancel() can
\* be followed by join().
CloseReleases == \A t \in Threads : (closed /\ pc[t] # "idle") ~> pc[t] = "idle"
=============================================================================
