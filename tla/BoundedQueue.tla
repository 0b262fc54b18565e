---------------------------- MODULE BoundedQueue ----------------------------
(***************************************************************************)
(* What Queue<T> promises the stages of a pipeline: a bounded FIFO that    *)
(* any number of threads may push to and pop from, and that close() makes  *)
(* refuse pushes and give up its remaining items before it refuses pops.   *)
(* A call that can be answered is answered; which of several callers is    *)
(* served first is not promised.                                           *)
(***************************************************************************)
EXTENDS Naturals, Sequences

CONSTANTS Producers, Consumers, Capacity, MaxItems

VARIABLES queue,            \* the items, oldest first
          closed,
          calling,          \* threads inside push, pop, try_pop, pop_until
          pushed,           \* items accepted so far
          popped            \* the items given out, in order

queueVars == <<queue, closed, calling, pushed, popped>>

Init == /\ queue = <<>> /\ closed = FALSE /\ calling = {}
        /\ pushed = 0 /\ popped = <<>>

Call(t) == /\ t \notin calling
           /\ calling' = calling \cup {t}
           /\ UNCHANGED <<queue, closed, pushed, popped>>

Accept(p) == /\ p \in calling /\ ~closed /\ Len(queue) < Capacity
             /\ queue' = Append(queue, pushed + 1)
             /\ pushed' = pushed + 1
             /\ calling' = calling \ {p}
             /\ UNCHANGED <<closed, popped>>

Give(c) == /\ c \in calling /\ queue # <<>>
           /\ queue' = Tail(queue)
           /\ popped' = Append(popped, Head(queue))
           /\ calling' = calling \ {c}
           /\ UNCHANGED <<closed, pushed>>

\* A push to a closed queue, a pop of an empty one that is closed or that the
\* caller will not wait for, a try_pop of a closed one.
Refuse(t) == /\ t \in calling /\ (closed \/ (queue = <<>> /\ t \in Consumers))
             /\ calling' = calling \ {t}
             /\ UNCHANGED <<queue, closed, pushed, popped>>

Close == closed' = TRUE /\ UNCHANGED <<queue, calling, pushed, popped>>

Push == \E p \in Producers : Accept(p) \/ (closed /\ Refuse(p))
Pop  == \E c \in Consumers : Give(c) \/ (closed /\ Refuse(c))

Next == \/ \E t \in Producers \cup Consumers : Call(t) \/ Refuse(t)
        \/ \E p \in Producers : Accept(p)
        \/ \E c \in Consumers : Give(c)
        \/ Close

Spec == Init /\ [][Next]_queueVars
        /\ WF_queueVars(Push) /\ WF_queueVars(Pop)
=============================================================================
