-------------------------- MODULE MCStagePipelines --------------------------
(***************************************************************************)
(* The three staged pipelines on small instances.                          *)
(***************************************************************************)
EXTENDS StagePipelines

LOCAL Pass == [pipeline |-> "dual", slots |-> 2, frames |-> 3,
               timed |-> FALSE, may_fail |-> FALSE, normal_workers |-> 0,
               queue_policy |-> "fifo", core0_reserve |-> 0,
               soft_reserve |-> FALSE]

\* Slots are reused, stages fail, the clock ends the pass, every policy and
\* every kind of reserve.
MCOptionSets ==
    {Pass,
     [Pass EXCEPT !.slots = 1, !.frames = 2, !.may_fail = TRUE, !.timed = TRUE],
     [Pass EXCEPT !.pipeline = "handoff", !.normal_workers = 1,
                  !.may_fail = TRUE, !.timed = TRUE],
     [Pass EXCEPT !.pipeline = "handoff", !.normal_workers = 2, !.slots = 1],
     [Pass EXCEPT !.pipeline = "adaptive", !.slots = 3, !.frames = 1,
                  !.may_fail = TRUE, !.timed = TRUE],
     [Pass EXCEPT !.pipeline = "adaptive", !.slots = 3,
                  !.queue_policy = "preferred", !.core0_reserve = 2],
     [Pass EXCEPT !.pipeline = "adaptive", !.slots = 3, !.frames = 2,
                  !.queue_policy = "core2", !.core0_reserve = 2,
                  !.soft_reserve = TRUE]}
=============================================================================
