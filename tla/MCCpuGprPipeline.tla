-------------------------- MODULE MCCpuGprPipeline --------------------------
(***************************************************************************)
(* The CPU pipeline on small instances.                                    *)
(***************************************************************************)
EXTENDS CpuGprPipeline

LOCAL Pass == [workers |-> 2, frames |-> 3, timed |-> FALSE, may_fail |-> FALSE,
               rendezvous |-> FALSE, assistant |-> <<0, 0>>, helper |-> FALSE,
               output |-> "sdk", hybrid |-> FALSE, save |-> FALSE,
               save_gpr_limit |-> 0]

LOCAL Three == [Pass EXCEPT !.workers = 3, !.assistant = <<0, 0, 0>>]

MCOptionSets ==
    {\* three workers meet, the clock ends the pass, a stage may fail
     [Three EXCEPT !.rendezvous = TRUE, !.timed = TRUE, !.may_fail = TRUE],
     \* one assistant for three workers; one assistant for the first
     [Three EXCEPT !.assistant = <<1, 1, 1>>, !.frames = 2],
     [Three EXCEPT !.assistant = <<1, 0, 0>>, !.frames = 2, !.may_fail = TRUE],
     \* outputs are saved, up to a limit, and freed by the helper
     [Pass EXCEPT !.helper = TRUE, !.save = TRUE, !.save_gpr_limit = 2],
     [Three EXCEPT !.save = TRUE, !.save_gpr_limit = 1, !.may_fail = TRUE],
     \* a new output for every frame, the retained container and the pool,
     \* with the trial of the hybrid path
     [Pass EXCEPT !.workers = 1, !.assistant = <<0>>, !.frames = 5,
                  !.output = "copy", !.hybrid = TRUE],
     [Pass EXCEPT !.workers = 1, !.assistant = <<0>>, !.frames = 5,
                  !.output = "retained", !.hybrid = TRUE, !.helper = TRUE],
     [Pass EXCEPT !.workers = 1, !.assistant = <<0>>, !.frames = 5,
                  !.output = "pooled", !.hybrid = TRUE, !.helper = TRUE]}
=============================================================================
