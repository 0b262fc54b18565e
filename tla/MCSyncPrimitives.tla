--------------------------- MODULE MCSyncPrimitives ---------------------------
(***************************************************************************)
(* The two primitives threads and processes meet at, checked in one run:   *)
(* either the bounded queue of the pipelines (QueueMonitor) or the block   *)
(* of live statistics (LiveStats) runs, and the other stays where it       *)
(* began: a queue nobody has called, a watching command that has not yet   *)
(* looked for the camera.                                                  *)
(***************************************************************************)
EXTENDS QueueMonitor, LiveStats

VARIABLE subject        \* which of the two runs

Queueing == subject = "queue"
Sharing  == subject = "live statistics"

PrimitiveInit ==
    /\ subject \in {"queue", "live statistics"}
    /\ Init /\ LiveInit
    /\ Queueing => run = [tool |-> "cli", buggy |-> FALSE, wait |-> FALSE,
                          watch |-> TRUE]

PrimitiveNext == \/ Queueing /\ Next /\ UNCHANGED <<liveVars, subject>>
                 \/ Sharing /\ LiveNext /\ UNCHANGED <<vars, subject>>

\* The fairness of Spec and of LiveSpec, each owed to the one that runs.
PrimitiveSpec ==
    /\ PrimitiveInit /\ [][PrimitiveNext]_<<vars, liveVars, subject>>
    /\ \A t \in Threads : WF_vars(Queueing /\ Serve(t))
    /\ WF_liveVars(Sharing /\ FinishPublish) /\ WF_liveVars(Sharing /\ Reader)
    /\ WF_liveVars(Sharing /\ Stop) /\ WF_liveVars(Sharing /\ Verdict)
    /\ WF_liveVars(Sharing /\ Deadline)
=============================================================================
