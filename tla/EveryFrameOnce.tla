--------------------------- MODULE EveryFrameOnce ---------------------------
(***************************************************************************)
(* What a pipeline whose workers compete for the frames promises: every    *)
(* frame that is taken on is encoded once, in whatever order, and the      *)
(* pipeline returns only when nothing taken on is left behind.  After a    *)
(* failure nothing is promised but that no frame is encoded twice.         *)
(***************************************************************************)
EXTENDS Naturals, FiniteSets

VARIABLES taken,            \* frames some thread has taken on
          finished,         \* frames that have been encoded
          commits,          \* how many times a frame was encoded
          accepting,        \* more frames may be taken on
          outcome           \* what the caller has been told

frameVars == <<taken, finished, commits, accepting, outcome>>

Init == /\ taken = {} /\ finished = {} /\ commits = 0
        /\ accepting = TRUE
        /\ outcome = "running"

Take == /\ accepting
        /\ taken \subseteq taken' /\ Cardinality(taken' \ taken) = 1
        /\ UNCHANGED <<finished, commits, accepting, outcome>>

Finish == /\ outcome # "returned"
          /\ \E f \in taken \ finished : finished' = finished \cup {f}
          /\ commits' = commits + 1
          /\ UNCHANGED <<taken, accepting, outcome>>

Stop == /\ accepting
        /\ accepting' = FALSE
        /\ UNCHANGED <<taken, finished, commits, outcome>>

Return == /\ outcome = "running"
          /\ ~accepting /\ finished = taken
          /\ outcome' = "returned"
          /\ UNCHANGED <<taken, finished, commits, accepting>>

\* A failure may end the taking as well.
Fail == /\ outcome = "running"
        /\ outcome' = "failed"
        /\ accepting' \in {accepting, FALSE}
        /\ UNCHANGED <<taken, finished, commits>>

Next == Take \/ Finish \/ Stop \/ Return \/ Fail

\* The end of the pass is promised while nothing has failed.
Running == outcome = "running"
Spec == /\ Init /\ [][Next]_frameVars
        /\ WF_frameVars(Running /\ Stop)
        /\ WF_frameVars(Running /\ Finish)
        /\ WF_frameVars(Return)
=============================================================================
