--------------------------- MODULE OrderedDelivery ---------------------------
(***************************************************************************)
(* What a frame pipeline of the benchmark promises its caller: frames are  *)
(* captured while recording, every captured frame is delivered exactly     *)
(* once and in capture order, and the pass returns only when nothing       *)
(* captured is left behind.  Once a stage has failed only the order of     *)
(* what is still delivered is promised.                                    *)
(***************************************************************************)
EXTENDS Naturals, Sequences

CONSTANT MaxFrames          \* bound on the frames of one pass

VARIABLES captured,         \* frames captured so far
          delivered,        \* frame numbers in the order they were committed
          recording,        \* the camera is still running
          outcome           \* what the caller has been told

deliveryVars == <<captured, delivered, recording, outcome>>

Init == /\ captured = 0
        /\ delivered = <<>>
        /\ recording = TRUE
        /\ outcome = "running"

Capture == /\ recording
           /\ captured < MaxFrames
           /\ captured' = captured + 1
           /\ UNCHANGED <<delivered, recording, outcome>>

Deliver == /\ outcome # "returned"
           /\ Len(delivered) < captured
           /\ delivered' = Append(delivered, Len(delivered))
           /\ UNCHANGED <<captured, recording, outcome>>

StopRecording == /\ recording
                 /\ recording' = FALSE
                 /\ UNCHANGED <<captured, delivered, outcome>>

Return == /\ outcome = "running"
          /\ ~recording
          /\ Len(delivered) = captured
          /\ outcome' = "returned"
          /\ UNCHANGED <<captured, delivered, recording>>

\* The stage that fails may be the camera.
Fail == /\ outcome = "running"
        /\ outcome' = "failed"
        /\ recording' \in {recording, FALSE}
        /\ UNCHANGED <<captured, delivered>>

Next == Capture \/ Deliver \/ StopRecording \/ Return \/ Fail

\* Delivery and the end of the pass are promised while no stage has failed.
Running == outcome = "running"
Spec == /\ Init /\ [][Next]_deliveryVars
        /\ WF_deliveryVars(Running /\ StopRecording)
        /\ WF_deliveryVars(Running /\ Deliver)
        /\ WF_deliveryVars(Return)
=============================================================================
