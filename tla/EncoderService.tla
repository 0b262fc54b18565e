---------------------------- MODULE EncoderService ----------------------------
(***************************************************************************)
(* What the library promises of one encoder (cinepi_qraw_encoder.h): every *)
(* call returns, with a container or with a failure; a container "stays    *)
(* valid until you call cinepi_qraw_release()" with it, unchanged, and is  *)
(* the frame the call was made for.                                        *)
(***************************************************************************)
EXTENDS Naturals

CONSTANTS Encoders, MaxFrames

VARIABLES open,      \* encoders that exist
          busy,      \* encoders inside cinepi_qraw_encode
          frame,     \* frames handed to each so far
          outputs    \* the frames of the containers its caller holds

serviceVars == <<open, busy, frame, outputs>>

Init ==
    /\ open = {} /\ busy = {}
    /\ frame = [e \in Encoders |-> 0]
    /\ outputs = [e \in Encoders |-> {}]

Open(e) ==
    /\ e \notin open
    /\ open' = open \cup {e}
    /\ UNCHANGED <<busy, frame, outputs>>

Encode(e) ==
    /\ e \in open \ busy /\ frame[e] < MaxFrames
    /\ busy' = busy \cup {e}
    /\ frame' = [frame EXCEPT ![e] = @ + 1]
    /\ UNCHANGED <<open, outputs>>

Return(e) ==
    /\ e \in busy
    /\ busy' = busy \ {e}
    /\ \/ outputs' = [outputs EXCEPT ![e] = @ \cup {frame[e]}]
       \/ UNCHANGED outputs
    /\ UNCHANGED <<open, frame>>

Release(e) ==
    /\ e \in open \ busy
    /\ \E f \in outputs[e] : outputs' = [outputs EXCEPT ![e] = @ \ {f}]
    /\ UNCHANGED <<open, busy, frame>>

Close(e) ==
    /\ e \in open \ busy /\ outputs[e] = {}
    /\ open' = open \ {e}
    /\ UNCHANGED <<busy, frame, outputs>>

Next == \E e \in Encoders :
            Open(e) \/ Encode(e) \/ Return(e) \/ Release(e) \/ Close(e)

Spec == Init /\ [][Next]_serviceVars /\ \A e \in Encoders : WF_serviceVars(Return(e))
=============================================================================
