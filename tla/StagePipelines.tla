--------------------------- MODULE StagePipelines ---------------------------
(***************************************************************************)
(* run_cpu_gpr_stage_pipeline: core0_stage_pipeline selects one of the     *)
(* three staged pipelines.  Each of them promises what EveryFrameOnce      *)
(* says.                                                                   *)
(***************************************************************************)
EXTENDS StageThreads, FiniteSetsExt

VARIABLES producer, core2_waiting_for_slot, err_mu

Dual     == INSTANCE DualStage
Adaptive == INSTANCE AdaptiveStage
Handoff  == INSTANCE HandoffStage

ownVars == <<producer, core2_waiting_for_slot, err_mu>>
vars == <<stageVars, ownVars>>

Selected(s) == o.pipeline = s

Init ==
    \/ Dual!Init /\ producer = Nil /\ core2_waiting_for_slot = Nil /\ err_mu = Nil
    \/ Adaptive!Init /\ err_mu = Nil
    \/ Handoff!Init /\ producer = Nil /\ core2_waiting_for_slot = Nil

Next ==
    \/ Selected("dual") /\ Dual!Next /\ UNCHANGED ownVars
    \/ Selected("adaptive") /\ Adaptive!Next /\ UNCHANGED err_mu
    \/ Selected("handoff") /\ Handoff!Next
       /\ UNCHANGED <<producer, core2_waiting_for_slot>>

\* The steps of the first and of the second thread of each kind.
PairOf(i) == IF i = 0 THEN "A" ELSE "B"
ProducerStep(i) ==
    \/ Selected("dual") /\ Dual!ProducerStep(PairOf(i)) /\ UNCHANGED ownVars
    \/ Selected("adaptive") /\ Adaptive!ProducerStep(i) /\ UNCHANGED err_mu
    \/ Selected("handoff") /\ i = 0 /\ Handoff!ProducerStep
       /\ UNCHANGED <<producer, core2_waiting_for_slot>>
EntropyStep(i) ==
    \/ Selected("dual") /\ Dual!EntropyStep(PairOf(i)) /\ UNCHANGED ownVars
    \/ Selected("adaptive") /\ Adaptive!EntropyStep(i) /\ UNCHANGED err_mu
    \/ Selected("handoff") /\ i = 0 /\ Handoff!EntropyStep
       /\ UNCHANGED <<producer, core2_waiting_for_slot>>
NormalStep(i) ==
    Selected("handoff") /\ Handoff!NormalStep(Normal(i + 1))
    /\ UNCHANGED <<producer, core2_waiting_for_slot>>

\* Every thread runs, and gets a mutex it keeps asking for.
Spec == /\ Init /\ [][Next]_vars
        /\ \A i \in 0..1 : /\ SF_vars(ProducerStep(i))
                           /\ SF_vars(EntropyStep(i))
                           /\ WF_vars(NormalStep(i))
        /\ WF_vars(Join /\ UNCHANGED ownVars)

-----------------------------------------------------------------------------
(* Properties.                                                             *)

\* Whatever the strategy, a slot of coefficients is in one thread's hands:
\* the handoff is by ownership and no coefficient is copied.
SlotsHandedOver ==
    /\ Selected("dual") => Dual!SlotsHandedOver
    /\ Selected("adaptive") => Adaptive!SlotsHandedOver
    /\ Selected("handoff") => Handoff!SlotsHandedOver

\* An entropy thread encodes the frames of a producer in the order in which
\* the producer made them, slot reuse and stealing included.
InOrder ==
    /\ Selected("dual") => Dual!InOrder
    /\ Selected("adaptive") => Adaptive!InOrder
    /\ Selected("handoff") => Handoff!InOrder

Encodings ==
    Cardinality(UNION {{<<t, k>> : k \in DOMAIN encoded[t]} : t \in DOMAIN encoded})

StillClaiming == \E t \in DOMAIN pc : t[1] # "entropy" /\ pc[t] # "done"

Delivery == INSTANCE EveryFrameOnce WITH
    taken <- Taken, finished <- Finished, commits <- Encodings,
    accepting <- StillClaiming,
    outcome <- IF abort THEN "failed" ELSE main

\* Each strategy implements EveryFrameOnce: no frame is lost or encoded
\* twice, and a pass without a failure comes to its end.
ImplementsDelivery == Delivery!Spec

\* A producer that fails ends the entropy thread it feeds: it marks itself
\* done under the mutex that thread waits with (dual, w0e1 and w1e0).
FailureEndsEntropy ==
    /\ \A p \in Dual!Pairs :
         (Selected("dual") /\ pc[Producer(p)] = "caught")
           ~> (Selected("dual") => pc[Entropy(p)] = "done")
    /\ (Selected("handoff") /\ pc[Producer(0)] = "caught")
         ~> (Selected("handoff") => pc[Entropy(0)] = "done")
=============================================================================
