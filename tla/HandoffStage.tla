---------------------------- MODULE HandoffStage ----------------------------
(***************************************************************************)
(* run_cpu_gpr_stage_pipeline, strategies w0e1 and w1e0: one wavelet       *)
(* producer and one entropy thread hand slots over as in DualStage, while  *)
(* up to two normal workers transform and encode whole frames of their     *)
(* own.  All of them compete for the frames.  A catch block keeps err_mu   *)
(* until it has announced the failure.                                     *)
(***************************************************************************)
EXTENDS StageThreads, FiniteSetsExt

VARIABLE err_mu             \* the thread whose catch block is running

P == Producer(0)
E == Entropy(0)
Normals == {Normal(i) : i \in 1..o.normal_workers}
Threads == {P, E} \cup Normals

Init ==
    /\ o \in {opt \in OptionSets : opt.pipeline = "handoff"} /\ claimed = 0
    /\ pc = [t \in Threads |-> "start"]
    /\ mu = [q \in {"q_mu"} |-> Nil] /\ err_mu = Nil
    /\ state = [i \in 1..o.slots |-> "free"]
    /\ coeff = [i \in 1..o.slots |-> Nil]
    /\ ready = <<>>
    /\ producer_done = FALSE
    /\ holds = [t \in Threads |-> Nil]
    /\ made = [t \in {P} \cup Normals |-> 0]
    /\ encoded = [t \in {E} \cup Normals |-> <<>>]
    /\ abort = FALSE /\ main = "running"

Unlocked == mu["q_mu"] = Nil
Free == {i \in 1..o.slots : state[i] = "free"}

-----------------------------------------------------------------------------
ProducerWait ==
    /\ pc[P] = "wait" /\ Unlocked
    /\ \/ abort /\ Goto(P, "finish") /\ UNCHANGED <<mu, state, holds, made>>
       \/ /\ ~abort /\ Free # {}
          /\ state' = [state EXCEPT ![Min(Free)] = "producer"]
          /\ holds' = [holds EXCEPT ![P] = Min(Free)]
          /\ made' = [made EXCEPT ![P] = @ + 1]
          /\ Goto(P, "transform")
          /\ UNCHANGED mu
       \/ /\ ~abort /\ Free = {}
          /\ Doze(P, "q_mu")
          /\ UNCHANGED <<state, holds, made>>
    /\ UNCHANGED <<claimed, coeff, ready, encoded, flagVars, err_mu>>

Transform ==
    /\ pc[P] = "transform"
    /\ coeff' = [coeff EXCEPT ![holds[P]] = <<P, made[P]>>]
    /\ Goto(P, "publish")
    /\ UNCHANGED <<claimed, mu, state, ready, holds, frameVars, flagVars, err_mu>>

Publish ==
    /\ pc[P] = "publish" /\ Unlocked
    /\ state' = [state EXCEPT ![holds[P]] = "ready"]
    /\ ready' = Append(ready, holds[P])
    /\ holds' = [holds EXCEPT ![P] = Nil]
    /\ GotoNotifying(P, "claim", Threads)
    /\ UNCHANGED <<claimed, mu, coeff, frameVars, flagVars, err_mu>>

ProducerFinish ==
    /\ pc[P] = "finish" /\ Unlocked
    /\ producer_done' = TRUE
    /\ GotoNotifying(P, "done", Threads)
    /\ UNCHANGED <<claimed, mu, slotVars, frameVars, o, abort, main, err_mu>>

\* The catch block takes q_mu while it has err_mu.
ProducerCaught ==
    /\ pc[P] = "caught" /\ Unlocked
    /\ producer_done' = TRUE
    /\ Goto(P, "tell")
    /\ UNCHANGED <<claimed, mu, slotVars, frameVars, o, abort, main, err_mu>>

-----------------------------------------------------------------------------
EntropyWait ==
    /\ pc[E] = "wait" /\ Unlocked
    /\ \/ /\ abort \/ (ready = <<>> /\ producer_done)
          /\ Goto(E, "done")
          /\ UNCHANGED <<mu, state, ready, holds>>
       \/ /\ ~abort /\ ready # <<>>
          /\ holds' = [holds EXCEPT ![E] = Head(ready)]
          /\ ready' = Tail(ready)
          /\ state' = [state EXCEPT ![Head(ready)] = "entropy"]
          /\ Goto(E, "encode")
          /\ UNCHANGED mu
       \/ /\ ~abort /\ ready = <<>> /\ ~producer_done
          /\ Doze(E, "q_mu")
          /\ UNCHANGED <<state, ready, holds>>
    /\ UNCHANGED <<claimed, coeff, frameVars, flagVars, err_mu>>

Encode ==
    /\ pc[E] = "encode"
    /\ encoded' = [encoded EXCEPT ![E] = Append(@, coeff[holds[E]])]
    /\ Goto(E, "release")
    /\ UNCHANGED <<claimed, mu, slotVars, made, flagVars, err_mu>>

Release ==
    /\ pc[E] = "release" /\ Unlocked
    /\ state' = [state EXCEPT ![holds[E]] = "free"]
    /\ holds' = [holds EXCEPT ![E] = Nil]
    /\ GotoNotifying(E, "wait", Threads)
    /\ UNCHANGED <<claimed, mu, coeff, ready, frameVars, flagVars, err_mu>>

\* A normal worker transforms the frame it has claimed and encodes it, in a
\* slot of its own.
TransformLocal(t) ==
    /\ pc[t] = "transform"
    /\ made' = [made EXCEPT ![t] = @ + 1]
    /\ Goto(t, "encode")
    /\ UNCHANGED <<claimed, mu, slotVars, encoded, flagVars, err_mu>>

EncodeLocal(t) ==
    /\ pc[t] = "encode"
    /\ encoded' = [encoded EXCEPT ![t] = Append(@, <<t, made[t]>>)]
    /\ Goto(t, "claim")
    /\ UNCHANGED <<claimed, mu, slotVars, made, flagVars, err_mu>>

-----------------------------------------------------------------------------
\* The catch blocks; only the producer's goes on to q_mu.
Throw(t) ==
    /\ o.may_fail /\ pc[t] \in {"start", "transform", "encode"}
    /\ err_mu = Nil /\ err_mu' = t
    /\ abort' = TRUE
    /\ Goto(t, IF t = P THEN "caught" ELSE "tell")
    /\ UNCHANGED <<claimed, mu, slotVars, frameVars, o, producer_done, main>>

\* notify_all; then the catch block ends and gives up err_mu.
Tell(t) ==
    /\ pc[t] = "tell"
    /\ GotoNotifying(t, "done", Threads)
    /\ err_mu' = Nil
    /\ UNCHANGED <<claimed, mu, slotVars, frameVars, flagVars>>

ProducerStep ==
    \/ ProducerWait \/ Transform \/ Publish \/ ProducerFinish
    \/ ProducerCaught \/ Tell(P)
    \/ /\ Start(P, "claim") \/ ClaimWork(P, "wait", "finish") \/ Sleep(P)
       /\ UNCHANGED err_mu

EntropyStep ==
    \/ EntropyWait \/ Encode \/ Release \/ Tell(E)
    \/ (Start(E, "wait") \/ Sleep(E)) /\ UNCHANGED err_mu

NormalStep(t) ==
    /\ t \in Normals
    /\ \/ TransformLocal(t) \/ EncodeLocal(t) \/ Tell(t)
       \/ Start(t, "claim") /\ UNCHANGED err_mu
       \/ ClaimWork(t, "transform", "done") /\ UNCHANGED err_mu

Next == \/ ProducerStep \/ EntropyStep
        \/ \E t \in Normals : NormalStep(t)
        \/ \E t \in Threads : Throw(t) \/ (Wake(t) /\ UNCHANGED err_mu)
        \/ Join /\ UNCHANGED err_mu

-----------------------------------------------------------------------------
(* Properties.                                                             *)

\* A slot is in the hands its state names.
SlotsHandedOver == \A i \in 1..o.slots :
    /\ holds[P] = i <=> state[i] = "producer"
    /\ holds[E] = i <=> state[i] = "entropy"
    /\ Cardinality({k \in DOMAIN ready : ready[k] = i})
         = IF state[i] = "ready" THEN 1 ELSE 0

\* The entropy thread encodes what the producer made, in that order.
InOrder == \A k \in DOMAIN encoded[E] : encoded[E][k] = <<P, k>>
=============================================================================
