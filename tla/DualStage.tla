----------------------------- MODULE DualStage ------------------------------
(***************************************************************************)
(* run_cpu_gpr_dual_stage_pipeline: two pairs of a wavelet producer and an *)
(* entropy thread.  Each pair has its own slots, mutex, condition variable *)
(* and ready queue; the pairs share the claims, the abort flag and the     *)
(* error.                                                                  *)
(***************************************************************************)
EXTENDS StageThreads, FiniteSetsExt

Pairs == {"A", "B"}
PairThreads(p) == {Producer(p), Entropy(p)}
Threads == UNION {PairThreads(p) : p \in Pairs}

Init ==
    /\ o \in {opt \in OptionSets : opt.pipeline = "dual"} /\ claimed = 0
    /\ pc = [t \in Threads |-> "start"]
    /\ mu = [p \in Pairs |-> Nil]
    /\ state = [p \in Pairs |-> [i \in 1..o.slots |-> "free"]]
    /\ coeff = [p \in Pairs |-> [i \in 1..o.slots |-> Nil]]
    /\ ready = [p \in Pairs |-> <<>>]
    /\ producer_done = [p \in Pairs |-> FALSE]
    /\ holds = [t \in Threads |-> Nil]
    /\ made = [p \in Pairs |-> 0]
    /\ encoded = [p \in Pairs |-> <<>>]
    /\ abort = FALSE /\ main = "running"

Free(p) == {i \in 1..o.slots : state[p][i] = "free"}

-----------------------------------------------------------------------------
(* The producer of a pair.                                                 *)

\* find_free_locked: the first free slot.
ProducerWait(p) == LET t == Producer(p) IN
    /\ pc[t] = "wait" /\ mu[p] = Nil
    /\ \/ abort /\ Goto(t, "finish") /\ UNCHANGED <<mu, state, holds, made>>
       \/ /\ ~abort /\ Free(p) # {}
          /\ state' = [state EXCEPT ![p][Min(Free(p))] = "producer"]
          /\ holds' = [holds EXCEPT ![t] = Min(Free(p))]
          /\ made' = [made EXCEPT ![p] = @ + 1]
          /\ Goto(t, "transform")
          /\ UNCHANGED mu
       \/ /\ ~abort /\ Free(p) = {}
          /\ Doze(t, p)
          /\ UNCHANGED <<state, holds, made>>
    /\ UNCHANGED <<claimed, coeff, ready, encoded, flagVars>>

Transform(p) == LET t == Producer(p) IN
    /\ pc[t] = "transform"
    /\ coeff' = [coeff EXCEPT ![p][holds[t]] = <<p, made[p]>>]
    /\ Goto(t, "publish")
    /\ UNCHANGED <<claimed, mu, state, ready, holds, frameVars, flagVars>>

\* Seeded fault: a published slot is not announced.
PublishSilently(p) == LET t == Producer(p) IN
    /\ pc[t] = "publish" /\ mu[p] = Nil
    /\ state' = [state EXCEPT ![p][holds[t]] = "ready"]
    /\ ready' = [ready EXCEPT ![p] = Append(@, holds[t])]
    /\ holds' = [holds EXCEPT ![t] = Nil]
    /\ Goto(t, "claim")
    /\ UNCHANGED <<claimed, mu, coeff, frameVars, flagVars>>

Publish(p) == LET t == Producer(p) IN
    /\ pc[t] = "publish" /\ mu[p] = Nil
    /\ state' = [state EXCEPT ![p][holds[t]] = "ready"]
    /\ ready' = [ready EXCEPT ![p] = Append(@, holds[t])]
    /\ holds' = [holds EXCEPT ![t] = Nil]
    /\ GotoNotifying(t, "claim", PairThreads(p))
    /\ UNCHANGED <<claimed, mu, coeff, frameVars, flagVars>>

ProducerFinish(p) == LET t == Producer(p) IN
    /\ pc[t] = "finish" /\ mu[p] = Nil
    /\ producer_done' = [producer_done EXCEPT ![p] = TRUE]
    /\ GotoNotifying(t, "done", PairThreads(p))
    /\ UNCHANGED <<claimed, mu, slotVars, frameVars, o, abort, main>>

\* Seeded fault: a failing producer does not take its pair's mutex.
CaughtUnlocked(p) == LET t == Producer(p) IN
    /\ pc[t] = "caught"
    /\ producer_done' = [producer_done EXCEPT ![p] = TRUE]
    /\ Goto(t, "tellAll")
    /\ UNCHANGED <<claimed, mu, slotVars, frameVars, o, abort, main>>

\* The catch block: done as well, then both pairs are told, without a mutex.
ProducerCaught(p) == LET t == Producer(p) IN
    /\ pc[t] = "caught" /\ mu[p] = Nil
    /\ producer_done' = [producer_done EXCEPT ![p] = TRUE]
    /\ Goto(t, "tellAll")
    /\ UNCHANGED <<claimed, mu, slotVars, frameVars, o, abort, main>>

-----------------------------------------------------------------------------
(* The entropy thread of a pair.                                           *)

\* The oldest ready slot, owned by `owner` while it is encoded.
TakeReady(p, owner) == LET t == Entropy(p) IN
    /\ pc[t] = "wait" /\ mu[p] = Nil
    /\ \/ /\ abort \/ (ready[p] = <<>> /\ producer_done[p])
          /\ Goto(t, "done")
          /\ UNCHANGED <<mu, state, ready, holds>>
       \/ /\ ~abort /\ ready[p] # <<>>
          /\ holds' = [holds EXCEPT ![t] = Head(ready[p])]
          /\ ready' = [ready EXCEPT ![p] = Tail(@)]
          /\ state' = [state EXCEPT ![p][Head(ready[p])] = owner]
          /\ Goto(t, "encode")
          /\ UNCHANGED mu
       \/ /\ ~abort /\ ready[p] = <<>> /\ ~producer_done[p]
          /\ Doze(t, p)
          /\ UNCHANGED <<state, ready, holds>>
    /\ UNCHANGED <<claimed, coeff, frameVars, flagVars>>

\* Seeded fault: the slot is free again as soon as it is taken.
FreesOnTake(p) == TakeReady(p, "free")

EntropyWait(p) == TakeReady(p, "entropy")

Encode(p) == LET t == Entropy(p) IN
    /\ pc[t] = "encode"
    /\ encoded' = [encoded EXCEPT ![p] = Append(@, coeff[p][holds[t]])]
    /\ Goto(t, "release")
    /\ UNCHANGED <<claimed, mu, slotVars, made, flagVars>>

Release(p) == LET t == Entropy(p) IN
    /\ pc[t] = "release" /\ mu[p] = Nil
    /\ state' = [state EXCEPT ![p][holds[t]] = "free"]
    /\ holds' = [holds EXCEPT ![t] = Nil]
    /\ GotoNotifying(t, "wait", PairThreads(p))
    /\ UNCHANGED <<claimed, mu, coeff, ready, frameVars, flagVars>>

-----------------------------------------------------------------------------
(* Both threads.                                                           *)

\* The catch blocks: the error, then abort, without a mutex of the pairs.
Throw(t) ==
    /\ o.may_fail /\ pc[t] \in {"start", "transform", "encode"}
    /\ abort' = TRUE
    /\ Goto(t, IF t \in {Producer(p) : p \in Pairs} THEN "caught" ELSE "tellAll")
    /\ UNCHANGED <<claimed, mu, slotVars, frameVars, o, producer_done, main>>

TellAll(t) ==
    /\ pc[t] = "tellAll"
    /\ GotoNotifying(t, "done", Threads)
    /\ UNCHANGED <<claimed, mu, slotVars, frameVars, flagVars>>

ProducerStep(p) == LET t == Producer(p) IN
    \/ Start(t, "claim") \/ ClaimWork(t, "wait", "finish")
    \/ ProducerWait(p) \/ Transform(p) \/ Publish(p)
    \/ ProducerFinish(p) \/ ProducerCaught(p) \/ TellAll(t) \/ Sleep(t)

EntropyStep(p) == LET t == Entropy(p) IN
    \/ Start(t, "wait") \/ EntropyWait(p) \/ Encode(p) \/ Release(p)
    \/ TellAll(t) \/ Sleep(t)

Next == \/ \E p \in Pairs : ProducerStep(p) \/ EntropyStep(p)
        \/ \E t \in Threads : Throw(t) \/ Wake(t)
        \/ Join

-----------------------------------------------------------------------------
(* Properties.                                                             *)

\* A slot is in the hands its state names: the producer's, the entropy
\* thread's, or once in the ready queue; so the coefficients are never
\* overwritten while they are read.
SlotsHandedOver == \A p \in Pairs : \A i \in 1..o.slots :
    /\ holds[Producer(p)] = i <=> state[p][i] = "producer"
    /\ holds[Entropy(p)] = i <=> state[p][i] = "entropy"
    /\ Cardinality({k \in DOMAIN ready[p] : ready[p][k] = i})
         = IF state[p][i] = "ready" THEN 1 ELSE 0

\* Each pair encodes the frames its producer made, in that order, none twice.
InOrder == \A p \in Pairs : \A k \in DOMAIN encoded[p] :
    encoded[p][k] = <<p, k>>
=============================================================================
