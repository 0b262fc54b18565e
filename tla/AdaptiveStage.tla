--------------------------- MODULE AdaptiveStage ----------------------------
(***************************************************************************)
(* run_cpu_gpr_adaptive_stage_pipeline: producers 0 (core 0) and 1 (core   *)
(* 2) and two entropy threads share one pool of slots, one mutex, one      *)
(* condition variable and one ready queue.  Core 0 leaves some slots to    *)
(* core 2 (always, or only while core 2 waits), and an entropy thread      *)
(* prefers one producer's slots and steals the other's when it has none.   *)
(***************************************************************************)
EXTENDS StageThreads, FiniteSetsExt, SequencesExt

VARIABLES producer,         \* who filled each slot
          core2_waiting_for_slot

adaptiveVars == <<producer, core2_waiting_for_slot>>

Pids == 0..1
Threads == {Producer(i) : i \in Pids} \cup {Entropy(i) : i \in Pids}

Init ==
    /\ o \in {opt \in OptionSets : opt.pipeline = "adaptive"} /\ claimed = 0
    /\ pc = [t \in Threads |-> "start"]
    /\ mu = [q \in {"mu"} |-> Nil]
    /\ state = [i \in 1..o.slots |-> "free"]
    /\ coeff = [i \in 1..o.slots |-> Nil]
    /\ producer = [i \in 1..o.slots |-> Nil]
    /\ ready = <<>>
    /\ producer_done = [i \in Pids |-> FALSE]
    /\ core2_waiting_for_slot = FALSE
    /\ holds = [t \in Threads |-> Nil]
    /\ made = [i \in Pids |-> 0]
    /\ encoded = [i \in Pids |-> <<>>]
    /\ abort = FALSE /\ main = "running"

Unlocked == mu["mu"] = Nil
Free == {i \in 1..o.slots : state[i] = "free"}
all_done == \A i \in Pids : producer_done[i]

\* What the producer must leave free.
Reserve(i) ==
    IF i = 0 /\ (~o.soft_reserve \/ core2_waiting_for_slot) THEN o.core0_reserve
    ELSE 0

-----------------------------------------------------------------------------
(* The producers.                                                          *)

\* Core 2 says that it waits for a slot, and that it no longer does, under mu.
ProducerWait(i) == LET t == Producer(i) IN
    /\ pc[t] = "wait" /\ Unlocked
    /\ \/ abort /\ Goto(t, "finish") /\ UNCHANGED <<mu, state, holds, made, producer>>
       \/ /\ ~abort /\ Cardinality(Free) > Reserve(i)
          /\ state' = [state EXCEPT ![Min(Free)] = "producer"]
          /\ producer' = [producer EXCEPT ![Min(Free)] = i]
          /\ holds' = [holds EXCEPT ![t] = Min(Free)]
          /\ made' = [made EXCEPT ![i] = @ + 1]
          /\ Goto(t, "transform")
          /\ UNCHANGED mu
       \/ /\ ~abort /\ Cardinality(Free) <= Reserve(i)
          /\ Doze(t, "mu")
          /\ UNCHANGED <<state, holds, made, producer>>
    /\ core2_waiting_for_slot' =
          IF i = 1 THEN pc'[t] = "drowsy" ELSE core2_waiting_for_slot
    /\ UNCHANGED <<claimed, coeff, ready, encoded, flagVars>>

Transform(i) == LET t == Producer(i) IN
    /\ pc[t] = "transform"
    /\ coeff' = [coeff EXCEPT ![holds[t]] = <<i, made[i]>>]
    /\ Goto(t, "publish")
    /\ UNCHANGED <<claimed, mu, state, ready, holds, frameVars, flagVars,
                   adaptiveVars>>

Publish(i) == LET t == Producer(i) IN
    /\ pc[t] = "publish" /\ Unlocked
    /\ state' = [state EXCEPT ![holds[t]] = "ready"]
    /\ ready' = Append(ready, holds[t])
    /\ holds' = [holds EXCEPT ![t] = Nil]
    /\ GotoNotifying(t, "claim", Threads)
    /\ UNCHANGED <<claimed, mu, coeff, frameVars, flagVars, adaptiveVars>>

ProducerFinish(i) == LET t == Producer(i) IN
    /\ pc[t] = "finish" /\ Unlocked
    /\ producer_done' = [producer_done EXCEPT ![i] = TRUE]
    /\ GotoNotifying(t, "done", Threads)
    /\ UNCHANGED <<claimed, mu, slotVars, frameVars, o, abort, main,
                   adaptiveVars>>

-----------------------------------------------------------------------------
(* The entropy threads.                                                    *)

\* The preference of an entropy thread, or anybody's slot.
Preferred(e) == IF o.queue_policy = "core2" THEN 1 ELSE e
ReadyOf(i) == {k \in DOMAIN ready : producer[ready[k]] = i}
AnySlot(e) == o.queue_policy = "fifo" \/ ReadyOf(Preferred(e)) = {}

\* Seeded fault: the search for the preferred producer starts at the back.
PickNewest(e) == IF AnySlot(e) THEN 1 ELSE Max(ReadyOf(Preferred(e)))

\* pick_ready_locked: the first ready slot of the preferred producer, or the
\* first of all.
PickReady(e) == IF AnySlot(e) THEN 1 ELSE Min(ReadyOf(Preferred(e)))

EntropyWait(e) == LET t == Entropy(e) IN
    /\ pc[t] = "wait" /\ Unlocked
    /\ \/ /\ abort \/ (ready = <<>> /\ all_done)
          /\ Goto(t, "done")
          /\ UNCHANGED <<mu, state, ready, holds>>
       \/ /\ ~abort /\ ready # <<>>
          /\ LET k == PickReady(e) IN
               /\ holds' = [holds EXCEPT ![t] = ready[k]]
               /\ state' = [state EXCEPT ![ready[k]] = "entropy"]
               /\ ready' = RemoveAt(ready, k)
          /\ Goto(t, "encode")
          /\ UNCHANGED mu
       \/ /\ ~abort /\ ready = <<>> /\ ~all_done
          /\ Doze(t, "mu")
          /\ UNCHANGED <<state, ready, holds>>
    /\ UNCHANGED <<claimed, coeff, frameVars, flagVars, adaptiveVars>>

Encode(e) == LET t == Entropy(e) IN
    /\ pc[t] = "encode"
    /\ encoded' = [encoded EXCEPT ![e] = Append(@, coeff[holds[t]])]
    /\ Goto(t, "release")
    /\ UNCHANGED <<claimed, mu, slotVars, made, flagVars, adaptiveVars>>

Release(e) == LET t == Entropy(e) IN
    /\ pc[t] = "release" /\ Unlocked
    /\ state' = [state EXCEPT ![holds[t]] = "free"]
    /\ producer' = [producer EXCEPT ![holds[t]] = Nil]
    /\ coeff' = [coeff EXCEPT ![holds[t]] = Nil]
    /\ holds' = [holds EXCEPT ![t] = Nil]
    /\ GotoNotifying(t, "wait", Threads)
    /\ UNCHANGED <<claimed, mu, ready, frameVars, flagVars,
                   core2_waiting_for_slot>>

-----------------------------------------------------------------------------
(* All threads.                                                            *)

\* The catch blocks store abort without mu, and leave producer_done alone.
Throw(t) ==
    /\ o.may_fail /\ pc[t] \in {"start", "transform", "encode"}
    /\ abort' = TRUE
    /\ Goto(t, "caught")
    /\ UNCHANGED <<claimed, mu, slotVars, frameVars, o, producer_done,
                   main, adaptiveVars>>

Caught(t) ==
    /\ pc[t] = "caught"
    /\ GotoNotifying(t, "done", Threads)
    /\ UNCHANGED <<claimed, mu, slotVars, frameVars, flagVars, adaptiveVars>>

ProducerStep(i) == LET t == Producer(i) IN
    \/ ProducerWait(i) \/ Transform(i) \/ Publish(i) \/ ProducerFinish(i)
    \/ Caught(t)
    \/ /\ Start(t, "claim") \/ ClaimWork(t, "wait", "finish") \/ Sleep(t)
       /\ UNCHANGED adaptiveVars

EntropyStep(e) == LET t == Entropy(e) IN
    \/ EntropyWait(e) \/ Encode(e) \/ Release(e) \/ Caught(t)
    \/ (Start(t, "wait") \/ Sleep(t)) /\ UNCHANGED adaptiveVars

Next == \/ \E i \in Pids : ProducerStep(i) \/ EntropyStep(i)
        \/ \E t \in Threads : Throw(t) \/ (Wake(t) /\ UNCHANGED adaptiveVars)
        \/ Join /\ UNCHANGED adaptiveVars

-----------------------------------------------------------------------------
(* Properties.                                                             *)

\* A slot is in the hands its state names, of one thread only, and remembers
\* the producer whose frame it holds.
SlotsHandedOver == \A i \in 1..o.slots :
    LET holders == {t \in Threads : holds[t] = i} IN
    /\ state[i] = "producer" <=> \E p \in Pids : holders = {Producer(p)} /\ producer[i] = p
    /\ state[i] = "entropy" <=> \E e \in Pids : holders = {Entropy(e)}
    /\ state[i] \in {"free", "ready"} <=> holders = {}
    /\ Cardinality({k \in DOMAIN ready : ready[k] = i})
         = IF state[i] = "ready" THEN 1 ELSE 0
    /\ state[i] \in {"ready", "entropy"} => coeff[i][1] = producer[i]

\* Stolen or not, an entropy thread encodes the frames of a producer in the
\* order in which they were made.
InOrder == \A e \in Pids : \A j, k \in DOMAIN encoded[e] :
    j < k /\ encoded[e][j][1] = encoded[e][k][1]
      => encoded[e][j][2] < encoded[e][k][2]
=============================================================================
