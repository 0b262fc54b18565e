---------------------------- MODULE StageThreads ----------------------------
(***************************************************************************)
(* What the three staged CPU pipelines (dual, adaptive, w0e1/w1e0) share:  *)
(* producers transform frames into slots of coefficients, entropy threads  *)
(* encode them, and a slot is handed over by its state under a mutex, its  *)
(* data never copied.                                                      *)
(*                                                                         *)
(* A block under a mutex is one step.  A thread whose wait predicate is    *)
(* false keeps the mutex until it sleeps ("drowsy"): abort is stored and   *)
(* often announced without the mutex, so it can fall in between.           *)
(* `error` is stored just before `abort` and read after the join: one flag *)
(* stands for both.                                                        *)
(***************************************************************************)
EXTENDS Naturals, Sequences, FiniteSets

CONSTANTS OptionSets,       \* the option sets a run tries
          Nil

VARIABLES o,                \* the options of this pass
          claimed,          \* claims made of claim_work, refused ones included
          pc,               \* where each thread is
          mu,               \* the drowsy thread that still holds each mutex
          state,            \* who owns each slot
          coeff,            \* the frame each slot holds
          ready,            \* slots ready to be encoded
          producer_done,
          holds,            \* the slot each thread works on
          made,             \* frames each thread has taken on
          encoded,          \* what each thread has encoded, in order
          abort, main

\* core0_stage_pipeline ("handoff" for w0e1 and w1e0), core0_stage_slots or
\* dual_global_slots, o.frames (of a pass that is not timed, and the bound of
\* one that is), o.duration > 0, and the options of one strategy only.
\* may_fail is no option: whether a stage may throw in this pass.
Options == [pipeline : {"dual", "adaptive", "handoff"},
            slots : 1..6, frames : Nat, timed : BOOLEAN, may_fail : BOOLEAN,
            normal_workers : 0..2,
            queue_policy : {"fifo", "preferred", "core2"},
            core0_reserve : 0..2, soft_reserve : BOOLEAN]

\* parse_args leaves core 0 of an adaptive pass a slot it may take.
ASSUME OptionsAssumption ==
    \A opt \in OptionSets :
        /\ opt \in Options
        /\ opt.pipeline = "adaptive" => opt.slots >= 3
        /\ opt.pipeline # "adaptive" => opt.slots <= 4
        /\ opt.pipeline # "handoff" => opt.normal_workers = 0

\* Nil is no slot, no frame and no thread.
ASSUME NilAssumption == Nil \notin Nat

Producer(i) == <<"producer", i>>
Entropy(i)  == <<"entropy", i>>
Normal(i)   == <<"normal", i>>

slotVars  == <<state, coeff, ready, holds>>
frameVars == <<made, encoded>>
flagVars  == <<o, producer_done, abort, main>>
stageVars == <<claimed, pc, mu, slotVars, frameVars, flagVars>>

Goto(t, where) == pc' = [pc EXCEPT ![t] = where]

\* t moves on and wakes the threads of S that sleep.  The notify_all that
\* follows a locked block belongs to its step: who tests its predicate in
\* between sees what the block has done.
GotoNotifying(t, where, S) ==
    pc' = [u \in DOMAIN pc |->
             IF u = t THEN where
             ELSE IF u \in S /\ pc[u] = "asleep" THEN "wait" ELSE pc[u]]

\* The predicate is false: t is about to sleep and still has the mutex m.
Doze(t, m) == Goto(t, "drowsy") /\ mu' = [mu EXCEPT ![m] = t]

Sleep(t) ==
    /\ pc[t] = "drowsy"
    /\ mu' = [m \in DOMAIN mu |-> IF mu[m] = t THEN Nil ELSE mu[m]]
    /\ Goto(t, "asleep")
    /\ UNCHANGED <<claimed, slotVars, frameVars, flagVars>>

\* A wait may return without a notification.
Wake(t) ==
    /\ pc[t] = "asleep"
    /\ Goto(t, "wait")
    /\ UNCHANGED <<claimed, mu, slotVars, frameVars, flagVars>>

\* while (!abort && claim_work()): by count, or until the clock says so.  The
\* counter is advanced before it is compared, so a claim that is refused has
\* advanced it too.
ClaimWork(t, granted, refused) ==
    /\ pc[t] = "claim"
    /\ \/ /\ ~abort /\ claimed < o.frames
          /\ claimed' = claimed + 1
          /\ Goto(t, granted)
       \/ /\ ~abort /\ ~o.timed /\ claimed >= o.frames
          /\ claimed' = claimed + 1
          /\ Goto(t, refused)
       \/ /\ abort \/ o.timed
          /\ UNCHANGED claimed
          /\ Goto(t, refused)
    /\ UNCHANGED <<mu, slotVars, frameVars, flagVars>>

\* Pinning, buffers and encoders; the encoder may be delayed arbitrarily.
Start(t, where) ==
    /\ pc[t] = "start"
    /\ Goto(t, where)
    /\ UNCHANGED <<claimed, mu, slotVars, frameVars, flagVars>>

\* The threads are joined and an error is rethrown.
Join ==
    /\ main = "running" /\ \A t \in DOMAIN pc : pc[t] = "done"
    /\ main' = IF abort THEN "failed" ELSE "returned"
    /\ UNCHANGED <<claimed, pc, mu, slotVars, frameVars, o,
                   producer_done, abort>>

-----------------------------------------------------------------------------
\* The frames as the caller sees them.
Taken == UNION {{<<t, n>> : n \in 1..made[t]} : t \in DOMAIN made}
Finished == UNION {{encoded[t][i] : i \in DOMAIN encoded[t]} :
                     t \in DOMAIN encoded}
=============================================================================
