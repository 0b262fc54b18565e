------------------------ MODULE CpuGprPipelineProofs ------------------------
(***************************************************************************)
(* Proofs about CpuGprPipeline, for every number of workers, frames, rows  *)
(* and ring places, and every kind of output: every frame is encoded once  *)
(* (the steps are those of EveryFrameOnce), from its own coefficients;     *)
(* every buffer has one holder; the reference prevails; and the files are  *)
(* numbered without a gap.                                                 *)
(*                                                                         *)
(* Each part has an inductive invariant of its own, which rests on that of *)
(* the frames: who works on what, and who has ended.                       *)
(***************************************************************************)
EXTENDS CpuGprPipeline, FiniteSetTheorems, TLAPS

-----------------------------------------------------------------------------
(* The passes.                                                             *)

LEMMA OptionFacts ==
  ASSUME o \in OptionSets
  PROVE  /\ o.workers \in 1..4 /\ o.frames \in Nat /\ o.save_gpr_limit \in Nat
         /\ o.assistant \in [Workers -> 0..3]
         /\ o.timed \in BOOLEAN /\ o.may_fail \in BOOLEAN /\ o.rendezvous \in BOOLEAN
         /\ o.helper \in BOOLEAN /\ o.hybrid \in BOOLEAN /\ o.save \in BOOLEAN
         /\ o.output \in {"sdk", "copy", "retained", "pooled"}
  <1>1. o \in Options /\ Len(o.assistant) = o.workers
    BY OptionsAssumption
  <1>2. o.assistant \in Seq(0..3) /\ o.workers \in 1..4
    BY <1>1 DEF Options
  <1>3. o.assistant \in [1..Len(o.assistant) -> 0..3]
    BY <1>2
  <1> QED BY <1>1, <1>2, <1>3 DEF Options, Workers

LEMMA WorkerFacts ==
  ASSUME o \in OptionSets
  PROVE  /\ Workers \subseteq Nat \ {0} /\ 1 \in Workers
         /\ IsFiniteSet(Workers) /\ Helpers \subseteq 1..3
         /\ \A w \in Workers : AssistantOf(w) \in 0..3
         /\ \A w \in Workers : AssistantOf(w) # 0 => AssistantOf(w) \in Helpers
  <1>1. o.workers \in 1..4 /\ o.assistant \in [Workers -> 0..3]
    BY OptionFacts
  <1>2. IsFiniteSet(Workers)
    BY <1>1, FS_Interval DEF Workers
  <1>3. \A w \in Workers : AssistantOf(w) \in 0..3
    BY <1>1 DEF AssistantOf
  <1>4. Helpers \subseteq 1..3
    BY <1>3 DEF Helpers
  <1> QED BY <1>1, <1>2, <1>3, <1>4 DEF Workers, Helpers

-----------------------------------------------------------------------------
(* The frames.                                                             *)

\* Where a worker has a frame.
Working == {"arrive", "arrived", "begin", "rows", "publish", "wait", "encode",
            "verify", "compare", "save", "write", "return", "retire"}

WorkerPlaces == Working \cup {"start", "assign", "done"}

TypeInv ==
    /\ o \in OptionSets
    /\ main \in {"running", "stopped", "notify", "join", "failed", "returned"}
    /\ stop \in BOOLEAN
    /\ pc \in [Workers -> WorkerPlaces]

\* Two workers never have the same frame, a frame taken on is finished or in
\* the hands of a worker unless one has failed, and the calling thread waits
\* for the workers.
FramesInv ==
    /\ next_frame \in Nat /\ commits \in Nat
    /\ frame \in [Workers -> 0..next_frame]
    /\ finished \subseteq 1..next_frame
    /\ \A w \in Workers : pc[w] \in Working => frame[w] # 0 /\ frame[w] \notin finished
    /\ \A v, w \in Workers : v # w /\ frame[v] = frame[w] => frame[v] = 0
    /\ ~stop => \A f \in (1..next_frame) \ finished :
                  \E w \in Workers : pc[w] \in Working /\ frame[w] = f
    /\ main # "running" => \A w \in Workers : pc[w] = "done"
    /\ main = "returned" => ~stop

\* A step of a worker between taking a frame on and releasing its output.
Inner(w) ==
    /\ w \in Workers
    /\ \/ Rendezvous(w) \/ Transform(w) \/ Encode(w) \/ Compare(w)
       \/ TakeTicket(w) \/ Write(w) \/ ReturnTicket(w)

\* Threads that are no workers.
Aside == (\E h \in Helpers : Assistant(h)) \/ Retirer \/ RetirerWake

LEMMA StepCases ==
  ASSUME [Next]_vars
  PROVE  \/ \E w \in Workers : Start(w)
         \/ \E w \in Workers : Assign(w)
         \/ \E w \in Workers : NoMoreFrames(w)
         \/ \E w \in Workers : Throw(w)
         \/ \E w \in Workers : Inner(w)
         \/ \E w \in Workers : Retire(w)
         \/ Aside \/ Main \/ UNCHANGED vars
  BY DEF Next, WorkerStep, Inner, Aside

LEMMA SameOptions ==
  ASSUME [Next]_vars
  PROVE  o' = o
  <1>1. ASSUME NEW w \in Workers, WorkerStep(w)  PROVE o' = o
    BY <1>1 DEF WorkerStep, Start, Assign, NoMoreFrames, Leave_, Rendezvous, Transform,
       Encode, Compare, Settle, TakeTicket, Write, ReturnTicket, Retire, Retire_
  <1>2. ASSUME NEW w \in Workers, Throw(w)  PROVE o' = o
    BY <1>2 DEF Throw, Leave_
  <1>3. ASSUME Retirer \/ RetirerWake \/ Main  PROVE o' = o
    BY <1>3 DEF Retirer, RetirerTest, RetirerFree, RetirerSleep, RetirerWake, Main
  <1>4. ASSUME NEW h \in Helpers, Assistant(h)  PROVE o' = o
    BY <1>4 DEF Assistant
  <1>5. CASE UNCHANGED vars
    BY <1>5 DEF vars
  <1> QED BY <1>1, <1>2, <1>3, <1>4, <1>5 DEF Next

\* What is defined by the options alone.
LEMMA SameNames ==
  ASSUME o' = o
  PROVE  /\ Workers' = Workers /\ Helpers' = Helpers /\ Containers' = Containers
         /\ \A w : AssistantOf(w)' = AssistantOf(w)
  BY DEF Workers, Helpers, Containers, AssistantOf, Container

\* An inner step moves one worker, from a place where it has a frame to
\* another.
LEMMA InnerMoves ==
  ASSUME TypeInv, NEW w \in Workers, Inner(w)
  PROVE  /\ pc[w] \in Working
         /\ \E x \in Working : pc' = [pc EXCEPT ![w] = x]
         /\ UNCHANGED <<o, main, stop, next_frame, frame, finished, commits>>
  <1>0. pc \in [Workers -> WorkerPlaces]
    BY DEF TypeInv
  <1>1. CASE Rendezvous(w)
    BY <1>1 DEF Rendezvous, Goto, frameVars, Working
  <1>2. CASE Transform(w)
    BY <1>2 DEF Transform, Goto, frameVars, Working
  <1>3. CASE Encode(w)
    BY <1>3 DEF Encode, Goto, Afterwards, frameVars, Working
  <1>4. CASE Compare(w)
    BY <1>4 DEF Compare, Settle, Goto, Afterwards, frameVars, Working
  <1>5. CASE TakeTicket(w) \/ Write(w) \/ ReturnTicket(w)
    BY <1>5 DEF TakeTicket, Write, ReturnTicket, Goto, frameVars, Working
  <1> QED BY <1>1, <1>2, <1>3, <1>4, <1>5 DEF Inner

\* The other threads leave the workers where they are.
LEMMA AsideMoves ==
  ASSUME Aside
  PROVE  UNCHANGED <<o, main, stop, pc, next_frame, frame, finished, commits>>
  BY DEF Aside, Assistant, Retirer, RetirerTest, RetirerFree, RetirerSleep, RetirerWake,
     frameVars

LEMMA MainMoves ==
  ASSUME TypeInv, Main
  PROVE  /\ UNCHANGED <<o, stop, pc, next_frame, frame, finished, commits>>
         /\ main' \in {"running", "stopped", "notify", "join", "failed", "returned"}
         /\ main' # "running"
         /\ main = "running" =>
              main' = "stopped" /\ \A w \in Workers : pc[w] = "done"
         /\ main' = "returned" => ~stop
  BY DEF TypeInv, Main, Outcome, frameVars

LEMMA TypeInvInit == Init => TypeInv
  BY DEF Init, TypeInv, WorkerPlaces

LEMMA TypeInvNext ==
  ASSUME TypeInv, [Next]_vars
  PROVE  TypeInv'
  <1>0. o' = o /\ Workers' = Workers
    BY SameOptions, SameNames
  <1>1. CASE \E w \in Workers : Start(w)
    BY <1>0, <1>1 DEF TypeInv, Start, Goto, WorkerPlaces
  <1>2. CASE \E w \in Workers : Assign(w)
    BY <1>0, <1>2 DEF TypeInv, Assign, Goto, WorkerPlaces, Working
  <1>3. CASE \E w \in Workers : NoMoreFrames(w)
    BY <1>0, <1>3 DEF TypeInv, NoMoreFrames, Leave_, Goto, WorkerPlaces
  <1>4. CASE \E w \in Workers : Throw(w)
    BY <1>0, <1>4 DEF TypeInv, Throw, Leave_, Goto, WorkerPlaces
  <1>5. CASE \E w \in Workers : Inner(w)
    BY <1>0, <1>5, InnerMoves DEF TypeInv, WorkerPlaces
  <1>6. CASE \E w \in Workers : Retire(w)
    BY <1>0, <1>6 DEF TypeInv, Retire, Retire_, Goto, WorkerPlaces
  <1>7. CASE Aside
    BY <1>0, <1>7, AsideMoves DEF TypeInv
  <1>8. CASE Main
    BY <1>0, <1>8, MainMoves DEF TypeInv
  <1>9. CASE UNCHANGED vars
    BY <1>0, <1>9 DEF TypeInv, vars
  <1> QED BY <1>1, <1>2, <1>3, <1>4, <1>5, <1>6, <1>7, <1>8, <1>9, StepCases

LEMMA FramesInvInit == Init => FramesInv
  BY DEF Init, FramesInv, Working

LEMMA FramesInvNext ==
  ASSUME TypeInv, FramesInv, [Next]_vars
  PROVE  FramesInv'
  <1>0. o' = o /\ Workers' = Workers
    BY SameOptions, SameNames
  <1>1. CASE \E w \in Workers : Start(w)
    BY <1>0, <1>1 DEF TypeInv, FramesInv, Start, Goto, frameVars, Working
  <1>2. CASE \E w \in Workers : Assign(w)
    <2> PICK w \in Workers : Assign(w)
      BY <1>2
    <2>1. /\ pc[w] = "assign" /\ next_frame' = next_frame + 1
          /\ frame' = [frame EXCEPT ![w] = next_frame + 1]
          /\ \E x \in Working : pc' = [pc EXCEPT ![w] = x]
          /\ UNCHANGED <<main, stop, finished, commits>>
      BY DEF Assign, Goto, Working
    <2> QED BY <1>0, <2>1 DEF TypeInv, FramesInv, Working
  <1>3. CASE \E w \in Workers : NoMoreFrames(w)
    BY <1>0, <1>3 DEF TypeInv, FramesInv, NoMoreFrames, Leave_, Goto, frameVars, Working
  <1>4. CASE \E w \in Workers : Throw(w)
    BY <1>0, <1>4 DEF TypeInv, FramesInv, Throw, Leave_, Goto, frameVars, Working
  <1>5. CASE \E w \in Workers : Inner(w)
    <2> PICK w \in Workers : Inner(w)
      BY <1>5
    <2> PICK x \in Working : pc' = [pc EXCEPT ![w] = x]
      BY InnerMoves
    <2>1. pc[w] \in Working /\ UNCHANGED <<main, stop, next_frame, frame, finished, commits>>
      BY InnerMoves
    <2>2. \A v \in Workers : pc'[v] \in Working <=> pc[v] \in Working
      BY <2>1 DEF TypeInv
    <2>3. main = "running"
      BY <2>1 DEF FramesInv, Working
    <2> QED BY <1>0, <2>1, <2>2, <2>3 DEF FramesInv
  <1>6. CASE \E w \in Workers : Retire(w)
    <2> PICK w \in Workers : Retire(w)
      BY <1>6
    <2>1. /\ pc[w] = "retire" /\ pc' = [pc EXCEPT ![w] = "assign"]
          /\ finished' = finished \cup {frame[w]} /\ commits' = commits + 1
          /\ UNCHANGED <<main, stop, next_frame, frame>>
      BY DEF Retire, Retire_, Goto
    <2>2. /\ pc[w] \in Working /\ frame[w] \in 1..next_frame
          /\ \A v \in Workers : v # w => pc'[v] = pc[v] /\ frame[v] # frame[w]
          /\ pc'[w] = "assign"
      BY <2>1 DEF TypeInv, FramesInv, Working
    <2>3. main = "running"
      BY <2>1 DEF FramesInv
    <2>4. \A v \in Workers : pc'[v] \in Working =>
            pc[v] \in Working /\ v # w /\ frame[v] # frame[w]
      BY <2>2 DEF Working
    <2>5. \A v \in Workers : pc'[v] \in Working => frame'[v] # 0 /\ frame'[v] \notin finished'
      BY <2>1, <2>4 DEF FramesInv
    <2>6. ~stop => \A f \in (1..next_frame) \ finished' :
                     \E v \in Workers : pc'[v] \in Working /\ frame[v] = f
      BY <2>1, <2>2 DEF FramesInv
    <2>7. next_frame \in Nat /\ commits \in Nat /\ finished \subseteq 1..next_frame
      BY DEF FramesInv
    <2>8. commits' \in Nat
      BY <2>1, <2>7
    <2>9. finished' \subseteq 1..next_frame
      BY <2>1, <2>2, <2>7
    <2> QED BY <1>0, <2>1, <2>3, <2>5, <2>6, <2>7, <2>8, <2>9 DEF FramesInv
  <1>7. CASE Aside
    <2>1. UNCHANGED <<o, main, stop, pc, next_frame, frame, finished, commits>>
      BY <1>7, AsideMoves
    <2> QED BY <1>0, <2>1 DEF FramesInv
  <1>8. CASE Main
    <2>1. /\ UNCHANGED <<o, stop, pc, next_frame, frame, finished, commits>>
          /\ main' # "running"
          /\ main = "running" => \A w \in Workers : pc[w] = "done"
          /\ main' = "returned" => ~stop
      BY <1>8, MainMoves
    <2> QED BY <1>0, <2>1 DEF FramesInv
  <1>9. CASE UNCHANGED vars
    BY <1>0, <1>9 DEF FramesInv, vars, frameVars
  <1> QED BY <1>1, <1>2, <1>3, <1>4, <1>5, <1>6, <1>7, <1>8, <1>9, StepCases

-----------------------------------------------------------------------------
(* Every frame taken on is encoded once.                                   *)

Accepting == \E w \in Workers : pc[w] # "done"
Told == IF stop THEN "failed" ELSE IF main = "running" THEN "running" ELSE "returned"

LEMMA DeliveryInit == Init => Delivery!Init
<1> SUFFICES ASSUME Init PROVE Delivery!Init
  OBVIOUS
<1>1. 1 \in Workers
  BY WorkerFacts DEF Init
<1>2. /\ next_frame = 0 /\ finished = {} /\ commits = 0 /\ ~stop /\ main = "running"
      /\ \A w \in Workers : pc[w] = "start"
  BY DEF Init
<1>3. 1..next_frame = {}
  BY <1>2
<1> QED BY <1>1, <1>2, <1>3 DEF Delivery!Init

\* What the abstract state is made of.
DeliveryStands == UNCHANGED <<next_frame, finished, commits, Accepting, Told>>

LEMMA DeliveryStutters ==
  ASSUME DeliveryStands
  PROVE  UNCHANGED Delivery!frameVars
  <1>1. UNCHANGED <<next_frame, finished, commits>>
    BY DEF DeliveryStands
  <1>2. (1..next_frame)' = 1..next_frame
    BY <1>1
  <1>3. UNCHANGED <<Accepting, Told>>
    BY DEF DeliveryStands
  <1> QED BY <1>1, <1>2, <1>3 DEF Delivery!frameVars, Accepting, Told

LEMMA DeliveryNext ==
  ASSUME TypeInv, FramesInv, [Next]_vars
  PROVE  Delivery!Next \/ UNCHANGED Delivery!frameVars
  <1>0. o' = o /\ Workers' = Workers
    BY SameOptions, SameNames
  <1>1. CASE \E w \in Workers : Start(w)
    <2> PICK w \in Workers : Start(w)
      BY <1>1
    <2>1. /\ pc[w] = "start" /\ pc' = [pc EXCEPT ![w] = "assign"]
          /\ UNCHANGED <<main, stop, next_frame, finished, commits>>
      BY DEF Start, Goto, frameVars
    <2>2. Accepting /\ Accepting'
      BY <1>0, <2>1 DEF TypeInv, Accepting
    <2>3. Told' = Told
      BY <2>1 DEF Told
    <2>4. DeliveryStands
      BY <2>1, <2>2, <2>3 DEF DeliveryStands
    <2> QED BY <2>4, DeliveryStutters
  <1>2. CASE \E w \in Workers : Assign(w)
    <2> PICK w \in Workers : Assign(w)
      BY <1>2
    <2>1. /\ pc[w] = "assign" /\ next_frame' = next_frame + 1
          /\ \E x \in Working : pc' = [pc EXCEPT ![w] = x]
          /\ UNCHANGED <<main, stop, finished, commits>>
      BY DEF Assign, Goto, Working
    <2>2. Accepting /\ Accepting'
      BY <1>0, <2>1 DEF TypeInv, Accepting, Working
    <2>3. Told' = Told
      BY <2>1 DEF Told
    <2>4. next_frame \in Nat
      BY DEF FramesInv
    <2>5. 1..next_frame \subseteq 1..next_frame' /\ (1..next_frame') \ (1..next_frame) = {next_frame + 1}
      BY <2>1, <2>4
    <2>6. Cardinality((1..next_frame') \ (1..next_frame)) = 1
      BY <2>5, FS_Singleton
    <2>7. Delivery!Cardinality((1..next_frame') \ (1..next_frame)) = 1
      BY <2>6, Zenon DEF Delivery!Cardinality, Cardinality
    <2>8. Accepting' = Accepting
      BY <2>2
    <2>9. Delivery!Take
      BY <2>1, <2>2, <2>3, <2>5, <2>7, <2>8 DEF Delivery!Take, Accepting, Told
    <2> QED BY <2>9 DEF Delivery!Next
  <1>3. CASE \E w \in Workers : NoMoreFrames(w)
    <2> PICK w \in Workers : NoMoreFrames(w)
      BY <1>3
    <2>1. /\ pc[w] = "assign" /\ pc' = [pc EXCEPT ![w] = "done"]
          /\ UNCHANGED <<main, stop, next_frame, finished, commits>>
      BY DEF NoMoreFrames, Leave_, Goto, frameVars
    <2>2. Accepting /\ Told' = Told
      BY <2>1 DEF TypeInv, Accepting, Told
    <2>3. CASE Accepting'
      <3>1. DeliveryStands
        BY <2>1, <2>2, <2>3 DEF DeliveryStands
      <3> QED BY <3>1, DeliveryStutters
    <2>4. CASE ~Accepting'
      <3>1. (1..next_frame)' = 1..next_frame
        BY <2>1
      <3>2. Delivery!Stop
        BY <2>1, <2>2, <2>4, <3>1 DEF Delivery!Stop, Accepting, Told
      <3> QED BY <3>2 DEF Delivery!Next
    <2> QED BY <2>3, <2>4
  <1>4. CASE \E w \in Workers : Throw(w)
    <2> PICK w \in Workers : Throw(w)
      BY <1>4
    <2>1. /\ pc[w] # "done" /\ stop' = TRUE
          /\ UNCHANGED <<main, next_frame, finished, commits>>
      BY DEF Throw, Leave_, Goto, frameVars
    <2>2. Accepting /\ main = "running" /\ Told' = "failed"
      BY <2>1 DEF FramesInv, Accepting, Told
    <2>3. (1..next_frame)' = 1..next_frame
      BY <2>1
    <2>4. CASE ~stop
      <3>1. Delivery!Fail
        BY <2>1, <2>2, <2>3, <2>4 DEF Delivery!Fail, Accepting, Told
      <3> QED BY <3>1 DEF Delivery!Next
    <2>5. CASE stop /\ Accepting'
      <3>1. DeliveryStands
        BY <2>1, <2>2, <2>5 DEF DeliveryStands, Told
      <3> QED BY <3>1, DeliveryStutters
    <2>6. CASE stop /\ ~Accepting'
      <3>1. Delivery!Stop
        BY <2>1, <2>2, <2>3, <2>6 DEF Delivery!Stop, Accepting, Told
      <3> QED BY <3>1 DEF Delivery!Next
    <2> QED BY <2>4, <2>5, <2>6
  <1>5. CASE \E w \in Workers : Inner(w)
    <2> PICK w \in Workers : Inner(w)
      BY <1>5
    <2>1. /\ pc[w] \in Working /\ \E x \in Working : pc' = [pc EXCEPT ![w] = x]
          /\ UNCHANGED <<main, stop, next_frame, finished, commits>>
      BY InnerMoves
    <2>2. Accepting /\ Accepting'
      BY <1>0, <2>1 DEF TypeInv, Accepting, Working
    <2>3. Told' = Told
      BY <2>1 DEF Told
    <2>4. DeliveryStands
      BY <2>1, <2>2, <2>3 DEF DeliveryStands
    <2> QED BY <2>4, DeliveryStutters
  <1>6. CASE \E w \in Workers : Retire(w)
    <2> PICK w \in Workers : Retire(w)
      BY <1>6
    <2>1. /\ pc[w] = "retire" /\ pc' = [pc EXCEPT ![w] = "assign"]
          /\ finished' = finished \cup {frame[w]} /\ commits' = commits + 1
          /\ UNCHANGED <<main, stop, next_frame, frame>>
      BY DEF Retire, Retire_, Goto
    <2>2. Accepting /\ Accepting' /\ main = "running" /\ Told' = Told
      BY <1>0, <2>1 DEF TypeInv, FramesInv, Accepting, Told
    <2>3. frame[w] \in (1..next_frame) \ finished
      BY <2>1 DEF FramesInv, Working
    <2>4. (1..next_frame)' = 1..next_frame
      BY <2>1
    <2>5. Delivery!Finish
      BY <2>1, <2>2, <2>3, <2>4 DEF Delivery!Finish, Accepting, Told
    <2> QED BY <2>5 DEF Delivery!Next
  <1>7. CASE Aside
    <2>1. UNCHANGED <<main, stop, pc, next_frame, finished, commits>>
      BY <1>7, AsideMoves
    <2>2. DeliveryStands
      BY <1>0, <2>1 DEF DeliveryStands, Accepting, Told
    <2> QED BY <2>2, DeliveryStutters
  <1>8. CASE Main
    <2>1. /\ UNCHANGED <<stop, pc, next_frame, finished, commits>>
          /\ main' # "running"
          /\ main = "running" => \A w \in Workers : pc[w] = "done"
      BY <1>8, MainMoves
    <2>2. (1..next_frame)' = 1..next_frame
      BY <2>1
    <2>3. Accepting' = Accepting
      BY <1>0, <2>1 DEF Accepting
    <2>4. CASE main = "running" /\ ~stop
      <3>1. ~Accepting
        BY <2>1, <2>4 DEF Accepting
      <3>2. finished = 1..next_frame
        BY <2>1, <2>4 DEF FramesInv, Working
      <3>3. Delivery!Return
        BY <2>1, <2>2, <2>3, <2>4, <3>1, <3>2 DEF Delivery!Return, Accepting, Told
      <3> QED BY <3>3 DEF Delivery!Next
    <2>5. CASE main # "running" \/ stop
      <3>1. DeliveryStands
        BY <2>1, <2>3, <2>5 DEF DeliveryStands, Told, TypeInv
      <3> QED BY <3>1, DeliveryStutters
    <2> QED BY <2>4, <2>5 DEF TypeInv
  <1>9. CASE UNCHANGED vars
    <2>1. UNCHANGED <<main, stop, pc, next_frame, finished, commits>>
      BY <1>9 DEF vars, frameVars
    <2>2. DeliveryStands
      BY <1>0, <2>1 DEF DeliveryStands, Accepting, Told
    <2> QED BY <2>2, DeliveryStutters
  <1> QED BY <1>1, <1>2, <1>3, <1>4, <1>5, <1>6, <1>7, <1>8, <1>9, StepCases

\* Two workers never hold the same frame, and none is lost but by a failure.
LEMMA FramesInductive == Spec => [](TypeInv /\ FramesInv)
  <1>1. Init => TypeInv /\ FramesInv
    BY TypeInvInit, FramesInvInit
  <1>2. TypeInv /\ FramesInv /\ [Next]_vars => (TypeInv /\ FramesInv)'
    BY TypeInvNext, FramesInvNext
  <1> QED BY <1>1, <1>2, PTL DEF Spec

\* The workers of run_cpu_gpr_pipeline take every frame on once, encode it
\* once, and the pass does not return before all that were taken on are
\* encoded, unless it fails: every step is one of EveryFrameOnce or none.
THEOREM FramesAreDelivered ==
  Spec => Delivery!Init /\ [][Delivery!Next]_(Delivery!frameVars)
  <1>1. TypeInv /\ FramesInv /\ [Next]_vars => [Delivery!Next]_(Delivery!frameVars)
    BY DeliveryNext
  <1> QED BY <1>1, DeliveryInit, FramesInductive, PTL DEF Spec

-----------------------------------------------------------------------------
(* The buffers.                                                            *)

HasOut == {"compare", "save", "write", "return", "retire"}
HasRef == {"verify", "compare"}
NotEncoded == {"arrive", "arrived", "begin", "rows", "publish", "wait", "encode"}

BufferNames == {"ref", "out", "container"} \X Nat
ContainerNames == {"container"} \X Nat

\* What a worker would lose in a failure or keep in its pool, and what the
\* helper thread is to free.
Held(w) == {out[w], ref[w], pool_buf_[w]} \ {Nil}
Queued == {retire_q[i] : i \in DOMAIN retire_q}
Retired == (Queued \cup {retiring}) \ {Nil}

BufferTypes ==
    /\ out \in [Workers -> BufferNames \cup {Nil}]
    /\ ref \in [Workers -> BufferNames \cup {Nil}]
    /\ pool_buf_ \in [Workers -> BufferNames \cup {Nil}]
    /\ pool_last_out_ \in [Workers -> BufferNames \cup {Nil}]
    /\ retire_q \in Seq(BufferNames)
    /\ retiring \in BufferNames \cup {Nil}
    /\ retiring # Nil <=> retirer = "free"

\* What a worker holds follows from where it is; its pool never holds what it
\* works on, and its two outputs are one only in the retained container.
OwnOf(w) ==
    /\ out[w] # Nil <=> pc[w] \in HasOut
    /\ ref[w] # Nil <=> pc[w] \in HasRef
    /\ pool_buf_[w] # Nil => pool_buf_[w] \notin {out[w], ref[w]} \cup ContainerNames
    /\ pool_last_out_[w] \notin ContainerNames
    /\ out[w] = ref[w] /\ out[w] # Nil => out[w] = Container(w)
OwnInv == \A w \in Workers : OwnOf(w)

\* A buffer waits once to be freed.
QueuedOnce ==
    /\ \A i, j \in DOMAIN retire_q : retire_q[i] = retire_q[j] => i = j
    /\ retiring \notin Queued

\* No buffer has two holders, what has one is live, and nothing else is.
ApartInv ==
    /\ \A v, w \in Workers : v # w => Held(v) \cap Held(w) = {}
    /\ \A w \in Workers : Held(w) \cap Retired = {}
    /\ \A w \in Workers : Held(w) \subseteq Live
    /\ Retired \subseteq Live /\ Retired \cap ContainerNames = {}
    /\ \A w \in Workers : Held(w) \cap ContainerNames \subseteq {Container(w)}
    /\ ~stop => \A b \in Live : b \in ContainerNames \cup Retired
                                  \/ \E w \in Workers : b \in Held(w)

\* A buffer of the heap is named after the frame it was made for: the next one
\* is never live yet.
NamesOf(w) ==
    /\ pc[w] \in NotEncoded => Fresh(w, "ref") \notin Live
    /\ pc[w] \in NotEncoded \cup {"verify"} => Fresh(w, "out") \notin Live
NamesInv ==
    /\ \A b \in Live : b \in Containers \cup ({"ref", "out"} \X (1..next_frame))
    /\ \A w \in Workers : NamesOf(w)

\* An output is its frame's; the reference of a trial is as the int16 path
\* writes it.
ContentsOf(w) ==
    /\ pc[w] \in HasOut => bytes[out[w]][1] = frame[w]
    /\ pc[w] \in HasRef /\ ref[w] # out[w] => bytes[ref[w]] = <<frame[w], TRUE>>
ContentsInv ==
    /\ \A b \in Live : bytes[b] \in Nat \X BOOLEAN
    /\ \A w \in Workers : ContentsOf(w)

BuffersInv == BufferTypes /\ OwnInv /\ QueuedOnce /\ ApartInv /\ NamesInv /\ ContentsInv

\* The step of a worker, as the buffers see it: out of what it holds and the
\* buffer N it writes comes what it holds afterwards; the rest is freed,
\* handed over or, in a failure, lost.
Handles(w, N) ==
    /\ \A v \in Workers \ {w} : Held(v)' = Held(v)
    /\ N \subseteq Held(w) \cup {Container(w)} \cup ({Fresh(w, "ref"), Fresh(w, "out")} \ Live)
    /\ Held(w)' \subseteq (Held(w) \cup N) \cap Live'
    /\ Live' \subseteq Live \cup N
    /\ Live \ Live' \subseteq Held(w) \cup {Container(w)}
    /\ Retired \subseteq Retired'
    /\ Retired' \ Retired \subseteq (Held(w) \cap Live') \ (Held(w)' \cup ContainerNames)
    /\ ~stop' => /\ ~stop
                 /\ Live' \cap (Held(w) \cup N)
                      \subseteq Held(w)' \cup Retired' \cup ContainerNames
    /\ \A b \in Live' \ N : bytes'[b] = bytes[b]

LEMMA NameFacts ==
  ASSUME TypeInv, FramesInv
  PROVE  /\ \A w \in Workers : w \in Nat /\ frame[w] \in Nat
         /\ \A w \in Workers : Container(w) \in ContainerNames /\ Container(w) \in BufferNames
         /\ \A w \in Workers, p \in {"ref", "out"} :
              Fresh(w, p) \in BufferNames \ ContainerNames
         /\ \A v, w \in Workers : v # w => Container(v) # Container(w)
         /\ Nil \notin BufferNames /\ Containers \subseteq ContainerNames
  <1>1. \A w \in Workers : w \in Nat /\ frame[w] \in Nat
    BY WorkerFacts DEF TypeInv, FramesInv
  <1>2. \A w \in Workers : Container(w) \in ContainerNames /\ Container(w) \in BufferNames
    BY <1>1 DEF Container, ContainerNames, BufferNames
  <1>3. \A w \in Workers, p \in {"ref", "out"} : Fresh(w, p) \in BufferNames \ ContainerNames
    BY <1>1 DEF Fresh, ContainerNames, BufferNames
  <1>4. \A v, w \in Workers : v # w => Container(v) # Container(w)
    BY DEF Container
  <1>5. Nil \notin BufferNames
    BY NilAssumption DEF BufferNames
  <1> QED BY <1>1, <1>2, <1>3, <1>4, <1>5 DEF Containers

LEMMA ApartNext ==
  ASSUME TypeInv, FramesInv, ApartInv, Workers' = Workers,
         NEW w \in Workers, NEW N, Handles(w, N)
  PROVE  /\ ApartInv'
         /\ \A v \in Workers \ {w} : \A b \in Held(v) : b \in Live' /\ bytes'[b] = bytes[b]
  <1>1. /\ \A v \in Workers \ {w} : Held(v)' = Held(v)
        /\ N \subseteq Held(w) \cup {Container(w)} \cup ({Fresh(w, "ref"), Fresh(w, "out")} \ Live)
        /\ Held(w)' \subseteq (Held(w) \cup N) \cap Live'
        /\ Live' \subseteq Live \cup N
        /\ Live \ Live' \subseteq Held(w) \cup {Container(w)}
        /\ Retired \subseteq Retired'
        /\ Retired' \ Retired \subseteq (Held(w) \cap Live') \ (Held(w)' \cup ContainerNames)
        /\ \A b \in Live' \ N : bytes'[b] = bytes[b]
    BY DEF Handles
  <1>2. /\ \A u, v \in Workers : u # v => Held(u) \cap Held(v) = {}
        /\ \A v \in Workers : Held(v) \cap Retired = {}
        /\ \A v \in Workers : Held(v) \subseteq Live
        /\ Retired \subseteq Live /\ Retired \cap ContainerNames = {}
        /\ \A v \in Workers : Held(v) \cap ContainerNames \subseteq {Container(v)}
    BY DEF ApartInv
  <1>3. /\ \A v \in Workers : Container(v) \in ContainerNames
        /\ \A v \in Workers : v # w => Container(v) # Container(w)
        /\ Fresh(w, "ref") \notin ContainerNames /\ Fresh(w, "out") \notin ContainerNames
    BY NameFacts
  <1>4. \A v \in Workers \ {w} : Held(v) \cap (Held(w) \cup {Container(w)} \cup N) = {}
    <2> SUFFICES ASSUME NEW v \in Workers \ {w}, NEW b \in Held(v)
                 PROVE  b \notin Held(w) \cup {Container(w)} \cup N
      OBVIOUS
    <2>1. b \notin Held(w) /\ b \in Live
      BY <1>2
    <2>2. b # Container(w)
      BY <1>2, <1>3
    <2> QED BY <1>1, <2>1, <2>2
  <1>5. Retired \cap (Held(w) \cup {Container(w)} \cup N) = {}
    BY <1>1, <1>2, <1>3
  <1>6. \A v \in Workers \ {w} : Held(v) \subseteq Live'
    BY <1>1, <1>2, <1>4
  <1>7. \A u, v \in Workers : u # v => Held(u)' \cap Held(v)' = {}
    <2> SUFFICES ASSUME NEW u \in Workers, NEW v \in Workers, u # v, NEW b \in Held(u)', b \in Held(v)'
                 PROVE  FALSE
      OBVIOUS
    <2>1. CASE u # w /\ v # w
      BY <1>1, <1>2, <2>1
    <2>2. CASE u = w
      BY <1>1, <1>4, <2>2
    <2>3. CASE v = w
      BY <1>1, <1>4, <2>3
    <2> QED BY <2>1, <2>2, <2>3
  <1>8. \A v \in Workers : Held(v)' \cap Retired' = {}
    <2> SUFFICES ASSUME NEW v \in Workers, NEW b \in Held(v)', b \in Retired'
                 PROVE  FALSE
      OBVIOUS
    <2>1. CASE v = w
      BY <1>1, <1>5, <2>1
    <2>2. CASE v # w
      BY <1>1, <1>2, <1>4, <2>2
    <2> QED BY <2>1, <2>2
  <1>9. \A v \in Workers : Held(v)' \subseteq Live'
    BY <1>1, <1>6
  <1>10. Retired' \subseteq Live'
    BY <1>1, <1>2, <1>5
  <1>11. Retired' \cap ContainerNames = {}
    BY <1>1, <1>2
  <1>12. \A v \in Workers : Held(v)' \cap ContainerNames \subseteq {Container(v)}
    BY <1>1, <1>2, <1>3
  <1>13. ASSUME ~stop', NEW b \in Live'
         PROVE  b \in ContainerNames \cup Retired' \/ \E v \in Workers : b \in Held(v)'
    <2>1. CASE b \in Held(w) \cup N
      BY <1>13, <2>1 DEF Handles
    <2>2. CASE b \notin Held(w) \cup N
      <3>1. ~stop /\ b \in Live
        BY <1>1, <1>13, <2>2 DEF Handles
      <3>2. b \in ContainerNames \cup Retired \/ \E v \in Workers : b \in Held(v)
        BY <3>1 DEF ApartInv
      <3> QED BY <1>1, <2>2, <3>2
    <2> QED BY <2>1, <2>2
  <1>14. \A v \in Workers : Container(v)' = Container(v)
    BY DEF Container
  <1>15. ContainerNames' = ContainerNames
    BY DEF ContainerNames
  <1>16. ApartInv'
    BY <1>7, <1>8, <1>9, <1>10, <1>11, <1>12, <1>13, <1>14, <1>15 DEF ApartInv
  <1>17. \A v \in Workers \ {w} : \A b \in Held(v) : b \in Live' /\ bytes'[b] = bytes[b]
    BY <1>1, <1>4, <1>6
  <1> QED BY <1>16, <1>17

\* Nothing changes for the other workers.
OnlyFor(w) ==
    \A v \in Workers \ {w} :
      /\ pc'[v] = pc[v] /\ frame'[v] = frame[v]
      /\ out'[v] = out[v] /\ ref'[v] = ref[v]
      /\ pool_buf_'[v] = pool_buf_[v] /\ pool_last_out_'[v] = pool_last_out_[v]

LEMMA HandlesNext ==
  ASSUME TypeInv, FramesInv, BuffersInv, o' = o,
         NEW w \in Workers, NEW N, Handles(w, N), OnlyFor(w),
         UNCHANGED <<frame, next_frame>>, N = {} \/ pc[w] \in Working,
         BufferTypes', QueuedOnce', OwnOf(w)', ContentsOf(w)', NamesOf(w)',
         \A b \in N : b \in Live' => bytes'[b] \in Nat \X BOOLEAN
  PROVE  BuffersInv'
  <1>0. Workers' = Workers /\ Containers' = Containers
    BY SameNames
  <1>1. /\ ApartInv'
        /\ \A v \in Workers \ {w} : \A b \in Held(v) : b \in Live' /\ bytes'[b] = bytes[b]
    BY <1>0, ApartNext DEF BuffersInv
  <1>2. OwnInv'
    <2> SUFFICES ASSUME NEW v \in Workers, v # w  PROVE OwnOf(v)'
      BY <1>0 DEF OwnInv
    <2>1. OwnOf(v)
      BY DEF BuffersInv, OwnInv
    <2>2. /\ pc'[v] = pc[v] /\ out'[v] = out[v] /\ ref'[v] = ref[v]
          /\ pool_buf_'[v] = pool_buf_[v] /\ pool_last_out_'[v] = pool_last_out_[v]
      BY DEF OnlyFor
    <2> QED BY <2>1, <2>2 DEF OwnOf, HasOut, HasRef, ContainerNames, Container
  <1>3. /\ N \subseteq Held(w) \cup {Container(w)} \cup ({Fresh(w, "ref"), Fresh(w, "out")} \ Live)
        /\ Live' \subseteq Live \cup N /\ Held(w) \subseteq Live
        /\ \A b \in Live' \ N : bytes'[b] = bytes[b]
    BY DEF Handles, BuffersInv, ApartInv
  <1>4. ContentsInv'
    <2>1. \A b \in Live' : bytes'[b] \in Nat \X BOOLEAN
      BY <1>3 DEF BuffersInv, ContentsInv
    <2>2. ASSUME NEW v \in Workers, v # w  PROVE ContentsOf(v)'
      <3>1. ContentsOf(v) /\ OwnOf(v)
        BY DEF BuffersInv, ContentsInv, OwnInv
      <3>2. /\ pc'[v] = pc[v] /\ out'[v] = out[v] /\ ref'[v] = ref[v] /\ frame'[v] = frame[v]
        BY <2>2 DEF OnlyFor
      <3>3. out[v] # Nil => bytes'[out[v]] = bytes[out[v]]
        BY <1>1, <2>2 DEF Held
      <3>4. ref[v] # Nil => bytes'[ref[v]] = bytes[ref[v]]
        BY <1>1, <2>2 DEF Held
      <3>5. pc[v] \in HasOut => bytes'[out'[v]][1] = frame'[v]
        BY <3>1, <3>2, <3>3 DEF ContentsOf, OwnOf
      <3>6. pc[v] \in HasRef /\ ref[v] # out[v] => bytes'[ref'[v]] = <<frame'[v], TRUE>>
        BY <3>1, <3>2, <3>4 DEF ContentsOf, OwnOf
      <3> QED BY <3>2, <3>5, <3>6 DEF ContentsOf, HasOut, HasRef
    <2> QED BY <1>0, <2>1, <2>2 DEF ContentsInv
  <1>5. NamesInv'
    <2>1. ASSUME NEW b \in Live'
          PROVE  b \in Containers \cup ({"ref", "out"} \X (1..next_frame))
      <3>1. CASE b \in Live
        BY <3>1 DEF BuffersInv, NamesInv
      <3>2. CASE b = Container(w)
        BY <3>2 DEF Containers
      <3>3. CASE b \in N /\ b \in {Fresh(w, "ref"), Fresh(w, "out")}
        <4>1. frame[w] \in 1..next_frame
          BY <3>3 DEF FramesInv
        <4> QED BY <3>3, <4>1 DEF Fresh
      <3> QED BY <1>3, <2>1, <3>1, <3>2, <3>3
    <2>2. ASSUME NEW v \in Workers, v # w  PROVE NamesOf(v)'
      <3>1. NamesOf(v)
        BY DEF BuffersInv, NamesInv
      <3>2. pc'[v] = pc[v] /\ frame'[v] = frame[v]
        BY <2>2 DEF OnlyFor
      <3>3. pc[v] \in Working => frame[v] # frame[w]
        BY <2>2 DEF FramesInv
      <3>4. ASSUME NEW p \in {"ref", "out"}, pc[v] \in Working, Fresh(v, p) \notin Live
            PROVE  Fresh(v, p) \notin Live'
        <4>1. Fresh(v, p) \notin {Fresh(w, "ref"), Fresh(w, "out")}
          BY <3>3, <3>4 DEF Fresh
        <4>2. Fresh(v, p) # Container(w)
          BY NameFacts
        <4> QED BY <1>3, <3>4, <4>1, <4>2
      <3>5. NotEncoded \cup {"verify"} \subseteq Working
        BY DEF NotEncoded, Working
      <3>6. Fresh(v, "ref")' = Fresh(v, "ref") /\ Fresh(v, "out")' = Fresh(v, "out")
        BY <3>2 DEF Fresh
      <3> QED BY <3>1, <3>2, <3>4, <3>5, <3>6 DEF NamesOf, NotEncoded
    <2> QED BY <1>0, <2>1, <2>2 DEF NamesInv
  <1> QED BY <1>1, <1>2, <1>4, <1>5 DEF BuffersInv

bufferVars == <<bytes, out, ref, pool_buf_, pool_last_out_, retire_q, retiring>>

\* A step that does not touch what the workers hold, nor moves one from or to
\* where a buffer is held.
LEMMA HoldersStand ==
  ASSUME FramesInv, BuffersInv, o' = o,
         UNCHANGED <<bytes, out, ref, pool_buf_, pool_last_out_, Retired>>,
         BufferTypes', QueuedOnce', ~stop' => ~stop,
         next_frame' \in Nat, next_frame' >= next_frame,
         \A w \in Workers : /\ pc'[w] \in HasOut <=> pc[w] \in HasOut
                            /\ pc'[w] \in HasRef <=> pc[w] \in HasRef
                            /\ pc[w] \in HasOut \cup HasRef => frame'[w] = frame[w]
                            /\ NamesOf(w)'
  PROVE  BuffersInv'
  <1>0. Workers' = Workers /\ Containers' = Containers /\ next_frame \in Nat
    BY SameNames DEF FramesInv
  <1>1. UNCHANGED <<bytes, out, ref, pool_buf_, pool_last_out_>>
    OBVIOUS
  <1>3. OwnInv'
    <2> SUFFICES ASSUME NEW w \in Workers  PROVE OwnOf(w)'
      BY <1>0 DEF OwnInv
    <2>1. OwnOf(w)
      BY DEF BuffersInv, OwnInv
    <2>2. /\ pc'[w] \in HasOut <=> pc[w] \in HasOut
          /\ pc'[w] \in HasRef <=> pc[w] \in HasRef
      OBVIOUS
    <2>3. HasOut' = HasOut /\ HasRef' = HasRef
      BY DEF HasOut, HasRef
    <2> QED BY <1>1, <2>1, <2>2, <2>3 DEF OwnOf, ContainerNames, Container
  <1>5. Retired' = Retired /\ Live' = Live
    BY <1>1 DEF Live
  <1>6. ApartInv'
    <2>1. \A w \in Workers : Held(w)' = Held(w)
      BY <1>1 DEF Held
    <2>2. \A w \in Workers : Container(w)' = Container(w)
      BY DEF Container
    <2>3. ContainerNames' = ContainerNames
      BY DEF ContainerNames
    <2>4. ApartInv
      BY DEF BuffersInv
    <2> QED BY <1>0, <1>5, <2>1, <2>2, <2>3, <2>4 DEF ApartInv
  <1>7. NamesInv'
    <2>1. 1..next_frame \subseteq (1..next_frame)'
      BY <1>0
    <2>2. NamesInv
      BY DEF BuffersInv
    <2> QED BY <1>0, <1>5, <2>1, <2>2 DEF NamesInv
  <1>8. ContentsInv'
    <2>1. \A w \in Workers : ContentsOf(w)'
      <3> SUFFICES ASSUME NEW w \in Workers  PROVE ContentsOf(w)'
        OBVIOUS
      <3>1. ContentsOf(w)
        BY DEF BuffersInv, ContentsInv
      <3>2. /\ pc'[w] \in HasOut <=> pc[w] \in HasOut
            /\ pc'[w] \in HasRef <=> pc[w] \in HasRef
            /\ pc[w] \in HasOut \cup HasRef => frame'[w] = frame[w]
        OBVIOUS
      <3>3. HasOut' = HasOut /\ HasRef' = HasRef
        BY DEF HasOut, HasRef
      <3> QED BY <1>1, <3>1, <3>2, <3>3 DEF ContentsOf
    <2>2. \A b \in Live : bytes[b] \in Nat \X BOOLEAN
      BY DEF BuffersInv, ContentsInv
    <2> QED BY <1>0, <1>1, <1>5, <2>1, <2>2 DEF ContentsInv
  <1> QED BY <1>3, <1>6, <1>7, <1>8 DEF BuffersInv

LEMMA BuffersStand ==
  ASSUME FramesInv, BuffersInv, o' = o, UNCHANGED bufferVars,
         retirer' = "free" <=> retirer = "free", ~stop' => ~stop,
         next_frame' \in Nat, next_frame' >= next_frame,
         \A w \in Workers : /\ pc'[w] \in HasOut <=> pc[w] \in HasOut
                            /\ pc'[w] \in HasRef <=> pc[w] \in HasRef
                            /\ pc[w] \in HasOut \cup HasRef => frame'[w] = frame[w]
                            /\ NamesOf(w)'
  PROVE  BuffersInv'
  <1>0. Workers' = Workers
    BY SameNames
  <1>1. UNCHANGED <<bytes, out, ref, pool_buf_, pool_last_out_, retire_q, retiring>>
    BY DEF bufferVars
  <1>2. BufferTypes'
    BY <1>0, <1>1 DEF BuffersInv, BufferTypes, BufferNames
  <1>3. Queued' = Queued /\ QueuedOnce'
    BY <1>1 DEF BuffersInv, QueuedOnce, Queued
  <1>4. Retired' = Retired
    BY <1>1, <1>3 DEF Retired
  <1> QED BY <1>1, <1>2, <1>3, <1>4, HoldersStand

LEMMA NamesStand ==
  ASSUME NEW w \in Workers, NamesOf(w), UNCHANGED <<bytes, frame>>,
         pc'[w] \in NotEncoded => pc[w] \in NotEncoded,
         pc'[w] = "verify" => pc[w] = "verify"
  PROVE  NamesOf(w)'
  <1>1. Live' = Live /\ Fresh(w, "ref")' = Fresh(w, "ref") /\ Fresh(w, "out")' = Fresh(w, "out")
    BY DEF Live, Fresh
  <1> QED BY <1>1 DEF NamesOf, NotEncoded

\* The worker's steps that leave its buffers alone.
LEMMA BuffersQuiet ==
  ASSUME TypeInv, FramesInv, BuffersInv, NEW w \in Workers,
         \/ Start(w) \/ Rendezvous(w) \/ Transform(w)
         \/ TakeTicket(w) \/ Write(w) \/ ReturnTicket(w)
  PROVE  BuffersInv'
  <1>1. o' = o /\ UNCHANGED bufferVars /\ UNCHANGED <<retirer, stop, next_frame, frame>>
    BY DEF Start, Rendezvous, Transform, TakeTicket, Write, ReturnTicket,
       bufferVars, encoderVars, retireVars, frameVars, saveVars
  <1>2. PICK x : pc' = [pc EXCEPT ![w] = x] /\ x \in WorkerPlaces
                 /\ (x \in HasOut <=> pc[w] \in HasOut)
                 /\ (x \in HasRef <=> pc[w] \in HasRef)
                 /\ (x \in NotEncoded => pc[w] \in NotEncoded)
                 /\ x # "verify"
    <2>1. CASE Start(w)
      BY <2>1 DEF Start, Goto, HasOut, HasRef, NotEncoded, WorkerPlaces
    <2>2. CASE Rendezvous(w)
      BY <2>2 DEF Rendezvous, Goto, HasOut, HasRef, NotEncoded, WorkerPlaces, Working
    <2>3. CASE Transform(w)
      BY <2>3 DEF Transform, Goto, HasOut, HasRef, NotEncoded, WorkerPlaces, Working
    <2>4. CASE TakeTicket(w) \/ Write(w) \/ ReturnTicket(w)
      BY <2>4 DEF TakeTicket, Write, ReturnTicket, Goto, HasOut, HasRef, NotEncoded,
         WorkerPlaces, Working
    <2> QED BY <2>1, <2>2, <2>3, <2>4
  <1>3. \A v \in Workers : /\ pc'[v] \in HasOut <=> pc[v] \in HasOut
                           /\ pc'[v] \in HasRef <=> pc[v] \in HasRef
                           /\ pc'[v] \in NotEncoded => pc[v] \in NotEncoded
                           /\ pc'[v] = "verify" => pc[v] = "verify"
    BY <1>2 DEF TypeInv
  <1>4. \A v \in Workers : NamesOf(v)'
    <2> SUFFICES ASSUME NEW v \in Workers PROVE NamesOf(v)'
      OBVIOUS
    <2>1. NamesOf(v) /\ UNCHANGED <<bytes, frame>>
      BY <1>1 DEF BuffersInv, NamesInv, bufferVars
    <2> QED BY <1>3, <2>1, NamesStand
  <1>5. next_frame' \in Nat /\ next_frame' >= next_frame
    BY <1>1 DEF FramesInv
  <1> QED BY <1>1, <1>3, <1>4, <1>5, BuffersStand

LEMMA BuffersAssign ==
  ASSUME TypeInv, FramesInv, BuffersInv, NEW w \in Workers, Assign(w)
  PROVE  BuffersInv'
  <1>1. /\ o' = o /\ UNCHANGED bufferVars /\ UNCHANGED <<retirer, stop>>
        /\ pc[w] = "assign" /\ next_frame' = next_frame + 1
        /\ frame' = [frame EXCEPT ![w] = next_frame + 1]
        /\ \E x \in {"arrive", "begin"} : pc' = [pc EXCEPT ![w] = x]
    BY DEF Assign, Goto, bufferVars, encoderVars, retireVars, frameVars, saveVars
  <1>2. /\ pc'[w] \in {"arrive", "begin"} /\ frame'[w] = next_frame + 1
        /\ \A v \in Workers : v # w => pc'[v] = pc[v] /\ frame'[v] = frame[v]
    BY <1>1 DEF TypeInv, FramesInv
  <1>3. \A v \in Workers : /\ pc'[v] \in HasOut <=> pc[v] \in HasOut
                           /\ pc'[v] \in HasRef <=> pc[v] \in HasRef
                           /\ pc[v] \in HasOut \cup HasRef => frame'[v] = frame[v]
    BY <1>1, <1>2 DEF HasOut, HasRef
  <1>4. next_frame \in Nat
    BY DEF FramesInv
  <1>5. \A v \in Workers : NamesOf(v)'
    <2> SUFFICES ASSUME NEW v \in Workers PROVE NamesOf(v)'
      OBVIOUS
    <2>1. Live' = Live
      BY <1>1 DEF Live, bufferVars
    <2>2. CASE v = w
      <3>1. \A b \in Live : b \in Containers \cup ({"ref", "out"} \X (1..next_frame))
        BY DEF BuffersInv, NamesInv
      <3>2. ASSUME NEW p \in {"ref", "out"}, <<p, next_frame + 1>> \in Live
            PROVE  FALSE
        <4>1. next_frame + 1 \notin 1..next_frame
          BY <1>4
        <4>2. <<p, next_frame + 1>> \in Containers
          BY <3>1, <3>2, <4>1
        <4> QED BY <4>2 DEF Containers, Container
      <3>3. Fresh(v, "ref")' \notin Live /\ Fresh(v, "out")' \notin Live
        BY <1>2, <2>2, <3>2 DEF Fresh
      <3> QED BY <2>1, <3>3 DEF NamesOf
    <2>3. CASE v # w
      <3>1. NamesOf(v) /\ pc'[v] = pc[v] /\ frame'[v] = frame[v]
        BY <1>2, <2>3 DEF BuffersInv, NamesInv
      <3> QED BY <2>1, <3>1 DEF NamesOf, Fresh, NotEncoded
    <2> QED BY <2>2, <2>3
  <1>6. next_frame' \in Nat /\ next_frame' >= next_frame
    BY <1>1, <1>4
  <1> QED BY <1>1, <1>3, <1>5, <1>6, BuffersStand

\* The workers, seen by a step of another thread.
LEMMA WorkersStand ==
  ASSUME TypeInv, FramesInv, BuffersInv, UNCHANGED <<o, stop, next_frame, pc, frame, bytes>>
  PROVE  /\ next_frame' \in Nat /\ next_frame' >= next_frame
         /\ \A w \in Workers : /\ pc'[w] \in HasOut <=> pc[w] \in HasOut
                               /\ pc'[w] \in HasRef <=> pc[w] \in HasRef
                               /\ pc[w] \in HasOut \cup HasRef => frame'[w] = frame[w]
                               /\ NamesOf(w)'
  <1>1. next_frame' \in Nat /\ next_frame' >= next_frame
    BY DEF FramesInv
  <1>2. \A w \in Workers : NamesOf(w)'
    <2> SUFFICES ASSUME NEW w \in Workers PROVE NamesOf(w)'
      OBVIOUS
    <2>1. NamesOf(w)
      BY DEF BuffersInv, NamesInv
    <2> QED BY <2>1, NamesStand
  <1> QED BY <1>1, <1>2

LEMMA BuffersTest ==
  ASSUME TypeInv, FramesInv, BuffersInv, RetirerTest
  PROVE  BuffersInv'
  <1>1. /\ retirer = "wait"
        /\ UNCHANGED <<o, stop, next_frame, pc, frame, bytes, out, ref, pool_buf_, pool_last_out_>>
    BY DEF RetirerTest, frameVars, encoderVars
  <1>2. Workers' = Workers /\ BufferTypes /\ QueuedOnce
    BY <1>1, SameNames DEF BuffersInv
  <1>3. retire_q \in Seq(BufferNames) /\ retiring = Nil /\ Nil \notin BufferNames
    BY <1>1, <1>2, NameFacts DEF BufferTypes
  <1>4. CASE retire_q = <<>>
    <2>1. UNCHANGED bufferVars /\ retirer' # "free"
      BY <1>1, <1>4 DEF RetirerTest, bufferVars
    <2> QED BY <1>1, <2>1, WorkersStand, BuffersStand
  <1>5. CASE retire_q # <<>>
    <2>1. retiring' = Head(retire_q) /\ retire_q' = Tail(retire_q) /\ retirer' = "free"
      BY <1>1, <1>5 DEF RetirerTest
    <2>2. /\ Len(retire_q) \in Nat \ {0} /\ DOMAIN retire_q = 1..Len(retire_q)
          /\ \A i \in 1..Len(retire_q) : retire_q[i] \in BufferNames
          /\ Head(retire_q) = retire_q[1]
          /\ Tail(retire_q) \in Seq(BufferNames)
          /\ Len(Tail(retire_q)) = Len(retire_q) - 1
          /\ \A i \in 1..(Len(retire_q) - 1) : Tail(retire_q)[i] = retire_q[i + 1]
      BY <1>3, <1>5
    <2>3. /\ DOMAIN retire_q' = 1..(Len(retire_q) - 1)
          /\ \A i \in 1..(Len(retire_q) - 1) : retire_q'[i] = retire_q[i + 1]
          /\ retiring' = retire_q[1]
      BY <2>1, <2>2
    <2>4. BufferTypes'
      <3>1. BufferNames' = BufferNames
        BY DEF BufferNames
      <3>2. /\ retire_q' \in Seq(BufferNames) /\ retiring' \in BufferNames
            /\ retiring' # Nil /\ retirer' = "free"
        BY <1>3, <2>1, <2>2
      <3>3. UNCHANGED <<out, ref, pool_buf_, pool_last_out_>>
        BY <1>1
      <3> QED BY <1>2, <3>1, <3>2, <3>3 DEF BufferTypes
    <2>5. QueuedOnce'
      <3>1. \A i, j \in DOMAIN retire_q : retire_q[i] = retire_q[j] => i = j
        BY <1>2 DEF QueuedOnce
      <3>2. \A i, j \in DOMAIN retire_q' : retire_q'[i] = retire_q'[j] => i = j
        BY <2>2, <2>3, <3>1
      <3>3. \A i \in DOMAIN retire_q' : retire_q'[i] # retiring'
        BY <2>2, <2>3, <3>1
      <3> QED BY <3>2, <3>3 DEF QueuedOnce, Queued
    <2>6. Retired' = Retired
      <3>1. Queued = Queued' \cup {retiring'}
        <4>1. ASSUME NEW i \in 1..Len(retire_q)
              PROVE  retire_q[i] \in Queued' \cup {retiring'}
          <5>1. CASE i = 1
            BY <2>3, <5>1
          <5>2. CASE i # 1
            <6>1. i - 1 \in 1..(Len(retire_q) - 1) /\ (i - 1) + 1 = i
              BY <2>2, <5>2
            <6>2. retire_q'[i - 1] = retire_q[i] /\ i - 1 \in DOMAIN retire_q'
              BY <2>3, <6>1
            <6> QED BY <6>2 DEF Queued
          <5> QED BY <5>1, <5>2
        <4>2. ASSUME NEW i \in DOMAIN retire_q'
              PROVE  retire_q'[i] \in Queued
          <5>1. i + 1 \in DOMAIN retire_q /\ retire_q'[i] = retire_q[i + 1]
            BY <2>2, <2>3
          <5> QED BY <5>1 DEF Queued
        <4>3. retiring' \in Queued
          BY <2>2, <2>3 DEF Queued
        <4> QED BY <2>2, <4>1, <4>2, <4>3 DEF Queued
      <3> QED BY <1>3, <3>1 DEF Retired
    <2> QED BY <1>1, <2>4, <2>5, <2>6, WorkersStand, HoldersStand
  <1> QED BY <1>4, <1>5

LEMMA BuffersFree ==
  ASSUME TypeInv, FramesInv, BuffersInv, RetirerFree
  PROVE  BuffersInv'
  <1>1. /\ retirer = "free" /\ retirer' = "wait" /\ bytes' = Without(retiring) /\ retiring' = Nil
        /\ UNCHANGED <<o, stop, next_frame, pc, frame, out, ref, pool_buf_, pool_last_out_, retire_q>>
    BY DEF RetirerFree, frameVars
  <1>2. /\ Workers' = Workers /\ Containers' = Containers
        /\ BufferTypes /\ OwnInv /\ QueuedOnce /\ ApartInv /\ NamesInv /\ ContentsInv
    BY <1>1, SameNames DEF BuffersInv
  <1>3. Nil \notin BufferNames
    BY NameFacts
  <1>4. /\ Live' = Live \ {retiring}
        /\ \A b \in Live' : bytes'[b] = bytes[b]
    BY <1>1 DEF Without, Live
  <1>5. /\ \A w \in Workers : Held(w)' = Held(w) /\ Container(w)' = Container(w)
        /\ \A w \in Workers : Fresh(w, "ref")' = Fresh(w, "ref") /\ Fresh(w, "out")' = Fresh(w, "out")
        /\ ContainerNames' = ContainerNames /\ Queued' = Queued
    BY <1>1 DEF Held, Container, Fresh, ContainerNames, Queued
  <1>6. retiring # Nil /\ Retired' = Retired \ {retiring} /\ retiring \in Retired
    <2>1. retiring # Nil /\ retiring \notin Queued
      BY <1>1, <1>2 DEF BufferTypes, QueuedOnce
    <2> QED BY <1>1, <1>5, <2>1 DEF Retired
  <1>7. BufferTypes'
    BY <1>1, <1>2 DEF BufferTypes, BufferNames
  <1>8. QueuedOnce'
    <2>1. Nil \notin Queued
      BY <1>2, <1>3 DEF BufferTypes, Queued
    <2> QED BY <1>1, <1>2, <1>5, <2>1 DEF QueuedOnce
  <1>9. OwnInv'
    BY <1>1, <1>2 DEF OwnInv, OwnOf, HasOut, HasRef, ContainerNames, Container
  <1>10. ApartInv'
    <2>1. \A w \in Workers : retiring \notin Held(w)
      BY <1>2, <1>6 DEF ApartInv
    <2> QED BY <1>1, <1>2, <1>4, <1>5, <1>6, <2>1 DEF ApartInv
  <1>11. NamesInv'
    <2>1. \A b \in Live' : b \in Containers \cup ({"ref", "out"} \X (1..next_frame))
      BY <1>2, <1>4 DEF NamesInv
    <2>2. \A w \in Workers : NamesOf(w)'
      BY <1>1, <1>2, <1>4, <1>5 DEF NamesInv, NamesOf, NotEncoded
    <2> QED BY <1>1, <1>2, <2>1, <2>2 DEF NamesInv
  <1>12. ContentsInv'
    <2>1. \A b \in Live' : bytes'[b] \in Nat \X BOOLEAN
      BY <1>2, <1>4 DEF ContentsInv
    <2>2. ASSUME NEW w \in Workers  PROVE ContentsOf(w)'
      <3>1. ContentsOf(w) /\ OwnOf(w)
        BY <1>2 DEF ContentsInv, OwnInv
      <3>2. \A b \in Held(w) : b \in Live'
        BY <1>2, <1>4, <1>6 DEF ApartInv
      <3>3. /\ out[w] # Nil => bytes'[out[w]] = bytes[out[w]]
            /\ ref[w] # Nil => bytes'[ref[w]] = bytes[ref[w]]
        BY <1>4, <3>2 DEF Held
      <3> QED BY <1>1, <3>1, <3>3 DEF ContentsOf, OwnOf, HasOut, HasRef
    <2> QED BY <1>2, <2>1, <2>2 DEF ContentsInv
  <1> QED BY <1>7, <1>8, <1>9, <1>10, <1>11, <1>12 DEF BuffersInv

\* Threads that are not the helper in the middle of a buffer.
LEMMA BuffersElsewhere ==
  ASSUME TypeInv, FramesInv, BuffersInv,
         \/ \E h \in Helpers : Assistant(h)
         \/ RetirerSleep \/ RetirerWake \/ Main \/ UNCHANGED vars
  PROVE  BuffersInv'
  <1>1. /\ UNCHANGED <<o, stop, next_frame, pc, frame, bytes>> /\ UNCHANGED bufferVars
        /\ retirer' = "free" <=> retirer = "free"
    <2>1. CASE \E h \in Helpers : Assistant(h)
      BY <2>1 DEF Assistant, frameVars, encoderVars, retireVars, bufferVars
    <2>2. CASE RetirerSleep \/ RetirerWake
      BY <2>2 DEF RetirerSleep, RetirerWake, frameVars, encoderVars, bufferVars
    <2>3. CASE Main
      BY <2>3 DEF Main, frameVars, encoderVars, retireVars, bufferVars
    <2>4. CASE UNCHANGED vars
      BY <2>4 DEF vars, frameVars, encoderVars, retireVars, bufferVars
    <2> QED BY <2>1, <2>2, <2>3, <2>4
  <1> QED BY <1>1, WorkersStand, BuffersStand

LEMMA LiveNames ==
  ASSUME TypeInv, FramesInv, BuffersInv
  PROVE  Live \subseteq BufferNames /\ Nil \notin Live
  <1>1. Live \subseteq Containers \cup ({"ref", "out"} \X (1..next_frame))
    BY DEF BuffersInv, NamesInv
  <1>2. Containers \subseteq BufferNames /\ Nil \notin BufferNames
    BY NameFacts DEF Containers
  <1>3. next_frame \in Nat
    BY DEF FramesInv
  <1>4. {"ref", "out"} \X (1..next_frame) \subseteq BufferNames
    BY <1>3 DEF BufferNames
  <1> QED BY <1>1, <1>2, <1>4

\* What a worker has while it holds neither output, and afterwards.
LEMMA BuffersLeave ==
  ASSUME TypeInv, FramesInv, BuffersInv, NEW w \in Workers,
         NoMoreFrames(w) \/ Throw(w)
  PROVE  BuffersInv'
  <1>1. /\ bytes' = [b \in Live \ {pool_buf_[w], Container(w)} |-> bytes[b]]
        /\ pool_buf_' = [pool_buf_ EXCEPT ![w] = Nil]
        /\ pc' = [pc EXCEPT ![w] = "done"]
        /\ UNCHANGED <<o, next_frame, frame, pool_last_out_, retire_q, retirer, retiring>>
    BY DEF NoMoreFrames, Throw, Leave_, Goto, frameVars, retireVars
  <1>2. BufferTypes /\ OwnInv /\ QueuedOnce /\ Workers' = Workers
    BY <1>1, SameNames DEF BuffersInv
  <1>3. OwnOf(w)
    BY <1>2 DEF OwnInv
  <1>4. /\ out' = [out EXCEPT ![w] = Nil] /\ ref' = [ref EXCEPT ![w] = Nil]
        /\ ~stop' => ~stop /\ out[w] = Nil /\ ref[w] = Nil
    <2>1. CASE NoMoreFrames(w)
      <3>1. out' = out /\ ref' = ref /\ stop' = stop /\ pc[w] = "assign"
        BY <2>1 DEF NoMoreFrames
      <3>2. out[w] = Nil /\ ref[w] = Nil
        BY <1>3, <3>1 DEF OwnOf, HasOut, HasRef
      <3> QED BY <1>2, <3>1, <3>2 DEF BufferTypes
    <2>2. CASE Throw(w)
      BY <2>2 DEF Throw
    <2> QED BY <2>1, <2>2
  <1>5. /\ pc'[w] = "done" /\ out'[w] = Nil /\ ref'[w] = Nil /\ pool_buf_'[w] = Nil
        /\ pool_last_out_'[w] = pool_last_out_[w]
    BY <1>1, <1>2, <1>4 DEF TypeInv, BufferTypes
  <1>6. OnlyFor(w)
    BY <1>1, <1>2, <1>4 DEF TypeInv, BufferTypes, OnlyFor
  <1>7. Live' = Live \ {pool_buf_[w], Container(w)} /\ \A b \in Live' : bytes'[b] = bytes[b]
    BY <1>1 DEF Live
  <1>8. Held(w)' = {} /\ \A v \in Workers \ {w} : Held(v)' = Held(v)
    BY <1>5, <1>6 DEF Held, OnlyFor
  <1>9. Retired' = Retired /\ Queued' = Queued
    BY <1>1 DEF Retired, Queued
  <1>10. Handles(w, {})
    <2>1. Live \ Live' \subseteq Held(w) \cup {Container(w)}
      BY <1>7, LiveNames DEF Held
    <2>2. ~stop' => ~stop /\ Live' \cap Held(w) = {}
      BY <1>4, <1>7 DEF Held
    <2> QED BY <1>7, <1>8, <1>9, <2>1, <2>2 DEF Handles
  <1>11. BufferTypes' /\ QueuedOnce'
    <2>1. BufferNames' = BufferNames
      BY DEF BufferNames
    <2> QED BY <1>1, <1>2, <1>4, <1>9, <2>1 DEF BufferTypes, QueuedOnce
  <1>12. OwnOf(w)' /\ ContentsOf(w)' /\ NamesOf(w)'
    <2>1. OwnOf(w)'
      BY <1>3, <1>5 DEF OwnOf, HasOut, HasRef, ContainerNames
    <2> QED BY <1>5, <2>1 DEF ContentsOf, NamesOf, HasOut, HasRef, NotEncoded
  <1> QED BY <1>1, <1>6, <1>10, <1>11, <1>12, HandlesNext

\* What encode or encode_hybrid writes, and what becomes of the pool.
LEMMA ProduceFacts ==
  ASSUME TypeInv, FramesInv, BuffersInv, NEW w \in Workers,
         NEW path \in {"ref", "out"}, NEW good, NEW b \in Candidates(w, path),
         Fresh(w, path) \notin Live, pc[w] \in {"encode", "verify"},
         Produce(w, path, good, b)
  PROVE  /\ b \in BufferNames /\ b \in {Fresh(w, path), Container(w), pool_buf_[w]}
         /\ b \in Live' /\ bytes'[b] = <<frame[w], good>>
         /\ Live' \subseteq Live \cup {b}
         /\ \A c \in Live \ Live' : c = pool_buf_[w] /\ pool_buf_'[w] = Nil
         /\ \A c \in Live' \ {b} : bytes'[c] = bytes[c]
         /\ pool_buf_' \in [Workers -> BufferNames \cup {Nil}]
         /\ pool_last_out_' \in [Workers -> BufferNames \cup {Nil}]
         /\ \A v \in Workers \ {w} : /\ pool_buf_'[v] = pool_buf_[v]
                                     /\ pool_last_out_'[v] = pool_last_out_[v]
         /\ pool_buf_'[w] \in {pool_buf_[w], Nil} \ {b}
         /\ pool_buf_'[w] = Nil => pool_buf_[w] \notin Live' \ {b}
         /\ pool_last_out_'[w] = pool_last_out_[w] \/ pool_last_out_'[w] \notin ContainerNames
  <1>0. /\ BufferTypes /\ OwnOf(w) /\ Held(w) \subseteq Live /\ Nil \notin Live
        /\ Fresh(w, path) \in BufferNames \ ContainerNames
        /\ Container(w) \in BufferNames \cap ContainerNames /\ Nil \notin BufferNames
    BY LiveNames, NameFacts DEF BuffersInv, OwnInv, ApartInv
  <1>1. /\ pool_buf_ \in [Workers -> BufferNames \cup {Nil}]
        /\ pool_last_out_ \in [Workers -> BufferNames \cup {Nil}]
        /\ pool_buf_[w] # Nil => pool_buf_[w] \in Live \ ContainerNames
    BY <1>0 DEF BufferTypes, OwnOf, Held
  <1>2. b \in {Fresh(w, path), Container(w), pool_buf_[w]} /\ b # Nil /\ b \in BufferNames
    BY <1>0, <1>1 DEF Candidates
  <1>3. ASSUME Store(w, good, b)
        PROVE  /\ Live' = Live \cup {b} /\ bytes'[b] = <<frame[w], good>>
               /\ \A c \in Live' \ {b} : bytes'[c] = bytes[c]
    BY <1>3 DEF Store, Stored, Live
  <1>4. CASE ProduceBySdk(w, path, good, b) /\ learnt[w] < SPLICE_VERIFY_FRAMES
    <2>1. Store(w, good, b) /\ UNCHANGED <<pool_buf_, pool_last_out_>> /\ b = Fresh(w, path)
      BY <1>4 DEF ProduceBySdk
    <2> QED BY <1>0, <1>1, <1>2, <1>3, <2>1
  <1>5. CASE ProduceBySdk(w, path, good, b) /\ ~(learnt[w] < SPLICE_VERIFY_FRAMES)
    <2>1. /\ bytes' = Stored(w, good, b, Without(pool_buf_[w]))
          /\ pool_buf_' = [pool_buf_ EXCEPT ![w] = Nil]
          /\ UNCHANGED pool_last_out_ /\ b = Fresh(w, path)
      BY <1>5 DEF ProduceBySdk
    <2>2. /\ Live' = (Live \ {pool_buf_[w]}) \cup {b} /\ bytes'[b] = <<frame[w], good>>
          /\ \A c \in Live' \ {b} : bytes'[c] = bytes[c]
      BY <2>1 DEF Without, Stored, Live
    <2>3. pool_buf_'[w] = Nil /\ \A v \in Workers \ {w} : pool_buf_'[v] = pool_buf_[v]
      BY <1>1, <2>1
    <2>4. pool_buf_' \in [Workers -> BufferNames \cup {Nil}]
      BY <1>1, <2>1
    <2> QED BY <1>0, <1>1, <1>2, <2>1, <2>2, <2>3, <2>4
  <1>6. CASE ProduceBySplice(w, path, good, b)
    <2>1. /\ Store(w, good, b)
          /\ \/ /\ b \in {Fresh(w, path), Container(w)}
                /\ UNCHANGED <<pool_buf_, pool_last_out_>>
             \/ /\ b = IF pool_buf_[w] = Nil THEN Fresh(w, path) ELSE pool_buf_[w]
                /\ pool_buf_' = [pool_buf_ EXCEPT ![w] = Nil]
                /\ pool_last_out_' = [pool_last_out_ EXCEPT ![w] = b]
      BY <1>6 DEF ProduceBySplice
    <2>2. CASE b \in {Fresh(w, path), Container(w)} /\ UNCHANGED <<pool_buf_, pool_last_out_>>
      BY <1>0, <1>1, <1>2, <1>3, <2>1, <2>2
    <2>3. CASE /\ b = IF pool_buf_[w] = Nil THEN Fresh(w, path) ELSE pool_buf_[w]
               /\ pool_buf_' = [pool_buf_ EXCEPT ![w] = Nil]
               /\ pool_last_out_' = [pool_last_out_ EXCEPT ![w] = b]
      <3>1. /\ pool_buf_'[w] = Nil /\ pool_last_out_'[w] = b
            /\ \A v \in Workers \ {w} : /\ pool_buf_'[v] = pool_buf_[v]
                                        /\ pool_last_out_'[v] = pool_last_out_[v]
        BY <1>1, <2>3
      <3>2. /\ pool_buf_' \in [Workers -> BufferNames \cup {Nil}]
            /\ pool_last_out_' \in [Workers -> BufferNames \cup {Nil}]
        BY <1>1, <1>2, <2>3
      <3>3. b \notin ContainerNames /\ pool_buf_[w] \notin (Live \cup {b}) \ {b}
        BY <1>0, <1>1, <2>3
      <3> QED BY <1>0, <1>2, <1>3, <2>1, <3>1, <3>2, <3>3
    <2> QED BY <2>1, <2>2, <2>3
  <1> QED BY <1>4, <1>5, <1>6 DEF Produce

LEMMA BuffersEncode ==
  ASSUME TypeInv, FramesInv, BuffersInv, NEW w \in Workers, Encode(w)
  PROVE  BuffersInv'
  <1>0. /\ BufferTypes /\ OwnOf(w) /\ NamesOf(w) /\ ContentsOf(w) /\ QueuedOnce
        /\ Held(w) \subseteq Live /\ Nil \notin BufferNames
        /\ pc \in [Workers -> WorkerPlaces]
    BY NameFacts DEF TypeInv, BuffersInv, OwnInv, NamesInv, ContentsInv, ApartInv
  <1>1. UNCHANGED <<o, stop, next_frame, frame, retire_q, retirer, retiring>>
    BY DEF Encode, frameVars, retireVars
  <1>2. PICK path, b, good, x :
          /\ path \in {"ref", "out"} /\ b \in Candidates(w, path) /\ good \in BOOLEAN
          /\ x \in {"save", "retire", "verify", "compare"}
          /\ Produce(w, path, good, b) /\ pc' = [pc EXCEPT ![w] = x]
          /\ \/ /\ pc[w] = "encode" /\ x \in {"save", "retire"} /\ path = "out"
                /\ out' = [out EXCEPT ![w] = b] /\ ref' = ref
             \/ /\ pc[w] = "encode" /\ x = "verify" /\ path = "ref" /\ good
                /\ ref' = [ref EXCEPT ![w] = b] /\ out' = out
             \/ /\ pc[w] = "verify" /\ x = "compare" /\ path = "out"
                /\ out' = [out EXCEPT ![w] = b] /\ ref' = ref
    BY DEF Encode, Goto, Afterwards
  <1>3. /\ pc[w] \in {"encode", "verify"} /\ pc'[w] = x
        /\ Fresh(w, path) \notin Live
    BY <1>0, <1>2 DEF NamesOf, NotEncoded
  <1>a. /\ path \in {"ref", "out"} /\ b \in Candidates(w, path)
        /\ Fresh(w, path) \notin Live /\ pc[w] \in {"encode", "verify"}
        /\ Produce(w, path, good, b)
    BY <1>2, <1>3
  <1>4. /\ b \in BufferNames /\ b \in {Fresh(w, path), Container(w), pool_buf_[w]}
        /\ b \in Live' /\ bytes'[b] = <<frame[w], good>>
        /\ Live' \subseteq Live \cup {b}
        /\ \A c \in Live \ Live' : c = pool_buf_[w] /\ pool_buf_'[w] = Nil
        /\ \A c \in Live' \ {b} : bytes'[c] = bytes[c]
        /\ pool_buf_' \in [Workers -> BufferNames \cup {Nil}]
        /\ pool_last_out_' \in [Workers -> BufferNames \cup {Nil}]
        /\ \A v \in Workers \ {w} : /\ pool_buf_'[v] = pool_buf_[v]
                                    /\ pool_last_out_'[v] = pool_last_out_[v]
        /\ pool_buf_'[w] \in {pool_buf_[w], Nil} \ {b}
        /\ pool_buf_'[w] = Nil => pool_buf_[w] \notin Live' \ {b}
        /\ pool_last_out_'[w] = pool_last_out_[w] \/ pool_last_out_'[w] \notin ContainerNames
    BY <1>a, ProduceFacts
  <1>5. Workers' = Workers /\ BufferNames' = BufferNames /\ ContainerNames' = ContainerNames
        /\ Container(w)' = Container(w) /\ Live' = (DOMAIN bytes)'
    BY <1>1, SameNames DEF BufferNames, ContainerNames, Container, Live
  <1>6. /\ out \in [Workers -> BufferNames \cup {Nil}] /\ ref \in [Workers -> BufferNames \cup {Nil}]
        /\ b # Nil
    BY <1>0, <1>4 DEF BufferTypes
  <1>7. /\ out' \in [Workers -> BufferNames \cup {Nil}]
        /\ ref' \in [Workers -> BufferNames \cup {Nil}]
        /\ \A v \in Workers \ {w} : out'[v] = out[v] /\ ref'[v] = ref[v] /\ pc'[v] = pc[v]
    <2>1. \/ out' = [out EXCEPT ![w] = b] /\ ref' = ref
          \/ ref' = [ref EXCEPT ![w] = b] /\ out' = out
      BY <1>2
    <2>2. pc' = [pc EXCEPT ![w] = x] /\ pc \in [Workers -> WorkerPlaces] /\ b \in BufferNames
      BY <1>0, <1>2, <1>4
    <2> QED BY <1>6, <2>1, <2>2
  <1>8. /\ pc[w] = "encode" => out[w] = Nil /\ ref[w] = Nil
        /\ pc[w] = "verify" => out[w] = Nil /\ ref[w] # Nil
    BY <1>0 DEF OwnOf, HasOut, HasRef
  <1>9. /\ x \in {"save", "retire"} => out'[w] = b /\ ref'[w] = Nil
        /\ x = "verify" => out'[w] = Nil /\ ref'[w] = b
        /\ x = "compare" => out'[w] = b /\ ref'[w] = ref[w] /\ pc[w] = "verify"
    BY <1>0, <1>2, <1>6, <1>8
  <1>10. OnlyFor(w)
    BY <1>1, <1>4, <1>7 DEF OnlyFor
  <1>11. BufferTypes' /\ QueuedOnce'
    <2>1. Queued' = Queued
      BY <1>1 DEF Queued
    <2> QED BY <1>0, <1>1, <1>4, <1>5, <1>7, <2>1 DEF BufferTypes, QueuedOnce
  <1>12. ref[w] # Nil => ref[w] # pool_buf_[w] /\ ref[w] \in Live'
    <2>1. ref[w] # Nil => ref[w] \in Live /\ ref[w] # pool_buf_[w]
      BY <1>0 DEF Held, OwnOf
    <2> QED BY <1>4, <2>1
  <1>13. pool_buf_'[w] # Nil => /\ pool_buf_'[w] = pool_buf_[w] /\ pool_buf_[w] \in Live'
                                /\ pool_buf_'[w] \notin {out'[w], ref'[w]} \cup ContainerNames
    <2>1. pool_buf_[w] # Nil => pool_buf_[w] \in Live \ ContainerNames
      BY <1>0 DEF Held, OwnOf
    <2> QED BY <1>2, <1>4, <1>9, <1>12, <2>1
  <1>14. Held(w)' \subseteq (Held(w) \cup {b}) \cap Live'
    <2>1. Held(w)' = {out'[w], ref'[w], pool_buf_'[w]} \ {Nil}
      BY DEF Held
    <2>2. ASSUME NEW c \in Held(w)'  PROVE c \in (Held(w) \cup {b}) \cap Live'
      <3>1. CASE c = b
        BY <1>4, <3>1
      <3>2. CASE c = pool_buf_'[w] /\ c # Nil
        BY <1>13, <3>2 DEF Held
      <3>3. CASE c = ref[w] /\ c # Nil
        BY <1>12, <3>3 DEF Held
      <3> QED BY <1>2, <1>9, <2>1, <2>2, <3>1, <3>2, <3>3
    <2> QED BY <2>2
  <1>15. Handles(w, {b})
    <2>1. \A v \in Workers \ {w} : Held(v)' = Held(v)
      BY <1>10 DEF OnlyFor, Held
    <2>2. {b} \subseteq Held(w) \cup {Container(w)} \cup ({Fresh(w, "ref"), Fresh(w, "out")} \ Live)
      BY <1>2, <1>3, <1>4, <1>6 DEF Held
    <2>3. Live \ Live' \subseteq Held(w) \cup {Container(w)}
      BY <1>4, LiveNames DEF Held
    <2>4. Retired' = Retired
      BY <1>1 DEF Retired, Queued
    <2>5. Live' \cap (Held(w) \cup {b}) \subseteq Held(w)'
      <3>1. Held(w)' = {out'[w], ref'[w], pool_buf_'[w]} \ {Nil} /\ b \in Held(w)'
        BY <1>2, <1>6, <1>9 DEF Held
      <3>2. ASSUME NEW c \in Held(w), c \in Live', c # b  PROVE c \in Held(w)'
        <4>1. CASE c = pool_buf_[w]
          BY <1>4, <3>1, <3>2, <4>1 DEF Held
        <4>2. CASE c = ref[w] /\ c # Nil
          BY <1>2, <1>3, <1>8, <1>9, <3>1, <4>2
        <4>3. c # out[w]
          BY <1>3, <1>8, <3>2 DEF Held
        <4> QED BY <3>2, <4>1, <4>2, <4>3 DEF Held
      <3> QED BY <3>1, <3>2
    <2> QED BY <1>1, <1>4, <1>14, <2>1, <2>2, <2>3, <2>4, <2>5 DEF Handles
  <1>16. OwnOf(w)'
    <2>1. x = "compare" /\ out'[w] = ref'[w] => out'[w] = Container(w)
      <3>1. Fresh(w, path) # ref[w] \/ ref[w] = Nil
        BY <1>0, <1>3 DEF Held
      <3> QED BY <1>4, <1>6, <1>9, <1>12, <3>1
    <2>2. pool_last_out_'[w] \notin ContainerNames
      BY <1>0, <1>4 DEF OwnOf
    <2>3. /\ out'[w] # Nil <=> pc'[w] \in HasOut
          /\ ref'[w] # Nil <=> pc'[w] \in HasRef
      BY <1>2, <1>3, <1>6, <1>8, <1>9 DEF HasOut, HasRef
    <2>4. out'[w] = ref'[w] /\ out'[w] # Nil => out'[w] = Container(w)
      BY <1>2, <1>9, <2>1
    <2> QED BY <1>5, <1>13, <2>2, <2>3, <2>4 DEF OwnOf, HasOut, HasRef
  <1>17. ContentsOf(w)'
    <2>1. bytes'[b] = <<frame'[w], good>> /\ bytes'[b][1] = frame'[w]
      BY <1>1, <1>4
    <2>2. ASSUME x = "compare", ref[w] # b  PROVE bytes'[ref[w]] = <<frame'[w], TRUE>>
      <3>1. ref[w] # Nil /\ out[w] = Nil /\ pc[w] = "verify"
        BY <1>8, <1>9, <2>2
      <3>2. bytes[ref[w]] = <<frame[w], TRUE>>
        BY <1>0, <3>1 DEF ContentsOf, HasRef
      <3> QED BY <1>1, <1>4, <1>12, <2>2, <3>1, <3>2
    <2>3. pc'[w] \in HasOut => bytes'[out'[w]][1] = frame'[w]
      BY <1>2, <1>3, <1>9, <2>1 DEF HasOut
    <2>4. pc'[w] \in HasRef /\ ref'[w] # out'[w] => bytes'[ref'[w]] = <<frame'[w], TRUE>>
      <3>1. x = "verify" => good = TRUE
        BY <1>2
      <3> QED BY <1>2, <1>3, <1>9, <2>1, <2>2, <3>1 DEF HasRef
    <2> QED BY <2>3, <2>4 DEF ContentsOf, HasOut, HasRef
  <1>18. NamesOf(w)'
    <2>1. x = "verify" => Fresh(w, "out") \notin Live'
      <3>1. x = "verify" => pc[w] = "encode" /\ path = "ref"
        BY <1>2
      <3>2. x = "verify" => Fresh(w, "out") \notin Live /\ Fresh(w, "out") # Fresh(w, "ref")
        BY <1>0, <3>1 DEF NamesOf, NotEncoded, Fresh
      <3>3. Fresh(w, "out") # Container(w)
        BY NameFacts
      <3>4. pool_buf_[w] # Nil => pool_buf_[w] \in Live
        BY <1>0 DEF Held
      <3> QED BY <1>4, <1>6, <3>1, <3>2, <3>3, <3>4
    <2>2. Fresh(w, "out")' = Fresh(w, "out")
      BY <1>1 DEF Fresh
    <2> QED BY <1>2, <1>3, <2>1, <2>2 DEF NamesOf, NotEncoded
  <1>19. \A c \in {b} : c \in Live' => bytes'[c] \in Nat \X BOOLEAN
    <2>1. frame[w] \in Nat
      BY NameFacts
    <2>2. good \in BOOLEAN
      BY <1>2
    <2>3. <<frame[w], good>> \in Nat \X BOOLEAN
      BY <2>1, <2>2
    <2>4. bytes'[b] = <<frame[w], good>>
      BY <1>4
    <2> QED BY <2>3, <2>4
  <1>20. pc[w] \in Working
    BY <1>3 DEF Working
  <1> QED BY <1>1, <1>10, <1>11, <1>15, <1>16, <1>17, <1>18, <1>19, <1>20, HandlesNext

\* free_buffer: the buffer goes to the pool, stays the encoder's or is freed.
LEMMA FreeFacts ==
  ASSUME TypeInv, FramesInv, BuffersInv, NEW w \in Workers, NEW b \in Held(w),
         b # pool_buf_[w], FreeBuffer(w, b)
  PROVE  /\ pool_buf_' \in [Workers -> BufferNames \cup {Nil}]
         /\ pool_last_out_' \in [Workers -> BufferNames \cup {Nil}]
         /\ \A v \in Workers \ {w} : /\ pool_buf_'[v] = pool_buf_[v]
                                     /\ pool_last_out_'[v] = pool_last_out_[v]
         /\ pool_last_out_'[w] \in {pool_last_out_[w], Nil}
         /\ Live' \subseteq Live /\ Live \ Live' \subseteq {b}
         /\ \A c \in Live' : bytes'[c] = bytes[c]
         /\ \/ pool_buf_'[w] = pool_buf_[w]
            \/ pool_buf_[w] = Nil /\ pool_buf_'[w] = b /\ b \notin ContainerNames
         /\ b \in Live' => b \in ContainerNames \/ pool_buf_'[w] = b
         /\ b \notin Live' => pool_buf_'[w] = pool_buf_[w] /\ b \notin ContainerNames
  <1>1. /\ pool_buf_ \in [Workers -> BufferNames \cup {Nil}]
        /\ pool_last_out_ \in [Workers -> BufferNames \cup {Nil}]
        /\ pool_last_out_[w] \notin ContainerNames
        /\ b \in Live /\ b \in BufferNames /\ b # Nil
        /\ b \in ContainerNames => b = Container(w)
        /\ Container(w) \in ContainerNames
    BY LiveNames, NameFacts DEF BuffersInv, BufferTypes, OwnInv, OwnOf, ApartInv
  <1>2. CASE Recyclable(w, b) /\ pool_buf_[w] = Nil
    <2>1. /\ pool_last_out_' = [pool_last_out_ EXCEPT ![w] = Nil]
          /\ pool_buf_' = [pool_buf_ EXCEPT ![w] = b] /\ bytes' = bytes
          /\ b = pool_last_out_[w]
      BY <1>2 DEF FreeBuffer, Recycle, Recyclable
    <2>2. Live' = Live
      BY <2>1 DEF Live
    <2> QED BY <1>1, <1>2, <2>1, <2>2
  <1>3. CASE Recyclable(w, b) /\ pool_buf_[w] # Nil
    <2>1. /\ pool_last_out_' = [pool_last_out_ EXCEPT ![w] = Nil]
          /\ pool_buf_' = pool_buf_ /\ bytes' = Without(b)
          /\ b = pool_last_out_[w]
      BY <1>3 DEF FreeBuffer, Recycle, Recyclable
    <2>2. Live' = Live \ {b} /\ \A c \in Live' : bytes'[c] = bytes[c]
      BY <2>1 DEF Live, Without
    <2> QED BY <1>1, <1>3, <2>1, <2>2
  <1>4. CASE ~Recyclable(w, b) /\ b = Container(w)
    <2>1. UNCHANGED <<bytes, pool_buf_, pool_last_out_>>
      BY <1>4 DEF FreeBuffer
    <2>2. Live' = Live
      BY <2>1 DEF Live
    <2> QED BY <1>1, <1>4, <2>1, <2>2
  <1>5. CASE ~Recyclable(w, b) /\ b # Container(w)
    <2>1. bytes' = Without(b) /\ UNCHANGED <<pool_buf_, pool_last_out_>>
      BY <1>5 DEF FreeBuffer, Free
    <2>2. Live' = Live \ {b} /\ \A c \in Live' : bytes'[c] = bytes[c]
      BY <2>1 DEF Live, Without
    <2> QED BY <1>1, <1>5, <2>1, <2>2
  <1> QED BY <1>2, <1>3, <1>4, <1>5

\* Compare keeps one output and releases the other, which is another buffer
\* or the retained container twice.
LEMMA CompareFacts ==
  ASSUME TypeInv, FramesInv, BuffersInv, NEW w \in Workers, Compare(w)
  PROVE  /\ pc[w] = "compare"
         /\ UNCHANGED <<o, stop, next_frame, frame, retire_q, retirer, retiring>>
         /\ out[w] \in Held(w) /\ ref[w] \in Held(w)
         /\ \E kept, other, x :
              /\ {kept, other} = {out[w], ref[w]}
              /\ FreeBuffer(w, other) /\ x \in {"save", "retire"}
              /\ out' = [out EXCEPT ![w] = kept] /\ ref' = [ref EXCEPT ![w] = Nil]
              /\ pc' = [pc EXCEPT ![w] = x]
              /\ kept = ref[w] \/ bytes[kept] = bytes[ref[w]]
  <1>1. pc[w] = "compare" /\ OwnOf(w)
    BY DEF Compare, BuffersInv, OwnInv
  <1>2. out[w] \in Held(w) /\ ref[w] \in Held(w)
    BY <1>1 DEF OwnOf, HasOut, HasRef, Held
  <1>3. CASE Same(w)
    <2>1. Settle(w, out[w], ref[w], TRUE)
      BY <1>3 DEF Compare
    <2> QED BY <1>1, <1>2, <1>3, <2>1
            DEF Settle, Goto, Afterwards, Same, frameVars, retireVars
  <1>4. CASE ~Same(w)
    <2>1. Settle(w, ref[w], out[w], FALSE)
      BY <1>4 DEF Compare
    <2> QED BY <1>1, <1>2, <2>1
            DEF Settle, Goto, Afterwards, frameVars, retireVars
  <1> QED BY <1>3, <1>4

LEMMA BuffersCompare ==
  ASSUME TypeInv, FramesInv, BuffersInv, NEW w \in Workers, Compare(w)
  PROVE  BuffersInv'
  <1>0. /\ BufferTypes /\ OwnOf(w) /\ ContentsOf(w) /\ QueuedOnce
        /\ Held(w) \subseteq Live /\ pc \in [Workers -> WorkerPlaces]
        /\ Held(w) \cap ContainerNames \subseteq {Container(w)}
    BY DEF TypeInv, BuffersInv, OwnInv, ContentsInv, ApartInv
  <1>1. /\ pc[w] = "compare"
        /\ UNCHANGED <<o, stop, next_frame, frame, retire_q, retirer, retiring>>
        /\ out[w] \in Held(w) /\ ref[w] \in Held(w)
    BY CompareFacts
  <1>2. PICK kept, other, x :
              /\ {kept, other} = {out[w], ref[w]}
              /\ FreeBuffer(w, other) /\ x \in {"save", "retire"}
              /\ out' = [out EXCEPT ![w] = kept] /\ ref' = [ref EXCEPT ![w] = Nil]
              /\ pc' = [pc EXCEPT ![w] = x]
              /\ kept = ref[w] \/ bytes[kept] = bytes[ref[w]]
    BY CompareFacts
  <1>3. /\ out[w] # pool_buf_[w] /\ ref[w] # pool_buf_[w] /\ out[w] # Nil /\ ref[w] # Nil
        /\ out[w] = ref[w] => out[w] = Container(w)
        /\ pool_buf_[w] # Nil => pool_buf_[w] \notin ContainerNames
        /\ pool_last_out_[w] \notin ContainerNames
    BY <1>0, <1>1 DEF OwnOf, Held
  <1>4. /\ pool_buf_' \in [Workers -> BufferNames \cup {Nil}]
        /\ pool_last_out_' \in [Workers -> BufferNames \cup {Nil}]
        /\ \A v \in Workers \ {w} : /\ pool_buf_'[v] = pool_buf_[v]
                                    /\ pool_last_out_'[v] = pool_last_out_[v]
        /\ pool_last_out_'[w] \in {pool_last_out_[w], Nil}
        /\ Live' \subseteq Live /\ Live \ Live' \subseteq {other}
        /\ \A c \in Live' : bytes'[c] = bytes[c]
        /\ \/ pool_buf_'[w] = pool_buf_[w]
           \/ pool_buf_[w] = Nil /\ pool_buf_'[w] = other /\ other \notin ContainerNames
        /\ other \in Live' => other \in ContainerNames \/ pool_buf_'[w] = other
        /\ other \notin Live' => pool_buf_'[w] = pool_buf_[w] /\ other \notin ContainerNames
    <2>1. other \in Held(w) /\ other # pool_buf_[w]
      BY <1>1, <1>2, <1>3
    <2> QED BY <1>2, <2>1, FreeFacts
  <1>5. Workers' = Workers /\ BufferNames' = BufferNames /\ ContainerNames' = ContainerNames
        /\ Container(w)' = Container(w) /\ Container(w) \in ContainerNames
        /\ Nil \notin ContainerNames
    BY <1>1, SameNames, NameFacts, NilAssumption DEF BufferNames, ContainerNames, Container
  <1>6. /\ out \in [Workers -> BufferNames \cup {Nil}] /\ ref \in [Workers -> BufferNames \cup {Nil}]
        /\ kept \in Held(w) /\ other \in Held(w) /\ kept \in BufferNames
    BY <1>0, <1>1, <1>2, <1>3, LiveNames, ZenonT(60) DEF BufferTypes
  <1>7. /\ out' \in [Workers -> BufferNames \cup {Nil}]
        /\ ref' \in [Workers -> BufferNames \cup {Nil}]
        /\ \A v \in Workers \ {w} : out'[v] = out[v] /\ ref'[v] = ref[v] /\ pc'[v] = pc[v]
        /\ out'[w] = kept /\ ref'[w] = Nil /\ pc'[w] = x
    BY <1>0, <1>2, <1>6
  <1>8. kept = other => kept \in ContainerNames
    BY <1>2, <1>3, <1>5
  <1>9. kept \in Live' /\ kept # Nil
    BY <1>0, <1>4, <1>6, <1>8 DEF Held
  <1>10. pool_buf_'[w] # Nil => pool_buf_'[w] \in Live' /\ pool_buf_'[w] # kept
                                 /\ pool_buf_'[w] \in Held(w) \ ContainerNames
    <2>1. CASE pool_buf_'[w] = pool_buf_[w]
      BY <1>0, <1>1, <1>2, <1>3, <1>4, <2>1 DEF Held
    <2>2. CASE pool_buf_'[w] = other /\ pool_buf_[w] = Nil /\ other \notin ContainerNames
      BY <1>0, <1>4, <1>6, <1>8, <2>2 DEF Held
    <2> QED BY <1>4, <2>1, <2>2
  <1>11. OnlyFor(w)
    BY <1>1, <1>4, <1>7 DEF OnlyFor
  <1>12. BufferTypes' /\ QueuedOnce'
    <2>1. Queued' = Queued
      BY <1>1 DEF Queued
    <2> QED BY <1>0, <1>1, <1>4, <1>5, <1>7, <2>1 DEF BufferTypes, QueuedOnce
  <1>13. Held(w)' = {kept, pool_buf_'[w]} \ {Nil}
    BY <1>7 DEF Held
  <1>14. Handles(w, {})
    <2>1. \A v \in Workers \ {w} : Held(v)' = Held(v)
      BY <1>11 DEF OnlyFor, Held
    <2>2. Retired' = Retired
      BY <1>1 DEF Retired, Queued
    <2>3. Held(w)' \subseteq Held(w) \cap Live'
      BY <1>6, <1>9, <1>10, <1>13
    <2>4. Live' \cap Held(w) \subseteq Held(w)' \cup ContainerNames
      <3>1. Held(w) \subseteq {kept, other, pool_buf_[w]} \ {Nil}
        BY <1>2 DEF Held
      <3>2. pool_buf_[w] # Nil => pool_buf_'[w] = pool_buf_[w]
        BY <1>4
      <3>3. other \in Live' => other \in ContainerNames \/ pool_buf_'[w] = other
        BY <1>4
      <3> QED BY <1>9, <1>13, <3>1, <3>2, <3>3
    <2>5. Live \ Live' \subseteq Held(w)
      BY <1>4, <1>6
    <2> QED BY <1>1, <1>4, <2>1, <2>2, <2>3, <2>4, <2>5 DEF Handles
  <1>15. OwnOf(w)'
    <2>1. pool_last_out_'[w] \notin ContainerNames
      BY <1>3, <1>4, <1>5
    <2>2. pc'[w] \in HasOut /\ pc'[w] \notin HasRef
      BY <1>2, <1>7 DEF HasOut, HasRef
    <2> QED BY <1>5, <1>7, <1>9, <1>10, <2>1, <2>2 DEF OwnOf, HasOut, HasRef
  <1>16. ContentsOf(w)'
    <2>1. bytes'[kept] = bytes[kept]
      BY <1>4, <1>9
    <2>2. bytes[kept][1] = frame[w]
      <3>1. bytes[out[w]][1] = frame[w]
        BY <1>0, <1>1 DEF ContentsOf, HasOut
      <3>2. ref[w] # out[w] => bytes[ref[w]] = <<frame[w], TRUE>>
        BY <1>0, <1>1 DEF ContentsOf, HasRef
      <3>3. <<frame[w], TRUE>>[1] = frame[w]
        OBVIOUS
      <3>4. kept = out[w] \/ kept = ref[w]
        BY <1>2
      <3>5. ref[w] # out[w] => bytes[ref[w]][1] = frame[w]
        BY <3>2, <3>3
      <3> QED BY <3>1, <3>4, <3>5
    <2> QED BY <1>1, <1>2, <1>7, <2>1, <2>2 DEF ContentsOf, HasOut, HasRef
  <1>17. NamesOf(w)'
    BY <1>2, <1>7 DEF NamesOf, NotEncoded
  <1> QED BY <1>1, <1>11, <1>12, <1>14, <1>15, <1>16, <1>17, HandlesNext

\* A finished output is released like the loser of a comparison, or queued for
\* the helper thread.
LEMMA RetireFacts ==
  ASSUME TypeInv, FramesInv, BuffersInv, NEW w \in Workers, Retire(w)
  PROVE  /\ pc[w] = "retire" /\ out[w] \in Held(w)
         /\ UNCHANGED <<o, stop, next_frame, frame, ref, retiring>>
         /\ retirer' = "free" <=> retirer = "free"
         /\ out' = [out EXCEPT ![w] = Nil] /\ pc' = [pc EXCEPT ![w] = "assign"]
         /\ \/ FreeBuffer(w, out[w]) /\ UNCHANGED retire_q
            \/ /\ out[w] # Container(w) /\ retire_q' = Append(retire_q, out[w])
               /\ UNCHANGED <<bytes, pool_buf_, pool_last_out_>>
  <1>1. pc[w] = "retire" /\ OwnOf(w)
    BY DEF Retire, Retire_, BuffersInv, OwnInv
  <1>2. out[w] \in Held(w)
    BY <1>1 DEF OwnOf, HasOut, Held
  <1>3. /\ UNCHANGED <<o, stop, next_frame, frame, ref, retiring>>
        /\ out' = [out EXCEPT ![w] = Nil] /\ pc' = [pc EXCEPT ![w] = "assign"]
    BY DEF Retire, Retire_, Goto
  <1>4. /\ retirer' = "free" <=> retirer = "free"
        /\ \/ FreeBuffer(w, out[w]) /\ UNCHANGED retire_q
           \/ /\ out[w] # Container(w) /\ retire_q' = Append(retire_q, out[w])
              /\ UNCHANGED <<bytes, pool_buf_, pool_last_out_>>
    BY DEF Retire, Retire_, HandOver, FreeBuffer
  <1> QED BY <1>1, <1>2, <1>3, <1>4

LEMMA BuffersRetire ==
  ASSUME TypeInv, FramesInv, BuffersInv, NEW w \in Workers, Retire(w)
  PROVE  BuffersInv'
  <1>0. /\ BufferTypes /\ OwnOf(w) /\ QueuedOnce
        /\ Held(w) \subseteq Live /\ pc \in [Workers -> WorkerPlaces]
        /\ Held(w) \cap ContainerNames \subseteq {Container(w)}
        /\ Held(w) \cap Retired = {}
    BY DEF TypeInv, BuffersInv, OwnInv, ApartInv
  <1>1. /\ pc[w] = "retire" /\ out[w] \in Held(w)
        /\ UNCHANGED <<o, stop, next_frame, frame, ref, retiring>>
        /\ retirer' = "free" <=> retirer = "free"
        /\ out' = [out EXCEPT ![w] = Nil] /\ pc' = [pc EXCEPT ![w] = "assign"]
    BY RetireFacts
  <1>2. ref[w] = Nil /\ out[w] # Nil /\ out[w] # pool_buf_[w] /\ out[w] \in BufferNames
    BY <1>0, <1>1, LiveNames DEF OwnOf, HasRef, Held
  <1>3. Workers' = Workers /\ BufferNames' = BufferNames /\ ContainerNames' = ContainerNames
        /\ Container(w)' = Container(w) /\ Nil \notin BufferNames
    BY <1>1, SameNames, NameFacts DEF BufferNames, ContainerNames, Container
  <1>4. /\ out' \in [Workers -> BufferNames \cup {Nil}]
        /\ ref' \in [Workers -> BufferNames \cup {Nil}]
        /\ \A v \in Workers \ {w} : out'[v] = out[v] /\ ref'[v] = ref[v] /\ pc'[v] = pc[v]
        /\ out'[w] = Nil /\ ref'[w] = Nil /\ pc'[w] = "assign"
    BY <1>0, <1>1, <1>2 DEF BufferTypes
  <1>5. ContentsOf(w)' /\ NamesOf(w)'
    BY <1>4 DEF ContentsOf, NamesOf, HasOut, HasRef, NotEncoded
  <1>6. pc'[w] \notin HasOut /\ pc'[w] \notin HasRef
    BY <1>4 DEF HasOut, HasRef
  <1>7. Held(w) = {out[w], pool_buf_[w]} \ {Nil} /\ Held(w)' = {pool_buf_'[w]} \ {Nil}
    BY <1>2, <1>4 DEF Held
  <1>8. CASE FreeBuffer(w, out[w]) /\ UNCHANGED retire_q
    <2>1. /\ pool_buf_' \in [Workers -> BufferNames \cup {Nil}]
          /\ pool_last_out_' \in [Workers -> BufferNames \cup {Nil}]
          /\ \A v \in Workers \ {w} : /\ pool_buf_'[v] = pool_buf_[v]
                                      /\ pool_last_out_'[v] = pool_last_out_[v]
          /\ pool_last_out_'[w] \in {pool_last_out_[w], Nil}
          /\ Live' \subseteq Live /\ Live \ Live' \subseteq {out[w]}
          /\ \A c \in Live' : bytes'[c] = bytes[c]
          /\ \/ pool_buf_'[w] = pool_buf_[w]
             \/ pool_buf_[w] = Nil /\ pool_buf_'[w] = out[w] /\ out[w] \notin ContainerNames
          /\ out[w] \in Live' => out[w] \in ContainerNames \/ pool_buf_'[w] = out[w]
          /\ out[w] \notin Live' => pool_buf_'[w] = pool_buf_[w] /\ out[w] \notin ContainerNames
      BY <1>1, <1>2, <1>8, FreeFacts
    <2>2. OnlyFor(w)
      BY <1>1, <1>4, <2>1 DEF OnlyFor
    <2>3. Queued' = Queued /\ Retired' = Retired
      BY <1>1, <1>8 DEF Retired, Queued
    <2>4. BufferTypes' /\ QueuedOnce'
      BY <1>0, <1>1, <1>3, <1>4, <1>8, <2>1, <2>3 DEF BufferTypes, QueuedOnce
    <2>5. OwnOf(w)'
      <3>1. pool_last_out_[w] \notin ContainerNames /\ Nil \notin ContainerNames
        BY <1>0, NilAssumption DEF OwnOf, ContainerNames
      <3>2. pool_buf_'[w] # Nil => pool_buf_'[w] \notin ContainerNames
        BY <1>0, <2>1 DEF OwnOf
      <3>3. pool_last_out_'[w] \notin ContainerNames
        BY <2>1, <3>1
      <3> QED BY <1>3, <1>4, <1>6, <3>2, <3>3 DEF OwnOf, HasOut, HasRef
    <2>6. Handles(w, {})
      <3>1. \A v \in Workers \ {w} : Held(v)' = Held(v)
        BY <2>2 DEF OnlyFor, Held
      <3>2. Held(w)' \subseteq Held(w) \cap Live'
        BY <1>0, <1>2, <1>7, <2>1
      <3>3. Live' \cap Held(w) \subseteq Held(w)' \cup ContainerNames
        <4>1. pool_buf_[w] # Nil => pool_buf_'[w] = pool_buf_[w]
          BY <2>1
        <4> QED BY <1>7, <2>1, <4>1
      <3>4. Live \ Live' \subseteq Held(w)
        BY <1>1, <2>1
      <3> QED BY <1>1, <2>1, <2>3, <3>1, <3>2, <3>3, <3>4 DEF Handles
    <2> QED BY <1>1, <1>5, <2>2, <2>4, <2>5, <2>6, HandlesNext
  <1>9. CASE /\ out[w] # Container(w) /\ retire_q' = Append(retire_q, out[w])
             /\ UNCHANGED <<bytes, pool_buf_, pool_last_out_>>
    <2>1. OnlyFor(w)
      BY <1>1, <1>4, <1>9 DEF OnlyFor
    <2>2. Live' = Live
      BY <1>9 DEF Live
    <2>3. retire_q \in Seq(BufferNames)
      BY <1>0 DEF BufferTypes
    <2>4. /\ Len(retire_q) \in Nat /\ DOMAIN retire_q = 1..Len(retire_q)
          /\ retire_q' \in Seq(BufferNames)
          /\ DOMAIN retire_q' = 1..(Len(retire_q) + 1)
          /\ \A i \in 1..Len(retire_q) : retire_q'[i] = retire_q[i]
          /\ retire_q'[Len(retire_q) + 1] = out[w]
      BY <1>2, <1>9, <2>3
    <2>5. Queued' = Queued \cup {out[w]}
      <3>1. ASSUME NEW i \in DOMAIN retire_q'
            PROVE  retire_q'[i] \in Queued \cup {out[w]}
        <4>1. i \in DOMAIN retire_q \/ i = Len(retire_q) + 1
          BY <2>4
        <4> QED BY <2>4, <4>1 DEF Queued
      <3>2. ASSUME NEW i \in DOMAIN retire_q  PROVE retire_q[i] \in Queued'
        <4>1. i \in DOMAIN retire_q' /\ retire_q'[i] = retire_q[i]
          BY <2>4
        <4> QED BY <4>1 DEF Queued
      <3>3. out[w] \in Queued'
        <4>1. Len(retire_q) + 1 \in DOMAIN retire_q'
          BY <2>4
        <4> QED BY <2>4, <4>1 DEF Queued
      <3> QED BY <3>1, <3>2, <3>3 DEF Queued
    <2>6. Retired' = Retired \cup {out[w]}
      BY <1>1, <1>2, <2>5 DEF Retired
    <2>7. out[w] \notin Queued \cup {retiring}
      BY <1>0, <1>1, <1>2 DEF Retired
    <2>8. QueuedOnce'
      <3>1. \A i \in DOMAIN retire_q : retire_q[i] # out[w]
        BY <2>7 DEF Queued
      <3>2. \A i, j \in DOMAIN retire_q : retire_q[i] = retire_q[j] => i = j
        BY <1>0 DEF QueuedOnce
      <3>3. \A i \in DOMAIN retire_q' : i \in DOMAIN retire_q \/ i = Len(retire_q) + 1
        BY <2>4
      <3>4. \A i, j \in DOMAIN retire_q' : retire_q'[i] = retire_q'[j] => i = j
        BY <2>4, <3>1, <3>2, <3>3
      <3>5. retiring' \notin Queued'
        BY <1>0, <1>1, <2>5, <2>7 DEF QueuedOnce
      <3> QED BY <3>4, <3>5 DEF QueuedOnce
    <2>9. BufferTypes'
      BY <1>0, <1>1, <1>3, <1>4, <1>9, <2>4 DEF BufferTypes
    <2>10. OwnOf(w)'
      BY <1>0, <1>3, <1>4, <1>6, <1>9 DEF OwnOf, HasOut, HasRef
    <2>11. Handles(w, {})
      <3>1. \A v \in Workers \ {w} : Held(v)' = Held(v)
        BY <2>1 DEF OnlyFor, Held
      <3>2. Held(w)' \subseteq Held(w) /\ Held(w)' = {pool_buf_[w]} \ {Nil}
        BY <1>7, <1>9
      <3>3. Held(w) \subseteq Held(w)' \cup Retired'
        BY <1>7, <2>6, <3>2
      <3>4. out[w] \in (Held(w) \cap Live') \ (Held(w)' \cup ContainerNames)
        BY <1>0, <1>1, <1>2, <1>9, <2>2, <3>2
      <3>5. \A b \in Live : bytes'[b] = bytes[b]
        BY <1>9
      <3> QED BY <1>0, <1>1, <2>2, <2>6, <3>1, <3>2, <3>3, <3>4, <3>5 DEF Handles
    <2> QED BY <1>1, <1>5, <2>1, <2>8, <2>9, <2>10, <2>11, HandlesNext
  <1> QED BY <1>8, <1>9, RetireFacts

LEMMA BuffersInit == Init => BuffersInv
<1> SUFFICES ASSUME Init PROVE BuffersInv
  OBVIOUS
<1>1. /\ out = [w \in Workers |-> Nil] /\ ref = [w \in Workers |-> Nil]
      /\ pool_buf_ = [w \in Workers |-> Nil] /\ pool_last_out_ = [w \in Workers |-> Nil]
      /\ retire_q = <<>> /\ retiring = Nil /\ retirer # "free" /\ bytes = <<>>
      /\ pc = [w \in Workers |-> "start"]
  BY DEF Init
<1>2. Live = {} /\ Queued = {} /\ Retired = {}
  BY <1>1 DEF Live, Queued, Retired
<1>3. \A w \in Workers : Held(w) = {}
  BY <1>1 DEF Held
<1>4. BufferTypes
  BY <1>1 DEF BufferTypes
<1>5. OwnInv
  BY <1>1, NilAssumption DEF OwnInv, OwnOf, HasOut, HasRef, ContainerNames
<1>6. QueuedOnce
  BY <1>1, <1>2 DEF QueuedOnce
<1>7. ApartInv
  BY <1>2, <1>3 DEF ApartInv
<1>8. NamesInv /\ ContentsInv
  BY <1>1, <1>2 DEF NamesInv, NamesOf, ContentsInv, ContentsOf, HasOut, HasRef
<1> QED BY <1>4, <1>5, <1>6, <1>7, <1>8 DEF BuffersInv

LEMMA BuffersNext ==
  ASSUME TypeInv, FramesInv, BuffersInv, [Next]_vars
  PROVE  BuffersInv'
  <1>1. CASE \E w \in Workers : Start(w)
    BY <1>1, BuffersQuiet
  <1>2. CASE \E w \in Workers : Assign(w)
    BY <1>2, BuffersAssign
  <1>3. CASE \E w \in Workers : NoMoreFrames(w)
    BY <1>3, BuffersLeave
  <1>4. CASE \E w \in Workers : Throw(w)
    BY <1>4, BuffersLeave
  <1>5. CASE \E w \in Workers : Inner(w)
    BY <1>5, BuffersQuiet, BuffersEncode, BuffersCompare DEF Inner
  <1>6. CASE \E w \in Workers : Retire(w)
    BY <1>6, BuffersRetire
  <1>7. CASE Aside
    BY <1>7, BuffersTest, BuffersFree, BuffersElsewhere DEF Aside, Retirer
  <1>8. CASE Main \/ UNCHANGED vars
    BY <1>8, BuffersElsewhere
  <1> QED BY <1>1, <1>2, <1>3, <1>4, <1>5, <1>6, <1>7, <1>8, StepCases

LEMMA CountOne ==
  ASSUME NEW S, NEW x, S = {} \/ S = {x}
  PROVE  Cardinality(S) = IF x \in S THEN 1 ELSE 0
  BY FS_EmptySet, FS_Singleton

LEMMA OneHolder ==
  ASSUME TypeInv, FramesInv, BuffersInv
  PROVE  BufferHasOneHolder
  <1>0. /\ BufferTypes /\ OwnInv /\ QueuedOnce /\ ApartInv
        /\ Nil \notin Live /\ Live \subseteq BufferNames
    BY LiveNames DEF BuffersInv
  <1>1. InUse \ {Nil} \subseteq Live
    <2>1. \A w \in Workers : Held(w) \subseteq Live
      BY <1>0 DEF ApartInv
    <2>2. Retired \subseteq Live
      BY <1>0 DEF ApartInv
    <2>3. ASSUME NEW b \in InUse, b # Nil  PROVE b \in Live
      <3>1. \/ \E w \in Workers : b \in {out[w], ref[w], pool_buf_[w]}
            \/ b \in Queued \cup {retiring}
        BY <2>3 DEF InUse, Queued
      <3>2. CASE \E w \in Workers : b \in {out[w], ref[w], pool_buf_[w]}
        BY <2>1, <2>3, <3>2 DEF Held
      <3>3. CASE b \in Queued \cup {retiring}
        BY <2>2, <2>3, <3>3 DEF Retired
      <3> QED BY <3>1, <3>2, <3>3
    <2> QED BY <2>3
  <1>2. \A b \in Containers : b \notin {retire_q[i] : i \in DOMAIN retire_q} \cup {retiring}
    <2>1. Containers \subseteq ContainerNames /\ Nil \notin ContainerNames
      BY NameFacts, NilAssumption DEF ContainerNames
    <2>2. Retired \cap ContainerNames = {}
      BY <1>0 DEF ApartInv
    <2> QED BY <2>1, <2>2 DEF Retired, Queued
  <1>3. ASSUME NEW b \in Live \ Containers
        PROVE  Places(b) = 1 \/ (stop /\ Places(b) = 0)
    <2>0. b # Nil /\ b \notin ContainerNames
      <3>1. b # Nil /\ b \in Containers \cup ({"ref", "out"} \X (1..next_frame))
        BY <1>0, <1>3 DEF BuffersInv, NamesInv
      <3>2. b \in {"ref", "out"} \X (1..next_frame)
        BY <1>3, <3>1
      <3> QED BY <3>1, <3>2 DEF ContainerNames
    <2> DEFINE outs == {w \in Workers : out[w] = b}
               refs == {w \in Workers : ref[w] = b}
               pools == {w \in Workers : pool_buf_[w] = b}
               queued == {i \in DOMAIN retire_q : retire_q[i] = b}
    <2>1. Places(b) = Cardinality(outs) + Cardinality(refs) + Cardinality(pools)
                      + Cardinality(queued) + (IF retiring = b THEN 1 ELSE 0)
      BY DEF Places
    <2>2. (\A w \in Workers : b \notin Held(w)) => outs = {} /\ refs = {} /\ pools = {}
      BY <2>0 DEF Held
    <2>3. b \notin Retired => queued = {} /\ retiring # b
      BY <2>0 DEF Retired, Queued
    <2>4. Cardinality({}) = 0
      BY FS_EmptySet
    <2>5. CASE \E w \in Workers : b \in Held(w)
      <3> PICK w \in Workers : b \in Held(w)
        BY <2>5
      <3>1. \A v \in Workers \ {w} : b \notin Held(v)
        BY <1>0 DEF ApartInv
      <3>2. /\ outs = {} \/ outs = {w}
            /\ refs = {} \/ refs = {w}
            /\ pools = {} \/ pools = {w}
            /\ w \in outs <=> out[w] = b
            /\ w \in refs <=> ref[w] = b
            /\ w \in pools <=> pool_buf_[w] = b
        BY <2>0, <3>1 DEF Held
      <3>3. queued = {} /\ retiring # b
        BY <1>0, <2>3 DEF ApartInv
      <3> HIDE DEF outs, refs, pools, queued
      <3>4. /\ Cardinality(outs) = IF out[w] = b THEN 1 ELSE 0
            /\ Cardinality(refs) = IF ref[w] = b THEN 1 ELSE 0
            /\ Cardinality(pools) = IF pool_buf_[w] = b THEN 1 ELSE 0
        <4>1. Cardinality(outs) = IF out[w] = b THEN 1 ELSE 0
          BY <3>2, CountOne
        <4>2. Cardinality(refs) = IF ref[w] = b THEN 1 ELSE 0
          BY <3>2, CountOne
        <4>3. Cardinality(pools) = IF pool_buf_[w] = b THEN 1 ELSE 0
          BY <3>2, CountOne
        <4> QED BY <4>1, <4>2, <4>3
      <3>5. Container(w) \in ContainerNames
        BY NameFacts
      <3>6. \/ out[w] = b /\ ref[w] # b /\ pool_buf_[w] # b
            \/ out[w] # b /\ ref[w] = b /\ pool_buf_[w] # b
            \/ out[w] # b /\ ref[w] # b /\ pool_buf_[w] = b
        BY <1>0, <2>0, <3>5 DEF Held, OwnInv, OwnOf
      <3> QED BY <2>1, <2>4, <3>3, <3>4, <3>6
    <2>6. CASE b \in Retired
      <3>1. outs = {} /\ refs = {} /\ pools = {}
        BY <1>0, <2>2, <2>6 DEF ApartInv
      <3>2. CASE retiring = b
        <4>1. queued = {}
          BY <1>0, <3>2 DEF QueuedOnce, Queued
        <4> HIDE DEF outs, refs, pools, queued
        <4> QED BY <2>1, <2>4, <3>1, <3>2, <4>1
      <3>3. CASE retiring # b
        <4>1. PICK i \in DOMAIN retire_q : retire_q[i] = b
          BY <2>6, <3>3 DEF Retired, Queued
        <4>2. queued = {i}
          BY <1>0, <4>1 DEF QueuedOnce
        <4>3. Cardinality({i}) = 1
          BY FS_Singleton
        <4> HIDE DEF outs, refs, pools, queued
        <4> QED BY <2>1, <2>4, <3>1, <3>3, <4>2, <4>3
      <3> QED BY <3>2, <3>3
    <2>7. CASE b \notin Retired /\ \A w \in Workers : b \notin Held(w)
      <3>1. outs = {} /\ refs = {} /\ pools = {} /\ queued = {} /\ retiring # b
        BY <2>2, <2>3, <2>7
      <3>2. stop = TRUE
        BY <1>0, <1>3, <2>0, <2>7 DEF ApartInv, TypeInv
      <3> HIDE DEF outs, refs, pools, queued
      <3> QED BY <2>1, <2>4, <3>1, <3>2
    <2> QED BY <2>5, <2>6, <2>7
  <1> QED BY <1>1, <1>2, <1>3 DEF BufferHasOneHolder

LEMMA BuffersInductive == Spec => [](TypeInv /\ FramesInv /\ BuffersInv)
  <1>1. Init => TypeInv /\ FramesInv /\ BuffersInv
    BY TypeInvInit, FramesInvInit, BuffersInit
  <1>2. TypeInv /\ FramesInv /\ BuffersInv /\ [Next]_vars
          => (TypeInv /\ FramesInv /\ BuffersInv)'
    BY TypeInvNext, FramesInvNext, BuffersNext
  <1> QED BY <1>1, <1>2, PTL DEF Spec

\* Whatever the encoders, the pools, the trial of the hybrid path and the
\* helper thread do with the outputs, nothing freed is used, nothing has two
\* holders, and nothing is lost but by a failure.
THEOREM BuffersHaveOneHolder == Spec => []BufferHasOneHolder
  <1>1. TypeInv /\ FramesInv /\ BuffersInv => BufferHasOneHolder
    BY OneHolder
  <1> QED BY <1>1, BuffersInductive, PTL

LEMMA ReferenceStep ==
  ASSUME TypeInv, FramesInv, BuffersInv, [Next]_vars,
         NEW w \in Workers, pc[w] = "compare", pc'[w] # "compare", ref[w] # out[w]
  PROVE  bytes'[out'[w]][2]
  <1>0. pc \in [Workers -> WorkerPlaces]
    BY DEF TypeInv
  <1>1. Compare(w)
    <2>1. ASSUME NEW v \in Workers, v # w,
                 \E x : pc' = [pc EXCEPT ![v] = x]
          PROVE  FALSE
      BY <1>0, <2>1
    <2>2. ASSUME NEW v \in Workers, \/ Start(v) \/ Assign(v) \/ NoMoreFrames(v) \/ Throw(v) \/ Retire(v)
          PROVE  FALSE
      <3>1. pc[v] # "compare" /\ \E x : pc' = [pc EXCEPT ![v] = x]
        BY <2>2 DEF Start, Assign, NoMoreFrames, Throw, Leave_, Retire, Retire_, Goto
      <3> QED BY <2>1, <3>1
    <2>3. ASSUME Aside \/ Main \/ UNCHANGED vars  PROVE FALSE
      BY <2>3, AsideMoves, MainMoves DEF vars
    <2>4. PICK v \in Workers : Inner(v)
      BY <2>2, <2>3, StepCases
    <2>5. v = w
      BY <2>1, <2>4, InnerMoves
    <2>6. ~Rendezvous(w)
      BY DEF Rendezvous
    <2>7. ~Transform(w) /\ ~Encode(w)
      BY DEF Transform, Encode
    <2>8. ~TakeTicket(w) /\ ~Write(w) /\ ~ReturnTicket(w)
      BY DEF TakeTicket, Write, ReturnTicket
    <2> QED BY <2>4, <2>5, <2>6, <2>7, <2>8 DEF Inner
  <1>2. PICK kept, other, x :
              /\ {kept, other} = {out[w], ref[w]}
              /\ FreeBuffer(w, other) /\ x \in {"save", "retire"}
              /\ out' = [out EXCEPT ![w] = kept] /\ ref' = [ref EXCEPT ![w] = Nil]
              /\ pc' = [pc EXCEPT ![w] = x]
              /\ kept = ref[w] \/ bytes[kept] = bytes[ref[w]]
    BY <1>1, CompareFacts
  <1>3. /\ out[w] \in Held(w) /\ ref[w] \in Held(w) /\ Held(w) \subseteq Live
        /\ OwnOf(w) /\ ContentsOf(w) /\ BufferTypes
    BY <1>1, CompareFacts DEF BuffersInv, ApartInv, OwnInv, ContentsInv
  <1>4. other \in Held(w) /\ other # pool_buf_[w] /\ kept \in Live /\ kept # other
    BY <1>2, <1>3 DEF OwnOf, Held
  <1>5. kept \in Live' /\ \A c \in Live' : bytes'[c] = bytes[c]
    BY <1>2, <1>4, FreeFacts
  <1>6. bytes[ref[w]] = <<frame[w], TRUE>>
    BY <1>3 DEF ContentsOf, HasRef
  <1>7. bytes'[kept] = <<frame[w], TRUE>>
    <2>1. bytes'[kept] = bytes[kept]
      BY <1>5
    <2>2. bytes[kept] = bytes[ref[w]]
      BY <1>2
    <2> QED BY <1>6, <2>1, <2>2
  <1>8. out'[w] = kept
    BY <1>2, <1>3 DEF BufferTypes
  <1>9. <<frame[w], TRUE>>[2] = TRUE
    OBVIOUS
  <1>10. bytes'[out'[w]][2] = TRUE
    BY <1>7, <1>8, <1>9
  <1> QED BY <1>10

\* A comparison of two outputs leaves one the int16 path would have written,
\* whichever buffers they are in: the trial of the hybrid path changes nothing
\* that is saved.
THEOREM ReferenceAlwaysPrevails == Spec => ReferencePrevails
  <1>1. TypeInv /\ FramesInv /\ BuffersInv /\ [Next]_vars =>
          [\A w \in Workers :
             pc[w] = "compare" /\ pc'[w] # "compare" /\ ref[w] # out[w]
               => bytes'[out'[w]][2]]_vars
    BY ReferenceStep
  <1> QED BY <1>1, BuffersInductive, PTL DEF Spec, ReferencePrevails

-----------------------------------------------------------------------------
(* The files.                                                              *)

Returning == {w \in Workers : pc[w] = "return"}
Writing == {w \in Workers : pc[w] = "write"}

\* The numbers that are not about to be given back.
Kept == saved_count - Cardinality(Returning)

AtLimit == o.save_gpr_limit # 0 /\ Kept = o.save_gpr_limit
Saved(f) == \E file \in files : file[2][1] = f

\* The numbers below Kept are those of the files and of the writers, each
\* once, and only what is above the limit is given back.
NumbersInv ==
    /\ saved_count \in Nat /\ Cardinality(Returning) <= saved_count
    /\ Returning # {} => AtLimit
    /\ o.save_gpr_limit # 0 => Kept <= o.save_gpr_limit
    /\ save_ticket \in [Workers -> Nat \cup {Nil}]
    /\ files \subseteq (0..Kept - 1) \X (Nat \X BOOLEAN)
    /\ \A w \in Writing : /\ save_ticket[w] \in 0..Kept - 1
                          /\ \A f \in files : f[1] # save_ticket[w]
    /\ \A v, w \in Writing : save_ticket[v] = save_ticket[w] => v = w
    /\ \A f, g \in files : f[1] = g[1] => f = g
    /\ ~stop => \A n \in 0..Kept - 1 : \/ \E f \in files : f[1] = n
                                       \/ \E w \in Writing : save_ticket[w] = n

\* A file is of a frame that has been written, and every frame that has come
\* to its end has one, unless the limit is reached.
FramesSaved ==
    /\ \A f \in files : f[2][1] \in 1..next_frame
    /\ \A f, g \in files : f[2][1] = g[2][1] => f = g
    /\ \A f \in files, w \in Workers :
         pc[w] \in Working /\ f[2][1] = frame[w] => pc[w] = "retire"
    /\ ~stop /\ o.save =>
         /\ \A f \in finished : Saved(f) \/ AtLimit
         /\ \A w \in Workers : pc[w] = "retire" => Saved(frame[w]) \/ AtLimit
    /\ ~o.save => /\ files = {}
                  /\ \A w \in Workers : pc[w] \notin {"save", "write", "return"}

FilesInv == NumbersInv /\ FramesSaved

LEMMA ReturningFacts ==
  ASSUME o \in OptionSets
  PROVE  /\ IsFiniteSet(Returning) /\ Cardinality(Returning) \in Nat
         /\ Cardinality(Returning) = 0 <=> Returning = {}
  <1>1. IsFiniteSet(Returning)
    BY WorkerFacts, FS_Subset DEF Returning
  <1> QED BY <1>1, FS_CardinalityType, FS_EmptySet

LEMMA KeptFacts ==
  ASSUME TypeInv, NumbersInv
  PROVE  Kept \in Nat /\ Kept = saved_count - Cardinality(Returning) /\ saved_count \in Nat
         /\ Cardinality(Returning) \in Nat
  BY ReturningFacts DEF TypeInv, NumbersInv, Kept

\* A step of no writer and of no one with a number.
LEMMA FilesStand ==
  ASSUME TypeInv, FramesInv, FilesInv, o' = o, UNCHANGED saveVars, ~stop' => ~stop,
         next_frame' \in Nat, next_frame' >= next_frame,
         \A w \in Workers :
           /\ pc'[w] = "return" <=> pc[w] = "return"
           /\ pc'[w] = "write" => pc[w] = "write"
           /\ ~stop' /\ pc[w] = "write" => pc'[w] = "write"
           /\ pc'[w] \in Working \ {"retire"} =>
                \/ pc[w] \in Working \ {"retire"} /\ frame'[w] = frame[w]
                \/ frame'[w] \notin 1..next_frame
           /\ pc'[w] = "retire" /\ o.save => pc[w] = "retire" /\ frame'[w] = frame[w]
           /\ ~o.save => pc'[w] \notin {"save", "write", "return"},
         ~stop' => \A f \in finished' \ finished :
                      \E w \in Workers : pc[w] = "retire" /\ frame[w] = f
  PROVE  FilesInv'
  <1>0. Workers' = Workers /\ UNCHANGED <<saved_count, save_ticket, files>> /\ Working' = Working
    BY SameNames DEF saveVars, Working
  <1>1. Returning' = Returning /\ Writing' \subseteq Writing /\ (~stop' => Writing' = Writing)
    BY <1>0 DEF Returning, Writing
  <1>2. Kept' = Kept
    BY <1>0, <1>1 DEF Kept
  <1>3. AtLimit' = AtLimit /\ \A f : Saved(f)' = Saved(f)
    BY <1>0, <1>2 DEF AtLimit, Saved
  <1>4. NumbersInv'
    <2>1. NumbersInv
      BY DEF FilesInv
    <2>2. Kept \in Nat
      BY <2>1, KeptFacts
    <2>3. ASSUME ~stop', NEW n \in 0..Kept - 1
          PROVE  (\E f \in files : f[1] = n) \/ (\E w \in Writing' : save_ticket[w] = n)
      BY <1>1, <2>1, <2>3 DEF NumbersInv
    <2>4. \A w \in Writing' : /\ save_ticket[w] \in 0..Kept - 1
                              /\ \A f \in files : f[1] # save_ticket[w]
      BY <1>1, <2>1 DEF NumbersInv
    <2>5. \A v, w \in Writing' : save_ticket[v] = save_ticket[w] => v = w
      BY <1>1, <2>1 DEF NumbersInv
    <2> QED BY <1>0, <1>1, <1>2, <1>3, <2>1, <2>3, <2>4, <2>5 DEF NumbersInv
  <1>5. FramesSaved'
    <2>1. FramesSaved /\ next_frame \in Nat
      BY DEF FilesInv, FramesInv
    <2>2. \A f \in files : f[2][1] \in 1..next_frame /\ f[2][1] \in 1..next_frame'
      BY <2>1 DEF FramesSaved
    <2>3. ASSUME NEW f \in files, NEW w \in Workers, pc'[w] \in Working, f[2][1] = frame'[w]
          PROVE  pc'[w] = "retire"
      <3>1. SUFFICES ASSUME pc'[w] # "retire" PROVE FALSE
        OBVIOUS
      <3>2. pc[w] \in Working \ {"retire"} /\ frame'[w] = frame[w]
        BY <2>2, <2>3, <3>1
      <3> QED BY <2>1, <2>3, <3>2 DEF FramesSaved
    <2>4. ASSUME ~stop', o.save, NEW f \in finished'  PROVE Saved(f) \/ AtLimit
      BY <2>1, <2>4 DEF FramesSaved
    <2>5. ASSUME ~stop', o.save, NEW w \in Workers, pc'[w] = "retire"
          PROVE  Saved(frame'[w]) \/ AtLimit
      <3>1. pc[w] = "retire" /\ frame'[w] = frame[w]
        BY <2>5
      <3>2. Saved(frame[w]) \/ AtLimit
        BY <2>1, <2>5, <3>1 DEF FramesSaved
      <3> QED BY <3>1, <3>2
    <2>6. \A w \in Workers : Saved(frame[w])' = Saved(frame'[w])
      BY <1>0 DEF Saved
    <2>7. \A f, g \in files : f[2][1] = g[2][1] => f = g
      BY <2>1 DEF FramesSaved
    <2>8. ~o.save => /\ files = {}
                     /\ \A w \in Workers : pc'[w] \notin {"save", "write", "return"}
      BY <2>1 DEF FramesSaved
    <2>9. ~stop' /\ o.save => \A f \in finished' : (Saved(f) \/ AtLimit)'
      BY <1>0, <1>3, <2>4 DEF Saved
    <2>10. ~stop' /\ o.save => \A w \in Workers : pc'[w] = "retire" => (Saved(frame[w]) \/ AtLimit)'
      BY <1>0, <1>3, <2>5, <2>6
    <2> QED BY <1>0, <2>2, <2>3, <2>7, <2>8, <2>9, <2>10 DEF FramesSaved
  <1> QED BY <1>4, <1>5 DEF FilesInv

\* A worker that saves nothing in this step.
LEMMA FilesQuiet ==
  ASSUME TypeInv, FramesInv, FilesInv, [Next]_vars,
         \/ \E w \in Workers : \/ Start(w) \/ Assign(w) \/ NoMoreFrames(w) \/ Throw(w)
                               \/ Rendezvous(w) \/ Transform(w) \/ Encode(w) \/ Compare(w)
                               \/ Retire(w)
         \/ Aside \/ Main \/ UNCHANGED vars
  PROVE  FilesInv'
  <1>0. o' = o /\ next_frame \in Nat /\ o.save \in BOOLEAN
    BY SameOptions, OptionFacts DEF FramesInv, TypeInv
  <1>1. CASE \/ \E w \in Workers : \/ Start(w) \/ Assign(w) \/ NoMoreFrames(w) \/ Throw(w)
                                   \/ Rendezvous(w) \/ Transform(w) \/ Encode(w) \/ Compare(w)
                                   \/ Retire(w)
    <2> PICK w \in Workers : \/ Start(w) \/ Assign(w) \/ NoMoreFrames(w) \/ Throw(w)
                             \/ Rendezvous(w) \/ Transform(w) \/ Encode(w) \/ Compare(w)
                             \/ Retire(w)
      BY <1>1
    <2>1. PICK x \in WorkerPlaces :
            /\ pc' = [pc EXCEPT ![w] = x] /\ UNCHANGED saveVars
            /\ x \notin {"write", "return"} /\ pc[w] # "return"
            /\ x = "save" => o.save
            /\ x = "retire" => ~o.save
            /\ pc[w] = "write" => stop'
            /\ \/ /\ x \notin Working \/ pc[w] \in Working \ {"retire"}
                  /\ UNCHANGED <<next_frame, frame>>
               \/ next_frame' = next_frame + 1 /\ frame' = [frame EXCEPT ![w] = next_frame + 1]
            /\ ~stop' => ~stop
            /\ \A f \in finished' \ finished : pc[w] = "retire" /\ f = frame[w]
      <3>1. CASE Start(w)
        BY <3>1 DEF Start, Goto, frameVars, WorkerPlaces, Working
      <3>2. CASE Assign(w)
        <4>1. PICK x \in {"arrive", "begin"} : pc' = [pc EXCEPT ![w] = x]
          BY <3>2 DEF Assign, Goto
        <4>2. /\ pc[w] = "assign" /\ next_frame' = next_frame + 1
              /\ frame' = [frame EXCEPT ![w] = next_frame + 1]
              /\ UNCHANGED <<saveVars, stop, finished>>
          BY <3>2 DEF Assign
        <4>3. x \in WorkerPlaces /\ x \notin {"write", "return", "save", "retire"}
          BY DEF WorkerPlaces, Working
        <4> QED BY <4>1, <4>2, <4>3
      <3>3. CASE NoMoreFrames(w)
        BY <3>3 DEF NoMoreFrames, Leave_, Goto, frameVars, WorkerPlaces, Working
      <3>4. CASE Throw(w)
        BY <3>4 DEF Throw, Leave_, Goto, frameVars, WorkerPlaces, Working
      <3>5. CASE Rendezvous(w)
        BY <3>5 DEF Rendezvous, Goto, frameVars, WorkerPlaces, Working
      <3>6. CASE Transform(w)
        BY <3>6 DEF Transform, Goto, frameVars, WorkerPlaces, Working
      <3>7. CASE Encode(w)
        BY <3>7, ZenonT(60) DEF Encode, Goto, Afterwards, frameVars, WorkerPlaces, Working
      <3>8. CASE Compare(w)
        BY <3>8 DEF Compare, Settle, Goto, Afterwards, frameVars, WorkerPlaces, Working
      <3>9. CASE Retire(w)
        BY <3>9 DEF Retire, Retire_, Goto, WorkerPlaces, Working
      <3> QED BY <3>1, <3>2, <3>3, <3>4, <3>5, <3>6, <3>7, <3>8, <3>9
    <2>2. /\ pc'[w] = x /\ \A v \in Workers : v # w => pc'[v] = pc[v]
      BY <2>1 DEF TypeInv
    <2>3. \A v \in Workers : v # w => frame'[v] = frame[v]
      BY <2>1 DEF FramesInv
    <2>4. next_frame' \in Nat /\ next_frame' >= next_frame
      BY <1>0, <2>1
    <2>5. x \in Working => \/ pc[w] \in Working \ {"retire"} /\ frame'[w] = frame[w]
                           \/ frame'[w] \notin 1..next_frame
      BY <1>0, <2>1 DEF FramesInv
    <2>6. ~o.save => \A v \in Workers : pc[v] \notin {"save", "write", "return"}
      BY DEF FilesInv, FramesSaved
    <2>7. \A v \in Workers :
           /\ pc'[v] = "return" <=> pc[v] = "return"
           /\ pc'[v] = "write" => pc[v] = "write"
           /\ ~stop' /\ pc[v] = "write" => pc'[v] = "write"
           /\ pc'[v] \in Working \ {"retire"} =>
                \/ pc[v] \in Working \ {"retire"} /\ frame'[v] = frame[v]
                \/ frame'[v] \notin 1..next_frame
           /\ pc'[v] = "retire" /\ o.save => pc[v] = "retire" /\ frame'[v] = frame[v]
           /\ ~o.save => pc'[v] \notin {"save", "write", "return"}
      BY <2>1, <2>2, <2>3, <2>5, <2>6
    <2> QED BY <1>0, <2>1, <2>4, <2>7, FilesStand
  <1>2. CASE Aside \/ Main \/ UNCHANGED vars
    <2>1. UNCHANGED <<stop, pc, next_frame, frame, finished>>
      BY <1>2, AsideMoves, MainMoves DEF vars, frameVars
    <2>2. UNCHANGED saveVars
      BY <1>2 DEF Aside, Assistant, Retirer, RetirerTest, RetirerFree, RetirerSleep,
         RetirerWake, Main, vars
    <2>3. ~o.save => \A v \in Workers : pc[v] \notin {"save", "write", "return"}
      BY DEF FilesInv, FramesSaved
    <2> QED BY <1>0, <2>1, <2>2, <2>3, FilesStand
  <1> QED BY <1>1, <1>2

LEMMA FilesTake ==
  ASSUME TypeInv, FramesInv, FilesInv, NEW w \in Workers, TakeTicket(w)
  PROVE  FilesInv'
  <1>0. NumbersInv /\ FramesSaved /\ pc \in [Workers -> WorkerPlaces]
    BY DEF FilesInv, TypeInv
  <1>1. /\ pc[w] = "save" /\ saved_count' = saved_count + 1
        /\ save_ticket' = [save_ticket EXCEPT ![w] = saved_count]
        /\ UNCHANGED <<o, stop, next_frame, frame, finished, files>>
        /\ pc' = [pc EXCEPT ![w] = IF o.save_gpr_limit = 0 \/ saved_count < o.save_gpr_limit
                                   THEN "write" ELSE "return"]
    BY DEF TakeTicket, Goto, frameVars
  <1>2. /\ Workers' = Workers /\ o.save_gpr_limit \in Nat /\ o.save
        /\ Working' = Working
    BY <1>0, <1>1, SameNames, OptionFacts DEF TypeInv, FramesSaved, Working
  <1>3. Kept \in Nat /\ Kept = saved_count - Cardinality(Returning) /\ saved_count \in Nat
        /\ Cardinality(Returning) \in Nat /\ IsFiniteSet(Returning)
        /\ (Cardinality(Returning) = 0 <=> Returning = {})
    BY <1>0, KeptFacts, ReturningFacts DEF TypeInv
  <1>4. /\ \A v \in Workers \ {w} : pc'[v] = pc[v] /\ save_ticket'[v] = save_ticket[v]
        /\ save_ticket'[w] = saved_count /\ save_ticket' \in [Workers -> Nat \cup {Nil}]
    BY <1>0, <1>1, <1>3 DEF NumbersInv
  <1>5. \A f : Saved(f)' = Saved(f)
    BY <1>1 DEF Saved
  <1>6. CASE o.save_gpr_limit = 0 \/ saved_count < o.save_gpr_limit
    <2>1. Returning = {} /\ Kept = saved_count
      BY <1>0, <1>2, <1>3, <1>6 DEF NumbersInv, AtLimit
    <2>2. pc'[w] = "write"
      BY <1>0, <1>1, <1>6
    <2>3. Returning' = {} /\ Writing' = Writing \cup {w} /\ w \notin Writing
      BY <1>1, <1>2, <1>4, <2>1, <2>2 DEF Returning, Writing
    <2>4. Kept' = saved_count + 1 /\ Cardinality(Returning)' = 0
      BY <1>1, <1>3, <2>3, FS_EmptySet DEF Kept
    <2>5. 0..Kept' - 1 = (0..Kept - 1) \cup {saved_count} /\ saved_count \notin 0..Kept - 1
      BY <1>3, <2>1, <2>4
    <2>6. NumbersInv'
      <3>1. \A v \in Writing : save_ticket'[v] = save_ticket[v]
        BY <1>4, <2>3 DEF Writing
      <3>2. files \subseteq (0..Kept' - 1) \X (Nat \X BOOLEAN)
        BY <1>0, <2>5 DEF NumbersInv
      <3>3. \A f \in files : f[1] # saved_count
        BY <1>0, <2>5 DEF NumbersInv
      <3>4. \A v \in Writing' : /\ save_ticket'[v] \in 0..Kept' - 1
                                /\ \A f \in files : f[1] # save_ticket'[v]
        BY <1>0, <1>4, <2>3, <2>5, <3>1, <3>3 DEF NumbersInv
      <3>5. \A u, v \in Writing' : save_ticket'[u] = save_ticket'[v] => u = v
        BY <1>0, <1>4, <2>3, <2>5, <3>1 DEF NumbersInv
      <3>6. ASSUME ~stop, NEW n \in 0..Kept' - 1
            PROVE  (\E f \in files : f[1] = n) \/ (\E v \in Writing' : save_ticket'[v] = n)
        <4>1. CASE n = saved_count
          BY <1>4, <2>3, <4>1
        <4>2. CASE n \in 0..Kept - 1
          BY <1>0, <2>3, <3>1, <3>6, <4>2 DEF NumbersInv
        <4> QED BY <2>5, <3>6, <4>1, <4>2
      <3>7. o.save_gpr_limit # 0 => Kept' <= o.save_gpr_limit
        BY <1>2, <1>3, <1>6, <2>4
      <3>8. \A f, g \in files : f[1] = g[1] => f = g
        BY <1>0 DEF NumbersInv
      <3>9. saved_count' \in Nat /\ Cardinality(Returning)' <= saved_count' /\ Returning' = {}
        BY <1>1, <1>3, <2>3, <2>4
      <3>. HIDE DEF Kept
      <3> QED BY <1>1, <1>2, <1>4, <3>2, <3>4, <3>5, <3>6, <3>7, <3>8, <3>9
              DEF NumbersInv
    <2>7. ~AtLimit
      BY <1>2, <1>3, <1>6, <2>1 DEF AtLimit
    <2>8. FramesSaved'
      <3>1. \A v \in Workers : pc'[v] \in Working => pc[v] \in Working
        BY <1>1, <1>4 DEF Working
      <3>2. \A v \in Workers : pc'[v] = "retire" <=> pc[v] = "retire"
        BY <1>1, <1>4, <2>2
      <3>3. \A f \in files, v \in Workers :
              pc'[v] \in Working /\ f[2][1] = frame[v] => pc'[v] = "retire"
        BY <1>0, <3>1, <3>2 DEF FramesSaved
      <3>4. ~stop => /\ \A f \in finished : Saved(f)
                     /\ \A v \in Workers : pc[v] = "retire" => Saved(frame[v])
        BY <1>0, <1>2, <2>7 DEF FramesSaved
      <3>5. ~stop => /\ \A f \in finished : Saved(f)'
                     /\ \A v \in Workers : pc'[v] = "retire" => Saved(frame[v])'
        BY <1>1, <3>2, <3>4 DEF Saved
      <3> QED BY <1>0, <1>1, <1>2, <3>3, <3>5 DEF FramesSaved
    <2> QED BY <2>6, <2>8 DEF FilesInv
  <1>7. CASE ~(o.save_gpr_limit = 0 \/ saved_count < o.save_gpr_limit)
    <2>1. pc'[w] = "return"
      BY <1>0, <1>1, <1>7
    <2>2. Returning' = Returning \cup {w} /\ w \notin Returning /\ Writing' = Writing
      BY <1>1, <1>2, <1>4, <2>1 DEF Returning, Writing
    <2>3. Cardinality(Returning)' = Cardinality(Returning) + 1
      BY <1>3, <2>2, FS_AddElement
    <2>4. Kept' = Kept
      BY <1>1, <1>3, <2>3 DEF Kept
    <2>5. AtLimit
      <3>1. CASE Returning = {}
        BY <1>0, <1>2, <1>3, <1>7, <3>1 DEF NumbersInv, AtLimit
      <3>2. CASE Returning # {}
        BY <1>0, <3>2 DEF NumbersInv
      <3> QED BY <3>1, <3>2
    <2>6. AtLimit'
      BY <1>1, <2>4, <2>5 DEF AtLimit
    <2>7. NumbersInv'
      <3>1. \A v \in Writing : save_ticket'[v] = save_ticket[v]
        BY <1>1, <1>4 DEF Writing
      <3>2. saved_count' \in Nat /\ Cardinality(Returning)' <= saved_count'
        BY <1>0, <1>1, <1>3, <2>3 DEF NumbersInv
      <3>. HIDE DEF Kept
      <3> QED BY <1>0, <1>1, <1>2, <1>4, <2>2, <2>4, <2>6, <3>1, <3>2 DEF NumbersInv
    <2>8. FramesSaved'
      <3>1. \A v \in Workers : pc'[v] \in Working => pc[v] \in Working
        BY <1>1, <1>4 DEF Working
      <3>2. \A v \in Workers : pc'[v] = "retire" <=> pc[v] = "retire"
        BY <1>1, <1>4, <2>1
      <3>3. \A f \in files, v \in Workers :
              pc'[v] \in Working /\ f[2][1] = frame[v] => pc'[v] = "retire"
        BY <1>0, <3>1, <3>2 DEF FramesSaved
      <3> QED BY <1>0, <1>1, <1>2, <2>6, <3>3 DEF FramesSaved
    <2> QED BY <2>7, <2>8 DEF FilesInv
  <1> QED BY <1>6, <1>7

LEMMA FilesWrite ==
  ASSUME TypeInv, FramesInv, BuffersInv, FilesInv, NEW w \in Workers, Write(w)
  PROVE  FilesInv'
  <1>0. NumbersInv /\ FramesSaved /\ pc \in [Workers -> WorkerPlaces]
    BY DEF FilesInv, TypeInv
  <1> DEFINE file == <<save_ticket[w], bytes[out[w]]>>
  <1>1. /\ pc[w] = "write" /\ files' = files \cup {file}
        /\ UNCHANGED <<o, stop, next_frame, frame, finished, saved_count, save_ticket>>
        /\ pc' = [pc EXCEPT ![w] = "retire"]
    BY DEF Write, Goto, frameVars
  <1>2. Workers' = Workers /\ Working' = Working /\ o.save
    BY <1>0, <1>1, SameNames DEF FramesSaved, Working
  <1>3. /\ pc'[w] = "retire" /\ \A v \in Workers \ {w} : pc'[v] = pc[v]
    BY <1>0, <1>1
  <1>4. /\ Returning' = Returning /\ Writing' = Writing \ {w} /\ w \in Writing
    BY <1>1, <1>2, <1>3 DEF Returning, Writing
  <1>5. Kept' = Kept /\ AtLimit' = AtLimit
    BY <1>1, <1>4 DEF Kept, AtLimit
  <1>6. bytes[out[w]] \in Nat \X BOOLEAN /\ bytes[out[w]][1] = frame[w]
    <2>1. OwnOf(w) /\ ContentsOf(w) /\ Held(w) \subseteq Live
          /\ \A b \in Live : bytes[b] \in Nat \X BOOLEAN
      BY DEF BuffersInv, OwnInv, ContentsInv, ApartInv
    <2>2. pc[w] \in HasOut
      BY <1>1 DEF HasOut
    <2>3. out[w] \in Live
      BY <2>1, <2>2 DEF OwnOf, Held
    <2> QED BY <2>1, <2>2, <2>3 DEF ContentsOf
  <1>7. /\ save_ticket[w] \in 0..Kept - 1
        /\ \A f \in files : f[1] # save_ticket[w]
        /\ \A v \in Writing : save_ticket[v] = save_ticket[w] => v = w
    BY <1>0, <1>4 DEF NumbersInv
  <1>8. /\ file \in (0..Kept - 1) \X (Nat \X BOOLEAN)
        /\ file[1] = save_ticket[w] /\ file[2][1] = frame[w]
    BY <1>6, <1>7
  <1>9. /\ \A f \in files : f[2][1] # frame[w]
        /\ frame[w] \in 1..next_frame
    BY <1>0, <1>1 DEF FramesSaved, FramesInv, Working
  <1> HIDE DEF file
  <1>10. NumbersInv'
    <2>1. files' \subseteq (0..Kept - 1) \X (Nat \X BOOLEAN)
      BY <1>0, <1>1, <1>8 DEF NumbersInv
    <2>2. \A v \in Writing' : /\ save_ticket[v] \in 0..Kept - 1
                              /\ \A f \in files' : f[1] # save_ticket[v]
      BY <1>0, <1>1, <1>4, <1>7, <1>8 DEF NumbersInv
    <2>3. \A u, v \in Writing' : save_ticket[u] = save_ticket[v] => u = v
      BY <1>0, <1>4 DEF NumbersInv
    <2>4. \A f, g \in files' : f[1] = g[1] => f = g
      BY <1>0, <1>1, <1>7, <1>8 DEF NumbersInv
    <2>5. ASSUME ~stop, NEW n \in 0..Kept - 1
          PROVE  (\E f \in files' : f[1] = n) \/ (\E v \in Writing' : save_ticket[v] = n)
      <3>1. (\E f \in files : f[1] = n) \/ (\E v \in Writing : save_ticket[v] = n)
        BY <1>0, <2>5 DEF NumbersInv
      <3> QED BY <1>1, <1>4, <1>8, <3>1
    <2> QED BY <1>0, <1>1, <1>2, <1>4, <1>5, <2>1, <2>2, <2>3, <2>4, <2>5 DEF NumbersInv
  <1>11. FramesSaved'
    <2>1. \A f \in files' : f[2][1] \in 1..next_frame
      BY <1>0, <1>1, <1>8, <1>9 DEF FramesSaved
    <2>2. \A f, g \in files' : f[2][1] = g[2][1] => f = g
      BY <1>0, <1>1, <1>8, <1>9 DEF FramesSaved
    <2>3. ASSUME NEW f \in files', NEW v \in Workers, pc'[v] \in Working, f[2][1] = frame[v]
          PROVE  pc'[v] = "retire"
      <3>1. CASE v = w
        BY <1>3, <3>1
      <3>2. CASE v # w /\ f \in files
        BY <1>0, <1>3, <2>3, <3>2 DEF FramesSaved
      <3>3. CASE v # w /\ f = file
        <4>1. frame[v] = frame[w] /\ frame[w] # 0
          BY <1>1, <1>8, <2>3, <3>3 DEF FramesInv, Working
        <4> QED BY <3>3, <4>1 DEF FramesInv
      <3> QED BY <1>1, <3>1, <3>2, <3>3
    <2>4. \A f : Saved(f) => Saved(f)'
      BY <1>1 DEF Saved
    <2>5. Saved(frame[w])'
      BY <1>1, <1>8 DEF Saved
    <2>6. ~stop => /\ \A f \in finished : Saved(f)' \/ AtLimit
                   /\ \A v \in Workers : pc'[v] = "retire" => Saved(frame[v])' \/ AtLimit
      <3>1. ASSUME ~stop, NEW f \in finished  PROVE Saved(f)' \/ AtLimit
        BY <1>0, <1>2, <2>4, <3>1 DEF FramesSaved
      <3>2. ASSUME ~stop, NEW v \in Workers, pc'[v] = "retire"  PROVE Saved(frame[v])' \/ AtLimit
        <4>1. CASE v = w
          BY <2>5, <4>1
        <4>2. CASE v # w
          <5>1. Saved(frame[v]) \/ AtLimit
            BY <1>0, <1>2, <1>3, <3>2, <4>2 DEF FramesSaved
          <5>2. Saved(frame[v]) => Saved(frame[v])'
            BY <1>1 DEF Saved
          <5> QED BY <5>1, <5>2
        <4> QED BY <4>1, <4>2
      <3> QED BY <3>1, <3>2
    <2> QED BY <1>1, <1>2, <1>5, <2>1, <2>2, <2>3, <2>6 DEF FramesSaved
  <1> QED BY <1>10, <1>11 DEF FilesInv

LEMMA FilesReturn ==
  ASSUME TypeInv, FramesInv, FilesInv, NEW w \in Workers, ReturnTicket(w)
  PROVE  FilesInv'
  <1>0. NumbersInv /\ FramesSaved /\ pc \in [Workers -> WorkerPlaces]
    BY DEF FilesInv, TypeInv
  <1>1. /\ pc[w] = "return" /\ saved_count' = saved_count - 1
        /\ UNCHANGED <<o, stop, next_frame, frame, finished, files, save_ticket>>
        /\ pc' = [pc EXCEPT ![w] = "retire"]
    BY DEF ReturnTicket, Goto, frameVars
  <1>2. Workers' = Workers /\ Working' = Working /\ o.save
    BY <1>0, <1>1, SameNames DEF FramesSaved, Working
  <1>3. /\ pc'[w] = "retire" /\ \A v \in Workers \ {w} : pc'[v] = pc[v]
    BY <1>0, <1>1
  <1>4. /\ Returning' = Returning \ {w} /\ w \in Returning /\ Writing' = Writing
    BY <1>1, <1>2, <1>3 DEF Returning, Writing
  <1>5. Kept \in Nat /\ Kept = saved_count - Cardinality(Returning) /\ saved_count \in Nat
        /\ Cardinality(Returning) \in Nat /\ IsFiniteSet(Returning)
    BY <1>0, KeptFacts, ReturningFacts DEF TypeInv
  <1>6. /\ Cardinality(Returning)' = Cardinality(Returning) - 1
        /\ Cardinality(Returning) # 0
    BY <1>4, <1>5, FS_RemoveElement, FS_EmptySet
  <1>7. Kept' = Kept /\ AtLimit /\ AtLimit'
    <2>1. Kept' = Kept
      BY <1>1, <1>5, <1>6 DEF Kept
    <2>2. AtLimit
      BY <1>0, <1>4 DEF NumbersInv
    <2> QED BY <1>1, <2>1, <2>2 DEF AtLimit
  <1>8. NumbersInv'
    <2>1. saved_count' \in Nat /\ Cardinality(Returning)' <= saved_count'
      BY <1>0, <1>1, <1>5, <1>6 DEF NumbersInv
    <2>. HIDE DEF Kept
    <2> QED BY <1>0, <1>1, <1>2, <1>4, <1>7, <2>1 DEF NumbersInv
  <1>9. FramesSaved'
    <2>1. \A v \in Workers : pc'[v] \in Working /\ pc'[v] # "retire" =>
                               pc[v] \in Working /\ pc[v] # "retire"
      BY <1>3
    <2>2. \A f \in files, v \in Workers :
            pc'[v] \in Working /\ f[2][1] = frame[v] => pc'[v] = "retire"
      BY <1>0, <2>1 DEF FramesSaved
    <2> QED BY <1>0, <1>1, <1>2, <1>7, <2>2 DEF FramesSaved
  <1> QED BY <1>8, <1>9 DEF FilesInv

LEMMA FilesNext ==
  ASSUME TypeInv, FramesInv, BuffersInv, FilesInv, [Next]_vars
  PROVE  FilesInv'
  BY StepCases, FilesQuiet, FilesTake, FilesWrite, FilesReturn DEF Inner

LEMMA FilesInit == Init => FilesInv
<1> SUFFICES ASSUME Init PROVE FilesInv
  OBVIOUS
<1>1. /\ o \in OptionSets /\ saved_count = 0 /\ files = {} /\ finished = {}
      /\ save_ticket = [w \in Workers |-> Nil] /\ \A w \in Workers : pc[w] = "start"
  BY DEF Init
<1>2. Returning = {} /\ Writing = {}
  BY <1>1 DEF Returning, Writing
<1>3. Kept = 0 /\ Cardinality(Returning) = 0
  BY <1>1, <1>2, FS_EmptySet DEF Kept
<1>4. o.save_gpr_limit \in Nat
  BY <1>1, OptionFacts
<1>5. NumbersInv
  BY <1>1, <1>2, <1>3, <1>4 DEF NumbersInv
<1>6. FramesSaved
  BY <1>1 DEF FramesSaved
<1> QED BY <1>5, <1>6 DEF FilesInv

LEMMA FilesInductive == Spec => [](TypeInv /\ FramesInv /\ BuffersInv /\ FilesInv)
  <1>1. Init => TypeInv /\ FramesInv /\ BuffersInv /\ FilesInv
    BY TypeInvInit, FramesInvInit, BuffersInit, FilesInit
  <1>2. TypeInv /\ FramesInv /\ BuffersInv /\ FilesInv /\ [Next]_vars
          => (TypeInv /\ FramesInv /\ BuffersInv /\ FilesInv)'
    BY TypeInvNext, FramesInvNext, BuffersNext, FilesNext
  <1> QED BY <1>1, <1>2, PTL DEF Spec

\* With as many files as numbers and as many numbers as frames, or as the
\* limit, no number is missing.
LEMMA FilesAreExact ==
  ASSUME TypeInv, FramesInv, FilesInv
  PROVE  FilesExact
  <1>0. NumbersInv /\ FramesSaved
    BY DEF FilesInv
  <1>1. ASSUME NEW f \in files, NEW g \in files, f # g
        PROVE  f[1] # g[1] /\ f[2][1] # g[2][1]
    BY <1>0, <1>1 DEF NumbersInv, FramesSaved
  <1>2. ASSUME main = "returned"
        PROVE  {f[1] : f \in files} =
                 IF ~o.save THEN {}
                 ELSE 0..(IF o.save_gpr_limit = 0 THEN next_frame
                          ELSE Min({o.save_gpr_limit, next_frame})) - 1
    <2>1. ~stop /\ \A w \in Workers : pc[w] = "done"
      BY <1>2 DEF FramesInv
    <2>2. Returning = {} /\ Writing = {}
      BY <2>1 DEF Returning, Writing
    <2>3. Kept \in Nat /\ next_frame \in Nat /\ o.save_gpr_limit \in Nat /\ o.save \in BOOLEAN
      BY <1>0, KeptFacts, OptionFacts DEF FramesInv, TypeInv
    <2>4. {f[1] : f \in files} = 0..Kept - 1
      <3>1. \A f \in files : f[1] \in 0..Kept - 1
        BY <1>0 DEF NumbersInv
      <3>2. \A n \in 0..Kept - 1 : \E f \in files : f[1] = n
        BY <1>0, <2>1, <2>2 DEF NumbersInv
      <3> QED BY <3>1, <3>2
    <2>5. CASE ~o.save
      <3>1. files = {}
        BY <1>0, <2>5 DEF FramesSaved
      <3> QED BY <2>5, <3>1
    <2>6. CASE o.save
      <3>1. Kept <= next_frame
        <4> DEFINE fileOf == [n \in 0..Kept - 1 |-> CHOOSE f \in files : f[1] = n]
                   frameOf == [n \in 0..Kept - 1 |-> fileOf[n][2][1]]
        <4>1. \A n \in 0..Kept - 1 : fileOf[n] \in files /\ fileOf[n][1] = n
          BY <2>4
        <4> HIDE DEF fileOf
        <4>2. frameOf \in [0..Kept - 1 -> 1..next_frame]
          BY <1>0, <4>1 DEF FramesSaved
        <4>3. \A m, n \in 0..Kept - 1 : frameOf[m] = frameOf[n] => m = n
          <5> SUFFICES ASSUME NEW m \in 0..Kept - 1, NEW n \in 0..Kept - 1, frameOf[m] = frameOf[n]
                       PROVE  m = n
            OBVIOUS
          <5>1. fileOf[m] = fileOf[n]
            BY <1>0, <4>1 DEF FramesSaved
          <5> QED BY <4>1, <5>1
        <4> HIDE DEF frameOf
        <4>4. frameOf \in Injection(0..Kept - 1, 1..next_frame)
          BY <4>2, <4>3 DEF Injection, IsInjective
        <4>5. IsFiniteSet(1..next_frame) /\ Cardinality(1..next_frame) = next_frame
          BY <2>3, FS_Interval, SMTT(30)
        <4>6. IsFiniteSet(0..Kept - 1) /\ Cardinality(0..Kept - 1) = Kept
          BY <2>3, FS_Interval, SMTT(30)
        <4>7. Cardinality(0..Kept - 1) <= Cardinality(1..next_frame)
          BY <4>4, <4>5, FS_Injection
        <4> QED BY <4>5, <4>6, <4>7
      <3>2. ~AtLimit => next_frame <= Kept
        <4> SUFFICES ASSUME ~AtLimit PROVE next_frame <= Kept
          OBVIOUS
        <4>1. finished = 1..next_frame
          BY <2>1 DEF FramesInv, Working
        <4>2. \A f \in 1..next_frame : \E g \in files : g[2][1] = f
          BY <1>0, <2>1, <2>6, <4>1 DEF FramesSaved, Saved
        <4> DEFINE fileOf == [f \in 1..next_frame |-> CHOOSE g \in files : g[2][1] = f]
                   numberOf == [f \in 1..next_frame |-> fileOf[f][1]]
        <4>3. \A f \in 1..next_frame : fileOf[f] \in files /\ fileOf[f][2][1] = f
          BY <4>2
        <4> HIDE DEF fileOf
        <4>4. numberOf \in [1..next_frame -> 0..Kept - 1]
          BY <2>4, <4>3
        <4>5. \A f, g \in 1..next_frame : numberOf[f] = numberOf[g] => f = g
          <5> SUFFICES ASSUME NEW f \in 1..next_frame, NEW g \in 1..next_frame, numberOf[f] = numberOf[g]
                       PROVE  f = g
            OBVIOUS
          <5>1. fileOf[f] = fileOf[g]
            BY <1>0, <4>3 DEF NumbersInv
          <5> QED BY <4>3, <5>1
        <4> HIDE DEF numberOf
        <4>6. numberOf \in Injection(1..next_frame, 0..Kept - 1)
          BY <4>4, <4>5 DEF Injection, IsInjective
        <4>7. IsFiniteSet(1..next_frame) /\ Cardinality(1..next_frame) = next_frame
          BY <2>3, FS_Interval, SMTT(30)
        <4>8. IsFiniteSet(0..Kept - 1) /\ Cardinality(0..Kept - 1) = Kept
          BY <2>3, FS_Interval, SMTT(30)
        <4>9. Cardinality(1..next_frame) <= Cardinality(0..Kept - 1)
          BY <4>6, <4>8, FS_Injection
        <4> QED BY <4>7, <4>8, <4>9
      <3>3. Kept = IF o.save_gpr_limit = 0 THEN next_frame
                   ELSE Min({o.save_gpr_limit, next_frame})
        <4>1. CASE o.save_gpr_limit = 0
          BY <2>3, <3>1, <3>2, <4>1 DEF AtLimit
        <4>2. CASE o.save_gpr_limit # 0
          <5>1. Kept <= o.save_gpr_limit
            BY <1>0, <4>2 DEF NumbersInv
          <5>2. Kept \in {o.save_gpr_limit, next_frame}
            BY <2>3, <3>1, <3>2, <4>2 DEF AtLimit
          <5>3. \A n \in {o.save_gpr_limit, next_frame} : Kept <= n
            BY <3>1, <5>1
          <5>4. \A n \in {o.save_gpr_limit, next_frame} :
                  (\A m \in {o.save_gpr_limit, next_frame} : n <= m) => n = Kept
            BY <2>3, <5>2, <5>3
          <5>5. Min({o.save_gpr_limit, next_frame}) = Kept
            BY <5>2, <5>3, <5>4 DEF Min
          <5> QED BY <4>2, <5>5
        <4> QED BY <4>1, <4>2
      <3> QED BY <2>4, <2>6, <3>3
    <2> QED BY <2>3, <2>5, <2>6
  <1> QED BY <1>1, <1>2 DEF FilesExact

\* No file is written over, no two are of one frame, and a pass that returns
\* has saved every frame or as many as its limit allows, numbered from 0
\* without a gap, although numbers are taken and given back by several workers.
THEOREM FilesAreNumbered == Spec => []FilesExact
  <1>1. TypeInv /\ FramesInv /\ FilesInv => FilesExact
    BY FilesAreExact
  <1> QED BY <1>1, FilesInductive, PTL

-----------------------------------------------------------------------------
(* The assistants.                                                         *)

Jobs == [owner : Nat, seq : Nat, y : Nat]
Coefficients == [own : Nat, assisted : [1..Rows -> Nat \X Nat]]

AssistantTypes ==
    /\ helper \in [Helpers -> {"idle", "rows", "pushed", "complete"}]
    /\ job \in [Helpers -> Jobs] /\ at \in [Helpers -> Jobs]
    /\ busy \in [Helpers -> BOOLEAN]
    /\ next_seq \in [Helpers -> Nat] /\ completed_seq \in [Helpers -> Nat]
    /\ produced \in [Helpers -> Nat] /\ consumed \in [Helpers -> Nat]
    /\ row_ring \in [Helpers -> [0..ring_rows - 1 -> Nat \X Nat]]
    /\ ticket \in [Workers -> Nat] /\ next_row \in [Workers -> Nat]
    /\ coeff \in [Workers -> Coefficients]

\* The job a helper has been given and has not completed.
Current(h) == IF helper[h] = "idle" THEN job[h] ELSE at[h]

\* A busy helper has one job, the last that was given out, of a worker it
\* assists; what it has consumed says how far it is.
HelperOf(h) ==
    /\ helper[h] = "idle" => at[h] = NoJob
    /\ helper[h] # "idle" => job[h] = NoJob /\ at[h] # NoJob
    /\ busy[h] <=> Current(h) # NoJob
    /\ completed_seq[h] <= next_seq[h]
    /\ Current(h) # NoJob =>
         /\ Current(h).owner \in Workers /\ AssistantOf(Current(h).owner) = h
         /\ Current(h).seq = next_seq[h] /\ completed_seq[h] < next_seq[h]
         /\ Current(h).y = consumed[h] + 1 /\ consumed[h] <= Rows
         /\ helper[h] = "idle" => consumed[h] = 0
         /\ helper[h] = "complete" <=> consumed[h] = Rows

\* Where an owner waits for its assistant.
Assisted == {"rows", "publish", "wait"}

\* A worker is the owner of a job only while it waits for it or when it failed.
OwnerOf(w) ==
    /\ AssistantOf(w) = 0 => ticket[w] = 0 /\ pc[w] \notin Assisted
    /\ pc[w] \in {"publish", "wait"} => ticket[w] # 0
    /\ \A h \in Helpers : Current(h).owner = w =>
         pc[w] = "done" \/ (pc[w] \in Assisted /\ ticket[w] # 0)

Row(w, n) == <<frame[w], n + 1>>

\* The rows in the ring, and the row that is copied but not counted yet, are
\* those of the owner's frame, and so are the coefficients of the rows before.
Served(h, w) ==
    /\ ticket[w] = next_seq[h] /\ next_row[w] = produced[h] + 1
    /\ consumed[h] <= produced[h] /\ produced[h] - consumed[h] <= ring_rows
    /\ helper[h] = "pushed" => consumed[h] < produced[h]
    /\ pc[w] = "publish" => /\ produced[h] - consumed[h] < ring_rows
                            /\ row_ring[h][Place(produced[h])] = Row(w, produced[h])
    /\ \A n \in Nat : consumed[h] <= n /\ n < produced[h] =>
                        row_ring[h][Place(n)] = Row(w, n)
    /\ \A n \in Nat : n < Rows /\ (n < consumed[h] \/ (n = consumed[h] /\ helper[h] = "pushed")) =>
                        coeff[w].assisted[n + 1] = Row(w, n)

\* The job is completed: every row has come through.
Finished(h, w) ==
    /\ ticket[w] <= completed_seq[h]
    /\ next_row[w] = Rows + 1 /\ pc[w] # "publish"
    /\ \A n \in Nat : n < Rows => coeff[w].assisted[n + 1] = Row(w, n)

WaveletOf(w) ==
    /\ pc[w] \in Assisted /\ ticket[w] # 0 =>
         /\ next_row[w] \in 1..Rows + 1
         /\ pc[w] = "publish" => next_row[w] <= Rows
         /\ pc[w] = "wait" => next_row[w] = Rows + 1 /\ coeff[w].own = frame[w]
         /\ IF Current(AssistantOf(w)).owner = w THEN Served(AssistantOf(w), w)
            ELSE Finished(AssistantOf(w), w)
    /\ pc[w] \in {"encode", "verify"} => coeff[w] = Whole(frame[w])

AssistantInv ==
    /\ stop_ \in BOOLEAN /\ (stop_ => main # "running")
    /\ ~stop_ => /\ AssistantTypes
                 /\ \A h \in Helpers : HelperOf(h)
                 /\ \A w \in Workers : OwnerOf(w) /\ WaveletOf(w)


\* Two of the rows the ring can hold at once have two places.
LEMMA PlaceFacts ==
  ASSUME NEW n \in Nat
  PROVE  /\ Place(n) \in 0..ring_rows - 1
         /\ \A m \in Nat : m < n /\ n - m < ring_rows => Place(m) # Place(n)
  <1>0. ring_rows \in Nat /\ ring_rows > 0
    BY RingAssumption
  <1>1. ASSUME NEW k \in Nat
        PROVE  /\ k % ring_rows \in 0..ring_rows - 1
               /\ k \div ring_rows \in Nat
               /\ k % ring_rows = k - ring_rows * (k \div ring_rows)
    <2>1. k % ring_rows \in 0..ring_rows - 1
      BY <1>0
    <2>2. k \div ring_rows \in Nat
      BY <1>0
    <2>3. k % ring_rows = k - ring_rows * (k \div ring_rows)
      BY <1>0
    <2> QED BY <2>1, <2>2, <2>3
  <1>2. ASSUME NEW m \in Nat, m < n, n - m < ring_rows, m % ring_rows = n % ring_rows
        PROVE  FALSE
    <2> DEFINE p == m \div ring_rows
               q == n \div ring_rows
               r == n % ring_rows
    <2>1. p \in Nat /\ q \in Nat /\ r \in 0..ring_rows - 1
      BY <1>1
    <2>2. r = m - ring_rows * p /\ r = n - ring_rows * q
      BY <1>1, <1>2
    <2> HIDE DEF p, q, r
    <2>3. n - m = ring_rows * (q - p)
      <3>1. ring_rows * (q - p) = ring_rows * q - ring_rows * p
        BY <1>0, <2>1
      <3>2. ring_rows * q \in Int /\ ring_rows * p \in Int
        BY <1>0, <2>1
      <3> QED BY <2>1, <2>2, <3>1, <3>2
    <2>4. CASE q - p <= 0
      <3>1. ring_rows * (q - p) <= 0
        BY <1>0, <2>1, <2>4
      <3> QED BY <1>0, <1>2, <2>1, <2>3, <3>1
    <2>5. CASE q - p >= 1
      <3>1. ring_rows * (q - p) >= ring_rows
        BY <1>0, <2>1, <2>5
      <3> QED BY <1>0, <1>2, <2>3, <3>1
    <2> QED BY <2>1, <2>4, <2>5
  <1> QED BY <1>1, <1>2 DEF Place

\* A job of a worker is with the worker's own helper.
LEMMA OneJob ==
  ASSUME \A h \in Helpers : HelperOf(h), o \in OptionSets,
         NEW h \in Helpers, NEW w \in Workers, Current(h).owner = w
  PROVE  Current(h) # NoJob /\ h = AssistantOf(w)
  <1>1. w # 0
    BY WorkerFacts
  <1>2. Current(h) # NoJob
    BY <1>1 DEF NoJob
  <1> QED BY <1>2 DEF HelperOf

LEMMA AssistantInvInit == Init => AssistantInv
  <1> SUFFICES ASSUME Init PROVE AssistantInv
    OBVIOUS
  <1>0. /\ Workers \subseteq Nat \ {0} /\ Rows \in Nat \ {0} /\ ring_rows \in Nat
        /\ \A w \in Workers : AssistantOf(w) # 0 => AssistantOf(w) \in Helpers
    BY WorkerFacts, RingAssumption DEF Init
  <1>1. AssistantInit(Workers, Helpers) /\ pc = [w \in Workers |-> "start"] /\ main = "running"
    BY DEF Init
  <1>2. NoJob \in Jobs /\ NoJob.owner = 0
    BY DEF NoJob, Jobs
  <1>3. Blank \in Coefficients
    <2>1. [y \in 1..Rows |-> <<0, y>>] \in [1..Rows -> Nat \X Nat]
      BY <1>0
    <2> QED BY <2>1 DEF Blank, Coefficients
  <1>4. [i \in 0..ring_rows-1 |-> <<0, 0>>] \in [0..ring_rows - 1 -> Nat \X Nat]
    BY <1>0
  <1>5. AssistantTypes
    <2> DEFINE ring0 == [i \in 0..ring_rows-1 |-> <<0, 0>>]
    <2>1. row_ring = [h \in Helpers |-> ring0] /\ ring0 \in [0..ring_rows - 1 -> Nat \X Nat]
      BY <1>1, <1>4 DEF AssistantInit
    <2> HIDE DEF ring0
    <2>2. row_ring \in [Helpers -> [0..ring_rows - 1 -> Nat \X Nat]]
      BY <2>1
    <2>3. coeff \in [Workers -> Coefficients]
      BY <1>1, <1>3 DEF AssistantInit
    <2>4. job \in [Helpers -> Jobs] /\ at \in [Helpers -> Jobs]
      BY <1>1, <1>2 DEF AssistantInit
    <2> QED BY <1>1, <2>2, <2>3, <2>4 DEF AssistantTypes, AssistantInit
  <1>6. \A h \in Helpers : Current(h) = NoJob
    BY <1>1 DEF Current, AssistantInit
  <1>7. \A h \in Helpers : HelperOf(h)
    BY <1>1, <1>6 DEF HelperOf, AssistantInit
  <1>8. \A w \in Workers : OwnerOf(w) /\ WaveletOf(w)
    BY <1>0, <1>1, <1>2, <1>6 DEF OwnerOf, WaveletOf, AssistantInit, Assisted
  <1>9. stop_ = FALSE
    BY <1>1 DEF AssistantInit
  <1> QED BY <1>1, <1>5, <1>7, <1>8, <1>9 DEF AssistantInv

\* A step that touches no assistant: a worker that waits for its own goes on
\* waiting or fails, and none but those that have the coefficients of a frame
\* encode it.
LEMMA AssistantsStand ==
  ASSUME TypeInv, AssistantInv, o' = o, UNCHANGED assistantVars,
         stop_ => main' # "running",
         \A w \in Workers :
           /\ pc'[w] \in Assisted => pc'[w] = pc[w] /\ frame'[w] = frame[w]
           /\ pc[w] \in Assisted \cup {"done"} => pc'[w] \in {pc[w], "done"}
           /\ pc'[w] \in {"encode", "verify"} =>
                pc[w] \in {"encode", "verify"} /\ frame'[w] = frame[w]
  PROVE  AssistantInv'
  <1>0. /\ Workers' = Workers /\ Helpers' = Helpers /\ Assisted' = Assisted /\ Jobs' = Jobs
        /\ Coefficients' = Coefficients /\ \A w : AssistantOf(w)' = AssistantOf(w)
        /\ UNCHANGED <<helper, job, at, busy, stop_, next_seq, completed_seq,
                       produced, consumed, row_ring, ticket, next_row, coeff>>
    BY SameNames DEF Assisted, Jobs, Coefficients, assistantVars
  <1>1. \A h : Current(h)' = Current(h)
    BY <1>0 DEF Current
  <1>2. SUFFICES ASSUME ~stop_ 
                 PROVE  /\ AssistantTypes'
                        /\ \A h \in Helpers : HelperOf(h)'
                        /\ \A w \in Workers : OwnerOf(w)' /\ WaveletOf(w)'
    BY <1>0 DEF AssistantInv
  <1>3. AssistantTypes'
    BY <1>0, <1>2 DEF AssistantInv, AssistantTypes
  <1>4. ASSUME NEW h \in Helpers PROVE HelperOf(h)'
    <2>1. HelperOf(h)
      BY <1>2 DEF AssistantInv
    <2> QED BY <1>0, <1>1, <2>1 DEF HelperOf
  <1>5. ASSUME NEW w \in Workers PROVE OwnerOf(w)'
    <2>1. OwnerOf(w)
      BY <1>2 DEF AssistantInv
    <2> QED BY <1>0, <1>1, <2>1 DEF OwnerOf, Assisted
  <1>6. ASSUME NEW w \in Workers PROVE WaveletOf(w)'
    <2>1. WaveletOf(w)
      BY <1>2 DEF AssistantInv
    <2>2. ASSUME pc'[w] \in Assisted, ticket[w] # 0
          PROVE  /\ next_row[w] \in 1..Rows + 1
                 /\ pc'[w] = "publish" => next_row[w] <= Rows
                 /\ pc'[w] = "wait" => next_row[w] = Rows + 1 /\ coeff[w].own = frame'[w]
                 /\ IF Current(AssistantOf(w)).owner = w THEN Served(AssistantOf(w), w)'
                    ELSE Finished(AssistantOf(w), w)'
      <3>1. pc'[w] = pc[w] /\ frame'[w] = frame[w]
        BY <2>2
      <3>2. \A n : Row(w, n)' = Row(w, n) /\ Place(n)' = Place(n)
        BY <3>1 DEF Row, Place
      <3>3. Served(AssistantOf(w), w)' = Served(AssistantOf(w), w)
        BY <1>0, <3>1, <3>2 DEF Served
      <3>4. Finished(AssistantOf(w), w)' = Finished(AssistantOf(w), w)
        BY <1>0, <3>1, <3>2 DEF Finished
      <3> QED BY <2>1, <2>2, <3>1, <3>3, <3>4 DEF WaveletOf
    <2>3. pc'[w] \in {"encode", "verify"} => coeff[w] = Whole(frame'[w])
      BY <2>1 DEF WaveletOf
    <2>4. Whole(frame[w])' = Whole(frame'[w])
      BY DEF Whole
    <2> QED BY <1>0, <1>1, <2>2, <2>3, <2>4 DEF WaveletOf
  <1> QED BY <1>3, <1>4, <1>5, <1>6

\* What there is of helper h, and what there is of worker w.
SameHelper(h) ==
    /\ helper'[h] = helper[h] /\ job'[h] = job[h] /\ at'[h] = at[h] /\ busy'[h] = busy[h]
    /\ next_seq'[h] = next_seq[h] /\ completed_seq'[h] = completed_seq[h]
    /\ produced'[h] = produced[h] /\ consumed'[h] = consumed[h]
    /\ row_ring'[h] = row_ring[h]
SameWorker(w) ==
    /\ ticket'[w] = ticket[w] /\ next_row'[w] = next_row[w] /\ coeff'[w] = coeff[w]
    /\ pc'[w] = pc[w] /\ frame'[w] = frame[w]

LEMMA SameServed ==
  ASSUME NEW h, NEW w, SameHelper(h), SameWorker(w)
  PROVE  Served(h, w)' = Served(h, w) /\ Finished(h, w)' = Finished(h, w)
  <1>1. \A n : Row(w, n)' = Row(w, n) /\ Place(n)' = Place(n)
    BY DEF Row, Place, SameWorker
  <1> QED BY <1>1 DEF Served, Finished, SameHelper, SameWorker

\* A step of an owner v and its helper k concerns nobody else: a worker that
\* shares the helper waits for no job, or for one that is not touched.
LEMMA Elsewhere ==
  ASSUME TypeInv, AssistantInv, ~stop_, o' = o, UNCHANGED stop_,
         NEW v \in Workers, NEW k, k = AssistantOf(v),
         \A h \in Helpers \ {k} : SameHelper(h),
         \A w \in Workers \ {v} : SameWorker(w),
         k \in Helpers =>
           \/ SameHelper(k)
           \/ /\ Current(k).owner \in {0, v} /\ (Current(k).owner)' \in {0, v}
              /\ completed_seq'[k] >= completed_seq[k],
         AssistantTypes', k \in Helpers => HelperOf(k)', OwnerOf(v)', WaveletOf(v)'
  PROVE  AssistantInv'
  <1>0. /\ Workers' = Workers /\ Helpers' = Helpers /\ \A w : AssistantOf(w)' = AssistantOf(w)
        /\ \A w \in Workers : AssistantOf(w) # 0 => AssistantOf(w) \in Helpers
        /\ 0 \notin Workers
    BY SameNames, WorkerFacts DEF TypeInv
  <1>1. /\ AssistantTypes
        /\ \A h \in Helpers : HelperOf(h)
        /\ \A w \in Workers : OwnerOf(w) /\ WaveletOf(w)
    BY DEF AssistantInv
  <1>2. ASSUME NEW h \in Helpers, SameHelper(h)  PROVE Current(h)' = Current(h)
    BY <1>2 DEF Current, SameHelper
  <1>3. ASSUME NEW h \in Helpers  PROVE HelperOf(h)'
    <2>1. CASE h = k
      BY <2>1
    <2>2. CASE h # k
      <3>1. HelperOf(h) /\ SameHelper(h) /\ Current(h)' = Current(h)
        BY <1>1, <1>2, <2>2
      <3> QED BY <1>0, <3>1 DEF HelperOf, SameHelper
    <2> QED BY <2>1, <2>2
  <1>4. ASSUME NEW w \in Workers  PROVE OwnerOf(w)'
    <2>1. CASE w = v
      BY <2>1
    <2>2. CASE w # v
      <3>1. OwnerOf(w) /\ SameWorker(w)
        BY <1>1, <2>2
      <3>2. ASSUME NEW h \in Helpers, Current(h)'.owner = w  PROVE Current(h).owner = w
        <4>1. CASE h = k /\ ~SameHelper(k)
          BY <1>0, <2>2, <3>2, <4>1
        <4>2. CASE SameHelper(h)
          BY <1>2, <3>2, <4>2
        <4> QED BY <4>1, <4>2
      <3>3. /\ AssistantOf(w) = 0 => ticket'[w] = 0 /\ pc'[w] \notin Assisted
            /\ pc'[w] \in {"publish", "wait"} => ticket'[w] # 0
        BY <3>1 DEF OwnerOf, SameWorker
      <3>4. \A h \in Helpers : Current(h)'.owner = w =>
               pc'[w] = "done" \/ (pc'[w] \in Assisted /\ ticket'[w] # 0)
        BY <3>1, <3>2 DEF OwnerOf, SameWorker
      <3> QED BY <1>0, <3>3, <3>4 DEF OwnerOf, Assisted
    <2> QED BY <2>1, <2>2
  <1>5. ASSUME NEW w \in Workers  PROVE WaveletOf(w)'
    <2>1. CASE w = v
      BY <2>1
    <2>2. CASE w # v
      <3> PICK h : h = AssistantOf(w)
        OBVIOUS
      <3>0. AssistantOf(w)' = h
        BY <1>0
      <3>1. WaveletOf(w) /\ OwnerOf(w) /\ SameWorker(w)
        BY <1>1, <2>2
      <3>2. Whole(frame[w])' = Whole(frame[w])
        BY <3>1 DEF Whole, SameWorker
      <3>3. ASSUME pc[w] \in Assisted, ticket[w] # 0
            PROVE  IF Current(h)'.owner = w THEN Served(h, w)' ELSE Finished(h, w)'
        <4>1. h \in Helpers
          BY <1>0, <3>1, <3>3 DEF OwnerOf
        <4>2. IF Current(h).owner = w THEN Served(h, w) ELSE Finished(h, w)
          BY <3>1, <3>3 DEF WaveletOf
        <4>3. CASE SameHelper(h)
          <5>1. Served(h, w)' = Served(h, w) /\ Finished(h, w)' = Finished(h, w)
            BY <3>1, <4>3, SameServed
          <5>2. Current(h)' = Current(h)
            BY <1>2, <4>1, <4>3
          <5> QED BY <4>2, <5>1, <5>2
        <4>4. CASE ~SameHelper(h)
          <5>1. /\ Current(h).owner # w /\ (Current(h).owner)' # w
                /\ completed_seq'[h] >= completed_seq[h]
            BY <1>0, <2>2, <4>1, <4>4
          <5>2. Finished(h, w)
            BY <4>2, <5>1
          <5>3. \A n : Row(w, n)' = Row(w, n)
            BY <3>1 DEF Row, SameWorker
          <5>4. completed_seq[h] \in Nat /\ completed_seq'[h] \in Nat /\ ticket[w] \in Nat
            <6>1. AssistantTypes'
              OBVIOUS
            <6>2. completed_seq' \in [Helpers -> Nat]
              BY <1>0, <6>1 DEF AssistantTypes
            <6> QED BY <1>1, <4>1, <6>2 DEF AssistantTypes
          <5>5. ticket'[w] <= completed_seq'[h]
            BY <3>1, <5>1, <5>2, <5>4 DEF Finished, SameWorker
          <5>6. /\ next_row'[w] = Rows + 1 /\ pc'[w] # "publish"
                /\ \A n \in Nat : n < Rows => coeff'[w].assisted[n + 1] = Row(w, n)'
            BY <3>1, <5>2, <5>3 DEF Finished, SameWorker
          <5>7. Finished(h, w)'
            BY <3>0, <5>5, <5>6 DEF Finished
          <5> QED BY <5>1, <5>7
        <4> QED BY <4>3, <4>4
      <3>4. pc'[w] \in Assisted /\ ticket'[w] # 0 =>
               /\ next_row'[w] \in 1..Rows + 1
               /\ pc'[w] = "publish" => next_row'[w] <= Rows
               /\ pc'[w] = "wait" => next_row'[w] = Rows + 1 /\ coeff'[w].own = frame'[w]
               /\ IF Current(h)'.owner = w THEN Served(h, w)' ELSE Finished(h, w)'
        BY <3>1, <3>3 DEF WaveletOf, SameWorker
      <3>5. pc'[w] \in {"encode", "verify"} => coeff'[w] = Whole(frame[w])'
        BY <3>1, <3>2 DEF WaveletOf, SameWorker
      <3>6. /\ Current(AssistantOf(w))' = Current(h)'
            /\ Served(AssistantOf(w), w)' = Served(h, w)'
            /\ Finished(AssistantOf(w), w)' = Finished(h, w)'
        BY <3>0
      <3>7. Assisted' = Assisted
        BY DEF Assisted
      <3> QED BY <3>4, <3>5, <3>6, <3>7 DEF WaveletOf
    <2> QED BY <2>1, <2>2
  <1> QED BY <1>0, <1>3, <1>4, <1>5 DEF AssistantInv

\* A worker with no helper, or with a job that is not its own, owns none.
LEMMA NoJobOfMine ==
  ASSUME TypeInv, AssistantInv, ~stop_, NEW w \in Workers, NEW h \in Helpers,
         pc[w] \notin Assisted \cup {"done"} \/ (ticket[w] = 0 /\ pc[w] # "done")
  PROVE  Current(h).owner # w
  BY DEF AssistantInv, OwnerOf

LEMMA BeginKeeps ==
  ASSUME TypeInv, AssistantInv, ~stop_, NEW w \in Workers, pc[w] = "begin",
         AssistantOf(w) # 0, TryBegin(w, AssistantOf(w)), Goto(w, "rows"),
         UNCHANGED <<o, frame>>
  PROVE  AssistantInv'
  <1> PICK h : h = AssistantOf(w)
    OBVIOUS
  <1>0. /\ h \in Helpers /\ h # 0 /\ w # 0 /\ 0 \notin Workers
        /\ Workers' = Workers /\ Helpers' = Helpers /\ \A v : AssistantOf(v)' = AssistantOf(v)
        /\ Rows \in Nat \ {0} /\ ring_rows \in Nat /\ ring_rows > 0
    BY WorkerFacts, SameNames, RingAssumption DEF TypeInv
  <1>1. /\ AssistantTypes /\ \A k \in Helpers : HelperOf(k)
        /\ \A v \in Workers : OwnerOf(v) /\ WaveletOf(v)
    BY DEF AssistantInv
  <1>2. /\ UNCHANGED <<helper, at, stop_, completed_seq, row_ring, coeff>>
        /\ IF busy[h] THEN /\ ticket' = [ticket EXCEPT ![w] = 0]
                           /\ UNCHANGED <<next_seq, produced, consumed, job, busy, next_row>>
           ELSE BeginJob(w, h)
    BY DEF TryBegin
  <1>3. pc' = [pc EXCEPT ![w] = "rows"] /\ pc \in [Workers -> WorkerPlaces]
    BY DEF Goto, TypeInv
  <1>4. Jobs' = Jobs /\ Coefficients' = Coefficients /\ Assisted' = Assisted
    BY DEF Jobs, Coefficients, Assisted
  <1>5. \A k \in Helpers : Current(k).owner # w
    BY <1>3, NoJobOfMine DEF Assisted
  <1>6. CASE busy[h]
    <2>1. /\ ticket' = [ticket EXCEPT ![w] = 0]
          /\ UNCHANGED <<next_seq, produced, consumed, job, busy, next_row>>
      BY <1>2, <1>6
    <2>2. AssistantTypes'
      BY <1>0, <1>1, <1>2, <1>4, <2>1 DEF AssistantTypes
    <2>3. \A k \in Helpers : SameHelper(k)
      BY <1>2, <2>1 DEF SameHelper
    <2>4. \A v \in Workers \ {w} : SameWorker(v)
      BY <1>1, <1>2, <1>3, <2>1 DEF SameWorker, AssistantTypes
    <2>5. \A k : Current(k)' = Current(k)
      BY <1>2, <2>1 DEF Current
    <2>6. HelperOf(h)'
      BY <1>0, <1>1, <1>2, <2>1, <2>5 DEF HelperOf
    <2>7. ticket'[w] = 0 /\ pc'[w] = "rows"
      BY <1>1, <1>3, <2>1 DEF AssistantTypes
    <2>8. OwnerOf(w)'
      BY <1>0, <1>5, <2>5, <2>7 DEF OwnerOf
    <2>9. WaveletOf(w)'
      BY <2>7 DEF WaveletOf
    <2> QED BY <1>2, <2>2, <2>3, <2>4, <2>6, <2>8, <2>9, Elsewhere
  <1>7. CASE ~busy[h]
    <2> DEFINE seq == next_seq[h] + 1
    <2>1. /\ next_seq' = [next_seq EXCEPT ![h] = seq]
          /\ produced' = [produced EXCEPT ![h] = 0]
          /\ consumed' = [consumed EXCEPT ![h] = 0]
          /\ job' = [job EXCEPT ![h] = [owner |-> w, seq |-> seq, y |-> 1]]
          /\ busy' = [busy EXCEPT ![h] = TRUE]
          /\ ticket' = [ticket EXCEPT ![w] = seq]
          /\ next_row' = [next_row EXCEPT ![w] = 1]
      BY <1>1, <1>2, <1>7 DEF BeginJob, AssistantTypes
    <2>2. Current(h) = NoJob /\ helper[h] = "idle" /\ at[h] = NoJob /\ completed_seq[h] <= next_seq[h]
      BY <1>0, <1>1, <1>7 DEF HelperOf, Current
    <2>3. next_seq[h] \in Nat /\ completed_seq[h] \in Nat
      BY <1>0, <1>1 DEF AssistantTypes
    <2>4. seq \in Nat /\ seq # 0 /\ completed_seq[h] < seq
      BY <2>2, <2>3
    <2>5. [owner |-> w, seq |-> seq, y |-> 1] \in Jobs
      BY <1>0, <2>4, WorkerFacts DEF Jobs, TypeInv
    <2> HIDE DEF seq
    <2>6. AssistantTypes'
      BY <1>0, <1>1, <1>2, <1>4, <2>1, <2>4, <2>5 DEF AssistantTypes
    <2>7. /\ job'[h] = [owner |-> w, seq |-> seq, y |-> 1] /\ next_seq'[h] = seq
          /\ produced'[h] = 0 /\ consumed'[h] = 0 /\ busy'[h] = TRUE
          /\ ticket'[w] = seq /\ next_row'[w] = 1 /\ pc'[w] = "rows"
      BY <1>0, <1>1, <1>3, <2>1 DEF AssistantTypes
    <2>8. Current(h)' = [owner |-> w, seq |-> seq, y |-> 1]
      BY <1>2, <2>2, <2>7 DEF Current
    <2>9. \A k \in Helpers \ {h} : SameHelper(k)
      BY <1>1, <1>2, <2>1 DEF SameHelper, AssistantTypes
    <2>10. \A v \in Workers \ {w} : SameWorker(v)
      BY <1>1, <1>2, <1>3, <2>1 DEF SameWorker, AssistantTypes
    <2>11. /\ Current(h).owner \in {0, w} /\ (Current(h).owner)' \in {0, w}
           /\ completed_seq'[h] >= completed_seq[h]
      BY <1>2, <2>2, <2>3, <2>8 DEF NoJob
    <2>12. HelperOf(h)'
      <3>1. NoJob' = NoJob /\ Current(h)' # NoJob /\ Current(h)'.owner = w
            /\ Current(h)'.seq = seq /\ Current(h)'.y = 1
        BY <1>0, <2>8 DEF NoJob
      <3>2. /\ (Current(h).owner)' \in Workers' /\ AssistantOf(Current(h).owner)' = h
            /\ (Current(h).seq)' = next_seq'[h] /\ completed_seq'[h] < next_seq'[h]
            /\ (Current(h).y)' = consumed'[h] + 1 /\ consumed'[h] = 0 /\ 0 # Rows /\ 0 <= Rows
        BY <1>0, <1>2, <2>4, <2>7, <3>1
      <3>3. /\ helper'[h] = "idle" /\ at'[h] = NoJob' /\ completed_seq'[h] <= next_seq'[h]
            /\ busy'[h] /\ Current(h)' # NoJob'
        BY <1>2, <2>2, <2>3, <2>4, <2>7, <3>1
      <3> QED BY <3>2, <3>3 DEF HelperOf
    <2>13. OwnerOf(w)'
      BY <1>0, <2>4, <2>7 DEF OwnerOf, Assisted
    <2>14. Served(h, w)'
      <3>1. produced'[h] = 0 /\ consumed'[h] = 0 /\ helper'[h] = "idle"
        BY <1>2, <2>2, <2>7
      <3>2. ticket'[w] = next_seq'[h] /\ next_row'[w] = produced'[h] + 1
            /\ pc'[w] # "publish"
        BY <2>7
      <3> QED BY <1>0, <3>1, <3>2 DEF Served
    <2>15. WaveletOf(w)'
      <3>1. AssistantOf(w)' = h /\ (Current(AssistantOf(w)).owner)' = w
        BY <1>0, <2>8
      <3>2. Served(AssistantOf(w), w)'
        BY <2>14, <3>1
      <3> QED BY <1>0, <2>7, <3>1, <3>2 DEF WaveletOf
    <2> QED BY <1>2, <2>6, <2>9, <2>10, <2>11, <2>12, <2>13, <2>15, Elsewhere
  <1> QED BY <1>6, <1>7

\* The worker's own job: what a waiting owner knows of its helper.
LEMMA WaitingOwner ==
  ASSUME TypeInv, AssistantInv, ~stop_, NEW w \in Workers, pc[w] \in Assisted,
         ticket[w] # 0
  PROVE  /\ AssistantOf(w) \in Helpers
         /\ next_row[w] \in 1..Rows + 1
         /\ pc[w] = "publish" => next_row[w] <= Rows
         /\ pc[w] = "wait" => next_row[w] = Rows + 1 /\ coeff[w].own = frame[w]
         /\ \/ Current(AssistantOf(w)).owner = w /\ Served(AssistantOf(w), w)
            \/ Current(AssistantOf(w)).owner # w /\ Finished(AssistantOf(w), w)
  <1>1. OwnerOf(w) /\ WaveletOf(w)
    BY DEF AssistantInv
  <1>2. AssistantOf(w) \in Helpers
    BY <1>1, WorkerFacts DEF OwnerOf, TypeInv
  <1> QED BY <1>1, <1>2 DEF WaveletOf

LEMMA WriteKeeps ==
  ASSUME TypeInv, AssistantInv, ~stop_, NEW w \in Workers, pc[w] = "rows",
         ticket[w] # 0, next_row[w] <= Rows, WriteRow(w, AssistantOf(w), frame[w]),
         Goto(w, "publish"), UNCHANGED <<o, frame>>, frame[w] \in Nat
  PROVE  AssistantInv'
  <1> PICK h : h = AssistantOf(w)
    OBVIOUS
  <1>0. /\ h \in Helpers
        /\ Workers' = Workers /\ Helpers' = Helpers /\ \A v : AssistantOf(v)' = AssistantOf(v)
        /\ Rows \in Nat \ {0} /\ ring_rows \in Nat /\ ring_rows > 0
    BY WaitingOwner, SameNames, RingAssumption DEF Assisted
  <1>1. /\ AssistantTypes /\ \A k \in Helpers : HelperOf(k)
        /\ \A v \in Workers : OwnerOf(v) /\ WaveletOf(v)
    BY DEF AssistantInv
  <1>2. /\ UNCHANGED <<helper, job, at, busy, stop_, next_seq, completed_seq,
                       produced, consumed, ticket, next_row, coeff>>
        /\ produced[h] - consumed[h] <= ring_rows - 1
        /\ row_ring' = [row_ring EXCEPT ![h][Place(produced[h])] = <<frame[w], next_row[w]>>]
    BY DEF WriteRow, CopyRow
  <1>3. pc' = [pc EXCEPT ![w] = "publish"] /\ pc \in [Workers -> WorkerPlaces]
    BY DEF Goto, TypeInv
  <1>4. Jobs' = Jobs /\ Coefficients' = Coefficients /\ Assisted' = Assisted
    BY DEF Jobs, Coefficients, Assisted
  <1>5. \A k : Current(k)' = Current(k)
    BY <1>2 DEF Current
  <1>6. /\ produced[h] \in Nat /\ consumed[h] \in Nat
        /\ row_ring[h] \in [0..ring_rows - 1 -> Nat \X Nat]
        /\ next_row[w] \in Nat
    BY <1>0, <1>1 DEF AssistantTypes
  <1>7. <<frame[w], next_row[w]>> \in Nat \X Nat
    BY <1>6
  <1>8. Place(produced[h]) \in 0..ring_rows - 1
    BY <1>6, PlaceFacts
  <1>9. PICK ring \in [0..ring_rows - 1 -> Nat \X Nat] :
           /\ ring = [row_ring[h] EXCEPT ![Place(produced[h])] = <<frame[w], next_row[w]>>]
           /\ row_ring' = [row_ring EXCEPT ![h] = ring]
    <2>1. [row_ring[h] EXCEPT ![Place(produced[h])] = <<frame[w], next_row[w]>>]
             \in [0..ring_rows - 1 -> Nat \X Nat]
      BY <1>6, <1>7
    <2> QED BY <1>2, <2>1
  <1>10. AssistantTypes'
    <2> DEFINE Rings == [0..ring_rows - 1 -> Nat \X Nat]
    <2>1. ring \in Rings /\ row_ring \in [Helpers -> Rings]
      BY <1>1, <1>9 DEF AssistantTypes
    <2> HIDE DEF Rings
    <2>2. row_ring' \in [Helpers -> Rings]
      BY <1>9, <2>1
    <2> USE DEF Rings
    <2> QED BY <1>0, <1>1, <1>2, <1>4, <2>2 DEF AssistantTypes
  <1>11. \A k \in Helpers \ {h} : SameHelper(k)
    BY <1>1, <1>2, <1>9 DEF SameHelper, AssistantTypes
  <1>12. \A v \in Workers \ {w} : SameWorker(v)
    BY <1>2, <1>3 DEF SameWorker
  <1>13. Served(h, w) /\ Current(h).owner = w
    <2>1. \/ Current(h).owner = w /\ Served(h, w)
          \/ Current(h).owner # w /\ Finished(h, w)
      BY WaitingOwner DEF Assisted
    <2>2. ~Finished(h, w)
      BY <1>0, <1>6 DEF Finished
    <2> QED BY <2>1, <2>2
  <1>14. HelperOf(h)'
    BY <1>0, <1>1, <1>2, <1>5 DEF HelperOf
  <1>15. pc'[w] = "publish" /\ pc[w] = "rows"
    BY <1>3
  <1>16. OwnerOf(w)'
    <2>1. OwnerOf(w)
      BY <1>1
    <2> QED BY <1>0, <1>2, <1>5, <1>15, <2>1 DEF OwnerOf, Assisted
  <1>17. Served(h, w)'
    <2>1. \A n : Row(w, n)' = Row(w, n) /\ Place(n)' = Place(n)
      BY DEF Row, Place
    <2>2. row_ring'[h] = ring
      BY <1>0, <1>1, <1>9 DEF AssistantTypes
    <2>3. ring[Place(produced[h])] = Row(w, produced[h])
      BY <1>6, <1>8, <1>9, <1>13 DEF Row, Served
    <2>4. ASSUME NEW n \in Nat, consumed[h] <= n, n < produced[h]
          PROVE  ring[Place(n)] = Row(w, n)
      <3>1. row_ring[h][Place(n)] = Row(w, n)
        BY <1>13, <2>4 DEF Served
      <3>2. produced[h] - n < ring_rows
        BY <1>0, <1>2, <1>6, <2>4
      <3>3. Place(n) # Place(produced[h]) /\ Place(n) \in 0..ring_rows - 1
        BY <1>6, <2>4, <3>2, PlaceFacts
      <3> QED BY <1>6, <1>9, <3>1, <3>3
    <2>5. produced[h] - consumed[h] < ring_rows
      BY <1>0, <1>2, <1>6
    <2> QED BY <1>2, <1>13, <2>1, <2>2, <2>3, <2>4, <2>5 DEF Served
  <1>18. WaveletOf(w)'
    <2>1. AssistantOf(w)' = h /\ (Current(AssistantOf(w)).owner)' = w
      BY <1>0, <1>5, <1>13
    <2>2. Served(AssistantOf(w), w)'
      BY <1>17, <2>1
    <2>3. next_row'[w] \in 1..Rows + 1 /\ next_row'[w] <= Rows
      BY <1>2, WaitingOwner DEF Assisted
    <2> QED BY <1>15, <2>1, <2>2, <2>3 DEF WaveletOf
  <1>19. /\ Current(h).owner \in {0, w} /\ (Current(h).owner)' \in {0, w}
         /\ completed_seq'[h] >= completed_seq[h]
    <2>1. completed_seq[h] \in Nat
      BY <1>0, <1>1 DEF AssistantTypes
    <2> QED BY <1>2, <1>5, <1>13, <2>1
  <1> QED BY <1>2, <1>10, <1>11, <1>12, <1>14, <1>16, <1>18, <1>19, Elsewhere

LEMMA PublishKeeps ==
  ASSUME TypeInv, AssistantInv, ~stop_, NEW w \in Workers, pc[w] = "publish",
         PublishRow(w, AssistantOf(w)), Goto(w, "rows"), UNCHANGED <<o, frame>>
  PROVE  AssistantInv'
  <1> PICK h : h = AssistantOf(w)
    OBVIOUS
  <1>1. /\ AssistantTypes /\ \A k \in Helpers : HelperOf(k)
        /\ \A v \in Workers : OwnerOf(v) /\ WaveletOf(v)
    BY DEF AssistantInv
  <1>a. ticket[w] # 0
    BY <1>1 DEF OwnerOf
  <1>0. /\ h \in Helpers
        /\ Workers' = Workers /\ Helpers' = Helpers /\ \A v : AssistantOf(v)' = AssistantOf(v)
        /\ Rows \in Nat \ {0} /\ ring_rows \in Nat /\ ring_rows > 0
    BY <1>a, WaitingOwner, SameNames, RingAssumption DEF Assisted
  <1>2. /\ UNCHANGED <<helper, job, at, busy, stop_, next_seq, completed_seq,
                       consumed, row_ring, ticket, coeff>>
        /\ produced' = [produced EXCEPT ![h] = @ + 1]
        /\ next_row' = [next_row EXCEPT ![w] = @ + 1]
    BY DEF PublishRow
  <1>3. pc' = [pc EXCEPT ![w] = "rows"] /\ pc \in [Workers -> WorkerPlaces]
    BY DEF Goto, TypeInv
  <1>4. Jobs' = Jobs /\ Coefficients' = Coefficients /\ Assisted' = Assisted
    BY DEF Jobs, Coefficients, Assisted
  <1>5. \A k : Current(k)' = Current(k)
    BY <1>2 DEF Current
  <1>6. produced[h] \in Nat /\ consumed[h] \in Nat /\ next_row[w] \in Nat
    BY <1>0, <1>1 DEF AssistantTypes
  <1>7. produced'[h] = produced[h] + 1 /\ next_row'[w] = next_row[w] + 1
    BY <1>0, <1>1, <1>2 DEF AssistantTypes
  <1>10. AssistantTypes'
    <2>1. produced' \in [Helpers -> Nat] /\ next_row' \in [Workers -> Nat]
      BY <1>0, <1>1, <1>2, SMTT(30) DEF AssistantTypes
    <2> QED BY <1>0, <1>1, <1>2, <1>4, <2>1 DEF AssistantTypes
  <1>11. \A k \in Helpers \ {h} : SameHelper(k)
    BY <1>1, <1>2 DEF SameHelper, AssistantTypes
  <1>12. \A v \in Workers \ {w} : SameWorker(v)
    BY <1>1, <1>2, <1>3 DEF SameWorker, AssistantTypes
  <1>13. Served(h, w) /\ Current(h).owner = w
    <2>1. \/ Current(h).owner = w /\ Served(h, w)
          \/ Current(h).owner # w /\ Finished(h, w)
      BY <1>a, WaitingOwner DEF Assisted
    <2>2. ~Finished(h, w)
      BY DEF Finished
    <2> QED BY <2>1, <2>2
  <1>14. HelperOf(h)'
    BY <1>0, <1>1, <1>2, <1>5 DEF HelperOf
  <1>15. pc'[w] = "rows" /\ pc[w] = "publish"
    BY <1>3
  <1>16. OwnerOf(w)'
    <2>1. OwnerOf(w)
      BY <1>1
    <2> QED BY <1>0, <1>2, <1>5, <1>15, <2>1 DEF OwnerOf, Assisted
  <1>17. Served(h, w)'
    <2>1. \A n : Row(w, n)' = Row(w, n) /\ Place(n)' = Place(n)
      BY DEF Row, Place
    <2>2. ASSUME NEW n \in Nat, consumed[h] <= n, n < produced[h] + 1
          PROVE  row_ring[h][Place(n)] = Row(w, n)
      <3>1. n < produced[h] \/ n = produced[h]
        BY <1>6, <2>2
      <3> QED BY <1>13, <1>15, <2>2, <3>1 DEF Served
    <2>3. /\ ticket'[w] = next_seq'[h] /\ next_row'[w] = produced'[h] + 1
          /\ consumed'[h] <= produced'[h] /\ produced'[h] - consumed'[h] <= ring_rows
          /\ helper'[h] = "pushed" => consumed'[h] < produced'[h]
      BY <1>0, <1>2, <1>6, <1>7, <1>13, <1>15 DEF Served
    <2>4. \A n \in Nat : n < Rows /\ (n < consumed[h] \/ (n = consumed[h] /\ helper[h] = "pushed")) =>
                        coeff[w].assisted[n + 1] = Row(w, n)
      BY <1>13 DEF Served
    <2> QED BY <1>2, <1>7, <1>15, <2>1, <2>2, <2>3, <2>4 DEF Served
  <1>18. WaveletOf(w)'
    <2>1. AssistantOf(w)' = h /\ (Current(AssistantOf(w)).owner)' = w
      BY <1>0, <1>5, <1>13
    <2>2. Served(AssistantOf(w), w)'
      BY <1>17, <2>1
    <2>3. next_row[w] \in 1..Rows + 1 /\ next_row[w] <= Rows
      BY <1>a, WaitingOwner DEF Assisted
    <2>4. next_row'[w] \in 1..Rows + 1
      BY <1>0, <1>6, <1>7, <2>3
    <2> QED BY <1>15, <2>1, <2>2, <2>4 DEF WaveletOf
  <1>19. /\ Current(h).owner \in {0, w} /\ (Current(h).owner)' \in {0, w}
         /\ completed_seq'[h] >= completed_seq[h]
    <2>1. completed_seq[h] \in Nat
      BY <1>0, <1>1 DEF AssistantTypes
    <2> QED BY <1>2, <1>5, <1>13, <2>1
  <1> QED BY <1>2, <1>10, <1>11, <1>12, <1>14, <1>16, <1>18, <1>19, Elsewhere

LEMMA OwnKeeps ==
  ASSUME TypeInv, AssistantInv, ~stop_, NEW w \in Workers,
         \/ pc[w] = "begin" /\ AssistantOf(w) = 0
         \/ pc[w] = "rows" /\ (ticket[w] = 0 \/ next_row[w] > Rows),
         TransformOwn(w, frame[w]),
         Goto(w, IF ticket[w] = 0 THEN "encode" ELSE "wait"),
         UNCHANGED <<o, frame>>, frame[w] \in Nat
  PROVE  AssistantInv'
  <1> PICK h : h = AssistantOf(w)
    OBVIOUS
  <1>0. /\ Workers' = Workers /\ Helpers' = Helpers /\ \A v : AssistantOf(v)' = AssistantOf(v)
        /\ Rows \in Nat \ {0}
    BY SameNames, RingAssumption
  <1>1. /\ AssistantTypes /\ \A k \in Helpers : HelperOf(k)
        /\ \A v \in Workers : OwnerOf(v) /\ WaveletOf(v)
    BY DEF AssistantInv
  <1>2. /\ UNCHANGED <<helper, job, at, busy, stop_, next_seq, completed_seq,
                       produced, consumed, row_ring, ticket, next_row>>
        /\ coeff' = [coeff EXCEPT ![w] = IF ticket[w] = 0 THEN Whole(frame[w])
                                         ELSE [@ EXCEPT !.own = frame[w]]]
    BY DEF TransformOwn
  <1>3. /\ pc' = [pc EXCEPT ![w] = IF ticket[w] = 0 THEN "encode" ELSE "wait"]
        /\ pc \in [Workers -> WorkerPlaces]
    BY DEF Goto, TypeInv
  <1>4. Jobs' = Jobs /\ Coefficients' = Coefficients /\ Assisted' = Assisted
    BY DEF Jobs, Coefficients, Assisted
  <1>5. \A k : Current(k)' = Current(k)
    BY <1>2 DEF Current
  <1>6. coeff[w] \in Coefficients /\ coeff \in [Workers -> Coefficients]
    BY <1>1 DEF AssistantTypes
  <1>7. Whole(frame[w]) \in Coefficients
    <2>1. [y \in 1..Rows |-> <<frame[w], y>>] \in [1..Rows -> Nat \X Nat]
      BY <1>0
    <2> QED BY <2>1 DEF Whole, Coefficients
  <1>8. PICK c \in Coefficients :
          /\ coeff' = [coeff EXCEPT ![w] = c]
          /\ ticket[w] = 0 => c = Whole(frame[w])
          /\ ticket[w] # 0 => c.own = frame[w] /\ c.assisted = coeff[w].assisted
    <2>1. CASE ticket[w] = 0
      BY <1>2, <1>7, <2>1
    <2>2. CASE ticket[w] # 0
      <3>1. [coeff[w] EXCEPT !.own = frame[w]] \in Coefficients
        BY <1>6 DEF Coefficients
      <3>2. /\ [coeff[w] EXCEPT !.own = frame[w]].own = frame[w]
            /\ [coeff[w] EXCEPT !.own = frame[w]].assisted = coeff[w].assisted
        BY <1>6 DEF Coefficients
      <3>3. coeff' = [coeff EXCEPT ![w] = [coeff[w] EXCEPT !.own = frame[w]]]
        BY <1>2, <1>6, <2>2
      <3> QED BY <2>2, <3>1, <3>2, <3>3
    <2> QED BY <2>1, <2>2
  <1>9. coeff'[w] = c /\ coeff' \in [Workers -> Coefficients]
    BY <1>6, <1>8
  <1>10. AssistantTypes'
    BY <1>0, <1>1, <1>2, <1>4, <1>9 DEF AssistantTypes
  <1>11. \A k : SameHelper(k)
    BY <1>2 DEF SameHelper
  <1>12. \A v \in Workers \ {w} : SameWorker(v)
    BY <1>2, <1>3, <1>6, <1>8 DEF SameWorker
  <1>13. h \in Helpers => HelperOf(h)'
    BY <1>0, <1>1, <1>2, <1>5 DEF HelperOf
  <1>14. OwnerOf(w)' /\ WaveletOf(w)'
    <2>1. CASE ticket[w] = 0
      <3>1. pc'[w] = "encode" /\ ticket'[w] = 0
        BY <1>2, <1>3, <2>1
      <3>2. \A k \in Helpers : Current(k)'.owner # w
        BY <1>5, <2>1, NoJobOfMine DEF Assisted
      <3>3. OwnerOf(w)'
        BY <1>0, <3>1, <3>2 DEF OwnerOf, Assisted
      <3>4. coeff'[w] = Whole(frame[w])'
        BY <1>8, <1>9, <2>1 DEF Whole
      <3>5. WaveletOf(w)'
        BY <3>1, <3>4 DEF WaveletOf, Assisted
      <3> QED BY <3>3, <3>5
    <2>2. CASE ticket[w] # 0
      <3>1. pc[w] = "rows" /\ next_row[w] > Rows /\ pc'[w] = "wait" /\ ticket'[w] # 0
        BY <1>1, <1>2, <1>3, <2>2 DEF OwnerOf
      <3>2. OwnerOf(w)'
        <4>1. OwnerOf(w)
          BY <1>1
        <4> QED BY <1>0, <1>2, <1>5, <3>1, <4>1 DEF OwnerOf, Assisted
      <3>3. /\ h \in Helpers /\ next_row[w] = Rows + 1
            /\ \/ Current(h).owner = w /\ Served(h, w)
               \/ Current(h).owner # w /\ Finished(h, w)
        <4>1. next_row[w] \in 1..Rows + 1
          BY <2>2, <3>1, WaitingOwner DEF Assisted
        <4>2. next_row[w] = Rows + 1
          BY <1>0, <3>1, <4>1
        <4> QED BY <2>2, <3>1, <4>2, WaitingOwner DEF Assisted
      <3>4. /\ \A n : Row(w, n)' = Row(w, n) /\ Place(n)' = Place(n)
            /\ coeff'[w].assisted = coeff[w].assisted /\ coeff'[w].own = frame'[w]
        BY <1>8, <1>9, <2>2 DEF Row, Place
      <3>5. Served(h, w) => Served(h, w)'
        BY <1>2, <3>1, <3>4 DEF Served
      <3>6. Finished(h, w) => Finished(h, w)'
        BY <1>2, <3>1, <3>4 DEF Finished
      <3>7. IF (Current(AssistantOf(w)).owner)' = w THEN Served(AssistantOf(w), w)'
            ELSE Finished(AssistantOf(w), w)'
        <4>1. AssistantOf(w)' = h /\ Current(AssistantOf(w))' = Current(h)
          BY <1>0, <1>5
        <4> QED BY <3>3, <3>5, <3>6, <4>1
      <3>8. next_row'[w] = Rows + 1 /\ next_row'[w] \in 1..Rows + 1
        BY <1>0, <1>2, <3>3
      <3>9. WaveletOf(w)'
        BY <3>1, <3>4, <3>7, <3>8 DEF WaveletOf
      <3> QED BY <3>2, <3>9
    <2> QED BY <2>1, <2>2
  <1> QED BY <1>2, <1>10, <1>11, <1>12, <1>13, <1>14, Elsewhere

LEMMA WaitKeeps ==
  ASSUME TypeInv, AssistantInv, ~stop_, NEW w \in Workers, pc[w] = "wait",
         Completed(w, AssistantOf(w)), UNCHANGED assistantVars,
         Goto(w, "encode"), UNCHANGED <<o, frame>>
  PROVE  AssistantInv'
  <1> PICK h : h = AssistantOf(w)
    OBVIOUS
  <1>0. /\ Workers' = Workers /\ Helpers' = Helpers /\ \A v : AssistantOf(v)' = AssistantOf(v)
        /\ Rows \in Nat \ {0}
    BY SameNames, RingAssumption
  <1>1. /\ AssistantTypes /\ \A k \in Helpers : HelperOf(k)
        /\ \A v \in Workers : OwnerOf(v) /\ WaveletOf(v)
    BY DEF AssistantInv
  <1>2. /\ UNCHANGED <<helper, job, at, busy, stop_, next_seq, completed_seq,
                       produced, consumed, row_ring, ticket, next_row, coeff>>
        /\ completed_seq[h] >= ticket[w]
    BY DEF assistantVars, Completed
  <1>3. pc' = [pc EXCEPT ![w] = "encode"] /\ pc'[w] = "encode"
    BY DEF Goto, TypeInv
  <1>4. Jobs' = Jobs /\ Coefficients' = Coefficients /\ Assisted' = Assisted
    BY DEF Jobs, Coefficients, Assisted
  <1>5. \A k : Current(k)' = Current(k)
    BY <1>2 DEF Current
  <1>6. ticket[w] # 0
    BY <1>1 DEF OwnerOf
  <1>7. /\ h \in Helpers /\ coeff[w].own = frame[w]
        /\ \/ Current(h).owner = w /\ Served(h, w)
           \/ Current(h).owner # w /\ Finished(h, w)
    BY <1>6, WaitingOwner DEF Assisted
  <1>8. completed_seq[h] \in Nat /\ next_seq[h] \in Nat /\ coeff[w] \in Coefficients
    BY <1>1, <1>7 DEF AssistantTypes
  <1>9. Finished(h, w) /\ Current(h).owner # w
    <2>1. SUFFICES ASSUME Current(h).owner = w, Served(h, w) PROVE FALSE
      BY <1>7
    <2>2. Current(h) # NoJob
      BY <1>1, <1>7, <2>1, OneJob DEF TypeInv
    <2>3. completed_seq[h] < next_seq[h]
      BY <1>1, <1>7, <2>2 DEF HelperOf
    <2>4. ticket[w] = next_seq[h]
      BY <2>1 DEF Served
    <2> QED BY <1>2, <1>8, <2>3, <2>4
  <1>10. coeff[w] = Whole(frame[w])
    <2>1. ASSUME NEW y \in 1..Rows  PROVE coeff[w].assisted[y] = <<frame[w], y>>
      <3>1. y - 1 \in Nat /\ y - 1 < Rows /\ (y - 1) + 1 = y
        BY <1>0
      <3> QED BY <1>9, <3>1 DEF Finished, Row
    <2>2. coeff[w].assisted = [y \in 1..Rows |-> <<frame[w], y>>]
      BY <1>8, <2>1 DEF Coefficients
    <2>3. coeff[w] = [own |-> coeff[w].own, assisted |-> coeff[w].assisted]
      BY <1>8 DEF Coefficients
    <2> QED BY <1>7, <2>2, <2>3 DEF Whole
  <1>11. AssistantTypes'
    BY <1>0, <1>1, <1>2, <1>4 DEF AssistantTypes
  <1>12. \A k : SameHelper(k)
    BY <1>2 DEF SameHelper
  <1>13. \A v \in Workers \ {w} : SameWorker(v)
    BY <1>2, <1>3 DEF SameWorker, TypeInv
  <1>14. HelperOf(h)'
    BY <1>0, <1>1, <1>2, <1>5, <1>7 DEF HelperOf
  <1>15. OwnerOf(w)'
    <2>1. ASSUME NEW k \in Helpers  PROVE Current(k)'.owner # w
      BY <1>1, <1>5, <1>9, <2>1, OneJob DEF TypeInv
    <2>2. AssistantOf(w)' # 0
      BY <1>0, <1>1, <1>6 DEF OwnerOf
    <2> QED BY <1>0, <1>3, <2>1, <2>2 DEF OwnerOf, Assisted
  <1>16. WaveletOf(w)'
    <2>1. coeff'[w] = Whole(frame[w])'
      BY <1>2, <1>10 DEF Whole
    <2> QED BY <1>3, <2>1 DEF WaveletOf, Assisted
  <1> QED BY <1>2, <1>11, <1>12, <1>13, <1>14, <1>15, <1>16, Elsewhere

\* A helper at work, and the owner of its job: it waits, or it has failed.
LEMMA AtWork ==
  ASSUME TypeInv, AssistantInv, ~stop_, NEW h \in Helpers, Current(h) # NoJob
  PROVE  \E v \in Workers :
           /\ Current(h).owner = v /\ AssistantOf(v) = h
           /\ \/ pc[v] = "done"
              \/ /\ pc[v] \in Assisted /\ ticket[v] # 0 /\ Served(h, v)
                 /\ next_row[v] \in 1..Rows + 1
                 /\ pc[v] = "publish" => next_row[v] <= Rows
                 /\ pc[v] = "wait" => next_row[v] = Rows + 1 /\ coeff[v].own = frame[v]
  <1>1. HelperOf(h)
    BY DEF AssistantInv
  <1>2. PICK v : v = Current(h).owner
    OBVIOUS
  <1>3. v \in Workers /\ AssistantOf(v) = h
    BY <1>1, <1>2 DEF HelperOf
  <1>4. pc[v] = "done" \/ (pc[v] \in Assisted /\ ticket[v] # 0)
    BY <1>2, <1>3 DEF AssistantInv, OwnerOf
  <1>5. pc[v] \in Assisted /\ ticket[v] # 0 =>
           /\ Served(h, v) /\ next_row[v] \in 1..Rows + 1
           /\ pc[v] = "publish" => next_row[v] <= Rows
           /\ pc[v] = "wait" => next_row[v] = Rows + 1 /\ coeff[v].own = frame[v]
    BY <1>2, <1>3, WaitingOwner
  <1> QED BY <1>2, <1>3, <1>4, <1>5

\* A step of a helper, as far as its owner v goes.
LEMMA HelperStands ==
  ASSUME TypeInv, AssistantInv, ~stop_, UNCHANGED <<o, pc, frame, stop_, ticket, next_row>>,
         NEW h \in Helpers, NEW v \in Workers, AssistantOf(v) = h, Current(h).owner = v,
         (Current(h).owner)' \in {0, v},
         \A k \in Helpers \ {h} : SameHelper(k),
         \A w \in Workers \ {v} : coeff'[w] = coeff[w],
         coeff'[v].own = coeff[v].own,
         completed_seq'[h] >= completed_seq[h],
         AssistantTypes', HelperOf(h)',
         pc[v] # "done" => IF (Current(h).owner)' = v THEN Served(h, v)' ELSE Finished(h, v)'
  PROVE  AssistantInv'
  <1>0. /\ Workers' = Workers /\ Helpers' = Helpers /\ \A w : AssistantOf(w)' = AssistantOf(w)
        /\ h # 0 /\ 0 \notin Workers /\ Assisted' = Assisted
    BY SameNames, WorkerFacts DEF TypeInv, Assisted
  <1>1. /\ \A k \in Helpers : HelperOf(k)
        /\ \A w \in Workers : OwnerOf(w) /\ WaveletOf(w)
    BY DEF AssistantInv
  <1>2. \A w \in Workers \ {v} : SameWorker(w)
    BY DEF SameWorker
  <1>3. ASSUME NEW k \in Helpers, (Current(k).owner)' = v  PROVE Current(k).owner = v
    <2>1. CASE k = h
      BY <2>1
    <2>2. CASE k # h
      <3>1. Current(k)' = Current(k)
        BY <2>2 DEF SameHelper, Current
      <3> QED BY <1>3, <3>1
    <2> QED BY <2>1, <2>2
  <1>4. OwnerOf(v) /\ WaveletOf(v)
    BY <1>1
  <1>5. pc[v] = "done" \/ (pc[v] \in Assisted /\ ticket[v] # 0)
    BY <1>4 DEF OwnerOf
  <1>6. OwnerOf(v)'
    <2>1. \A k \in Helpers : (Current(k).owner)' = v =>
             pc'[v] = "done" \/ (pc'[v] \in Assisted /\ ticket'[v] # 0)
      BY <1>5
    <2> QED BY <1>0, <1>4, <2>1 DEF OwnerOf
  <1>7. WaveletOf(v)'
    <2>1. CASE pc[v] = "done"
      BY <2>1 DEF WaveletOf, Assisted
    <2>2. CASE pc[v] # "done"
      <3>1. pc[v] \in Assisted /\ ticket[v] # 0
        BY <1>5, <2>2
      <3>2. /\ next_row[v] \in 1..Rows + 1
            /\ pc[v] = "publish" => next_row[v] <= Rows
            /\ pc[v] = "wait" => next_row[v] = Rows + 1 /\ coeff[v].own = frame[v]
        BY <3>1, WaitingOwner
      <3>3. AssistantOf(v)' = h
        BY <1>0
      <3>4. /\ Current(AssistantOf(v))' = Current(h)'
            /\ Served(AssistantOf(v), v)' = Served(h, v)'
            /\ Finished(AssistantOf(v), v)' = Finished(h, v)'
        BY <3>3
      <3>5. pc'[v] \notin {"encode", "verify"}
        BY <3>1 DEF Assisted
      <3> QED BY <1>0, <2>2, <3>2, <3>4, <3>5 DEF WaveletOf
    <2> QED BY <2>1, <2>2
  <1> QED BY <1>2, <1>6, <1>7, Elsewhere

LEMMA TakeKeeps ==
  ASSUME TypeInv, AssistantInv, ~stop_, NEW h \in Helpers, HelperTake(h),
         UNCHANGED <<o, pc, frame>>
  PROVE  AssistantInv'
  <1>0. /\ Workers' = Workers /\ Helpers' = Helpers /\ \A w : AssistantOf(w)' = AssistantOf(w)
        /\ Rows \in Nat \ {0} /\ NoJob \in Jobs /\ NoJob' = NoJob
    BY SameNames, RingAssumption DEF NoJob, Jobs
  <1>1. AssistantTypes /\ \A k \in Helpers : HelperOf(k)
    BY DEF AssistantInv
  <1>2. /\ helper[h] = "idle" /\ job[h] # NoJob
        /\ at' = [at EXCEPT ![h] = job[h]] /\ job' = [job EXCEPT ![h] = NoJob]
        /\ helper' = [helper EXCEPT ![h] = "rows"]
        /\ UNCHANGED <<busy, stop_, next_seq, completed_seq, produced, consumed,
                       row_ring, ticket, next_row, coeff>>
    BY DEF HelperTake
  <1>3. Jobs' = Jobs /\ Coefficients' = Coefficients
    BY DEF Jobs, Coefficients
  <1>4. at'[h] = job[h] /\ job'[h] = NoJob /\ helper'[h] = "rows"
    BY <1>1, <1>2 DEF AssistantTypes
  <1>5. Current(h)' = Current(h) /\ Current(h) # NoJob /\ Current(h) = job[h]
    BY <1>2, <1>4 DEF Current
  <1>6. PICK v \in Workers : /\ Current(h).owner = v /\ AssistantOf(v) = h
                             /\ pc[v] = "done" \/ Served(h, v)
    BY <1>5, AtWork
  <1>7. AssistantTypes'
    BY <1>0, <1>1, <1>2, <1>3 DEF AssistantTypes
  <1>8. \A k \in Helpers \ {h} : SameHelper(k)
    BY <1>1, <1>2 DEF SameHelper, AssistantTypes
  <1>9. HelperOf(h)'
    <2>1. HelperOf(h) /\ consumed[h] = 0 /\ consumed[h] # Rows
      BY <1>0, <1>1, <1>2, <1>5 DEF HelperOf
    <2>2. AssistantOf(Current(h).owner)' = AssistantOf(Current(h).owner)
      BY <1>0, <1>5
    <2> QED BY <1>0, <1>2, <1>4, <1>5, <2>1, <2>2 DEF HelperOf
  <1>10. Served(h, v) => Served(h, v)'
    <2>1. \A n : Row(v, n)' = Row(v, n) /\ Place(n)' = Place(n)
      BY DEF Row, Place
    <2> QED BY <1>2, <1>4, <2>1 DEF Served
  <1>11. completed_seq'[h] >= completed_seq[h]
    BY <1>1, <1>2 DEF AssistantTypes
  <1> QED BY <1>2, <1>5, <1>6, <1>7, <1>8, <1>9, <1>10, <1>11, HelperStands

LEMMA PushKeeps ==
  ASSUME TypeInv, AssistantInv, ~stop_, NEW h \in Helpers, HelperPush(h),
         UNCHANGED <<o, pc, frame>>
  PROVE  AssistantInv'
  <1>0. /\ Workers' = Workers /\ Helpers' = Helpers /\ \A w : AssistantOf(w)' = AssistantOf(w)
        /\ Rows \in Nat \ {0}
    BY SameNames, RingAssumption
  <1>1. AssistantTypes /\ \A k \in Helpers : HelperOf(k)
    BY DEF AssistantInv
  <1>2. /\ helper[h] = "rows" /\ produced[h] > consumed[h]
        /\ helper' = [helper EXCEPT ![h] = "pushed"]
        /\ UNCHANGED <<job, at, busy, stop_, next_seq, completed_seq, produced,
                       consumed, row_ring, ticket, next_row>>
    BY DEF HelperPush
  <1>3. Jobs' = Jobs /\ Coefficients' = Coefficients
    BY DEF Jobs, Coefficients
  <1>4. helper'[h] = "pushed"
    BY <1>1, <1>2 DEF AssistantTypes
  <1>5. Current(h)' = Current(h) /\ Current(h) = at[h] /\ Current(h) # NoJob
    BY <1>1, <1>2, <1>4 DEF Current, HelperOf
  <1>6. PICK v \in Workers : /\ Current(h).owner = v /\ AssistantOf(v) = h
                             /\ pc[v] = "done" \/ Served(h, v)
    BY <1>5, AtWork
  <1>7. /\ consumed[h] \in Nat /\ produced[h] \in Nat /\ coeff[v] \in Coefficients
        /\ row_ring[h] \in [0..ring_rows - 1 -> Nat \X Nat]
        /\ coeff \in [Workers -> Coefficients]
    BY <1>1 DEF AssistantTypes
  <1>8. at[h].owner = v /\ at[h].y = consumed[h] + 1 /\ consumed[h] < Rows
    <2>1. HelperOf(h)
      BY <1>1
    <2>2. at[h].y = consumed[h] + 1 /\ consumed[h] <= Rows /\ consumed[h] # Rows
      BY <1>2, <1>5, <2>1 DEF HelperOf
    <2> QED BY <1>0, <1>5, <1>6, <1>7, <2>2
  <1> DEFINE y == consumed[h] + 1
             r == row_ring[h][Place(consumed[h])]
  <1>9. y \in 1..Rows /\ r \in Nat \X Nat
    <2>1. consumed[h] + 1 \in 1..Rows
      BY <1>0, <1>7, <1>8
    <2>2. Place(consumed[h]) \in 0..ring_rows - 1
      BY <1>7, PlaceFacts
    <2>3. row_ring[h][Place(consumed[h])] \in Nat \X Nat
      BY <1>7, <2>2
    <2> QED BY <2>1, <2>3
  <1>10. PICK c \in Coefficients :
           /\ coeff' = [coeff EXCEPT ![v] = c] /\ c.own = coeff[v].own
           /\ c.assisted = [coeff[v].assisted EXCEPT ![y] = r]
    <2> DEFINE c == [coeff[v] EXCEPT !.assisted = [coeff[v].assisted EXCEPT ![y] = r]]
    <2>1. coeff' = [coeff EXCEPT ![v].assisted[y] = r]
      BY <1>8 DEF HelperPush
    <2>2. [coeff[v].assisted EXCEPT ![y] = r] \in [1..Rows -> Nat \X Nat]
      BY <1>7, <1>9 DEF Coefficients
    <2> HIDE DEF y, r
    <2>3. coeff' = [coeff EXCEPT ![v] = c]
      BY <1>7, <2>1
    <2>4. /\ c \in Coefficients /\ c.own = coeff[v].own
          /\ c.assisted = [coeff[v].assisted EXCEPT ![y] = r]
      BY <1>7, <2>2 DEF Coefficients
    <2> QED BY <2>3, <2>4
  <1>11. coeff'[v] = c /\ coeff' \in [Workers -> Coefficients]
         /\ \A w \in Workers \ {v} : coeff'[w] = coeff[w]
    BY <1>7, <1>10
  <1>12. AssistantTypes'
    BY <1>0, <1>1, <1>2, <1>3, <1>11 DEF AssistantTypes
  <1>13. \A k \in Helpers \ {h} : SameHelper(k)
    BY <1>1, <1>2 DEF SameHelper, AssistantTypes
  <1>14. HelperOf(h)'
    <2>1. HelperOf(h)
      BY <1>1
    <2>2. AssistantOf(Current(h).owner)' = AssistantOf(Current(h).owner)
      BY <1>0, <1>5
    <2>3. NoJob' = NoJob /\ consumed[h] # Rows
      BY <1>0, <1>7, <1>8 DEF NoJob
    <2> QED BY <1>0, <1>2, <1>4, <1>5, <2>1, <2>2, <2>3 DEF HelperOf
  <1>15. Served(h, v) => Served(h, v)'
    <2> SUFFICES ASSUME Served(h, v) PROVE Served(h, v)'
      OBVIOUS
    <2>1. \A n : Row(v, n)' = Row(v, n) /\ Place(n)' = Place(n)
      BY DEF Row, Place
    <2>2. r = Row(v, consumed[h])
      BY <1>2, <1>7 DEF Served
    <2>3. coeff[v].assisted \in [1..Rows -> Nat \X Nat]
      BY <1>7 DEF Coefficients
    <2>4. ASSUME NEW n \in Nat, n < Rows, n < consumed[h] \/ n = consumed[h]
          PROVE  coeff'[v].assisted[n + 1] = Row(v, n)
      <3>1. CASE n = consumed[h]
        BY <1>9, <1>10, <1>11, <2>2, <2>3, <3>1
      <3>2. CASE n < consumed[h]
        <4>1. coeff[v].assisted[n + 1] = Row(v, n)
          BY <2>4, <3>2 DEF Served
        <4>2. n + 1 # y /\ n + 1 \in 1..Rows
          BY <1>0, <1>7, <2>4, <3>2
        <4> QED BY <1>10, <1>11, <2>3, <4>1, <4>2
      <3> QED BY <2>4, <3>1, <3>2
    <2>5. consumed[h] < produced[h]
      BY <1>2, <1>7
    <2> HIDE DEF y, r
    <2> QED BY <1>2, <1>4, <2>1, <2>4, <2>5 DEF Served
  <1>16. completed_seq'[h] >= completed_seq[h]
    BY <1>1, <1>2 DEF AssistantTypes
  <1>17. coeff'[v].own = coeff[v].own
    BY <1>10, <1>11
  <1> HIDE DEF y, r
  <1> QED BY <1>2, <1>5, <1>6, <1>11, <1>12, <1>13, <1>14, <1>15, <1>16, <1>17, HelperStands

LEMMA ConsumeKeeps ==
  ASSUME TypeInv, AssistantInv, ~stop_, NEW h \in Helpers, HelperConsume(h),
         UNCHANGED <<o, pc, frame>>
  PROVE  AssistantInv'
  <1>0. /\ Workers' = Workers /\ Helpers' = Helpers /\ \A w : AssistantOf(w)' = AssistantOf(w)
        /\ Rows \in Nat \ {0} /\ NoJob.owner = 0 /\ 0 \notin Workers /\ NoJob' = NoJob
    BY SameNames, RingAssumption, WorkerFacts DEF NoJob, TypeInv
  <1>1. AssistantTypes /\ \A k \in Helpers : HelperOf(k)
    BY DEF AssistantInv
  <1>2. /\ helper[h] = "pushed" /\ consumed' = [consumed EXCEPT ![h] = @ + 1]
        /\ at' = [at EXCEPT ![h].y = @ + 1]
        /\ helper' = [helper EXCEPT ![h] = IF at[h].y = Rows THEN "complete" ELSE "rows"]
        /\ UNCHANGED <<job, busy, stop_, next_seq, completed_seq, produced,
                       row_ring, ticket, next_row, coeff>>
    BY DEF HelperConsume
  <1>3. Jobs' = Jobs /\ Coefficients' = Coefficients
    BY DEF Jobs, Coefficients
  <1>4. at[h] \in Jobs /\ at \in [Helpers -> Jobs] /\ consumed[h] \in Nat /\ produced[h] \in Nat
    BY <1>1 DEF AssistantTypes
  <1>5. Current(h) = at[h] /\ at[h] # NoJob
    BY <1>1, <1>2 DEF Current, HelperOf
  <1>6. PICK v \in Workers : /\ at[h].owner = v /\ AssistantOf(v) = h
                             /\ pc[v] = "done" \/ Served(h, v)
    BY <1>5, AtWork
  <1>7. /\ at[h].y = consumed[h] + 1 /\ consumed[h] < Rows
        /\ at[h].seq = next_seq[h] /\ completed_seq[h] < next_seq[h]
    <2>1. /\ at[h].y = consumed[h] + 1 /\ consumed[h] <= Rows /\ consumed[h] # Rows
          /\ at[h].seq = next_seq[h] /\ completed_seq[h] < next_seq[h]
      BY <1>1, <1>2, <1>5 DEF HelperOf
    <2> QED BY <1>0, <1>4, <2>1
  <1>8. PICK a \in Jobs : /\ at' = [at EXCEPT ![h] = a] /\ a.owner = v
                          /\ a.seq = next_seq[h] /\ a.y = consumed[h] + 2
    <2> DEFINE a == [at[h] EXCEPT !.y = at[h].y + 1]
    <2>1. at' = [at EXCEPT ![h] = a]
      BY <1>2, <1>4
    <2>2. at[h].y + 1 \in Nat /\ at[h].y + 1 = consumed[h] + 2
      BY <1>4, <1>7
    <2>3. a \in Jobs /\ a.owner = at[h].owner /\ a.seq = at[h].seq /\ a.y = at[h].y + 1
      BY <1>4, <2>2 DEF Jobs
    <2> QED BY <1>6, <1>7, <2>1, <2>2, <2>3
  <1>9. at'[h] = a /\ consumed'[h] = consumed[h] + 1
    BY <1>1, <1>2, <1>4, <1>8 DEF AssistantTypes
  <1>10. PICK x \in {"complete", "rows"} : /\ helper' = [helper EXCEPT ![h] = x]
                                           /\ x = "complete" <=> consumed[h] + 1 = Rows
    BY <1>2, <1>7
  <1>11. helper'[h] = x
    BY <1>1, <1>10 DEF AssistantTypes
  <1>12. Current(h)' = a /\ (Current(h).owner)' = v /\ a # NoJob
    BY <1>0, <1>8, <1>9, <1>11 DEF Current
  <1>13. AssistantTypes'
    <2>1. consumed' \in [Helpers -> Nat]
      BY <1>1, <1>2, <1>4 DEF AssistantTypes
    <2>2. at' \in [Helpers -> Jobs]
      BY <1>4, <1>8
    <2>3. helper' \in [Helpers -> {"idle", "rows", "pushed", "complete"}]
      BY <1>1, <1>10 DEF AssistantTypes
    <2> QED BY <1>0, <1>1, <1>2, <1>3, <2>1, <2>2, <2>3 DEF AssistantTypes
  <1>14. \A k \in Helpers \ {h} : SameHelper(k)
    BY <1>1, <1>2 DEF SameHelper, AssistantTypes
  <1>15. HelperOf(h)'
    <2>1. HelperOf(h)
      BY <1>1
    <2>2. /\ helper'[h] # "idle" /\ job'[h] = NoJob' /\ at'[h] # NoJob'
          /\ busy'[h] /\ Current(h)' # NoJob' /\ completed_seq'[h] <= next_seq'[h]
      BY <1>0, <1>2, <1>5, <1>9, <1>11, <1>12, <2>1 DEF HelperOf
    <2>3. /\ (Current(h).owner)' \in Workers' /\ AssistantOf(Current(h).owner)' = h
          /\ (Current(h).seq)' = next_seq'[h] /\ completed_seq'[h] < next_seq'[h]
      BY <1>0, <1>2, <1>6, <1>7, <1>8, <1>12
    <2>4. /\ (Current(h).y)' = consumed'[h] + 1 /\ consumed'[h] <= Rows
          /\ helper'[h] = "complete" <=> consumed'[h] = Rows
      BY <1>0, <1>4, <1>7, <1>8, <1>9, <1>10, <1>11, <1>12
    <2> QED BY <2>2, <2>3, <2>4 DEF HelperOf
  <1>16. Served(h, v) => Served(h, v)'
    <2> SUFFICES ASSUME Served(h, v) PROVE Served(h, v)'
      OBVIOUS
    <2>1. \A n : Row(v, n)' = Row(v, n) /\ Place(n)' = Place(n)
      BY DEF Row, Place
    <2>2. consumed[h] < produced[h] /\ produced[h] - consumed[h] <= ring_rows
      BY <1>2 DEF Served
    <2>3. /\ consumed[h] + 1 <= produced[h] /\ produced[h] - (consumed[h] + 1) <= ring_rows
          /\ produced[h] - consumed[h] < ring_rows => produced[h] - (consumed[h] + 1) < ring_rows
      BY <1>4, <2>2, RingAssumption
    <2>4. ASSUME NEW n \in Nat, n < Rows, n < consumed[h] + 1
          PROVE  coeff[v].assisted[n + 1] = Row(v, n)
      <3>1. n < consumed[h] \/ n = consumed[h]
        BY <1>4, <2>4
      <3> QED BY <1>2, <2>4, <3>1 DEF Served
    <2>5. ASSUME NEW n \in Nat, consumed[h] + 1 <= n, n < produced[h]
          PROVE  row_ring[h][Place(n)] = Row(v, n)
      <3>1. consumed[h] <= n
        BY <1>4, <2>5
      <3> QED BY <2>5, <3>1 DEF Served
    <2>6. helper'[h] # "pushed"
      BY <1>10, <1>11
    <2>7. /\ ticket[v] = next_seq[h] /\ next_row[v] = produced[h] + 1
          /\ pc[v] = "publish" => /\ produced[h] - consumed[h] < ring_rows
                                  /\ row_ring[h][Place(produced[h])] = Row(v, produced[h])
      BY DEF Served
    <2> QED BY <1>2, <1>9, <2>1, <2>3, <2>4, <2>5, <2>6, <2>7 DEF Served
  <1>17. completed_seq'[h] >= completed_seq[h]
    BY <1>1, <1>2 DEF AssistantTypes
  <1> QED BY <1>2, <1>5, <1>6, <1>12, <1>13, <1>14, <1>15, <1>16, <1>17, HelperStands

LEMMA CompleteKeeps ==
  ASSUME TypeInv, AssistantInv, ~stop_, NEW h \in Helpers, HelperComplete(h),
         UNCHANGED <<o, pc, frame>>
  PROVE  AssistantInv'
  <1>0. /\ Workers' = Workers /\ Helpers' = Helpers /\ \A w : AssistantOf(w)' = AssistantOf(w)
        /\ Rows \in Nat \ {0} /\ NoJob.owner = 0 /\ 0 \notin Workers
        /\ NoJob \in Jobs /\ NoJob' = NoJob
    BY SameNames, RingAssumption, WorkerFacts DEF NoJob, TypeInv, Jobs
  <1>1. AssistantTypes /\ \A k \in Helpers : HelperOf(k)
    BY DEF AssistantInv
  <1>2. /\ helper[h] = "complete"
        /\ completed_seq' = [completed_seq EXCEPT ![h] = at[h].seq]
        /\ busy' = [busy EXCEPT ![h] = FALSE]
        /\ at' = [at EXCEPT ![h] = NoJob]
        /\ helper' = [helper EXCEPT ![h] = "idle"]
        /\ UNCHANGED <<job, stop_, next_seq, produced, consumed, row_ring,
                       ticket, next_row, coeff>>
    BY DEF HelperComplete
  <1>3. Jobs' = Jobs /\ Coefficients' = Coefficients
    BY DEF Jobs, Coefficients
  <1>4. /\ consumed[h] \in Nat /\ produced[h] \in Nat /\ next_seq[h] \in Nat
        /\ completed_seq[h] \in Nat
    BY <1>1 DEF AssistantTypes
  <1>5. Current(h) = at[h] /\ at[h] # NoJob /\ job[h] = NoJob
    BY <1>1, <1>2 DEF Current, HelperOf
  <1>6. PICK v \in Workers :
          /\ at[h].owner = v /\ AssistantOf(v) = h
          /\ \/ pc[v] = "done"
             \/ /\ Served(h, v) /\ next_row[v] \in 1..Rows + 1
                /\ pc[v] = "publish" => next_row[v] <= Rows
    BY <1>5, AtWork
  <1>7. consumed[h] = Rows /\ at[h].seq = next_seq[h] /\ completed_seq[h] < next_seq[h]
    BY <1>1, <1>2, <1>5 DEF HelperOf
  <1>8. /\ completed_seq'[h] = next_seq[h] /\ busy'[h] = FALSE /\ at'[h] = NoJob
        /\ helper'[h] = "idle" /\ job'[h] = NoJob
    BY <1>1, <1>2, <1>5, <1>7 DEF AssistantTypes
  <1>9. Current(h)' = NoJob /\ (Current(h).owner)' = 0
    BY <1>0, <1>8 DEF Current
  <1>10. AssistantTypes'
    <2>1. completed_seq' \in [Helpers -> Nat]
      BY <1>1, <1>2, <1>4, <1>7 DEF AssistantTypes
    <2> QED BY <1>0, <1>1, <1>2, <1>3, <2>1 DEF AssistantTypes
  <1>11. \A k \in Helpers \ {h} : SameHelper(k)
    BY <1>1, <1>2 DEF SameHelper, AssistantTypes
  <1>12. HelperOf(h)'
    <2>1. completed_seq'[h] <= next_seq'[h]
      BY <1>2, <1>4, <1>8
    <2> QED BY <1>0, <1>8, <1>9, <2>1 DEF HelperOf
  <1>13. pc[v] # "done" => Finished(h, v)'
    <2> SUFFICES ASSUME pc[v] # "done" PROVE Finished(h, v)'
      OBVIOUS
    <2>1. Served(h, v) /\ next_row[v] \in 1..Rows + 1
          /\ (pc[v] = "publish" => next_row[v] <= Rows)
      BY <1>6
    <2>2. \A n : Row(v, n)' = Row(v, n)
      BY DEF Row
    <2>3. /\ ticket[v] = next_seq[h] /\ next_row[v] = produced[h] + 1
          /\ consumed[h] <= produced[h]
      BY <2>1 DEF Served
    <2>4. next_row[v] = Rows + 1 /\ pc[v] # "publish"
      BY <1>0, <1>4, <1>7, <2>1, <2>3
    <2>5. \A n \in Nat : n < Rows => coeff[v].assisted[n + 1] = Row(v, n)
      BY <1>7, <2>1 DEF Served
    <2>6. ticket'[v] <= completed_seq'[h]
      BY <1>2, <1>4, <1>8, <2>3
    <2> QED BY <1>2, <2>2, <2>4, <2>5, <2>6 DEF Finished
  <1>14. completed_seq'[h] >= completed_seq[h]
    BY <1>4, <1>7, <1>8
  <1>15. pc[v] # "done" => IF (Current(h).owner)' = v THEN Served(h, v)' ELSE Finished(h, v)'
    BY <1>0, <1>9, <1>13
  <1> QED BY <1>2, <1>5, <1>6, <1>9, <1>10, <1>11, <1>12, <1>14, <1>15, HelperStands

\* Nobody starts the assistants again, and the calling thread does not go back.
LEMMA StoppedForGood ==
  ASSUME [Next]_vars
  PROVE  /\ stop_ => stop_'
         /\ main # "running" => main' # "running"
  <1>1. ASSUME NEW w \in Workers, WorkerStep(w) \/ Throw(w)
        PROVE  stop_' = stop_ /\ main' = main
    BY <1>1 DEF WorkerStep, Throw, Start, Assign, NoMoreFrames, Leave_, Rendezvous, Transform,
       Encode, Compare, Settle, TakeTicket, Write, ReturnTicket, Retire, Retire_, waveVars,
       assistantVars, TryBegin, BeginJob, WriteRow, CopyRow, PublishRow, TransformOwn
  <1>2. ASSUME NEW h \in Helpers, Assistant(h)  PROVE stop_' = stop_ /\ main' = main
    BY <1>2 DEF Assistant, HelperStep, HelperTake, HelperPush, HelperConsume, HelperComplete,
       HelperLeave
  <1>3. CASE Retirer \/ RetirerWake \/ UNCHANGED vars
    BY <1>3 DEF Retirer, RetirerTest, RetirerFree, RetirerSleep, RetirerWake, vars, waveVars,
       assistantVars
  <1>4. CASE Main
    BY <1>4 DEF Main, Outcome, StopAssistants, assistantVars
  <1> QED BY <1>1, <1>2, <1>3, <1>4 DEF Next

LEMMA TransformKeeps ==
  ASSUME TypeInv, FramesInv, AssistantInv, ~stop_, NEW w \in Workers, Transform(w)
  PROVE  AssistantInv'
  <1>0. UNCHANGED <<o, frame>> /\ frame[w] \in Nat
    BY DEF Transform, frameVars, FramesInv
  <1>1. CASE pc[w] = "begin" /\ AssistantOf(w) # 0
    <2>1. TryBegin(w, AssistantOf(w)) /\ Goto(w, "rows")
      BY <1>1 DEF Transform
    <2> QED BY <1>0, <1>1, <2>1, BeginKeeps
  <1>2. CASE pc[w] = "rows" /\ ticket[w] # 0 /\ next_row[w] <= Rows
    <2>1. \/ WriteRow(w, AssistantOf(w), frame[w]) /\ Goto(w, "publish")
          \/ /\ next_row[w] > Rows
      BY <1>2 DEF Transform
    <2>2. next_row[w] \in Nat /\ Rows \in Nat
      BY RingAssumption DEF AssistantInv, AssistantTypes
    <2> QED BY <1>0, <1>2, <2>1, <2>2, WriteKeeps
  <1>3. CASE pc[w] = "publish"
    <2>1. PublishRow(w, AssistantOf(w)) /\ Goto(w, "rows")
      BY <1>3 DEF Transform
    <2> QED BY <1>0, <1>3, <2>1, PublishKeeps
  <1>4. CASE \/ pc[w] = "begin" /\ AssistantOf(w) = 0
             \/ pc[w] = "rows" /\ (ticket[w] = 0 \/ next_row[w] > Rows)
    <2>1. next_row[w] \in Nat /\ Rows \in Nat
      BY RingAssumption DEF AssistantInv, AssistantTypes
    <2>2. /\ TransformOwn(w, frame[w])
          /\ Goto(w, IF ticket[w] = 0 THEN "encode" ELSE "wait")
      BY <1>4, <2>1 DEF Transform
    <2> QED BY <1>0, <1>4, <2>2, OwnKeeps
  <1>5. CASE pc[w] = "wait"
    <2>1. Completed(w, AssistantOf(w)) /\ Goto(w, "encode") /\ UNCHANGED assistantVars
      BY <1>5 DEF Transform
    <2> QED BY <1>0, <1>5, <2>1, WaitKeeps
  <1>6. next_row[w] \in Nat /\ Rows \in Nat
    BY RingAssumption DEF AssistantInv, AssistantTypes
  <1>7. \/ pc[w] = "begin" \/ pc[w] = "rows" \/ pc[w] = "publish" \/ pc[w] = "wait"
    BY DEF Transform
  <1> QED BY <1>1, <1>2, <1>3, <1>4, <1>5, <1>6, <1>7

LEMMA AssistantKeeps ==
  ASSUME TypeInv, AssistantInv, ~stop_, NEW h \in Helpers, Assistant(h)
  PROVE  AssistantInv'
  <1>0. UNCHANGED <<o, pc, frame>>
    BY DEF Assistant, frameVars
  <1>1. HelperTake(h) \/ HelperPush(h) \/ HelperConsume(h) \/ HelperComplete(h)
    BY DEF Assistant, HelperStep, HelperLeave
  <1> QED BY <1>0, <1>1, TakeKeeps, PushKeeps, ConsumeKeeps, CompleteKeeps

LEMMA AssistantInvNext ==
  ASSUME TypeInv, FramesInv, AssistantInv, [Next]_vars
  PROVE  AssistantInv'
  <1>0. o' = o
    BY SameOptions
  <1>1. CASE stop_
    BY <1>1, StoppedForGood DEF AssistantInv
  <1>2. CASE ~stop_
    <2>1. ASSUME NEW w \in Workers,
                 \/ Start(w) \/ Assign(w) \/ NoMoreFrames(w) \/ Throw(w) \/ Rendezvous(w)
                 \/ Encode(w) \/ Compare(w) \/ TakeTicket(w) \/ Write(w) \/ ReturnTicket(w)
                 \/ Retire(w)
          PROVE  AssistantInv'
      <3>1. PICK x \in WorkerPlaces :
              /\ pc' = [pc EXCEPT ![w] = x]
              /\ x \notin Assisted /\ pc[w] # "done"
              /\ pc[w] \in Assisted => x = "done"
              /\ x \in {"encode", "verify"} => pc[w] \in {"encode", "verify"} /\ frame' = frame
              /\ \A v \in Workers : v # w => frame'[v] = frame[v]
        <4>1. CASE Start(w)
          BY <4>1 DEF Start, Goto, frameVars, WorkerPlaces, Assisted
        <4>2. CASE Assign(w)
          <5>1. PICK x \in {"arrive", "begin"} : pc' = [pc EXCEPT ![w] = x]
            BY <4>2 DEF Assign, Goto
          <5>2. pc[w] = "assign" /\ frame' = [frame EXCEPT ![w] = next_frame + 1]
            BY <4>2 DEF Assign
          <5>3. \A v \in Workers : v # w => frame'[v] = frame[v]
            BY <5>2 DEF FramesInv
          <5> QED BY <5>1, <5>2, <5>3 DEF WorkerPlaces, Working, Assisted
        <4>3. CASE NoMoreFrames(w)
          BY <4>3 DEF NoMoreFrames, Leave_, Goto, frameVars, WorkerPlaces, Assisted
        <4>4. CASE Throw(w)
          BY <4>4 DEF Throw, Leave_, Goto, frameVars, WorkerPlaces, Assisted
        <4>5. CASE Rendezvous(w)
          BY <4>5 DEF Rendezvous, Goto, frameVars, WorkerPlaces, Working, Assisted
        <4>6. CASE Encode(w)
          BY <4>6 DEF Encode, Goto, Afterwards, frameVars, WorkerPlaces, Working, Assisted
        <4>7. CASE Compare(w)
          BY <4>7 DEF Compare, Settle, Goto, Afterwards, frameVars, WorkerPlaces, Working,
             Assisted
        <4>8. CASE TakeTicket(w) \/ Write(w) \/ ReturnTicket(w)
          BY <4>8 DEF TakeTicket, Write, ReturnTicket, Goto, frameVars, WorkerPlaces, Working,
             Assisted
        <4>9. CASE Retire(w)
          BY <4>9 DEF Retire, Retire_, Goto, WorkerPlaces, Assisted
        <4> QED BY <2>1, <4>1, <4>2, <4>3, <4>4, <4>5, <4>6, <4>7, <4>8, <4>9
      <3>2. UNCHANGED assistantVars
        BY <2>1 DEF Start, Assign, NoMoreFrames, Throw, Leave_, Rendezvous, Encode, Compare,
           Settle, TakeTicket, Write, ReturnTicket, Retire, Retire_, waveVars
      <3>3. pc'[w] = x /\ \A v \in Workers : v # w => pc'[v] = pc[v]
        BY <3>1 DEF TypeInv
      <3>4. ASSUME NEW v \in Workers
            PROVE  /\ pc'[v] \in Assisted => pc'[v] = pc[v] /\ frame'[v] = frame[v]
                   /\ pc[v] \in Assisted \cup {"done"} => pc'[v] \in {pc[v], "done"}
                   /\ pc'[v] \in {"encode", "verify"} =>
                        pc[v] \in {"encode", "verify"} /\ frame'[v] = frame[v]
        BY <3>1, <3>3
      <3> QED BY <1>0, <1>2, <3>2, <3>4, AssistantsStand
    <2>2. CASE \E w \in Workers : Transform(w)
      BY <1>2, <2>2, TransformKeeps
    <2>3. CASE \E h \in Helpers : Assistant(h)
      BY <1>2, <2>3, AssistantKeeps
    <2>4. CASE Retirer \/ RetirerWake \/ UNCHANGED vars
      <3>1. UNCHANGED assistantVars /\ UNCHANGED <<pc, frame>>
        BY <2>4 DEF Retirer, RetirerTest, RetirerFree, RetirerSleep, RetirerWake, vars,
           waveVars, frameVars
      <3> QED BY <1>0, <1>2, <3>1, AssistantsStand
    <2>5. CASE Main
      <3>1. UNCHANGED <<pc, frame>>
        BY <2>5 DEF Main, frameVars
      <3>2. CASE UNCHANGED assistantVars
        BY <1>0, <1>2, <3>1, <3>2, AssistantsStand
      <3>3. CASE main' = "stopped" /\ StopAssistants
        BY <3>3 DEF StopAssistants, AssistantInv
      <3> QED BY <2>5, <3>2, <3>3 DEF Main
    <2> QED BY <2>1, <2>2, <2>3, <2>4, <2>5, StepCases DEF Inner, Aside
  <1> QED BY <1>1, <1>2

LEMMA AssistantInductive == Spec => [](TypeInv /\ FramesInv /\ AssistantInv)
  <1>1. Init => TypeInv /\ FramesInv /\ AssistantInv
    BY TypeInvInit, FramesInvInit, AssistantInvInit
  <1>2. TypeInv /\ FramesInv /\ AssistantInv /\ [Next]_vars => (TypeInv /\ FramesInv /\ AssistantInv)'
    BY TypeInvNext, FramesInvNext, AssistantInvNext
  <1> QED BY <1>1, <1>2, PTL DEF Spec

\* EncodesWholeFrame: a worker encodes the coefficients of its own frame, of
\* every plane and row, and its assistant has done with them (the ring and the
\* hand-over of rows between a worker and its WaveletPlaneAssistant).
THEOREM WholeFramesAreEncoded == Spec => []EncodesWholeFrame
  <1>1. TypeInv /\ FramesInv /\ AssistantInv => EncodesWholeFrame
    <2> SUFFICES ASSUME TypeInv, FramesInv, AssistantInv,
                        NEW w \in Workers, pc[w] \in {"encode", "verify"}
                 PROVE  /\ coeff[w] = Whole(frame[w])
                        /\ \A h \in Helpers : at[h].owner # w /\ job[h].owner # w
      BY DEF EncodesWholeFrame
    <2>1. ~stop_
      BY DEF AssistantInv, FramesInv
    <2>2. coeff[w] = Whole(frame[w])
      BY <2>1 DEF AssistantInv, WaveletOf
    <2>3. ASSUME NEW h \in Helpers  PROVE at[h].owner # w /\ job[h].owner # w
      <3>1. HelperOf(h) /\ NoJob.owner # w
        BY <2>1, WorkerFacts DEF AssistantInv, TypeInv, NoJob
      <3>2. Current(h).owner # w
        BY <2>1, NoJobOfMine DEF Assisted
      <3> QED BY <3>1, <3>2 DEF HelperOf, Current
    <2> QED BY <2>2, <2>3
  <1> QED BY <1>1, AssistantInductive, PTL
=============================================================================
