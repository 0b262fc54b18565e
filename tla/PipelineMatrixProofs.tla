------------------------- MODULE PipelineMatrixProofs -------------------------
(***************************************************************************)
(* Proofs about the library and its clients (PipelineMatrix), for any      *)
(* number of encoders, blocks, sizes and settings.                         *)
(***************************************************************************)
EXTENDS PipelineMatrix, FiniteSetTheorems, TLAPS

BlockStates == [kind : {"free", "container", "output"}, frame : Nat]

Labels == {"absent", "creating", "idle", "fill", "read", "wavelet", "arm", "vc5",
           "wrap", "sdk"}

OwnershipTypeOK ==
    /\ inplace_buf_ \in [Encoders -> Blocks \cup {Nil}]
    /\ inplace_pending_ \in [Encoders -> BOOLEAN]
    /\ pool_buf_ \in [Encoders -> Blocks \cup {Nil}]
    /\ pool_last_out_ \in [Encoders -> Blocks \cup {Nil}]
    /\ held \in [Encoders -> SUBSET Blocks]
    /\ pc \in [Encoders -> Labels]
    /\ frame \in [Encoders -> Nat]
    /\ heap \in [Blocks -> BlockStates]

\* An encoder has armed a container as long as it has one to fill.
PendingIsArmed ==
    \A e \in Encoders : inplace_pending_[e] <=> inplace_buf_[e] # Nil

\* What an encode that fails leaves in inplace_buf_ is the one way to come to
\* the next frame with a container in it.
LeftByFailure ==
    ~failedHolding => \A e \in Encoders :
                          inplace_buf_[e] # Nil => pc[e] \in {"vc5", "wrap"}

\* OneHolder, hand by hand.
Apart ==
    /\ \A e \in Encoders : inplace_buf_[e] # Nil =>
           /\ inplace_buf_[e] # pool_buf_[e]
           /\ \A f \in Encoders : inplace_buf_[e] \notin held[f]
           /\ \A f \in Encoders : e # f => /\ inplace_buf_[e] # inplace_buf_[f]
                                           /\ inplace_buf_[e] # pool_buf_[f]
    /\ \A e \in Encoders : pool_buf_[e] # Nil =>
           /\ \A f \in Encoders : pool_buf_[e] \notin held[f]
           /\ \A f \in Encoders : e # f => pool_buf_[e] # pool_buf_[f]
    /\ \A e \in Encoders : \A b \in held[e] :
           \A f \in Encoders : e # f => b \notin held[f]

\* RetainedFits, hand by hand, and nobody holds a free block.
Fitting ==
    /\ \A e \in Encoders : inplace_buf_[e] # Nil =>
           heap[inplace_buf_[e]].kind = "container"
    /\ \A e \in Encoders : pool_buf_[e] # Nil => heap[pool_buf_[e]].kind = "container"
    /\ \A e \in Encoders : pool_last_out_[e] # Nil =>
           /\ heap[pool_last_out_[e]].kind = "container"
           /\ pool_last_out_[e] \in held[e]
    /\ \A e \in Encoders : \A b \in held[e] : heap[b].kind # "free"

Found(b) == \E e \in Encoders :
                inplace_buf_[e] = b \/ pool_buf_[e] = b \/ b \in held[e]

\* NothingLost, hand by hand.
AllFound == ~failedHolding => \A b \in Blocks : heap[b] # Free => Found(b)

OwnershipInv ==
    /\ OwnershipTypeOK /\ PendingIsArmed /\ LeftByFailure
    /\ Apart /\ Fitting /\ AllFound

-----------------------------------------------------------------------------
LEMMA FreeBlock ==
    /\ Free \in BlockStates
    /\ Free.kind = "free"
  BY DEF Free, BlockStates

LEMMA WrappedBlock ==
    ASSUME OwnershipTypeOK, NEW e \in Encoders
    PROVE  Wrapped(e) \in BlockStates /\ Wrapped(e).kind = "output"
  <1>1. frame[e] \in Nat
    BY DEF OwnershipTypeOK
  <1> QED BY <1>1 DEF Wrapped, BlockStates

LEMMA OwnershipInit == Init => OwnershipInv
  <1> SUFFICES ASSUME Init PROVE OwnershipInv
    OBVIOUS
  <1> USE LibraryAssumption DEF Init, LibraryInit
  <1>1. OwnershipTypeOK
    BY FreeBlock DEF OwnershipTypeOK, Labels
  <1>2. PendingIsArmed /\ LeftByFailure
    BY DEF PendingIsArmed, LeftByFailure
  <1>3. Apart /\ Fitting /\ AllFound
    BY DEF Apart, Fitting, AllFound
  <1> QED BY <1>1, <1>2, <1>3 DEF OwnershipInv

LEMMA OwnershipHands ==
    ASSUME OwnershipInv
    PROVE  Accounted /\ RetainedFits
  <1> USE LibraryAssumption DEF OwnershipInv, OwnershipTypeOK
  <1>1. \A e \in Encoders : \A b \in Blocks :
            b \in Owned(e) <=> inplace_buf_[e] = b \/ pool_buf_[e] = b \/ b \in held[e]
    BY DEF Owned, Retained
  <1>2. \A e \in Encoders : Owned(e) \subseteq Blocks
    BY DEF Owned, Retained
  <1>3. \A e \in Encoders : \A b \in Owned(e) : heap[b] # Free
    BY <1>1, <1>2, FreeBlock DEF Fitting
  <1>4. \A e, f \in Encoders : e # f => Owned(e) \cap Owned(f) = {}
    BY <1>1, <1>2 DEF Apart
  <1>5. OneHolder
    BY <1>3, <1>4 DEF Apart, OneHolder, Retained
  <1>6. RetainedFits
    BY DEF RetainedFits, Retained, Fitting
  <1>7. NothingLost
    BY <1>1 DEF NothingLost, AllFound, Found
  <1> QED BY <1>5, <1>6, <1>7 DEF Accounted

-----------------------------------------------------------------------------
(* The steps that leave the blocks alone                                   *)

\* A step that keeps the blocks and their owners keeps the invariant, when no
\* encoder leaves the two places at which it may have one armed.
LEMMA BlocksUntouched ==
    ASSUME OwnershipInv,
           UNCHANGED <<ownership, heap, failedHolding>>,
           frame' \in [Encoders -> Nat], pc' \in [Encoders -> Labels],
           LeftByFailure'
    PROVE  OwnershipInv'
  <1> USE DEF OwnershipInv, ownership
  <1>1. OwnershipTypeOK'
    BY DEF OwnershipTypeOK
  <1>2. PendingIsArmed' /\ Apart' /\ Fitting' /\ AllFound'
    BY DEF PendingIsArmed, Apart, Fitting, AllFound, Found
  <1> QED BY <1>1, <1>2

LEMMA QuietSteps ==
    ASSUME OwnershipInv, NEW e \in Encoders,
           \/ \E c \in Settings \cup {Off} : Create(e, c)
           \/ Created(e) \/ Encode(e) \/ FillTable(e) \/ ReadLevers(e)
           \/ Wavelet(e) \/ WaveletFails(e) \/ NotArmed(e) \/ WrapBySdk(e)
    PROVE  OwnershipInv'
  <1> USE DEF OwnershipInv, OwnershipTypeOK, Labels
  <1>1. UNCHANGED <<ownership, heap, failedHolding>>
    BY DEF Create, Created, Encode, FillTable, ReadLevers, Wavelet, WaveletFails,
           NotArmed, WrapBySdk
  <1>2. frame' \in [Encoders -> Nat]
    BY DEF Create, Created, Encode, FillTable, ReadLevers, Wavelet, WaveletFails,
           NotArmed, WrapBySdk
  <1>3. \/ /\ pc[e] \notin {"vc5", "wrap"}
           /\ \E label \in Labels : pc' = [pc EXCEPT ![e] = label]
        \/ /\ inplace_buf_[e] = Nil
           /\ pc' = [pc EXCEPT ![e] = "sdk"]
    <2>1. CASE \E c \in Settings \cup {Off} : Create(e, c)
      BY <2>1 DEF Create, Goto
    <2>2. CASE Created(e) \/ Encode(e) \/ FillTable(e) \/ ReadLevers(e)
               \/ Wavelet(e) \/ WaveletFails(e) \/ NotArmed(e)
      BY <2>2 DEF Created, Encode, FillTable, ReadLevers, Wavelet, WaveletFails,
                  NotArmed, Goto, Throw
    <2>3. CASE WrapBySdk(e)
      BY <2>3 DEF WrapBySdk, Goto, PendingIsArmed
    <2> QED BY <2>1, <2>2, <2>3
  <1>4. pc' \in [Encoders -> Labels]
    BY <1>3
  <1>5. LeftByFailure'
    BY <1>1, <1>3 DEF LeftByFailure, ownership
  <1> QED BY <1>1, <1>2, <1>4, <1>5, BlocksUntouched

-----------------------------------------------------------------------------
(* The steps that hand blocks over                                         *)

LEMMA DestroyOwnership ==
    ASSUME OwnershipInv, NEW e \in Encoders, Destroy(e)
    PROVE  OwnershipInv'
  <1> USE LibraryAssumption DEF OwnershipInv, OwnershipTypeOK, Labels, Destroy, Goto, Without
  <1>1. OwnershipTypeOK'
    BY FreeBlock
  <1>2. PendingIsArmed' /\ LeftByFailure'
    BY DEF PendingIsArmed, LeftByFailure
  <1>3. Apart'
    BY DEF Apart
  <1>4. Fitting'
    BY DEF Fitting, Apart
  <1>5. AllFound'
    BY DEF AllFound, Found
  <1> QED BY <1>1, <1>2, <1>3, <1>4, <1>5

LEMMA ArmOwnership ==
    ASSUME OwnershipInv, NEW e \in Encoders,
           ArmPooled(e) \/ ArmLeft(e)
    PROVE  OwnershipInv'
  <1> USE LibraryAssumption DEF OwnershipInv, OwnershipTypeOK, Labels, Goto, Taken,
                                ArmPooled, ArmLeft
  <1>1. OwnershipTypeOK'
    OBVIOUS
  <1>2. PendingIsArmed' /\ LeftByFailure'
    BY DEF PendingIsArmed, LeftByFailure
  <1>3. Apart'
    BY DEF Apart
  <1>4. Fitting'
    BY DEF Fitting
  <1>5. AllFound'
    BY DEF AllFound, Found, LeftByFailure
  <1> QED BY <1>1, <1>2, <1>3, <1>4, <1>5

LEMMA ArmFreshOwnership ==
    ASSUME OwnershipInv, NEW e \in Encoders, ArmFresh(e)
    PROVE  OwnershipInv'
  <1> USE LibraryAssumption DEF OwnershipInv, OwnershipTypeOK, Labels, Goto
  <1>1. CASE UNCHANGED <<heap, inplace_buf_, inplace_pending_>>
    BY <1>1, BlocksUntouched DEF ArmFresh, ownership, LeftByFailure
  <1>2. ASSUME NEW b \in Blocks, heap[b] = Free,
               heap' = [heap EXCEPT ![b] = [kind |-> "container", frame |-> 0]],
               inplace_buf_' = [inplace_buf_ EXCEPT ![e] = b],
               inplace_pending_' = [inplace_pending_ EXCEPT ![e] = TRUE]
        PROVE  OwnershipInv'
    <2> USE <1>2 DEF ArmFresh
    <2>0. [kind |-> "container", frame |-> 0] \in BlockStates
      BY DEF BlockStates
    <2>1. OwnershipTypeOK'
      BY <2>0
    <2>2. PendingIsArmed' /\ LeftByFailure'
      BY DEF PendingIsArmed, LeftByFailure
    <2>3. ~Found(b)
      BY FreeBlock DEF Found, Fitting
    <2>4. Apart'
      BY <2>3 DEF Apart, Found
    <2>5. Fitting'
      BY <2>3 DEF Fitting, Found
    <2>6. AllFound'
      BY DEF AllFound, Found
    <2> QED BY <2>1, <2>2, <2>4, <2>5, <2>6
  <1> QED BY <1>1, <1>2 DEF ArmFresh

LEMMA Vc5Ownership ==
    ASSUME OwnershipInv, NEW e \in Encoders, Vc5(e)
    PROVE  OwnershipInv'
  <1> USE LibraryAssumption DEF OwnershipInv, OwnershipTypeOK, Labels
  <1>0. pc' \in [Encoders -> Labels] /\ UNCHANGED <<ownership, frame>>
    BY DEF Vc5, Goto, Throw
  <1>1. LeftByFailure'
    <2>1. CASE pc' = [pc EXCEPT ![e] = "wrap"] /\ failedHolding' = failedHolding
      BY <1>0, <2>1 DEF LeftByFailure, ownership
    <2>2. CASE pc' = [pc EXCEPT ![e] = "idle"]
               /\ failedHolding' = (failedHolding \/ inplace_pending_[e])
      BY <1>0, <2>2 DEF LeftByFailure, ownership, PendingIsArmed
    <2> QED BY <2>1, <2>2 DEF Vc5, Goto, Throw
  <1>2. failedHolding => failedHolding'
    BY DEF Vc5
  <1>3. CASE ~inplace_pending_[e]
    <2>1. heap' = heap
      BY <1>3 DEF Vc5
    <2> QED BY <1>0, <1>1, <1>2, <2>1 DEF PendingIsArmed, Apart, Fitting, AllFound,
                                         Found, ownership
  <1>4. CASE inplace_pending_[e]
    <2>1. inplace_buf_[e] \in Blocks /\ heap[inplace_buf_[e]].kind = "container"
      BY <1>4 DEF PendingIsArmed, Fitting
    <2>2. heap' = [heap EXCEPT ![inplace_buf_[e]].frame = frame[e]]
      BY <1>4 DEF Vc5
    <2>3. /\ heap' \in [Blocks -> BlockStates]
          /\ \A b \in Blocks : heap'[b].kind = heap[b].kind
          /\ \A b \in Blocks \ {inplace_buf_[e]} : heap'[b] = heap[b]
      BY <2>1, <2>2 DEF BlockStates
    <2>4. OwnershipTypeOK' /\ PendingIsArmed' /\ Apart'
      BY <1>0, <2>3 DEF PendingIsArmed, Apart, ownership
    <2>5. Fitting'
      BY <1>0, <2>3 DEF Fitting, ownership
    <2>6. AllFound'
      BY <1>0, <1>2, <2>3 DEF AllFound, Found, ownership
    <2> QED BY <1>1, <2>4, <2>5, <2>6
  <1> QED BY <1>3, <1>4

LEMMA WrapInPlaceOwnership ==
    ASSUME OwnershipInv, NEW e \in Encoders, WrapInPlace(e)
    PROVE  OwnershipInv'
  <1> USE LibraryAssumption DEF OwnershipInv, OwnershipTypeOK, Labels, WrapInPlace,
                                Deliver, Emptied, Goto
  <1>0. inplace_buf_[e] \in Blocks
    BY DEF PendingIsArmed
  <1>1. OwnershipTypeOK'
    BY <1>0
  <1>2. PendingIsArmed' /\ LeftByFailure'
    BY DEF PendingIsArmed, LeftByFailure
  <1>3. Apart'
    BY <1>0 DEF Apart
  <1>4. Fitting'
    BY <1>0 DEF Fitting
  <1>5. AllFound'
    BY DEF AllFound, Found
  <1> QED BY <1>1, <1>2, <1>3, <1>4, <1>5

LEMMA WrapDriftedOwnership ==
    ASSUME OwnershipInv, NEW e \in Encoders, WrapDrifted(e)
    PROVE  OwnershipInv'
  <1> USE LibraryAssumption DEF OwnershipInv, OwnershipTypeOK, Labels, Goto, Without
  <1>0. inplace_buf_[e] \in Blocks
    BY DEF WrapDrifted, PendingIsArmed
  <1>1. ASSUME NEW b \in Blocks, heap[b] = Free,
               heap' = [Without(Dropped(e)) EXCEPT ![b] = Wrapped(e)], Deliver(e, b)
        PROVE  OwnershipInv'
    <2> USE <1>0, <1>1 DEF WrapDrifted, Deliver, Dropped
    <2>1. OwnershipTypeOK'
      BY FreeBlock, WrappedBlock
    <2>2. PendingIsArmed' /\ LeftByFailure'
      BY DEF PendingIsArmed, LeftByFailure
    <2>3. ~Found(b) /\ b # inplace_buf_[e]
      BY FreeBlock DEF Found, Fitting
    <2>4. Apart'
      BY <2>3 DEF Apart, Found
    <2>5. /\ heap'[b].kind = "output"
          /\ \A c \in Blocks \ {b, inplace_buf_[e]} : heap'[c] = heap[c]
      BY WrappedBlock
    <2>6. /\ held' = [held EXCEPT ![e] = @ \cup {b}]
          /\ inplace_buf_' = [inplace_buf_ EXCEPT ![e] = Nil]
          /\ UNCHANGED <<pool_buf_, pool_last_out_>>
      OBVIOUS
    <2>7. Fitting'
      <3> HIDE <1>1 DEF WrapDrifted, Deliver, Dropped, Without, Goto
      <3>1. \A f \in Encoders : /\ inplace_buf_[e] \notin held[f]
                                /\ inplace_buf_[e] # pool_buf_[f]
                                /\ f # e => inplace_buf_[f] # inplace_buf_[e]
        BY DEF Apart
      <3>2. \A f \in Encoders : pool_last_out_[f] # Nil =>
                pool_last_out_[f] \in Blocks \ {b, inplace_buf_[e]}
        BY <2>3, <3>1 DEF Fitting, Found
      <3>3. \A f \in Encoders : \A c \in held'[f] : heap'[c].kind # "free"
        BY <2>3, <2>5, <2>6, <3>1 DEF Fitting, Found
      <3> QED BY <2>3, <2>5, <2>6, <3>1, <3>2, <3>3 DEF Fitting, Found
    <2>8. AllFound'
      BY <2>3 DEF AllFound, Found
    <2> QED BY <2>1, <2>2, <2>4, <2>7, <2>8
  <1>2. CASE heap' = Without(Dropped(e)) /\ Throw(e) /\ UNCHANGED held
    <2> USE <1>0, <1>2 DEF WrapDrifted, Throw, Dropped
    <2>1. OwnershipTypeOK'
      BY FreeBlock
    <2>2. PendingIsArmed' /\ LeftByFailure'
      BY DEF PendingIsArmed, LeftByFailure
    <2>3. Apart' /\ Fitting'
      BY DEF Apart, Fitting
    <2>4. AllFound'
      BY DEF AllFound, Found
    <2> QED BY <2>1, <2>2, <2>3, <2>4
  <1> QED BY <1>1, <1>2 DEF WrapDrifted

LEMMA OutputOwnership ==
    ASSUME OwnershipInv, NEW e \in Encoders, WrapSpliced(e) \/ Sdk(e)
    PROVE  OwnershipInv'
  <1> USE LibraryAssumption DEF OwnershipInv, OwnershipTypeOK, Labels, Goto
  <1>0. /\ Output(e) \/ Orphan(e)
        /\ UNCHANGED <<frame, inplace_buf_, inplace_pending_, pool_buf_,
                       pool_last_out_>>
        /\ pc[e] = "sdk" \/ inplace_buf_[e] = Nil
    BY DEF WrapSpliced, Sdk, PendingIsArmed
  <1>1. ASSUME NEW b \in Blocks, Fresh(e, b), Deliver(e, b),
               UNCHANGED failedHolding
        PROVE  OwnershipInv'
    <2> USE <1>0, <1>1 DEF Deliver, Fresh
    <2>1. OwnershipTypeOK'
      BY WrappedBlock
    <2>2. PendingIsArmed' /\ LeftByFailure'
      BY DEF PendingIsArmed, LeftByFailure
    <2>3. ~Found(b)
      BY FreeBlock DEF Found, Fitting
    <2>4. Apart'
      BY <2>3 DEF Apart, Found
    <2>5. /\ heap'[b].kind = "output"
          /\ \A c \in Blocks \ {b} : heap'[c] = heap[c]
      BY WrappedBlock
    <2>6. Fitting'
      BY <2>3, <2>5 DEF Fitting, Found
    <2>7. AllFound'
      BY <2>3 DEF AllFound, Found
    <2> QED BY <2>1, <2>2, <2>4, <2>6, <2>7
  <1>2. CASE Throw(e) /\ UNCHANGED <<heap, held, failedHolding>>
    <2>1. LeftByFailure' /\ pc' \in [Encoders -> Labels]
      BY <1>0, <1>2 DEF Throw, LeftByFailure
    <2> QED BY <1>0, <1>2, <2>1, BlocksUntouched DEF ownership
  <1>3. CASE Orphan(e)
    <2> USE <1>0, <1>3 DEF Orphan, Throw
    <2>0. PICK b \in Blocks : Fresh(e, b)
      OBVIOUS
    <2> USE <2>0 DEF Fresh
    <2>1. OwnershipTypeOK'
      BY WrappedBlock
    <2>2. PendingIsArmed' /\ LeftByFailure' /\ AllFound'
      BY DEF PendingIsArmed, LeftByFailure, AllFound
    <2>3. ~Found(b)
      BY FreeBlock DEF Found, Fitting
    <2>4. Apart'
      BY DEF Apart
    <2>5. \A c \in Blocks \ {b} : heap'[c] = heap[c]
      OBVIOUS
    <2>6. Fitting'
      BY <2>3, <2>5 DEF Fitting, Found
    <2> QED BY <2>1, <2>2, <2>4, <2>6
  <1> QED BY <1>0, <1>1, <1>2, <1>3 DEF Output

LEMMA ReleaseOwnership ==
    ASSUME OwnershipInv, NEW e \in Encoders, NEW b \in Blocks, Release(e, b)
    PROVE  OwnershipInv'
  <1> USE LibraryAssumption DEF OwnershipInv, OwnershipTypeOK, Labels, Release,
                                Recognised, Without
  <1>1. OwnershipTypeOK'
    BY FreeBlock
  <1>2. PendingIsArmed' /\ LeftByFailure'
    BY DEF PendingIsArmed, LeftByFailure
  <1>3. Apart'
    BY DEF Apart
  <1>4. Fitting'
    BY DEF Fitting, Apart
  <1>5. AllFound'
    BY DEF AllFound, Found
  <1> QED BY <1>1, <1>2, <1>3, <1>4, <1>5

-----------------------------------------------------------------------------
(* The specification                                                       *)

\* A step of the specification is one of the library's or leaves it alone.
LEMMA StepOfLibrary ==
    ASSUME OwnershipInv, worker \in Nat \ {0}, [Next]_vars
    PROVE  \/ UNCHANGED libraryVars
           \/ \E e \in Encoders :
                \/ \E c \in Settings \cup {Off} : Create(e, c)
                \/ Destroy(e) \/ Encode(e) \/ Proceed(e)
                \/ \E b \in Blocks : Release(e, b)
  <1> USE WorkersAssumption
  <1>1. CASE UNCHANGED vars
    BY <1>1 DEF vars
  <1>2. CASE MainSteps
    BY <1>2 DEF MainSteps, CreateNext, CreateReturned, StartThreads, StartNext,
                StopThreads, JoinThreads, DestroyNext, Return, Main
  <1>3. CASE \E e \in Encoders : Camera(e)
    BY <1>3 DEF Camera
  <1>4. CASE \E e \in Encoders : Call(e)
    BY <1>4 DEF Call
  <1>5. CASE \E e \in Encoders : WorkerSteps(e)
    <2>1. PICK e \in Encoders : WorkerSteps(e)
      BY <1>5
    <2>2. CASE EncodeFrame(e)
      BY <2>2 DEF EncodeFrame
    <2>3. CASE ReleaseFrame(e)
      BY <2>3 DEF ReleaseFrame, OwnershipInv, OwnershipTypeOK
    <2>4. CASE Leave(e) \/ Failed(e) \/ LoadWav(e) \/ ExchangeWav(e) \/ LoadEnt(e)
               \/ ExchangeEnt(e)
      <3>1. UNCHANGED libraryVars
        BY <2>4, Zenon DEF Leave, Failed, LoadWav, ExchangeWav, LoadEnt, ExchangeEnt
      <3> QED BY <3>1
    <2> QED BY <2>1, <2>2, <2>3, <2>4 DEF WorkerSteps
  <1> QED BY <1>1, <1>2, <1>3, <1>4, <1>5 DEF Next

LEMMA WorkerIndex ==
    ASSUME [Next]_vars, worker \in Nat \ {0}
    PROVE  worker' \in Nat \ {0}
  <1>1. CASE MainSteps
    <2>1. worker' \in {worker, worker + 1, 1}
      BY <1>1, Zenon DEF MainSteps, CreateNext, CreateReturned, StartThreads, StartNext,
                         StopThreads, JoinThreads, DestroyNext, Return
    <2> QED BY <2>1
  <1>2. CASE \E e \in Encoders : Camera(e) \/ Call(e)
    BY <1>2 DEF Camera, Call, mainVars
  <1>3. CASE \E e \in Encoders : WorkerSteps(e)
    BY <1>3 DEF WorkerSteps, EncodeFrame, Leave, Failed, LoadWav, ExchangeWav, LoadEnt,
                ExchangeEnt, ReleaseFrame, Worker, mainVars
  <1>4. CASE UNCHANGED vars
    BY <1>4 DEF vars, mainVars
  <1> QED BY <1>1, <1>2, <1>3, <1>4 DEF Next

LEMMA OwnershipStep ==
    ASSUME OwnershipInv, worker \in Nat \ {0}, [Next]_vars
    PROVE  OwnershipInv'
  <1>1. CASE UNCHANGED libraryVars
    <2>1. UNCHANGED <<ownership, heap, failedHolding, frame, pc>>
      BY <1>1 DEF libraryVars
    <2>2. LeftByFailure'
      BY <2>1 DEF OwnershipInv, LeftByFailure, ownership
    <2> QED BY <2>1, <2>2, BlocksUntouched DEF OwnershipInv, OwnershipTypeOK
  <1>2. ASSUME NEW e \in Encoders, Proceed(e)
        PROVE  OwnershipInv'
    BY <1>2, QuietSteps, ArmOwnership, ArmFreshOwnership, Vc5Ownership,
       WrapInPlaceOwnership, WrapDriftedOwnership, OutputOwnership DEF Proceed
  <1>3. ASSUME NEW e \in Encoders,
               Encode(e) \/ \E c \in Settings \cup {Off} : Create(e, c)
        PROVE  OwnershipInv'
    BY <1>3, QuietSteps
  <1>4. ASSUME NEW e \in Encoders, Destroy(e) \/ \E b \in Blocks : Release(e, b)
        PROVE  OwnershipInv'
    BY <1>4, DestroyOwnership, ReleaseOwnership
  <1> QED BY <1>1, <1>2, <1>3, <1>4, StepOfLibrary

LEMMA OwnershipInvariant == Spec => []OwnershipInv
  <1> DEFINE IInv == OwnershipInv /\ worker \in Nat \ {0}
  <1>1. Init => IInv
    BY OwnershipInit DEF Init
  <1>2. IInv /\ [Next]_vars => IInv'
    BY OwnershipStep, WorkerIndex
  <1>3. IInv => OwnershipInv
    OBVIOUS
  <1> QED BY <1>1, <1>2, <1>3, PTL DEF Spec

\* Whatever the clients do and however sizes drift, a block is in one hand at a
\* time, and none is lost until a call fails with a block in hand: in the middle
\* of a container, or after its output was allocated (DirectGprEncoder's
\* inplace_buf_, pool_buf_ and pool_last_out_; cinepi_qraw_encode's out).
THEOREM BlocksAccountedFor == Spec => []Accounted
<1>1. OwnershipInv => Accounted
  BY OwnershipHands
<1> QED BY <1>1, OwnershipInvariant, PTL

\* What an encoder retains, or will recognise by its address when a client
\* gives it back, is a container of the full capacity, and what it will
\* recognise is still out (pool_buf_ and pool_last_out_).
THEOREM RetainedContainersFit == Spec => []RetainedFits
<1>1. OwnershipInv => RetainedFits
  BY OwnershipHands
<1> QED BY <1>1, OwnershipInvariant, PTL

-----------------------------------------------------------------------------
(* The service                                                             *)

Outside == {"absent", "creating"}
Inside  == {"fill", "read", "wavelet", "arm", "vc5", "wrap", "sdk"}

\* The caller's containers hold different frames, none of them that of a call
\* under way; that one is in the armed container when it is wrapped.
ServedBy(e) ==
    /\ \A b \in held[e] : /\ heap[b].frame <= frame[e]
                          /\ pc[e] \in Inside => heap[b].frame # frame[e]
    /\ \A b, c \in held[e] : heap[b].frame = heap[c].frame => b = c
    /\ pc[e] = "wrap" /\ inplace_pending_[e] => heap[inplace_buf_[e]].frame = frame[e]

Served == \A e \in Encoders : ServedBy(e)

\* The variables of the service.
OpenNow == {e \in Encoders : pc[e] \notin Outside}
BusyNow == {e \in Encoders : pc[e] \in Inside}
OutsNow == [e \in Encoders |-> {heap[b].frame : b \in held[e]}]

ServiceStep(e) ==
    \/ UNCHANGED <<OpenNow, BusyNow, frame, OutsNow>>
    \/ /\ e \notin OpenNow /\ OpenNow' = OpenNow \cup {e}
       /\ UNCHANGED <<BusyNow, frame, OutsNow>>
    \/ /\ e \in OpenNow \ BusyNow /\ frame[e] < MaxFrames
       /\ BusyNow' = BusyNow \cup {e} /\ frame' = [frame EXCEPT ![e] = @ + 1]
       /\ UNCHANGED <<OpenNow, OutsNow>>
    \/ /\ e \in BusyNow /\ BusyNow' = BusyNow \ {e}
       /\ \/ OutsNow' = [OutsNow EXCEPT ![e] = @ \cup {frame[e]}]
          \/ UNCHANGED OutsNow
       /\ UNCHANGED <<OpenNow, frame>>
    \/ /\ e \in OpenNow \ BusyNow
       /\ \E f \in OutsNow[e] : OutsNow' = [OutsNow EXCEPT ![e] = @ \ {f}]
       /\ UNCHANGED <<OpenNow, BusyNow, frame>>
    \/ /\ e \in OpenNow \ BusyNow /\ OutsNow[e] = {} /\ OpenNow' = OpenNow \ {e}
       /\ UNCHANGED <<BusyNow, frame, OutsNow>>

LEMMA ServiceStepDef ==
    ASSUME pc \in [Encoders -> Labels], pc' \in [Encoders -> Labels],
           NEW e \in Encoders, ServiceStep(e)
    PROVE  [Service!Next]_(Service!serviceVars)
  <1> DEFINE busy == {f \in Encoders : pc[f] \notin {"absent", "creating", "idle"}}
             open == {f \in Encoders : pc[f] \notin {"absent", "creating"}}
             outs == [f \in Encoders |-> {heap[b].frame : b \in held[f]}]
  <1>1. BusyNow = busy /\ BusyNow' = busy'
    BY DEF BusyNow, Inside, Labels
  <1>2. OpenNow = open /\ OpenNow' = open' /\ OutsNow = outs /\ OutsNow' = outs'
    BY Zenon DEF OpenNow, Outside, OutsNow
  <1> HIDE DEF busy, open, outs
  <1>3. \/ UNCHANGED <<open, busy, frame, outs>>
        \/ /\ e \notin open /\ open' = open \cup {e}
           /\ UNCHANGED <<busy, frame, outs>>
        \/ /\ e \in open \ busy /\ frame[e] < MaxFrames
           /\ busy' = busy \cup {e} /\ frame' = [frame EXCEPT ![e] = @ + 1]
           /\ UNCHANGED <<open, outs>>
        \/ /\ e \in busy /\ busy' = busy \ {e}
           /\ \/ outs' = [outs EXCEPT ![e] = @ \cup {frame[e]}]
              \/ UNCHANGED outs
           /\ UNCHANGED <<open, frame>>
        \/ /\ e \in open \ busy
           /\ \E f \in outs[e] : outs' = [outs EXCEPT ![e] = @ \ {f}]
           /\ UNCHANGED <<open, busy, frame>>
        \/ /\ e \in open \ busy /\ outs[e] = {} /\ open' = open \ {e}
           /\ UNCHANGED <<busy, frame, outs>>
    BY <1>1, <1>2 DEF ServiceStep
  <1>4. \/ UNCHANGED <<open, busy, frame, outs>>
        \/ Service!Open(e) \/ Service!Encode(e) \/ Service!Return(e)
        \/ Service!Release(e) \/ Service!Close(e)
    BY <1>3, Zenon DEF Service!Open, Service!Encode, Service!Return, Service!Release,
                       Service!Close, busy, open, outs
  <1> QED BY <1>4, Zenon DEF Service!Next, Service!serviceVars, busy, open, outs

\* Where an encoder is tells whether it is open and whether it is busy.
LEMMA Shown ==
    ASSUME OwnershipTypeOK, NEW e \in Encoders, NEW label \in Labels,
           pc' = [pc EXCEPT ![e] = label]
    PROVE  /\ e \in OpenNow <=> pc[e] \notin Outside
           /\ e \in BusyNow <=> pc[e] \in Inside
           /\ OpenNow' = IF label \in Outside THEN OpenNow \ {e} ELSE OpenNow \cup {e}
           /\ BusyNow' = IF label \in Inside THEN BusyNow \cup {e} ELSE BusyNow \ {e}
  BY DEF OwnershipTypeOK, OpenNow, BusyNow

\* The step of e leaves alone what the other encoders and their callers have,
\* and the containers e's own caller goes on holding.
OthersKept(e) ==
    /\ \A f \in Encoders : \A b \in held[f] : b \in held'[f] => heap'[b] = heap[b]
    /\ \A f \in Encoders \ {e} :
         /\ held'[f] = held[f] /\ pc'[f] = pc[f] /\ frame'[f] = frame[f]
         /\ inplace_buf_'[f] = inplace_buf_[f]
         /\ inplace_pending_'[f] = inplace_pending_[f]
         /\ inplace_buf_[f] # Nil => heap'[inplace_buf_[f]] = heap[inplace_buf_[f]]

LEMMA OthersServed ==
    ASSUME OwnershipInv, Served, NEW e \in Encoders, OthersKept(e), ServedBy(e)'
    PROVE  Served'
  <1> SUFFICES ASSUME NEW f \in Encoders \ {e} PROVE ServedBy(f)'
    BY DEF Served
  <1>1. ServedBy(f)
    BY DEF Served
  <1>2. inplace_pending_[f] => inplace_buf_[f] # Nil
    BY DEF OwnershipInv, PendingIsArmed
  <1> QED BY <1>1, <1>2 DEF ServedBy, OthersKept

\* The caller's containers are as they were.
LEMMA OutsKept ==
    ASSUME OwnershipTypeOK, OwnershipTypeOK', NEW e \in Encoders, OthersKept(e),
           held'[e] = held[e]
    PROVE  OutsNow' = OutsNow
  <1>1. ASSUME NEW f \in Encoders
        PROVE  {heap'[b].frame : b \in held'[f]} = {heap[b].frame : b \in held[f]}
    <2>1. held'[f] = held[f] /\ \A b \in held[f] : heap'[b] = heap[b]
      BY DEF OthersKept
    <2> QED BY <2>1
  <1> QED BY <1>1 DEF OutsNow

\* The caller of e has one container more, or one less.
LEMMA OutsGrow ==
    ASSUME OwnershipTypeOK, OwnershipTypeOK', NEW e \in Encoders, OthersKept(e),
           NEW b \in Blocks, held'[e] = held[e] \cup {b}
    PROVE  OutsNow' = [OutsNow EXCEPT ![e] = @ \cup {heap'[b].frame}]
  <1>1. ASSUME NEW f \in Encoders \ {e}
        PROVE  {heap'[c].frame : c \in held'[f]} = {heap[c].frame : c \in held[f]}
    <2>1. held'[f] = held[f] /\ \A c \in held[f] : heap'[c] = heap[c]
      BY DEF OthersKept
    <2> QED BY <2>1
  <1>2. {heap'[c].frame : c \in held'[e]}
          = {heap[c].frame : c \in held[e]} \cup {heap'[b].frame}
    BY DEF OthersKept
  <1> QED BY <1>1, <1>2 DEF OutsNow

LEMMA OutsShrink ==
    ASSUME OwnershipTypeOK, OwnershipTypeOK', Served, NEW e \in Encoders,
           OthersKept(e), NEW b \in held[e], held'[e] = held[e] \ {b}
    PROVE  \E f \in OutsNow[e] : OutsNow' = [OutsNow EXCEPT ![e] = @ \ {f}]
  <1>1. ASSUME NEW f \in Encoders \ {e}
        PROVE  {heap'[c].frame : c \in held'[f]} = {heap[c].frame : c \in held[f]}
    <2>1. held'[f] = held[f] /\ \A c \in held[f] : heap'[c] = heap[c]
      BY DEF OthersKept
    <2> QED BY <2>1
  <1>2. {heap'[c].frame : c \in held'[e]}
          = {heap[c].frame : c \in held[e]} \ {heap[b].frame}
    <2>1. \A c \in held[e] : heap[c].frame = heap[b].frame => c = b
      BY DEF Served, ServedBy
    <2> QED BY <2>1 DEF OthersKept
  <1>3. heap[b].frame \in OutsNow[e]
    BY DEF OutsNow
  <1>4. OutsNow' = [OutsNow EXCEPT ![e] = @ \ {heap[b].frame}]
    BY <1>1, <1>2 DEF OutsNow
  <1> QED BY <1>3, <1>4

\* A call that goes on, or returns with nothing new.
LEMMA StaysServed ==
    ASSUME OwnershipInv, OwnershipInv', Served, NEW e \in Encoders, OthersKept(e),
           NEW label \in Labels, pc' = [pc EXCEPT ![e] = label],
           held'[e] = held[e], frame' = frame,
           label \in Inside => pc[e] \in Inside,
           label = "wrap" /\ inplace_pending_'[e] =>
               heap'[inplace_buf_'[e]].frame = frame[e]
    PROVE  Served' /\ OutsNow' = OutsNow
  <1> USE DEF OwnershipInv
  <1>1. pc'[e] = label
    BY DEF OwnershipTypeOK
  <1>2. \A b \in held[e] : heap'[b] = heap[b]
    BY DEF OthersKept
  <1>3. ServedBy(e)'
    BY <1>1, <1>2 DEF Served, ServedBy
  <1> QED BY <1>3, OthersServed, OutsKept

\* It is a stutter of the service, or the return of a failed call.
LEMMA StaysStep ==
    ASSUME OwnershipTypeOK, NEW e \in Encoders,
           NEW label \in Inside \cup {"idle"}, pc' = [pc EXCEPT ![e] = label],
           pc[e] \in Inside, frame' = frame, OutsNow' = OutsNow
    PROVE  ServiceStep(e)
  <1>1. label \in Labels /\ label \notin Outside /\ pc[e] \notin Outside
    BY DEF Labels, Inside, Outside
  <1>2. /\ e \in OpenNow /\ e \in BusyNow /\ OpenNow' = OpenNow \cup {e}
        /\ BusyNow' = IF label \in Inside THEN BusyNow \cup {e} ELSE BusyNow \ {e}
    BY <1>1, Shown
  <1>3. OpenNow' = OpenNow /\ (BusyNow' = BusyNow \/ BusyNow' = BusyNow \ {e})
    BY <1>2
  <1> QED BY <1>2, <1>3 DEF ServiceStep

LEMMA QuietServed ==
    ASSUME OwnershipInv, OwnershipInv', Served, NEW e \in Encoders,
           \/ \E c \in Settings \cup {Off} : Create(e, c)
           \/ Created(e) \/ FillTable(e) \/ ReadLevers(e)
           \/ Wavelet(e) \/ WaveletFails(e) \/ NotArmed(e) \/ WrapBySdk(e)
    PROVE  Served' /\ ServiceStep(e)
  <1> USE DEF OwnershipInv, OwnershipTypeOK
  <1>1. UNCHANGED <<ownership, heap, frame>>
    BY DEF Create, Created, FillTable, ReadLevers, Wavelet, WaveletFails,
           NotArmed, WrapBySdk
  <1>2. PICK label \in Labels : /\ pc' = [pc EXCEPT ![e] = label]
                                /\ label # "wrap"
                                /\ \/ pc[e] \in Outside /\ label \in Outside
                                   \/ pc[e] = "creating" /\ label = "idle"
                                   \/ pc[e] \in Inside /\ label \in Inside
                                   \/ pc[e] \in Inside /\ label = "idle"
    <2>1. CASE \E c \in Settings \cup {Off} : Create(e, c)
      BY <2>1 DEF Create, Goto, Labels, Outside
    <2>2. CASE Created(e)
      BY <2>2 DEF Created, Labels, Outside
    <2>3. CASE FillTable(e) \/ ReadLevers(e) \/ Wavelet(e) \/ NotArmed(e) \/ WrapBySdk(e)
      BY <2>3 DEF FillTable, ReadLevers, Wavelet, NotArmed, WrapBySdk, Goto, Labels,
                  Inside
    <2>4. CASE WaveletFails(e)
      BY <2>4 DEF WaveletFails, Throw, Goto, Labels, Inside
    <2> QED BY <2>1, <2>2, <2>3, <2>4
  <1>3. OthersKept(e)
    BY <1>1, <1>2 DEF OthersKept, ownership
  <1>4. label \in Inside => pc[e] \in Inside
    BY <1>2 DEF Inside, Outside
  <1>5. held'[e] = held[e] /\ frame' = frame
    BY <1>1 DEF ownership
  <1>6. Served' /\ OutsNow' = OutsNow
    BY <1>2, <1>3, <1>4, <1>5, StaysServed
  <1>7. ServiceStep(e)
    <2>1. CASE pc[e] \in Inside
      BY <1>2, <1>5, <1>6, <2>1, StaysStep DEF Inside, Outside
    <2>2. CASE pc[e] \in Outside
      <3>1. /\ e \notin OpenNow /\ e \notin BusyNow /\ BusyNow' = BusyNow \ {e}
            /\ OpenNow' = OpenNow \ {e} \/ OpenNow' = OpenNow \cup {e}
        BY <1>2, <2>2, Shown DEF Inside, Outside
      <3>2. BusyNow' = BusyNow
        BY <3>1
      <3>3. OpenNow' = OpenNow \/ OpenNow' = OpenNow \cup {e}
        <4>1. OpenNow \ {e} = OpenNow
          BY <3>1
        <4> QED BY <3>1, <4>1
      <3> QED BY <1>5, <1>6, <3>1, <3>2, <3>3 DEF ServiceStep
    <2> QED BY <1>2, <2>1, <2>2 DEF Outside
  <1> QED BY <1>6, <1>7

LEMMA EncodeServed ==
    ASSUME OwnershipInv, OwnershipInv', Served, NEW e \in Encoders, Encode(e)
    PROVE  Served' /\ ServiceStep(e)
  <1> USE DEF OwnershipInv, OwnershipTypeOK
  <1>1. /\ UNCHANGED <<ownership, heap>>
        /\ pc[e] = "idle" /\ frame[e] < MaxFrames
        /\ frame' = [frame EXCEPT ![e] = @ + 1] /\ pc' = [pc EXCEPT ![e] = "fill"]
    BY DEF Encode, Goto
  <1>2. OthersKept(e)
    BY <1>1 DEF OthersKept, ownership
  <1>3. ServedBy(e)'
    <2>1. frame'[e] = frame[e] + 1 /\ pc'[e] = "fill" /\ held' = held /\ heap' = heap
      BY <1>1 DEF ownership
    <2>2. \A b \in held[e] : heap[b].frame \in Nat /\ heap[b].frame <= frame[e]
      BY DEF Served, ServedBy, BlockStates
    <2>3. \A b \in held[e] : heap[b].frame <= frame[e] + 1 /\ heap[b].frame # frame[e] + 1
      <3> SUFFICES ASSUME NEW b \in held[e]
                   PROVE  heap[b].frame <= frame[e] + 1 /\ heap[b].frame # frame[e] + 1
        OBVIOUS
      <3>1. frame[e] \in Nat
        OBVIOUS
      <3> QED BY <2>2, <3>1
    <2> QED BY <2>1, <2>3 DEF Served, ServedBy
  <1>4. Served' /\ OutsNow' = OutsNow
    BY <1>1, <1>2, <1>3, OthersServed, OutsKept DEF ownership
  <1>5. /\ e \in OpenNow /\ e \notin BusyNow /\ BusyNow' = BusyNow \cup {e}
        /\ OpenNow' = OpenNow \cup {e}
    BY <1>1, Shown DEF Inside, Outside, Labels
  <1>6. e \in OpenNow \ BusyNow /\ OpenNow' = OpenNow
    BY <1>5
  <1>7. ServiceStep(e)
    BY <1>1, <1>4, <1>5, <1>6 DEF ServiceStep
  <1> QED BY <1>4, <1>7

LEMMA DestroyServed ==
    ASSUME OwnershipInv, OwnershipInv', Served, NEW e \in Encoders, Destroy(e)
    PROVE  Served' /\ ServiceStep(e)
  <1> USE DEF OwnershipInv, OwnershipTypeOK
  <1>1. /\ UNCHANGED <<held, frame>> /\ held[e] = {}
        /\ heap' = Without({inplace_buf_[e], pool_buf_[e]})
        /\ inplace_buf_' = [inplace_buf_ EXCEPT ![e] = Nil]
        /\ inplace_pending_' = [inplace_pending_ EXCEPT ![e] = FALSE]
        /\ pc[e] = "idle" /\ pc' = [pc EXCEPT ![e] = "absent"]
    BY DEF Destroy, Goto
  <1>2. \A b \in Blocks \ {inplace_buf_[e], pool_buf_[e]} : heap'[b] = heap[b]
    BY <1>1 DEF Without
  <1>3. \A f \in Encoders : /\ inplace_buf_[e] \notin held[f] /\ pool_buf_[e] \notin held[f]
                            /\ f # e /\ inplace_buf_[f] # Nil =>
                                 inplace_buf_[f] \notin {inplace_buf_[e], pool_buf_[e]}
    BY LibraryAssumption DEF Apart
  <1>4. OthersKept(e)
    <2>1. \A f \in Encoders \ {e} : inplace_buf_[f] # Nil =>
                inplace_buf_[f] \in Blocks \ {inplace_buf_[e], pool_buf_[e]}
      BY <1>3
    <2>2. \A f \in Encoders : \A b \in held[f] :
                b \in Blocks \ {inplace_buf_[e], pool_buf_[e]}
      BY <1>3
    <2> HIDE DEF OwnershipInv
    <2> QED BY <1>1, <1>2, <2>1, <2>2 DEF OthersKept
  <1>5. Served' /\ OutsNow' = OutsNow
    BY <1>1, <1>4, StaysServed DEF Labels, Inside
  <1>6. OutsNow[e] = {}
    BY <1>1 DEF OutsNow
  <1>7. /\ e \in OpenNow /\ e \notin BusyNow /\ OpenNow' = OpenNow \ {e}
        /\ BusyNow' = BusyNow \ {e}
    BY <1>1, Shown DEF Inside, Outside, Labels
  <1>8. e \in OpenNow \ BusyNow /\ BusyNow' = BusyNow
    BY <1>7
  <1>9. ServiceStep(e)
    BY <1>1, <1>5, <1>6, <1>7, <1>8 DEF ServiceStep
  <1> QED BY <1>5, <1>9

LEMMA ArmServed ==
    ASSUME OwnershipInv, OwnershipInv', Served, NEW e \in Encoders,
           ArmPooled(e) \/ ArmLeft(e) \/ ArmFresh(e)
    PROVE  Served' /\ ServiceStep(e)
  <1> USE DEF OwnershipInv, OwnershipTypeOK
  <1>1. /\ UNCHANGED <<held, frame>>
        /\ pc[e] = "arm" /\ pc' = [pc EXCEPT ![e] = "vc5"]
    BY DEF ArmPooled, ArmLeft, ArmFresh, Goto
  <1>2. OthersKept(e)
    <2>1. \A f \in Encoders \ {e} : /\ inplace_buf_'[f] = inplace_buf_[f]
                                    /\ inplace_pending_'[f] = inplace_pending_[f]
      BY DEF ArmPooled, ArmLeft, ArmFresh
    <2>2. \A b \in Blocks : heap[b].kind # "free" => heap'[b] = heap[b]
      BY FreeBlock DEF ArmPooled, ArmLeft, ArmFresh
    <2>3. \A f \in Encoders : /\ \A b \in held[f] : heap'[b] = heap[b]
                              /\ inplace_buf_[f] # Nil =>
                                   heap'[inplace_buf_[f]] = heap[inplace_buf_[f]]
      BY <2>2 DEF Fitting
    <2> QED BY <1>1, <2>1, <2>3 DEF OthersKept
  <1>3. Served' /\ OutsNow' = OutsNow
    BY <1>1, <1>2, StaysServed DEF Labels, Inside
  <1>4. ServiceStep(e)
    BY <1>1, <1>3, StaysStep DEF Inside
  <1> QED BY <1>3, <1>4

LEMMA Vc5Served ==
    ASSUME OwnershipInv, OwnershipInv', Served, NEW e \in Encoders, Vc5(e)
    PROVE  Served' /\ ServiceStep(e)
  <1> USE DEF OwnershipInv, OwnershipTypeOK
  <1>1. UNCHANGED <<ownership, frame>> /\ pc[e] = "vc5"
    BY DEF Vc5
  <1>2. PICK label \in {"wrap", "idle"} : pc' = [pc EXCEPT ![e] = label]
    BY DEF Vc5, Throw, Goto
  <1>3. /\ \A b \in Blocks : b # inplace_buf_[e] => heap'[b] = heap[b]
        /\ inplace_pending_[e] => heap'[inplace_buf_[e]].frame = frame[e]
    <2>1. CASE ~inplace_pending_[e]
      BY <2>1 DEF Vc5
    <2>2. CASE inplace_pending_[e]
      <3>1. heap' = [heap EXCEPT ![inplace_buf_[e]].frame = frame[e]]
            /\ inplace_buf_[e] \in Blocks
        BY <2>2 DEF Vc5, PendingIsArmed
      <3>2. heap[inplace_buf_[e]] \in BlockStates
        BY <3>1
      <3> QED BY <3>1, <3>2 DEF BlockStates
    <2> QED BY <2>1, <2>2
  <1>4. OthersKept(e)
    <2>1. inplace_buf_[e] # Nil => \A f \in Encoders :
             /\ inplace_buf_[e] \notin held[f]
             /\ f # e => inplace_buf_[f] # inplace_buf_[e]
      BY DEF Apart
    <2>2. inplace_buf_[e] = Nil => heap' = heap
      BY DEF Vc5, PendingIsArmed
    <2> QED BY <1>1, <1>2, <1>3, <2>1, <2>2 DEF OthersKept, ownership
  <1>5. Served' /\ OutsNow' = OutsNow
    BY <1>1, <1>2, <1>3, <1>4, StaysServed DEF Labels, Inside, ownership
  <1>6. ServiceStep(e)
    BY <1>1, <1>2, <1>5, StaysStep DEF Inside
  <1> QED BY <1>5, <1>6

\* A call that returns with a container: no other of its caller's holds the
\* frame.
LEMMA DeliverServed ==
    ASSUME OwnershipInv, OwnershipInv', Served, NEW e \in Encoders, OthersKept(e),
           pc[e] \in Inside, pc' = [pc EXCEPT ![e] = "idle"], frame' = frame,
           NEW b \in Blocks, held' = [held EXCEPT ![e] = @ \cup {b}],
           heap'[b].frame = frame[e]
    PROVE  Served' /\ ServiceStep(e)
  <1> USE DEF OwnershipInv, OwnershipTypeOK
  <1>1. held'[e] = held[e] \cup {b} /\ pc'[e] = "idle"
    OBVIOUS
  <1>2. \A c \in held[e] : /\ heap'[c] = heap[c]
                           /\ heap[c].frame <= frame[e] /\ heap[c].frame # frame[e]
    BY <1>1 DEF OthersKept, Served, ServedBy
  <1>3. frame[e] <= frame[e] /\ "idle" \notin Inside /\ "idle" # "wrap"
    BY DEF Inside
  <1>4. \A c \in held'[e] : heap'[c].frame <= frame[e]
    BY <1>1, <1>2, <1>3
  <1>5. \A c, d \in held'[e] : heap'[c].frame = heap'[d].frame => c = d
    <2>1. \A c, d \in held[e] : heap[c].frame = heap[d].frame => c = d
      BY DEF Served, ServedBy
    <2> QED BY <1>1, <1>2, <2>1
  <1>6. ServedBy(e)'
    BY <1>1, <1>3, <1>4, <1>5 DEF ServedBy
  <1>7. OutsNow' = [OutsNow EXCEPT ![e] = @ \cup {frame[e]}]
    BY <1>1, OutsGrow
  <1>8. /\ e \in OpenNow /\ e \in BusyNow /\ OpenNow' = OpenNow \cup {e}
        /\ BusyNow' = BusyNow \ {e}
    BY Shown DEF Inside, Outside, Labels
  <1>9. OpenNow' = OpenNow
    BY <1>8
  <1>10. ServiceStep(e)
    BY <1>7, <1>8, <1>9 DEF ServiceStep
  <1> QED BY <1>6, <1>10, OthersServed

LEMMA ThrowServed ==
    ASSUME OwnershipInv, OwnershipInv', Served, NEW e \in Encoders, OthersKept(e),
           pc[e] \in Inside, Throw(e), frame' = frame, held' = held
    PROVE  Served' /\ ServiceStep(e)
  <1>1. pc' = [pc EXCEPT ![e] = "idle"] /\ "idle" \in Labels /\ "idle" # "wrap"
        /\ "idle" \notin Inside
    BY DEF Throw, Goto, Labels, Inside
  <1>2. Served' /\ OutsNow' = OutsNow
    BY <1>1, StaysServed
  <1> QED BY <1>1, <1>2, StaysStep DEF OwnershipInv

LEMMA WrapInPlaceServed ==
    ASSUME OwnershipInv, OwnershipInv', Served, NEW e \in Encoders, WrapInPlace(e)
    PROVE  Served' /\ ServiceStep(e)
  <1> USE DEF OwnershipInv, OwnershipTypeOK
  <1>1. /\ UNCHANGED <<heap, frame>> /\ pc[e] = "wrap" /\ inplace_pending_[e]
        /\ pc' = [pc EXCEPT ![e] = "idle"]
        /\ held' = [held EXCEPT ![e] = @ \cup {inplace_buf_[e]}]
        /\ inplace_buf_' = [inplace_buf_ EXCEPT ![e] = Nil]
        /\ inplace_pending_' = [inplace_pending_ EXCEPT ![e] = FALSE]
    BY DEF WrapInPlace, Deliver, Emptied, Goto
  <1>2. inplace_buf_[e] \in Blocks /\ heap[inplace_buf_[e]].frame = frame[e]
    BY <1>1 DEF PendingIsArmed, Served, ServedBy
  <1>3. OthersKept(e)
    BY <1>1 DEF OthersKept
  <1> QED BY <1>1, <1>2, <1>3, DeliverServed DEF Inside

LEMMA WrapDriftedServed ==
    ASSUME OwnershipInv, OwnershipInv', Served, NEW e \in Encoders, WrapDrifted(e)
    PROVE  Served' /\ ServiceStep(e)
  <1> USE DEF OwnershipInv, OwnershipTypeOK
  <1>1. /\ pc[e] \in Inside /\ frame' = frame
        /\ inplace_buf_[e] \in Blocks
        /\ inplace_buf_' = [inplace_buf_ EXCEPT ![e] = Nil]
        /\ inplace_pending_' = [inplace_pending_ EXCEPT ![e] = FALSE]
    BY DEF WrapDrifted, PendingIsArmed, Inside
  <1>2. \A f \in Encoders : /\ inplace_buf_[e] \notin held[f]
                            /\ f # e => inplace_buf_[f] # inplace_buf_[e]
    BY <1>1, LibraryAssumption DEF Apart
  <1>3. ASSUME NEW b \in Blocks, heap[b] = Free,
               heap' = [Without(Dropped(e)) EXCEPT ![b] = Wrapped(e)], Deliver(e, b)
        PROVE  Served' /\ ServiceStep(e)
    <2>1. /\ pc' = [pc EXCEPT ![e] = "idle"]
          /\ held' = [held EXCEPT ![e] = @ \cup {b}]
      BY <1>3 DEF Deliver, Goto
    <2>2. /\ \A c \in Blocks \ {b, inplace_buf_[e]} : heap'[c] = heap[c]
          /\ heap'[b].frame = frame[e]
      BY <1>3 DEF Without, Dropped, Wrapped
    <2>3. ~Found(b)
      BY <1>3, FreeBlock, LibraryAssumption DEF Found, Fitting
    <2>4. OthersKept(e)
      <3>1. \A f \in Encoders : \A c \in held[f] : c \in Blocks \ {b, inplace_buf_[e]}
        BY <1>2, <2>3 DEF Found
      <3>2. \A f \in Encoders \ {e} : inplace_buf_[f] # Nil =>
                 inplace_buf_[f] \in Blocks \ {b, inplace_buf_[e]}
        BY <1>2, <2>3 DEF Found
      <3> QED BY <1>1, <2>1, <2>2, <3>1, <3>2 DEF OthersKept
    <2> QED BY <1>1, <2>1, <2>2, <2>4, DeliverServed
  <1>4. CASE heap' = Without(Dropped(e)) /\ Throw(e) /\ UNCHANGED held
    <2>1. \A c \in Blocks \ {inplace_buf_[e]} : heap'[c] = heap[c]
      BY <1>4 DEF Without, Dropped
    <2>2. pc' = [pc EXCEPT ![e] = "idle"]
      BY <1>4 DEF Throw, Goto
    <2>3. OthersKept(e)
      BY <1>1, <1>2, <1>4, <2>1, <2>2 DEF OthersKept
    <2> QED BY <1>1, <1>4, <2>3, ThrowServed
  <1> QED BY <1>3, <1>4 DEF WrapDrifted

LEMMA OutputServed ==
    ASSUME OwnershipInv, OwnershipInv', Served, NEW e \in Encoders,
           WrapSpliced(e) \/ Sdk(e)
    PROVE  Served' /\ ServiceStep(e)
  <1> USE DEF OwnershipInv, OwnershipTypeOK
  <1>1. /\ Output(e) \/ Orphan(e)
        /\ pc[e] \in Inside
        /\ UNCHANGED <<frame, inplace_buf_, inplace_pending_>>
    BY DEF WrapSpliced, Sdk, Inside
  <1>2. ASSUME NEW b \in Blocks, Fresh(e, b),
               pc' = [pc EXCEPT ![e] = "idle"],
               held' = held \/ held' = [held EXCEPT ![e] = @ \cup {b}]
        PROVE  /\ OthersKept(e)
               /\ heap'[b].frame = frame[e]
    <2>1. /\ \A c \in Blocks \ {b} : heap'[c] = heap[c]
          /\ heap'[b].frame = frame[e]
      BY <1>2 DEF Fresh, Wrapped
    <2>2. ~Found(b)
      BY <1>2, FreeBlock, LibraryAssumption DEF Fresh, Found, Fitting
    <2>3. \A f \in Encoders : \A c \in held[f] : c \in Blocks \ {b}
      BY <2>2 DEF Found
    <2>4. \A f \in Encoders : inplace_buf_[f] # Nil => inplace_buf_[f] \in Blocks \ {b}
      BY <2>2 DEF Found
    <2> QED BY <1>1, <1>2, <2>1, <2>3, <2>4 DEF OthersKept
  <1>3. ASSUME NEW b \in Blocks, Fresh(e, b), Deliver(e, b)
        PROVE  Served' /\ ServiceStep(e)
    <2>1. /\ pc' = [pc EXCEPT ![e] = "idle"]
          /\ held' = [held EXCEPT ![e] = @ \cup {b}]
      BY <1>3 DEF Deliver, Goto
    <2>2. \A c \in Blocks \ {b} : heap'[c] = heap[c]
      BY <1>3 DEF Fresh
    <2> QED BY <1>1, <1>2, <1>3, <2>1, <2>2, DeliverServed
  <1>4. CASE Throw(e) /\ UNCHANGED <<heap, held>>
    <2>1. pc' = [pc EXCEPT ![e] = "idle"]
      BY <1>4 DEF Throw, Goto
    <2>2. OthersKept(e)
      BY <1>1, <1>4, <2>1 DEF OthersKept
    <2> QED BY <1>1, <1>4, <2>2, ThrowServed
  <1>5. CASE Orphan(e)
    <2>1. Throw(e) /\ pc' = [pc EXCEPT ![e] = "idle"] /\ held' = held
      BY <1>5 DEF Orphan, Throw, Goto
    <2>2. OthersKept(e)
      BY <1>2, <1>5, <2>1 DEF Orphan
    <2> QED BY <1>1, <2>1, <2>2, ThrowServed
  <1> QED BY <1>1, <1>3, <1>4, <1>5 DEF Output

LEMMA ReleaseServed ==
    ASSUME OwnershipInv, OwnershipInv', Served, NEW e \in Encoders,
           NEW b \in Blocks, Release(e, b)
    PROVE  Served' /\ ServiceStep(e)
  <1> USE DEF OwnershipInv, OwnershipTypeOK
  <1>1. /\ UNCHANGED <<pc, frame, inplace_buf_, inplace_pending_>>
        /\ pc[e] = "idle" /\ b \in held[e] /\ held' = [held EXCEPT ![e] = @ \ {b}]
    BY DEF Release
  <1>2. \A c \in Blocks \ {b} : heap'[c] = heap[c]
    BY DEF Release, Without
  <1>3. OthersKept(e)
    <2>1. \A f \in Encoders \ {e} : b \notin held[f]
      BY <1>1 DEF Apart
    <2>2. \A f \in Encoders : inplace_buf_[f] # Nil => inplace_buf_[f] # b
      BY <1>1 DEF Apart
    <2>3. \A f \in Encoders : \A c \in held'[f] : c # b
      BY <1>1, <2>1
    <2> QED BY <1>1, <1>2, <2>2, <2>3 DEF OthersKept
  <1>4. held'[e] = held[e] \ {b} /\ \A c \in held'[e] : heap'[c] = heap[c]
    BY <1>1, <1>2
  <1>5. ServedBy(e)'
    BY <1>1, <1>4 DEF Served, ServedBy
  <1>6. \E f \in OutsNow[e] : OutsNow' = [OutsNow EXCEPT ![e] = @ \ {f}]
    BY <1>1, <1>3, <1>4, OutsShrink
  <1>7. e \in OpenNow \ BusyNow /\ OpenNow' = OpenNow /\ BusyNow' = BusyNow
    BY <1>1 DEF OpenNow, BusyNow, Inside, Outside
  <1>8. ServiceStep(e)
    BY <1>1, <1>6, <1>7 DEF ServiceStep
  <1> QED BY <1>3, <1>5, <1>8, OthersServed

LEMMA ServedInit == Init => Served /\ Service!Init
  <1> SUFFICES ASSUME Init PROVE Served /\ Service!Init
    OBVIOUS
  <1>1. /\ pc = [e \in Encoders |-> "absent"] /\ held = [e \in Encoders |-> {}]
        /\ frame = [e \in Encoders |-> 0]
    BY DEF Init, LibraryInit
  <1>2. Served
    BY <1>1 DEF Served, ServedBy, Inside
  <1>3. /\ {e \in Encoders : pc[e] \notin {"absent", "creating"}} = {}
        /\ {e \in Encoders : pc[e] \notin {"absent", "creating", "idle"}} = {}
        /\ [e \in Encoders |-> {heap[b].frame : b \in held[e]}] = [e \in Encoders |-> {}]
    BY <1>1
  <1> QED BY <1>1, <1>2, <1>3 DEF Service!Init

LEMMA ServedStep ==
    ASSUME OwnershipInv, OwnershipInv', Served, worker \in Nat \ {0}, [Next]_vars
    PROVE  Served' /\ [Service!Next]_(Service!serviceVars)
  <1>1. CASE UNCHANGED libraryVars
    <2>1. UNCHANGED <<pc, frame, held, heap, inplace_buf_, inplace_pending_>>
      BY <1>1 DEF libraryVars, ownership
    <2>2. Served'
      BY <2>1 DEF Served, ServedBy
    <2> QED BY <2>1, <2>2 DEF Service!serviceVars
  <1>2. ASSUME NEW e \in Encoders,
               \/ \E c \in Settings \cup {Off} : Create(e, c)
               \/ Destroy(e) \/ Encode(e) \/ Proceed(e)
               \/ \E b \in Blocks : Release(e, b)
        PROVE  Served' /\ ServiceStep(e)
    <2>1. CASE Proceed(e)
      BY <2>1, QuietServed, ArmServed, Vc5Served, WrapInPlaceServed, WrapDriftedServed,
         OutputServed DEF Proceed
    <2> QED BY <1>2, <2>1, QuietServed, DestroyServed, EncodeServed, ReleaseServed
  <1>3. pc \in [Encoders -> Labels] /\ pc' \in [Encoders -> Labels]
    BY DEF OwnershipInv, OwnershipTypeOK
  <1> QED BY <1>1, <1>2, <1>3, StepOfLibrary, ServiceStepDef

\* The safety of ImplementsService for every number of encoders, blocks and
\* sizes: a call returns with the container of its own frame or with a failure,
\* and a container the caller holds stays as it is until it is released.
THEOREM CallsAreServed ==
    Spec => Service!Init /\ [][Service!Next]_(Service!serviceVars)
  <1> DEFINE IInv == OwnershipInv /\ worker \in Nat \ {0} /\ Served
  <1>1. Init => IInv /\ Service!Init
    BY OwnershipInit, ServedInit DEF Init
  <1>2. IInv /\ [Next]_vars => IInv' /\ [Service!Next]_(Service!serviceVars)
    BY OwnershipStep, WorkerIndex, ServedStep
  <1> QED BY <1>1, <1>2, PTL DEF Spec

-----------------------------------------------------------------------------
(* The levers                                                              *)

LeverTypeOK ==
    /\ options \in [Encoders -> Settings \cup {Off}]
    /\ g_pixel_clean \in BOOLEAN
    /\ g_noise_clean_mode \in Nat
    /\ used = [e \in Encoders |-> used[e]]

\* The process's levers cover what every encoder asks for.
Covered(e, pixel, mode) ==
    (options[e].pixel_clean => pixel) /\ options[e].noise_clean_mode <= mode

LeverInv ==
    /\ LeverTypeOK
    /\ \A e \in Encoders : Covered(e, g_pixel_clean, g_noise_clean_mode)
    /\ \A e \in Encoders : \A u \in used[e] :
           /\ pc[e] = "wavelet"
           /\ Covered(e, u.pixel_clean, u.noise_clean_mode)

LEMMA SettingModes == \A c \in Settings \cup {Off} : c.noise_clean_mode \in Nat
  BY LeverAssumption DEF Off

LEMMA FoldRaises ==
    ASSUME LeverTypeOK, NEW e \in Encoders, NEW c \in Settings \cup {Off}, Fold(e, c)
    PROVE  /\ options' = [options EXCEPT ![e] = c]
           /\ used' = used
           /\ g_pixel_clean' \in BOOLEAN /\ g_noise_clean_mode' \in Nat
           /\ g_pixel_clean => g_pixel_clean'
           /\ c.pixel_clean => g_pixel_clean'
           /\ g_noise_clean_mode <= g_noise_clean_mode'
           /\ c.noise_clean_mode <= g_noise_clean_mode'
  <1>1. c.noise_clean_mode \in Nat
    BY SettingModes
  <1>2. options' = [options EXCEPT ![e] = c] /\ used' = used
    BY DEF Fold
  <1>3. g_pixel_clean' \in BOOLEAN /\ (g_pixel_clean => g_pixel_clean')
        /\ (c.pixel_clean => g_pixel_clean')
    BY Zenon DEF Fold
  <1>4. g_noise_clean_mode' \in Nat /\ g_noise_clean_mode <= g_noise_clean_mode'
        /\ c.noise_clean_mode <= g_noise_clean_mode'
    BY <1>1 DEF Fold, Raised, LeverTypeOK
  <1> QED BY <1>2, <1>3, <1>4

\* A step of an encoder that is not between its levers and its wavelet.
LEMMA LeversUntouched ==
    ASSUME LeverInv, NEW e \in Encoders,
           UNCHANGED <<options, used, g_pixel_clean, g_noise_clean_mode>>,
           pc[e] # "wavelet", \A f \in Encoders \ {e} : pc'[f] = pc[f]
    PROVE  LeverInv'
  <1>1. LeverTypeOK' /\ \A f \in Encoders : Covered(f, g_pixel_clean, g_noise_clean_mode)'
    BY DEF LeverInv, LeverTypeOK, Covered
  <1>2. \A f \in Encoders : \A u \in used'[f] :
            pc'[f] = "wavelet" /\ Covered(f, u.pixel_clean, u.noise_clean_mode)'
    BY DEF LeverInv, Covered
  <1> QED BY <1>1, <1>2 DEF LeverInv

LEMMA LeversFolded ==
    ASSUME LeverInv, NEW e \in Encoders, NEW c \in Settings \cup {Off}, Fold(e, c),
           pc[e] # "wavelet", \A f \in Encoders \ {e} : pc'[f] = pc[f]
    PROVE  LeverInv'
  <1> USE FoldRaises DEF LeverInv
  <1>1. LeverTypeOK'
    BY DEF LeverTypeOK
  <1>2. \A f \in Encoders : options'[f] = IF f = e THEN c ELSE options[f]
    BY DEF LeverTypeOK
  <1>3. ASSUME NEW f \in Encoders PROVE options[f].noise_clean_mode \in Nat
    BY SettingModes DEF LeverTypeOK
  <1>4. ASSUME NEW f \in Encoders
        PROVE  Covered(f, g_pixel_clean, g_noise_clean_mode)'
    <2>1. options'[f].pixel_clean => g_pixel_clean'
      BY <1>2 DEF Covered
    <2>2. options'[f].noise_clean_mode <= g_noise_clean_mode'
      <3>1. CASE f = e
        BY <1>2, <3>1
      <3>2. CASE f # e
        <4>1. options'[f].noise_clean_mode = options[f].noise_clean_mode
          BY <1>2, <3>2
        <4>2. options[f].noise_clean_mode <= g_noise_clean_mode
          BY DEF Covered
        <4> QED BY <1>3, <4>1, <4>2 DEF LeverTypeOK
      <3> QED BY <3>1, <3>2
    <2> QED BY <2>1, <2>2 DEF Covered
  <1>5. ASSUME NEW f \in Encoders, NEW u \in used'[f]
        PROVE  pc'[f] = "wavelet" /\ Covered(f, u.pixel_clean, u.noise_clean_mode)'
    <2>1. pc[f] = "wavelet" /\ f # e
      OBVIOUS
    <2> QED BY <1>2, <2>1 DEF Covered
  <1> QED BY <1>1, <1>4, <1>5

LEMMA LeversRead ==
    ASSUME OwnershipInv, LeverInv, NEW e \in Encoders, ReadLevers(e)
    PROVE  LeverInv'
  <1> DEFINE new == [pixel_clean |-> g_pixel_clean,
                     noise_clean_mode |-> g_noise_clean_mode,
                     strength |-> g_noise_clean_strength,
                     iso |-> g_noise_clean_t]
  <1>1. /\ used' = [used EXCEPT ![e] = {new}] /\ pc' = [pc EXCEPT ![e] = "wavelet"]
        /\ UNCHANGED <<options, g_pixel_clean, g_noise_clean_mode>>
    BY DEF ReadLevers, Read, levers, Goto
  <1>2. new.pixel_clean = g_pixel_clean /\ new.noise_clean_mode = g_noise_clean_mode
    OBVIOUS
  <1> HIDE DEF new
  <1>3. LeverTypeOK' /\ \A f \in Encoders : Covered(f, g_pixel_clean, g_noise_clean_mode)'
    BY <1>1 DEF LeverInv, LeverTypeOK, Covered
  <1>4. ASSUME NEW f \in Encoders, NEW u \in used'[f]
        PROVE  pc'[f] = "wavelet" /\ Covered(f, u.pixel_clean, u.noise_clean_mode)'
    <2>1. pc'[e] = "wavelet" /\ used'[e] = {new}
      BY <1>1 DEF OwnershipInv, OwnershipTypeOK, LeverInv, LeverTypeOK
    <2>2. CASE f = e
      BY <1>1, <1>2, <2>1, <2>2 DEF LeverInv, Covered
    <2>3. CASE f # e
      <3>1. used'[f] = used[f] /\ pc'[f] = pc[f]
        BY <1>1, <2>3 DEF OwnershipInv, OwnershipTypeOK, LeverInv, LeverTypeOK
      <3> QED BY <1>1, <3>1 DEF LeverInv, Covered
    <2> QED BY <2>2, <2>3
  <1> QED BY <1>3, <1>4 DEF LeverInv

LEMMA LeversQuantised ==
    ASSUME OwnershipInv, LeverInv, NEW e \in Encoders, Wavelet(e) \/ WaveletFails(e)
    PROVE  LeverInv'
  <1>1. /\ used' = [used EXCEPT ![e] = {}]
        /\ UNCHANGED <<options, g_pixel_clean, g_noise_clean_mode>>
    BY DEF Wavelet, WaveletFails, Quantised, levers
  <1>2. \A f \in Encoders \ {e} : pc'[f] = pc[f]
    BY DEF Wavelet, WaveletFails, Goto, Throw, OwnershipInv, OwnershipTypeOK
  <1>3. LeverTypeOK' /\ \A f \in Encoders : Covered(f, g_pixel_clean, g_noise_clean_mode)'
    BY <1>1 DEF LeverInv, LeverTypeOK, Covered
  <1>4. \A f \in Encoders : used'[f] = IF f = e THEN {} ELSE used[f]
    BY <1>1 DEF LeverInv, LeverTypeOK
  <1> QED BY <1>1, <1>2, <1>3, <1>4 DEF LeverInv, Covered

LEMMA LeversStep ==
    ASSUME OwnershipInv, LeverInv, worker \in Nat \ {0}, [Next]_vars
    PROVE  LeverInv'
  <1> USE DEF Labels
  <1>1. CASE UNCHANGED libraryVars
    BY <1>1 DEF libraryVars, leverVars, LeverInv, LeverTypeOK, Covered
  <1>2. ASSUME NEW e \in Encoders, NEW c \in Settings \cup {Off}, Create(e, c)
        PROVE  LeverInv'
    <2>1. pc[e] # "wavelet" /\ \A f \in Encoders \ {e} : pc'[f] = pc[f]
      BY <1>2 DEF Create, Goto, OwnershipInv, OwnershipTypeOK
    <2> QED BY <1>2, <2>1, LeversFolded DEF Create
  <1>3. ASSUME NEW e \in Encoders, Encode(e)
        PROVE  LeverInv'
    <2>1. pc[e] # "wavelet" /\ \A f \in Encoders \ {e} : pc'[f] = pc[f]
      BY <1>3 DEF Encode, Goto, OwnershipInv, OwnershipTypeOK
    <2>2. options[e] \in Settings \cup {Off}
      BY DEF LeverInv, LeverTypeOK
    <2> QED BY <1>3, <2>1, <2>2, LeversFolded DEF Encode
  <1>4. ASSUME NEW e \in Encoders,
               \/ Destroy(e) \/ Created(e) \/ FillTable(e) \/ NotArmed(e)
               \/ ArmPooled(e) \/ ArmLeft(e) \/ ArmFresh(e)
        PROVE  LeverInv'
    <2>1. pc[e] # "wavelet" /\ \A f \in Encoders \ {e} : pc'[f] = pc[f]
      BY <1>4 DEF Destroy, Created, FillTable, NotArmed, ArmPooled, ArmLeft, ArmFresh,
                  Goto, OwnershipInv, OwnershipTypeOK
    <2>2. UNCHANGED <<options, used, g_pixel_clean, g_noise_clean_mode>>
      BY <1>4 DEF Destroy, Created, FillTable, NotArmed, ArmPooled, ArmLeft, ArmFresh,
                  Fill, leverVars
    <2> QED BY <2>1, <2>2, LeversUntouched
  <1>5. ASSUME NEW e \in Encoders,
               \/ Vc5(e) \/ WrapInPlace(e) \/ WrapDrifted(e) \/ WrapSpliced(e)
               \/ WrapBySdk(e) \/ Sdk(e) \/ \E b \in Blocks : Release(e, b)
        PROVE  LeverInv'
    <2>1. pc[e] # "wavelet" /\ \A f \in Encoders \ {e} : pc'[f] = pc[f]
      BY <1>5 DEF Vc5, WrapInPlace, WrapDrifted, WrapSpliced, WrapBySdk, Sdk, Release,
                  Output, Orphan, Deliver, Throw, Goto, OwnershipInv, OwnershipTypeOK
    <2>2. UNCHANGED <<options, used, g_pixel_clean, g_noise_clean_mode>>
      BY <1>5 DEF Vc5, WrapInPlace, WrapDrifted, WrapSpliced, WrapBySdk, Sdk, Release,
                  leverVars
    <2> QED BY <2>1, <2>2, LeversUntouched
  <1>6. ASSUME NEW e \in Encoders, Proceed(e)
        PROVE  LeverInv'
    BY <1>4, <1>5, <1>6, LeversRead, LeversQuantised DEF Proceed
  <1> QED BY <1>1, <1>2, <1>3, <1>4, <1>5, <1>6, StepOfLibrary

\* Pixel Clean and the profile of Noise Clean an encoder was created with are
\* never lost to another encoder's settings, whatever is created and folded
\* while its frame is under way (cpu_quant_tables_caq).  Nothing is said of the
\* strength, which is the last writer's, and of the ISO table, which every
\* frame clears and fills.
THEOREM LeversOnlyRise == Spec => []NotLowered
  <1> DEFINE IInv == OwnershipInv /\ LeverInv /\ worker \in Nat \ {0}
  <1>1. Init => IInv
    <2> SUFFICES ASSUME Init PROVE LeverInv
      BY OwnershipInit DEF Init
    <2>1. Off.pixel_clean = FALSE /\ Off.noise_clean_mode = 0
      BY DEF Off
    <2>2. /\ options = [e \in Encoders |-> Off] /\ used = [e \in Encoders |-> {}]
          /\ g_pixel_clean = FALSE /\ g_noise_clean_mode = 0
      BY DEF Init, LibraryInit, LeverInit
    <2>3. LeverTypeOK
      BY <2>2 DEF LeverTypeOK
    <2>4. \A e \in Encoders : Covered(e, g_pixel_clean, g_noise_clean_mode)
      <3>1. \A e \in Encoders : options[e] = Off
        BY <2>2
      <3>2. \A e \in Encoders : ~options[e].pixel_clean
        BY <2>1, <3>1
      <3>3. Off.noise_clean_mode <= g_noise_clean_mode
        BY <2>1, <2>2
      <3> QED BY <3>1, <3>2, <3>3 DEF Covered
    <2> QED BY <2>2, <2>3, <2>4 DEF LeverInv
  <1>2. IInv /\ [Next]_vars => IInv'
    BY OwnershipStep, LeversStep, WorkerIndex
  <1>3. IInv => NotLowered
    BY DEF LeverInv, Covered, NotLowered
  <1> QED BY <1>1, <1>2, <1>3, PTL DEF Spec

-----------------------------------------------------------------------------
(* The sums of pipeline_matrix                                             *)

Places == {"unborn", "top", "encode", "wav", "load", "ent", "release", "left"}

Among(f, S) == {w \in Encoders : f[w] \in S}

\* A sum counts the frames and the workers that have added to it and not yet
\* counted their frame.
SumInv ==
    /\ at \in [Encoders -> Places]
    /\ frames \in Nat /\ wav_sum \in Nat /\ ent_sum \in Nat
    /\ wav_sum = frames + Cardinality(Among(at, {"load", "ent", "release"}))
    /\ ent_sum = frames + Cardinality(Among(at, {"release"}))
    /\ main \in {"create", "created"} => Among(at, Places \ {"unborn"}) = {}
    /\ main = "start" => \A w \in Encoders : w >= worker => at[w] = "unborn"
    /\ main \in {"destroy", "exit"} => Among(at, Places \ {"unborn", "left"}) = {}

LEMMA AmongFinite ==
    \A f, S : IsFiniteSet(Among(f, S)) /\ Cardinality(Among(f, S)) \in Nat
  <1>1. IsFiniteSet(Encoders)
    BY FS_Interval, WorkersAssumption
  <1> QED BY <1>1, FS_Subset, FS_CardinalityType DEF Among

\* One worker moves.
LEMMA Moves ==
    ASSUME NEW w \in Encoders, NEW S, \A v \in Encoders \ {w} : at'[v] = at[v]
    PROVE  /\ at[w] \in S /\ at'[w] \in S
                => Cardinality(Among(at', S)) = Cardinality(Among(at, S))
           /\ at[w] \notin S /\ at'[w] \notin S
                => Cardinality(Among(at', S)) = Cardinality(Among(at, S))
           /\ at[w] \notin S /\ at'[w] \in S
                => Cardinality(Among(at', S)) = Cardinality(Among(at, S)) + 1
           /\ at[w] \in S /\ at'[w] \notin S
                => Cardinality(Among(at', S)) = Cardinality(Among(at, S)) - 1
  <1>1. w \in Among(at, S) <=> at[w] \in S
    BY DEF Among
  <1>2. Among(at', S) =
            IF at'[w] \in S THEN Among(at, S) \cup {w} ELSE Among(at, S) \ {w}
    BY DEF Among
  <1>3. Among(at, S) \cup {w} = Among(at, S) \/ at[w] \notin S
    BY <1>1
  <1>4. Among(at, S) \ {w} = Among(at, S) \/ at[w] \in S
    BY <1>1
  <1>5. w \notin Among(at, S)
            => Cardinality(Among(at, S) \cup {w}) = Cardinality(Among(at, S)) + 1
    BY AmongFinite, FS_AddElement
  <1>6. w \in Among(at, S)
            => Cardinality(Among(at, S) \ {w}) = Cardinality(Among(at, S)) - 1
    BY AmongFinite, FS_RemoveElement
  <1> QED BY <1>1, <1>2, <1>3, <1>4, <1>5, <1>6

LEMMA SumsInit == Init => SumInv
  <1> SUFFICES ASSUME Init PROVE SumInv
    OBVIOUS
  <1>1. \A w \in Encoders : at[w] = "unborn"
    BY DEF Init
  <1>2. \A S : "unborn" \notin S => Among(at, S) = {}
    BY <1>1 DEF Among
  <1>3. Cardinality(Among(at, {"load", "ent", "release"})) = 0
        /\ Cardinality(Among(at, {"release"})) = 0
    BY <1>2, FS_EmptySet
  <1>4. at \in [Encoders -> Places] /\ main = "create"
    BY DEF Init, Places
  <1>5. frames = 0 /\ wav_sum = 0 /\ ent_sum = 0
    BY DEF Init
  <1> QED BY <1>2, <1>3, <1>4, <1>5 DEF SumInv

\* The steps of a worker's own.
LEMMA SumsWorker ==
    ASSUME SumInv, NEW w \in Encoders, WorkerSteps(w)
    PROVE  SumInv'
  <1> USE DEF SumInv
  <1>1. /\ at[w] \in {"top", "encode", "wav", "load", "ent", "release"}
        /\ \E there \in Places \ {"unborn"} : at' = [at EXCEPT ![w] = there]
        /\ UNCHANGED <<main, worker>>
    BY DEF WorkerSteps, EncodeFrame, Leave, Failed, LoadWav, ExchangeWav, LoadEnt,
           ExchangeEnt, ReleaseFrame, Worker, mainVars, Places
  <1>2. at' \in [Encoders -> Places]
    BY <1>1
  <1>3. main \notin {"create", "created", "destroy", "exit"}
    BY <1>1 DEF Among, Places
  <1>4. main' = "start" => \A v \in Encoders : v >= worker' => at'[v] = "unborn"
    BY <1>1
  <1>5. /\ frames' \in Nat /\ wav_sum' \in Nat /\ ent_sum' \in Nat
        /\ wav_sum' = frames' + Cardinality(Among(at', {"load", "ent", "release"}))
        /\ ent_sum' = frames' + Cardinality(Among(at', {"release"}))
    <2> DEFINE A == {"load", "ent", "release"}
               B == {"release"}
    <2>0. Cardinality(Among(at, A)) \in Nat /\ Cardinality(Among(at, B)) \in Nat
      BY AmongFinite
    <2>1. CASE /\ UNCHANGED <<frames, wav_sum, ent_sum>>
               /\ \E here \in Places, there \in Places :
                     /\ at[w] = here /\ at' = [at EXCEPT ![w] = there]
                     /\ (here \in A <=> there \in A) /\ (here \in B <=> there \in B)
      <3>1. PICK here \in Places, there \in Places :
                /\ at[w] = here /\ at' = [at EXCEPT ![w] = there]
                /\ (here \in A <=> there \in A) /\ (here \in B <=> there \in B)
        BY <2>1
      <3> HIDE DEF A, B
      <3>2. Cardinality(Among(at', A)) = Cardinality(Among(at, A))
            /\ Cardinality(Among(at', B)) = Cardinality(Among(at, B))
        BY <3>1, Moves
      <3> QED BY <2>1, <3>2 DEF A, B
    <2>2. CASE /\ at[w] = "wav" /\ at' = [at EXCEPT ![w] = "load"]
               /\ wav_sum' = wav_sum + 1 /\ UNCHANGED <<frames, ent_sum>>
      <3>0. "wav" \notin A /\ "load" \in A /\ "wav" \notin B /\ "load" \notin B
        OBVIOUS
      <3> HIDE DEF A, B
      <3>1. Cardinality(Among(at', A)) = Cardinality(Among(at, A)) + 1
            /\ Cardinality(Among(at', B)) = Cardinality(Among(at, B))
        <4>1. /\ at[w] = "wav" /\ at'[w] = "load"
              /\ \A v \in Encoders \ {w} : at'[v] = at[v]
          BY <2>2
        <4> QED BY <3>0, <4>1, Moves
      <3> QED BY <2>0, <2>2, <3>1 DEF A, B
    <2>3. CASE /\ at[w] = "ent" /\ at' = [at EXCEPT ![w] = "release"]
               /\ ent_sum' = ent_sum + 1 /\ UNCHANGED <<frames, wav_sum>>
      <3>0. "ent" \in A /\ "release" \in A /\ "ent" \notin B /\ "release" \in B
        OBVIOUS
      <3> HIDE DEF A, B
      <3>1. Cardinality(Among(at', A)) = Cardinality(Among(at, A))
            /\ Cardinality(Among(at', B)) = Cardinality(Among(at, B)) + 1
        <4>1. /\ at[w] = "ent" /\ at'[w] = "release"
              /\ \A v \in Encoders \ {w} : at'[v] = at[v]
          BY <2>3
        <4> QED BY <3>0, <4>1, Moves
      <3> QED BY <2>0, <2>3, <3>1 DEF A, B
    <2>4. CASE /\ at[w] = "release" /\ at' = [at EXCEPT ![w] = "top"]
               /\ frames' = frames + 1 /\ UNCHANGED <<wav_sum, ent_sum>>
      <3>0. "release" \in A /\ "top" \notin A /\ "release" \in B /\ "top" \notin B
        OBVIOUS
      <3> HIDE DEF A, B
      <3>1. Cardinality(Among(at', A)) = Cardinality(Among(at, A)) - 1
            /\ Cardinality(Among(at', B)) = Cardinality(Among(at, B)) - 1
        <4>1. /\ at[w] = "release" /\ at'[w] = "top"
              /\ \A v \in Encoders \ {w} : at'[v] = at[v]
          BY <2>4
        <4> QED BY <3>0, <4>1, Moves
      <3> QED BY <2>0, <2>4, <3>1 DEF A, B
    <2>5. CASE EncodeFrame(w) \/ Leave(w) \/ Failed(w) \/ LoadWav(w) \/ LoadEnt(w)
      BY <2>1, <2>5 DEF EncodeFrame, Leave, Failed, LoadWav, LoadEnt, Worker, Places
    <2>6. CASE ExchangeWav(w)
      BY <2>1, <2>2, <2>6 DEF ExchangeWav, Worker, Places
    <2>7. CASE ExchangeEnt(w)
      BY <2>1, <2>3, <2>7 DEF ExchangeEnt, Worker, Places
    <2>8. CASE ReleaseFrame(w)
      BY <2>4, <2>8 DEF ReleaseFrame, Worker
    <2> QED BY <2>5, <2>6, <2>7, <2>8 DEF WorkerSteps
  <1> QED BY <1>1, <1>2, <1>3, <1>4, <1>5

LEMMA SumsMain ==
    ASSUME SumInv, worker \in Nat \ {0}, MainSteps
    PROVE  SumInv'
  <1> USE WorkersAssumption DEF SumInv, Main
  <1>1. CASE StartNext
    <2>1. worker \in Encoders /\ at[worker] = "unborn"
      BY <1>1 DEF StartNext
    <2>2. /\ at' = [at EXCEPT ![worker] = "top"] /\ worker' = worker + 1
          /\ UNCHANGED <<main, frames, wav_sum, ent_sum>> /\ main = "start"
      BY <1>1 DEF StartNext
    <2>3. /\ Cardinality(Among(at', {"load", "ent", "release"}))
               = Cardinality(Among(at, {"load", "ent", "release"}))
          /\ Cardinality(Among(at', {"release"})) = Cardinality(Among(at, {"release"}))
      BY <2>1, <2>2 DEF Among
    <2>4. at' \in [Encoders -> Places]
      BY <2>2 DEF Places
    <2>5. \A w \in Encoders : w >= worker' => at'[w] = "unborn"
      BY <2>1, <2>2
    <2> QED BY <2>2, <2>3, <2>4, <2>5
  <1>2. CASE StartThreads
    <2>1. UNCHANGED <<at, frames, wav_sum, ent_sum>> /\ main' = "start" /\ main = "create"
      BY <1>2 DEF StartThreads, workerVars
    <2>2. \A w \in Encoders : at[w] = "unborn"
      BY <2>1 DEF Among
    <2> QED BY <2>1, <2>2
  <1>3. CASE JoinThreads
    <2>1. UNCHANGED <<at, frames, wav_sum, ent_sum>> /\ main' = "destroy"
      BY <1>3 DEF JoinThreads, workerVars
    <2>2. Among(at, Places \ {"unborn", "left"}) = {}
      BY <1>3 DEF JoinThreads, Among
    <2> QED BY <2>1, <2>2
  <1>4. CASE CreateNext \/ CreateReturned
    <2>1. UNCHANGED <<at, frames, wav_sum, ent_sum>>
          /\ main \in {"create", "created"} /\ main' \in {"create", "created", "exit"}
      BY <1>4 DEF CreateNext, CreateReturned, workerVars
    <2>2. Among(at, Places \ {"unborn"}) = {}
      BY <2>1
    <2>3. Among(at, Places \ {"unborn", "left"}) = {}
      BY <2>2 DEF Among
    <2> QED BY <2>1, <2>2, <2>3
  <1>5. CASE StopThreads \/ DestroyNext \/ Return
    <2>1. UNCHANGED <<at, frames, wav_sum, ent_sum>>
          /\ \/ main' = "join"
             \/ (main = "destroy" /\ main' \in {"destroy", "exit"})
      <3>1. CASE StopThreads
        BY <3>1, Zenon DEF StopThreads, workerVars
      <3>2. CASE DestroyNext
        BY <3>2, Zenon DEF DestroyNext, workerVars, Main
      <3>3. CASE Return
        BY <3>3 DEF Return, workerVars
      <3> QED BY <1>5, <3>1, <3>2, <3>3
    <2> QED BY <2>1
  <1> QED BY <1>1, <1>2, <1>3, <1>4, <1>5 DEF MainSteps

LEMMA SumsStep ==
    ASSUME SumInv, worker \in Nat \ {0}, [Next]_vars
    PROVE  SumInv'
  <1>1. CASE UNCHANGED <<mainVars, workerVars>>
    BY <1>1 DEF mainVars, workerVars, SumInv
  <1>2. CASE UNCHANGED vars
    BY <1>1, <1>2 DEF vars
  <1>3. ASSUME NEW e \in Encoders, Camera(e) \/ Call(e)
        PROVE  SumInv'
    BY <1>1, <1>3 DEF Camera, Call
  <1> QED BY <1>2, <1>3, SumsMain, SumsWorker DEF Next

\* No worker's timing is missing from a sum and none is counted twice, however
\* many workers add to it at a time (pipeline_matrix.cpp, the compare_exchange
\* loops).
THEOREM TimingsAddUp == Spec => []SumsExact
  <1> DEFINE IInv == SumInv /\ worker \in Nat \ {0}
  <1>1. Init => IInv
    BY SumsInit DEF Init
  <1>2. IInv /\ [Next]_vars => IInv'
    BY SumsStep, WorkerIndex
  <1>3. IInv => SumsExact
    <2> SUFFICES ASSUME SumInv, main \in {"destroy", "exit"}
                 PROVE  wav_sum = frames /\ ent_sum = frames
      BY DEF SumsExact
    <2>1. Among(at, Places \ {"unborn", "left"}) = {}
      BY DEF SumInv
    <2>2. Among(at, {"load", "ent", "release"}) = {} /\ Among(at, {"release"}) = {}
      BY <2>1 DEF Among, Places
    <2>3. /\ Cardinality(Among(at, {"load", "ent", "release"})) = 0
          /\ Cardinality(Among(at, {"release"})) = 0
      BY <2>2, FS_EmptySet
    <2>4. /\ frames \in Nat
          /\ wav_sum = frames + Cardinality(Among(at, {"load", "ent", "release"}))
          /\ ent_sum = frames + Cardinality(Among(at, {"release"}))
      BY DEF SumInv
    <2> QED BY <2>3, <2>4
  <1> QED BY <1>1, <1>2, <1>3, PTL DEF Spec
=============================================================================
