---------------------------- MODULE EncoderLibrary ----------------------------
(***************************************************************************)
(* The library: encoders are created, encode, hand their containers to the *)
(* caller and take them back, fail and are destroyed, several at a time.   *)
(* What they share is the heap, the splice template of the process and the *)
(* levers (EncoderLevers).                                                 *)
(*                                                                         *)
(* An encoder keeps up to two containers of the full capacity: inplace     *)
(* while a frame is encoded into it, pool for the next one.  The last one  *)
(* it handed out is recognised by its address when it is released.         *)
(* How the template is learnt byte by byte is SharedSplice's subject; here *)
(* it is one step under the template's mutex.                              *)
(***************************************************************************)
EXTENDS EncoderLevers, FiniteSets

CONSTANTS Blocks,       \* the heap
          Sizes,        \* payload sizes
          MaxFrames,    \* bound: frames handed to an encoder
          Nil

SPLICE_VERIFY_FRAMES == 3

ASSUME LibraryAssumption == MaxFrames \in Nat /\ Nil \notin Blocks

VARIABLES pc, frame, size,       \* of each encoder's call
          result,                \* what its last call returned
          inplace_buf_, inplace_pending_, pool_buf_, pool_last_out_,
          held,                  \* the containers its caller holds
          heap,                  \* of each block what it is and the frame in it
          template,              \* [size, verified, failed]
          failedHolding          \* history: an encode failed with a block in hand

ownership == <<inplace_buf_, inplace_pending_, pool_buf_, pool_last_out_, held>>
libraryVars == <<leverVars, pc, frame, size, result, ownership, heap,
                 template, failedHolding>>

Free == [kind |-> "free", frame |-> 0]

Without(S) == [b \in Blocks |-> IF b \in S THEN Free ELSE heap[b]]

Wrapped(e) == [kind |-> "output", frame |-> frame[e]]

ready == template.verified = SPLICE_VERIFY_FRAMES /\ ~template.failed

Goto(e, label) == pc' = [pc EXCEPT ![e] = label]

\* The process may have encoded before.
LibraryInit ==
    /\ LeverInit
    /\ pc = [e \in Encoders |-> "absent"]
    /\ frame = [e \in Encoders |-> 0]
    /\ size = [e \in Encoders |-> Nil]
    /\ result = [e \in Encoders |-> 0]
    /\ inplace_buf_ = [e \in Encoders |-> Nil]
    /\ inplace_pending_ = [e \in Encoders |-> FALSE]
    /\ pool_buf_ = [e \in Encoders |-> Nil]
    /\ pool_last_out_ = [e \in Encoders |-> Nil]
    /\ held = [e \in Encoders |-> {}]
    /\ heap = [b \in Blocks |-> Free]
    /\ template \in {[size |-> Nil, verified |-> 0, failed |-> FALSE]}
          \cup [size : Sizes, verified : {SPLICE_VERIFY_FRAMES}, failed : {FALSE}]
    /\ failedHolding = FALSE

-----------------------------------------------------------------------------
(* cinepi_qraw_create and cinepi_qraw_destroy                              *)

Create(e, c) ==
    /\ pc[e] = "absent"
    /\ Fold(e, c)
    /\ Goto(e, "creating")
    /\ UNCHANGED <<frame, size, result, ownership, heap, template, failedHolding>>

Created(e) ==
    /\ pc[e] = "creating"
    /\ Fill(e)
    /\ pc' \in {[pc EXCEPT ![e] = "idle"], [pc EXCEPT ![e] = "absent"]}
    /\ UNCHANGED <<frame, size, result, ownership, heap, template, failedHolding>>

\* The caller holds nothing of an encoder it destroys.
Destroy(e) ==
    /\ pc[e] = "idle" /\ held[e] = {}
    /\ heap' = Without({inplace_buf_[e], pool_buf_[e]})
    /\ inplace_buf_' = [inplace_buf_ EXCEPT ![e] = Nil]
    /\ inplace_pending_' = [inplace_pending_ EXCEPT ![e] = FALSE]
    /\ pool_buf_' = [pool_buf_ EXCEPT ![e] = Nil]
    /\ pool_last_out_' = [pool_last_out_ EXCEPT ![e] = Nil]
    /\ Goto(e, "absent")
    /\ UNCHANGED <<leverVars, frame, size, result, held, template, failedHolding>>

-----------------------------------------------------------------------------
(* cinepi_qraw_encode: the frame's levers and its wavelet                  *)

Encode(e) ==
    /\ pc[e] = "idle" /\ frame[e] < MaxFrames
    /\ frame' = [frame EXCEPT ![e] = @ + 1]
    /\ Fold(e, options[e])
    /\ Goto(e, "fill")
    /\ result' = [result EXCEPT ![e] = 0]
    /\ UNCHANGED <<size, ownership, heap, template, failedHolding>>

FillTable(e) ==
    /\ pc[e] = "fill"
    /\ Fill(e)
    /\ Goto(e, "read")
    /\ UNCHANGED <<frame, size, result, ownership, heap, template, failedHolding>>

ReadLevers(e) ==
    /\ pc[e] = "read"
    /\ Read(e)
    /\ Goto(e, "wavelet")
    /\ UNCHANGED <<frame, size, result, ownership, heap, template,
                   failedHolding>>

Wavelet(e) ==
    /\ pc[e] = "wavelet"
    /\ Quantised(e)
    /\ Goto(e, "arm")
    /\ UNCHANGED <<frame, size, result, ownership, heap, template,
                   failedHolding>>

\* catch: -3.  What the throw leaves behind stays.
Throw(e) ==
    /\ Goto(e, "idle")
    /\ result' = [result EXCEPT ![e] = -3]
    /\ size' = [size EXCEPT ![e] = Nil]

WaveletFails(e) ==
    /\ pc[e] = "wavelet"
    /\ Quantised(e)
    /\ Throw(e)
    /\ UNCHANGED <<frame, ownership, heap, template, failedHolding>>

-----------------------------------------------------------------------------
(* DirectGprEncoder::encode_hybrid                                         *)

\* Seeded fault: the pool keeps the container that is taken from it.
KeepsPool(e) == pool_buf_

Taken(e) == [pool_buf_ EXCEPT ![e] = Nil]

NotArmed(e) ==
    /\ pc[e] = "arm" /\ ~ready
    /\ Goto(e, "vc5")
    /\ UNCHANGED <<leverVars, frame, size, result, ownership, heap, template,
                   failedHolding>>

\* The retained container, whatever a failed encode has left in inplace_buf_.
ArmPooled(e) ==
    /\ pc[e] = "arm" /\ ready /\ pool_buf_[e] # Nil
    /\ inplace_buf_' = [inplace_buf_ EXCEPT ![e] = pool_buf_[e]]
    /\ pool_buf_' = Taken(e)
    /\ inplace_pending_' = [inplace_pending_ EXCEPT ![e] = TRUE]
    /\ Goto(e, "vc5")
    /\ UNCHANGED <<leverVars, frame, size, result, pool_last_out_, held, heap,
                   template, failedHolding>>

ArmLeft(e) ==
    /\ pc[e] = "arm" /\ ready /\ pool_buf_[e] = Nil /\ inplace_buf_[e] # Nil
    /\ inplace_pending_' = [inplace_pending_ EXCEPT ![e] = TRUE]
    /\ Goto(e, "vc5")
    /\ UNCHANGED <<leverVars, frame, size, result, inplace_buf_, pool_buf_,
                   pool_last_out_, held, heap, template, failedHolding>>

\* Without memory the frame is not encoded in place.
ArmFresh(e) ==
    /\ pc[e] = "arm" /\ ready /\ pool_buf_[e] = Nil /\ inplace_buf_[e] = Nil
    /\ \/ \E b \in Blocks :
            /\ heap[b] = Free
            /\ heap' = [heap EXCEPT ![b] = [kind |-> "container", frame |-> 0]]
            /\ inplace_buf_' = [inplace_buf_ EXCEPT ![e] = b]
            /\ inplace_pending_' = [inplace_pending_ EXCEPT ![e] = TRUE]
       \/ /\ \A b \in Blocks : heap[b] # Free
          /\ UNCHANGED <<heap, inplace_buf_, inplace_pending_>>
    /\ Goto(e, "vc5")
    /\ UNCHANGED <<leverVars, frame, size, result, pool_buf_, pool_last_out_, held,
                   template, failedHolding>>

\* The entropy stage writes into the container, if one is armed.
Vc5(e) ==
    /\ pc[e] = "vc5"
    /\ heap' = IF inplace_pending_[e]
               THEN [heap EXCEPT ![inplace_buf_[e]].frame = frame[e]] ELSE heap
    /\ \/ /\ \E s \in Sizes : size' = [size EXCEPT ![e] = s]
          /\ Goto(e, "wrap")
          /\ UNCHANGED <<result, failedHolding>>
       \/ /\ Throw(e)
          /\ failedHolding' = (failedHolding \/ inplace_pending_[e])
    /\ UNCHANGED <<leverVars, frame, ownership, template>>

SizeMatches(e) == size[e] = template.size

Deliver(e, b) ==
    /\ held' = [held EXCEPT ![e] = @ \cup {b}]
    /\ size' = [size EXCEPT ![e] = Nil]
    /\ Goto(e, "idle")
    /\ UNCHANGED result

\* Seeded fault: the encoder keeps the container it hands out.
StillArmed(e) == inplace_buf_

Emptied(e) == [inplace_buf_ EXCEPT ![e] = Nil]

\* Prefix and suffix go around the payload where it lies.
WrapInPlace(e) ==
    /\ pc[e] = "wrap" /\ inplace_pending_[e] /\ SizeMatches(e)
    /\ Deliver(e, inplace_buf_[e])
    /\ pool_last_out_' = [pool_last_out_ EXCEPT ![e] = inplace_buf_[e]]
    /\ inplace_buf_' = Emptied(e)
    /\ inplace_pending_' = [inplace_pending_ EXCEPT ![e] = FALSE]
    /\ UNCHANGED <<leverVars, frame, pool_buf_, heap, template,
                   failedHolding>>

Dropped(e) == {inplace_buf_[e]}

\* The payload has not the template's size: the SDK wraps it where it lies,
\* and the container is dropped.
WrapDrifted(e) ==
    /\ pc[e] = "wrap" /\ inplace_pending_[e] /\ ~SizeMatches(e)
    /\ inplace_buf_' = [inplace_buf_ EXCEPT ![e] = Nil]
    /\ inplace_pending_' = [inplace_pending_ EXCEPT ![e] = FALSE]
    /\ \/ \E b \in Blocks :
            /\ heap[b] = Free
            /\ heap' = [Without(Dropped(e)) EXCEPT ![b] = Wrapped(e)]
            /\ Deliver(e, b)
       \/ heap' = Without(Dropped(e)) /\ Throw(e) /\ UNCHANGED held
    /\ UNCHANGED <<leverVars, frame, pool_buf_, pool_last_out_, template,
                   failedHolding>>

\* A fresh block around the payload: shared_splice_try, or the SDK.
Fresh(e, b) ==
    /\ heap[b] = Free
    /\ heap' = [heap EXCEPT ![b] = Wrapped(e)]

Output(e) ==
    /\ \/ \E b \in Blocks : Fresh(e, b) /\ Deliver(e, b)
       \/ Throw(e) /\ UNCHANGED <<heap, held>>
    /\ UNCHANGED failedHolding

\* What throws once the block is there, learning from it or finding that it is
\* no TIFF, leaves it to nobody: cinepi_qraw_encode's out is a local variable.
Orphan(e) ==
    /\ \E b \in Blocks : Fresh(e, b)
    /\ Throw(e)
    /\ failedHolding' = TRUE
    /\ UNCHANGED held

WrapSpliced(e) ==
    /\ pc[e] = "wrap" /\ ~inplace_pending_[e] /\ ready /\ SizeMatches(e)
    /\ Output(e) \/ Orphan(e)
    /\ UNCHANGED <<leverVars, frame, inplace_buf_, inplace_pending_, pool_buf_,
                   pool_last_out_, template>>

\* The template's mutex is asked for after the decision.
WrapBySdk(e) ==
    /\ pc[e] = "wrap" /\ ~inplace_pending_[e] /\ ~(ready /\ SizeMatches(e))
    /\ Goto(e, "sdk")
    /\ UNCHANGED <<leverVars, frame, size, result, ownership, heap, template,
                   failedHolding>>

\* What the SDK's output teaches: the template, or one more verified frame, or
\* that the template cannot be trusted.  A template that runs out of memory half
\* way has a prefix and no size: no frame completes it, as if it had failed.
Learnt(e) ==
    IF template.failed \/ ready THEN {template}
    ELSE IF template.size = Nil
         THEN {[size |-> size[e], verified |-> 1, failed |-> FALSE],
               [template EXCEPT !.failed = TRUE]}
         ELSE IF SizeMatches(e)
              THEN {[template EXCEPT !.verified = @ + 1],
                    [template EXCEPT !.failed = TRUE]}
              ELSE {template}

Sdk(e) ==
    /\ pc[e] = "sdk"
    /\ \/ Output(e) /\ template' \in IF held' # held THEN Learnt(e) ELSE {template}
       \/ Orphan(e) /\ template' \in Learnt(e) \cup {template}
    /\ UNCHANGED <<leverVars, frame, inplace_buf_, inplace_pending_, pool_buf_,
                   pool_last_out_>>

-----------------------------------------------------------------------------
(* cinepi_qraw_release                                                     *)

\* Seeded fault: every output that comes back is retained.
AnyOutput(e, b) == TRUE

Recognised(e, b) == b = pool_last_out_[e]

\* The last container that was handed out is retained, if none is; any other
\* block is freed.
Release(e, b) ==
    /\ pc[e] = "idle" /\ b \in held[e]
    /\ held' = [held EXCEPT ![e] = @ \ {b}]
    /\ pool_last_out_' = IF b = pool_last_out_[e]
                         THEN [pool_last_out_ EXCEPT ![e] = Nil] ELSE pool_last_out_
    /\ IF Recognised(e, b) /\ pool_buf_[e] = Nil
       THEN pool_buf_' = [pool_buf_ EXCEPT ![e] = b] /\ UNCHANGED heap
       ELSE heap' = Without({b}) /\ UNCHANGED pool_buf_
    /\ UNCHANGED <<leverVars, pc, frame, size, result, inplace_buf_,
                   inplace_pending_, template, failedHolding>>

-----------------------------------------------------------------------------
\* The steps of a call that is under way.
Proceed(e) ==
    \/ Created(e) \/ FillTable(e) \/ ReadLevers(e) \/ Wavelet(e) \/ WaveletFails(e)
    \/ NotArmed(e) \/ ArmPooled(e) \/ ArmLeft(e) \/ ArmFresh(e) \/ Vc5(e)
    \/ WrapInPlace(e) \/ WrapDrifted(e) \/ WrapSpliced(e) \/ WrapBySdk(e) \/ Sdk(e)

-----------------------------------------------------------------------------
Retained(e) == {inplace_buf_[e], pool_buf_[e]} \ {Nil}
Owned(e)    == Retained(e) \cup held[e]

\* No block is in two hands: in an encoder's inplace_buf_ or pool_buf_ or in
\* its caller's hands, in one of them only and of one encoder only, and the
\* allocator does not have it at the same time.
OneHolder ==
    /\ \A e \in Encoders :
         /\ Retained(e) \cap held[e] = {}
         /\ inplace_buf_[e] # Nil => inplace_buf_[e] # pool_buf_[e]
         /\ \A b \in Owned(e) : heap[b] # Free
    /\ \A e, f \in Encoders : e # f => Owned(e) \cap Owned(f) = {}

\* What an encoder retains, or will recognise by its address, is a container
\* of the full capacity, and what it will recognise is still out.
RetainedFits ==
    \A e \in Encoders :
        /\ \A b \in Retained(e) : heap[b].kind = "container"
        /\ pool_last_out_[e] # Nil =>
             /\ heap[pool_last_out_[e]].kind = "container"
             /\ pool_last_out_[e] \in held[e]

\* Every block that is allocated is in somebody's hands, over calls that fail
\* with none, drifting sizes, destroyed and recreated encoders; until an encode
\* fails that has one: a container it was encoding into, whose address the next
\* may overwrite (ArmPooled), or its output (Orphan).
NothingLost ==
    ~failedHolding =>
        \A b \in Blocks : heap[b] # Free => \E e \in Encoders : b \in Owned(e)

\* No block is shared, and none leaks but through a call that fails with one:
\* until then every block that is allocated is in exactly one hand, of one
\* encoder or of its caller.
Accounted == OneHolder /\ NothingLost

Service == INSTANCE EncoderService WITH
    open    <- {e \in Encoders : pc[e] \notin {"absent", "creating"}},
    busy    <- {e \in Encoders : pc[e] \notin {"absent", "creating", "idle"}},
    outputs <- [e \in Encoders |-> {heap[b].frame : b \in held[e]}]

\* The library's encoders give the service the header promises.
ImplementsService == Service!Spec
=============================================================================
