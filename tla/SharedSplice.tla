---------------------------- MODULE SharedSplice ----------------------------
(***************************************************************************)
(* DirectGprEncoder: how the entropy workers put a VC-5 payload into its   *)
(* DNG container.  The Adobe SDK builds the container; the bytes around a  *)
(* payload (prefix and suffix) are learnt from its first output, compared  *)
(* with its output for three frames, and from then on spliced around every *)
(* payload of the learnt size without the SDK.                             *)
(*                                                                         *)
(* With splice_shared all encoders learn one template under                *)
(* g_shared_splice.mu, publish it with `ready`, and read it without a lock *)
(* from then on; otherwise each encoder has a template of its own.  Both   *)
(* protocols are the same code over another owner, so the template, its    *)
(* count and its flags are functions of the owner here.                    *)
(*                                                                         *)
(* A payload is its size and the surround the SDK would put around it.     *)
(***************************************************************************)
EXTENDS Naturals, FiniteSets

CONSTANTS Encoders,       \* one per entropy worker
          Payloads,       \* [size, around] records
          Configurations, \* option records of a run
          MaxFrames,      \* bound: frames per encoder
          Everyone,       \* the owner of the shared template
          Nil

SPLICE_VERIFY_FRAMES == 3

Options == [dng_splice : BOOLEAN, splice_shared : BOOLEAN,
            splice_reuse : BOOLEAN, shared_reuse : BOOLEAN,
            shared_inplace : BOOLEAN, local_inplace : BOOLEAN]

\* What surrounds a payload, and a finished output.
Surrounds == [prefix : Nat \cup {Nil}, suffix : Nat \cup {Nil}]
Outputs   == [payload : Payloads, around : Surrounds, spliced : BOOLEAN]

ASSUME SpliceAssumption ==
    /\ IsFiniteSet(Encoders) /\ Everyone \notin Encoders
    /\ Payloads \subseteq [size : Nat, around : Nat]
    /\ Configurations \subseteq Options
    /\ MaxFrames \in Nat
    /\ Nil \notin Nat \cup Payloads \cup Encoders \cup Surrounds \cup Outputs

Owners  == Encoders \cup {Everyone}
Mutexes == {"g_shared_splice.mu", "dng_wrap_mutex", "dng_wrap_mutex_ip"}

VARIABLES options,        \* the flags the encoders were created with
          pc, frames,     \* per encoder
          armed,          \* inplace_pending_
          payload,        \* vc5
          holder,         \* of each mutex
          prefix, suffix, \* the template, per owner: what it puts around
          payload_size,
          verified,       \* verified, splice_verified_frames
          ready,          \* ready, splice_active
          failed,         \* failed, splice_failed
          container,      \* container_: the surround primed in it
          out             \* the frame's output

template == <<prefix, suffix, payload_size>>
vars == <<options, pc, frames, armed, payload, holder, template, verified,
          ready, failed, container, out>>

Init ==
    /\ options \in Configurations
    /\ pc = [e \in Encoders |-> "idle"]
    /\ frames = [e \in Encoders |-> 0]
    /\ armed = [e \in Encoders |-> FALSE]
    /\ payload = [e \in Encoders |-> Nil]
    /\ holder = [m \in Mutexes |-> Nil]
    /\ prefix = [o \in Owners |-> Nil]
    /\ suffix = [o \in Owners |-> Nil]
    /\ payload_size = [o \in Owners |-> 0]
    /\ verified = [o \in Owners |-> 0]
    /\ ready = [o \in Owners |-> FALSE]
    /\ failed = [o \in Owners |-> FALSE]
    /\ container = [e \in Encoders |-> Nil]
    /\ out = [e \in Encoders |-> Nil]

Shared   == options.dng_splice /\ options.splice_shared
Owner(e) == IF Shared THEN Everyone ELSE e
Mutex(e) == CASE armed[e] -> "dng_wrap_mutex_ip"
              [] ~armed[e] /\ Shared -> "g_shared_splice.mu"
              [] OTHER -> "dng_wrap_mutex"
Learns   == options.dng_splice
SizeMatches(e) == payload[e].size = payload_size[Owner(e)]
InPlace  == /\ ~(options.dng_splice /\ options.splice_reuse)
            /\ \/ Shared /\ options.shared_inplace
               \/ Learns /\ ~Shared /\ options.local_inplace
Retained == IF Shared THEN options.shared_reuse
                      ELSE options.dng_splice /\ options.splice_reuse

Goto(e, label) == pc' = [pc EXCEPT ![e] = label]
Release(e)     == holder' = [holder EXCEPT ![Mutex(e)] = Nil]
Finish(e)      == Goto(e, "idle") /\ armed' = [armed EXCEPT ![e] = FALSE]

-----------------------------------------------------------------------------
(* encode and encode_hybrid, up to the wrap.                               *)

\* A trusted template lets the payload be encoded straight into its
\* container, unless the container cannot be allocated.
Arm(e) ==
    /\ pc[e] = "idle" /\ frames[e] < MaxFrames
    /\ frames' = [frames EXCEPT ![e] = @ + 1]
    /\ \E yes \in BOOLEAN :
          /\ yes => InPlace /\ ready[Owner(e)]
          /\ armed' = [armed EXCEPT ![e] = yes]
    /\ out' = [out EXCEPT ![e] = Nil]
    /\ Goto(e, "encode")
    /\ UNCHANGED <<options, payload, holder, template, verified, ready,
                   failed, container>>

Encode(e) ==
    /\ pc[e] = "encode"
    /\ \E p \in Payloads : payload' = [payload EXCEPT ![e] = p]
    /\ Goto(e, "wrap")
    /\ UNCHANGED <<options, frames, armed, holder, template, verified, ready,
                   failed, container, out>>

-----------------------------------------------------------------------------
(* The splice.                                                             *)

\* Seeded fault: the payload's size is not compared with the template's.
AnySize(e) == /\ pc[e] = "wrap"
              /\ armed[e] \/ ready[Owner(e)]

\* Seeded fault: a template that is learnt is used before it is verified.
SplicesUnverified(e) == /\ pc[e] = "wrap"
                        /\ armed[e] \/ prefix[Owner(e)] # Nil
                        /\ SizeMatches(e)

\* shared_splice_reuse_try, shared_splice_try, splice_active, or armed.
CanSplice(e) == /\ pc[e] = "wrap"
                /\ armed[e] \/ ready[Owner(e)]
                /\ SizeMatches(e)

StartSplice(e) ==
    /\ CanSplice(e)
    /\ Goto(e, "splice")
    /\ UNCHANGED <<options, frames, armed, payload, holder, template,
                   verified, ready, failed, container, out>>

\* Prefix and suffix are copied around the payload, or were copied into the
\* retained container_ when it was primed.
Splice(e) ==
    LET fresh == [prefix |-> prefix[Owner(e)], suffix |-> suffix[Owner(e)]]
        kept  == Retained /\ ~armed[e]
        used  == IF kept /\ container[e] # Nil THEN container[e] ELSE fresh
    IN /\ pc[e] = "splice"
       /\ container' = IF kept THEN [container EXCEPT ![e] = used]
                               ELSE container
       /\ out' = [out EXCEPT ![e] = [payload |-> payload[e], around |-> used,
                                     spliced |-> TRUE]]
       /\ Finish(e)
       /\ UNCHANGED <<options, frames, payload, holder, template, verified,
                      ready, failed>>

-----------------------------------------------------------------------------
(* The SDK path.                                                           *)

\* The decision is made before the mutex is taken.
Decline(e) ==
    /\ pc[e] = "wrap" /\ ~CanSplice(e)
    /\ Goto(e, "lock")
    /\ UNCHANGED <<options, frames, armed, payload, holder, template,
                   verified, ready, failed, container, out>>

Lock(e) ==
    /\ pc[e] = "lock" /\ holder[Mutex(e)] = Nil
    /\ holder' = [holder EXCEPT ![Mutex(e)] = e]
    /\ Goto(e, "sdk")
    /\ UNCHANGED <<options, frames, armed, payload, template, verified,
                   ready, failed, container, out>>

\* gpr_convert_preencoded_vc5_to_gpr; an armed encoder then drops its
\* container and is done.
Wrap(e) ==
    LET p == payload[e]
    IN /\ pc[e] = "sdk"
       /\ out' = [out EXCEPT ![e] =
                    [payload |-> p,
                     around  |-> [prefix |-> p.around, suffix |-> p.around],
                     spliced |-> FALSE]]
       /\ IF armed[e] THEN Finish(e) /\ Release(e)
                      ELSE Goto(e, "learn") /\ UNCHANGED <<armed, holder>>
       /\ UNCHANGED <<options, frames, payload, template, verified, ready,
                      failed, container>>

\* Seeded fault: a template that failed a comparison may be learnt on.
LearningForgives(e) == pc[e] = "learn" /\ Learns /\ ~ready[Owner(e)]

\* Tested under the mutex.
Learning(e) == /\ pc[e] = "learn" /\ Learns
               /\ ~failed[Owner(e)] /\ ~ready[Owner(e)]

\* Seeded fault: a payload of another size is learnt anew.
RelearnsOnDrift(e) ==
    /\ pc[e] = "learn" /\ Learns /\ ~failed[Owner(e)]
    /\ prefix[Owner(e)] = Nil \/ ~SizeMatches(e)
    /\ prefix' = [prefix EXCEPT ![Owner(e)] = out[e].around.prefix]
    /\ Goto(e, "suffix")
    /\ UNCHANGED <<options, frames, armed, payload, holder, suffix,
                   payload_size, verified, ready, failed, container, out>>

\* splice_learn found the payload once; prefix first, then the rest.
LearnPrefix(e) ==
    /\ Learning(e) /\ prefix[Owner(e)] = Nil
    /\ prefix' = [prefix EXCEPT ![Owner(e)] = out[e].around.prefix]
    /\ Goto(e, "suffix")
    /\ UNCHANGED <<options, frames, armed, payload, holder, suffix,
                   payload_size, verified, ready, failed, container, out>>

LearnRest(e) ==
    /\ pc[e] = "suffix"
    /\ suffix' = [suffix EXCEPT ![Owner(e)] = out[e].around.suffix]
    /\ payload_size' = [payload_size EXCEPT ![Owner(e)] = payload[e].size]
    /\ verified' = [verified EXCEPT ![Owner(e)] = 1]
    /\ Finish(e) /\ Release(e)
    /\ UNCHANGED <<options, frames, payload, prefix, ready, failed,
                   container, out>>

\* splice_learn found the payload not at all or twice: its bytes decide.
CannotLearn(e) ==
    /\ Learning(e) /\ prefix[Owner(e)] = Nil
    /\ failed' = [failed EXCEPT ![Owner(e)] = TRUE]
    /\ Finish(e) /\ Release(e)
    /\ UNCHANGED <<options, frames, payload, template, verified, ready,
                   container, out>>

\* A trial splice is compared with the SDK's output.
Verify(e) ==
    LET o == Owner(e)
        same == out[e].around = [prefix |-> prefix[o], suffix |-> suffix[o]]
        primes == ~Shared /\ options.splice_reuse /\ container[e] = Nil
    IN /\ Learning(e) /\ prefix[o] # Nil /\ SizeMatches(e)
       /\ container' =
            IF primes THEN [container EXCEPT ![e] = [prefix |-> prefix[o],
                                                     suffix |-> suffix[o]]]
                      ELSE container
       /\ failed' = [failed EXCEPT ![o] = @ \/ ~same]
       /\ verified' = [verified EXCEPT ![o] = IF same THEN @ + 1 ELSE @]
       /\ ready' = [ready EXCEPT
                      ![o] = @ \/ verified'[o] >= SPLICE_VERIFY_FRAMES]
       /\ Finish(e) /\ Release(e)
       /\ UNCHANGED <<options, frames, payload, template, out>>

\* Nothing to learn from this frame.
Leave(e) ==
    /\ pc[e] = "learn"
    /\ Learning(e) => prefix[Owner(e)] # Nil /\ ~SizeMatches(e)
    /\ Finish(e) /\ Release(e)
    /\ UNCHANGED <<options, frames, payload, template, verified, ready,
                   failed, container, out>>

Step(e) == \/ Encode(e) \/ StartSplice(e) \/ Splice(e) \/ Decline(e)
           \/ Lock(e) \/ Wrap(e) \/ LearnPrefix(e) \/ LearnRest(e)
           \/ CannotLearn(e) \/ Verify(e) \/ Leave(e)

Next == \E e \in Encoders : Arm(e) \/ Step(e)

Spec == Init /\ [][Next]_vars /\ \A e \in Encoders : WF_vars(Step(e))

-----------------------------------------------------------------------------
(* Properties.                                                             *)

\* Every field keeps its type, and a count never passes three.
TypeOK ==
    /\ options \in Configurations
    /\ pc \in [Encoders -> {"idle", "encode", "wrap", "splice", "lock", "sdk",
                            "learn", "suffix"}]
    /\ frames \in [Encoders -> 0..MaxFrames]
    /\ armed \in [Encoders -> BOOLEAN]
    /\ payload \in [Encoders -> Payloads \cup {Nil}]
    /\ holder \in [Mutexes -> Encoders \cup {Nil}]
    /\ prefix \in [Owners -> Nat \cup {Nil}]
    /\ suffix \in [Owners -> Nat \cup {Nil}]
    /\ payload_size \in [Owners -> Nat]
    /\ verified \in [Owners -> 0..SPLICE_VERIFY_FRAMES]
    /\ ready \in [Owners -> BOOLEAN] /\ failed \in [Owners -> BOOLEAN]
    /\ container \in [Encoders -> Surrounds \cup {Nil}]
    /\ out \in [Encoders -> Outputs \cup {Nil}]

\* An encoder that splices reads a whole template that is already published:
\* nobody is halfway through writing the one it reads.
ReadersSeeWhole ==
    \A e, f \in Encoders :
        pc[e] = "splice" => /\ ready[Owner(e)]
                            /\ prefix[Owner(e)] # Nil
                            /\ suffix[Owner(e)] # Nil
                            /\ Owner(f) = Owner(e) => pc[f] # "suffix"

\* "No partial trust": a template is trusted after exactly three verified
\* frames, one that ever failed is never trusted.
NoPartialTrust ==
    \A o \in Owners : ready[o] <=> verified[o] = SPLICE_VERIFY_FRAMES /\ ~failed[o]

\* A published template never changes: the lock-free readers rely on it.
TemplateFrozen ==
    [][\A o \in Owners : ready[o] =>
          /\ ready'[o]
          /\ prefix'[o] = prefix[o] /\ suffix'[o] = suffix[o]
          /\ payload_size'[o] = payload_size[o]]_vars

\* What the SDK puts around a payload of this size depends on nothing else.
SizeDecides(p) == \A q \in Payloads : q.size = p.size => q.around = p.around

\* Where the size decides, every output is the one the SDK would have written.
SpliceExact ==
    \A e \in Encoders : out[e] # Nil /\ SizeDecides(out[e].payload) =>
        out[e].around = [prefix |-> out[e].payload.around,
                         suffix |-> out[e].payload.around]

\* The DNG SDK uses shared global allocator state: one encoder at a time may
\* be inside it.
SdkSerialised ==
    \A e, f \in Encoders : pc[e] = "sdk" /\ pc[f] = "sdk" => e = f
=============================================================================
