------------------------- MODULE SharedSpliceProofs -------------------------
(***************************************************************************)
(* Proofs about SharedSplice for every set of encoders, payloads, option   *)
(* records and every number of frames: the template protocol is safe for   *)
(* its lock-free readers, and splicing is exact whenever the SDK's         *)
(* surround is decided by the payload's size.                              *)
(***************************************************************************)
EXTENDS SharedSplice, TLAPS

Busy(e) == pc[e] \in {"learn", "suffix"}

Around(p) == [prefix |-> p.around, suffix |-> p.around]
Template(o) == [prefix |-> prefix[o], suffix |-> suffix[o]]

\* The payload and the output of an encoder exist where they are used.
Produced ==
    \A e \in Encoders :
        /\ pc[e] \notin {"idle", "encode"} => payload[e] \in Payloads
        /\ Busy(e) => out[e] # Nil /\ out[e].around = Around(payload[e])

\* The holder of a mutex is the one encoder past Lock with that mutex.
Exclusion ==
    \A e \in Encoders :
        /\ pc[e] \in {"sdk", "learn", "suffix"} => holder[Mutex(e)] = e
        /\ Busy(e) => ~armed[e]

\* Who trusts a template has seen it published, for a payload of its size.
Trusting ==
    \A e \in Encoders :
        /\ armed[e] => ready[Owner(e)]
        /\ pc[e] = "splice" => ready[Owner(e)] /\ SizeMatches(e)

\* A template is empty, half written by the encoder at "suffix", or whole;
\* a whole one surrounds payloads of its size as the SDK surrounded one.
Content ==
    /\ \A o \in Owners :
          /\ suffix[o] # Nil =>
                \E p \in Payloads : /\ Template(o) = Around(p)
                                    /\ payload_size[o] = p.size
          /\ prefix[o] # Nil /\ suffix[o] = Nil =>
                \E e \in Encoders : Owner(e) = o /\ pc[e] = "suffix"
          /\ ready[o] => suffix[o] # Nil
    /\ \A e \in Encoders : pc[e] = "suffix" =>
          /\ prefix[Owner(e)] = payload[e].around
          /\ suffix[Owner(e)] = Nil

\* A retained container was primed from the template as it still is.
Primed ==
    \A e \in Encoders : container[e] # Nil =>
        suffix[Owner(e)] # Nil /\ container[e] = Template(Owner(e))

IInv == /\ TypeOK /\ Produced /\ Exclusion /\ Trusting /\ Content /\ Primed
        /\ NoPartialTrust

-----------------------------------------------------------------------------
(* Facts about owners and mutexes.                                         *)

\* The template an encoder uses has an owner.
LEMMA OwnerType == \A e \in Encoders : Owner(e) \in Owners /\ Mutex(e) \in Mutexes
BY DEF Owner, Owners, Mutex, Mutexes

\* Two encoders are never both learning the same template.
LEMMA Alone ==
    ASSUME Exclusion, NEW e \in Encoders, NEW f \in Encoders,
           Busy(e), Busy(f), Owner(e) = Owner(f)
    PROVE  e = f
<1>1. holder[Mutex(e)] = e /\ holder[Mutex(f)] = f /\ ~armed[e] /\ ~armed[f]
  BY DEF Exclusion, Busy
<1>2. CASE Shared
  BY <1>1, <1>2 DEF Mutex
<1>3. CASE ~Shared
  BY <1>3, SpliceAssumption DEF Owner
<1> QED BY <1>2, <1>3

\* A template being learnt is either empty or whole.
LEMMA LearnerSeesWhole ==
    ASSUME Exclusion, Content, NEW e \in Encoders,
           pc[e] = "learn", prefix[Owner(e)] # Nil
    PROVE  suffix[Owner(e)] # Nil
<1> SUFFICES ASSUME suffix[Owner(e)] = Nil PROVE FALSE OBVIOUS
<1>1. PICK f \in Encoders : Owner(f) = Owner(e) /\ pc[f] = "suffix"
  BY OwnerType DEF Content
<1>2. Busy(e) /\ Busy(f) BY <1>1 DEF Busy
<1>3. e = f BY <1>1, <1>2, Alone
<1> QED BY <1>1, <1>3

\* Nobody is writing a template that another encoder is learning from.
LEMMA NoOtherWriter ==
    ASSUME Exclusion, NEW e \in Encoders, pc[e] = "learn",
           NEW f \in Encoders, Owner(f) = Owner(e)
    PROVE  pc[f] # "suffix"
<1> SUFFICES ASSUME pc[f] = "suffix" PROVE FALSE OBVIOUS
<1>1. e = f BY Alone DEF Busy
<1> QED BY <1>1

\* Mutex, Owner and the derived flags depend on the options and on `armed`.
LEMMA OptionsFixed ==
    ASSUME options' = options, NEW e \in Encoders
    PROVE  /\ Shared' = Shared /\ Learns' = Learns /\ InPlace' = InPlace
           /\ Retained' = Retained /\ Owner(e)' = Owner(e)
           /\ armed'[e] = armed[e] => Mutex(e)' = Mutex(e)
BY DEF Shared, Learns, InPlace, Retained, Owner, Mutex

-----------------------------------------------------------------------------
(* Type correctness.                                                       *)

Labels == {"idle", "encode", "wrap", "splice", "lock", "sdk", "learn",
           "suffix"}

LEMMA TypeInit == Init => TypeOK
BY SpliceAssumption DEF Init, TypeOK, SPLICE_VERIFY_FRAMES, Surrounds

\* Counting one more verified frame stays within three.
LEMMA VerifiedBound ==
    ASSUME NEW n \in 0..SPLICE_VERIFY_FRAMES, n # SPLICE_VERIFY_FRAMES
    PROVE  /\ n + 1 \in 0..SPLICE_VERIFY_FRAMES
           /\ n + 1 >= SPLICE_VERIFY_FRAMES <=> n + 1 = SPLICE_VERIFY_FRAMES
           /\ ~(n >= SPLICE_VERIFY_FRAMES)
BY DEF SPLICE_VERIFY_FRAMES

LEMMA FramesBound ==
    ASSUME NEW n \in 0..MaxFrames, n < MaxFrames PROVE n + 1 \in 0..MaxFrames
BY SpliceAssumption

LEMMA TypeStep ==
    ASSUME TypeOK, Produced, NoPartialTrust, Next
    PROVE  TypeOK'
<1> USE DEF TypeOK
<1>1. PICK e \in Encoders : Arm(e) \/ Step(e) BY DEF Next
<1>o. Owner(e) \in Owners /\ Mutex(e) \in Mutexes BY OwnerType
<1>2. CASE Arm(e)
  <2>1. frames[e] + 1 \in 0..MaxFrames BY ONLY <1>2, TypeOK, FramesBound DEF Arm, TypeOK
  <2>2. frames' \in [Encoders -> 0..MaxFrames] BY <2>1, <1>2 DEF Arm
  <2>3. PICK yes \in BOOLEAN : armed' = [armed EXCEPT ![e] = yes]
    BY <1>2 DEF Arm
  <2>4. armed' \in [Encoders -> BOOLEAN] BY <2>3
  <2> QED BY <1>2, <2>2, <2>4 DEF Arm, Goto, template
<1>3. CASE Encode(e)
  BY <1>3 DEF Encode, Goto, template
<1>4. CASE StartSplice(e)
  BY <1>4 DEF StartSplice, Goto, template
<1>5. CASE Splice(e)
  <2>1. container' \in [Encoders -> Surrounds \cup {Nil}]
    BY <1>5, <1>o DEF Splice, Surrounds
  <2>2. PICK used \in Surrounds :
           out' = [out EXCEPT ![e] = [payload |-> payload[e],
                                      around |-> used, spliced |-> TRUE]]
    <3>1. Template(Owner(e)) \in Surrounds BY <1>o DEF Template, Surrounds
    <3>2. container[e] # Nil => container[e] \in Surrounds OBVIOUS
    <3> QED BY <1>5, <3>1, <3>2 DEF Splice, Template
  <2>3. payload[e] \in Payloads BY <1>5 DEF Splice, Produced
  <2>4. out' \in [Encoders -> Outputs \cup {Nil}] BY <2>2, <2>3 DEF Outputs
  <2> QED BY <1>5, <2>1, <2>4 DEF Splice, Finish, Goto, template
<1>6. CASE Decline(e)
  BY <1>6 DEF Decline, Goto, template
<1>7. CASE Lock(e)
  BY <1>7, <1>o DEF Lock, Goto, template
<1>8. CASE Wrap(e)
  <2>1. holder' \in [Mutexes -> Encoders \cup {Nil}]
    BY <1>8, <1>o DEF Wrap, Release
  <2>2. armed' \in [Encoders -> BOOLEAN] BY <1>8 DEF Wrap, Finish
  <2>3. pc' \in [Encoders -> Labels]
    BY <1>8 DEF Wrap, Finish, Goto, Labels
  <2>4. payload[e] \in Payloads BY <1>8 DEF Wrap, Produced
  <2>5. Around(payload[e]) \in Surrounds
    BY <2>4, SpliceAssumption DEF Around, Surrounds
  <2>6. out' \in [Encoders -> Outputs \cup {Nil}]
    BY <1>8, <2>4, <2>5 DEF Wrap, Around, Outputs
  <2> QED BY <1>8, <2>1, <2>2, <2>3, <2>6 DEF Wrap, template, Labels
<1>9. CASE LearnPrefix(e)
  <2>1. Busy(e) BY <1>9 DEF LearnPrefix, Learning, Busy
  <2>2. out[e].around.prefix \in Nat \cup {Nil}
    BY <2>1 DEF Produced, Outputs, Surrounds
  <2> QED BY <1>9, <1>o, <2>2 DEF LearnPrefix, Goto
<1>10. CASE LearnRest(e)
  <2>1. Busy(e) BY <1>10 DEF LearnRest, Busy
  <2>2. out[e].around.suffix \in Nat \cup {Nil}
    BY <2>1 DEF Produced, Outputs, Surrounds
  <2>3. payload[e] \in Payloads BY <1>10 DEF LearnRest, Produced
  <2>4. payload[e].size \in Nat BY <2>3, SpliceAssumption
  <2>5. 1 \in 0..SPLICE_VERIFY_FRAMES BY DEF SPLICE_VERIFY_FRAMES
  <2>6. verified' \in [Owners -> 0..SPLICE_VERIFY_FRAMES]
    BY <1>10, <1>o, <2>5 DEF LearnRest
  <2> QED BY <1>10, <1>o, <2>2, <2>4, <2>6
          DEF LearnRest, Finish, Goto, Release
<1>11. CASE CannotLearn(e)
  BY <1>11, <1>o DEF CannotLearn, Finish, Goto, Release, template
<1>12. CASE Verify(e)
  <2>1. verified[Owner(e)] # SPLICE_VERIFY_FRAMES
    BY <1>12, <1>o DEF Verify, Learning, NoPartialTrust
  <2>2. verified[Owner(e)] + 1 \in 0..SPLICE_VERIFY_FRAMES
    BY ONLY <2>1, <1>o, TypeOK, VerifiedBound DEF TypeOK
  <2>3. verified' \in [Owners -> 0..SPLICE_VERIFY_FRAMES]
    BY <1>12, <1>o, <2>2 DEF Verify
  <2>4. ready' \in [Owners -> BOOLEAN] /\ failed' \in [Owners -> BOOLEAN]
    BY <1>12, <1>o DEF Verify
  <2>5. container' \in [Encoders -> Surrounds \cup {Nil}]
    BY <1>12, <1>o DEF Verify, Surrounds
  <2> QED BY <1>12, <1>o, <2>3, <2>4, <2>5
          DEF Verify, Finish, Goto, Release, template
<1>13. CASE Leave(e)
  BY <1>13, <1>o DEF Leave, Finish, Goto, Release, template
<1> QED
  BY <1>1, <1>2, <1>3, <1>4, <1>5, <1>6, <1>7, <1>8, <1>9, <1>10, <1>11,
     <1>12, <1>13 DEF Step

-----------------------------------------------------------------------------
(* The invariant.                                                          *)

LEMMA InvInit == Init => IInv
<1> SUFFICES ASSUME Init PROVE IInv OBVIOUS
<1>1. TypeOK BY TypeInit
<1>2. Produced /\ Exclusion /\ Trusting /\ Primed
  BY SpliceAssumption, OwnerType
     DEF Init, Produced, Exclusion, Trusting, Primed, Busy
<1>3. Content /\ NoPartialTrust
  BY SpliceAssumption, OwnerType
     DEF Init, Content, NoPartialTrust, SPLICE_VERIFY_FRAMES
<1> QED BY <1>1, <1>2, <1>3 DEF IInv

\* An output is produced before it is learnt from.
LEMMA ProducedStep ==
    ASSUME TypeOK, Produced, Next
    PROVE  Produced'
<1> USE DEF Produced, Busy
<1>1. PICK e \in Encoders : Arm(e) \/ Step(e) BY DEF Next
<1>p. payload \in [Encoders -> Payloads \cup {Nil}]
      /\ pc \in [Encoders -> Labels] /\ out \in [Encoders -> Outputs \cup {Nil}]
  BY DEF TypeOK, Labels
<1>n. \A p \in Payloads : p.around \in Nat BY SpliceAssumption
<1>2. CASE Arm(e) BY <1>2, <1>p DEF Arm, Goto
<1>3. CASE Encode(e) BY <1>3, <1>p DEF Encode, Goto
<1>4. CASE StartSplice(e) BY <1>4, <1>p DEF StartSplice, CanSplice, Goto
<1>5. CASE Splice(e)
  <2>1. payload[e] \in Payloads BY <1>5 DEF Splice
  <2>2. \A f \in Encoders \ {e} : pc'[f] = pc[f] /\ out'[f] = out[f]
    BY <1>5, <1>p DEF Splice, Finish, Goto
  <2> QED BY <1>5, <2>1, <2>2, <1>p DEF Splice, Finish, Goto, Around
<1>6. CASE Decline(e) BY <1>6, <1>p DEF Decline, Goto
<1>7. CASE Lock(e) BY <1>7, <1>p DEF Lock, Goto
<1>8. CASE Wrap(e)
  <2>1. payload[e] \in Payloads BY <1>8 DEF Wrap
  <2>2. Around(payload[e]) \in Surrounds
    BY <2>1, <1>n DEF Around, Surrounds
  <2>3. out' = [out EXCEPT ![e] = [payload |-> payload[e],
                                   around |-> Around(payload[e]),
                                   spliced |-> FALSE]]
    BY <1>8 DEF Wrap, Around
  <2>5. out'[e] # Nil /\ out'[e].around = Around(payload[e])
    <3>1. out'[e].payload = payload[e] /\ out'[e].around = Around(payload[e])
      BY <2>3, <1>p
    <3>2. out'[e] \in Outputs BY <2>1, <2>2, <2>3, <1>p DEF Outputs
    <3> QED BY <3>1, <3>2, SpliceAssumption
  <2>6. payload' = payload /\ Around(payload[e])' = Around(payload[e])
    BY <1>8 DEF Wrap, Around
  <2>7. \A f \in Encoders \ {e} : pc'[f] = pc[f] /\ out'[f] = out[f]
    BY <1>8, <2>3, <1>p DEF Wrap, Finish, Goto
  <2> QED BY <2>1, <2>5, <2>6, <2>7 DEF Around
<1>9. CASE LearnPrefix(e)
  BY <1>9, <1>p DEF LearnPrefix, Learning, Goto, Around
<1>10. CASE LearnRest(e)
  BY <1>10, <1>p DEF LearnRest, Finish, Goto, Around
<1>11. CASE CannotLearn(e)
  BY <1>11, <1>p DEF CannotLearn, Learning, Finish, Goto, Around
<1>12. CASE Verify(e)
  BY <1>12, <1>p DEF Verify, Learning, Finish, Goto, Around
<1>13. CASE Leave(e)
  BY <1>13, <1>p DEF Leave, Finish, Goto, Around
<1> QED
  BY <1>1, <1>2, <1>3, <1>4, <1>5, <1>6, <1>7, <1>8, <1>9, <1>10, <1>11,
     <1>12, <1>13 DEF Step

\* Lock gives a mutex to one encoder, and only its holder releases it.
LEMMA ExclusionStep ==
    ASSUME TypeOK, Exclusion, Next
    PROVE  Exclusion'
<1> USE DEF Exclusion, Busy
<1>1. PICK e \in Encoders : Arm(e) \/ Step(e) BY DEF Next
<1>o. options' = options
  BY <1>1 DEF Step, Arm, Encode, StartSplice, Splice, Decline, Lock, Wrap,
              LearnPrefix, LearnRest, CannotLearn, Verify, Leave
<1>p. /\ pc \in [Encoders -> Labels] /\ armed \in [Encoders -> BOOLEAN]
      /\ holder \in [Mutexes -> Encoders \cup {Nil}]
      /\ \A f \in Encoders : Mutex(f) \in Mutexes
  BY OwnerType DEF TypeOK, Labels
<1>m. \A f \in Encoders : armed'[f] = armed[f] => Mutex(f)' = Mutex(f)
  BY <1>o, OptionsFixed
<1>2. CASE Arm(e)
  <2>1. \A f \in Encoders \ {e} : armed'[f] = armed[f] /\ pc'[f] = pc[f]
    BY <1>2, <1>p DEF Arm, Goto
  <2>2. pc'[e] = "encode" /\ holder' = holder BY <1>2, <1>p DEF Arm, Goto
  <2> QED BY <2>1, <2>2, <1>m
<1>3. CASE Encode(e) \/ StartSplice(e) \/ Decline(e)
  BY <1>3, <1>p, <1>m DEF Encode, StartSplice, Decline, Goto
<1>5. CASE Splice(e)
  <2>1. \A f \in Encoders \ {e} : armed'[f] = armed[f] /\ pc'[f] = pc[f]
    BY <1>5, <1>p DEF Splice, Finish, Goto
  <2>2. pc'[e] = "idle" /\ holder' = holder
    BY <1>5, <1>p DEF Splice, Finish, Goto
  <2> QED BY <2>1, <2>2, <1>m
<1>7. CASE Lock(e)
  <2>1. armed' = armed /\ \A f \in Encoders \ {e} : pc'[f] = pc[f]
    BY <1>7, <1>p DEF Lock, Goto
  <2>2. holder[Mutex(e)] = Nil /\ holder' = [holder EXCEPT ![Mutex(e)] = e]
        /\ pc'[e] = "sdk"
    BY <1>7, <1>p DEF Lock, Goto
  <2>3. \A f \in Encoders : holder[Mutex(f)] = f => holder'[Mutex(f)] = f
    BY <2>2, <1>p, SpliceAssumption
  <2> QED BY <2>1, <2>2, <2>3, <1>p, <1>m
<1>8. CASE Wrap(e) /\ ~armed[e]
  BY <1>8, <1>p, <1>m DEF Wrap, Goto
<1>9. CASE LearnPrefix(e)
  BY <1>9, <1>p, <1>m DEF LearnPrefix, Learning, Goto
<1>10. CASE \/ Wrap(e) /\ armed[e]
            \/ LearnRest(e) \/ CannotLearn(e) \/ Verify(e) \/ Leave(e)
  <2>1. pc[e] \in {"sdk", "learn", "suffix"} /\ Finish(e) /\ Release(e)
    BY <1>10 DEF Wrap, LearnRest, CannotLearn, Learning, Verify, Leave
  <2>2. /\ pc'[e] = "idle"
        /\ \A f \in Encoders \ {e} : armed'[f] = armed[f] /\ pc'[f] = pc[f]
    BY <2>1, <1>p DEF Finish, Goto
  <2>3. holder[Mutex(e)] = e /\ holder' = [holder EXCEPT ![Mutex(e)] = Nil]
    BY <2>1 DEF Release
  <2>4. \A f \in Encoders \ {e} : holder[Mutex(f)] = f => holder'[Mutex(f)] = f
    BY <2>3, <1>p
  <2> QED BY <2>2, <2>4, <1>m
<1> QED
  BY <1>1, <1>2, <1>3, <1>5, <1>7, <1>8, <1>9, <1>10 DEF Step

\* What a step of e leaves alone: every other encoder, and every template but
\* the one e may learn.
LEMMA Others ==
    ASSUME TypeOK, NEW e \in Encoders, Arm(e) \/ Step(e)
    PROVE  /\ options' = options
           /\ \A f \in Encoders \ {e} :
                 /\ pc'[f] = pc[f] /\ armed'[f] = armed[f]
                 /\ payload'[f] = payload[f] /\ out'[f] = out[f]
                 /\ container'[f] = container[f]
           /\ \A o \in Owners \ {Owner(e)} :
                 /\ prefix'[o] = prefix[o] /\ suffix'[o] = suffix[o]
                 /\ payload_size'[o] = payload_size[o]
                 /\ verified'[o] = verified[o]
                 /\ ready'[o] = ready[o] /\ failed'[o] = failed[o]
<1> USE DEF TypeOK, Goto, Finish, template
<1>2. CASE Arm(e) BY <1>2 DEF Arm
<1>3. CASE Encode(e) BY <1>3 DEF Encode
<1>4. CASE StartSplice(e) BY <1>4 DEF StartSplice
<1>5. CASE Splice(e)
  <2>1. \A f \in Encoders \ {e} : out'[f] = out[f] /\ container'[f] = container[f]
    BY <1>5 DEF Splice
  <2> QED BY <1>5, <2>1 DEF Splice
<1>6. CASE Decline(e) BY <1>6 DEF Decline
<1>7. CASE Lock(e) BY <1>7 DEF Lock
<1>8. CASE Wrap(e) BY <1>8 DEF Wrap
<1>9. CASE LearnPrefix(e) BY <1>9 DEF LearnPrefix
<1>10. CASE LearnRest(e) BY <1>10 DEF LearnRest
<1>11. CASE CannotLearn(e) BY <1>11 DEF CannotLearn
<1>12. CASE Verify(e)
  <2>1. \A f \in Encoders \ {e} : container'[f] = container[f]
    BY <1>12 DEF Verify
  <2>2. \A o \in Owners \ {Owner(e)} :
           verified'[o] = verified[o] /\ ready'[o] = ready[o] /\ failed'[o] = failed[o]
    BY <1>12 DEF Verify
  <2> QED BY <1>12, <2>1, <2>2 DEF Verify
<1>13. CASE Leave(e) BY <1>13 DEF Leave
<1> QED
  BY <1>2, <1>3, <1>4, <1>5, <1>6, <1>7, <1>8, <1>9, <1>10, <1>11, <1>12,
     <1>13 DEF Step

\* A step writes at most one part of the template it learns, and only before
\* that part is written.
LEMMA Writes ==
    ASSUME IInv, NEW e \in Encoders, Arm(e) \/ Step(e)
    PROVE  LET o == Owner(e)
           IN \/ /\ prefix'[o] = prefix[o] /\ suffix'[o] = suffix[o]
                 /\ payload_size'[o] = payload_size[o]
                 /\ pc[e] # "suffix" /\ pc'[e] # "suffix"
              \/ /\ pc[e] = "learn" /\ pc'[e] = "suffix"
                 /\ prefix[o] = Nil /\ prefix'[o] = payload[e].around
                 /\ payload[e] \in Payloads
                 /\ suffix'[o] = suffix[o]
                 /\ payload_size'[o] = payload_size[o]
              \/ /\ pc[e] = "suffix" /\ pc'[e] = "idle"
                 /\ prefix'[o] = prefix[o]
                 /\ suffix[o] = Nil /\ suffix'[o] = payload[e].around
                 /\ payload[e] \in Payloads
                 /\ payload_size'[o] = payload[e].size
<1> USE DEF TypeOK, Goto, Finish, template, IInv
<1>o. Owner(e) \in Owners BY OwnerType
<1>2. CASE Arm(e) BY <1>2 DEF Arm
<1>3. CASE Encode(e) BY <1>3 DEF Encode
<1>4. CASE StartSplice(e) BY <1>4 DEF StartSplice, CanSplice
<1>5. CASE Splice(e) BY <1>5 DEF Splice
<1>6. CASE Decline(e) BY <1>6 DEF Decline
<1>7. CASE Lock(e) BY <1>7 DEF Lock
<1>8. CASE Wrap(e) BY <1>8 DEF Wrap
<1>a. Busy(e) => /\ payload[e] \in Payloads
                 /\ out[e].around.prefix = payload[e].around
                 /\ out[e].around.suffix = payload[e].around
  <2>1. Busy(e) => payload[e] \in Payloads /\ out[e].around = Around(payload[e])
    BY DEF Produced, Busy
  <2>2. /\ Around(payload[e]).prefix = payload[e].around
        /\ Around(payload[e]).suffix = payload[e].around
    BY DEF Around
  <2> QED BY <2>1, <2>2
<1>9. CASE LearnPrefix(e)
  <2>1. Busy(e) BY <1>9 DEF LearnPrefix, Learning, Busy
  <2> QED BY <1>9, <2>1, <1>a, <1>o DEF LearnPrefix, Learning
<1>10. CASE LearnRest(e)
  <2>1. Busy(e) BY <1>10 DEF LearnRest, Busy
  <2>2. suffix[Owner(e)] = Nil BY <1>10 DEF LearnRest, Content
  <2>3. /\ suffix'[Owner(e)] = payload[e].around
        /\ payload_size'[Owner(e)] = payload[e].size
    BY <1>10, <1>o, <2>1, <1>a DEF LearnRest
  <2> QED BY <1>10, <2>1, <2>2, <2>3, <1>a, <1>o DEF LearnRest
<1>11. CASE CannotLearn(e) BY <1>11 DEF CannotLearn, Learning
<1>12. CASE Verify(e) BY <1>12 DEF Verify, Learning
<1>13. CASE Leave(e) BY <1>13 DEF Leave
<1> QED
  BY <1>2, <1>3, <1>4, <1>5, <1>6, <1>7, <1>8, <1>9, <1>10, <1>11, <1>12,
     <1>13 DEF Step

\* A template is published by the third equal comparison and by nothing else.
LEMMA Publishes ==
    ASSUME IInv, NEW e \in Encoders, Arm(e) \/ Step(e)
    PROVE  LET o == Owner(e)
           IN \/ ready'[o] = ready[o]
              \/ /\ ~ready[o] /\ suffix[o] # Nil
                 /\ pc[e] = "learn" /\ pc'[e] = "idle"
<1> USE DEF TypeOK, Goto, Finish, template, IInv
<1>o. Owner(e) \in Owners BY OwnerType
<1>2. CASE Verify(e)
  <2>1. pc[e] = "learn" /\ ~ready[Owner(e)] /\ prefix[Owner(e)] # Nil
    BY <1>2 DEF Verify, Learning
  <2>2. suffix[Owner(e)] # Nil BY <2>1, LearnerSeesWhole
  <2> QED BY <1>2, <2>1, <2>2 DEF Verify
<1>3. CASE ~Verify(e)
  BY <1>3 DEF Step, Arm, Encode, StartSplice, Splice, Decline, Lock, Wrap,
              LearnPrefix, LearnRest, CannotLearn, Leave
<1> QED BY <1>2, <1>3

\* The action that keeps lock-free readers safe.
LEMMA FrozenStep ==
    ASSUME IInv, Next, NEW o \in Owners, ready[o]
    PROVE  /\ ready'[o]
           /\ prefix'[o] = prefix[o] /\ suffix'[o] = suffix[o]
           /\ payload_size'[o] = payload_size[o]
<1>1. PICK e \in Encoders : Arm(e) \/ Step(e) BY DEF Next
<1>2. CASE o # Owner(e) BY <1>1, <1>2, Others DEF IInv
<1>3. CASE o = Owner(e)
  <2>1. suffix[o] # Nil /\ prefix[o] # Nil
    <3>1. suffix[o] # Nil BY DEF IInv, Content
    <3>2. PICK p \in Payloads : Template(o) = Around(p)
      BY <3>1 DEF IInv, Content
    <3>3. prefix[o] = p.around BY <3>2 DEF Template, Around
    <3>4. p.around \in Nat BY SpliceAssumption
    <3> QED BY <3>1, <3>3, <3>4, SpliceAssumption
  <2>2. ready'[o] BY <1>1, <1>3, Publishes
  <2> QED BY <1>1, <1>3, <2>1, <2>2, Writes
<1> QED BY <1>2, <1>3

LEMMA OwnersFixed ==
    ASSUME TypeOK, NEW e \in Encoders, Arm(e) \/ Step(e)
    PROVE  \A f \in Encoders : Owner(f)' = Owner(f)
BY Others, OptionsFixed

LEMMA TrustingStep ==
    ASSUME IInv, Next
    PROVE  Trusting'
<1>1. PICK e \in Encoders : Arm(e) \/ Step(e) BY DEF Next
<1>2. \A f \in Encoders : Owner(f)' = Owner(f) /\ Owner(f) \in Owners
  BY <1>1, OwnersFixed, OwnerType DEF IInv
<1>3. \A o \in Owners : ready[o] =>
         ready'[o] /\ payload_size'[o] = payload_size[o]
  BY FrozenStep
<1>4. \A f \in Encoders \ {e} :
         pc'[f] = pc[f] /\ armed'[f] = armed[f] /\ payload'[f] = payload[f]
  BY <1>1, Others DEF IInv
<1>5. ASSUME NEW f \in Encoders \ {e}
      PROVE  /\ armed'[f] => ready'[Owner(f)']
             /\ pc'[f] = "splice" => ready'[Owner(f)'] /\ SizeMatches(f)'
  BY <1>2, <1>3, <1>4 DEF IInv, Trusting, SizeMatches
<1>6. /\ armed'[e] => ready[Owner(e)]
      /\ pc'[e] = "splice" => /\ ready[Owner(e)] /\ SizeMatches(e)
                              /\ payload'[e] = payload[e]
  <2> USE DEF IInv, Trusting, TypeOK, Goto, Finish
  <2>1. CASE Arm(e) BY <2>1 DEF Arm
  <2>2. CASE StartSplice(e) BY <2>2 DEF StartSplice, CanSplice
  <2>3. CASE ~Arm(e) /\ ~StartSplice(e)
    BY <1>1, <2>3 DEF Step, Encode, Splice, Decline, Lock, Wrap, LearnPrefix,
                      LearnRest, CannotLearn, Verify, Leave
  <2> QED BY <2>1, <2>2, <2>3
<1>7. /\ armed'[e] => ready'[Owner(e)']
      /\ pc'[e] = "splice" => ready'[Owner(e)'] /\ SizeMatches(e)'
  BY <1>2, <1>3, <1>6 DEF SizeMatches
<1> QED BY <1>5, <1>7 DEF Trusting

LEMMA ContentStep ==
    ASSUME IInv, Next
    PROVE  Content'
<1>1. PICK e \in Encoders : Arm(e) \/ Step(e) BY DEF Next
<1>2. \A f \in Encoders : Owner(f)' = Owner(f) /\ Owner(f) \in Owners
  BY <1>1, OwnersFixed, OwnerType DEF IInv
<1>3. \A f \in Encoders \ {e} : pc'[f] = pc[f] /\ payload'[f] = payload[f]
  BY <1>1, Others DEF IInv
<1>n. \A p \in Payloads : p.around # Nil /\ p.around \in Nat
  BY SpliceAssumption
<1> DEFINE o == Owner(e)
<1>4. /\ \A q \in Owners \ {o} :
            /\ Template(q)' = Template(q)
            /\ prefix'[q] = prefix[q] /\ suffix'[q] = suffix[q]
            /\ payload_size'[q] = payload_size[q] /\ ready'[q] = ready[q]
  BY <1>1, Others DEF IInv, Template
<1>5. ASSUME NEW q \in Owners \ {o}
      PROVE  /\ suffix'[q] # Nil =>
                   \E p \in Payloads : /\ Template(q)' = Around(p)
                                       /\ payload_size'[q] = p.size
             /\ prefix'[q] # Nil /\ suffix'[q] = Nil =>
                   \E f \in Encoders : Owner(f)' = q /\ pc'[f] = "suffix"
             /\ ready'[q] => suffix'[q] # Nil
  BY <1>2, <1>3, <1>4 DEF IInv, Content
<1>6. ASSUME NEW f \in Encoders \ {e}, Owner(f) # o, pc'[f] = "suffix"
      PROVE  prefix'[Owner(f)] = payload'[f].around /\ suffix'[Owner(f)] = Nil
  BY <1>2, <1>3, <1>4, <1>6 DEF IInv, Content
<1>7. payload[e] \in Payloads /\ pc[e] = "learn" => payload'[e] = payload[e]
  BY <1>1 DEF Step, Arm, Encode, StartSplice, Splice, Decline, Lock, Wrap,
              LearnPrefix, LearnRest, CannotLearn, Verify, Leave, Learning
<1>8. \/ ready'[o] = ready[o]
      \/ suffix[o] # Nil /\ pc[e] = "learn" /\ pc'[e] = "idle"
  BY <1>1, Publishes
<1>10. CASE /\ prefix'[o] = prefix[o] /\ suffix'[o] = suffix[o]
            /\ payload_size'[o] = payload_size[o]
            /\ pc[e] # "suffix" /\ pc'[e] # "suffix"
  <2>1. Template(o)' = Template(o) BY <1>2, <1>10 DEF Template
  <2>2. \A f \in Encoders : pc[f] = "suffix" <=> pc'[f] = "suffix"
    BY <1>3, <1>10
  <2> QED BY <1>2, <1>3, <1>5, <1>6, <1>8, <1>10, <2>1, <2>2
          DEF IInv, Content
<1>11. CASE /\ pc[e] = "learn" /\ pc'[e] = "suffix"
            /\ prefix[o] = Nil /\ prefix'[o] = payload[e].around
            /\ payload[e] \in Payloads
            /\ suffix'[o] = suffix[o]
            /\ payload_size'[o] = payload_size[o]
  <2>1. suffix[o] = Nil
    <3> SUFFICES ASSUME suffix[o] # Nil PROVE FALSE OBVIOUS
    <3>1. PICK p \in Payloads : Template(o) = Around(p)
      BY <1>2 DEF IInv, Content
    <3>2. prefix[o] = p.around BY <3>1 DEF Template, Around
    <3> QED BY <3>2, <1>11, <1>n
  <2>2. ~ready'[o] BY <1>2, <1>8, <1>11, <2>1 DEF IInv, Content
  <2>3. \A f \in Encoders \ {e} : Owner(f) = o => pc[f] # "suffix"
    BY <1>11, NoOtherWriter DEF IInv
  <2> QED BY <1>2, <1>3, <1>5, <1>6, <1>7, <1>11, <2>1, <2>2, <2>3
          DEF IInv, Content
<1>12. CASE /\ pc[e] = "suffix" /\ pc'[e] = "idle"
            /\ prefix'[o] = prefix[o]
            /\ suffix[o] = Nil /\ suffix'[o] = payload[e].around
            /\ payload[e] \in Payloads
            /\ payload_size'[o] = payload[e].size
  <2>1. prefix[o] = payload[e].around BY <1>12 DEF IInv, Content
  <2>2. Template(o)' = Around(payload[e])
    BY <2>1, <1>2, <1>12 DEF Template, Around
  <2>3. \A f \in Encoders \ {e} : Owner(f) = o => pc[f] # "suffix"
    BY <1>12, Alone DEF IInv, Busy
  <2> QED BY <1>2, <1>3, <1>5, <1>6, <1>n, <1>12, <2>2, <2>3
          DEF IInv, Content
<1> QED BY <1>1, <1>10, <1>11, <1>12, Writes

LEMMA PrimedStep ==
    ASSUME IInv, Next
    PROVE  Primed'
<1>1. PICK e \in Encoders : Arm(e) \/ Step(e) BY DEF Next
<1>2. \A f \in Encoders : Owner(f)' = Owner(f) /\ Owner(f) \in Owners
  BY <1>1, OwnersFixed, OwnerType DEF IInv
<1>n. \A p \in Payloads : p.around # Nil /\ p.around \in Nat
  BY SpliceAssumption
<1>3. ASSUME NEW o \in Owners, suffix[o] # Nil
      PROVE  suffix'[o] # Nil /\ Template(o)' = Template(o)
  <2>1. prefix[o] # Nil
    <3>1. PICK p \in Payloads : Template(o) = Around(p)
      BY <1>3 DEF IInv, Content
    <3>2. prefix[o] = p.around BY <3>1 DEF Template, Around
    <3> QED BY <3>2, <1>n
  <2>2. prefix'[o] = prefix[o] /\ suffix'[o] = suffix[o]
    <3>1. CASE o = Owner(e) BY <1>1, <1>3, <2>1, <3>1, Writes
    <3>2. CASE o # Owner(e) BY <1>1, <3>2, Others DEF IInv
    <3> QED BY <3>1, <3>2
  <2> QED BY <1>3, <2>2 DEF Template
<1>4. \A f \in Encoders \ {e} : container'[f] = container[f]
  BY <1>1, Others DEF IInv
<1>5. \/ container'[e] = container[e]
      \/ suffix[Owner(e)] # Nil /\ container'[e] = Template(Owner(e))
  <2>1. CASE Splice(e)
    <3>1. suffix[Owner(e)] # Nil
      BY <1>2, <2>1 DEF Splice, IInv, Trusting, Content
    <3> QED BY <2>1, <3>1 DEF Splice, IInv, TypeOK, Template
  <2>2. CASE Verify(e)
    <3>1. suffix[Owner(e)] # Nil
      BY <2>2, LearnerSeesWhole DEF Verify, Learning, IInv
    <3> QED BY <2>2, <3>1 DEF Verify, IInv, TypeOK, Template
  <2>3. CASE ~Splice(e) /\ ~Verify(e)
    BY <1>1, <2>3 DEF Step, Arm, Encode, StartSplice, Decline, Lock, Wrap,
                      LearnPrefix, LearnRest, CannotLearn, Leave
  <2> QED BY <2>1, <2>2, <2>3
<1>6. ASSUME NEW f \in Encoders, container'[f] # Nil
      PROVE  suffix[Owner(f)] # Nil /\ container'[f] = Template(Owner(f))
  BY <1>4, <1>5, <1>6 DEF IInv, Primed
<1>7. ASSUME NEW f \in Encoders, container'[f] # Nil
      PROVE  suffix'[Owner(f)'] # Nil /\ container'[f] = Template(Owner(f))'
  <2>1. Owner(f) \in Owners /\ suffix[Owner(f)] # Nil BY <1>2, <1>6, <1>7
  <2>2. suffix'[Owner(f)] # Nil
        /\ [prefix |-> prefix'[Owner(f)], suffix |-> suffix'[Owner(f)]]
           = Template(Owner(f))
    BY <1>3, <2>1 DEF Template
  <2> QED BY <1>2, <1>6, <1>7, <2>2 DEF Template
<1> QED BY <1>7 DEF Primed

LEMMA TrustStep ==
    ASSUME IInv, Next
    PROVE  NoPartialTrust'
<1>1. PICK e \in Encoders : Arm(e) \/ Step(e) BY DEF Next
<1> DEFINE o == Owner(e)
<1>o. o \in Owners BY OwnerType
<1>2. ASSUME NEW q \in Owners \ {o}
      PROVE  ready'[q] <=> verified'[q] = SPLICE_VERIFY_FRAMES /\ ~failed'[q]
  BY <1>1, Others DEF IInv, NoPartialTrust
<1> SUFFICES ready'[o] <=> verified'[o] = SPLICE_VERIFY_FRAMES /\ ~failed'[o]
  BY <1>2 DEF NoPartialTrust
<1>3. ready[o] <=> verified[o] = SPLICE_VERIFY_FRAMES /\ ~failed[o]
  BY <1>o DEF IInv, NoPartialTrust
<1>4. CASE LearnRest(e)
  <2>1. suffix[o] = Nil /\ ~ready[o]
    BY <1>o, <1>4 DEF LearnRest, IInv, Content
  <2>2. verified'[o] = 1 /\ ready'[o] = ready[o]
    BY <1>o, <1>4 DEF LearnRest, IInv, TypeOK
  <2> QED BY <2>1, <2>2 DEF SPLICE_VERIFY_FRAMES
<1>5. CASE CannotLearn(e)
  <2>1. failed'[o] = TRUE /\ ready'[o] = ready[o] /\ ~ready[o]
    BY <1>o, <1>5 DEF CannotLearn, Learning, IInv, TypeOK
  <2> QED BY <2>1
<1>6. CASE Verify(e)
  <2>1. ~ready[o] /\ ~failed[o] /\ verified[o] \in 0..SPLICE_VERIFY_FRAMES
        /\ verified[o] # SPLICE_VERIFY_FRAMES
    BY <1>o, <1>3, <1>6 DEF Verify, Learning, IInv, TypeOK
  <2> DEFINE same == out[e].around = [prefix |-> prefix[o], suffix |-> suffix[o]]
  <2>2. /\ failed'[o] = (failed[o] \/ ~same)
        /\ verified'[o] = IF same THEN verified[o] + 1 ELSE verified[o]
        /\ ready'[o] = (ready[o] \/ verified'[o] >= SPLICE_VERIFY_FRAMES)
    BY <1>o, <1>6 DEF Verify, IInv, TypeOK
  <2>3. CASE same
    BY ONLY <2>1, <2>2, <2>3, VerifiedBound
  <2>4. CASE ~same
    BY ONLY <2>1, <2>2, <2>4, VerifiedBound
  <2> QED BY <2>3, <2>4
<1>7. CASE ~LearnRest(e) /\ ~CannotLearn(e) /\ ~Verify(e)
  <2>1. UNCHANGED <<ready, verified, failed>>
    BY <1>1, <1>7 DEF Step, Arm, Encode, StartSplice, Splice, Decline, Lock,
                      Wrap, LearnPrefix, Leave
  <2> QED BY <1>3, <2>1
<1> QED BY <1>4, <1>5, <1>6, <1>7

LEMMA Invariance == IInv /\ [Next]_vars => IInv'
<1> SUFFICES ASSUME IInv, [Next]_vars PROVE IInv' OBVIOUS
<1>1. CASE Next
  <2>1. TypeOK' /\ Produced' /\ Exclusion'
    BY <1>1, TypeStep, ProducedStep, ExclusionStep DEF IInv
  <2>2. Trusting' /\ Content' /\ Primed' /\ NoPartialTrust'
    BY <1>1, TrustingStep, ContentStep, PrimedStep, TrustStep
  <2> QED BY <2>1, <2>2 DEF IInv
<1>2. CASE UNCHANGED vars
  <2>1. /\ UNCHANGED <<options, pc, frames, armed, payload, holder, prefix>>
        /\ UNCHANGED <<suffix, payload_size, verified, ready, failed>>
        /\ UNCHANGED <<container, out>>
    BY <1>2 DEF vars, template
  <2>2. Shared' = Shared /\ \A e \in Encoders : Owner(e)' = Owner(e)
    BY <2>1 DEF Shared, Owner
  <2>3. \A e \in Encoders : Mutex(e)' = Mutex(e) BY <2>1, OptionsFixed
  <2>4. TypeOK' BY <2>1 DEF IInv, TypeOK
  <2>5. Produced' /\ Exclusion' /\ NoPartialTrust'
    BY <2>1, <2>3
       DEF IInv, Produced, Exclusion, NoPartialTrust, Busy
  <2>6. Trusting' BY <2>1, <2>2 DEF IInv, Trusting, SizeMatches
  <2>7. Content'
    <3>1. \A o \in Owners : Template(o)' = Template(o) BY <2>1 DEF Template
    <3> QED BY <2>1, <2>2, <3>1 DEF IInv, Content
  <2>8. Primed' BY <2>1, <2>2 DEF IInv, Primed, Template
  <2> QED BY <2>4, <2>5, <2>6, <2>7, <2>8 DEF IInv
<1> QED BY <1>1, <1>2

LEMMA Inductive == Spec => []IInv
BY InvInit, Invariance, PTL DEF Spec

-----------------------------------------------------------------------------
(* The theorems.                                                           *)

\* Every variable of the encoders and of the template keeps its type; in
\* particular no template is compared more than three times.
THEOREM TypeCorrect == Spec => []TypeOK
<1>1. IInv => TypeOK BY DEF IInv
<1> QED BY <1>1, Inductive, PTL

\* The lock-free readers of a template (shared_splice_try, the in-place
\* output) never see one that is unpublished or half written.
THEOREM ReadersAreSafe == Spec => []ReadersSeeWhole
<1>1. IInv => ReadersSeeWhole
  <2> SUFFICES ASSUME IInv, NEW e \in Encoders, NEW f \in Encoders,
                      pc[e] = "splice"
               PROVE  /\ ready[Owner(e)]
                      /\ prefix[Owner(e)] # Nil
                      /\ suffix[Owner(e)] # Nil
                      /\ Owner(f) = Owner(e) => pc[f] # "suffix"
    BY DEF ReadersSeeWhole
  <2>1. ready[Owner(e)] /\ suffix[Owner(e)] # Nil
    BY OwnerType DEF IInv, Trusting, Content
  <2>2. PICK p \in Payloads : Template(Owner(e)) = Around(p)
    BY <2>1, OwnerType DEF IInv, Content
  <2>3. prefix[Owner(e)] = p.around BY <2>2 DEF Template, Around
  <2>4. prefix[Owner(e)] # Nil BY <2>3, SpliceAssumption
  <2>5. pc[f] = "suffix" => suffix[Owner(f)] = Nil BY DEF IInv, Content
  <2> QED BY <2>1, <2>4, <2>5
<1> QED BY <1>1, Inductive, PTL

\* A template is trusted after three equal comparisons and never after a
\* failed one.
THEOREM TrustIsWhole == Spec => []NoPartialTrust
<1>1. IInv => NoPartialTrust BY DEF IInv
<1> QED BY <1>1, Inductive, PTL

\* What is published stays as it is.
THEOREM PublishedOnce == Spec => TemplateFrozen
<1> DEFINE Frozen == \A o \in Owners : ready[o] =>
                        /\ ready'[o]
                        /\ prefix'[o] = prefix[o] /\ suffix'[o] = suffix[o]
                        /\ payload_size'[o] = payload_size[o]
<1>1. IInv /\ [Next]_vars => [Frozen]_vars
  <2> SUFFICES ASSUME IInv, Next PROVE Frozen OBVIOUS
  <2> QED BY FrozenStep
<1>2. [][Frozen]_vars <=> TemplateFrozen BY DEF TemplateFrozen
<1> QED BY <1>1, <1>2, Inductive, PTL DEF Spec

LEMMA ExactStep ==
    ASSUME IInv, SpliceExact, Next
    PROVE  SpliceExact'
<1>1. PICK e \in Encoders : Arm(e) \/ Step(e) BY DEF Next
<1>2. \A f \in Encoders \ {e} : out'[f] = out[f] BY <1>1, Others DEF IInv
<1> DEFINE Exact(o) == SizeDecides(o.payload) =>
                          o.around = [prefix |-> o.payload.around,
                                      suffix |-> o.payload.around]
<1> SUFFICES ASSUME out'[e] # Nil PROVE Exact(out'[e])
  BY <1>2 DEF SpliceExact, SizeDecides
<1>t. out \in [Encoders -> Outputs \cup {Nil}] BY DEF IInv, TypeOK
<1>3. CASE Splice(e)
  <2> DEFINE o == Owner(e)
  <2>1. suffix[o] # Nil /\ SizeMatches(e)
    BY <1>3, OwnerType DEF Splice, IInv, Trusting, Content
  <2>2. PICK p \in Payloads : Template(o) = Around(p) /\ payload_size[o] = p.size
    BY <2>1, OwnerType DEF IInv, Content
  <2>3. payload[e] \in Payloads /\ payload[e].size = p.size
    BY <1>3, <2>1, <2>2 DEF Splice, IInv, Produced, SizeMatches
  <2>4. SizeDecides(payload[e]) => Template(o) = Around(payload[e])
    BY <2>2, <2>3 DEF SizeDecides, Around
  <2>5. container[e] # Nil => container[e] = Template(o)
    BY DEF IInv, Primed
  <2>6. out'[e].payload = payload[e] /\ out'[e].around = Template(o)
    BY <1>3, <1>t, <2>5 DEF Splice, Template
  <2> QED BY <2>4, <2>6 DEF Around
<1>4. CASE Wrap(e)
  BY <1>4, <1>t DEF Wrap
<1>5. CASE Arm(e)
  BY <1>5, <1>t DEF Arm
<1>6. CASE ~Splice(e) /\ ~Wrap(e) /\ ~Arm(e)
  <2>1. out' = out
    BY <1>1, <1>6 DEF Step, Encode, StartSplice, Decline, Lock, LearnPrefix,
                      LearnRest, CannotLearn, Verify, Leave
  <2> QED BY <2>1 DEF SpliceExact
<1> QED BY <1>3, <1>4, <1>5, <1>6

\* Splicing is invisible: for a payload whose size decides what the SDK puts
\* around it, every output is byte for byte the one the SDK would have
\* written, however many encoders race for the template and whatever the
\* options.
THEOREM SplicingIsExact == Spec => []SpliceExact
<1>1. Init => SpliceExact BY DEF Init, SpliceExact
<1>2. IInv /\ SpliceExact /\ [Next]_vars => SpliceExact'
  <2> SUFFICES ASSUME IInv, SpliceExact, [Next]_vars PROVE SpliceExact'
    OBVIOUS
  <2>1. CASE Next BY <2>1, ExactStep
  <2>2. CASE UNCHANGED vars BY <2>2 DEF vars, SpliceExact, SizeDecides
  <2> QED BY <2>1, <2>2
<1> QED BY <1>1, <1>2, Inductive, PTL DEF Spec
=============================================================================
