------------------------ MODULE StagePipelinesProofs ------------------------
(***************************************************************************)
(* For every option set, any number of frames and whichever stages throw:  *)
(* a slot is in one thread's hands, frames are encoded in order, and each  *)
(* strategy delivers every frame once.  Dual and handoff rest on the same  *)
(* facts about one producer and one entropy thread (Pair).                 *)
(***************************************************************************)
EXTENDS StagePipelines, FiniteSetTheorems, SequenceTheorems, TLAPS

SlotStates == {"free", "producer", "ready", "entropy"}

-----------------------------------------------------------------------------
(* Helpers.                                                                *)

\* A set of slots that is not empty has a least member.
LEMMA LeastMember ==
  ASSUME NEW S \in SUBSET (1..6), S # {}
  PROVE  /\ Dual!Min(S) \in S /\ Handoff!Min(S) \in S /\ Adaptive!Min(S) \in S
         /\ \A y \in S : Adaptive!Min(S) <= y
<1>1. \A y \in S : y \in {1, 2, 3, 4, 5, 6}
  OBVIOUS
<1>2. CASE 1 \in S
  <2>1. \A y \in S : 1 <= y
    BY <1>1
  <2> QED BY <1>2, <2>1 DEF Dual!Min, Handoff!Min, Adaptive!Min
<1>3. CASE 1 \notin S /\ 2 \in S
  <2>1. \A y \in S : 2 <= y
    BY <1>1, <1>3
  <2> QED BY <1>3, <2>1 DEF Dual!Min, Handoff!Min, Adaptive!Min
<1>4. CASE 1 \notin S /\ 2 \notin S /\ 3 \in S
  <2>1. \A y \in S : 3 <= y
    BY <1>1, <1>4
  <2> QED BY <1>4, <2>1 DEF Dual!Min, Handoff!Min, Adaptive!Min
<1>5. CASE 1 \notin S /\ 2 \notin S /\ 3 \notin S /\ 4 \in S
  <2>1. \A y \in S : 4 <= y
    BY <1>1, <1>5
  <2> QED BY <1>5, <2>1 DEF Dual!Min, Handoff!Min, Adaptive!Min
<1>6. CASE 1 \notin S /\ 2 \notin S /\ 3 \notin S /\ 4 \notin S /\ 5 \in S
  <2>1. \A y \in S : 5 <= y
    BY <1>1, <1>6
  <2> QED BY <1>6, <2>1 DEF Dual!Min, Handoff!Min, Adaptive!Min
<1>7. CASE 1 \notin S /\ 2 \notin S /\ 3 \notin S /\ 4 \notin S /\ 5 \notin S
  <2>1. PICK x \in S : TRUE
    OBVIOUS
  <2>2. \A y \in S : y = x /\ x <= y
    BY <2>1, <1>1, <1>7
  <2> QED BY <2>1, <2>2 DEF Dual!Min, Handoff!Min, Adaptive!Min
<1> QED BY <1>2, <1>3, <1>4, <1>5, <1>6, <1>7

\* The strategies count as this module does.
LEMMA SameCardinality ==
  ASSUME NEW S
  PROVE  /\ Dual!Cardinality(S) = Cardinality(S)
         /\ Handoff!Cardinality(S) = Cardinality(S)
         /\ Adaptive!Cardinality(S) = Cardinality(S)
         /\ Delivery!Cardinality(S) = Cardinality(S)
<1>1. Dual!Cardinality(S) = Cardinality(S)
  BY Zenon DEF Dual!Cardinality, Cardinality
<1>2. Handoff!Cardinality(S) = Cardinality(S)
  BY Zenon DEF Handoff!Cardinality, Cardinality
<1>3. Adaptive!Cardinality(S) = Cardinality(S)
  BY Zenon DEF Adaptive!Cardinality, Cardinality
<1>4. Delivery!Cardinality(S) = Cardinality(S)
  BY Zenon DEF Delivery!Cardinality, Cardinality
<1> QED BY <1>1, <1>2, <1>3, <1>4

\* How often a slot stands in a queue that does not repeat one.
LEMMA QueuedOnce ==
  ASSUME NEW S, NEW q \in Seq(S), NEW i,
         \A j, k \in DOMAIN q : q[j] = q[k] => j = k
  PROVE  Cardinality({k \in DOMAIN q : q[k] = i})
           = IF \E k \in DOMAIN q : q[k] = i THEN 1 ELSE 0
<1>1. CASE \E k \in DOMAIN q : q[k] = i
  <2>1. PICK k \in DOMAIN q : q[k] = i
    BY <1>1
  <2>2. {j \in DOMAIN q : q[j] = i} = {k}
    BY <2>1
  <2> QED BY <1>1, <2>2, FS_Singleton
<1>2. CASE ~ \E k \in DOMAIN q : q[k] = i
  <2>1. {j \in DOMAIN q : q[j] = i} = {}
    BY <1>2
  <2> QED BY <1>2, <2>1, FS_EmptySet
<1> QED BY <1>1, <1>2

-----------------------------------------------------------------------------
(* One producer and one entropy thread: slots 1..n with their states st    *)
(* and contents cf, the ready queue rd, the slots hp and he in the hands   *)
(* of the two, the number md of frames made and the frames en encoded.     *)
(* filled: the producer has transformed its frame.  released: the entropy  *)
(* thread has encoded the slot it still holds.                             *)

PairTypes(n, tag, st, cf, rd, hp, he, md, en) ==
    /\ st \in [1..n -> SlotStates]
    /\ cf \in [1..n -> {Nil} \cup ({tag} \X Nat)]
    /\ rd \in Seq(1..n)
    /\ hp \in {Nil} \cup 1..n /\ he \in {Nil} \cup 1..n
    /\ md \in Nat
    /\ en \in Seq({tag} \X Nat)

\* A slot is where its state says.
Handed(n, st, rd, hp, he) ==
    /\ \A i \in 1..n : /\ hp = i <=> st[i] = "producer"
                       /\ he = i <=> st[i] = "entropy"
                       /\ st[i] = "ready" <=> \E k \in DOMAIN rd : rd[k] = i
    /\ \A j, k \in DOMAIN rd : rd[j] = rd[k] => j = k

\* The frame the entropy thread has taken and not encoded.
InHand(he, released) == IF he # Nil /\ ~released THEN 1 ELSE 0

\* Encoded, in hand, ready and being transformed: the frames in the order in
\* which they were made.
Consecutive(tag, cf, rd, hp, he, md, en, filled, released) ==
    /\ \A k \in DOMAIN en : en[k] = <<tag, k>>
    /\ he # Nil /\ ~released => cf[he] = <<tag, Len(en) + 1>>
    /\ \A k \in DOMAIN rd :
         cf[rd[k]] = <<tag, Len(en) + InHand(he, released) + k>>
    /\ filled => hp # Nil /\ cf[hp] = <<tag, md>>
    /\ md = Len(en) + InHand(he, released) + Len(rd)
              + (IF hp # Nil THEN 1 ELSE 0)

Pair(n, tag, st, cf, rd, hp, he, md, en, filled, released) ==
    /\ PairTypes(n, tag, st, cf, rd, hp, he, md, en)
    /\ Handed(n, st, rd, hp, he)
    /\ Consecutive(tag, cf, rd, hp, he, md, en, filled, released)

LEMMA PairInit ==
  ASSUME NEW n \in Nat, NEW tag
  PROVE  Pair(n, tag, [i \in 1..n |-> "free"], [i \in 1..n |-> Nil], <<>>,
              Nil, Nil, 0, <<>>, FALSE, FALSE)
  BY NilAssumption
  DEF Pair, PairTypes, Handed, Consecutive, InHand, SlotStates

\* The producer takes a free slot for the next frame.
LEMMA PairTakeSlot ==
  ASSUME NEW n \in Nat, NEW tag, NEW st, NEW cf, NEW rd, NEW he, NEW md, NEW en,
         NEW released \in BOOLEAN,
         Pair(n, tag, st, cf, rd, Nil, he, md, en, FALSE, released),
         NEW i \in 1..n, st[i] = "free"
  PROVE  Pair(n, tag, [st EXCEPT ![i] = "producer"], cf, rd, i, he, md + 1, en,
              FALSE, released)
<1>1. PairTypes(n, tag, [st EXCEPT ![i] = "producer"], cf, rd, i, he, md + 1, en)
  BY DEF Pair, PairTypes, SlotStates
<1>2. Handed(n, [st EXCEPT ![i] = "producer"], rd, i, he)
  BY NilAssumption DEF Pair, PairTypes, Handed, SlotStates
<1>3. Consecutive(tag, cf, rd, i, he, md + 1, en, FALSE, released)
  <2>1. rd \in Seq(1..n) /\ Len(rd) \in Nat /\ en \in Seq({tag} \X Nat)
        /\ Len(en) \in Nat /\ InHand(he, released) \in Nat
    BY DEF Pair, PairTypes, InHand
  <2>2. md = Len(en) + InHand(he, released) + Len(rd) + 0
    BY DEF Pair, Consecutive
  <2>3. md + 1 = Len(en) + InHand(he, released) + Len(rd) + 1
    BY <2>1, <2>2
  <2>4. i # Nil
    BY NilAssumption
  <2> QED BY <2>3, <2>4 DEF Pair, Consecutive
<1> QED BY <1>1, <1>2, <1>3 DEF Pair

\* It fills the slot it holds.
LEMMA PairTransform ==
  ASSUME NEW n \in Nat, NEW tag, NEW st, NEW cf, NEW rd, NEW hp, NEW he, NEW md,
         NEW en, NEW released \in BOOLEAN,
         Pair(n, tag, st, cf, rd, hp, he, md, en, FALSE, released), hp # Nil
  PROVE  Pair(n, tag, st, [cf EXCEPT ![hp] = <<tag, md>>], rd, hp, he, md, en,
              TRUE, released)
<1> DEFINE cff == [cf EXCEPT ![hp] = <<tag, md>>]
<1>0. /\ hp \in 1..n /\ rd \in Seq(1..n) /\ cf \in [1..n -> {Nil} \cup ({tag} \X Nat)]
      /\ st[hp] = "producer" /\ md \in Nat
      /\ he # Nil => he \in 1..n /\ st[he] = "entropy"
  BY DEF Pair, PairTypes, Handed
<1>1. PairTypes(n, tag, st, cff, rd, hp, he, md, en)
  BY <1>0 DEF Pair, PairTypes
<1>2. \A k \in DOMAIN rd : rd[k] \in 1..n /\ st[rd[k]] = "ready"
  BY <1>0 DEF Pair, Handed
<1>3. /\ \A k \in DOMAIN rd : cff[rd[k]] = cf[rd[k]]
      /\ he # Nil => cff[he] = cf[he]
      /\ cff[hp] = <<tag, md>>
  BY <1>0, <1>2
<1>4. Consecutive(tag, cff, rd, hp, he, md, en, TRUE, released)
  <2> HIDE DEF cff
  <2> QED BY <1>3 DEF Pair, Consecutive
<1> HIDE DEF cff
<1>5. Pair(n, tag, st, cff, rd, hp, he, md, en, TRUE, released)
  BY <1>1, <1>4 DEF Pair
<1> QED BY <1>5 DEF cff

\* It hands the slot over.
LEMMA PairPublish ==
  ASSUME NEW n \in Nat, NEW tag, NEW st, NEW cf, NEW rd, NEW hp, NEW he, NEW md,
         NEW en, NEW released \in BOOLEAN,
         Pair(n, tag, st, cf, rd, hp, he, md, en, TRUE, released)
  PROVE  Pair(n, tag, [st EXCEPT ![hp] = "ready"], cf, Append(rd, hp), Nil, he,
              md, en, FALSE, released)
<1> DEFINE stt == [st EXCEPT ![hp] = "ready"]
           rdd == Append(rd, hp)
<1>0. /\ hp \in 1..n /\ hp # Nil /\ cf[hp] = <<tag, md>>
      /\ rd \in Seq(1..n) /\ Len(rd) \in Nat
      /\ st \in [1..n -> SlotStates] /\ st[hp] = "producer"
      /\ he # Nil => he \in 1..n /\ st[he] = "entropy"
      /\ md \in Nat /\ en \in Seq({tag} \X Nat) /\ Len(en) \in Nat
  BY DEF Pair, PairTypes, Handed, Consecutive
<1>1. /\ rdd \in Seq(1..n) /\ Len(rdd) = Len(rd) + 1 /\ rdd[Len(rd) + 1] = hp
      /\ DOMAIN rdd = 1..(Len(rd) + 1) /\ DOMAIN rd = 1..Len(rd)
      /\ \A k \in DOMAIN rd : rdd[k] = rd[k] /\ st[rd[k]] = "ready"
  <2>1. \A k \in DOMAIN rd : rd[k] \in 1..n /\ st[rd[k]] = "ready"
    BY <1>0 DEF Pair, Handed
  <2> QED BY <1>0, <2>1
<1>2. PairTypes(n, tag, stt, cf, rdd, Nil, he, md, en)
  BY <1>0, <1>1 DEF Pair, PairTypes, SlotStates
<1>3. Handed(n, stt, rdd, Nil, he)
  <2>0. stt \in [1..n -> SlotStates] /\ stt[hp] = "ready"
        /\ \A i \in 1..n : i # hp => stt[i] = st[i]
    BY <1>0 DEF SlotStates
  <2>a. /\ \A i \in 1..n : hp = i <=> st[i] = "producer"
        /\ \A i \in 1..n : he = i <=> st[i] = "entropy"
    BY DEF Pair, Handed
  <2>b. \A i \in 1..n : st[i] = "ready" <=> \E k \in DOMAIN rd : rd[k] = i
    BY DEF Pair, Handed
  <2>c. \A j, k \in DOMAIN rd : rd[j] = rd[k] => j = k
    BY DEF Pair, Handed
  <2> HIDE DEF stt, rdd
  <2>d. \A k \in DOMAIN rdd :
           \/ k \in DOMAIN rd /\ rdd[k] = rd[k] /\ rdd[k] # hp
           \/ k = Len(rd) + 1 /\ rdd[k] = hp
    <3> TAKE k \in DOMAIN rdd
    <3>1. k \in DOMAIN rd \/ k = Len(rd) + 1
      BY <1>0, <1>1
    <3>2. CASE k \in DOMAIN rd
      BY <3>2, <1>0, <1>1
    <3>3. CASE k = Len(rd) + 1
      BY <3>3, <1>1
    <3> QED BY <3>1, <3>2, <3>3
  <2>1. \A j, k \in DOMAIN rdd : rdd[j] = rdd[k] => j = k
    BY <2>c, <2>d
  <2>2. \A i \in 1..n : Nil # i /\ stt[i] # "producer"
    <3> TAKE i \in 1..n
    <3>1. Nil # i
      BY NilAssumption
    <3>2. CASE i = hp
      BY <3>1, <3>2, <2>0
    <3>3. CASE i # hp
      BY <3>1, <3>3, <2>0, <2>a
    <3> QED BY <3>2, <3>3
  <2>e. \A i \in 1..n : he = i <=> stt[i] = "entropy"
    <3> TAKE i \in 1..n
    <3>1. CASE i = hp
      BY <3>1, <2>0, <2>a, <1>0
    <3>2. CASE i # hp
      BY <3>2, <2>0, <2>a
    <3> QED BY <3>1, <3>2
  <2>3. ASSUME NEW i \in 1..n
        PROVE  stt[i] = "ready" <=> \E k \in DOMAIN rdd : rdd[k] = i
    <3>1. CASE i = hp
      <4>1. Len(rd) + 1 \in DOMAIN rdd
        BY <1>0, <1>1
      <4> QED BY <3>1, <4>1, <1>1, <2>0
    <3>2. CASE i # hp
      <4>1. stt[i] = "ready" <=> \E k \in DOMAIN rd : rd[k] = i
        BY <3>2, <2>0, <2>b
      <4>2. \A k \in DOMAIN rd : k \in DOMAIN rdd /\ rdd[k] = rd[k]
        BY <1>0, <1>1
      <4> QED BY <3>2, <4>1, <4>2, <2>d
    <3> QED BY <3>1, <3>2
  <2> QED BY <2>1, <2>2, <2>e, <2>3 DEF Handed
<1>4. Consecutive(tag, cf, rdd, Nil, he, md, en, FALSE, released)
  <2> HIDE DEF rdd
  <2>0. InHand(he, released) \in Nat
    BY DEF InHand
  <2>1. md = Len(en) + InHand(he, released) + Len(rd) + 1
    BY <1>0 DEF Pair, Consecutive
  <2>2. ASSUME NEW k \in DOMAIN rdd
        PROVE  cf[rdd[k]] = <<tag, Len(en) + InHand(he, released) + k>>
    <3>1. CASE k \in DOMAIN rd
      BY <3>1, <1>1 DEF Pair, Consecutive
    <3>2. CASE k = Len(rd) + 1
      <4>1. rdd[k] = hp /\ md = Len(en) + InHand(he, released) + k
        BY <3>2, <1>0, <1>1, <2>0, <2>1
      <4> QED BY <4>1, <1>0
    <3> QED BY <3>1, <3>2, <1>0, <1>1
  <2>3. md = Len(en) + InHand(he, released) + Len(rdd) + 0
    BY <1>0, <1>1, <2>0, <2>1
  <2> QED BY <2>2, <2>3 DEF Pair, Consecutive
<1> QED BY <1>2, <1>3, <1>4 DEF Pair

\* The entropy thread takes the oldest ready slot.
LEMMA PairTakeReady ==
  ASSUME NEW n \in Nat, NEW tag, NEW st, NEW cf, NEW rd, NEW hp, NEW md,
         NEW en, NEW filled \in BOOLEAN,
         Pair(n, tag, st, cf, rd, hp, Nil, md, en, filled, FALSE), rd # <<>>
  PROVE  Pair(n, tag, [st EXCEPT ![Head(rd)] = "entropy"], cf, Tail(rd), hp,
              Head(rd), md, en, filled, FALSE)
<1> DEFINE stt == [st EXCEPT ![Head(rd)] = "entropy"]
           rdd == Tail(rd)
           he == Head(rd)
<1>0. /\ rd \in Seq(1..n) /\ Len(rd) \in Nat /\ Len(rd) > 0
      /\ he \in 1..n /\ he = rd[1] /\ 1 \in DOMAIN rd /\ he # Nil
      /\ st \in [1..n -> SlotStates] /\ st[he] = "ready"
      /\ hp # Nil => hp \in 1..n /\ st[hp] = "producer"
      /\ md \in Nat /\ en \in Seq({tag} \X Nat) /\ Len(en) \in Nat
  <2>1. rd \in Seq(1..n) /\ st \in [1..n -> SlotStates]
        /\ md \in Nat /\ en \in Seq({tag} \X Nat)
    BY DEF Pair, PairTypes
  <2>2. Len(rd) \in Nat /\ Len(rd) > 0 /\ he = rd[1] /\ 1 \in DOMAIN rd
        /\ he \in 1..n /\ Len(en) \in Nat
    BY <2>1
  <2>3. st[he] = "ready"
    BY <2>2 DEF Pair, Handed
  <2>4. hp # Nil => hp \in 1..n /\ st[hp] = "producer"
    BY DEF Pair, PairTypes, Handed
  <2> QED BY <2>1, <2>2, <2>3, <2>4, NilAssumption
<1>1. /\ rdd \in Seq(1..n) /\ Len(rdd) = Len(rd) - 1
      /\ DOMAIN rdd = 1..(Len(rd) - 1) /\ DOMAIN rd = 1..Len(rd)
      /\ \A k \in DOMAIN rdd : rdd[k] = rd[k + 1] /\ k + 1 \in DOMAIN rd
  BY <1>0
<1>2. PairTypes(n, tag, stt, cf, rdd, hp, he, md, en)
  BY <1>0, <1>1 DEF Pair, PairTypes, SlotStates
<1>3. Handed(n, stt, rdd, hp, he)
  <2>0. stt \in [1..n -> SlotStates] /\ stt[he] = "entropy"
        /\ \A i \in 1..n : i # he => stt[i] = st[i]
    BY <1>0 DEF SlotStates
  <2>x. \A j, k \in DOMAIN rd : rd[j] = rd[k] => j = k
    BY DEF Pair, Handed
  <2> HIDE DEF stt, rdd, he
  <2>1. ASSUME NEW j \in DOMAIN rdd, NEW k \in DOMAIN rdd, rdd[j] = rdd[k]
        PROVE  j = k
    <3>1. rd[j + 1] = rd[k + 1] /\ j + 1 \in DOMAIN rd /\ k + 1 \in DOMAIN rd
      BY <1>1, <2>1
    <3>2. j + 1 = k + 1
      BY <3>1, <2>x
    <3> QED BY <3>2, <1>1, <1>0
  <2>2. \A i \in 1..n : /\ hp = i <=> stt[i] = "producer"
                        /\ he = i <=> stt[i] = "entropy"
    BY <1>0, <2>0, NilAssumption DEF Pair, Handed
  <2>3. ASSUME NEW i \in 1..n
        PROVE  stt[i] = "ready" <=> \E k \in DOMAIN rdd : rdd[k] = i
    <3>1. CASE i = he
      <4>1. ASSUME NEW k \in DOMAIN rdd, rdd[k] = he
            PROVE  FALSE
        <5>1. rd[k + 1] = rd[1] /\ k + 1 \in DOMAIN rd
          BY <4>1, <1>0, <1>1
        <5>2. k + 1 = 1
          BY <5>1, <2>x, <1>0
        <5> QED BY <5>2, <1>1, <1>0
      <4> QED BY <3>1, <4>1, <2>0
    <3>2. CASE i # he
      <4>1. stt[i] = "ready" <=> \E k \in DOMAIN rd : rd[k] = i
        BY <3>2, <2>0 DEF Pair, Handed
      <4>2. ASSUME NEW k \in DOMAIN rd, rd[k] = i
            PROVE  \E j \in DOMAIN rdd : rdd[j] = i
        <5>1. k # 1 /\ k - 1 \in DOMAIN rdd /\ (k - 1) + 1 = k
          BY <4>2, <3>2, <1>0, <1>1
        <5> QED BY <4>2, <5>1, <1>1
      <4> QED BY <4>1, <4>2, <1>1
    <3> QED BY <3>1, <3>2
  <2> QED BY <2>1, <2>2, <2>3 DEF Handed
<1>4. Consecutive(tag, cf, rdd, hp, he, md, en, filled, FALSE)
  <2>1. InHand(Nil, FALSE) = 0 /\ InHand(he, FALSE) = 1
    BY <1>0 DEF InHand
  <2>2. \A k \in DOMAIN rd : cf[rd[k]] = <<tag, Len(en) + 0 + k>>
    BY <2>1 DEF Pair, Consecutive
  <2> HIDE DEF rdd, he
  <2>3. cf[he] = <<tag, Len(en) + 1>>
    BY <2>2, <1>0
  <2>4. \A k \in DOMAIN rdd : cf[rdd[k]] = <<tag, Len(en) + 1 + k>>
    <3> TAKE k \in DOMAIN rdd
    <3>1. cf[rdd[k]] = <<tag, Len(en) + 0 + (k + 1)>>
      BY <2>2, <1>1
    <3>2. Len(en) + 0 + (k + 1) = Len(en) + 1 + k
      BY <1>0, <1>1
    <3> QED BY <3>1, <3>2
  <2>5. md = Len(en) + 0 + Len(rd) + (IF hp # Nil THEN 1 ELSE 0)
    BY <2>1 DEF Pair, Consecutive
  <2>6. md = Len(en) + 1 + Len(rdd) + (IF hp # Nil THEN 1 ELSE 0)
    BY <2>5, <1>0, <1>1
  <2> QED BY <2>1, <2>3, <2>4, <2>6 DEF Pair, Consecutive
<1> QED BY <1>2, <1>3, <1>4 DEF Pair

\* It encodes the slot it has taken.
LEMMA PairEncode ==
  ASSUME NEW n \in Nat, NEW tag, NEW st, NEW cf, NEW rd, NEW hp, NEW he, NEW md,
         NEW en, NEW filled \in BOOLEAN,
         Pair(n, tag, st, cf, rd, hp, he, md, en, filled, FALSE), he # Nil
  PROVE  Pair(n, tag, st, cf, rd, hp, he, md, Append(en, cf[he]), filled, TRUE)
<1> DEFINE enn == Append(en, cf[he])
<1>0. /\ en \in Seq({tag} \X Nat) /\ Len(en) \in Nat /\ md \in Nat
      /\ cf[he] = <<tag, Len(en) + 1>> /\ rd \in Seq(1..n) /\ Len(rd) \in Nat
      /\ \A k \in DOMAIN en : en[k] = <<tag, k>>
  <2>1. /\ en \in Seq({tag} \X Nat) /\ md \in Nat /\ rd \in Seq(1..n)
    BY DEF Pair, PairTypes
  <2>2. cf[he] = <<tag, Len(en) + 1>> /\ \A k \in DOMAIN en : en[k] = <<tag, k>>
    BY DEF Pair, Consecutive
  <2> QED BY <2>1, <2>2
<1>1. enn \in Seq({tag} \X Nat) /\ Len(enn) = Len(en) + 1
      /\ DOMAIN enn = 1..(Len(en) + 1)
      /\ \A k \in DOMAIN enn : enn[k] = <<tag, k>>
  BY <1>0
<1>2. InHand(he, FALSE) = 1 /\ InHand(he, TRUE) = 0
  BY DEF InHand
<1>3. /\ md = Len(en) + 1 + Len(rd) + (IF hp # Nil THEN 1 ELSE 0)
      /\ \A k \in DOMAIN rd : cf[rd[k]] = <<tag, Len(en) + 1 + k>>
      /\ filled => hp # Nil /\ cf[hp] = <<tag, md>>
  BY <1>2 DEF Pair, Consecutive
<1> HIDE DEF enn
<1>4. Consecutive(tag, cf, rd, hp, he, md, enn, filled, TRUE)
  <2>1. md = Len(enn) + 0 + Len(rd) + (IF hp # Nil THEN 1 ELSE 0)
    BY <1>0, <1>1, <1>3
  <2>2. \A k \in DOMAIN rd : Len(en) + 1 + k = Len(enn) + 0 + k
    BY <1>0, <1>1
  <2> QED BY <1>1, <1>2, <1>3, <2>1, <2>2 DEF Consecutive
<1>5. PairTypes(n, tag, st, cf, rd, hp, he, md, enn)
  BY <1>1 DEF Pair, PairTypes
<1>6. Pair(n, tag, st, cf, rd, hp, he, md, enn, filled, TRUE)
  BY <1>4, <1>5 DEF Pair
<1> QED BY <1>6 DEF enn

\* It gives the slot back.
LEMMA PairRelease ==
  ASSUME NEW n \in Nat, NEW tag, NEW st, NEW cf, NEW rd, NEW hp, NEW he, NEW md,
         NEW en, NEW filled \in BOOLEAN,
         Pair(n, tag, st, cf, rd, hp, he, md, en, filled, TRUE), he # Nil
  PROVE  Pair(n, tag, [st EXCEPT ![he] = "free"], cf, rd, hp, Nil, md, en,
              filled, FALSE)
<1> DEFINE stt == [st EXCEPT ![he] = "free"]
<1>1. he \in 1..n /\ st \in [1..n -> SlotStates] /\ st[he] = "entropy"
  BY DEF Pair, PairTypes, Handed
<1>2. stt \in [1..n -> SlotStates] /\ stt[he] = "free"
      /\ \A i \in 1..n : i # he => stt[i] = st[i]
  BY <1>1 DEF SlotStates
<1> HIDE DEF stt
<1>3. Handed(n, stt, rd, hp, Nil)
  BY <1>1, <1>2, NilAssumption DEF Pair, Handed
<1>4. InHand(he, TRUE) = 0 /\ InHand(Nil, FALSE) = 0
  BY DEF InHand
<1>5. Consecutive(tag, cf, rd, hp, Nil, md, en, filled, FALSE)
  BY <1>4 DEF Pair, Consecutive
<1>6. PairTypes(n, tag, stt, cf, rd, hp, Nil, md, en)
  BY <1>2 DEF Pair, PairTypes
<1>7. Pair(n, tag, stt, cf, rd, hp, Nil, md, en, filled, FALSE)
  BY <1>3, <1>5, <1>6 DEF Pair
<1> QED BY <1>7 DEF stt

\* A frame that is transformed for nothing: the producer has failed.
LEMMA PairUnfilled ==
  ASSUME NEW n, NEW tag, NEW st, NEW cf, NEW rd, NEW hp, NEW he, NEW md, NEW en,
         NEW filled, NEW released,
         Pair(n, tag, st, cf, rd, hp, he, md, en, filled, released)
  PROVE  Pair(n, tag, st, cf, rd, hp, he, md, en, FALSE, released)
  BY DEF Pair, Consecutive

\* What the pair's invariant says of a pair: its slots have one owner, it
\* encodes in order, and it has not encoded more than was made.
LEMMA PairOutcome ==
  ASSUME NEW n \in Nat, NEW tag, NEW st, NEW cf, NEW rd, NEW hp, NEW he, NEW md,
         NEW en, NEW filled, NEW released,
         Pair(n, tag, st, cf, rd, hp, he, md, en, filled, released)
  PROVE  /\ \A i \in 1..n :
              /\ hp = i <=> st[i] = "producer"
              /\ he = i <=> st[i] = "entropy"
              /\ Cardinality({k \in DOMAIN rd : rd[k] = i})
                   = IF st[i] = "ready" THEN 1 ELSE 0
         /\ \A k \in DOMAIN en : en[k] = <<tag, k>>
<1>1. rd \in Seq(1..n) /\ \A j, k \in DOMAIN rd : rd[j] = rd[k] => j = k
  BY DEF Pair, PairTypes, Handed
<1>2. \A i \in 1..n : st[i] = "ready" <=> \E k \in DOMAIN rd : rd[k] = i
  BY DEF Pair, Handed
<1>3. \A i \in 1..n : Cardinality({k \in DOMAIN rd : rd[k] = i})
                         = IF st[i] = "ready" THEN 1 ELSE 0
  <2> TAKE i \in 1..n
  <2>1. Cardinality({k \in DOMAIN rd : rd[k] = i})
          = IF \E k \in DOMAIN rd : rd[k] = i THEN 1 ELSE 0
    BY <1>1, QueuedOnce
  <2> QED BY <2>1, <1>2
<1> QED BY <1>3 DEF Pair, Handed, Consecutive

-----------------------------------------------------------------------------
(* The labels of threads.                                                  *)

\* A thread that is not the one that acts stays where it is, or is woken.
Similar(l, m) == m = l \/ (l = "asleep" /\ m = "wait")

Moves(t, where) ==
    /\ DOMAIN pc' = DOMAIN pc
    /\ pc'[t] = where
    /\ \A u \in DOMAIN pc \ {t} : Similar(pc[u], pc'[u])

LEMMA StepsMove ==
  ASSUME NEW t \in DOMAIN pc, NEW where
  PROVE  /\ Dual!Goto(t, where) => Moves(t, where)
         /\ Handoff!Goto(t, where) => Moves(t, where)
         /\ Adaptive!Goto(t, where) => Moves(t, where)
         /\ \A S : Dual!GotoNotifying(t, where, S) => Moves(t, where)
         /\ \A S : Handoff!GotoNotifying(t, where, S) => Moves(t, where)
         /\ \A S : Adaptive!GotoNotifying(t, where, S) => Moves(t, where)
<1>1. /\ Dual!Goto(t, where) => Moves(t, where)
      /\ Handoff!Goto(t, where) => Moves(t, where)
      /\ Adaptive!Goto(t, where) => Moves(t, where)
  BY DEF Moves, Similar, Dual!Goto, Handoff!Goto, Adaptive!Goto
<1>2. ASSUME NEW S, Dual!GotoNotifying(t, where, S) PROVE Moves(t, where)
  BY <1>2 DEF Moves, Similar, Dual!GotoNotifying
<1>3. ASSUME NEW S, Handoff!GotoNotifying(t, where, S) PROVE Moves(t, where)
  BY <1>3 DEF Moves, Similar, Handoff!GotoNotifying
<1>4. ASSUME NEW S, Adaptive!GotoNotifying(t, where, S) PROVE Moves(t, where)
  BY <1>4 DEF Moves, Similar, Adaptive!GotoNotifying
<1> QED BY <1>1, <1>2, <1>3, <1>4

\* Whether a producer, or an entropy thread, at l has a slot in its hands.
ProducerHands(l, h) ==
    /\ l \in {"transform", "publish"} => h # Nil
    /\ l \in {"start", "claim", "wait", "drowsy", "asleep", "finish"} => h = Nil

EntropyHands(l, h) ==
    /\ l \in {"encode", "release"} => h # Nil
    /\ l \in {"start", "wait", "drowsy", "asleep"} => h = Nil

\* The caller is told what happened when every thread has ended.
MainInv ==
    /\ abort \in BOOLEAN /\ main \in {"running", "returned", "failed"}
    /\ main # "running" => \A t \in DOMAIN pc : pc[t] = "done"
    /\ main = "returned" => ~abort
    /\ main = "failed" => abort

\* A step of a thread that has not ended leaves that as it is.
LEMMA MainStays ==
  ASSUME MainInv, NEW t \in DOMAIN pc, pc[t] # "done", main' = main,
         abort' = abort \/ abort' = TRUE
  PROVE  MainInv'
  BY DEF MainInv

-----------------------------------------------------------------------------
(* The dual pipeline.                                                      *)

DualDomains ==
    /\ o \in OptionSets /\ o.pipeline = "dual"
    /\ DOMAIN pc = Dual!Threads /\ DOMAIN holds = Dual!Threads
    /\ DOMAIN state = Dual!Pairs /\ DOMAIN coeff = Dual!Pairs
    /\ DOMAIN ready = Dual!Pairs /\ DOMAIN made = Dual!Pairs
    /\ DOMAIN encoded = Dual!Pairs /\ DOMAIN producer_done = Dual!Pairs

DualPair(p) ==
    Pair(o.slots, p, state[p], coeff[p], ready[p], holds[Dual!Producer(p)],
         holds[Dual!Entropy(p)], made[p], encoded[p],
         pc[Dual!Producer(p)] = "publish", pc[Dual!Entropy(p)] = "release")

DualHands(p) ==
    /\ ProducerHands(pc[Dual!Producer(p)], holds[Dual!Producer(p)])
    /\ EntropyHands(pc[Dual!Entropy(p)], holds[Dual!Entropy(p)])

\* While nothing has failed a thread ends with empty hands, the entropy
\* thread after the producer and with nothing left to encode.
DualEnd(p) == ~abort =>
    /\ pc[Dual!Producer(p)] \notin {"caught", "tellAll"}
    /\ pc[Dual!Entropy(p)] # "tellAll"
    /\ producer_done[p] => pc[Dual!Producer(p)] = "done"
    /\ pc[Dual!Producer(p)] = "done" => holds[Dual!Producer(p)] = Nil
    /\ pc[Dual!Entropy(p)] = "done" =>
         producer_done[p] /\ ready[p] = <<>> /\ holds[Dual!Entropy(p)] = Nil

DualOf(p) == DualPair(p) /\ DualHands(p) /\ DualEnd(p)

DualInv == DualDomains /\ MainInv /\ \A p \in Dual!Pairs : DualOf(p)

LEMMA DualThreads ==
  /\ \A p \in Dual!Pairs : /\ Dual!Producer(p) \in Dual!Threads
                           /\ Dual!Entropy(p) \in Dual!Threads
  /\ \A p, q \in Dual!Pairs : Dual!Producer(p) # Dual!Entropy(q)
  /\ \A p, q \in Dual!Pairs : p # q => /\ Dual!Producer(p) # Dual!Producer(q)
                                       /\ Dual!Entropy(p) # Dual!Entropy(q)
  /\ \A t \in Dual!Threads : \E p \in Dual!Pairs :
        t = Dual!Producer(p) \/ t = Dual!Entropy(p)
  BY DEF Dual!Threads, Dual!PairThreads, Dual!Pairs, Dual!Producer, Dual!Entropy

LEMMA DualSlots == ASSUME DualDomains PROVE o.slots \in 1..6 /\ o.slots \in Nat
  BY OptionsAssumption DEF DualDomains, Options

LEMMA DualInitially == Dual!Init => DualInv
<1> SUFFICES ASSUME Dual!Init PROVE DualInv
  OBVIOUS
<1>1. DualDomains
  BY DEF Dual!Init, DualDomains
<1>2. MainInv
  BY DEF Dual!Init, MainInv
<1>3. ASSUME NEW p \in Dual!Pairs PROVE DualOf(p)
  <2>1. DualPair(p)
    BY <1>1, DualThreads, DualSlots, PairInit DEF Dual!Init, DualPair
  <2>2. DualHands(p) /\ DualEnd(p)
    BY DualThreads DEF Dual!Init, DualHands, DualEnd, ProducerHands, EntropyHands
  <2> QED BY <2>1, <2>2 DEF DualOf
<1> QED BY <1>1, <1>2, <1>3 DEF DualInv

\* A pair none of whose threads acts.
Bystander(q) ==
    /\ state'[q] = state[q] /\ coeff'[q] = coeff[q] /\ ready'[q] = ready[q]
    /\ made'[q] = made[q] /\ encoded'[q] = encoded[q]
    /\ producer_done'[q] = producer_done[q]
    /\ holds'[Dual!Producer(q)] = holds[Dual!Producer(q)]
    /\ holds'[Dual!Entropy(q)] = holds[Dual!Entropy(q)]
    /\ Similar(pc[Dual!Producer(q)], pc'[Dual!Producer(q)])
    /\ Similar(pc[Dual!Entropy(q)], pc'[Dual!Entropy(q)])

LEMMA BystanderKeeps ==
  ASSUME NEW q \in Dual!Pairs, DualOf(q), Bystander(q), o' = o,
         abort' = abort \/ abort' = TRUE
  PROVE  DualOf(q)'
<1>1. DualPair(q)'
  BY DEF DualOf, DualPair, Bystander, Similar
<1>2. DualHands(q)'
  BY DEF DualOf, DualHands, Bystander, Similar, ProducerHands, EntropyHands
<1>3. DualEnd(q)'
  BY DEF DualOf, DualEnd, Bystander, Similar
<1> QED BY <1>1, <1>2, <1>3 DEF DualOf

\* What is left to show of a step of a thread t of pair p.
LEMMA DualStepOf ==
  ASSUME DualInv, NEW p \in Dual!Pairs, NEW t \in Dual!PairThreads(p),
         pc[t] # "done", main' = main, o' = o, abort' = abort \/ abort' = TRUE,
         DualDomains', DualOf(p)', \A q \in Dual!Pairs \ {p} : Bystander(q)
  PROVE  DualInv'
<1>1. t \in DOMAIN pc
  BY DEF DualInv, DualDomains, Dual!Threads
<1>2. MainInv'
  BY <1>1, MainStays DEF DualInv
<1>3. ASSUME NEW q \in Dual!Pairs PROVE DualOf(q)'
  BY BystanderKeeps DEF DualInv
<1> QED BY <1>2, <1>3 DEF DualInv

LEMMA DualMoves ==
  ASSUME DualDomains, NEW p \in Dual!Pairs, NEW where, NEW t, Moves(t, where),
         t \in Dual!PairThreads(p)
  PROVE  /\ t \in DOMAIN pc /\ DOMAIN pc' = Dual!Threads
         /\ \A q \in Dual!Pairs \ {p} :
              /\ Similar(pc[Dual!Producer(q)], pc'[Dual!Producer(q)])
              /\ Similar(pc[Dual!Entropy(q)], pc'[Dual!Entropy(q)])
         /\ t = Dual!Producer(p) =>
              /\ pc'[Dual!Producer(p)] = where
              /\ Similar(pc[Dual!Entropy(p)], pc'[Dual!Entropy(p)])
         /\ t = Dual!Entropy(p) =>
              /\ pc'[Dual!Entropy(p)] = where
              /\ Similar(pc[Dual!Producer(p)], pc'[Dual!Producer(p)])
<1>1. t \in Dual!Threads /\ DOMAIN pc = Dual!Threads
  BY DEF DualDomains, Dual!Threads
<1>2. t = Dual!Producer(p) \/ t = Dual!Entropy(p)
  BY DEF Dual!PairThreads
<1>3. /\ DOMAIN pc' = DOMAIN pc /\ pc'[t] = where
      /\ \A u \in DOMAIN pc \ {t} : Similar(pc[u], pc'[u])
  BY DEF Moves
<1>4. ASSUME NEW q \in Dual!Pairs \ {p}
      PROVE  /\ Similar(pc[Dual!Producer(q)], pc'[Dual!Producer(q)])
             /\ Similar(pc[Dual!Entropy(q)], pc'[Dual!Entropy(q)])
  BY <1>1, <1>2, <1>3, DualThreads
<1>5. CASE t = Dual!Producer(p)
  BY <1>1, <1>3, <1>4, <1>5, DualThreads
<1>6. CASE t = Dual!Entropy(p)
  BY <1>1, <1>3, <1>4, <1>6, DualThreads
<1> QED BY <1>2, <1>5, <1>6

\* Steps that move a thread and nothing else.
LEMMA DualOnlyMoves ==
  ASSUME DualInv, NEW p \in Dual!Pairs, NEW t \in Dual!PairThreads(p), NEW where,
         Moves(t, where), pc[t] # "done",
         UNCHANGED <<state, coeff, ready, holds, made, encoded, o, main,
                     producer_done>>,
         abort' = abort \/ abort' = TRUE,
         t = Dual!Producer(p) =>
            /\ where # "publish" /\ ProducerHands(where, holds[t])
            /\ ~abort' => where \notin {"caught", "tellAll", "done"},
         t = Dual!Entropy(p) =>
            /\ (where = "release") = (pc[t] = "release")
            /\ EntropyHands(where, holds[t])
            /\ ~abort' => /\ where # "tellAll"
                          /\ where = "done" => /\ ready[p] = <<>> /\ producer_done[p]
                                               /\ holds[t] = Nil
  PROVE  DualInv'
<1>1. DualDomains /\ DualOf(p)
  BY DEF DualInv
<1>2. /\ DOMAIN pc' = Dual!Threads
      /\ \A q \in Dual!Pairs \ {p} :
              /\ Similar(pc[Dual!Producer(q)], pc'[Dual!Producer(q)])
              /\ Similar(pc[Dual!Entropy(q)], pc'[Dual!Entropy(q)])
  BY <1>1, DualMoves
<1>3. DualDomains' /\ \A q \in Dual!Pairs \ {p} : Bystander(q)
  BY <1>1, <1>2 DEF DualDomains, Bystander
<1>4. CASE t = Dual!Producer(p)
  <2>1. /\ pc'[Dual!Producer(p)] = where
        /\ Similar(pc[Dual!Entropy(p)], pc'[Dual!Entropy(p)])
    BY <1>1, <1>4, DualMoves
  <2>2. DualPair(p)'
    <3>1. Pair(o.slots, p, state[p], coeff[p], ready[p], holds[Dual!Producer(p)],
               holds[Dual!Entropy(p)], made[p], encoded[p], FALSE,
               pc[Dual!Entropy(p)] = "release")
      BY <1>1, PairUnfilled DEF DualOf, DualPair
    <3>2. (pc'[Dual!Entropy(p)] = "release") = (pc[Dual!Entropy(p)] = "release")
          /\ (pc'[Dual!Producer(p)] = "publish") = FALSE
      BY <2>1, <1>4 DEF Similar
    <3> QED BY <3>1, <3>2 DEF DualPair
  <2>3. DualHands(p)'
    BY <1>1, <1>4, <2>1 DEF DualOf, DualHands, Similar, EntropyHands
  <2>4. DualEnd(p)'
    BY <1>1, <1>4, <2>1 DEF DualOf, DualEnd, Similar
  <2> QED BY <1>3, <2>2, <2>3, <2>4, DualStepOf DEF DualOf
<1>5. CASE t = Dual!Entropy(p)
  <2>1. /\ pc'[Dual!Entropy(p)] = where
        /\ Similar(pc[Dual!Producer(p)], pc'[Dual!Producer(p)])
    BY <1>1, <1>5, DualMoves
  <2>2. DualPair(p)'
    <3>1. (pc'[Dual!Entropy(p)] = "release") = (pc[Dual!Entropy(p)] = "release")
          /\ (pc'[Dual!Producer(p)] = "publish") = (pc[Dual!Producer(p)] = "publish")
      BY <2>1, <1>5 DEF Similar
    <3> QED BY <1>1, <3>1 DEF DualOf, DualPair
  <2>3. DualHands(p)'
    BY <1>1, <1>5, <2>1 DEF DualOf, DualHands, Similar, ProducerHands
  <2>4. DualEnd(p)'
    BY <1>1, <1>5, <2>1 DEF DualOf, DualEnd, Similar
  <2> QED BY <1>3, <2>2, <2>3, <2>4, DualStepOf DEF DualOf
<1> QED BY <1>4, <1>5 DEF Dual!PairThreads

LEMMA DualActor ==
  ASSUME DualInv, NEW p \in Dual!Pairs, NEW t \in Dual!PairThreads(p)
  PROVE  /\ t \in DOMAIN pc
         /\ t = Dual!Producer(p) \/ t = Dual!Entropy(p)
         /\ Dual!Producer(p) # Dual!Entropy(p)
         /\ DualPair(p) /\ DualHands(p) /\ DualEnd(p)
         /\ ProducerHands(pc[Dual!Producer(p)], holds[Dual!Producer(p)])
         /\ EntropyHands(pc[Dual!Entropy(p)], holds[Dual!Entropy(p)])
  BY DualThreads DEF DualInv, DualDomains, Dual!Threads, Dual!PairThreads, DualOf,
     DualHands

LEMMA DualMoveSteps ==
  ASSUME DualInv, NEW p \in Dual!Pairs,
         \/ Dual!Start(Dual!Producer(p), "claim")
         \/ Dual!ClaimWork(Dual!Producer(p), "wait", "finish")
         \/ Dual!Start(Dual!Entropy(p), "wait")
         \/ \E t \in Dual!PairThreads(p) :
              Dual!Sleep(t) \/ Dual!Wake(t) \/ Dual!Throw(t) \/ Dual!TellAll(t)
  PROVE  DualInv'
<1> USE DEF Dual!slotVars, Dual!frameVars, Dual!flagVars
<1>0. PICK t \in Dual!PairThreads(p) :
         \/ t = Dual!Producer(p) /\ Dual!Start(t, "claim")
         \/ t = Dual!Producer(p) /\ Dual!ClaimWork(t, "wait", "finish")
         \/ t = Dual!Entropy(p) /\ Dual!Start(t, "wait")
         \/ Dual!Sleep(t) \/ Dual!Wake(t) \/ Dual!Throw(t) \/ Dual!TellAll(t)
  BY DEF Dual!PairThreads
<1>1. /\ t \in DOMAIN pc
      /\ t = Dual!Producer(p) \/ t = Dual!Entropy(p)
      /\ Dual!Producer(p) # Dual!Entropy(p)
      /\ DualEnd(p)
      /\ ProducerHands(pc[Dual!Producer(p)], holds[Dual!Producer(p)])
      /\ EntropyHands(pc[Dual!Entropy(p)], holds[Dual!Entropy(p)])
  BY DualActor
<1>2. CASE t = Dual!Producer(p) /\ Dual!Start(t, "claim")
  <2>1. Moves(t, "claim") /\ pc[t] = "start"
    BY <1>1, <1>2, StepsMove DEF Dual!Start
  <2>2. ProducerHands("claim", holds[t])
    BY <1>1, <1>2, <2>1 DEF ProducerHands
  <2> QED BY <1>1, <1>2, <2>1, <2>2, DualOnlyMoves DEF Dual!Start
<1>3. CASE t = Dual!Producer(p) /\ Dual!ClaimWork(t, "wait", "finish")
  <2>1. /\ Moves(t, "wait") \/ Moves(t, "finish")
        /\ pc[t] = "claim"
    BY <1>1, <1>3, StepsMove DEF Dual!ClaimWork
  <2>2. ProducerHands("wait", holds[t]) /\ ProducerHands("finish", holds[t])
    BY <1>1, <1>3, <2>1 DEF ProducerHands
  <2>3. UNCHANGED <<state, coeff, ready, holds, made, encoded, o, main,
                    producer_done, abort>>
    BY <1>3 DEF Dual!ClaimWork
  <2> QED BY <1>1, <1>3, <2>1, <2>2, <2>3, DualOnlyMoves
<1>4. CASE t = Dual!Entropy(p) /\ Dual!Start(t, "wait")
  <2>1. Moves(t, "wait") /\ pc[t] = "start"
    BY <1>1, <1>4, StepsMove DEF Dual!Start
  <2>2. EntropyHands("wait", holds[t])
    BY <1>1, <1>4, <2>1 DEF EntropyHands
  <2> QED BY <1>1, <1>4, <2>1, <2>2, DualOnlyMoves DEF Dual!Start
<1>5. CASE Dual!Sleep(t)
  <2>1. Moves(t, "asleep") /\ pc[t] = "drowsy"
    BY <1>1, <1>5, StepsMove DEF Dual!Sleep
  <2>2. /\ t = Dual!Producer(p) => ProducerHands("asleep", holds[t])
        /\ t = Dual!Entropy(p) => EntropyHands("asleep", holds[t])
    BY <1>1, <2>1 DEF EntropyHands, ProducerHands
  <2> QED BY <1>1, <1>5, <2>1, <2>2, DualOnlyMoves DEF Dual!Sleep
<1>6. CASE Dual!Wake(t)
  <2>1. Moves(t, "wait") /\ pc[t] = "asleep"
    BY <1>1, <1>6, StepsMove DEF Dual!Wake
  <2>2. /\ t = Dual!Producer(p) => ProducerHands("wait", holds[t])
        /\ t = Dual!Entropy(p) => EntropyHands("wait", holds[t])
    BY <1>1, <2>1 DEF EntropyHands, ProducerHands
  <2> QED BY <1>1, <1>6, <2>1, <2>2, DualOnlyMoves DEF Dual!Wake
<1>7. CASE Dual!Throw(t)
  <2>1. /\ Moves(t, "caught") \/ Moves(t, "tellAll")
        /\ pc[t] \in {"start", "transform", "encode"} /\ abort' = TRUE
    BY <1>1, <1>7, StepsMove DEF Dual!Throw
  <2>2. /\ ProducerHands("caught", holds[t]) /\ ProducerHands("tellAll", holds[t])
        /\ EntropyHands("caught", holds[t]) /\ EntropyHands("tellAll", holds[t])
    BY DEF EntropyHands, ProducerHands
  <2>3. UNCHANGED <<state, coeff, ready, holds, made, encoded, o, main,
                    producer_done>>
    BY <1>7 DEF Dual!Throw
  <2> QED BY <1>1, <2>1, <2>2, <2>3, DualOnlyMoves
<1>8. CASE Dual!TellAll(t)
  <2>1. Moves(t, "done") /\ pc[t] = "tellAll"
    BY <1>1, <1>8, StepsMove DEF Dual!TellAll
  <2>2. abort = TRUE
    BY <1>1, <2>1 DEF DualEnd, DualInv, MainInv
  <2>3. ProducerHands("done", holds[t]) /\ EntropyHands("done", holds[t])
    BY DEF EntropyHands, ProducerHands
  <2> QED BY <1>1, <1>8, <2>1, <2>2, <2>3, DualOnlyMoves DEF Dual!TellAll
<1> QED BY <1>0, <1>2, <1>3, <1>4, <1>5, <1>6, <1>7, <1>8

LEMMA DualProducerWait ==
  ASSUME DualInv, NEW p \in Dual!Pairs, Dual!ProducerWait(p)
  PROVE  DualInv'
<1> USE DEF Dual!flagVars
<1> DEFINE t == Dual!Producer(p)
           e == Dual!Entropy(p)
           i == Dual!Min(Dual!Free(p))
<1>1. /\ t \in Dual!PairThreads(p) /\ t \in DOMAIN pc /\ t # e
      /\ DualPair(p) /\ DualEnd(p) /\ DualDomains
      /\ ProducerHands(pc[t], holds[t]) /\ EntropyHands(pc[e], holds[e])
      /\ pc[t] = "wait" /\ holds[t] = Nil
  <2>1. t \in Dual!PairThreads(p) /\ pc[t] = "wait" /\ DualDomains
    BY DEF Dual!PairThreads, Dual!ProducerWait, DualInv
  <2> QED BY <2>1, DualActor DEF ProducerHands
<1>2. \/ /\ Dual!Goto(t, "finish") \/ Dual!Goto(t, "drowsy")
         /\ UNCHANGED <<state, holds, made>>
      \/ /\ Dual!Free(p) # {}
         /\ state' = [state EXCEPT ![p][i] = "producer"]
         /\ holds' = [holds EXCEPT ![t] = i]
         /\ made' = [made EXCEPT ![p] = @ + 1]
         /\ Dual!Goto(t, "transform")
  BY DEF Dual!ProducerWait, Dual!Doze
<1>3. UNCHANGED <<coeff, ready, encoded, o, main, producer_done, abort>>
  BY DEF Dual!ProducerWait
<1>4. CASE /\ Dual!Goto(t, "finish") \/ Dual!Goto(t, "drowsy")
           /\ UNCHANGED <<state, holds, made>>
  <2>1. Moves(t, "finish") \/ Moves(t, "drowsy")
    BY <1>1, <1>4, StepsMove
  <2>2. ProducerHands("finish", holds[t]) /\ ProducerHands("drowsy", holds[t])
    BY <1>1 DEF ProducerHands
  <2> QED BY <1>1, <1>3, <1>4, <2>1, <2>2, DualOnlyMoves
<1>5. CASE /\ Dual!Free(p) # {}
           /\ state' = [state EXCEPT ![p][i] = "producer"]
           /\ holds' = [holds EXCEPT ![t] = i]
           /\ made' = [made EXCEPT ![p] = @ + 1]
           /\ Dual!Goto(t, "transform")
  <2>1. o.slots \in 1..6 /\ o.slots \in Nat
    BY <1>1, DualSlots
  <2>2. i \in 1..o.slots /\ state[p][i] = "free"
    <3>1. Dual!Free(p) \in SUBSET (1..6)
      BY <2>1 DEF Dual!Free
    <3> QED BY <1>5, <3>1, LeastMember DEF Dual!Free
  <2> HIDE DEF i
  <2>3. Moves(t, "transform")
    BY <1>1, <1>5, StepsMove
  <2>4. /\ DOMAIN pc' = Dual!Threads /\ pc'[t] = "transform" /\ Similar(pc[e], pc'[e])
        /\ \A q \in Dual!Pairs \ {p} :
              /\ Similar(pc[Dual!Producer(q)], pc'[Dual!Producer(q)])
              /\ Similar(pc[Dual!Entropy(q)], pc'[Dual!Entropy(q)])
    BY <1>1, <2>3, DualMoves
  <2>5. DualDomains' /\ \A q \in Dual!Pairs \ {p} : Bystander(q)
    BY <1>1, <1>3, <1>5, <2>4, DualThreads DEF DualDomains, Bystander
  <2>6. /\ holds'[t] = i /\ holds'[e] = holds[e] /\ made'[p] = made[p] + 1
        /\ state'[p] = [state[p] EXCEPT ![i] = "producer"]
    BY <1>1, <1>5, DualThreads DEF DualDomains
  <2>7. DualPair(p)'
    <3>1. Pair(o.slots, p, [state[p] EXCEPT ![i] = "producer"], coeff[p], ready[p],
               i, holds[e], made[p] + 1, encoded[p], FALSE, pc[e] = "release")
      BY <1>1, <2>1, <2>2, PairTakeSlot DEF DualPair
    <3>2. (pc'[e] = "release") = (pc[e] = "release")
          /\ (pc'[t] = "publish") = FALSE
      BY <2>4 DEF Similar
    <3> QED BY <1>3, <2>6, <3>1, <3>2 DEF DualPair
  <2>8. DualHands(p)'
    BY <1>1, <2>2, <2>4, <2>6, NilAssumption
    DEF DualHands, Similar, EntropyHands, ProducerHands
  <2>9. DualEnd(p)'
    BY <1>1, <1>3, <2>4, <2>6 DEF DualEnd, Similar
  <2> QED BY <1>1, <1>3, <2>5, <2>7, <2>8, <2>9, DualStepOf DEF DualOf
<1> QED BY <1>2, <1>4, <1>5

LEMMA DualTransform ==
  ASSUME DualInv, NEW p \in Dual!Pairs, Dual!Transform(p)
  PROVE  DualInv'
<1> USE DEF Dual!flagVars, Dual!frameVars
<1> DEFINE t == Dual!Producer(p)
           e == Dual!Entropy(p)
<1>1. /\ t \in Dual!PairThreads(p) /\ t \in DOMAIN pc /\ t # e
      /\ DualPair(p) /\ DualEnd(p) /\ DualDomains
      /\ ProducerHands(pc[t], holds[t]) /\ EntropyHands(pc[e], holds[e])
      /\ pc[t] = "transform" /\ holds[t] # Nil
  <2>1. t \in Dual!PairThreads(p) /\ pc[t] = "transform" /\ DualDomains
    BY DEF Dual!PairThreads, Dual!Transform, DualInv
  <2> QED BY <2>1, DualActor DEF ProducerHands
<1>2. /\ coeff' = [coeff EXCEPT ![p][holds[t]] = <<p, made[p]>>]
      /\ Dual!Goto(t, "publish")
      /\ UNCHANGED <<state, ready, holds, made, encoded, o, main, producer_done,
                     abort>>
  BY DEF Dual!Transform
<1>3. Moves(t, "publish")
  BY <1>1, <1>2, StepsMove
<1>4. /\ DOMAIN pc' = Dual!Threads /\ pc'[t] = "publish" /\ Similar(pc[e], pc'[e])
      /\ \A q \in Dual!Pairs \ {p} :
            /\ Similar(pc[Dual!Producer(q)], pc'[Dual!Producer(q)])
            /\ Similar(pc[Dual!Entropy(q)], pc'[Dual!Entropy(q)])
  BY <1>1, <1>3, DualMoves
<1>5. DualDomains' /\ \A q \in Dual!Pairs \ {p} : Bystander(q)
  BY <1>1, <1>2, <1>4, DualThreads DEF DualDomains, Bystander
<1>6. coeff'[p] = [coeff[p] EXCEPT ![holds[t]] = <<p, made[p]>>]
  BY <1>1, <1>2 DEF DualDomains
<1>7. DualPair(p)'
  <2>1. Pair(o.slots, p, state[p], coeff[p], ready[p], holds[t], holds[e], made[p],
             encoded[p], FALSE, pc[e] = "release")
    BY <1>1, PairUnfilled DEF DualPair
  <2>2. Pair(o.slots, p, state[p], [coeff[p] EXCEPT ![holds[t]] = <<p, made[p]>>],
             ready[p], holds[t], holds[e], made[p], encoded[p], TRUE,
             pc[e] = "release")
    BY <1>1, <2>1, DualSlots, PairTransform
  <2>3. (pc'[e] = "release") = (pc[e] = "release")
        /\ (pc'[t] = "publish") = TRUE
    BY <1>4 DEF Similar
  <2> QED BY <1>2, <1>6, <2>2, <2>3 DEF DualPair
<1>8. DualHands(p)'
  BY <1>1, <1>2, <1>4 DEF DualHands, Similar, EntropyHands, ProducerHands
<1>9. DualEnd(p)'
  BY <1>1, <1>2, <1>4 DEF DualEnd, Similar
<1> QED BY <1>1, <1>2, <1>5, <1>7, <1>8, <1>9, DualStepOf DEF DualOf

LEMMA DualPublish ==
  ASSUME DualInv, NEW p \in Dual!Pairs, Dual!Publish(p)
  PROVE  DualInv'
<1> USE DEF Dual!flagVars, Dual!frameVars
<1> DEFINE t == Dual!Producer(p)
           e == Dual!Entropy(p)
<1>1. /\ t \in Dual!PairThreads(p) /\ t \in DOMAIN pc /\ t # e
      /\ DualPair(p) /\ DualEnd(p) /\ DualDomains
      /\ ProducerHands(pc[t], holds[t]) /\ EntropyHands(pc[e], holds[e])
      /\ pc[t] = "publish" /\ holds[t] # Nil
  <2>1. t \in Dual!PairThreads(p) /\ pc[t] = "publish" /\ DualDomains
    BY DEF Dual!PairThreads, Dual!Publish, DualInv
  <2> QED BY <2>1, DualActor DEF ProducerHands
<1>2. /\ state' = [state EXCEPT ![p][holds[t]] = "ready"]
      /\ ready' = [ready EXCEPT ![p] = Append(@, holds[t])]
      /\ holds' = [holds EXCEPT ![t] = Nil]
      /\ Dual!GotoNotifying(t, "claim", Dual!PairThreads(p))
      /\ UNCHANGED <<coeff, made, encoded, o, main, producer_done, abort>>
  BY DEF Dual!Publish
<1>3. Moves(t, "claim")
  BY <1>1, <1>2, StepsMove
<1>4. /\ DOMAIN pc' = Dual!Threads /\ pc'[t] = "claim" /\ Similar(pc[e], pc'[e])
      /\ \A q \in Dual!Pairs \ {p} :
            /\ Similar(pc[Dual!Producer(q)], pc'[Dual!Producer(q)])
            /\ Similar(pc[Dual!Entropy(q)], pc'[Dual!Entropy(q)])
  BY <1>1, <1>3, DualMoves
<1>5. DualDomains' /\ \A q \in Dual!Pairs \ {p} : Bystander(q)
  BY <1>1, <1>2, <1>4, DualThreads DEF DualDomains, Bystander
<1>6. /\ state'[p] = [state[p] EXCEPT ![holds[t]] = "ready"]
      /\ ready'[p] = Append(ready[p], holds[t])
      /\ holds'[t] = Nil /\ holds'[e] = holds[e]
  BY <1>1, <1>2, DualThreads DEF DualDomains
<1>7. DualPair(p)'
  <2>1. Pair(o.slots, p, [state[p] EXCEPT ![holds[t]] = "ready"], coeff[p],
             Append(ready[p], holds[t]), Nil, holds[e], made[p], encoded[p],
             FALSE, pc[e] = "release")
    BY <1>1, DualSlots, PairPublish DEF DualPair
  <2>2. (pc'[e] = "release") = (pc[e] = "release")
        /\ (pc'[t] = "publish") = FALSE
    BY <1>4 DEF Similar
  <2> QED BY <1>2, <1>6, <2>1, <2>2 DEF DualPair
<1>8. DualHands(p)'
  BY <1>1, <1>4, <1>6 DEF DualHands, Similar, EntropyHands, ProducerHands
<1>9. DualEnd(p)'
  BY <1>1, <1>2, <1>4, <1>6 DEF DualEnd, Similar
<1> QED BY <1>1, <1>2, <1>5, <1>7, <1>8, <1>9, DualStepOf DEF DualOf

\* The producer ends, with or without a failure.
LEMMA DualProducerEnds ==
  ASSUME DualInv, NEW p \in Dual!Pairs,
         Dual!ProducerFinish(p) \/ Dual!ProducerCaught(p)
  PROVE  DualInv'
<1> USE DEF Dual!flagVars, Dual!frameVars, Dual!slotVars
<1> DEFINE t == Dual!Producer(p)
           e == Dual!Entropy(p)
<1>1. /\ t \in Dual!PairThreads(p) /\ t \in DOMAIN pc /\ t # e
      /\ DualPair(p) /\ DualEnd(p) /\ DualDomains
      /\ ProducerHands(pc[t], holds[t]) /\ EntropyHands(pc[e], holds[e])
      /\ \/ pc[t] = "finish" /\ holds[t] = Nil
         \/ pc[t] = "caught" /\ abort
  <2>1. t \in Dual!PairThreads(p) /\ pc[t] \in {"finish", "caught"} /\ DualDomains
    BY DEF Dual!PairThreads, Dual!ProducerFinish, Dual!ProducerCaught, DualInv
  <2>2. /\ t \in DOMAIN pc /\ t # e /\ DualPair(p) /\ DualEnd(p)
        /\ ProducerHands(pc[t], holds[t]) /\ EntropyHands(pc[e], holds[e])
    BY <2>1, DualActor
  <2>3. CASE pc[t] = "finish"
    BY <2>1, <2>2, <2>3 DEF ProducerHands
  <2>4. CASE pc[t] = "caught"
    BY <2>1, <2>2, <2>4 DEF DualEnd
  <2> QED BY <2>1, <2>3, <2>4
<1>2. /\ producer_done' = [producer_done EXCEPT ![p] = TRUE]
      /\ \/ pc[t] = "finish" /\ Dual!GotoNotifying(t, "done", Dual!PairThreads(p))
         \/ pc[t] = "caught" /\ Dual!Goto(t, "tellAll")
      /\ UNCHANGED <<state, coeff, ready, holds, made, encoded, o, main, abort>>
  BY DEF Dual!ProducerFinish, Dual!ProducerCaught
<1>3. PICK where \in {"done", "tellAll"} :
         /\ Moves(t, where)
         /\ where = "done" => pc[t] = "finish"
         /\ where = "tellAll" => pc[t] = "caught"
  BY <1>1, <1>2, StepsMove
<1>4. /\ DOMAIN pc' = Dual!Threads /\ pc'[t] = where /\ Similar(pc[e], pc'[e])
      /\ \A q \in Dual!Pairs \ {p} :
            /\ Similar(pc[Dual!Producer(q)], pc'[Dual!Producer(q)])
            /\ Similar(pc[Dual!Entropy(q)], pc'[Dual!Entropy(q)])
  BY <1>1, <1>3, DualMoves
<1>5. DualDomains' /\ \A q \in Dual!Pairs \ {p} : Bystander(q)
  BY <1>1, <1>2, <1>4, DualThreads DEF DualDomains, Bystander
<1>6. DualPair(p)'
  <2>1. (pc'[e] = "release") = (pc[e] = "release")
        /\ (pc'[t] = "publish") = (pc[t] = "publish")
    BY <1>1, <1>4 DEF Similar
  <2> QED BY <1>1, <1>2, <2>1 DEF DualPair
<1>7. DualHands(p)'
  BY <1>1, <1>2, <1>4 DEF DualHands, Similar, EntropyHands, ProducerHands
<1>8. DualEnd(p)'
  <2>1. producer_done'[p] = TRUE
    BY <1>1, <1>2 DEF DualDomains
  <2>2. CASE abort
    BY <2>2, <1>2 DEF DualEnd
  <2>3. CASE ~abort
    BY <2>1, <2>3, <1>1, <1>2, <1>3, <1>4 DEF DualEnd, Similar
  <2> QED BY <2>2, <2>3
<1>9. pc[t] # "done"
  BY <1>1
<1> QED BY <1>1, <1>2, <1>5, <1>6, <1>7, <1>8, <1>9, DualStepOf DEF DualOf

LEMMA DualEntropyWait ==
  ASSUME DualInv, NEW p \in Dual!Pairs, Dual!EntropyWait(p)
  PROVE  DualInv'
<1> USE DEF Dual!flagVars, Dual!frameVars
<1> DEFINE t == Dual!Producer(p)
           e == Dual!Entropy(p)
           i == Head(ready[p])
<1>1. /\ e \in Dual!PairThreads(p) /\ e \in DOMAIN pc /\ t # e
      /\ DualPair(p) /\ DualEnd(p) /\ DualDomains
      /\ ProducerHands(pc[t], holds[t]) /\ EntropyHands(pc[e], holds[e])
      /\ pc[e] = "wait" /\ holds[e] = Nil
  <2>1. e \in Dual!PairThreads(p) /\ pc[e] = "wait" /\ DualDomains
    BY DEF Dual!PairThreads, Dual!EntropyWait, Dual!TakeReady, DualInv
  <2> QED BY <2>1, DualActor DEF EntropyHands
<1>2. \/ /\ \/ Dual!Goto(e, "drowsy")
            \/ /\ abort \/ (ready[p] = <<>> /\ producer_done[p])
               /\ Dual!Goto(e, "done")
         /\ UNCHANGED <<state, ready, holds>>
      \/ /\ ready[p] # <<>>
         /\ holds' = [holds EXCEPT ![e] = i]
         /\ ready' = [ready EXCEPT ![p] = Tail(@)]
         /\ state' = [state EXCEPT ![p][i] = "entropy"]
         /\ Dual!Goto(e, "encode")
  BY DEF Dual!EntropyWait, Dual!TakeReady, Dual!Doze
<1>3. UNCHANGED <<coeff, made, encoded, o, main, producer_done, abort>>
  BY DEF Dual!EntropyWait, Dual!TakeReady
<1>4. CASE /\ \/ Dual!Goto(e, "drowsy")
              \/ /\ abort \/ (ready[p] = <<>> /\ producer_done[p])
                 /\ Dual!Goto(e, "done")
           /\ UNCHANGED <<state, ready, holds>>
  <2>1. \/ Moves(e, "drowsy")
        \/ Moves(e, "done") /\ (abort \/ (ready[p] = <<>> /\ producer_done[p]))
    BY <1>1, <1>4, StepsMove
  <2>2. EntropyHands("done", holds[e]) /\ EntropyHands("drowsy", holds[e])
    BY <1>1 DEF EntropyHands
  <2> QED BY <1>1, <1>3, <1>4, <2>1, <2>2, DualOnlyMoves
<1>5. CASE /\ ready[p] # <<>>
           /\ holds' = [holds EXCEPT ![e] = i]
           /\ ready' = [ready EXCEPT ![p] = Tail(@)]
           /\ state' = [state EXCEPT ![p][i] = "entropy"]
           /\ Dual!Goto(e, "encode")
  <2>1. o.slots \in Nat
    BY <1>1, DualSlots
  <2>2. i # Nil
    <3>1. ready[p] \in Seq(1..o.slots)
      BY <1>1 DEF DualPair, Pair, PairTypes
    <3> QED BY <1>5, <2>1, <3>1, NilAssumption
  <2>3. Moves(e, "encode")
    BY <1>1, <1>5, StepsMove
  <2>4. /\ DOMAIN pc' = Dual!Threads /\ pc'[e] = "encode" /\ Similar(pc[t], pc'[t])
        /\ \A q \in Dual!Pairs \ {p} :
              /\ Similar(pc[Dual!Producer(q)], pc'[Dual!Producer(q)])
              /\ Similar(pc[Dual!Entropy(q)], pc'[Dual!Entropy(q)])
    BY <1>1, <2>3, DualMoves
  <2>5. DualDomains' /\ \A q \in Dual!Pairs \ {p} : Bystander(q)
    BY <1>1, <1>3, <1>5, <2>4, DualThreads DEF DualDomains, Bystander
  <2>6. /\ holds'[e] = i /\ holds'[t] = holds[t] /\ ready'[p] = Tail(ready[p])
        /\ state'[p] = [state[p] EXCEPT ![i] = "entropy"]
    BY <1>1, <1>5, DualThreads DEF DualDomains
  <2>7. DualPair(p)'
    <3>1. Pair(o.slots, p, [state[p] EXCEPT ![i] = "entropy"], coeff[p],
               Tail(ready[p]), holds[t], i, made[p], encoded[p],
               pc[t] = "publish", FALSE)
      BY <1>1, <1>5, <2>1, PairTakeReady DEF DualPair
    <3>2. (pc'[e] = "release") = FALSE
          /\ (pc'[t] = "publish") = (pc[t] = "publish")
      BY <2>4 DEF Similar
    <3> QED BY <1>3, <2>6, <3>1, <3>2 DEF DualPair
  <2>8. DualHands(p)'
    BY <1>1, <2>2, <2>4, <2>6
    DEF DualHands, Similar, EntropyHands, ProducerHands
  <2>9. DualEnd(p)'
    BY <1>1, <1>3, <2>4, <2>6 DEF DualEnd, Similar
  <2> QED BY <1>1, <1>3, <2>5, <2>7, <2>8, <2>9, DualStepOf DEF DualOf
<1> QED BY <1>2, <1>4, <1>5

LEMMA DualEncode ==
  ASSUME DualInv, NEW p \in Dual!Pairs, Dual!Encode(p)
  PROVE  /\ DualInv'
         /\ encoded' = [encoded EXCEPT ![p] = Append(@, <<p, Len(encoded[p]) + 1>>)]
         /\ Len(encoded[p]) + 1 <= made[p]
<1> USE DEF Dual!flagVars, Dual!slotVars
<1> DEFINE t == Dual!Producer(p)
           e == Dual!Entropy(p)
           f == coeff[p][holds[e]]
<1>1. /\ e \in Dual!PairThreads(p) /\ e \in DOMAIN pc /\ t # e
      /\ DualPair(p) /\ DualEnd(p) /\ DualDomains
      /\ ProducerHands(pc[t], holds[t]) /\ EntropyHands(pc[e], holds[e])
      /\ pc[e] = "encode" /\ holds[e] # Nil
  <2>1. e \in Dual!PairThreads(p) /\ pc[e] = "encode" /\ DualDomains
    BY DEF Dual!PairThreads, Dual!Encode, DualInv
  <2> QED BY <2>1, DualActor DEF EntropyHands
<1>2. /\ encoded' = [encoded EXCEPT ![p] = Append(@, f)]
      /\ Dual!Goto(e, "release")
      /\ UNCHANGED <<state, coeff, ready, holds, made, o, main, producer_done,
                     abort>>
  BY DEF Dual!Encode
<1>3. Moves(e, "release")
  BY <1>1, <1>2, StepsMove
<1>4. /\ DOMAIN pc' = Dual!Threads /\ pc'[e] = "release" /\ Similar(pc[t], pc'[t])
      /\ \A q \in Dual!Pairs \ {p} :
            /\ Similar(pc[Dual!Producer(q)], pc'[Dual!Producer(q)])
            /\ Similar(pc[Dual!Entropy(q)], pc'[Dual!Entropy(q)])
  BY <1>1, <1>3, DualMoves
<1>5. DualDomains' /\ \A q \in Dual!Pairs \ {p} : Bystander(q)
  BY <1>1, <1>2, <1>4, DualThreads DEF DualDomains, Bystander
<1>6. encoded'[p] = Append(encoded[p], f)
  BY <1>1, <1>2 DEF DualDomains
<1>7. /\ Pair(o.slots, p, state[p], coeff[p], ready[p], holds[t], holds[e],
              made[p], Append(encoded[p], f), pc[t] = "publish", TRUE)
      /\ f = <<p, Len(encoded[p]) + 1>> /\ Len(encoded[p]) + 1 <= made[p]
  <2> DEFINE filled == pc[t] = "publish"
  <2>1. Pair(o.slots, p, state[p], coeff[p], ready[p], holds[t], holds[e],
             made[p], encoded[p], filled, FALSE)
    <3>1. (pc[e] = "release") = FALSE
      BY <1>1
    <3> QED BY <1>1, <3>1 DEF DualPair
  <2>2. o.slots \in Nat /\ filled \in BOOLEAN
    BY <1>1, DualSlots
  <2> HIDE DEF filled
  <2>3. /\ Pair(o.slots, p, state[p], coeff[p], ready[p], holds[t], holds[e],
                made[p], Append(encoded[p], f), filled, TRUE)
        /\ f = <<p, Len(encoded[p]) + 1>> /\ Len(encoded[p]) + 1 <= made[p]
    <3>1. Pair(o.slots, p, state[p], coeff[p], ready[p], holds[t], holds[e],
               made[p], Append(encoded[p], f), filled, TRUE)
      BY <1>1, <2>1, <2>2, PairEncode
    <3>2. f = <<p, Len(encoded[p]) + 1>>
      BY <1>1, <2>1 DEF Pair, Consecutive
    <3> DEFINE making == IF holds[t] # Nil THEN 1 ELSE 0
               len == Len(encoded[p])
               waiting == Len(ready[p])
    <3>3. made[p] = len + 1 + waiting + making
      BY <1>1, <2>1 DEF Pair, Consecutive, InHand
    <3>4. len \in Nat /\ waiting \in Nat /\ making \in Nat
      BY <2>1 DEF Pair, PairTypes
    <3> HIDE DEF making, len, waiting
    <3>5. len + 1 <= made[p]
      BY ONLY <3>3, <3>4
    <3> USE DEF len
    <3> QED BY <3>1, <3>2, <3>5
  <2> QED BY <2>3 DEF filled
<1>8. DualPair(p)'
  <2>1. (pc'[e] = "release") = TRUE
        /\ (pc'[t] = "publish") = (pc[t] = "publish")
    BY <1>4 DEF Similar
  <2> QED BY <1>2, <1>6, <1>7, <2>1 DEF DualPair
<1>9. DualHands(p)'
  BY <1>1, <1>2, <1>4 DEF DualHands, Similar, EntropyHands, ProducerHands
<1>10. DualEnd(p)'
  BY <1>1, <1>2, <1>4 DEF DualEnd, Similar
<1>11. DualInv'
  BY <1>1, <1>2, <1>5, <1>8, <1>9, <1>10, DualStepOf DEF DualOf
<1> QED BY <1>2, <1>7, <1>11

LEMMA DualRelease ==
  ASSUME DualInv, NEW p \in Dual!Pairs, Dual!Release(p)
  PROVE  DualInv'
<1> USE DEF Dual!flagVars, Dual!frameVars
<1> DEFINE t == Dual!Producer(p)
           e == Dual!Entropy(p)
<1>1. /\ e \in Dual!PairThreads(p) /\ e \in DOMAIN pc /\ t # e
      /\ DualPair(p) /\ DualEnd(p) /\ DualDomains
      /\ ProducerHands(pc[t], holds[t]) /\ EntropyHands(pc[e], holds[e])
      /\ pc[e] = "release" /\ holds[e] # Nil
  <2>1. e \in Dual!PairThreads(p) /\ pc[e] = "release" /\ DualDomains
    BY DEF Dual!PairThreads, Dual!Release, DualInv
  <2> QED BY <2>1, DualActor DEF EntropyHands
<1>2. /\ state' = [state EXCEPT ![p][holds[e]] = "free"]
      /\ holds' = [holds EXCEPT ![e] = Nil]
      /\ Dual!GotoNotifying(e, "wait", Dual!PairThreads(p))
      /\ UNCHANGED <<coeff, ready, made, encoded, o, main, producer_done, abort>>
  BY DEF Dual!Release
<1>3. Moves(e, "wait")
  BY <1>1, <1>2, StepsMove
<1>4. /\ DOMAIN pc' = Dual!Threads /\ pc'[e] = "wait" /\ Similar(pc[t], pc'[t])
      /\ \A q \in Dual!Pairs \ {p} :
            /\ Similar(pc[Dual!Producer(q)], pc'[Dual!Producer(q)])
            /\ Similar(pc[Dual!Entropy(q)], pc'[Dual!Entropy(q)])
  BY <1>1, <1>3, DualMoves
<1>5. DualDomains' /\ \A q \in Dual!Pairs \ {p} : Bystander(q)
  BY <1>1, <1>2, <1>4, DualThreads DEF DualDomains, Bystander
<1>6. /\ state'[p] = [state[p] EXCEPT ![holds[e]] = "free"]
      /\ holds'[e] = Nil /\ holds'[t] = holds[t]
  BY <1>1, <1>2, DualThreads DEF DualDomains
<1>7. DualPair(p)'
  <2>1. Pair(o.slots, p, [state[p] EXCEPT ![holds[e]] = "free"], coeff[p],
             ready[p], holds[t], Nil, made[p], encoded[p],
             pc[t] = "publish", FALSE)
    BY <1>1, DualSlots, PairRelease DEF DualPair
  <2>2. (pc'[e] = "release") = FALSE
        /\ (pc'[t] = "publish") = (pc[t] = "publish")
    BY <1>4 DEF Similar
  <2> QED BY <1>2, <1>6, <2>1, <2>2 DEF DualPair
<1>8. DualHands(p)'
  BY <1>1, <1>4, <1>6 DEF DualHands, Similar, EntropyHands, ProducerHands
<1>9. DualEnd(p)'
  BY <1>1, <1>2, <1>4, <1>6 DEF DualEnd, Similar
<1> QED BY <1>1, <1>2, <1>5, <1>7, <1>8, <1>9, DualStepOf DEF DualOf

LEMMA DualJoin == ASSUME DualInv, Dual!Join PROVE DualInv'
<1> USE DEF Dual!frameVars, Dual!slotVars
<1>1. DualDomains'
  BY DEF DualInv, DualDomains, Dual!Join
<1>2. MainInv'
  BY DEF DualInv, MainInv, Dual!Join
<1>3. ASSUME NEW q \in Dual!Pairs PROVE DualOf(q)'
  BY BystanderKeeps DEF DualInv, Dual!Join, Bystander, Similar
<1> QED BY <1>1, <1>2, <1>3 DEF DualInv

LEMMA DualNext == ASSUME DualInv, Dual!Next PROVE DualInv'
<1>1. ASSUME NEW p \in Dual!Pairs, Dual!ProducerStep(p)
      PROVE  DualInv'
  <2>1. \/ Dual!Start(Dual!Producer(p), "claim")
        \/ Dual!ClaimWork(Dual!Producer(p), "wait", "finish")
        \/ Dual!ProducerWait(p) \/ Dual!Transform(p) \/ Dual!Publish(p)
        \/ Dual!ProducerFinish(p) \/ Dual!ProducerCaught(p)
        \/ \E t \in Dual!PairThreads(p) : Dual!Sleep(t) \/ Dual!TellAll(t)
    BY <1>1 DEF Dual!ProducerStep, Dual!PairThreads
  <2> QED BY <2>1, DualMoveSteps, DualProducerWait, DualTransform, DualPublish,
             DualProducerEnds
<1>2. ASSUME NEW p \in Dual!Pairs, Dual!EntropyStep(p)
      PROVE  DualInv'
  <2>1. \/ Dual!Start(Dual!Entropy(p), "wait")
        \/ Dual!EntropyWait(p) \/ Dual!Encode(p) \/ Dual!Release(p)
        \/ \E t \in Dual!PairThreads(p) : Dual!Sleep(t) \/ Dual!TellAll(t)
    BY <1>2 DEF Dual!EntropyStep, Dual!PairThreads
  <2> QED BY <2>1, DualMoveSteps, DualEntropyWait, DualEncode, DualRelease
<1>3. ASSUME NEW t \in Dual!Threads, Dual!Throw(t) \/ Dual!Wake(t)
      PROVE  DualInv'
  <2>1. PICK p \in Dual!Pairs : t \in Dual!PairThreads(p)
    BY DEF Dual!Threads
  <2> QED BY <1>3, <2>1, DualMoveSteps
<1> QED BY <1>1, <1>2, <1>3, DualJoin DEF Dual!Next

\* What the invariant says of a reachable state.
LEMMA DualOutcome ==
  ASSUME DualInv
  PROVE  Dual!SlotsHandedOver /\ Dual!InOrder
<1>1. ASSUME NEW p \in Dual!Pairs
      PROVE  /\ \A i \in 1..o.slots :
                  /\ holds[Dual!Producer(p)] = i <=> state[p][i] = "producer"
                  /\ holds[Dual!Entropy(p)] = i <=> state[p][i] = "entropy"
                  /\ Cardinality({k \in DOMAIN ready[p] : ready[p][k] = i})
                       = IF state[p][i] = "ready" THEN 1 ELSE 0
             /\ \A k \in DOMAIN encoded[p] : encoded[p][k] = <<p, k>>
  BY DualSlots, PairOutcome DEF DualInv, DualOf, DualPair
<1>2. Dual!SlotsHandedOver
  BY <1>1, SameCardinality DEF Dual!SlotsHandedOver
<1>3. Dual!InOrder
  BY <1>1 DEF Dual!InOrder
<1> QED BY <1>2, <1>3

-----------------------------------------------------------------------------
(* The handoff pipelines (w0e1 and w1e0): the pair P, E and the normal     *)
(* workers beside it.                                                      *)

HandoffDomains ==
    /\ o \in OptionSets /\ o.pipeline = "handoff"
    /\ DOMAIN pc = Handoff!Threads /\ DOMAIN holds = Handoff!Threads
    /\ DOMAIN made = {Handoff!P} \cup Handoff!Normals
    /\ DOMAIN encoded = {Handoff!E} \cup Handoff!Normals

HandoffPair ==
    Pair(o.slots, Handoff!P, state, coeff, ready, holds[Handoff!P],
         holds[Handoff!E], made[Handoff!P], encoded[Handoff!E],
         pc[Handoff!P] = "publish", pc[Handoff!E] = "release")

HandoffHands ==
    /\ ProducerHands(pc[Handoff!P], holds[Handoff!P])
    /\ EntropyHands(pc[Handoff!E], holds[Handoff!E])

\* As DualEnd.
HandoffEnd == ~abort =>
    /\ pc[Handoff!P] \notin {"caught", "tell"}
    /\ pc[Handoff!E] # "tell"
    /\ producer_done => pc[Handoff!P] = "done"
    /\ pc[Handoff!P] = "done" => holds[Handoff!P] = Nil
    /\ pc[Handoff!E] = "done" =>
         producer_done /\ ready = <<>> /\ holds[Handoff!E] = Nil

HandoffOf == HandoffPair /\ HandoffHands /\ HandoffEnd

\* A normal worker has encoded every frame it has transformed, but for the
\* one it works on or has failed with.
NormalOf(t) ==
    /\ pc[t] \in {"start", "claim", "transform", "encode", "tell", "done"}
    /\ made[t] \in Nat /\ encoded[t] \in Seq({t} \X Nat)
    /\ \A k \in DOMAIN encoded[t] : encoded[t][k] = <<t, k>>
    /\ made[t] \in {Len(encoded[t]), Len(encoded[t]) + 1}
    /\ pc[t] = "encode" => made[t] = Len(encoded[t]) + 1
    /\ pc[t] \in {"start", "claim", "transform"} => made[t] = Len(encoded[t])
    /\ ~abort => /\ pc[t] # "tell"
                 /\ pc[t] = "done" => made[t] = Len(encoded[t])

HandoffInv == /\ HandoffDomains /\ MainInv /\ HandoffOf
              /\ \A t \in Handoff!Normals : NormalOf(t)

LEMMA HandoffThreads ==
  /\ Handoff!Threads = {Handoff!P, Handoff!E} \cup Handoff!Normals
  /\ Handoff!P # Handoff!E
  /\ Handoff!P \notin Handoff!Normals /\ Handoff!E \notin Handoff!Normals
  BY DEF Handoff!Threads, Handoff!P, Handoff!E, Handoff!Normals,
     Handoff!Producer, Handoff!Entropy, Handoff!Normal

LEMMA HandoffSlots == ASSUME HandoffDomains PROVE o.slots \in 1..6 /\ o.slots \in Nat
  BY OptionsAssumption DEF HandoffDomains, Options

LEMMA HandoffInitially == Handoff!Init => HandoffInv
<1> SUFFICES ASSUME Handoff!Init PROVE HandoffInv
  OBVIOUS
<1>1. HandoffDomains
  BY DEF Handoff!Init, HandoffDomains
<1>2. MainInv
  BY DEF Handoff!Init, MainInv
<1>3. HandoffPair
  BY <1>1, HandoffThreads, HandoffSlots, PairInit DEF Handoff!Init, HandoffPair
<1>4. HandoffHands /\ HandoffEnd
  BY HandoffThreads
  DEF Handoff!Init, HandoffHands, HandoffEnd, ProducerHands, EntropyHands
<1>5. ASSUME NEW t \in Handoff!Normals PROVE NormalOf(t)
  BY <1>5, HandoffThreads DEF Handoff!Init, NormalOf
<1> QED BY <1>1, <1>2, <1>3, <1>4, <1>5 DEF HandoffInv, HandoffOf

\* A step of one thread, for the other threads.
LEMMA HandoffMoves ==
  ASSUME HandoffDomains, NEW t \in Handoff!Threads, NEW where, Moves(t, where)
  PROVE  /\ t \in DOMAIN pc /\ DOMAIN pc' = Handoff!Threads
         /\ pc'[t] = where
         /\ t # Handoff!P => Similar(pc[Handoff!P], pc'[Handoff!P])
         /\ t # Handoff!E => Similar(pc[Handoff!E], pc'[Handoff!E])
         /\ \A u \in Handoff!Normals \ {t} : Similar(pc[u], pc'[u])
  BY HandoffThreads DEF HandoffDomains, Moves

\* A normal worker that does not act.
LEMMA NormalStays ==
  ASSUME HandoffInv, NEW u \in Handoff!Normals, made'[u] = made[u],
         encoded'[u] = encoded[u], Similar(pc[u], pc'[u]),
         abort' = abort \/ abort' = TRUE
  PROVE  NormalOf(u)'
<1>1. NormalOf(u) /\ pc'[u] = pc[u]
  BY DEF HandoffInv, NormalOf, Similar
<1> QED BY <1>1 DEF NormalOf

\* The names of the threads do not change.
LEMMA HandoffNames ==
  ASSUME o' = o
  PROVE  /\ Handoff!Normals' = Handoff!Normals /\ Handoff!Threads' = Handoff!Threads
         /\ Handoff!P' = Handoff!P /\ Handoff!E' = Handoff!E
<1>1. Handoff!Normals' = Handoff!Normals
  BY DEF Handoff!Normals, Handoff!Normal
<1>2. Handoff!P' = Handoff!P /\ Handoff!E' = Handoff!E
  BY DEF Handoff!P, Handoff!E, Handoff!Producer, Handoff!Entropy
<1>3. Handoff!Threads' = Handoff!Threads
  BY <1>1, <1>2 DEF Handoff!Threads
<1> QED BY <1>1, <1>2, <1>3

\* What is left to show of a step of P or E.
LEMMA HandoffStepOf ==
  ASSUME HandoffInv, NEW t \in {Handoff!P, Handoff!E}, NEW where,
         Moves(t, where), pc[t] # "done", main' = main, o' = o,
         abort' = abort \/ abort' = TRUE, HandoffDomains', HandoffOf',
         \A u \in Handoff!Normals : made'[u] = made[u] /\ encoded'[u] = encoded[u]
  PROVE  HandoffInv'
<1>1. HandoffDomains /\ t \in Handoff!Threads
  BY HandoffThreads DEF HandoffInv
<1>2. MainInv'
  BY <1>1, MainStays DEF HandoffInv, HandoffDomains
<1>3. Handoff!Normals' = Handoff!Normals
  BY HandoffNames
<1>4. ASSUME NEW u \in Handoff!Normals PROVE NormalOf(u)'
  <2>1. u # t
    BY HandoffThreads
  <2>2. Similar(pc[u], pc'[u])
    BY <1>1, <2>1, HandoffMoves
  <2> QED BY <2>2, NormalStays
<1> QED BY <1>2, <1>3, <1>4 DEF HandoffInv

\* Steps that move P or E and nothing else.
LEMMA HandoffOnlyMoves ==
  ASSUME HandoffInv, NEW t \in {Handoff!P, Handoff!E}, NEW where,
         Moves(t, where), pc[t] # "done",
         UNCHANGED <<state, coeff, ready, holds, made, encoded, o, main,
                     producer_done>>,
         abort' = abort \/ abort' = TRUE,
         t = Handoff!P =>
            /\ where # "publish" /\ ProducerHands(where, holds[t])
            /\ ~abort' => where \notin {"caught", "tell", "done"},
         t = Handoff!E =>
            /\ (where = "release") = (pc[t] = "release")
            /\ EntropyHands(where, holds[t])
            /\ ~abort' => /\ where # "tell"
                          /\ where = "done" => /\ ready = <<>> /\ producer_done
                                               /\ holds[t] = Nil
  PROVE  HandoffInv'
<1>1. HandoffDomains /\ HandoffOf /\ t \in Handoff!Threads
      /\ Handoff!P # Handoff!E
  BY HandoffThreads DEF HandoffInv
<1>2. /\ DOMAIN pc' = Handoff!Threads /\ pc'[t] = where
      /\ t # Handoff!P => Similar(pc[Handoff!P], pc'[Handoff!P])
      /\ t # Handoff!E => Similar(pc[Handoff!E], pc'[Handoff!E])
  BY <1>1, HandoffMoves
<1>3. /\ Handoff!Normals' = Handoff!Normals /\ Handoff!Threads' = Handoff!Threads
      /\ Handoff!P' = Handoff!P /\ Handoff!E' = Handoff!E
  BY HandoffNames
<1>4. HandoffDomains'
  BY <1>1, <1>2, <1>3 DEF HandoffDomains
<1>5. CASE t = Handoff!P
  <2>1. HandoffPair'
    <3>1. Pair(o.slots, Handoff!P, state, coeff, ready, holds[Handoff!P],
               holds[Handoff!E], made[Handoff!P], encoded[Handoff!E], FALSE,
               pc[Handoff!E] = "release")
      BY <1>1, PairUnfilled DEF HandoffOf, HandoffPair
    <3>2. (pc'[Handoff!E] = "release") = (pc[Handoff!E] = "release")
          /\ (pc'[Handoff!P] = "publish") = FALSE
      BY <1>1, <1>2, <1>5 DEF Similar
    <3> QED BY <1>3, <3>1, <3>2 DEF HandoffPair
  <2>2. HandoffHands'
    BY <1>1, <1>2, <1>3, <1>5 DEF HandoffOf, HandoffHands, Similar, EntropyHands
  <2>3. HandoffEnd'
    BY <1>1, <1>2, <1>3, <1>5 DEF HandoffOf, HandoffEnd, Similar
  <2> QED BY <1>4, <2>1, <2>2, <2>3, HandoffStepOf DEF HandoffOf
<1>6. CASE t = Handoff!E
  <2>1. HandoffPair'
    <3>1. (pc'[Handoff!E] = "release") = (pc[Handoff!E] = "release")
          /\ (pc'[Handoff!P] = "publish") = (pc[Handoff!P] = "publish")
      BY <1>1, <1>2, <1>6 DEF Similar
    <3> QED BY <1>1, <1>3, <3>1 DEF HandoffOf, HandoffPair
  <2>2. HandoffHands'
    BY <1>1, <1>2, <1>3, <1>6 DEF HandoffOf, HandoffHands, Similar, ProducerHands
  <2>3. HandoffEnd'
    BY <1>1, <1>2, <1>3, <1>6 DEF HandoffOf, HandoffEnd, Similar
  <2> QED BY <1>4, <2>1, <2>2, <2>3, HandoffStepOf DEF HandoffOf
<1> QED BY <1>5, <1>6

LEMMA HandoffActor ==
  ASSUME HandoffInv
  PROVE  /\ HandoffDomains /\ HandoffPair /\ HandoffHands /\ HandoffEnd
         /\ ProducerHands(pc[Handoff!P], holds[Handoff!P])
         /\ EntropyHands(pc[Handoff!E], holds[Handoff!E])
         /\ Handoff!P \in DOMAIN pc /\ Handoff!E \in DOMAIN pc
         /\ Handoff!P # Handoff!E
         /\ Handoff!P \in Handoff!Threads /\ Handoff!E \in Handoff!Threads
  BY HandoffThreads DEF HandoffInv, HandoffOf, HandoffDomains, HandoffHands

LEMMA HandoffMoveSteps ==
  ASSUME HandoffInv,
         \/ Handoff!Start(Handoff!P, "claim")
         \/ Handoff!ClaimWork(Handoff!P, "wait", "finish")
         \/ Handoff!Start(Handoff!E, "wait")
         \/ \E t \in {Handoff!P, Handoff!E} :
              \/ Handoff!Sleep(t) \/ Handoff!Wake(t) \/ Handoff!Throw(t)
              \/ Handoff!Tell(t)
  PROVE  HandoffInv'
<1> USE DEF Handoff!slotVars, Handoff!frameVars, Handoff!flagVars
<1>0. PICK t \in {Handoff!P, Handoff!E} :
         \/ t = Handoff!P /\ Handoff!Start(t, "claim")
         \/ t = Handoff!P /\ Handoff!ClaimWork(t, "wait", "finish")
         \/ t = Handoff!E /\ Handoff!Start(t, "wait")
         \/ Handoff!Sleep(t) \/ Handoff!Wake(t) \/ Handoff!Throw(t)
         \/ Handoff!Tell(t)
  OBVIOUS
<1>1. /\ t \in DOMAIN pc
      /\ Handoff!P # Handoff!E
      /\ HandoffEnd
      /\ ProducerHands(pc[Handoff!P], holds[Handoff!P])
      /\ EntropyHands(pc[Handoff!E], holds[Handoff!E])
  BY HandoffActor
<1>2. CASE t = Handoff!P /\ Handoff!Start(t, "claim")
  <2>1. Moves(t, "claim") /\ pc[t] = "start"
    BY <1>1, <1>2, StepsMove DEF Handoff!Start
  <2>2. ProducerHands("claim", holds[t])
    BY <1>1, <1>2, <2>1 DEF ProducerHands
  <2> QED BY <1>1, <1>2, <2>1, <2>2, HandoffOnlyMoves DEF Handoff!Start
<1>3. CASE t = Handoff!P /\ Handoff!ClaimWork(t, "wait", "finish")
  <2>1. /\ Moves(t, "wait") \/ Moves(t, "finish")
        /\ pc[t] = "claim"
    BY <1>1, <1>3, StepsMove DEF Handoff!ClaimWork
  <2>2. ProducerHands("wait", holds[t]) /\ ProducerHands("finish", holds[t])
    BY <1>1, <1>3, <2>1 DEF ProducerHands
  <2>3. UNCHANGED <<state, coeff, ready, holds, made, encoded, o, main,
                    producer_done, abort>>
    BY <1>3 DEF Handoff!ClaimWork
  <2> QED BY <1>1, <1>3, <2>1, <2>2, <2>3, HandoffOnlyMoves
<1>4. CASE t = Handoff!E /\ Handoff!Start(t, "wait")
  <2>1. Moves(t, "wait") /\ pc[t] = "start"
    BY <1>1, <1>4, StepsMove DEF Handoff!Start
  <2>2. EntropyHands("wait", holds[t])
    BY <1>1, <1>4, <2>1 DEF EntropyHands
  <2> QED BY <1>1, <1>4, <2>1, <2>2, HandoffOnlyMoves DEF Handoff!Start
<1>5. CASE Handoff!Sleep(t)
  <2>1. Moves(t, "asleep") /\ pc[t] = "drowsy"
    BY <1>1, <1>5, StepsMove DEF Handoff!Sleep
  <2>2. /\ t = Handoff!P => ProducerHands("asleep", holds[t])
        /\ t = Handoff!E => EntropyHands("asleep", holds[t])
    BY <1>1, <2>1 DEF EntropyHands, ProducerHands
  <2> QED BY <1>1, <1>5, <2>1, <2>2, HandoffOnlyMoves DEF Handoff!Sleep
<1>6. CASE Handoff!Wake(t)
  <2>1. Moves(t, "wait") /\ pc[t] = "asleep"
    BY <1>1, <1>6, StepsMove DEF Handoff!Wake
  <2>2. /\ t = Handoff!P => ProducerHands("wait", holds[t])
        /\ t = Handoff!E => EntropyHands("wait", holds[t])
    BY <1>1, <2>1 DEF EntropyHands, ProducerHands
  <2> QED BY <1>1, <1>6, <2>1, <2>2, HandoffOnlyMoves DEF Handoff!Wake
<1>7. CASE Handoff!Throw(t)
  <2>1. /\ Moves(t, "caught") \/ Moves(t, "tell")
        /\ pc[t] \in {"start", "transform", "encode"} /\ abort' = TRUE
    BY <1>1, <1>7, StepsMove DEF Handoff!Throw
  <2>2. /\ ProducerHands("caught", holds[t]) /\ ProducerHands("tell", holds[t])
        /\ EntropyHands("caught", holds[t]) /\ EntropyHands("tell", holds[t])
    BY DEF EntropyHands, ProducerHands
  <2>3. UNCHANGED <<state, coeff, ready, holds, made, encoded, o, main,
                    producer_done>>
    BY <1>7 DEF Handoff!Throw
  <2> QED BY <1>1, <2>1, <2>2, <2>3, HandoffOnlyMoves
<1>8. CASE Handoff!Tell(t)
  <2>1. Moves(t, "done") /\ pc[t] = "tell"
    BY <1>1, <1>8, StepsMove DEF Handoff!Tell
  <2>2. abort = TRUE
    BY <1>1, <2>1 DEF HandoffEnd, HandoffInv, MainInv
  <2>3. ProducerHands("done", holds[t]) /\ EntropyHands("done", holds[t])
    BY DEF EntropyHands, ProducerHands
  <2> QED BY <1>1, <1>8, <2>1, <2>2, <2>3, HandoffOnlyMoves DEF Handoff!Tell
<1> QED BY <1>0, <1>2, <1>3, <1>4, <1>5, <1>6, <1>7, <1>8

LEMMA HandoffProducerWait ==
  ASSUME HandoffInv, Handoff!ProducerWait
  PROVE  HandoffInv'
<1> USE DEF Handoff!flagVars
<1> DEFINE t == Handoff!P
           e == Handoff!E
           i == Handoff!Min(Handoff!Free)
<1>1. /\ t \in DOMAIN pc /\ t # e /\ t \in Handoff!Threads
      /\ HandoffPair /\ HandoffEnd /\ HandoffDomains
      /\ ProducerHands(pc[t], holds[t]) /\ EntropyHands(pc[e], holds[e])
      /\ pc[t] = "wait" /\ holds[t] = Nil
  <2>1. pc[t] = "wait"
    BY DEF Handoff!ProducerWait
  <2> QED BY <2>1, HandoffActor DEF ProducerHands
<1>2. \/ /\ Handoff!Goto(t, "finish") \/ Handoff!Goto(t, "drowsy")
         /\ UNCHANGED <<state, holds, made>>
      \/ /\ Handoff!Free # {}
         /\ state' = [state EXCEPT ![i] = "producer"]
         /\ holds' = [holds EXCEPT ![t] = i]
         /\ made' = [made EXCEPT ![t] = @ + 1]
         /\ Handoff!Goto(t, "transform")
  BY DEF Handoff!ProducerWait, Handoff!Doze
<1>3. UNCHANGED <<coeff, ready, encoded, o, main, producer_done, abort>>
  BY DEF Handoff!ProducerWait
<1>4. CASE /\ Handoff!Goto(t, "finish") \/ Handoff!Goto(t, "drowsy")
           /\ UNCHANGED <<state, holds, made>>
  <2>1. Moves(t, "finish") \/ Moves(t, "drowsy")
    BY <1>1, <1>4, StepsMove
  <2>2. ProducerHands("finish", holds[t]) /\ ProducerHands("drowsy", holds[t])
    BY <1>1 DEF ProducerHands
  <2> QED BY <1>1, <1>3, <1>4, <2>1, <2>2, HandoffOnlyMoves
<1>5. CASE /\ Handoff!Free # {}
           /\ state' = [state EXCEPT ![i] = "producer"]
           /\ holds' = [holds EXCEPT ![t] = i]
           /\ made' = [made EXCEPT ![t] = @ + 1]
           /\ Handoff!Goto(t, "transform")
  <2>1. o.slots \in 1..6 /\ o.slots \in Nat
    BY <1>1, HandoffSlots
  <2>2. i \in 1..o.slots /\ state[i] = "free"
    <3>1. Handoff!Free \in SUBSET (1..6)
      BY <2>1 DEF Handoff!Free
    <3> QED BY <1>5, <3>1, LeastMember DEF Handoff!Free
  <2> HIDE DEF i
  <2>3. Moves(t, "transform")
    BY <1>1, <1>5, StepsMove
  <2>4. DOMAIN pc' = Handoff!Threads /\ pc'[t] = "transform" /\ Similar(pc[e], pc'[e])
    BY <1>1, <2>3, HandoffMoves
  <2>5. HandoffDomains'
    BY <1>1, <1>3, <1>5, <2>4, HandoffNames DEF HandoffDomains
  <2>6. /\ holds'[t] = i /\ holds'[e] = holds[e] /\ made'[t] = made[t] + 1
        /\ \A u \in Handoff!Normals : made'[u] = made[u]
    BY <1>1, <1>5, HandoffThreads DEF HandoffDomains
  <2>7. HandoffPair'
    <3>1. Pair(o.slots, t, [state EXCEPT ![i] = "producer"], coeff, ready,
               i, holds[e], made[t] + 1, encoded[e], FALSE, pc[e] = "release")
      BY <1>1, <2>1, <2>2, PairTakeSlot DEF HandoffPair
    <3>2. (pc'[e] = "release") = (pc[e] = "release")
          /\ (pc'[t] = "publish") = FALSE
      BY <2>4 DEF Similar
    <3> QED BY <1>3, <1>5, <2>6, <3>1, <3>2, HandoffNames DEF HandoffPair
  <2>8. HandoffHands'
    BY <1>1, <1>3, <2>2, <2>4, <2>6, NilAssumption, HandoffNames
    DEF HandoffHands, Similar, EntropyHands, ProducerHands
  <2>9. HandoffEnd'
    BY <1>1, <1>3, <2>4, <2>6, HandoffNames DEF HandoffEnd, Similar
  <2> QED BY <1>1, <1>3, <2>3, <2>5, <2>6, <2>7, <2>8, <2>9, HandoffStepOf
          DEF HandoffOf
<1> QED BY <1>2, <1>4, <1>5

LEMMA HandoffTransform ==
  ASSUME HandoffInv, Handoff!Transform
  PROVE  HandoffInv'
<1> USE DEF Handoff!flagVars, Handoff!frameVars
<1> DEFINE t == Handoff!P
           e == Handoff!E
<1>1. /\ t \in DOMAIN pc /\ t # e /\ t \in Handoff!Threads
      /\ HandoffPair /\ HandoffEnd /\ HandoffDomains
      /\ ProducerHands(pc[t], holds[t]) /\ EntropyHands(pc[e], holds[e])
      /\ pc[t] = "transform" /\ holds[t] # Nil
  <2>1. pc[t] = "transform"
    BY DEF Handoff!Transform
  <2> QED BY <2>1, HandoffActor DEF ProducerHands
<1>2. /\ coeff' = [coeff EXCEPT ![holds[t]] = <<t, made[t]>>]
      /\ Handoff!Goto(t, "publish")
      /\ UNCHANGED <<state, ready, holds, made, encoded, o, main, producer_done,
                     abort>>
  BY DEF Handoff!Transform
<1>3. Moves(t, "publish")
  BY <1>1, <1>2, StepsMove
<1>4. DOMAIN pc' = Handoff!Threads /\ pc'[t] = "publish" /\ Similar(pc[e], pc'[e])
  BY <1>1, <1>3, HandoffMoves
<1>5. HandoffDomains'
  BY <1>1, <1>2, <1>4, HandoffNames DEF HandoffDomains
<1>6. HandoffPair'
  <2>1. Pair(o.slots, t, state, coeff, ready, holds[t], holds[e], made[t],
             encoded[e], FALSE, pc[e] = "release")
    BY <1>1, PairUnfilled DEF HandoffPair
  <2>2. Pair(o.slots, t, state, [coeff EXCEPT ![holds[t]] = <<t, made[t]>>],
             ready, holds[t], holds[e], made[t], encoded[e], TRUE,
             pc[e] = "release")
    BY <1>1, <2>1, HandoffSlots, PairTransform
  <2>3. (pc'[e] = "release") = (pc[e] = "release")
        /\ (pc'[t] = "publish") = TRUE
    BY <1>4 DEF Similar
  <2> QED BY <1>2, <2>2, <2>3, HandoffNames DEF HandoffPair
<1>7. HandoffHands'
  BY <1>1, <1>2, <1>4, HandoffNames
  DEF HandoffHands, Similar, EntropyHands, ProducerHands
<1>8. HandoffEnd'
  BY <1>1, <1>2, <1>4, HandoffNames DEF HandoffEnd, Similar
<1> QED BY <1>1, <1>2, <1>3, <1>5, <1>6, <1>7, <1>8, HandoffStepOf DEF HandoffOf

LEMMA HandoffPublish ==
  ASSUME HandoffInv, Handoff!Publish
  PROVE  HandoffInv'
<1> USE DEF Handoff!flagVars, Handoff!frameVars
<1> DEFINE t == Handoff!P
           e == Handoff!E
<1>1. /\ t \in DOMAIN pc /\ t # e /\ t \in Handoff!Threads
      /\ HandoffPair /\ HandoffEnd /\ HandoffDomains
      /\ ProducerHands(pc[t], holds[t]) /\ EntropyHands(pc[e], holds[e])
      /\ pc[t] = "publish" /\ holds[t] # Nil
  <2>1. pc[t] = "publish"
    BY DEF Handoff!Publish
  <2> QED BY <2>1, HandoffActor DEF ProducerHands
<1>2. /\ state' = [state EXCEPT ![holds[t]] = "ready"]
      /\ ready' = Append(ready, holds[t])
      /\ holds' = [holds EXCEPT ![t] = Nil]
      /\ Handoff!GotoNotifying(t, "claim", Handoff!Threads)
      /\ UNCHANGED <<coeff, made, encoded, o, main, producer_done, abort>>
  BY DEF Handoff!Publish
<1>3. Moves(t, "claim")
  BY <1>1, <1>2, StepsMove
<1>4. DOMAIN pc' = Handoff!Threads /\ pc'[t] = "claim" /\ Similar(pc[e], pc'[e])
  BY <1>1, <1>3, HandoffMoves
<1>5. HandoffDomains'
  BY <1>1, <1>2, <1>4, HandoffNames DEF HandoffDomains
<1>6. holds'[t] = Nil /\ holds'[e] = holds[e]
  BY <1>1, <1>2, HandoffThreads DEF HandoffDomains
<1>7. HandoffPair'
  <2>1. Pair(o.slots, t, [state EXCEPT ![holds[t]] = "ready"], coeff,
             Append(ready, holds[t]), Nil, holds[e], made[t], encoded[e],
             FALSE, pc[e] = "release")
    BY <1>1, HandoffSlots, PairPublish DEF HandoffPair
  <2>2. (pc'[e] = "release") = (pc[e] = "release")
        /\ (pc'[t] = "publish") = FALSE
    BY <1>4 DEF Similar
  <2> QED BY <1>2, <1>6, <2>1, <2>2, HandoffNames DEF HandoffPair
<1>8. HandoffHands'
  BY <1>1, <1>2, <1>4, <1>6, HandoffNames
  DEF HandoffHands, Similar, EntropyHands, ProducerHands
<1>9. HandoffEnd'
  BY <1>1, <1>2, <1>4, <1>6, HandoffNames DEF HandoffEnd, Similar
<1> QED BY <1>1, <1>2, <1>3, <1>5, <1>7, <1>8, <1>9, HandoffStepOf DEF HandoffOf

\* The producer ends, with or without a failure.
LEMMA HandoffProducerEnds ==
  ASSUME HandoffInv, Handoff!ProducerFinish \/ Handoff!ProducerCaught
  PROVE  HandoffInv'
<1> USE DEF Handoff!flagVars, Handoff!frameVars, Handoff!slotVars
<1> DEFINE t == Handoff!P
           e == Handoff!E
<1>1. /\ t \in DOMAIN pc /\ t # e /\ t \in Handoff!Threads
      /\ HandoffPair /\ HandoffEnd /\ HandoffDomains
      /\ ProducerHands(pc[t], holds[t]) /\ EntropyHands(pc[e], holds[e])
      /\ \/ pc[t] = "finish" /\ holds[t] = Nil
         \/ pc[t] = "caught" /\ abort
  <2>1. pc[t] \in {"finish", "caught"}
    BY DEF Handoff!ProducerFinish, Handoff!ProducerCaught
  <2>2. /\ t \in DOMAIN pc /\ t # e /\ HandoffPair /\ HandoffEnd
        /\ HandoffDomains /\ t \in Handoff!Threads
        /\ ProducerHands(pc[t], holds[t]) /\ EntropyHands(pc[e], holds[e])
    BY HandoffActor
  <2>3. CASE pc[t] = "finish"
    BY <2>1, <2>2, <2>3 DEF ProducerHands
  <2>4. CASE pc[t] = "caught"
    BY <2>1, <2>2, <2>4 DEF HandoffEnd
  <2> QED BY <2>1, <2>3, <2>4
<1>2. /\ producer_done' = TRUE
      /\ \/ pc[t] = "finish" /\ Handoff!GotoNotifying(t, "done", Handoff!Threads)
         \/ pc[t] = "caught" /\ Handoff!Goto(t, "tell")
      /\ UNCHANGED <<state, coeff, ready, holds, made, encoded, o, main, abort>>
  BY DEF Handoff!ProducerFinish, Handoff!ProducerCaught
<1>3. PICK where \in {"done", "tell"} :
         /\ Moves(t, where)
         /\ where = "done" => pc[t] = "finish"
         /\ where = "tell" => pc[t] = "caught"
  BY <1>1, <1>2, StepsMove
<1>4. DOMAIN pc' = Handoff!Threads /\ pc'[t] = where /\ Similar(pc[e], pc'[e])
  BY <1>1, <1>3, HandoffMoves
<1>5. HandoffDomains'
  BY <1>1, <1>2, <1>4, HandoffNames DEF HandoffDomains
<1>6. HandoffPair'
  <2>1. (pc'[e] = "release") = (pc[e] = "release")
        /\ (pc'[t] = "publish") = (pc[t] = "publish")
    BY <1>1, <1>4 DEF Similar
  <2> QED BY <1>1, <1>2, <2>1, HandoffNames DEF HandoffPair
<1>7. HandoffHands'
  BY <1>1, <1>2, <1>4, HandoffNames
  DEF HandoffHands, Similar, EntropyHands, ProducerHands
<1>8. HandoffEnd'
  <2>1. CASE abort
    BY <2>1, <1>2 DEF HandoffEnd
  <2>2. CASE ~abort
    BY <2>2, <1>1, <1>2, <1>3, <1>4, HandoffNames DEF HandoffEnd, Similar
  <2> QED BY <2>1, <2>2
<1>9. pc[t] # "done"
  BY <1>1
<1> QED BY <1>1, <1>2, <1>3, <1>5, <1>6, <1>7, <1>8, <1>9, HandoffStepOf
        DEF HandoffOf

LEMMA HandoffEntropyWait ==
  ASSUME HandoffInv, Handoff!EntropyWait
  PROVE  HandoffInv'
<1> USE DEF Handoff!flagVars, Handoff!frameVars
<1> DEFINE t == Handoff!P
           e == Handoff!E
           i == Head(ready)
<1>1. /\ e \in DOMAIN pc /\ t # e /\ e \in Handoff!Threads
      /\ HandoffPair /\ HandoffEnd /\ HandoffDomains
      /\ ProducerHands(pc[t], holds[t]) /\ EntropyHands(pc[e], holds[e])
      /\ pc[e] = "wait" /\ holds[e] = Nil
  <2>1. pc[e] = "wait"
    BY DEF Handoff!EntropyWait
  <2> QED BY <2>1, HandoffActor DEF EntropyHands
<1>2. \/ /\ \/ Handoff!Goto(e, "drowsy")
            \/ /\ abort \/ (ready = <<>> /\ producer_done)
               /\ Handoff!Goto(e, "done")
         /\ UNCHANGED <<state, ready, holds>>
      \/ /\ ready # <<>>
         /\ holds' = [holds EXCEPT ![e] = i]
         /\ ready' = Tail(ready)
         /\ state' = [state EXCEPT ![i] = "entropy"]
         /\ Handoff!Goto(e, "encode")
  BY DEF Handoff!EntropyWait, Handoff!Doze
<1>3. UNCHANGED <<coeff, made, encoded, o, main, producer_done, abort>>
  BY DEF Handoff!EntropyWait
<1>4. CASE /\ \/ Handoff!Goto(e, "drowsy")
              \/ /\ abort \/ (ready = <<>> /\ producer_done)
                 /\ Handoff!Goto(e, "done")
           /\ UNCHANGED <<state, ready, holds>>
  <2>1. \/ Moves(e, "drowsy")
        \/ Moves(e, "done") /\ (abort \/ (ready = <<>> /\ producer_done))
    BY <1>1, <1>4, StepsMove
  <2>2. EntropyHands("done", holds[e]) /\ EntropyHands("drowsy", holds[e])
    BY <1>1 DEF EntropyHands
  <2> QED BY <1>1, <1>3, <1>4, <2>1, <2>2, HandoffOnlyMoves
<1>5. CASE /\ ready # <<>>
           /\ holds' = [holds EXCEPT ![e] = i]
           /\ ready' = Tail(ready)
           /\ state' = [state EXCEPT ![i] = "entropy"]
           /\ Handoff!Goto(e, "encode")
  <2>1. o.slots \in Nat
    BY <1>1, HandoffSlots
  <2>2. i # Nil
    <3>1. ready \in Seq(1..o.slots)
      BY <1>1 DEF HandoffPair, Pair, PairTypes
    <3> QED BY <1>5, <2>1, <3>1, NilAssumption
  <2>3. Moves(e, "encode")
    BY <1>1, <1>5, StepsMove
  <2>4. DOMAIN pc' = Handoff!Threads /\ pc'[e] = "encode" /\ Similar(pc[t], pc'[t])
    BY <1>1, <2>3, HandoffMoves
  <2>5. HandoffDomains'
    BY <1>1, <1>3, <1>5, <2>4, HandoffNames DEF HandoffDomains
  <2>6. holds'[e] = i /\ holds'[t] = holds[t]
    BY <1>1, <1>5, HandoffThreads DEF HandoffDomains
  <2>7. HandoffPair'
    <3>1. Pair(o.slots, t, [state EXCEPT ![i] = "entropy"], coeff, Tail(ready),
               holds[t], i, made[t], encoded[e], pc[t] = "publish", FALSE)
      BY <1>1, <1>5, <2>1, PairTakeReady DEF HandoffPair
    <3>2. (pc'[e] = "release") = FALSE
          /\ (pc'[t] = "publish") = (pc[t] = "publish")
      BY <2>4 DEF Similar
    <3> QED BY <1>3, <1>5, <2>6, <3>1, <3>2, HandoffNames DEF HandoffPair
  <2>8. HandoffHands'
    BY <1>1, <1>3, <2>2, <2>4, <2>6, HandoffNames
    DEF HandoffHands, Similar, EntropyHands, ProducerHands
  <2>9. HandoffEnd'
    BY <1>1, <1>3, <2>4, <2>6, HandoffNames DEF HandoffEnd, Similar
  <2> QED BY <1>1, <1>3, <2>3, <2>5, <2>7, <2>8, <2>9, HandoffStepOf DEF HandoffOf
<1> QED BY <1>2, <1>4, <1>5

LEMMA HandoffEncode ==
  ASSUME HandoffInv, Handoff!Encode
  PROVE  /\ HandoffInv'
         /\ encoded' = [encoded EXCEPT ![Handoff!E] =
                          Append(@, <<Handoff!P, Len(encoded[Handoff!E]) + 1>>)]
         /\ Len(encoded[Handoff!E]) + 1 <= made[Handoff!P]
<1> USE DEF Handoff!flagVars, Handoff!slotVars
<1> DEFINE t == Handoff!P
           e == Handoff!E
           f == coeff[holds[e]]
<1>1. /\ e \in DOMAIN pc /\ t # e /\ e \in Handoff!Threads
      /\ HandoffPair /\ HandoffEnd /\ HandoffDomains
      /\ ProducerHands(pc[t], holds[t]) /\ EntropyHands(pc[e], holds[e])
      /\ pc[e] = "encode" /\ holds[e] # Nil
  <2>1. pc[e] = "encode"
    BY DEF Handoff!Encode
  <2> QED BY <2>1, HandoffActor DEF EntropyHands
<1>2. /\ encoded' = [encoded EXCEPT ![e] = Append(@, f)]
      /\ Handoff!Goto(e, "release")
      /\ UNCHANGED <<state, coeff, ready, holds, made, o, main, producer_done,
                     abort>>
  BY DEF Handoff!Encode
<1>3. Moves(e, "release")
  BY <1>1, <1>2, StepsMove
<1>4. DOMAIN pc' = Handoff!Threads /\ pc'[e] = "release" /\ Similar(pc[t], pc'[t])
  BY <1>1, <1>3, HandoffMoves
<1>5. HandoffDomains'
  BY <1>1, <1>2, <1>4, HandoffNames DEF HandoffDomains
<1>6. /\ encoded'[e] = Append(encoded[e], f)
      /\ \A u \in Handoff!Normals : encoded'[u] = encoded[u]
  BY <1>1, <1>2, HandoffThreads DEF HandoffDomains
<1>7. /\ Pair(o.slots, t, state, coeff, ready, holds[t], holds[e], made[t],
              Append(encoded[e], f), pc[t] = "publish", TRUE)
      /\ f = <<t, Len(encoded[e]) + 1>> /\ Len(encoded[e]) + 1 <= made[t]
  <2> DEFINE filled == pc[t] = "publish"
  <2>1. Pair(o.slots, t, state, coeff, ready, holds[t], holds[e], made[t],
             encoded[e], filled, FALSE)
    <3>1. (pc[e] = "release") = FALSE
      BY <1>1
    <3> QED BY <1>1, <3>1 DEF HandoffPair
  <2>2. o.slots \in Nat /\ filled \in BOOLEAN
    BY <1>1, HandoffSlots
  <2> HIDE DEF filled
  <2>3. Pair(o.slots, t, state, coeff, ready, holds[t], holds[e], made[t],
             Append(encoded[e], f), filled, TRUE)
    BY <1>1, <2>1, <2>2, PairEncode
  <2>4. f = <<t, Len(encoded[e]) + 1>>
    BY <1>1, <2>1 DEF Pair, Consecutive
  <2> DEFINE making == IF holds[t] # Nil THEN 1 ELSE 0
             len == Len(encoded[e])
             waiting == Len(ready)
  <2>5. made[t] = len + 1 + waiting + making
    BY <1>1, <2>1 DEF Pair, Consecutive, InHand
  <2>6. len \in Nat /\ waiting \in Nat /\ making \in Nat
    BY <2>1 DEF Pair, PairTypes
  <2> HIDE DEF making, len, waiting
  <2>7. len + 1 <= made[t]
    BY ONLY <2>5, <2>6
  <2> USE DEF len
  <2> QED BY <2>3, <2>4, <2>7 DEF filled
<1>8. HandoffPair'
  <2>1. (pc'[e] = "release") = TRUE
        /\ (pc'[t] = "publish") = (pc[t] = "publish")
    BY <1>4 DEF Similar
  <2> QED BY <1>2, <1>6, <1>7, <2>1, HandoffNames DEF HandoffPair
<1>9. HandoffHands'
  BY <1>1, <1>2, <1>4, HandoffNames
  DEF HandoffHands, Similar, EntropyHands, ProducerHands
<1>10. HandoffEnd'
  BY <1>1, <1>2, <1>4, HandoffNames DEF HandoffEnd, Similar
<1>11. HandoffInv'
  BY <1>1, <1>2, <1>3, <1>5, <1>6, <1>8, <1>9, <1>10, HandoffStepOf DEF HandoffOf
<1> QED BY <1>2, <1>7, <1>11

LEMMA HandoffRelease ==
  ASSUME HandoffInv, Handoff!Release
  PROVE  HandoffInv'
<1> USE DEF Handoff!flagVars, Handoff!frameVars
<1> DEFINE t == Handoff!P
           e == Handoff!E
<1>1. /\ e \in DOMAIN pc /\ t # e /\ e \in Handoff!Threads
      /\ HandoffPair /\ HandoffEnd /\ HandoffDomains
      /\ ProducerHands(pc[t], holds[t]) /\ EntropyHands(pc[e], holds[e])
      /\ pc[e] = "release" /\ holds[e] # Nil
  <2>1. pc[e] = "release"
    BY DEF Handoff!Release
  <2> QED BY <2>1, HandoffActor DEF EntropyHands
<1>2. /\ state' = [state EXCEPT ![holds[e]] = "free"]
      /\ holds' = [holds EXCEPT ![e] = Nil]
      /\ Handoff!GotoNotifying(e, "wait", Handoff!Threads)
      /\ UNCHANGED <<coeff, ready, made, encoded, o, main, producer_done, abort>>
  BY DEF Handoff!Release
<1>3. Moves(e, "wait")
  BY <1>1, <1>2, StepsMove
<1>4. DOMAIN pc' = Handoff!Threads /\ pc'[e] = "wait" /\ Similar(pc[t], pc'[t])
  BY <1>1, <1>3, HandoffMoves
<1>5. HandoffDomains'
  BY <1>1, <1>2, <1>4, HandoffNames DEF HandoffDomains
<1>6. holds'[e] = Nil /\ holds'[t] = holds[t]
  BY <1>1, <1>2, HandoffThreads DEF HandoffDomains
<1>7. HandoffPair'
  <2>1. Pair(o.slots, t, [state EXCEPT ![holds[e]] = "free"], coeff, ready,
             holds[t], Nil, made[t], encoded[e], pc[t] = "publish", FALSE)
    BY <1>1, HandoffSlots, PairRelease DEF HandoffPair
  <2>2. (pc'[e] = "release") = FALSE
        /\ (pc'[t] = "publish") = (pc[t] = "publish")
    BY <1>4 DEF Similar
  <2> QED BY <1>2, <1>6, <2>1, <2>2, HandoffNames DEF HandoffPair
<1>8. HandoffHands'
  BY <1>1, <1>2, <1>4, <1>6, HandoffNames
  DEF HandoffHands, Similar, EntropyHands, ProducerHands
<1>9. HandoffEnd'
  BY <1>1, <1>2, <1>4, <1>6, HandoffNames DEF HandoffEnd, Similar
<1> QED BY <1>1, <1>2, <1>3, <1>5, <1>7, <1>8, <1>9, HandoffStepOf DEF HandoffOf

\* What is left to show of a step of a normal worker.
LEMMA NormalStepOf ==
  ASSUME HandoffInv, NEW t \in Handoff!Normals, NEW where, Moves(t, where),
         pc[t] # "done", abort' = abort \/ abort' = TRUE,
         UNCHANGED <<state, coeff, ready, holds, o, main, producer_done>>,
         DOMAIN made' = DOMAIN made, DOMAIN encoded' = DOMAIN encoded,
         \A u \in DOMAIN made \ {t} : made'[u] = made[u],
         \A u \in DOMAIN encoded \ {t} : encoded'[u] = encoded[u],
         NormalOf(t)'
  PROVE  HandoffInv'
<1>1. HandoffDomains /\ HandoffOf /\ t \in Handoff!Threads
      /\ t # Handoff!P /\ t # Handoff!E
  BY HandoffThreads DEF HandoffInv
<1>2. /\ DOMAIN pc' = Handoff!Threads /\ t \in DOMAIN pc
      /\ Similar(pc[Handoff!P], pc'[Handoff!P])
      /\ Similar(pc[Handoff!E], pc'[Handoff!E])
      /\ \A u \in Handoff!Normals \ {t} : Similar(pc[u], pc'[u])
  BY <1>1, HandoffMoves
<1>3. /\ made'[Handoff!P] = made[Handoff!P]
      /\ encoded'[Handoff!E] = encoded[Handoff!E]
      /\ \A u \in Handoff!Normals \ {t} :
           made'[u] = made[u] /\ encoded'[u] = encoded[u]
  BY <1>1 DEF HandoffDomains
<1>4. MainInv'
  BY <1>2, MainStays DEF HandoffInv
<1>5. HandoffDomains'
  BY <1>1, <1>2, HandoffNames DEF HandoffDomains
<1>6. ASSUME NEW u \in Handoff!Normals PROVE NormalOf(u)'
  BY <1>2, <1>3, NormalStays
<1>7. HandoffPair'
  <2>1. (pc'[Handoff!E] = "release") = (pc[Handoff!E] = "release")
        /\ (pc'[Handoff!P] = "publish") = (pc[Handoff!P] = "publish")
    BY <1>2 DEF Similar
  <2> QED BY <1>1, <1>3, <2>1, HandoffNames DEF HandoffOf, HandoffPair
<1>8. HandoffHands'
  BY <1>1, <1>2, HandoffNames
  DEF HandoffOf, HandoffHands, Similar, ProducerHands, EntropyHands
<1>9. HandoffEnd'
  BY <1>1, <1>2, HandoffNames DEF HandoffOf, HandoffEnd, Similar
<1> QED BY <1>4, <1>5, <1>6, <1>7, <1>8, <1>9, HandoffNames
        DEF HandoffInv, HandoffOf

LEMMA HandoffNormal ==
  ASSUME HandoffInv, NEW t \in Handoff!Normals,
         Handoff!NormalStep(t) \/ Handoff!Throw(t) \/ Handoff!Wake(t)
  PROVE  HandoffInv'
<1> USE DEF Handoff!flagVars, Handoff!slotVars, Handoff!frameVars
<1>1. /\ NormalOf(t) /\ t \in DOMAIN pc /\ t # Handoff!P
      /\ t \in DOMAIN made /\ t \in DOMAIN encoded
  BY HandoffThreads DEF HandoffInv, HandoffDomains
<1>2. CASE Handoff!TransformLocal(t)
  <2>1. Moves(t, "encode") /\ pc[t] = "transform" /\ made'[t] = made[t] + 1
        /\ encoded' = encoded
    BY <1>1, <1>2, StepsMove DEF Handoff!TransformLocal
  <2>2. NormalOf(t)'
    BY <1>1, <1>2, <2>1 DEF NormalOf, Moves, Handoff!TransformLocal
  <2> QED BY <1>2, <2>1, <2>2, NormalStepOf DEF Handoff!TransformLocal
<1>3. CASE Handoff!EncodeLocal(t)
  <2> DEFINE f == <<t, made[t]>>
  <2>1. Moves(t, "claim") /\ pc[t] = "encode" /\ made' = made
        /\ encoded'[t] = Append(encoded[t], f)
        /\ made[t] = Len(encoded[t]) + 1 /\ made[t] \in Nat
        /\ encoded[t] \in Seq({t} \X Nat)
        /\ \A k \in DOMAIN encoded[t] : encoded[t][k] = <<t, k>>
    BY <1>1, <1>3, StepsMove DEF Handoff!EncodeLocal, NormalOf
  <2>2. /\ encoded'[t] \in Seq({t} \X Nat) /\ Len(encoded'[t]) = made[t]
        /\ DOMAIN encoded'[t] = 1..made[t]
        /\ \A k \in DOMAIN encoded'[t] : encoded'[t][k] = <<t, k>>
    <3>1. /\ Append(encoded[t], f) \in Seq({t} \X Nat)
          /\ Len(Append(encoded[t], f)) = made[t]
      BY <2>1
    <3>2. ASSUME NEW k \in 1..made[t]
          PROVE  Append(encoded[t], f)[k] = <<t, k>>
      <4>1. CASE k = made[t]
        BY <2>1, <4>1
      <4>2. CASE k # made[t]
        <5>1. k \in DOMAIN encoded[t]
          BY <2>1, <4>2
        <5> QED BY <2>1, <5>1
      <4> QED BY <4>1, <4>2
    <3> QED BY <2>1, <3>1, <3>2
  <2>3. NormalOf(t)'
    <3>1. pc'[t] = "claim" /\ made'[t] = made[t]
      BY <2>1 DEF Moves
    <3> QED BY <2>1, <2>2, <3>1 DEF NormalOf
  <2> QED BY <1>3, <2>1, <2>3, NormalStepOf DEF Handoff!EncodeLocal
<1>4. CASE Handoff!Tell(t)
  <2>1. Moves(t, "done") /\ pc[t] = "tell" /\ made' = made /\ encoded' = encoded
        /\ abort' = abort
    BY <1>1, <1>4, StepsMove DEF Handoff!Tell
  <2>2. NormalOf(t)'
    BY <1>1, <2>1 DEF NormalOf, Moves
  <2> QED BY <1>4, <2>1, <2>2, NormalStepOf DEF Handoff!Tell
<1>5. CASE Handoff!Start(t, "claim")
  <2>1. Moves(t, "claim") /\ pc[t] = "start" /\ made' = made /\ encoded' = encoded
    BY <1>1, <1>5, StepsMove DEF Handoff!Start
  <2>2. NormalOf(t)'
    BY <1>1, <2>1 DEF NormalOf, Moves
  <2> QED BY <1>5, <2>1, <2>2, NormalStepOf DEF Handoff!Start
<1>6. CASE Handoff!ClaimWork(t, "transform", "done")
  <2>1. PICK where \in {"transform", "done"} : Moves(t, where)
    BY <1>1, <1>6, StepsMove DEF Handoff!ClaimWork
  <2>2. pc[t] = "claim" /\ made' = made /\ encoded' = encoded
    BY <1>6 DEF Handoff!ClaimWork
  <2>3. NormalOf(t)'
    BY <1>1, <2>1, <2>2 DEF NormalOf, Moves
  <2> QED BY <1>6, <2>1, <2>2, <2>3, NormalStepOf DEF Handoff!ClaimWork
<1>7. CASE Handoff!Throw(t)
  <2>1. Moves(t, "tell") /\ pc[t] \in {"start", "transform", "encode"}
        /\ abort' = TRUE /\ made' = made /\ encoded' = encoded
    BY <1>1, <1>7, StepsMove DEF Handoff!Throw
  <2>2. NormalOf(t)'
    BY <1>1, <2>1 DEF NormalOf, Moves
  <2>3. pc[t] # "done" /\ UNCHANGED <<state, coeff, ready, holds, o, main, producer_done>>
    BY <1>7, <2>1 DEF Handoff!Throw
  <2> QED BY <2>1, <2>2, <2>3, NormalStepOf
<1>8. ~ Handoff!Wake(t)
  BY <1>1 DEF Handoff!Wake, NormalOf
<1> QED BY <1>2, <1>3, <1>4, <1>5, <1>6, <1>7, <1>8 DEF Handoff!NormalStep

LEMMA HandoffJoin == ASSUME HandoffInv, Handoff!Join PROVE HandoffInv'
<1> USE DEF Handoff!frameVars, Handoff!slotVars
<1>1. HandoffDomains' /\ HandoffOf'
  BY HandoffNames DEF HandoffInv, HandoffDomains, HandoffOf, HandoffPair,
     HandoffHands, HandoffEnd, Handoff!Join
<1>2. MainInv'
  BY DEF HandoffInv, HandoffDomains, MainInv, Handoff!Join
<1>3. ASSUME NEW t \in Handoff!Normals PROVE NormalOf(t)'
  BY DEF HandoffInv, Handoff!Join, NormalOf
<1>4. Handoff!Normals' = Handoff!Normals
  BY HandoffNames DEF Handoff!Join
<1> QED BY <1>1, <1>2, <1>3, <1>4 DEF HandoffInv

LEMMA HandoffNext == ASSUME HandoffInv, Handoff!Next PROVE HandoffInv'
<1>1. ASSUME Handoff!ProducerStep PROVE HandoffInv'
  <2>1. \/ Handoff!Start(Handoff!P, "claim")
        \/ Handoff!ClaimWork(Handoff!P, "wait", "finish")
        \/ Handoff!ProducerWait \/ Handoff!Transform \/ Handoff!Publish
        \/ Handoff!ProducerFinish \/ Handoff!ProducerCaught
        \/ \E t \in {Handoff!P, Handoff!E} : Handoff!Sleep(t) \/ Handoff!Tell(t)
    BY <1>1 DEF Handoff!ProducerStep
  <2> QED BY <2>1, HandoffMoveSteps, HandoffProducerWait, HandoffTransform,
             HandoffPublish, HandoffProducerEnds
<1>2. ASSUME Handoff!EntropyStep PROVE HandoffInv'
  <2>1. \/ Handoff!Start(Handoff!E, "wait")
        \/ Handoff!EntropyWait \/ Handoff!Encode \/ Handoff!Release
        \/ \E t \in {Handoff!P, Handoff!E} : Handoff!Sleep(t) \/ Handoff!Tell(t)
    BY <1>2 DEF Handoff!EntropyStep
  <2> QED BY <2>1, HandoffMoveSteps, HandoffEntropyWait, HandoffEncode,
             HandoffRelease
<1>3. ASSUME NEW t \in Handoff!Threads, Handoff!Throw(t) \/ Handoff!Wake(t)
      PROVE  HandoffInv'
  <2>1. CASE t \in {Handoff!P, Handoff!E}
    BY <1>3, <2>1, HandoffMoveSteps
  <2>2. CASE t \in Handoff!Normals
    BY <1>3, <2>2, HandoffNormal
  <2> QED BY <2>1, <2>2, HandoffThreads
<1> QED BY <1>1, <1>2, <1>3, HandoffNormal, HandoffJoin DEF Handoff!Next

LEMMA HandoffOutcome ==
  ASSUME HandoffInv
  PROVE  Handoff!SlotsHandedOver /\ Handoff!InOrder
<1>1. /\ \A i \in 1..o.slots :
           /\ holds[Handoff!P] = i <=> state[i] = "producer"
           /\ holds[Handoff!E] = i <=> state[i] = "entropy"
           /\ Cardinality({k \in DOMAIN ready : ready[k] = i})
                = IF state[i] = "ready" THEN 1 ELSE 0
      /\ \A k \in DOMAIN encoded[Handoff!E] : encoded[Handoff!E][k] = <<Handoff!P, k>>
  BY HandoffSlots, PairOutcome DEF HandoffInv, HandoffOf, HandoffPair
<1>2. Handoff!SlotsHandedOver
  BY <1>1, SameCardinality DEF Handoff!SlotsHandedOver
<1>3. Handoff!InOrder
  BY <1>1 DEF Handoff!InOrder
<1> QED BY <1>2, <1>3

-----------------------------------------------------------------------------
(* The adaptive pipeline: frames <<i, n>> of two producers, pub[i] of them *)
(* published by producer i, rf the frames in the ready queue, tr[e] the    *)
(* frames entropy thread e has taken, in order.                            *)

Both == Adaptive!Pids
PoolFrames == Both \X Nat

Ascending(s) == \A j, k \in DOMAIN s :
    j < k /\ s[j][1] = s[k][1] => s[j][2] < s[k][2]

OrderTypes(pub, rf, tr) ==
    /\ pub \in [Both -> Nat] /\ rf \in Seq(PoolFrames)
    /\ tr \in [Both -> Seq(PoolFrames)]

\* Nothing is in circulation that was not published.
InBounds(pub, rf, tr) ==
    /\ \A k \in DOMAIN rf : rf[k][2] \in 1..pub[rf[k][1]]
    /\ \A e \in Both : \A j \in DOMAIN tr[e] : tr[e][j][2] \in 1..pub[tr[e][j][1]]

\* What is taken is older than what waits.
TakenFirst(rf, tr) == \A e \in Both : \A j \in DOMAIN tr[e] : \A k \in DOMAIN rf :
    tr[e][j][1] = rf[k][1] => tr[e][j][2] < rf[k][2]

\* The entropy threads take different frames.
TakenOnce(tr) == \A d, e \in Both : d # e =>
    \A j \in DOMAIN tr[d] : \A k \in DOMAIN tr[e] : tr[d][j] # tr[e][k]

\* Every published frame waits or was taken.
NoneLost(pub, rf, tr) == \A i \in Both : \A n \in 1..pub[i] :
    \/ \E k \in DOMAIN rf : rf[k] = <<i, n>>
    \/ \E e \in Both : \E j \in DOMAIN tr[e] : tr[e][j] = <<i, n>>

Order(pub, rf, tr) ==
    /\ OrderTypes(pub, rf, tr) /\ InBounds(pub, rf, tr)
    /\ Ascending(rf) /\ \A e \in Both : Ascending(tr[e])
    /\ TakenFirst(rf, tr) /\ TakenOnce(tr) /\ NoneLost(pub, rf, tr)

LEMMA AppendFacts ==
  ASSUME NEW S, NEW s \in Seq(S), NEW x \in S
  PROVE  /\ Append(s, x) \in Seq(S)
         /\ DOMAIN s = 1..Len(s) /\ Len(s) \in Nat
         /\ DOMAIN Append(s, x) = 1..(Len(s) + 1)
         /\ Len(s) + 1 \in DOMAIN Append(s, x)
         /\ \A j \in DOMAIN s : j \in DOMAIN Append(s, x) /\ Append(s, x)[j] = s[j]
         /\ Append(s, x)[Len(s) + 1] = x
         /\ \A j \in DOMAIN Append(s, x) : j \in DOMAIN s \/ j = Len(s) + 1
  OBVIOUS

\* Removing the element at position k.
LEMMA RemoveAtFacts ==
  ASSUME NEW S, NEW s \in Seq(S), NEW k \in DOMAIN s
  PROVE  /\ Adaptive!RemoveAt(s, k) \in Seq(S)
         /\ DOMAIN Adaptive!RemoveAt(s, k) = 1..(Len(s) - 1)
         /\ Len(s) \in Nat /\ Len(s) > 0
         /\ \A j \in 1..(Len(s) - 1) :
              Adaptive!RemoveAt(s, k)[j] = IF j < k THEN s[j] ELSE s[j + 1]
<1> DEFINE a == SubSeq(s, 1, k - 1)
           b == SubSeq(s, k + 1, Len(s))
<1>1. Len(s) \in Nat /\ k \in 1..Len(s)
  OBVIOUS
<1>2. /\ a \in Seq(S) /\ Len(a) = k - 1 /\ \A j \in 1..(k - 1) : a[j] = s[j]
  BY <1>1
<1>3. /\ b \in Seq(S) /\ Len(b) = Len(s) - k
      /\ \A j \in 1..(Len(s) - k) : b[j] = s[k + j]
  BY <1>1
<1>4. Adaptive!RemoveAt(s, k) = a \o b
  BY DEF Adaptive!RemoveAt
<1> HIDE DEF a, b
<1>5. /\ a \o b \in Seq(S) /\ Len(a \o b) = Len(s) - 1
      /\ DOMAIN (a \o b) = 1..(Len(s) - 1)
  BY <1>1, <1>2, <1>3
<1>6. ASSUME NEW j \in 1..(Len(s) - 1)
      PROVE  (a \o b)[j] = IF j < k THEN s[j] ELSE s[j + 1]
  <2>1. (a \o b)[j] = IF j <= k - 1 THEN a[j] ELSE b[j - (k - 1)]
    BY <1>1, <1>2, <1>3, ConcatProperties
  <2>2. CASE j < k
    <3>1. j \in 1..(k - 1)
      BY <2>2, <1>1
    <3> QED BY <2>1, <2>2, <3>1, <1>2
  <2>3. CASE ~(j < k)
    <3>1. j - (k - 1) \in 1..(Len(s) - k) /\ k + (j - (k - 1)) = j + 1
      BY <2>3, <1>1
    <3> QED BY <2>1, <2>3, <3>1, <1>3
  <2> QED BY <2>2, <2>3
<1> QED BY <1>1, <1>4, <1>5, <1>6

\* A producer publishes its next frame.
LEMMA OrderPublish ==
  ASSUME NEW pub, NEW rf, NEW tr, Order(pub, rf, tr), NEW i \in Both
  PROVE  Order([pub EXCEPT ![i] = @ + 1], Append(rf, <<i, pub[i] + 1>>), tr)
<1> DEFINE f == <<i, pub[i] + 1>>
           pb == [pub EXCEPT ![i] = @ + 1]
           rr == Append(rf, f)
<1>1. pub \in [Both -> Nat] /\ rf \in Seq(PoolFrames)
      /\ tr \in [Both -> Seq(PoolFrames)] /\ pub[i] \in Nat
  BY DEF Order, OrderTypes
<1>2. f \in PoolFrames /\ f[1] = i /\ f[2] = pub[i] + 1
  <2>1. f[1] = i /\ f[2] = pub[i] + 1
    OBVIOUS
  <2>2. pub[i] + 1 \in Nat
    BY <1>1
  <2> QED BY <2>1, <2>2 DEF PoolFrames
<1>3. /\ pb \in [Both -> Nat] /\ pb[i] = pub[i] + 1
      /\ \A x \in Both : pb[x] \in Nat /\ pub[x] \in Nat /\ pub[x] <= pb[x]
      /\ \A x \in Both : x # i => pb[x] = pub[x]
  BY <1>1
<1>4. /\ rr \in Seq(PoolFrames) /\ Len(rf) \in Nat /\ DOMAIN rf = 1..Len(rf)
      /\ Len(rf) + 1 \in DOMAIN rr /\ rr[Len(rf) + 1] = f
      /\ \A j \in DOMAIN rf : j \in DOMAIN rr /\ rr[j] = rf[j]
      /\ \A j \in DOMAIN rr : j \in DOMAIN rf \/ j = Len(rf) + 1
  BY <1>1, <1>2, AppendFacts
<1>5. /\ \A k \in DOMAIN rf : rf[k] \in PoolFrames /\ rf[k][1] \in Both
                              /\ rf[k][2] \in Nat
      /\ \A e \in Both : \A j \in DOMAIN tr[e] :
           tr[e][j] \in PoolFrames /\ tr[e][j][1] \in Both /\ tr[e][j][2] \in Nat
  <2>1. \A f1 \in PoolFrames : f1[1] \in Both /\ f1[2] \in Nat
    BY DEF PoolFrames
  <2> QED BY <1>1, <2>1
<1>6. /\ \A k \in DOMAIN rf : rf[k][2] \in 1..pub[rf[k][1]]
      /\ \A e \in Both : \A j \in DOMAIN tr[e] : tr[e][j][2] \in 1..pub[tr[e][j][1]]
  BY DEF Order, InBounds
<1> HIDE DEF f, pb, rr
<1>7. OrderTypes(pb, rr, tr)
  BY <1>1, <1>3, <1>4 DEF OrderTypes
<1>8. InBounds(pb, rr, tr)
  <2>1. ASSUME NEW k \in DOMAIN rr PROVE rr[k][2] \in 1..pb[rr[k][1]]
    <3>1. CASE k \in DOMAIN rf
      BY <3>1, <1>3, <1>4, <1>5, <1>6
    <3>2. CASE k = Len(rf) + 1
      BY <3>2, <1>1, <1>2, <1>3, <1>4
    <3> QED BY <3>1, <3>2, <1>4
  <2>2. ASSUME NEW e \in Both, NEW j \in DOMAIN tr[e]
        PROVE  tr[e][j][2] \in 1..pb[tr[e][j][1]]
    BY <1>3, <1>5, <1>6
  <2> QED BY <2>1, <2>2 DEF InBounds
<1>9. Ascending(rr)
  <2> SUFFICES ASSUME NEW j \in DOMAIN rr, NEW k \in DOMAIN rr, j < k,
                      rr[j][1] = rr[k][1]
               PROVE  rr[j][2] < rr[k][2]
    BY DEF Ascending
  <2>1. j \in DOMAIN rf
    BY <1>4
  <2>2. CASE k \in DOMAIN rf
    BY <2>1, <2>2, <1>4 DEF Order, Ascending
  <2>3. CASE k = Len(rf) + 1
    <3>1. rf[j][1] = i /\ rf[j][2] \in 1..pub[i]
      BY <2>1, <2>3, <1>2, <1>4, <1>6
    <3> QED BY <2>1, <2>3, <3>1, <1>1, <1>2, <1>4
  <2> QED BY <2>2, <2>3, <1>4
<1>10. TakenFirst(rr, tr)
  <2> SUFFICES ASSUME NEW e \in Both, NEW j \in DOMAIN tr[e], NEW k \in DOMAIN rr,
                      tr[e][j][1] = rr[k][1]
               PROVE  tr[e][j][2] < rr[k][2]
    BY DEF TakenFirst
  <2>1. CASE k \in DOMAIN rf
    BY <2>1, <1>4 DEF Order, TakenFirst
  <2>2. CASE k = Len(rf) + 1
    <3>1. tr[e][j][1] = i /\ tr[e][j][2] \in 1..pub[i]
      BY <2>2, <1>2, <1>4, <1>6
    <3> QED BY <2>2, <3>1, <1>1, <1>2, <1>4
  <2> QED BY <2>1, <2>2, <1>4
<1>11. NoneLost(pb, rr, tr)
  <2> SUFFICES ASSUME NEW x \in Both, NEW n \in 1..pb[x]
               PROVE  \/ \E k \in DOMAIN rr : rr[k] = <<x, n>>
                      \/ \E e \in Both : \E j \in DOMAIN tr[e] : tr[e][j] = <<x, n>>
    BY DEF NoneLost
  <2>1. CASE n \in 1..pub[x]
    <3>1. \/ \E k \in DOMAIN rf : rf[k] = <<x, n>>
          \/ \E e \in Both : \E j \in DOMAIN tr[e] : tr[e][j] = <<x, n>>
      BY <2>1 DEF Order, NoneLost
    <3> QED BY <3>1, <1>4
  <2>2. CASE n \notin 1..pub[x]
    <3>1. x = i /\ n = pub[i] + 1
      BY <2>2, <1>3
    <3> QED BY <3>1, <1>4 DEF f
  <2> QED BY <2>1, <2>2
<1>12. Order(pb, rr, tr)
  BY <1>7, <1>8, <1>9, <1>10, <1>11 DEF Order
<1> QED BY <1>12 DEF f, pb, rr

\* An entropy thread takes the oldest waiting frame of a producer.
LEMMA OrderTake ==
  ASSUME NEW pub, NEW rf, NEW tr, Order(pub, rf, tr), NEW e \in Both,
         NEW k \in DOMAIN rf, \A j \in 1..(k - 1) : rf[j][1] # rf[k][1]
  PROVE  Order(pub, Adaptive!RemoveAt(rf, k), [tr EXCEPT ![e] = Append(@, rf[k])])
<1> DEFINE f == rf[k]
           rr == Adaptive!RemoveAt(rf, k)
           tt == [tr EXCEPT ![e] = Append(@, f)]
<1>1. pub \in [Both -> Nat] /\ rf \in Seq(PoolFrames)
      /\ tr \in [Both -> Seq(PoolFrames)] /\ tr[e] \in Seq(PoolFrames)
      /\ f \in PoolFrames
  BY DEF Order, OrderTypes
<1>2. /\ rr \in Seq(PoolFrames) /\ DOMAIN rr = 1..(Len(rf) - 1)
      /\ Len(rf) \in Nat /\ Len(rf) > 0
      /\ \A j \in 1..(Len(rf) - 1) : rr[j] = IF j < k THEN rf[j] ELSE rf[j + 1]
      /\ DOMAIN rf = 1..Len(rf)
  BY <1>1, RemoveAtFacts
<1>3. /\ tt \in [Both -> Seq(PoolFrames)] /\ \A d \in Both : d # e => tt[d] = tr[d]
      /\ Len(tr[e]) \in Nat /\ DOMAIN tr[e] = 1..Len(tr[e])
      /\ Len(tr[e]) + 1 \in DOMAIN tt[e] /\ tt[e][Len(tr[e]) + 1] = f
      /\ \A j \in DOMAIN tr[e] : j \in DOMAIN tt[e] /\ tt[e][j] = tr[e][j]
      /\ \A j \in DOMAIN tt[e] : j \in DOMAIN tr[e] \/ j = Len(tr[e]) + 1
  <2>1. tt[e] = Append(tr[e], f) /\ \A d \in Both : d # e => tt[d] = tr[d]
    BY <1>1
  <2>2. Append(tr[e], f) \in Seq(PoolFrames)
    BY <1>1, AppendFacts
  <2>3. tt \in [Both -> Seq(PoolFrames)]
    BY <1>1, <2>2
  <2> HIDE DEF tt
  <2> QED BY <1>1, <2>1, <2>3, AppendFacts
\* Where the remaining ready frames were.
<1>4. \A j \in DOMAIN rr : \E m \in DOMAIN rf :
         /\ m # k /\ rr[j] = rf[m] /\ m = IF j < k THEN j ELSE j + 1
  <2> TAKE j \in DOMAIN rr
  <2>1. CASE j < k
    <3>1. j \in DOMAIN rf /\ rr[j] = rf[j] /\ j # k
      BY <2>1, <1>2
    <3> QED BY <2>1, <3>1
  <2>2. CASE ~(j < k)
    <3>1. j + 1 \in DOMAIN rf /\ rr[j] = rf[j + 1] /\ j + 1 # k
      BY <2>2, <1>2
    <3> QED BY <2>2, <3>1
  <2> QED BY <2>1, <2>2
<1>5. \A m \in DOMAIN rf : m # k => \E j \in DOMAIN rr : rr[j] = rf[m]
  <2> SUFFICES ASSUME NEW m \in DOMAIN rf, m # k
               PROVE  \E j \in DOMAIN rr : rr[j] = rf[m]
    OBVIOUS
  <2>1. CASE m < k
    <3>1. m \in DOMAIN rr /\ rr[m] = rf[m]
      BY <2>1, <1>2
    <3> QED BY <3>1
  <2>2. CASE m > k
    <3>1. m - 1 \in DOMAIN rr /\ ~(m - 1 < k) /\ (m - 1) + 1 = m
      BY <2>2, <1>2
    <3>2. rr[m - 1] = rf[m]
      BY <3>1, <1>2
    <3> QED BY <3>1, <3>2
  <2> QED BY <2>1, <2>2, <1>2
<1> HIDE DEF rr, tt
<1>6. OrderTypes(pub, rr, tt)
  BY <1>1, <1>2, <1>3 DEF OrderTypes
\* What e has taken is what it had taken and f.
<1>7. \A d \in Both : \A j \in DOMAIN tt[d] :
         \/ j \in DOMAIN tr[d] /\ tt[d][j] = tr[d][j]
         \/ d = e /\ j = Len(tr[e]) + 1 /\ tt[d][j] = f
  BY <1>3
<1>8. /\ \A j \in DOMAIN rf : rf[j][2] \in 1..pub[rf[j][1]]
      /\ \A d \in Both : \A j \in DOMAIN tr[d] : tr[d][j][2] \in 1..pub[tr[d][j][1]]
  BY DEF Order, InBounds
<1>9. InBounds(pub, rr, tt)
  <2>1. \A j \in DOMAIN rr : rr[j][2] \in 1..pub[rr[j][1]]
    BY <1>4, <1>8
  <2>2. \A d \in Both : \A j \in DOMAIN tt[d] : tt[d][j][2] \in 1..pub[tt[d][j][1]]
    BY <1>7, <1>8
  <2> QED BY <2>1, <2>2 DEF InBounds
<1>10. Ascending(rr)
  <2> SUFFICES ASSUME NEW j \in DOMAIN rr, NEW m \in DOMAIN rr, j < m,
                      rr[j][1] = rr[m][1]
               PROVE  rr[j][2] < rr[m][2]
    BY DEF Ascending
  <2>1. PICK a \in DOMAIN rf : rr[j] = rf[a] /\ a = IF j < k THEN j ELSE j + 1
    BY <1>4
  <2>2. PICK b \in DOMAIN rf : rr[m] = rf[b] /\ b = IF m < k THEN m ELSE m + 1
    BY <1>4
  <2>3. a < b
    BY <2>1, <2>2, <1>2
  <2> QED BY <2>1, <2>2, <2>3 DEF Order, Ascending
<1>11. ASSUME NEW d \in Both PROVE Ascending(tt[d])
  <2> SUFFICES ASSUME NEW j \in DOMAIN tt[d], NEW m \in DOMAIN tt[d], j < m,
                      tt[d][j][1] = tt[d][m][1]
               PROVE  tt[d][j][2] < tt[d][m][2]
    BY DEF Ascending
  <2>1. CASE m \in DOMAIN tr[d] /\ tt[d][m] = tr[d][m]
    <3>1. j \in DOMAIN tr[d] /\ tt[d][j] = tr[d][j]
      <4>1. d = e => m <= Len(tr[e]) /\ j # Len(tr[e]) + 1
        BY <2>1, <1>3
      <4> QED BY <4>1, <1>7
    <3> QED BY <2>1, <3>1 DEF Order, Ascending
  <2>2. CASE d = e /\ m = Len(tr[e]) + 1 /\ tt[d][m] = f
    <3>1. j \in DOMAIN tr[e] /\ tt[d][j] = tr[e][j]
      BY <2>2, <1>3, <1>7
    <3> QED BY <2>2, <3>1 DEF Order, TakenFirst
  <2> QED BY <2>1, <2>2, <1>7
<1>12. TakenFirst(rr, tt)
  <2> SUFFICES ASSUME NEW d \in Both, NEW j \in DOMAIN tt[d], NEW m \in DOMAIN rr,
                      tt[d][j][1] = rr[m][1]
               PROVE  tt[d][j][2] < rr[m][2]
    BY DEF TakenFirst
  <2>1. PICK b \in DOMAIN rf : b # k /\ rr[m] = rf[b]
    BY <1>4
  <2>2. CASE j \in DOMAIN tr[d] /\ tt[d][j] = tr[d][j]
    BY <2>1, <2>2 DEF Order, TakenFirst
  <2>3. CASE tt[d][j] = f
    <3>1. k < b
      BY <2>1, <2>3, <1>2
    <3> QED BY <2>1, <2>3, <3>1 DEF Order, Ascending
  <2> QED BY <2>2, <2>3, <1>7
<1>13. TakenOnce(tt)
  <2>1. ASSUME NEW d \in Both, NEW j \in DOMAIN tr[d] PROVE tr[d][j] # f
    <3>1. tr[d][j][1] = f[1] => tr[d][j][2] < f[2]
      BY DEF Order, TakenFirst
    <3>2. f[2] \in Nat
      BY <1>1 DEF PoolFrames
    <3> QED BY <3>1, <3>2
  <2> SUFFICES ASSUME NEW c \in Both, NEW d \in Both, c # d,
                      NEW j \in DOMAIN tt[c], NEW m \in DOMAIN tt[d]
               PROVE  tt[c][j] # tt[d][m]
    BY DEF TakenOnce
  <2>2. CASE j \in DOMAIN tr[c] /\ tt[c][j] = tr[c][j]
             /\ m \in DOMAIN tr[d] /\ tt[d][m] = tr[d][m]
    BY <2>2 DEF Order, TakenOnce
  <2>3. CASE c = e /\ tt[c][j] = f
    <3>1. m \in DOMAIN tr[d] /\ tt[d][m] = tr[d][m]
      BY <2>3, <1>7
    <3> QED BY <2>1, <2>3, <3>1
  <2>4. CASE d = e /\ tt[d][m] = f
    <3>1. j \in DOMAIN tr[c] /\ tt[c][j] = tr[c][j]
      BY <2>4, <1>7
    <3> QED BY <2>1, <2>4, <3>1
  <2> QED BY <2>2, <2>3, <2>4, <1>7
<1>14. NoneLost(pub, rr, tt)
  <2> SUFFICES ASSUME NEW i \in Both, NEW n \in 1..pub[i]
               PROVE  \/ \E m \in DOMAIN rr : rr[m] = <<i, n>>
                      \/ \E d \in Both : \E j \in DOMAIN tt[d] : tt[d][j] = <<i, n>>
    BY DEF NoneLost
  <2>1. \/ \E m \in DOMAIN rf : rf[m] = <<i, n>>
        \/ \E d \in Both : \E j \in DOMAIN tr[d] : tr[d][j] = <<i, n>>
    BY DEF Order, NoneLost
  <2>2. ASSUME NEW m \in DOMAIN rf, rf[m] = <<i, n>>
        PROVE  \/ \E a \in DOMAIN rr : rr[a] = <<i, n>>
               \/ \E d \in Both : \E j \in DOMAIN tt[d] : tt[d][j] = <<i, n>>
    <3>1. CASE m # k
      BY <2>2, <3>1, <1>5
    <3>2. CASE m = k
      BY <2>2, <3>2, <1>3
    <3> QED BY <3>1, <3>2
  <2>3. ASSUME NEW d \in Both, NEW j \in DOMAIN tr[d], tr[d][j] = <<i, n>>
        PROVE  \E a \in DOMAIN tt[d] : tt[d][a] = <<i, n>>
    BY <2>3, <1>3
  <2> QED BY <2>1, <2>2, <2>3
<1>15. Order(pub, rr, tt)
  BY <1>6, <1>9, <1>10, <1>11, <1>12, <1>13, <1>14 DEF Order
<1> QED BY <1>15 DEF rr, tt

-----------------------------------------------------------------------------
(* The pool of the adaptive pipeline: as PairTypes and Handed, with pr[s]  *)
(* the producer that filled slot s, hp[i] and he[e] the slots in the hands *)
(* of producer i and of entropy thread e.                                  *)

PoolTypes(n, st, pr, cf, rd, hp, he) ==
    /\ st \in [1..n -> SlotStates]
    /\ pr \in [1..n -> {Nil} \cup Both]
    /\ cf \in [1..n -> {Nil} \cup PoolFrames]
    /\ rd \in Seq(1..n)
    /\ hp \in [Both -> {Nil} \cup 1..n] /\ he \in [Both -> {Nil} \cup 1..n]

PoolHanded(n, st, pr, rd, hp, he) ==
    /\ \A i \in Both : hp[i] # Nil => st[hp[i]] = "producer" /\ pr[hp[i]] = i
    /\ \A e \in Both : he[e] # Nil => st[he[e]] = "entropy"
    /\ \A d, e \in Both : he[d] # Nil /\ he[d] = he[e] => d = e
    /\ \A s \in 1..n : /\ st[s] = "producer" => \E i \in Both : hp[i] = s
                       /\ st[s] = "entropy" => \E e \in Both : he[e] = s
                       /\ st[s] = "ready" <=> \E k \in DOMAIN rd : rd[k] = s
    /\ \A j, k \in DOMAIN rd : rd[j] = rd[k] => j = k

\* A slot that is ready or being encoded holds a frame of its producer.
PoolFilled(n, st, pr, cf) == \A s \in 1..n : st[s] \in {"ready", "entropy"} =>
    pr[s] \in Both /\ cf[s] \in PoolFrames /\ cf[s][1] = pr[s]

Pool(n, st, pr, cf, rd, hp, he) ==
    /\ PoolTypes(n, st, pr, cf, rd, hp, he)
    /\ PoolHanded(n, st, pr, rd, hp, he)
    /\ PoolFilled(n, st, pr, cf)

LEMMA BothAreTwo == 0 \in Both /\ 1 \in Both /\ \A i \in Both : i = 0 \/ i = 1
  BY DEF Both, Adaptive!Pids

LEMMA PoolTake ==
  ASSUME NEW n \in Nat, NEW st, NEW pr, NEW cf, NEW rd, NEW hp, NEW he,
         Pool(n, st, pr, cf, rd, hp, he), NEW i \in Both, hp[i] = Nil,
         NEW s \in 1..n, st[s] = "free"
  PROVE  Pool(n, [st EXCEPT ![s] = "producer"], [pr EXCEPT ![s] = i], cf, rd,
              [hp EXCEPT ![i] = s], he)
<1> DEFINE st2 == [st EXCEPT ![s] = "producer"]
           pr2 == [pr EXCEPT ![s] = i]
           hp2 == [hp EXCEPT ![i] = s]
<1>1. PoolTypes(n, st, pr, cf, rd, hp, he) /\ PoolHanded(n, st, pr, rd, hp, he)
      /\ PoolFilled(n, st, pr, cf)
  BY DEF Pool
<1>2. PoolTypes(n, st2, pr2, cf, rd, hp2, he)
  BY <1>1 DEF PoolTypes, SlotStates
<1>3. /\ st2[s] = "producer" /\ pr2[s] = i /\ hp2[i] = s
      /\ \A x \in 1..n : x # s => st2[x] = st[x] /\ pr2[x] = pr[x]
      /\ \A j \in Both : j # i => hp2[j] = hp[j]
  BY <1>1 DEF PoolTypes
<1>4. \A k \in DOMAIN rd : rd[k] \in 1..n
  BY <1>1 DEF PoolTypes
<1>5. s # Nil /\ Nil \notin 1..n
  BY NilAssumption
<1>6. \A j \in Both : hp[j] \in {Nil} \cup 1..n /\ he[j] \in {Nil} \cup 1..n
  BY <1>1 DEF PoolTypes
<1> HIDE DEF st2, pr2, hp2
<1>7. PoolHanded(n, st2, pr2, rd, hp2, he)
  <2>1. \A j \in Both : hp2[j] # Nil => st2[hp2[j]] = "producer" /\ pr2[hp2[j]] = j
    BY <1>1, <1>3, <1>6 DEF PoolHanded
  <2>2. \A e \in Both : he[e] # Nil => st2[he[e]] = "entropy"
    BY <1>1, <1>3, <1>6 DEF PoolHanded
  <2>3. ASSUME NEW x \in 1..n
        PROVE  /\ st2[x] = "producer" => \E j \in Both : hp2[j] = x
               /\ st2[x] = "entropy" => \E e \in Both : he[e] = x
               /\ st2[x] = "ready" <=> \E k \in DOMAIN rd : rd[k] = x
    <3>1. CASE x = s
      BY <3>1, <1>1, <1>3 DEF PoolHanded
    <3>2. CASE x # s
      <4>1. /\ st[x] = "producer" => \E j \in Both : hp[j] = x
            /\ st[x] = "entropy" => \E e \in Both : he[e] = x
            /\ st[x] = "ready" <=> \E k \in DOMAIN rd : rd[k] = x
        BY <1>1 DEF PoolHanded
      <4>2. st2[x] = st[x]
        BY <3>2, <1>3
      <4>3. \A j \in Both : hp[j] = x => hp2[j] = x
        BY <1>3, <1>5
      <4> QED BY <4>1, <4>2, <4>3
    <3> QED BY <3>1, <3>2
  <2> QED BY <1>1, <2>1, <2>2, <2>3 DEF PoolHanded
<1>8. PoolFilled(n, st2, pr2, cf)
  BY <1>1, <1>3 DEF PoolFilled
<1> QED BY <1>2, <1>7, <1>8 DEF Pool, st2, pr2, hp2

LEMMA PoolTransform ==
  ASSUME NEW n \in Nat, NEW st, NEW pr, NEW cf, NEW rd, NEW hp, NEW he,
         Pool(n, st, pr, cf, rd, hp, he), NEW i \in Both, hp[i] # Nil,
         NEW f \in PoolFrames
  PROVE  /\ Pool(n, st, pr, [cf EXCEPT ![hp[i]] = f], rd, hp, he)
         /\ [cf EXCEPT ![hp[i]] = f][hp[i]] = f
         /\ \A j \in Both : j # i /\ hp[j] # Nil =>
              [cf EXCEPT ![hp[i]] = f][hp[j]] = cf[hp[j]]
         /\ \A e \in Both : he[e] # Nil => [cf EXCEPT ![hp[i]] = f][he[e]] = cf[he[e]]
         /\ \A k \in DOMAIN rd : [cf EXCEPT ![hp[i]] = f][rd[k]] = cf[rd[k]]
<1> DEFINE cf2 == [cf EXCEPT ![hp[i]] = f]
<1>1. PoolTypes(n, st, pr, cf, rd, hp, he) /\ PoolHanded(n, st, pr, rd, hp, he)
      /\ PoolFilled(n, st, pr, cf)
  BY DEF Pool
<1>2. /\ hp[i] \in 1..n /\ st[hp[i]] = "producer"
      /\ \A k \in DOMAIN rd : rd[k] \in 1..n
  BY <1>1 DEF PoolTypes, PoolHanded
<1>3. /\ PoolTypes(n, st, pr, cf2, rd, hp, he) /\ cf2[hp[i]] = f
      /\ \A x \in 1..n : x # hp[i] => cf2[x] = cf[x]
  BY <1>1, <1>2 DEF PoolTypes
<1> HIDE DEF cf2
<1>4. PoolFilled(n, st, pr, cf2)
  BY <1>1, <1>2, <1>3 DEF PoolFilled
<1>5. \A j \in Both : j # i /\ hp[j] # Nil => cf2[hp[j]] = cf[hp[j]]
  <2> SUFFICES ASSUME NEW j \in Both, j # i, hp[j] # Nil
               PROVE  cf2[hp[j]] = cf[hp[j]]
    OBVIOUS
  <2>1. hp[j] \in 1..n /\ hp[j] # hp[i]
    BY <1>1 DEF PoolTypes, PoolHanded
  <2> QED BY <2>1, <1>3
<1>6. \A e \in Both : he[e] # Nil => cf2[he[e]] = cf[he[e]]
  BY <1>1, <1>2, <1>3 DEF PoolTypes, PoolHanded
<1>7. \A k \in DOMAIN rd : cf2[rd[k]] = cf[rd[k]]
  BY <1>1, <1>2, <1>3 DEF PoolHanded
<1> QED BY <1>1, <1>3, <1>4, <1>5, <1>6, <1>7 DEF Pool, cf2

LEMMA PoolPublish ==
  ASSUME NEW n \in Nat, NEW st, NEW pr, NEW cf, NEW rd, NEW hp, NEW he,
         Pool(n, st, pr, cf, rd, hp, he), NEW i \in Both, hp[i] # Nil,
         cf[hp[i]] \in PoolFrames, cf[hp[i]][1] = i
  PROVE  Pool(n, [st EXCEPT ![hp[i]] = "ready"], pr, cf, Append(rd, hp[i]),
              [hp EXCEPT ![i] = Nil], he)
<1> DEFINE s == hp[i]
           st2 == [st EXCEPT ![s] = "ready"]
           rd2 == Append(rd, s)
           hp2 == [hp EXCEPT ![i] = Nil]
<1>1. PoolTypes(n, st, pr, cf, rd, hp, he) /\ PoolHanded(n, st, pr, rd, hp, he)
      /\ PoolFilled(n, st, pr, cf)
  BY DEF Pool
<1>2. s \in 1..n /\ st[s] = "producer" /\ pr[s] = i /\ Nil \notin 1..n
  BY <1>1, NilAssumption DEF PoolTypes, PoolHanded
<1>3. /\ rd2 \in Seq(1..n) /\ Len(rd) + 1 \in DOMAIN rd2 /\ rd2[Len(rd) + 1] = s
      /\ \A j \in DOMAIN rd : j \in DOMAIN rd2 /\ rd2[j] = rd[j]
      /\ \A j \in DOMAIN rd2 : j \in DOMAIN rd \/ j = Len(rd) + 1
  <2>1. rd \in Seq(1..n)
    BY <1>1 DEF PoolTypes
  <2> HIDE DEF s
  <2> QED BY <2>1, <1>2, AppendFacts
<1>4. PoolTypes(n, st2, pr, cf, rd2, hp2, he)
  BY <1>1, <1>2, <1>3 DEF PoolTypes, SlotStates
<1>5. /\ st2[s] = "ready" /\ hp2[i] = Nil
      /\ \A x \in 1..n : x # s => st2[x] = st[x]
      /\ \A j \in Both : j # i => hp2[j] = hp[j]
  BY <1>1, <1>2 DEF PoolTypes
<1> HIDE DEF st2, rd2, hp2
<1>6. /\ \A j \in Both : j # i /\ hp[j] # Nil => hp[j] \in 1..n /\ hp[j] # s
      /\ \A e \in Both : he[e] # Nil => he[e] \in 1..n /\ he[e] # s
      /\ \A k \in DOMAIN rd : rd[k] \in 1..n /\ rd[k] # s
  <2>1. \A j \in Both : j # i /\ hp[j] # Nil => hp[j] \in 1..n /\ hp[j] # s
    BY <1>1, <1>2 DEF PoolTypes, PoolHanded
  <2>2. \A e \in Both : he[e] # Nil => he[e] \in 1..n /\ he[e] # s
    BY <1>1, <1>2 DEF PoolTypes, PoolHanded
  <2>3. \A k \in DOMAIN rd : rd[k] \in 1..n /\ rd[k] # s
    BY <1>1, <1>2 DEF PoolTypes, PoolHanded
  <2> QED BY <2>1, <2>2, <2>3
<1> HIDE DEF s
<1>7. PoolHanded(n, st2, pr, rd2, hp2, he)
  <2>1. \A j \in Both : hp2[j] # Nil => st2[hp2[j]] = "producer" /\ pr[hp2[j]] = j
    BY <1>1, <1>5, <1>6 DEF PoolHanded
  <2>2. \A e \in Both : he[e] # Nil => st2[he[e]] = "entropy"
    BY <1>1, <1>5, <1>6 DEF PoolHanded
  <2>3. ASSUME NEW x \in 1..n
        PROVE  /\ st2[x] = "producer" => \E j \in Both : hp2[j] = x
               /\ st2[x] = "entropy" => \E e \in Both : he[e] = x
               /\ st2[x] = "ready" <=> \E k \in DOMAIN rd2 : rd2[k] = x
    <3>1. CASE x = s
      BY <3>1, <1>3, <1>5
    <3>2. CASE x # s
      <4>1. /\ st[x] = "producer" => \E j \in Both : hp[j] = x
            /\ st[x] = "entropy" => \E e \in Both : he[e] = x
            /\ st[x] = "ready" <=> \E k \in DOMAIN rd : rd[k] = x
        BY <1>1 DEF PoolHanded
      <4>2. st2[x] = st[x]
        BY <3>2, <1>5
      <4>3. \A j \in Both : hp[j] = x => hp2[j] = x
        BY <3>2, <1>5 DEF s
      <4>4. (\E k \in DOMAIN rd2 : rd2[k] = x) <=> (\E k \in DOMAIN rd : rd[k] = x)
        BY <3>2, <1>3
      <4> QED BY <4>1, <4>2, <4>3, <4>4
    <3> QED BY <3>1, <3>2
  <2>4. ASSUME NEW j \in DOMAIN rd2, NEW k \in DOMAIN rd2, rd2[j] = rd2[k]
        PROVE  j = k
    <3>1. CASE j \in DOMAIN rd /\ k \in DOMAIN rd
      BY <3>1, <2>4, <1>1, <1>3 DEF PoolHanded
    <3>2. CASE j = Len(rd) + 1
      BY <3>2, <2>4, <1>3, <1>6
    <3>3. CASE k = Len(rd) + 1
      BY <3>3, <2>4, <1>3, <1>6
    <3> QED BY <3>1, <3>2, <3>3, <1>3
  <2> QED BY <1>1, <2>1, <2>2, <2>3, <2>4 DEF PoolHanded
<1>8. PoolFilled(n, st2, pr, cf)
  BY <1>1, <1>2, <1>5 DEF PoolFilled, s
<1> QED BY <1>4, <1>7, <1>8 DEF Pool, s, st2, rd2, hp2

LEMMA PoolTakeReady ==
  ASSUME NEW n \in Nat, NEW st, NEW pr, NEW cf, NEW rd, NEW hp, NEW he,
         Pool(n, st, pr, cf, rd, hp, he), NEW e \in Both, he[e] = Nil,
         NEW k \in DOMAIN rd
  PROVE  Pool(n, [st EXCEPT ![rd[k]] = "entropy"], pr, cf, Adaptive!RemoveAt(rd, k),
              hp, [he EXCEPT ![e] = rd[k]])
<1> DEFINE s == rd[k]
           st2 == [st EXCEPT ![s] = "entropy"]
           rd2 == Adaptive!RemoveAt(rd, k)
           he2 == [he EXCEPT ![e] = s]
<1>1. PoolTypes(n, st, pr, cf, rd, hp, he) /\ PoolHanded(n, st, pr, rd, hp, he)
      /\ PoolFilled(n, st, pr, cf)
  BY DEF Pool
<1>2. rd \in Seq(1..n) /\ s \in 1..n /\ Nil \notin 1..n
  BY <1>1, NilAssumption DEF PoolTypes
<1>3. st[s] = "ready"
  BY <1>1, <1>2 DEF PoolHanded
<1>4. rd2 \in Seq(1..n)
  BY <1>2, RemoveAtFacts
<1>5. /\ \A j \in DOMAIN rd2 : \E m \in DOMAIN rd : m # k /\ rd2[j] = rd[m]
      /\ \A j, l \in DOMAIN rd2 : rd2[j] = rd2[l] => j = l
      /\ \A m \in DOMAIN rd : m # k => \E j \in DOMAIN rd2 : rd2[j] = rd[m]
  <2>1. /\ DOMAIN rd2 = 1..(Len(rd) - 1) /\ DOMAIN rd = 1..Len(rd)
        /\ Len(rd) \in Nat /\ Len(rd) > 0
        /\ \A j \in 1..(Len(rd) - 1) : rd2[j] = IF j < k THEN rd[j] ELSE rd[j + 1]
    BY <1>2, RemoveAtFacts
  <2> HIDE DEF rd2
  <2>2. ASSUME NEW j \in DOMAIN rd2
        PROVE  \E m \in DOMAIN rd :
                  m # k /\ rd2[j] = rd[m] /\ m = IF j < k THEN j ELSE j + 1
    <3>1. CASE j < k
      <4>1. j \in DOMAIN rd /\ rd2[j] = rd[j] /\ j # k
        BY <3>1, <2>1
      <4> QED BY <3>1, <4>1
    <3>2. CASE ~(j < k)
      <4>1. j + 1 \in DOMAIN rd /\ rd2[j] = rd[j + 1] /\ j + 1 # k
        BY <3>2, <2>1
      <4> QED BY <3>2, <4>1
    <3> QED BY <3>1, <3>2
  <2>3. ASSUME NEW j \in DOMAIN rd2, NEW l \in DOMAIN rd2, rd2[j] = rd2[l]
        PROVE  j = l
    <3>1. PICK a \in DOMAIN rd : rd2[j] = rd[a] /\ a = IF j < k THEN j ELSE j + 1
      BY <2>2
    <3>2. PICK b \in DOMAIN rd : rd2[l] = rd[b] /\ b = IF l < k THEN l ELSE l + 1
      BY <2>2
    <3>3. \A y, z \in DOMAIN rd : rd[y] = rd[z] => y = z
      BY <1>1 DEF PoolHanded
    <3>4. rd[a] = rd[b]
      BY <2>3, <3>1, <3>2
    <3>5. a = b
      BY <3>3, <3>4
    <3> QED BY <3>1, <3>2, <3>5, <2>1
  <2>4. ASSUME NEW m \in DOMAIN rd, m # k
        PROVE  \E j \in DOMAIN rd2 : rd2[j] = rd[m]
    <3>1. CASE m < k
      <4>1. m \in DOMAIN rd2 /\ rd2[m] = rd[m]
        BY <3>1, <2>1
      <4> QED BY <4>1
    <3>2. CASE m > k
      <4>1. m - 1 \in DOMAIN rd2 /\ ~(m - 1 < k) /\ (m - 1) + 1 = m
        BY <3>2, <2>1
      <4>2. rd2[m - 1] = rd[m]
        BY <4>1, <2>1
      <4> QED BY <4>1, <4>2
    <3> QED BY <2>4, <3>1, <3>2, <2>1
  <2> QED BY <2>2, <2>3, <2>4
<1>6. PoolTypes(n, st2, pr, cf, rd2, hp, he2)
  BY <1>1, <1>2, <1>4 DEF PoolTypes, SlotStates
<1>7. /\ st2[s] = "entropy" /\ he2[e] = s
      /\ \A x \in 1..n : x # s => st2[x] = st[x]
      /\ \A d \in Both : d # e => he2[d] = he[d]
  BY <1>1, <1>2 DEF PoolTypes
<1>8. /\ \A j \in Both : hp[j] # Nil => hp[j] \in 1..n /\ hp[j] # s
      /\ \A d \in Both : he[d] # Nil => he[d] \in 1..n /\ he[d] # s
      /\ \A j \in DOMAIN rd : rd[j] \in 1..n
      /\ \A j \in DOMAIN rd : j # k => rd[j] # s
  BY <1>1, <1>2, <1>3 DEF PoolTypes, PoolHanded
<1> HIDE DEF st2, rd2, he2
<1>9. PoolHanded(n, st2, pr, rd2, hp, he2)
  <2>1. \A j \in Both : hp[j] # Nil => st2[hp[j]] = "producer" /\ pr[hp[j]] = j
    BY <1>1, <1>7, <1>8 DEF PoolHanded
  <2>2. \A d \in Both : he2[d] # Nil => st2[he2[d]] = "entropy"
    BY <1>1, <1>7, <1>8 DEF PoolHanded
  <2>3. \A c, d \in Both : he2[c] # Nil /\ he2[c] = he2[d] => c = d
    BY <1>1, <1>2, <1>7, <1>8 DEF PoolHanded
  <2>4. ASSUME NEW x \in 1..n
        PROVE  /\ st2[x] = "producer" => \E j \in Both : hp[j] = x
               /\ st2[x] = "entropy" => \E d \in Both : he2[d] = x
               /\ st2[x] = "ready" <=> \E j \in DOMAIN rd2 : rd2[j] = x
    <3>1. CASE x = s
      BY <3>1, <1>5, <1>7, <1>8
    <3>2. CASE x # s
      <4>1. /\ st[x] = "producer" => \E j \in Both : hp[j] = x
            /\ st[x] = "entropy" => \E d \in Both : he[d] = x
            /\ st[x] = "ready" <=> \E j \in DOMAIN rd : rd[j] = x
        BY <1>1 DEF PoolHanded
      <4>2. st2[x] = st[x]
        BY <3>2, <1>7
      <4>3. \A d \in Both : he[d] = x => he2[d] = x
        BY <1>2, <1>7
      <4>4. (\E j \in DOMAIN rd2 : rd2[j] = x) <=> (\E j \in DOMAIN rd : rd[j] = x)
        BY <3>2, <1>5
      <4> QED BY <4>1, <4>2, <4>3, <4>4
    <3> QED BY <3>1, <3>2
  <2> QED BY <1>5, <2>1, <2>2, <2>3, <2>4 DEF PoolHanded
<1>10. PoolFilled(n, st2, pr, cf)
  BY <1>1, <1>2, <1>3, <1>7 DEF PoolFilled
<1> QED BY <1>6, <1>9, <1>10 DEF Pool, st2, rd2, he2

LEMMA PoolRelease ==
  ASSUME NEW n \in Nat, NEW st, NEW pr, NEW cf, NEW rd, NEW hp, NEW he,
         Pool(n, st, pr, cf, rd, hp, he), NEW e \in Both, he[e] # Nil
  PROVE  /\ Pool(n, [st EXCEPT ![he[e]] = "free"], [pr EXCEPT ![he[e]] = Nil],
                 [cf EXCEPT ![he[e]] = Nil], rd, hp, [he EXCEPT ![e] = Nil])
         /\ \A i \in Both : hp[i] # Nil => [cf EXCEPT ![he[e]] = Nil][hp[i]] = cf[hp[i]]
         /\ \A d \in Both : d # e /\ he[d] # Nil =>
              [cf EXCEPT ![he[e]] = Nil][he[d]] = cf[he[d]]
         /\ \A k \in DOMAIN rd : [cf EXCEPT ![he[e]] = Nil][rd[k]] = cf[rd[k]]
<1> DEFINE s == he[e]
           st2 == [st EXCEPT ![s] = "free"]
           pr2 == [pr EXCEPT ![s] = Nil]
           cf2 == [cf EXCEPT ![s] = Nil]
           he2 == [he EXCEPT ![e] = Nil]
<1>1. PoolTypes(n, st, pr, cf, rd, hp, he) /\ PoolHanded(n, st, pr, rd, hp, he)
      /\ PoolFilled(n, st, pr, cf)
  BY DEF Pool
<1>2. s \in 1..n /\ st[s] = "entropy" /\ Nil \notin 1..n
  BY <1>1, NilAssumption DEF PoolTypes, PoolHanded
<1>3. PoolTypes(n, st2, pr2, cf2, rd, hp, he2)
  BY <1>1, <1>2 DEF PoolTypes, SlotStates
<1>4. /\ st2[s] = "free" /\ he2[e] = Nil
      /\ \A x \in 1..n : x # s => st2[x] = st[x] /\ pr2[x] = pr[x] /\ cf2[x] = cf[x]
      /\ \A d \in Both : d # e => he2[d] = he[d]
  BY <1>1, <1>2 DEF PoolTypes
<1>5. /\ \A j \in Both : hp[j] # Nil => hp[j] \in 1..n /\ hp[j] # s
      /\ \A d \in Both : d # e /\ he[d] # Nil => he[d] \in 1..n /\ he[d] # s
      /\ \A j \in DOMAIN rd : rd[j] \in 1..n /\ rd[j] # s
  BY <1>1, <1>2 DEF PoolTypes, PoolHanded
<1> HIDE DEF st2, pr2, cf2, he2
<1>6. PoolHanded(n, st2, pr2, rd, hp, he2)
  <2>1. \A j \in Both : hp[j] # Nil => st2[hp[j]] = "producer" /\ pr2[hp[j]] = j
    BY <1>1, <1>4, <1>5 DEF PoolHanded
  <2>2. \A d \in Both : he2[d] # Nil => st2[he2[d]] = "entropy"
    BY <1>1, <1>4, <1>5 DEF PoolHanded
  <2>3. \A c, d \in Both : he2[c] # Nil /\ he2[c] = he2[d] => c = d
    BY <1>1, <1>4 DEF PoolHanded
  <2>4. ASSUME NEW x \in 1..n
        PROVE  /\ st2[x] = "producer" => \E j \in Both : hp[j] = x
               /\ st2[x] = "entropy" => \E d \in Both : he2[d] = x
               /\ st2[x] = "ready" <=> \E j \in DOMAIN rd : rd[j] = x
    <3>1. CASE x = s
      BY <3>1, <1>4, <1>5
    <3>2. CASE x # s
      <4>1. /\ st[x] = "producer" => \E j \in Both : hp[j] = x
            /\ st[x] = "entropy" => \E d \in Both : he[d] = x
            /\ st[x] = "ready" <=> \E j \in DOMAIN rd : rd[j] = x
        BY <1>1 DEF PoolHanded
      <4>2. st2[x] = st[x]
        BY <3>2, <1>4
      <4>3. \A d \in Both : he[d] = x => he2[d] = x
        BY <3>2, <1>4
      <4> QED BY <4>1, <4>2, <4>3
    <3> QED BY <3>1, <3>2
  <2> QED BY <1>1, <2>1, <2>2, <2>3, <2>4 DEF PoolHanded
<1>7. PoolFilled(n, st2, pr2, cf2)
  BY <1>1, <1>4 DEF PoolFilled
<1>8. /\ \A i \in Both : hp[i] # Nil => cf2[hp[i]] = cf[hp[i]]
      /\ \A d \in Both : d # e /\ he[d] # Nil => cf2[he[d]] = cf[he[d]]
      /\ \A k \in DOMAIN rd : cf2[rd[k]] = cf[rd[k]]
  BY <1>4, <1>5
<1>9. Pool(n, st2, pr2, cf2, rd, hp, he2)
  BY <1>3, <1>6, <1>7 DEF Pool
<1> QED BY <1>8, <1>9 DEF st2, pr2, cf2, he2

\* A pool of n slots never queues more than n of them.
LEMMA PoolQueue ==
  ASSUME NEW n \in Nat, NEW st, NEW pr, NEW cf, NEW rd, NEW hp, NEW he,
         Pool(n, st, pr, cf, rd, hp, he)
  PROVE  Len(rd) <= n
<1>1. rd \in Seq(1..n) /\ \A j, k \in DOMAIN rd : rd[j] = rd[k] => j = k
  BY DEF Pool, PoolTypes, PoolHanded
<1>2. ASSUME NEW m \in Nat PROVE IsFiniteSet(1..m) /\ Cardinality(1..m) = m
  BY FS_Interval
<1>3. rd \in [1..Len(rd) -> 1..n]
  BY <1>1
<1>4. IsInjective(rd)
  BY <1>1 DEF IsInjective
<1>5. rd \in Injection(1..Len(rd), 1..n)
  BY <1>3, <1>4 DEF Injection
<1>6. Len(rd) \in Nat
  BY <1>1
<1> QED BY <1>2, <1>5, <1>6, FS_Injection

-----------------------------------------------------------------------------
(* The adaptive pipeline.                                                  *)

ProducersHold == [i \in Both |-> holds[Adaptive!Producer(i)]]
EntropiesHold == [e \in Both |-> holds[Adaptive!Entropy(e)]]

\* How many frames of each producer are out of its hands, which wait, and
\* what each entropy thread has taken, the frame in its hands included.
Published == [i \in Both |-> made[i] - (IF holds[Adaptive!Producer(i)] # Nil THEN 1 ELSE 0)]
ReadyFrames == [k \in DOMAIN ready |-> coeff[ready[k]]]
Encoding(e) == holds[Adaptive!Entropy(e)] # Nil /\ pc[Adaptive!Entropy(e)] # "release"
Traces == [e \in Both |->
    IF Encoding(e) THEN Append(encoded[e], coeff[holds[Adaptive!Entropy(e)]])
    ELSE encoded[e]]

AdaptiveDomains ==
    /\ o \in OptionSets /\ o.pipeline = "adaptive"
    /\ DOMAIN pc = Adaptive!Threads /\ DOMAIN holds = Adaptive!Threads
    /\ DOMAIN producer_done = Both
    /\ made \in [Both -> Nat] /\ encoded \in [Both -> Seq(PoolFrames)]

AdaptivePool ==
    Pool(o.slots, state, producer, coeff, ready, ProducersHold, EntropiesHold)

AdaptiveHands == \A i \in Both :
    /\ ProducerHands(pc[Adaptive!Producer(i)], holds[Adaptive!Producer(i)])
    /\ EntropyHands(pc[Adaptive!Entropy(i)], holds[Adaptive!Entropy(i)])
    /\ pc[Adaptive!Producer(i)] = "publish" =>
         coeff[holds[Adaptive!Producer(i)]] = <<i, made[i]>>

AdaptiveOrder == Order(Published, ReadyFrames, Traces)

\* As DualEnd; an entropy thread ends after both producers.
AdaptiveEnd == ~abort => \A i \in Both :
    /\ pc[Adaptive!Producer(i)] # "caught" /\ pc[Adaptive!Entropy(i)] # "caught"
    /\ producer_done[i] => pc[Adaptive!Producer(i)] = "done"
    /\ pc[Adaptive!Producer(i)] = "done" => holds[Adaptive!Producer(i)] = Nil
    /\ pc[Adaptive!Entropy(i)] = "done" =>
         /\ ready = <<>> /\ holds[Adaptive!Entropy(i)] = Nil
         /\ \A j \in Both : producer_done[j]

AdaptiveInv == /\ AdaptiveDomains /\ MainInv /\ AdaptivePool /\ AdaptiveHands
               /\ AdaptiveOrder /\ AdaptiveEnd

LEMMA AdaptiveThreads ==
  /\ \A i \in Both : /\ Adaptive!Producer(i) \in Adaptive!Threads
                     /\ Adaptive!Entropy(i) \in Adaptive!Threads
  /\ \A i, j \in Both : Adaptive!Producer(i) # Adaptive!Entropy(j)
  /\ \A i, j \in Both : i # j => /\ Adaptive!Producer(i) # Adaptive!Producer(j)
                                 /\ Adaptive!Entropy(i) # Adaptive!Entropy(j)
  /\ \A t \in Adaptive!Threads : \E i \in Both :
        t = Adaptive!Producer(i) \/ t = Adaptive!Entropy(i)
  BY DEF Adaptive!Threads, Both, Adaptive!Pids, Adaptive!Producer, Adaptive!Entropy

LEMMA AdaptiveSlots ==
  ASSUME AdaptiveDomains PROVE o.slots \in 1..6 /\ o.slots \in Nat /\ o.slots >= 3
  BY OptionsAssumption DEF AdaptiveDomains, Options

\* The frames in a queue of slots, in order.
LEMMA FramesOf ==
  ASSUME NEW S, NEW T, NEW q \in Seq(S), NEW cf, \A k \in DOMAIN q : cf[q[k]] \in T
  PROVE  /\ [k \in DOMAIN q |-> cf[q[k]]] \in Seq(T)
         /\ DOMAIN [k \in DOMAIN q |-> cf[q[k]]] = DOMAIN q
         /\ Len([k \in DOMAIN q |-> cf[q[k]]]) = Len(q)
<1>1. DOMAIN q = 1..Len(q) /\ Len(q) \in Nat
  OBVIOUS
<1>2. [k \in DOMAIN q |-> cf[q[k]]] \in [1..Len(q) -> T]
  BY <1>1
<1> QED BY <1>1, <1>2

LEMMA ElementOf ==
  ASSUME NEW S, NEW q \in Seq(S), NEW k \in DOMAIN q PROVE q[k] \in S
  OBVIOUS

LEMMA SameSequence ==
  ASSUME NEW T, NEW a \in Seq(T), NEW b \in Seq(T), DOMAIN a = DOMAIN b,
         \A k \in DOMAIN a : a[k] = b[k]
  PROVE  a = b
  OBVIOUS

LEMMA AdaptiveInitially == Adaptive!Init => AdaptiveInv
<1> SUFFICES ASSUME Adaptive!Init PROVE AdaptiveInv
  OBVIOUS
<1> USE DEF Adaptive!Init
<1>1. AdaptiveDomains
  BY DEF AdaptiveDomains, Both
<1>2. MainInv
  BY DEF MainInv
<1>3. \A i \in Both : /\ holds[Adaptive!Producer(i)] = Nil
                      /\ holds[Adaptive!Entropy(i)] = Nil
                      /\ pc[Adaptive!Producer(i)] = "start"
                      /\ pc[Adaptive!Entropy(i)] = "start"
                      /\ made[i] = 0 /\ encoded[i] = <<>> /\ producer_done[i] = FALSE
  BY AdaptiveThreads DEF Both
<1>4. AdaptivePool
  <2>1. PoolTypes(o.slots, state, producer, coeff, ready, ProducersHold, EntropiesHold)
    BY <1>3 DEF PoolTypes, ProducersHold, EntropiesHold, SlotStates
  <2>2. PoolHanded(o.slots, state, producer, ready, ProducersHold, EntropiesHold)
    BY <1>3 DEF PoolHanded, ProducersHold, EntropiesHold
  <2>3. PoolFilled(o.slots, state, producer, coeff)
    BY DEF PoolFilled
  <2> QED BY <2>1, <2>2, <2>3 DEF AdaptivePool, Pool
<1>5. AdaptiveHands
  BY <1>3 DEF AdaptiveHands, ProducerHands, EntropyHands
<1>6. AdaptiveEnd
  BY <1>3 DEF AdaptiveEnd
<1>7. AdaptiveOrder
  <2>1. Published \in [Both -> Nat] /\ \A i \in Both : Published[i] = 0
    BY <1>3 DEF Published
  <2>2. Traces \in [Both -> Seq(PoolFrames)] /\ \A e \in Both : DOMAIN Traces[e] = {}
    <3>1. \A e \in Both : Traces[e] = <<>>
      BY <1>3 DEF Traces, Encoding
    <3>2. Traces \in [Both -> Seq(PoolFrames)]
      <4>1. <<>> \in Seq(PoolFrames)
        OBVIOUS
      <4> HIDE DEF Adaptive!Init
      <4> QED BY <3>1, <4>1 DEF Traces
    <3> QED BY <3>1, <3>2
  <2>3. DOMAIN ReadyFrames = {} /\ ReadyFrames \in Seq(PoolFrames)
    <3>1. ready \in Seq(Nat) /\ DOMAIN ready = {}
      OBVIOUS
    <3>2. ReadyFrames \in Seq(PoolFrames)
      BY <3>1, FramesOf DEF ReadyFrames
    <3> QED BY <3>1, <3>2 DEF ReadyFrames
  <2> HIDE DEF Adaptive!Init
  <2> QED BY <2>1, <2>2, <2>3 DEF AdaptiveOrder, Order, OrderTypes, InBounds, Ascending,
             TakenFirst, TakenOnce, NoneLost
<1> QED BY <1>1, <1>2, <1>4, <1>5, <1>6, <1>7 DEF AdaptiveInv

LEMMA AdaptiveMoves ==
  ASSUME AdaptiveDomains, NEW t \in Adaptive!Threads, NEW where, Moves(t, where)
  PROVE  /\ t \in DOMAIN pc /\ DOMAIN pc' = Adaptive!Threads
         /\ pc'[t] = where
         /\ \A i \in Both :
              /\ t # Adaptive!Producer(i) =>
                   Similar(pc[Adaptive!Producer(i)], pc'[Adaptive!Producer(i)])
              /\ t # Adaptive!Entropy(i) =>
                   Similar(pc[Adaptive!Entropy(i)], pc'[Adaptive!Entropy(i)])
  BY AdaptiveThreads DEF AdaptiveDomains, Moves

\* What is left to show of a step of a thread.
LEMMA AdaptiveStepOf ==
  ASSUME AdaptiveInv, NEW t \in Adaptive!Threads, pc[t] # "done", main' = main,
         abort' = abort \/ abort' = TRUE, AdaptiveDomains', AdaptivePool',
         AdaptiveHands', AdaptiveOrder', AdaptiveEnd'
  PROVE  AdaptiveInv'
<1>1. t \in DOMAIN pc
  BY DEF AdaptiveInv, AdaptiveDomains
<1> QED BY <1>1, MainStays DEF AdaptiveInv

LEMMA AdaptiveActor ==
  ASSUME AdaptiveInv, NEW i \in Both
  PROVE  /\ AdaptiveDomains /\ AdaptivePool /\ AdaptiveHands /\ AdaptiveEnd
         /\ ProducerHands(pc[Adaptive!Producer(i)], holds[Adaptive!Producer(i)])
         /\ EntropyHands(pc[Adaptive!Entropy(i)], holds[Adaptive!Entropy(i)])
         /\ Adaptive!Producer(i) \in Adaptive!Threads
         /\ Adaptive!Entropy(i) \in Adaptive!Threads
         /\ Adaptive!Producer(i) \in DOMAIN pc /\ Adaptive!Entropy(i) \in DOMAIN pc
         /\ Adaptive!Producer(i) # Adaptive!Entropy(i)
  BY AdaptiveThreads DEF AdaptiveInv, AdaptiveDomains, AdaptiveHands

\* Steps that move a thread and nothing else.
LEMMA AdaptiveOnlyMoves ==
  ASSUME AdaptiveInv, NEW t \in Adaptive!Threads, NEW where,
         Moves(t, where), pc[t] # "done",
         UNCHANGED <<state, producer, coeff, ready, holds, made, encoded, o, main,
                     producer_done>>,
         abort' = abort \/ abort' = TRUE,
         \A i \in Both : t = Adaptive!Producer(i) =>
            /\ where # "publish" /\ ProducerHands(where, holds[t])
            /\ ~abort' => where \notin {"caught", "done"},
         \A e \in Both : t = Adaptive!Entropy(e) =>
            /\ (where = "release") = (pc[t] = "release")
            /\ EntropyHands(where, holds[t])
            /\ ~abort' => /\ where # "caught"
                          /\ where = "done" => /\ ready = <<>> /\ holds[t] = Nil
                                               /\ \A j \in Both : producer_done[j]
  PROVE  AdaptiveInv'
<1>1. /\ AdaptiveDomains /\ AdaptivePool /\ AdaptiveHands /\ AdaptiveOrder
      /\ AdaptiveEnd
  BY DEF AdaptiveInv
<1>2. /\ DOMAIN pc' = Adaptive!Threads /\ pc'[t] = where
      /\ \A i \in Both :
              /\ t # Adaptive!Producer(i) =>
                   Similar(pc[Adaptive!Producer(i)], pc'[Adaptive!Producer(i)])
              /\ t # Adaptive!Entropy(i) =>
                   Similar(pc[Adaptive!Entropy(i)], pc'[Adaptive!Entropy(i)])
  BY <1>1, AdaptiveMoves
<1>3. AdaptiveDomains'
  BY <1>1, <1>2 DEF AdaptiveDomains
<1>4. AdaptivePool'
  BY <1>1 DEF AdaptivePool, ProducersHold, EntropiesHold
<1>5. AdaptiveHands'
  <2> SUFFICES ASSUME NEW i \in Both
               PROVE  /\ ProducerHands(pc'[Adaptive!Producer(i)], holds[Adaptive!Producer(i)])
                      /\ EntropyHands(pc'[Adaptive!Entropy(i)], holds[Adaptive!Entropy(i)])
                      /\ pc'[Adaptive!Producer(i)] = "publish" =>
                           coeff[holds[Adaptive!Producer(i)]] = <<i, made[i]>>
    BY DEF AdaptiveHands
  <2>1. /\ ProducerHands(pc[Adaptive!Producer(i)], holds[Adaptive!Producer(i)])
        /\ EntropyHands(pc[Adaptive!Entropy(i)], holds[Adaptive!Entropy(i)])
        /\ pc[Adaptive!Producer(i)] = "publish" =>
             coeff[holds[Adaptive!Producer(i)]] = <<i, made[i]>>
    BY <1>1 DEF AdaptiveHands
  <2>2. CASE t = Adaptive!Producer(i)
    BY <2>1, <2>2, <1>2, AdaptiveThreads DEF Similar, EntropyHands
  <2>3. CASE t = Adaptive!Entropy(i)
    BY <2>1, <2>3, <1>2, AdaptiveThreads DEF Similar, ProducerHands
  <2>4. CASE t # Adaptive!Producer(i) /\ t # Adaptive!Entropy(i)
    BY <2>1, <2>4, <1>2 DEF Similar, ProducerHands, EntropyHands
  <2> QED BY <2>2, <2>3, <2>4
<1>6. AdaptiveOrder'
  <2>1. \A e \in Both : Encoding(e)' = Encoding(e)
    BY <1>2 DEF Similar, Encoding
  <2>2. Traces' = Traces
    BY <2>1 DEF Traces
  <2> QED BY <1>1, <2>2 DEF AdaptiveOrder, Published, ReadyFrames
<1>7. AdaptiveEnd'
  <2> SUFFICES ASSUME ~abort', NEW i \in Both
               PROVE  /\ pc'[Adaptive!Producer(i)] # "caught"
                      /\ pc'[Adaptive!Entropy(i)] # "caught"
                      /\ producer_done[i] => pc'[Adaptive!Producer(i)] = "done"
                      /\ pc'[Adaptive!Producer(i)] = "done" =>
                           holds[Adaptive!Producer(i)] = Nil
                      /\ pc'[Adaptive!Entropy(i)] = "done" =>
                           /\ ready = <<>> /\ holds[Adaptive!Entropy(i)] = Nil
                           /\ \A j \in Both : producer_done[j]
    BY DEF AdaptiveEnd
  <2>1. /\ pc[Adaptive!Producer(i)] # "caught" /\ pc[Adaptive!Entropy(i)] # "caught"
        /\ producer_done[i] => pc[Adaptive!Producer(i)] = "done"
        /\ pc[Adaptive!Producer(i)] = "done" => holds[Adaptive!Producer(i)] = Nil
        /\ pc[Adaptive!Entropy(i)] = "done" =>
             /\ ready = <<>> /\ holds[Adaptive!Entropy(i)] = Nil
             /\ \A j \in Both : producer_done[j]
    BY <1>1 DEF AdaptiveEnd
  <2>2. CASE t = Adaptive!Producer(i)
    BY <2>1, <2>2, <1>2, AdaptiveThreads DEF Similar
  <2>3. CASE t = Adaptive!Entropy(i)
    BY <2>1, <2>3, <1>2, AdaptiveThreads DEF Similar
  <2>4. CASE t # Adaptive!Producer(i) /\ t # Adaptive!Entropy(i)
    BY <2>1, <2>4, <1>2 DEF Similar
  <2> QED BY <2>2, <2>3, <2>4
<1> QED BY <1>3, <1>4, <1>5, <1>6, <1>7, AdaptiveStepOf

LEMMA AdaptiveMoveSteps ==
  ASSUME AdaptiveInv, NEW i \in Both, UNCHANGED producer,
         \/ Adaptive!Start(Adaptive!Producer(i), "claim")
         \/ Adaptive!ClaimWork(Adaptive!Producer(i), "wait", "finish")
         \/ Adaptive!Start(Adaptive!Entropy(i), "wait")
         \/ \E t \in {Adaptive!Producer(i), Adaptive!Entropy(i)} :
              \/ Adaptive!Sleep(t) \/ Adaptive!Wake(t) \/ Adaptive!Throw(t)
              \/ Adaptive!Caught(t)
  PROVE  AdaptiveInv'
<1> USE DEF Adaptive!slotVars, Adaptive!frameVars, Adaptive!flagVars,
            Adaptive!adaptiveVars
<1>0. PICK t \in {Adaptive!Producer(i), Adaptive!Entropy(i)} :
         \/ t = Adaptive!Producer(i) /\ Adaptive!Start(t, "claim")
         \/ t = Adaptive!Producer(i) /\ Adaptive!ClaimWork(t, "wait", "finish")
         \/ t = Adaptive!Entropy(i) /\ Adaptive!Start(t, "wait")
         \/ Adaptive!Sleep(t) \/ Adaptive!Wake(t) \/ Adaptive!Throw(t)
         \/ Adaptive!Caught(t)
  OBVIOUS
<1>1. /\ t \in DOMAIN pc /\ t \in Adaptive!Threads
      /\ AdaptiveEnd
      /\ ProducerHands(pc[Adaptive!Producer(i)], holds[Adaptive!Producer(i)])
      /\ EntropyHands(pc[Adaptive!Entropy(i)], holds[Adaptive!Entropy(i)])
  BY AdaptiveActor
<1>2. \A j \in Both : /\ t = Adaptive!Producer(j) => t = Adaptive!Producer(i)
                      /\ t = Adaptive!Entropy(j) => t = Adaptive!Entropy(i)
  BY AdaptiveThreads
<1>3. CASE t = Adaptive!Producer(i) /\ Adaptive!Start(t, "claim")
  <2>1. Moves(t, "claim") /\ pc[t] = "start"
    BY <1>1, <1>3, StepsMove DEF Adaptive!Start
  <2>2. ProducerHands("claim", holds[t])
    BY <1>1, <1>3, <2>1 DEF ProducerHands
  <2>3. \A j \in Both : t # Adaptive!Entropy(j)
    BY <1>3, AdaptiveThreads
  <2> QED BY <1>1, <1>3, <2>1, <2>2, <2>3, AdaptiveOnlyMoves DEF Adaptive!Start
<1>4. CASE t = Adaptive!Producer(i) /\ Adaptive!ClaimWork(t, "wait", "finish")
  <2>1. PICK where \in {"wait", "finish"} : Moves(t, where)
    BY <1>1, <1>4, StepsMove DEF Adaptive!ClaimWork
  <2>2. pc[t] = "claim"
    BY <1>4 DEF Adaptive!ClaimWork
  <2>3. ProducerHands(where, holds[t])
    BY <1>1, <1>4, <2>2 DEF ProducerHands
  <2>4. UNCHANGED <<state, coeff, ready, holds, made, encoded, o, main,
                    producer_done, abort>>
    BY <1>4 DEF Adaptive!ClaimWork
  <2>5. \A j \in Both : t # Adaptive!Entropy(j)
    BY <1>4, AdaptiveThreads
  <2> QED BY <1>1, <2>1, <2>2, <2>3, <2>4, <2>5, AdaptiveOnlyMoves
<1>5. CASE t = Adaptive!Entropy(i) /\ Adaptive!Start(t, "wait")
  <2>1. Moves(t, "wait") /\ pc[t] = "start"
    BY <1>1, <1>5, StepsMove DEF Adaptive!Start
  <2>2. EntropyHands("wait", holds[t])
    BY <1>1, <1>5, <2>1 DEF EntropyHands
  <2>3. \A j \in Both : t # Adaptive!Producer(j)
    BY <1>5, AdaptiveThreads
  <2> QED BY <1>1, <1>5, <2>1, <2>2, <2>3, AdaptiveOnlyMoves DEF Adaptive!Start
<1>6. CASE Adaptive!Sleep(t)
  <2>1. Moves(t, "asleep") /\ pc[t] = "drowsy"
    BY <1>1, <1>6, StepsMove DEF Adaptive!Sleep
  <2>2. /\ t = Adaptive!Producer(i) => ProducerHands("asleep", holds[t])
        /\ t = Adaptive!Entropy(i) => EntropyHands("asleep", holds[t])
    BY <1>1, <2>1 DEF EntropyHands, ProducerHands
  <2> QED BY <1>1, <1>2, <1>6, <2>1, <2>2, AdaptiveOnlyMoves DEF Adaptive!Sleep
<1>7. CASE Adaptive!Wake(t)
  <2>1. Moves(t, "wait") /\ pc[t] = "asleep"
    BY <1>1, <1>7, StepsMove DEF Adaptive!Wake
  <2>2. /\ t = Adaptive!Producer(i) => ProducerHands("wait", holds[t])
        /\ t = Adaptive!Entropy(i) => EntropyHands("wait", holds[t])
    BY <1>1, <2>1 DEF EntropyHands, ProducerHands
  <2> QED BY <1>1, <1>2, <1>7, <2>1, <2>2, AdaptiveOnlyMoves DEF Adaptive!Wake
<1>8. CASE Adaptive!Throw(t)
  <2>1. /\ Moves(t, "caught")
        /\ pc[t] \in {"start", "transform", "encode"} /\ abort' = TRUE
    BY <1>1, <1>8, StepsMove DEF Adaptive!Throw
  <2>2. ProducerHands("caught", holds[t]) /\ EntropyHands("caught", holds[t])
    BY DEF EntropyHands, ProducerHands
  <2> QED BY <1>1, <1>2, <1>8, <2>1, <2>2, AdaptiveOnlyMoves DEF Adaptive!Throw
<1>9. CASE Adaptive!Caught(t)
  <2>1. Moves(t, "done") /\ pc[t] = "caught"
    BY <1>1, <1>9, StepsMove DEF Adaptive!Caught
  <2>2. abort = TRUE
    BY <1>1, <2>1 DEF AdaptiveEnd, AdaptiveInv, MainInv
  <2>3. ProducerHands("done", holds[t]) /\ EntropyHands("done", holds[t])
    BY DEF EntropyHands, ProducerHands
  <2> QED BY <1>1, <1>2, <1>9, <2>1, <2>2, <2>3, AdaptiveOnlyMoves DEF Adaptive!Caught
<1> QED BY <1>0, <1>3, <1>4, <1>5, <1>6, <1>7, <1>8, <1>9

LEMMA ProducerHolds ==
  ASSUME AdaptiveDomains, NEW i \in Both, NEW v,
         holds' = [holds EXCEPT ![Adaptive!Producer(i)] = v]
  PROVE  /\ ProducersHold' = [ProducersHold EXCEPT ![i] = v]
         /\ EntropiesHold' = EntropiesHold
         /\ holds'[Adaptive!Producer(i)] = v
         /\ \A u \in Adaptive!Threads \ {Adaptive!Producer(i)} : holds'[u] = holds[u]
<1>1. /\ Adaptive!Producer(i) \in Adaptive!Threads /\ DOMAIN holds = Adaptive!Threads
      /\ \A j \in Both : j # i => Adaptive!Producer(i) # Adaptive!Producer(j)
      /\ \A j \in Both : Adaptive!Producer(i) # Adaptive!Entropy(j)
  BY AdaptiveThreads DEF AdaptiveDomains
<1>2. /\ holds'[Adaptive!Producer(i)] = v
      /\ \A u \in Adaptive!Threads \ {Adaptive!Producer(i)} : holds'[u] = holds[u]
  BY <1>1
<1>3. \A j \in Both : /\ Adaptive!Producer(j) \in Adaptive!Threads
                      /\ Adaptive!Entropy(j) \in Adaptive!Threads
  BY AdaptiveThreads
<1>4. ProducersHold' = [ProducersHold EXCEPT ![i] = v]
  BY <1>1, <1>2, <1>3 DEF ProducersHold
<1>5. EntropiesHold' = EntropiesHold
  BY <1>1, <1>2, <1>3 DEF EntropiesHold
<1> QED BY <1>2, <1>4, <1>5

LEMMA EntropyHolds ==
  ASSUME AdaptiveDomains, NEW e \in Both, NEW v,
         holds' = [holds EXCEPT ![Adaptive!Entropy(e)] = v]
  PROVE  /\ EntropiesHold' = [EntropiesHold EXCEPT ![e] = v]
         /\ ProducersHold' = ProducersHold
         /\ holds'[Adaptive!Entropy(e)] = v
         /\ \A u \in Adaptive!Threads \ {Adaptive!Entropy(e)} : holds'[u] = holds[u]
<1>1. /\ Adaptive!Entropy(e) \in Adaptive!Threads /\ DOMAIN holds = Adaptive!Threads
      /\ \A j \in Both : j # e => Adaptive!Entropy(e) # Adaptive!Entropy(j)
      /\ \A j \in Both : Adaptive!Entropy(e) # Adaptive!Producer(j)
  BY AdaptiveThreads DEF AdaptiveDomains
<1>2. /\ holds'[Adaptive!Entropy(e)] = v
      /\ \A u \in Adaptive!Threads \ {Adaptive!Entropy(e)} : holds'[u] = holds[u]
  BY <1>1
<1>3. \A j \in Both : /\ Adaptive!Entropy(j) \in Adaptive!Threads
                      /\ Adaptive!Producer(j) \in Adaptive!Threads
  BY AdaptiveThreads
<1>4. EntropiesHold' = [EntropiesHold EXCEPT ![e] = v]
  BY <1>1, <1>2, <1>3 DEF EntropiesHold
<1>5. ProducersHold' = ProducersHold
  BY <1>1, <1>2, <1>3 DEF ProducersHold
<1> QED BY <1>2, <1>4, <1>5

\* After a step of t, the hands of every thread.
LEMMA AdaptiveHandsAfter ==
  ASSUME AdaptiveDomains, AdaptiveHands, NEW t \in Adaptive!Threads, NEW where,
         Moves(t, where),
         \A u \in Adaptive!Threads \ {t} : holds'[u] = holds[u],
         \A i \in Both : t # Adaptive!Producer(i) =>
            /\ made'[i] = made[i]
            /\ holds[Adaptive!Producer(i)] # Nil =>
                 coeff'[holds[Adaptive!Producer(i)]] = coeff[holds[Adaptive!Producer(i)]],
         \A i \in Both : t = Adaptive!Producer(i) =>
            /\ ProducerHands(where, holds'[t])
            /\ where = "publish" => coeff'[holds'[t]] = <<i, made'[i]>>,
         \A e \in Both : t = Adaptive!Entropy(e) => EntropyHands(where, holds'[t])
  PROVE  AdaptiveHands'
<1> SUFFICES ASSUME NEW i \in Both
             PROVE  /\ ProducerHands(pc'[Adaptive!Producer(i)], holds'[Adaptive!Producer(i)])
                    /\ EntropyHands(pc'[Adaptive!Entropy(i)], holds'[Adaptive!Entropy(i)])
                    /\ pc'[Adaptive!Producer(i)] = "publish" =>
                         coeff'[holds'[Adaptive!Producer(i)]] = <<i, made'[i]>>
  BY DEF AdaptiveHands
<1>1. /\ ProducerHands(pc[Adaptive!Producer(i)], holds[Adaptive!Producer(i)])
      /\ EntropyHands(pc[Adaptive!Entropy(i)], holds[Adaptive!Entropy(i)])
      /\ pc[Adaptive!Producer(i)] = "publish" =>
           coeff[holds[Adaptive!Producer(i)]] = <<i, made[i]>>
      /\ Adaptive!Producer(i) \in Adaptive!Threads
      /\ Adaptive!Entropy(i) \in Adaptive!Threads
  BY AdaptiveThreads DEF AdaptiveHands
<1>2. /\ pc'[t] = where
      /\ t # Adaptive!Producer(i) =>
           Similar(pc[Adaptive!Producer(i)], pc'[Adaptive!Producer(i)])
      /\ t # Adaptive!Entropy(i) =>
           Similar(pc[Adaptive!Entropy(i)], pc'[Adaptive!Entropy(i)])
  BY AdaptiveMoves
<1>3. EntropyHands(pc'[Adaptive!Entropy(i)], holds'[Adaptive!Entropy(i)])
  <2>1. CASE t = Adaptive!Entropy(i)
    BY <2>1, <1>2
  <2>2. CASE t # Adaptive!Entropy(i)
    BY <2>2, <1>1, <1>2 DEF EntropyHands, Similar
  <2> QED BY <2>1, <2>2
<1>4. CASE t = Adaptive!Producer(i)
  BY <1>2, <1>3, <1>4
<1>5. CASE t # Adaptive!Producer(i)
  <2>1. /\ holds'[Adaptive!Producer(i)] = holds[Adaptive!Producer(i)]
        /\ made'[i] = made[i]
        /\ Similar(pc[Adaptive!Producer(i)], pc'[Adaptive!Producer(i)])
    BY <1>1, <1>2, <1>5
  <2>2. pc'[Adaptive!Producer(i)] = "publish" =>
          coeff'[holds'[Adaptive!Producer(i)]] = <<i, made'[i]>>
    BY <1>1, <1>5, <2>1 DEF Similar, ProducerHands
  <2> QED BY <1>1, <1>3, <2>1, <2>2 DEF ProducerHands, Similar
<1> QED BY <1>4, <1>5

\* After a step of t that neither ends nor fails.
LEMMA AdaptiveEndAfter ==
  ASSUME AdaptiveDomains, AdaptiveEnd, NEW t \in Adaptive!Threads, NEW where,
         Moves(t, where), where \notin {"caught", "done"}, pc[t] # "done",
         abort' = abort, producer_done' = producer_done,
         \A u \in Adaptive!Threads \ {t} : holds'[u] = holds[u],
         \/ ready' = ready
         \/ ready # <<>>
         \/ \E i \in Both : t = Adaptive!Producer(i)
  PROVE  AdaptiveEnd'
<1> SUFFICES ASSUME ~abort, NEW i \in Both
             PROVE  /\ pc'[Adaptive!Producer(i)] # "caught"
                    /\ pc'[Adaptive!Entropy(i)] # "caught"
                    /\ producer_done[i] => pc'[Adaptive!Producer(i)] = "done"
                    /\ pc'[Adaptive!Producer(i)] = "done" =>
                         holds'[Adaptive!Producer(i)] = Nil
                    /\ pc'[Adaptive!Entropy(i)] = "done" =>
                         /\ ready' = <<>> /\ holds'[Adaptive!Entropy(i)] = Nil
                         /\ \A j \in Both : producer_done[j]
  BY DEF AdaptiveEnd
<1>1. /\ \A j \in Both : producer_done[j] => pc[Adaptive!Producer(j)] = "done"
      /\ pc[Adaptive!Producer(i)] # "caught" /\ pc[Adaptive!Entropy(i)] # "caught"
      /\ pc[Adaptive!Producer(i)] = "done" => holds[Adaptive!Producer(i)] = Nil
      /\ pc[Adaptive!Entropy(i)] = "done" =>
           /\ ready = <<>> /\ holds[Adaptive!Entropy(i)] = Nil
           /\ \A j \in Both : producer_done[j]
      /\ Adaptive!Producer(i) \in Adaptive!Threads
      /\ Adaptive!Entropy(i) \in Adaptive!Threads
  BY AdaptiveThreads DEF AdaptiveEnd
<1>2. /\ pc'[t] = where
      /\ t # Adaptive!Producer(i) =>
           Similar(pc[Adaptive!Producer(i)], pc'[Adaptive!Producer(i)])
      /\ t # Adaptive!Entropy(i) =>
           Similar(pc[Adaptive!Entropy(i)], pc'[Adaptive!Entropy(i)])
  BY AdaptiveMoves
<1>3. /\ pc'[Adaptive!Producer(i)] # "caught"
      /\ producer_done[i] => pc'[Adaptive!Producer(i)] = "done"
      /\ pc'[Adaptive!Producer(i)] = "done" => holds'[Adaptive!Producer(i)] = Nil
  <2>1. CASE t = Adaptive!Producer(i)
    BY <2>1, <1>1, <1>2
  <2>2. CASE t # Adaptive!Producer(i)
    BY <2>2, <1>1, <1>2 DEF Similar
  <2> QED BY <2>1, <2>2
<1>4. /\ pc'[Adaptive!Entropy(i)] # "caught"
      /\ pc'[Adaptive!Entropy(i)] = "done" =>
           /\ ready' = <<>> /\ holds'[Adaptive!Entropy(i)] = Nil
           /\ \A j \in Both : producer_done[j]
  <2>1. CASE t = Adaptive!Entropy(i)
    BY <2>1, <1>1, <1>2
  <2>2. CASE t # Adaptive!Entropy(i)
    <3>1. Similar(pc[Adaptive!Entropy(i)], pc'[Adaptive!Entropy(i)])
          /\ holds'[Adaptive!Entropy(i)] = holds[Adaptive!Entropy(i)]
      BY <2>2, <1>1, <1>2
    <3>2. pc[Adaptive!Entropy(i)] = "done" => ready' = ready
      BY <1>1
    <3> QED BY <3>1, <3>2, <1>1 DEF Similar
  <2> QED BY <2>1, <2>2
<1> QED BY <1>3, <1>4

\* What the entropy threads have taken stays as it is.
LEMMA TracesStay ==
  ASSUME \A e \in Both : Encoding(e)' = Encoding(e),
         encoded' = encoded,
         \A e \in Both : Encoding(e) =>
            coeff'[holds'[Adaptive!Entropy(e)]] = coeff[holds[Adaptive!Entropy(e)]]
  PROVE  Traces' = Traces
  BY DEF Traces

LEMMA AdaptiveProducerWait ==
  ASSUME AdaptiveInv, NEW i \in Both, Adaptive!ProducerWait(i)
  PROVE  AdaptiveInv'
<1> USE DEF Adaptive!flagVars
<1> DEFINE t == Adaptive!Producer(i)
           s == Adaptive!Min(Adaptive!Free)
<1>1. /\ AdaptiveDomains /\ AdaptivePool /\ AdaptiveHands /\ AdaptiveEnd
      /\ t \in Adaptive!Threads /\ t \in DOMAIN pc /\ pc[t] = "wait"
      /\ holds[t] = Nil
      /\ \A e \in Both : t # Adaptive!Entropy(e)
      /\ \A j \in Both : j # i => t # Adaptive!Producer(j)
  BY AdaptiveActor, AdaptiveThreads DEF Adaptive!ProducerWait, ProducerHands
<1>2. \/ /\ Adaptive!Goto(t, "finish") \/ Adaptive!Goto(t, "drowsy")
         /\ UNCHANGED <<state, holds, made, producer>>
      \/ /\ Adaptive!Cardinality(Adaptive!Free) > Adaptive!Reserve(i)
         /\ state' = [state EXCEPT ![s] = "producer"]
         /\ producer' = [producer EXCEPT ![s] = i]
         /\ holds' = [holds EXCEPT ![t] = s]
         /\ made' = [made EXCEPT ![i] = @ + 1]
         /\ Adaptive!Goto(t, "transform")
  BY DEF Adaptive!ProducerWait, Adaptive!Doze
<1>3. UNCHANGED <<coeff, ready, encoded, o, main, producer_done, abort>>
  BY DEF Adaptive!ProducerWait
<1>4. CASE /\ Adaptive!Goto(t, "finish") \/ Adaptive!Goto(t, "drowsy")
           /\ UNCHANGED <<state, holds, made, producer>>
  <2>1. PICK where \in {"finish", "drowsy"} : Moves(t, where)
    BY <1>1, <1>4, StepsMove
  <2>2. ProducerHands(where, holds[t])
    BY <1>1 DEF ProducerHands
  <2> QED BY <1>1, <1>3, <1>4, <2>1, <2>2, AdaptiveOnlyMoves
<1>5. CASE /\ Adaptive!Cardinality(Adaptive!Free) > Adaptive!Reserve(i)
           /\ state' = [state EXCEPT ![s] = "producer"]
           /\ producer' = [producer EXCEPT ![s] = i]
           /\ holds' = [holds EXCEPT ![t] = s]
           /\ made' = [made EXCEPT ![i] = @ + 1]
           /\ Adaptive!Goto(t, "transform")
  <2>1. o.slots \in 1..6 /\ o.slots \in Nat
    BY <1>1, AdaptiveSlots
  <2>2. s \in 1..o.slots /\ state[s] = "free"
    <3>1. Adaptive!Free \in SUBSET (1..6)
      BY <2>1 DEF Adaptive!Free
    <3>2. Adaptive!Reserve(i) \in Nat
      BY <1>1, OptionsAssumption DEF AdaptiveDomains, Options, Adaptive!Reserve
    <3>3. Adaptive!Free # {}
      <4>1. Cardinality({}) = 0
        BY FS_EmptySet
      <4> QED BY <1>5, <3>2, <4>1, SameCardinality
    <3> QED BY <3>1, <3>3, LeastMember DEF Adaptive!Free
  <2>3. s # Nil
    BY <2>2, NilAssumption
  <2> HIDE DEF s
  <2>4. Moves(t, "transform")
    BY <1>1, <1>5, StepsMove
  <2>5. /\ ProducersHold' = [ProducersHold EXCEPT ![i] = s]
        /\ EntropiesHold' = EntropiesHold /\ holds'[t] = s
        /\ \A u \in Adaptive!Threads \ {t} : holds'[u] = holds[u]
    BY <1>1, <1>5, ProducerHolds
  <2>6. AdaptiveDomains'
    BY <1>1, <1>3, <1>5, <2>4 DEF AdaptiveDomains, Moves
  <2>7. AdaptivePool'
    <3>1. ProducersHold[i] = Nil
      BY <1>1 DEF ProducersHold
    <3> QED BY <1>1, <1>3, <1>5, <2>1, <2>2, <2>5, <3>1, PoolTake DEF AdaptivePool
  <2>8. made'[i] = made[i] + 1 /\ made[i] \in Nat
        /\ \A j \in Both : j # i => made'[j] = made[j]
    BY <1>1, <1>5 DEF AdaptiveDomains
  <2>9. AdaptiveHands'
    <3>1. ProducerHands("transform", holds'[t])
      BY <2>3, <2>5 DEF ProducerHands
    <3> QED BY <1>1, <1>3, <2>4, <2>5, <2>8, <3>1, AdaptiveHandsAfter
  <2>10. AdaptiveEnd'
    BY <1>1, <1>3, <2>4, <2>5, AdaptiveEndAfter
  <2>11. AdaptiveOrder'
    <3>1. \A e \in Both :
             /\ Similar(pc[Adaptive!Entropy(e)], pc'[Adaptive!Entropy(e)])
             /\ holds'[Adaptive!Entropy(e)] = holds[Adaptive!Entropy(e)]
      BY <1>1, <2>4, <2>5, AdaptiveMoves, AdaptiveThreads
    <3>2. Traces' = Traces
      <4>1. \A e \in Both : Encoding(e)' = Encoding(e)
        BY <3>1 DEF Encoding, Similar
      <4> QED BY <1>3, <3>1, <4>1, TracesStay
    <3>3. Published' = Published
      <4> SUFFICES ASSUME NEW j \in Both
                   PROVE  made'[j] - (IF holds'[Adaptive!Producer(j)] # Nil THEN 1 ELSE 0)
                            = made[j] - (IF holds[Adaptive!Producer(j)] # Nil THEN 1 ELSE 0)
        BY DEF Published
      <4>1. CASE j = i
        <5>1. holds'[t] # Nil /\ holds[t] = Nil
          BY <1>1, <2>3, <2>5
        <5>2. made[i] + 1 - 1 = made[i] - 0
          BY <2>8
        <5> QED BY <4>1, <5>1, <5>2, <2>8
      <4>2. CASE j # i
        BY <4>2, <1>1, <2>5, <2>8, AdaptiveThreads
      <4> QED BY <4>1, <4>2
    <3>4. ReadyFrames' = ReadyFrames
      BY <1>3 DEF ReadyFrames
    <3> QED BY <3>2, <3>3, <3>4 DEF AdaptiveInv, AdaptiveOrder
  <2> QED BY <1>1, <1>3, <2>6, <2>7, <2>9, <2>10, <2>11, AdaptiveStepOf
<1> QED BY <1>2, <1>4, <1>5

LEMMA AdaptiveTransform ==
  ASSUME AdaptiveInv, NEW i \in Both, Adaptive!Transform(i)
  PROVE  AdaptiveInv'
<1> USE DEF Adaptive!flagVars, Adaptive!frameVars, Adaptive!adaptiveVars
<1> DEFINE t == Adaptive!Producer(i)
           f == <<i, made[i]>>
<1>1. /\ AdaptiveDomains /\ AdaptivePool /\ AdaptiveHands /\ AdaptiveEnd
      /\ t \in Adaptive!Threads /\ t \in DOMAIN pc /\ pc[t] = "transform"
      /\ holds[t] # Nil
      /\ \A e \in Both : t # Adaptive!Entropy(e)
      /\ \A j \in Both : t = Adaptive!Producer(j) => j = i
  BY AdaptiveActor, AdaptiveThreads DEF Adaptive!Transform, ProducerHands
<1>2. /\ coeff' = [coeff EXCEPT ![holds[t]] = f]
      /\ Adaptive!Goto(t, "publish")
      /\ UNCHANGED <<state, producer, ready, holds, made, encoded, o, main,
                     producer_done, abort>>
  BY DEF Adaptive!Transform
<1>3. Moves(t, "publish")
  BY <1>1, <1>2, StepsMove
<1>4. AdaptiveDomains'
  BY <1>1, <1>2, <1>3 DEF AdaptiveDomains, Moves
<1>5. /\ AdaptivePool'
      /\ coeff'[holds[t]] = f
      /\ \A j \in Both : j # i /\ holds[Adaptive!Producer(j)] # Nil =>
           coeff'[holds[Adaptive!Producer(j)]] = coeff[holds[Adaptive!Producer(j)]]
      /\ \A e \in Both : holds[Adaptive!Entropy(e)] # Nil =>
           coeff'[holds[Adaptive!Entropy(e)]] = coeff[holds[Adaptive!Entropy(e)]]
      /\ \A k \in DOMAIN ready : coeff'[ready[k]] = coeff[ready[k]]
  <2>1. /\ \A j \in Both : ProducersHold[j] = holds[Adaptive!Producer(j)]
        /\ \A e \in Both : EntropiesHold[e] = holds[Adaptive!Entropy(e)]
    BY DEF ProducersHold, EntropiesHold
  <2>2. f \in PoolFrames
    BY <1>1 DEF AdaptiveDomains, PoolFrames
  <2>3. o.slots \in Nat
    BY <1>1, AdaptiveSlots
  <2>4. ProducersHold' = ProducersHold /\ EntropiesHold' = EntropiesHold
    BY <1>2 DEF ProducersHold, EntropiesHold
  <2> HIDE DEF f
  <2> DEFINE hp == ProducersHold
             he == EntropiesHold
             c == [coeff EXCEPT ![hp[i]] = f]
  <2>5. c = coeff'
    BY <1>2, <2>1
  <2>6. /\ Pool(o.slots, state, producer, c, ready, hp, he)
        /\ c[hp[i]] = f
        /\ \A j \in Both : j # i /\ hp[j] # Nil => c[hp[j]] = coeff[hp[j]]
        /\ \A e \in Both : he[e] # Nil => c[he[e]] = coeff[he[e]]
        /\ \A k \in DOMAIN ready : c[ready[k]] = coeff[ready[k]]
    <3>1. hp[i] # Nil /\ Pool(o.slots, state, producer, coeff, ready, hp, he)
      BY <1>1, <2>1 DEF AdaptivePool
    <3> HIDE DEF hp, he
    <3> QED BY <2>2, <2>3, <3>1, PoolTransform
  <2> HIDE DEF c
  <2>7. AdaptivePool'
    BY <1>2, <2>4, <2>5, <2>6 DEF AdaptivePool
  <2> QED BY <2>1, <2>5, <2>6, <2>7
<1>6. AdaptiveHands'
  <2>1. ProducerHands("publish", holds'[t])
    BY <1>1, <1>2 DEF ProducerHands
  <2>2. coeff'[holds'[t]] = <<i, made'[i]>>
    BY <1>2, <1>5
  <2> QED BY <1>1, <1>2, <1>3, <1>5, <2>1, <2>2, AdaptiveHandsAfter
<1>7. AdaptiveEnd'
  BY <1>1, <1>2, <1>3, AdaptiveEndAfter
<1>8. AdaptiveOrder'
  <2>1. \A e \in Both : Similar(pc[Adaptive!Entropy(e)], pc'[Adaptive!Entropy(e)])
    BY <1>1, <1>3, AdaptiveMoves, AdaptiveThreads
  <2>2. \A e \in Both : Encoding(e)' = Encoding(e)
    BY <2>1, <1>2 DEF Encoding, Similar
  <2>3. Traces' = Traces
    BY <1>2, <1>5, <2>2, TracesStay DEF Encoding
  <2>4. ReadyFrames' = ReadyFrames
    BY <1>2, <1>5 DEF ReadyFrames
  <2> QED BY <1>2, <2>3, <2>4 DEF AdaptiveInv, AdaptiveOrder, Published
<1> QED BY <1>1, <1>2, <1>4, <1>5, <1>6, <1>7, <1>8, AdaptiveStepOf

LEMMA AdaptivePublish ==
  ASSUME AdaptiveInv, NEW i \in Both, Adaptive!Publish(i)
  PROVE  AdaptiveInv'
<1> USE DEF Adaptive!flagVars, Adaptive!frameVars, Adaptive!adaptiveVars
<1> DEFINE t == Adaptive!Producer(i)
           s == holds[t]
<1>1. /\ AdaptiveDomains /\ AdaptivePool /\ AdaptiveHands /\ AdaptiveEnd
      /\ t \in Adaptive!Threads /\ t \in DOMAIN pc /\ pc[t] = "publish"
      /\ s # Nil
      /\ \A e \in Both : t # Adaptive!Entropy(e)
      /\ \A j \in Both : t = Adaptive!Producer(j) => j = i
  BY AdaptiveActor, AdaptiveThreads DEF Adaptive!Publish, ProducerHands
<1>2. /\ state' = [state EXCEPT ![s] = "ready"]
      /\ ready' = Append(ready, s)
      /\ holds' = [holds EXCEPT ![t] = Nil]
      /\ Adaptive!GotoNotifying(t, "claim", Adaptive!Threads)
      /\ UNCHANGED <<producer, coeff, made, encoded, o, main, producer_done, abort>>
  BY DEF Adaptive!Publish
<1>3. Moves(t, "claim")
  BY <1>1, <1>2, StepsMove
<1>4. /\ coeff[s] = <<i, made[i]>> /\ made[i] \in Nat
      /\ coeff[s] \in PoolFrames /\ coeff[s][1] = i
  <2>1. coeff[s] = <<i, made[i]>> /\ made[i] \in Nat
    BY <1>1 DEF AdaptiveHands, AdaptiveDomains
  <2> QED BY <2>1 DEF PoolFrames
<1>5. /\ ProducersHold' = [ProducersHold EXCEPT ![i] = Nil]
      /\ EntropiesHold' = EntropiesHold /\ holds'[t] = Nil
      /\ \A u \in Adaptive!Threads \ {t} : holds'[u] = holds[u]
  BY <1>1, <1>2, ProducerHolds
<1>6. AdaptiveDomains'
  BY <1>1, <1>2, <1>3 DEF AdaptiveDomains, Moves
<1>7. ProducersHold[i] = s
  BY DEF ProducersHold
<1>8. o.slots \in Nat
  BY <1>1, AdaptiveSlots
<1>9. AdaptivePool'
  <2> DEFINE hp == ProducersHold
             he == EntropiesHold
  <2>1. /\ hp[i] # Nil /\ coeff[hp[i]] \in PoolFrames /\ coeff[hp[i]][1] = i
        /\ Pool(o.slots, state, producer, coeff, ready, hp, he)
    BY <1>1, <1>4, <1>7 DEF AdaptivePool
  <2>2. Pool(o.slots, [state EXCEPT ![hp[i]] = "ready"], producer, coeff,
             Append(ready, hp[i]), [hp EXCEPT ![i] = Nil], he)
    <3> HIDE DEF hp, he
    <3> QED BY <1>8, <2>1, PoolPublish
  <2> QED BY <1>2, <1>5, <1>7, <2>2 DEF AdaptivePool
<1>10. AdaptiveHands'
  <2>1. ProducerHands("claim", holds'[t])
    BY <1>5 DEF ProducerHands
  <2> QED BY <1>1, <1>2, <1>3, <1>5, <2>1, AdaptiveHandsAfter
<1>11. AdaptiveEnd'
  BY <1>1, <1>2, <1>3, <1>5, AdaptiveEndAfter
<1>12. AdaptiveOrder'
  <2>1. \A e \in Both :
           /\ Similar(pc[Adaptive!Entropy(e)], pc'[Adaptive!Entropy(e)])
           /\ holds'[Adaptive!Entropy(e)] = holds[Adaptive!Entropy(e)]
    BY <1>1, <1>3, <1>5, AdaptiveMoves, AdaptiveThreads
  <2>2. Traces' = Traces
    <3>1. \A e \in Both : Encoding(e)' = Encoding(e)
      BY <2>1 DEF Encoding, Similar
    <3> QED BY <1>2, <2>1, <3>1, TracesStay
  <2>3. Published[i] = made[i] - 1 /\ Published[i] + 1 = made[i]
        /\ Published' = [Published EXCEPT ![i] = @ + 1]
    <3>1. Published[i] = made[i] - 1
      BY <1>1 DEF Published
    <3>2. Published[i] + 1 = made[i]
      BY <1>4, <3>1
    <3>3. ASSUME NEW j \in Both
          PROVE  Published'[j] = [Published EXCEPT ![i] = @ + 1][j]
      <4>1. CASE j = i
        <5>1. Published'[i] = made[i] - 0
          BY <1>2, <1>5 DEF Published
        <5>2. [Published EXCEPT ![i] = @ + 1][i] = Published[i] + 1
          BY DEF Published
        <5> QED BY <4>1, <5>1, <5>2, <3>2, <1>4
      <4>2. CASE j # i
        <5>1. holds'[Adaptive!Producer(j)] = holds[Adaptive!Producer(j)]
          BY <4>2, <1>1, <1>5, AdaptiveThreads
        <5> QED BY <4>2, <5>1, <1>2 DEF Published
      <4> QED BY <4>1, <4>2
    <3> QED BY <3>1, <3>2, <3>3 DEF Published
  <2>4. ReadyFrames' = Append(ReadyFrames, <<i, Published[i] + 1>>)
    <3>1. ready \in Seq(1..o.slots) /\ s \in 1..o.slots
          /\ \A k \in DOMAIN ready : coeff[ready[k]] \in PoolFrames
      <4>1. /\ PoolTypes(o.slots, state, producer, coeff, ready, ProducersHold,
                         EntropiesHold)
            /\ PoolHanded(o.slots, state, producer, ready, ProducersHold, EntropiesHold)
            /\ PoolFilled(o.slots, state, producer, coeff)
        BY <1>1 DEF AdaptivePool, Pool
      <4>2. ready \in Seq(1..o.slots) /\ s \in 1..o.slots
        BY <1>1, <1>7, <4>1 DEF PoolTypes
      <4>3. ASSUME NEW k \in DOMAIN ready PROVE coeff[ready[k]] \in PoolFrames
        <5>1. ready[k] \in 1..o.slots
          BY <4>2, ElementOf
        <5>2. state[ready[k]] = "ready"
          BY <4>1, <5>1 DEF PoolHanded
        <5> QED BY <4>1, <5>1, <5>2 DEF PoolFilled
      <4> QED BY <4>2, <4>3
    <3> DEFINE n == o.slots
    <3> HIDE DEF s, n
    <3>2. /\ Append(ready, s) \in Seq(1..n)
          /\ DOMAIN ready = 1..Len(ready) /\ Len(ready) \in Nat
          /\ DOMAIN Append(ready, s) = 1..(Len(ready) + 1)
          /\ \A k \in DOMAIN ready : Append(ready, s)[k] = ready[k]
          /\ Append(ready, s)[Len(ready) + 1] = s
          /\ \A k \in DOMAIN Append(ready, s) : k \in DOMAIN ready \/ k = Len(ready) + 1
      BY <3>1, AppendFacts DEF n
    <3> DEFINE fr == [k \in DOMAIN ready |-> coeff[ready[k]]]
               fr2 == [k \in DOMAIN Append(ready, s) |-> coeff[Append(ready, s)[k]]]
    <3>3. fr \in Seq(PoolFrames) /\ DOMAIN fr = DOMAIN ready /\ Len(fr) = Len(ready)
      BY <3>1, FramesOf
    <3>4. \A k \in DOMAIN Append(ready, s) : coeff[Append(ready, s)[k]] \in PoolFrames
      BY <3>1, <3>2, <1>4
    <3>5. fr2 \in Seq(PoolFrames) /\ DOMAIN fr2 = DOMAIN Append(ready, s)
      BY <3>2, <3>4, FramesOf
    <3>6. /\ \A k \in DOMAIN ready : fr2[k] = fr[k]
          /\ fr2[Len(ready) + 1] = coeff[s]
      BY <3>2
    <3> HIDE DEF fr, fr2
    <3>7. /\ Append(fr, coeff[s]) \in Seq(PoolFrames)
          /\ DOMAIN Append(fr, coeff[s]) = 1..(Len(fr) + 1)
          /\ \A k \in DOMAIN fr : Append(fr, coeff[s])[k] = fr[k]
          /\ Append(fr, coeff[s])[Len(fr) + 1] = coeff[s]
      BY <3>3, <1>4, AppendFacts
    <3>8. ASSUME NEW k \in DOMAIN fr2 PROVE fr2[k] = Append(fr, coeff[s])[k]
      BY <3>2, <3>3, <3>5, <3>6, <3>7
    <3>9. fr2 = Append(fr, coeff[s])
      BY <3>2, <3>3, <3>5, <3>7, <3>8, SameSequence
    <3> QED BY <1>2, <1>4, <2>3, <3>9 DEF ReadyFrames, fr, fr2
  <2>5. AdaptiveOrder
    BY DEF AdaptiveInv
  <2> QED BY <2>2, <2>3, <2>4, <2>5, OrderPublish DEF AdaptiveOrder
<1> QED BY <1>1, <1>2, <1>6, <1>9, <1>10, <1>11, <1>12, AdaptiveStepOf

LEMMA AdaptiveProducerFinish ==
  ASSUME AdaptiveInv, NEW i \in Both, Adaptive!ProducerFinish(i)
  PROVE  AdaptiveInv'
<1> USE DEF Adaptive!slotVars, Adaptive!frameVars, Adaptive!adaptiveVars
<1> DEFINE t == Adaptive!Producer(i)
<1>1. /\ AdaptiveDomains /\ AdaptivePool /\ AdaptiveHands /\ AdaptiveEnd
      /\ t \in Adaptive!Threads /\ t \in DOMAIN pc /\ pc[t] = "finish"
      /\ holds[t] = Nil
      /\ \A e \in Both : t # Adaptive!Entropy(e)
      /\ \A j \in Both : t = Adaptive!Producer(j) => j = i
  BY AdaptiveActor, AdaptiveThreads DEF Adaptive!ProducerFinish, ProducerHands
<1>2. /\ producer_done' = [producer_done EXCEPT ![i] = TRUE]
      /\ Adaptive!GotoNotifying(t, "done", Adaptive!Threads)
      /\ UNCHANGED <<state, producer, coeff, ready, holds, made, encoded, o, main,
                     abort>>
  BY DEF Adaptive!ProducerFinish
<1>3. Moves(t, "done")
  BY <1>1, <1>2, StepsMove
<1>4. /\ pc'[t] = "done"
      /\ \A j \in Both :
           /\ t # Adaptive!Producer(j) =>
                Similar(pc[Adaptive!Producer(j)], pc'[Adaptive!Producer(j)])
           /\ Similar(pc[Adaptive!Entropy(j)], pc'[Adaptive!Entropy(j)])
  BY <1>1, <1>3, AdaptiveMoves
<1>5. AdaptiveDomains'
  BY <1>1, <1>2, <1>3 DEF AdaptiveDomains, Moves
<1>6. AdaptivePool'
  BY <1>1, <1>2 DEF AdaptivePool, ProducersHold, EntropiesHold
<1>7. AdaptiveHands'
  <2>1. ProducerHands("done", holds'[t])
    BY DEF ProducerHands
  <2> QED BY <1>1, <1>2, <1>3, <2>1, AdaptiveHandsAfter
<1>8. AdaptiveOrder'
  <2>1. \A e \in Both : Encoding(e)' = Encoding(e)
    BY <1>2, <1>4 DEF Similar, Encoding
  <2>2. Traces' = Traces
    BY <1>2, <2>1, TracesStay
  <2> QED BY <1>2, <2>2 DEF AdaptiveInv, AdaptiveOrder, Published, ReadyFrames
<1>9. AdaptiveEnd'
  <2> SUFFICES ASSUME ~abort, NEW j \in Both
               PROVE  /\ pc'[Adaptive!Producer(j)] # "caught"
                      /\ pc'[Adaptive!Entropy(j)] # "caught"
                      /\ producer_done'[j] => pc'[Adaptive!Producer(j)] = "done"
                      /\ pc'[Adaptive!Producer(j)] = "done" =>
                           holds[Adaptive!Producer(j)] = Nil
                      /\ pc'[Adaptive!Entropy(j)] = "done" =>
                           /\ ready = <<>> /\ holds[Adaptive!Entropy(j)] = Nil
                           /\ \A k \in Both : producer_done'[k]
    BY <1>2 DEF AdaptiveEnd
  <2>1. /\ pc[Adaptive!Producer(j)] # "caught" /\ pc[Adaptive!Entropy(j)] # "caught"
        /\ producer_done[j] => pc[Adaptive!Producer(j)] = "done"
        /\ pc[Adaptive!Producer(j)] = "done" => holds[Adaptive!Producer(j)] = Nil
        /\ pc[Adaptive!Entropy(j)] = "done" =>
             /\ ready = <<>> /\ holds[Adaptive!Entropy(j)] = Nil
             /\ \A k \in Both : producer_done[k]
    BY <1>1 DEF AdaptiveEnd
  <2>2. /\ producer_done'[i] = TRUE
        /\ \A k \in Both : k # i => producer_done'[k] = producer_done[k]
    BY <1>1, <1>2 DEF AdaptiveDomains
  <2>3. /\ pc'[Adaptive!Entropy(j)] # "caught"
        /\ pc'[Adaptive!Entropy(j)] = "done" =>
             /\ ready = <<>> /\ holds[Adaptive!Entropy(j)] = Nil
             /\ \A k \in Both : producer_done'[k]
    BY <1>4, <2>1, <2>2 DEF Similar
  <2>4. CASE j = i
    BY <1>1, <1>4, <2>3, <2>4
  <2>5. CASE j # i
    BY <1>1, <1>4, <2>1, <2>2, <2>3, <2>5 DEF Similar
  <2> QED BY <2>4, <2>5
<1> QED BY <1>1, <1>2, <1>5, <1>6, <1>7, <1>8, <1>9, AdaptiveStepOf

\* The slot an entropy thread picks is the oldest of its producer's.
LEMMA Picked ==
  ASSUME AdaptiveDomains, AdaptivePool, NEW e \in Both, ready # <<>>
  PROVE  /\ Adaptive!PickReady(e) \in DOMAIN ready
         /\ \A j \in 1..(Adaptive!PickReady(e) - 1) :
              producer[ready[j]] # producer[ready[Adaptive!PickReady(e)]]
<1> DEFINE q == Adaptive!Preferred(e)
           R == Adaptive!ReadyOf(q)
           n == o.slots
<1>1. n \in 1..6 /\ n \in Nat
  BY AdaptiveSlots
<1>2. ready \in Seq(1..n) /\ Len(ready) <= n
  BY <1>1, PoolQueue DEF AdaptivePool, Pool, PoolTypes
<1> HIDE DEF n
<1>3. DOMAIN ready = 1..Len(ready) /\ Len(ready) \in Nat /\ Len(ready) > 0
  BY <1>2
<1>4. R = {k \in DOMAIN ready : producer[ready[k]] = q}
  BY DEF Adaptive!ReadyOf
<1> HIDE DEF R, q
<1>5. CASE Adaptive!AnySlot(e)
  <2>1. Adaptive!PickReady(e) = 1
    BY <1>5 DEF Adaptive!PickReady
  <2> QED BY <1>3, <2>1
<1>6. CASE ~ Adaptive!AnySlot(e)
  <2> DEFINE k == Adaptive!Min(R)
  <2>1. Adaptive!PickReady(e) = k /\ R # {}
    BY <1>6 DEF Adaptive!PickReady, Adaptive!AnySlot, R, q
  <2>2. R \in SUBSET (1..6)
    <3>1. \A j \in 1..Len(ready) : j \in 1..6
      BY <1>1, <1>2, <1>3
    <3> QED BY <1>3, <1>4, <3>1
  <2>3. k \in R /\ \A j \in R : k <= j
    BY <2>1, <2>2, LeastMember
  <2> HIDE DEF k
  <2>4. ASSUME NEW j \in 1..(k - 1) PROVE producer[ready[j]] # producer[ready[k]]
    <3>1. k \in 1..Len(ready) /\ j \in 1..Len(ready) /\ j < k
      BY <1>3, <1>4, <2>3
    <3>2. j \notin R
      BY <2>3, <3>1
    <3> QED BY <1>3, <1>4, <2>3, <3>1, <3>2
  <2> QED BY <1>4, <2>1, <2>3, <2>4
<1> QED BY <1>5, <1>6

LEMMA AdaptiveEntropyWait ==
  ASSUME AdaptiveInv, NEW e \in Both, Adaptive!EntropyWait(e)
  PROVE  AdaptiveInv'
<1> USE DEF Adaptive!flagVars, Adaptive!frameVars, Adaptive!adaptiveVars
<1> DEFINE t == Adaptive!Entropy(e)
           k == Adaptive!PickReady(e)
           s == ready[k]
<1>1. /\ AdaptiveDomains /\ AdaptivePool /\ AdaptiveHands /\ AdaptiveEnd
      /\ t \in Adaptive!Threads /\ t \in DOMAIN pc /\ pc[t] = "wait"
      /\ holds[t] = Nil
      /\ \A i \in Both : t # Adaptive!Producer(i)
      /\ \A d \in Both : t = Adaptive!Entropy(d) => d = e
  BY AdaptiveActor, AdaptiveThreads DEF Adaptive!EntropyWait, EntropyHands
<1>2. \/ /\ \/ Adaptive!Goto(t, "drowsy")
            \/ /\ abort \/ (ready = <<>> /\ Adaptive!all_done)
               /\ Adaptive!Goto(t, "done")
         /\ UNCHANGED <<state, ready, holds>>
      \/ /\ ready # <<>>
         /\ holds' = [holds EXCEPT ![t] = s]
         /\ state' = [state EXCEPT ![s] = "entropy"]
         /\ ready' = Adaptive!RemoveAt(ready, k)
         /\ Adaptive!Goto(t, "encode")
  BY DEF Adaptive!EntropyWait, Adaptive!Doze
<1>3. UNCHANGED <<producer, coeff, made, encoded, o, main, producer_done, abort>>
  BY DEF Adaptive!EntropyWait
<1>4. CASE /\ \/ Adaptive!Goto(t, "drowsy")
              \/ /\ abort \/ (ready = <<>> /\ Adaptive!all_done)
                 /\ Adaptive!Goto(t, "done")
           /\ UNCHANGED <<state, ready, holds>>
  <2>1. PICK where \in {"drowsy", "done"} :
           /\ Moves(t, where)
           /\ where = "done" => abort \/ (ready = <<>> /\ Adaptive!all_done)
    BY <1>1, <1>4, StepsMove
  <2>2. EntropyHands(where, holds[t])
    BY <1>1 DEF EntropyHands
  <2>3. Adaptive!all_done => \A j \in Both : producer_done[j]
    BY DEF Adaptive!all_done, Both
  <2> QED BY <1>1, <1>3, <1>4, <2>1, <2>2, <2>3, AdaptiveOnlyMoves
<1>5. CASE /\ ready # <<>>
           /\ holds' = [holds EXCEPT ![t] = s]
           /\ state' = [state EXCEPT ![s] = "entropy"]
           /\ ready' = Adaptive!RemoveAt(ready, k)
           /\ Adaptive!Goto(t, "encode")
  <2> DEFINE n == o.slots
             hp == ProducersHold
             he == EntropiesHold
             fr == ReadyFrames
  <2>1. n \in Nat
    BY <1>1, AdaptiveSlots
  <2>2. /\ k \in DOMAIN ready
        /\ \A j \in 1..(k - 1) : producer[ready[j]] # producer[s]
    BY <1>1, <1>5, Picked
  <2> HIDE DEF k
  <2>3. /\ PoolTypes(n, state, producer, coeff, ready, hp, he)
        /\ PoolHanded(n, state, producer, ready, hp, he)
        /\ PoolFilled(n, state, producer, coeff)
    BY <1>1 DEF AdaptivePool, Pool
  <2>4. ready \in Seq(1..n)
    BY <2>3 DEF PoolTypes
  <2>5. \A j \in DOMAIN ready : /\ ready[j] \in 1..n
                                /\ coeff[ready[j]] \in PoolFrames
                                /\ coeff[ready[j]][1] = producer[ready[j]]
    <3> SUFFICES ASSUME NEW j \in DOMAIN ready
                 PROVE  /\ ready[j] \in 1..n
                        /\ coeff[ready[j]] \in PoolFrames
                        /\ coeff[ready[j]][1] = producer[ready[j]]
      OBVIOUS
    <3>1. ready[j] \in 1..n
      BY <2>4, ElementOf
    <3>2. state[ready[j]] = "ready"
      BY <2>3, <3>1 DEF PoolHanded
    <3> QED BY <2>3, <3>1, <3>2 DEF PoolFilled
  <2>6. s \in 1..n /\ s # Nil
    BY <2>2, <2>5, NilAssumption
  <2>7. Moves(t, "encode")
    BY <1>1, <1>5, StepsMove
  <2> HIDE DEF n, s
  <2>8. /\ he' = [he EXCEPT ![e] = s] /\ hp' = hp /\ holds'[t] = s
        /\ \A u \in Adaptive!Threads \ {t} : holds'[u] = holds[u]
    BY <1>1, <1>5, EntropyHolds
  <2>9. AdaptiveDomains'
    BY <1>1, <1>3, <1>5, <2>7 DEF AdaptiveDomains, Moves
  <2>10. AdaptivePool'
    <3>1. he[e] = Nil /\ Pool(n, state, producer, coeff, ready, hp, he)
      BY <1>1 DEF AdaptivePool, EntropiesHold, n
    <3>2. Pool(n, [state EXCEPT ![s] = "entropy"], producer, coeff,
               Adaptive!RemoveAt(ready, k), hp, [he EXCEPT ![e] = s])
      <4> HIDE DEF hp, he
      <4> QED BY <2>1, <2>2, <3>1, PoolTakeReady DEF s
    <3> QED BY <1>3, <1>5, <2>8, <3>2 DEF AdaptivePool, n
  <2>11. AdaptiveHands'
    <3>1. EntropyHands("encode", holds'[t])
      BY <2>6, <2>8 DEF EntropyHands
    <3> QED BY <1>1, <1>3, <2>7, <2>8, <3>1, AdaptiveHandsAfter
  <2>12. AdaptiveEnd'
    BY <1>1, <1>3, <1>5, <2>7, <2>8, AdaptiveEndAfter
  <2>13. AdaptiveOrder'
    <3>1. Published' = Published
      BY <1>1, <1>3, <2>8, AdaptiveThreads DEF Published
    <3>2. /\ pc'[t] = "encode" /\ holds'[t] = s
          /\ \A d \in Both : d # e =>
               /\ Similar(pc[Adaptive!Entropy(d)], pc'[Adaptive!Entropy(d)])
               /\ holds'[Adaptive!Entropy(d)] = holds[Adaptive!Entropy(d)]
      BY <1>1, <2>7, <2>8, AdaptiveMoves, AdaptiveThreads
    <3>3. Traces' = [Traces EXCEPT ![e] = Append(@, coeff[s])]
      <4>1. Traces[e] = encoded[e]
        BY <1>1 DEF Traces, Encoding
      <4>2. Encoding(e)'
        BY <2>6, <3>2 DEF Encoding
      <4>3. Traces'[e] = Append(encoded[e], coeff[s])
        BY <1>3, <3>2, <4>2 DEF Traces
      <4>4. ASSUME NEW d \in Both, d # e PROVE Traces'[d] = Traces[d]
        <5>1. Encoding(d)' = Encoding(d)
          BY <3>2, <4>4 DEF Encoding, Similar
        <5> QED BY <1>3, <3>2, <4>4, <5>1 DEF Traces
      <4>5. DOMAIN Traces = Both /\ DOMAIN Traces' = Both
        BY DEF Traces
      <4> QED BY <4>1, <4>3, <4>4 DEF Traces
    <3>4. /\ DOMAIN fr = DOMAIN ready /\ fr \in Seq(PoolFrames)
          /\ \A j \in DOMAIN ready : fr[j] = coeff[ready[j]]
          /\ Len(fr) = Len(ready)
      BY <2>4, <2>5, FramesOf DEF ReadyFrames
    <3>5. /\ k \in DOMAIN fr /\ fr[k] = coeff[s]
          /\ \A j \in 1..(k - 1) : fr[j][1] # fr[k][1]
      <4>1. k \in DOMAIN fr /\ fr[k] = coeff[s]
        BY <2>2, <3>4 DEF s
      <4>2. ASSUME NEW j \in 1..(k - 1) PROVE fr[j][1] # fr[k][1]
        <5>1. j \in DOMAIN ready
          BY <2>2, <2>4
        <5> QED BY <2>2, <2>5, <3>4, <4>1, <5>1 DEF s
      <4> QED BY <4>1, <4>2
    <3>6. ReadyFrames' = Adaptive!RemoveAt(fr, k)
      <4> DEFINE rd == Adaptive!RemoveAt(ready, k)
                 rf == Adaptive!RemoveAt(fr, k)
                 fd == [j \in DOMAIN rd |-> coeff[rd[j]]]
      <4>1. /\ rd \in Seq(1..n) /\ DOMAIN rd = 1..(Len(ready) - 1)
            /\ Len(ready) \in Nat /\ Len(ready) > 0
            /\ \A j \in 1..(Len(ready) - 1) :
                 rd[j] = IF j < k THEN ready[j] ELSE ready[j + 1]
        BY <2>2, <2>4, RemoveAtFacts
      <4>2. /\ rf \in Seq(PoolFrames) /\ DOMAIN rf = 1..(Len(ready) - 1)
            /\ \A j \in 1..(Len(ready) - 1) :
                 rf[j] = IF j < k THEN fr[j] ELSE fr[j + 1]
        BY <3>4, <3>5, RemoveAtFacts
      <4>3. DOMAIN ready = 1..Len(ready)
        BY <2>4
      <4> HIDE DEF rd, rf, fr
      <4>4. ASSUME NEW j \in DOMAIN rd
            PROVE  coeff[rd[j]] = rf[j] /\ coeff[rd[j]] \in PoolFrames
        <5>1. CASE j < k
          <6>1. j \in DOMAIN ready
            BY <4>1, <4>3
          <6>2. rd[j] = ready[j] /\ rf[j] = fr[j]
            BY <5>1, <4>1, <4>2
          <6> QED BY <6>1, <6>2, <3>4, <2>5
        <5>2. CASE ~(j < k)
          <6>1. j + 1 \in DOMAIN ready
            BY <4>1, <4>3
          <6> QED BY <5>2, <6>1, <4>1, <4>2, <3>4, <2>5
        <5> QED BY <5>1, <5>2
      <4>5. fd \in Seq(PoolFrames) /\ DOMAIN fd = DOMAIN rd
        BY <4>1, <4>4, FramesOf
      <4>6. fd = rf
        <5>1. \A j \in DOMAIN fd : fd[j] = rf[j]
          BY <4>4
        <5> HIDE DEF fd
        <5> QED BY <4>1, <4>2, <4>5, <5>1, SameSequence
      <4> QED BY <1>3, <1>5, <4>6 DEF ReadyFrames, rd, rf
    <3>7. Order(Published, fr, Traces)
      BY DEF AdaptiveInv, AdaptiveOrder
    <3> HIDE DEF fr
    <3>8. Order(Published, Adaptive!RemoveAt(fr, k),
                [Traces EXCEPT ![e] = Append(@, fr[k])])
      BY <3>5, <3>7, OrderTake
    <3> QED BY <3>1, <3>3, <3>5, <3>6, <3>8 DEF AdaptiveOrder
  <2> QED BY <1>1, <1>3, <2>9, <2>10, <2>11, <2>12, <2>13, AdaptiveStepOf
<1> QED BY <1>2, <1>4, <1>5

\* What an entropy thread encodes was taken on, and nobody has encoded it.
LEMMA AdaptiveEncode ==
  ASSUME AdaptiveInv, NEW e \in Both, Adaptive!Encode(e)
  PROVE  /\ AdaptiveInv'
         /\ \E f \in PoolFrames :
              /\ encoded' = [encoded EXCEPT ![e] = Append(@, f)]
              /\ f[2] \in 1..made[f[1]]
              /\ \A d \in Both : \A j \in DOMAIN encoded[d] : encoded[d][j] # f
<1> USE DEF Adaptive!flagVars, Adaptive!slotVars, Adaptive!adaptiveVars
<1> DEFINE t == Adaptive!Entropy(e)
           f == coeff[holds[t]]
<1>1. /\ AdaptiveDomains /\ AdaptivePool /\ AdaptiveHands /\ AdaptiveEnd
      /\ t \in Adaptive!Threads /\ t \in DOMAIN pc /\ pc[t] = "encode"
      /\ holds[t] # Nil
      /\ \A i \in Both : t # Adaptive!Producer(i)
      /\ \A d \in Both : t = Adaptive!Entropy(d) => d = e
  BY AdaptiveActor, AdaptiveThreads DEF Adaptive!Encode, EntropyHands
<1>2. /\ encoded' = [encoded EXCEPT ![e] = Append(@, f)]
      /\ Adaptive!Goto(t, "release")
      /\ UNCHANGED <<state, producer, coeff, ready, holds, made, o, main,
                     producer_done, abort>>
  BY DEF Adaptive!Encode
<1>3. Moves(t, "release")
  BY <1>1, <1>2, StepsMove
<1>4. f \in PoolFrames
  <2>1. /\ PoolTypes(o.slots, state, producer, coeff, ready, ProducersHold,
                     EntropiesHold)
        /\ PoolHanded(o.slots, state, producer, ready, ProducersHold, EntropiesHold)
        /\ PoolFilled(o.slots, state, producer, coeff)
        /\ EntropiesHold[e] = holds[t]
    BY <1>1 DEF AdaptivePool, Pool, EntropiesHold
  <2>2. holds[t] \in 1..o.slots
    BY <1>1, <2>1 DEF PoolTypes
  <2>3. state[holds[t]] = "entropy"
    BY <1>1, <2>1 DEF PoolHanded
  <2> QED BY <2>1, <2>2, <2>3 DEF PoolFilled
<1> HIDE DEF f
<1>5. AdaptiveDomains'
  <2>1. \A d \in Both : encoded[d] \in Seq(PoolFrames)
    BY <1>1 DEF AdaptiveDomains
  <2>2. Append(encoded[e], f) \in Seq(PoolFrames)
    BY <1>4, <2>1
  <2>3. encoded' \in [Both -> Seq(PoolFrames)]
    BY <1>1, <1>2, <2>2 DEF AdaptiveDomains
  <2> QED BY <1>1, <1>2, <1>3, <2>3 DEF AdaptiveDomains, Moves
<1>6. AdaptivePool'
  BY <1>1, <1>2 DEF AdaptivePool, ProducersHold, EntropiesHold
<1>7. AdaptiveHands'
  <2>1. EntropyHands("release", holds'[t])
    BY <1>1, <1>2 DEF EntropyHands
  <2> QED BY <1>1, <1>2, <1>3, <2>1, AdaptiveHandsAfter
<1>8. AdaptiveEnd'
  BY <1>1, <1>2, <1>3, AdaptiveEndAfter
<1>9. /\ encoded'[e] = Append(encoded[e], f)
      /\ \A d \in Both : d # e => encoded'[d] = encoded[d]
  BY <1>1, <1>2 DEF AdaptiveDomains
<1>10. Traces[e] = Append(encoded[e], f)
  BY <1>1 DEF Traces, Encoding, f
<1>11. AdaptiveOrder'
  <2>1. /\ pc'[t] = "release"
        /\ \A d \in Both : d # e =>
             Similar(pc[Adaptive!Entropy(d)], pc'[Adaptive!Entropy(d)])
    BY <1>1, <1>3, AdaptiveMoves, AdaptiveThreads
  <2>2. ASSUME NEW d \in Both PROVE Traces'[d] = Traces[d]
    <3>1. CASE d = e
      <4>1. ~ Encoding(e)'
        BY <2>1 DEF Encoding
      <4> QED BY <3>1, <4>1, <1>9, <1>10 DEF Traces
    <3>2. CASE d # e
      <4>1. Encoding(d)' = Encoding(d)
        BY <2>1, <1>2, <3>2 DEF Encoding, Similar
      <4> QED BY <3>2, <4>1, <1>2, <1>9 DEF Traces
    <3> QED BY <3>1, <3>2
  <2>3. Traces' = Traces
    BY <2>2 DEF Traces
  <2> QED BY <1>2, <2>3 DEF AdaptiveInv, AdaptiveOrder, Published, ReadyFrames
<1>12. AdaptiveInv'
  BY <1>1, <1>2, <1>5, <1>6, <1>7, <1>8, <1>11, AdaptiveStepOf
<1>13. /\ Len(encoded[e]) \in Nat
       /\ Len(encoded[e]) + 1 \in DOMAIN Traces[e]
       /\ Traces[e][Len(encoded[e]) + 1] = f
       /\ \A j \in DOMAIN encoded[e] : /\ j \in DOMAIN Traces[e]
                                       /\ Traces[e][j] = encoded[e][j]
                                       /\ j < Len(encoded[e]) + 1
  <2>1. encoded[e] \in Seq(PoolFrames)
    BY <1>1 DEF AdaptiveDomains
  <2> QED BY <1>4, <1>10, <2>1, AppendFacts
<1>14. f[2] \in 1..made[f[1]]
  <2>1. f[2] \in 1..Published[f[1]]
    BY <1>13 DEF AdaptiveInv, AdaptiveOrder, Order, InBounds
  <2>2. f[1] \in Both /\ f[2] \in Nat
    BY <1>4 DEF PoolFrames
  <2> DEFINE m == made[f[1]]
             u == IF holds[Adaptive!Producer(f[1])] # Nil THEN 1 ELSE 0
  <2>3. m \in Nat /\ u \in Nat /\ Published[f[1]] = m - u
    BY <1>1, <2>2 DEF AdaptiveDomains, Published
  <2> HIDE DEF m, u
  <2>4. f[2] \in 1..m
    BY <2>1, <2>2, <2>3
  <2> QED BY <2>4 DEF m
<1>15. ASSUME NEW d \in Both, NEW j \in DOMAIN encoded[d]
       PROVE  encoded[d][j] # f
  <2>1. /\ \A b, c \in Both : b # c =>
             \A k \in DOMAIN Traces[b] : \A l \in DOMAIN Traces[c] :
               Traces[b][k] # Traces[c][l]
        /\ Ascending(Traces[e])
    BY DEF AdaptiveInv, AdaptiveOrder, Order, TakenOnce
  <2>2. f[2] \in Nat
    BY <1>4 DEF PoolFrames
  <2>3. CASE d = e
    <3>1. encoded[e][j][1] = f[1] => encoded[e][j][2] < f[2]
      BY <2>1, <2>3, <1>13 DEF Ascending
    <3> QED BY <2>2, <2>3, <3>1
  <2>4. CASE d # e
    <3>1. j \in DOMAIN Traces[d] /\ Traces[d][j] = encoded[d][j]
      <4>1. encoded[d] \in Seq(PoolFrames)
        BY <1>1 DEF AdaptiveDomains
      <4>2. CASE Encoding(d)
        <5> DEFINE g == coeff[holds[Adaptive!Entropy(d)]]
        <5>1. Traces[d] = Append(encoded[d], g)
          BY <4>2 DEF Traces
        <5> HIDE DEF g
        <5> QED BY <4>1, <5>1
      <4>3. CASE ~ Encoding(d)
        BY <4>3 DEF Traces
      <4> QED BY <4>2, <4>3
    <3> QED BY <2>1, <2>4, <3>1, <1>13
  <2> QED BY <2>3, <2>4
<1> QED BY <1>2, <1>4, <1>12, <1>14, <1>15

LEMMA AdaptiveRelease ==
  ASSUME AdaptiveInv, NEW e \in Both, Adaptive!Release(e)
  PROVE  AdaptiveInv'
<1> USE DEF Adaptive!flagVars, Adaptive!frameVars
<1> DEFINE t == Adaptive!Entropy(e)
           s == holds[t]
           hp == ProducersHold
           he == EntropiesHold
<1>1. /\ AdaptiveDomains /\ AdaptivePool /\ AdaptiveHands /\ AdaptiveEnd
      /\ t \in Adaptive!Threads /\ t \in DOMAIN pc /\ pc[t] = "release"
      /\ s # Nil
      /\ \A i \in Both : t # Adaptive!Producer(i)
      /\ \A d \in Both : t = Adaptive!Entropy(d) => d = e
  BY AdaptiveActor, AdaptiveThreads DEF Adaptive!Release, EntropyHands
<1>2. /\ state' = [state EXCEPT ![s] = "free"]
      /\ producer' = [producer EXCEPT ![s] = Nil]
      /\ coeff' = [coeff EXCEPT ![s] = Nil]
      /\ holds' = [holds EXCEPT ![t] = Nil]
      /\ Adaptive!GotoNotifying(t, "wait", Adaptive!Threads)
      /\ UNCHANGED <<ready, made, encoded, o, main, producer_done, abort>>
  BY DEF Adaptive!Release
<1>3. Moves(t, "wait")
  BY <1>1, <1>2, StepsMove
<1>4. /\ he' = [he EXCEPT ![e] = Nil] /\ hp' = hp /\ holds'[t] = Nil
      /\ \A u \in Adaptive!Threads \ {t} : holds'[u] = holds[u]
  BY <1>1, <1>2, EntropyHolds
<1>5. AdaptiveDomains'
  BY <1>1, <1>2, <1>3 DEF AdaptiveDomains, Moves
<1>6. /\ \A j \in Both : hp[j] = holds[Adaptive!Producer(j)]
      /\ \A d \in Both : he[d] = holds[Adaptive!Entropy(d)]
      /\ he[e] = s
  BY DEF ProducersHold, EntropiesHold
<1>7. /\ AdaptivePool'
      /\ \A j \in Both : hp[j] # Nil => coeff'[hp[j]] = coeff[hp[j]]
      /\ \A d \in Both : d # e /\ he[d] # Nil => coeff'[he[d]] = coeff[he[d]]
      /\ \A k \in DOMAIN ready : coeff'[ready[k]] = coeff[ready[k]]
  <2> DEFINE c == [coeff EXCEPT ![he[e]] = Nil]
             n == o.slots
  <2>1. he[e] # Nil /\ Pool(n, state, producer, coeff, ready, hp, he) /\ n \in Nat
    BY <1>1, <1>6, AdaptiveSlots DEF AdaptivePool
  <2>2. /\ Pool(n, [state EXCEPT ![he[e]] = "free"], [producer EXCEPT ![he[e]] = Nil],
                c, ready, hp, [he EXCEPT ![e] = Nil])
        /\ \A j \in Both : hp[j] # Nil => c[hp[j]] = coeff[hp[j]]
        /\ \A d \in Both : d # e /\ he[d] # Nil => c[he[d]] = coeff[he[d]]
        /\ \A k \in DOMAIN ready : c[ready[k]] = coeff[ready[k]]
    <3> HIDE DEF hp, he, n
    <3> QED BY <2>1, PoolRelease
  <2>3. c = coeff'
    BY <1>2, <1>6
  <2> HIDE DEF c
  <2>4. AdaptivePool'
    BY <1>2, <1>4, <1>6, <2>2, <2>3 DEF AdaptivePool
  <2> QED BY <2>2, <2>3, <2>4
<1>8. AdaptiveHands'
  <2>1. EntropyHands("wait", holds'[t])
    BY <1>4 DEF EntropyHands
  <2> QED BY <1>1, <1>2, <1>3, <1>4, <1>6, <1>7, <2>1, AdaptiveHandsAfter
<1>9. AdaptiveEnd'
  BY <1>1, <1>2, <1>3, <1>4, AdaptiveEndAfter
<1>10. AdaptiveOrder'
  <2>1. /\ pc'[t] = "wait" /\ holds'[t] = Nil
        /\ \A d \in Both : d # e =>
             /\ Similar(pc[Adaptive!Entropy(d)], pc'[Adaptive!Entropy(d)])
             /\ holds'[Adaptive!Entropy(d)] = holds[Adaptive!Entropy(d)]
    BY <1>1, <1>3, <1>4, AdaptiveMoves, AdaptiveThreads
  <2>2. \A d \in Both : Encoding(d)' = Encoding(d)
    <3>1. ~ Encoding(e) /\ ~ Encoding(e)'
      BY <1>1, <2>1 DEF Encoding
    <3> QED BY <2>1, <3>1 DEF Encoding, Similar
  <2>3. Traces' = Traces
    <3>1. \A d \in Both : Encoding(d) =>
             coeff'[holds'[Adaptive!Entropy(d)]] = coeff[holds[Adaptive!Entropy(d)]]
      BY <1>1, <1>6, <1>7, <2>1 DEF Encoding
    <3> QED BY <1>2, <2>2, <3>1, TracesStay
  <2>4. Published' = Published
    <3>1. \A j \in Both : holds'[Adaptive!Producer(j)] = holds[Adaptive!Producer(j)]
      BY <1>1, <1>4, AdaptiveThreads
    <3> QED BY <1>2, <3>1 DEF Published
  <2>5. ReadyFrames' = ReadyFrames
    BY <1>2, <1>7 DEF ReadyFrames
  <2> QED BY <2>3, <2>4, <2>5 DEF AdaptiveInv, AdaptiveOrder
<1> QED BY <1>1, <1>2, <1>5, <1>8, <1>7, <1>9, <1>10, AdaptiveStepOf

LEMMA AdaptiveJoin ==
  ASSUME AdaptiveInv, Adaptive!Join, UNCHANGED producer
  PROVE  AdaptiveInv'
<1> USE DEF Adaptive!frameVars, Adaptive!slotVars
<1>1. /\ UNCHANGED <<pc, state, producer, coeff, ready, holds, made, encoded, o,
                     producer_done, abort>>
      /\ main' = IF abort THEN "failed" ELSE "returned"
      /\ \A t \in DOMAIN pc : pc[t] = "done"
  BY DEF Adaptive!Join
<1>2. MainInv'
  BY <1>1 DEF AdaptiveInv, MainInv
<1>3. AdaptiveDomains' /\ AdaptivePool' /\ AdaptiveHands' /\ AdaptiveEnd'
  BY <1>1 DEF AdaptiveInv, AdaptiveDomains, AdaptivePool, AdaptiveHands, AdaptiveEnd,
              ProducersHold, EntropiesHold
<1>4. AdaptiveOrder'
  BY <1>1 DEF AdaptiveInv, AdaptiveOrder, Published, ReadyFrames, Traces, Encoding
<1> QED BY <1>2, <1>3, <1>4 DEF AdaptiveInv

LEMMA AdaptiveNext == ASSUME AdaptiveInv, Adaptive!Next PROVE AdaptiveInv'
<1> USE DEF Adaptive!adaptiveVars
<1>1. ASSUME NEW i \in Both, Adaptive!ProducerStep(i)
      PROVE  AdaptiveInv'
  <2>1. \/ /\ \/ Adaptive!Start(Adaptive!Producer(i), "claim")
              \/ Adaptive!ClaimWork(Adaptive!Producer(i), "wait", "finish")
              \/ \E t \in {Adaptive!Producer(i), Adaptive!Entropy(i)} :
                   Adaptive!Sleep(t) \/ Adaptive!Caught(t)
           /\ UNCHANGED producer
        \/ Adaptive!ProducerWait(i) \/ Adaptive!Transform(i) \/ Adaptive!Publish(i)
        \/ Adaptive!ProducerFinish(i)
    BY <1>1 DEF Adaptive!ProducerStep, Adaptive!Caught
  <2> QED BY <2>1, AdaptiveMoveSteps, AdaptiveProducerWait, AdaptiveTransform,
             AdaptivePublish, AdaptiveProducerFinish
<1>2. ASSUME NEW e \in Both, Adaptive!EntropyStep(e)
      PROVE  AdaptiveInv'
  <2>1. \/ /\ \/ Adaptive!Start(Adaptive!Entropy(e), "wait")
              \/ \E t \in {Adaptive!Producer(e), Adaptive!Entropy(e)} :
                   Adaptive!Sleep(t) \/ Adaptive!Caught(t)
           /\ UNCHANGED producer
        \/ Adaptive!EntropyWait(e) \/ Adaptive!Encode(e) \/ Adaptive!Release(e)
    BY <1>2 DEF Adaptive!EntropyStep, Adaptive!Caught
  <2> QED BY <2>1, AdaptiveMoveSteps, AdaptiveEntropyWait, AdaptiveEncode,
             AdaptiveRelease
<1>3. ASSUME NEW t \in Adaptive!Threads,
             Adaptive!Throw(t) \/ (Adaptive!Wake(t) /\ UNCHANGED producer)
      PROVE  AdaptiveInv'
  <2>1. PICK i \in Both : t \in {Adaptive!Producer(i), Adaptive!Entropy(i)}
    BY AdaptiveThreads
  <2>2. UNCHANGED producer
    BY <1>3 DEF Adaptive!Throw
  <2> QED BY <1>3, <2>1, <2>2, AdaptiveMoveSteps
<1> QED BY <1>1, <1>2, <1>3, AdaptiveJoin DEF Adaptive!Next, Both

\* What the invariant says of a reachable state.
LEMMA AdaptiveOutcome ==
  ASSUME AdaptiveInv
  PROVE  Adaptive!SlotsHandedOver /\ Adaptive!InOrder
<1> DEFINE n == o.slots
<1>1. /\ PoolTypes(n, state, producer, coeff, ready, ProducersHold, EntropiesHold)
      /\ PoolHanded(n, state, producer, ready, ProducersHold, EntropiesHold)
      /\ PoolFilled(n, state, producer, coeff)
      /\ AdaptiveDomains
  BY DEF AdaptiveInv, AdaptivePool, Pool
<1>2. /\ \A j \in Both : /\ ProducersHold[j] = holds[Adaptive!Producer(j)]
                         /\ EntropiesHold[j] = holds[Adaptive!Entropy(j)]
      /\ n \in Nat
  BY <1>1, AdaptiveSlots DEF ProducersHold, EntropiesHold
<1>3. ASSUME NEW i \in 1..n
      PROVE  LET holders == {t \in Adaptive!Threads : holds[t] = i} IN
             /\ state[i] = "producer" <=>
                  \E p \in Both : holders = {Adaptive!Producer(p)} /\ producer[i] = p
             /\ state[i] = "entropy" <=> \E e \in Both : holders = {Adaptive!Entropy(e)}
             /\ state[i] \in {"free", "ready"} <=> holders = {}
             /\ Adaptive!Cardinality({k \in DOMAIN ready : ready[k] = i})
                  = IF state[i] = "ready" THEN 1 ELSE 0
             /\ state[i] \in {"ready", "entropy"} => coeff[i][1] = producer[i]
  <2> DEFINE holders == {t \in Adaptive!Threads : holds[t] = i}
  <2>1. /\ i # Nil /\ state[i] \in SlotStates
        /\ \A p \in Both : holds[Adaptive!Producer(p)] = i =>
             state[i] = "producer" /\ producer[i] = p
        /\ \A e \in Both : holds[Adaptive!Entropy(e)] = i => state[i] = "entropy"
        /\ \A d, e \in Both : holds[Adaptive!Entropy(d)] = i
             /\ holds[Adaptive!Entropy(e)] = i => d = e
        /\ state[i] = "producer" => \E p \in Both : holds[Adaptive!Producer(p)] = i
        /\ state[i] = "entropy" => \E e \in Both : holds[Adaptive!Entropy(e)] = i
        /\ state[i] = "ready" <=> \E k \in DOMAIN ready : ready[k] = i
    <3>1. i # Nil
      BY <1>2, NilAssumption
    <3>2. state[i] \in SlotStates
      BY <1>1 DEF PoolTypes
    <3> QED BY <3>1, <3>2, <1>1, <1>2 DEF PoolHanded
  <2>2. Adaptive!Cardinality({k \in DOMAIN ready : ready[k] = i})
          = IF state[i] = "ready" THEN 1 ELSE 0
    <3>1. ready \in Seq(1..n) /\ \A j, k \in DOMAIN ready : ready[j] = ready[k] => j = k
      BY <1>1 DEF PoolTypes, PoolHanded
    <3>2. Cardinality({k \in DOMAIN ready : ready[k] = i})
            = IF \E k \in DOMAIN ready : ready[k] = i THEN 1 ELSE 0
      BY <3>1, QueuedOnce
    <3> QED BY <2>1, <3>2, SameCardinality
  <2>3. state[i] \in {"ready", "entropy"} => coeff[i][1] = producer[i]
    BY <1>1 DEF PoolFilled
  <2>4. CASE state[i] = "producer"
    <3>1. PICK p \in Both : holds[Adaptive!Producer(p)] = i
      BY <2>1, <2>4
    <3>2. producer[i] = p /\ holders = {Adaptive!Producer(p)}
      BY <2>1, <2>4, <3>1, AdaptiveThreads
    <3>3. \A e \in Both : holders # {Adaptive!Entropy(e)}
      BY <3>2, AdaptiveThreads
    <3> QED BY <2>2, <2>3, <2>4, <3>2, <3>3
  <2>5. CASE state[i] = "entropy"
    <3>1. PICK e \in Both : holds[Adaptive!Entropy(e)] = i
      BY <2>1, <2>5
    <3>2. holders = {Adaptive!Entropy(e)}
      BY <2>1, <2>5, <3>1, AdaptiveThreads
    <3>3. \A p \in Both : holders # {Adaptive!Producer(p)}
      BY <3>2, AdaptiveThreads
    <3> QED BY <2>2, <2>3, <2>5, <3>2, <3>3
  <2>6. CASE state[i] \in {"free", "ready"}
    <3>1. holders = {}
      BY <2>1, <2>6, AdaptiveThreads
    <3> QED BY <2>2, <2>3, <2>6, <3>1
  <2> QED BY <2>1, <2>4, <2>5, <2>6 DEF SlotStates
<1>4. Adaptive!SlotsHandedOver
  BY <1>3 DEF Adaptive!SlotsHandedOver, Both
<1>5. ASSUME NEW e \in Both, NEW j \in DOMAIN encoded[e], NEW k \in DOMAIN encoded[e],
             j < k, encoded[e][j][1] = encoded[e][k][1]
      PROVE  encoded[e][j][2] < encoded[e][k][2]
  <2>1. Ascending(Traces[e])
    BY DEF AdaptiveInv, AdaptiveOrder, Order
  <2>2. \A l \in DOMAIN encoded[e] : l \in DOMAIN Traces[e] /\ Traces[e][l] = encoded[e][l]
    <3>1. encoded[e] \in Seq(PoolFrames)
      BY <1>1 DEF AdaptiveDomains
    <3>2. CASE Encoding(e)
      <4> DEFINE g == coeff[holds[Adaptive!Entropy(e)]]
      <4>1. Traces[e] = Append(encoded[e], g)
        BY <3>2 DEF Traces
      <4> HIDE DEF g
      <4> QED BY <3>1, <4>1
    <3>3. CASE ~ Encoding(e)
      BY <3>3 DEF Traces
    <3> QED BY <3>2, <3>3
  <2> QED BY <1>5, <2>1, <2>2 DEF Ascending
<1>6. Adaptive!InOrder
  BY <1>5 DEF Adaptive!InOrder, Both
<1> QED BY <1>4, <1>6

-----------------------------------------------------------------------------
(* Whichever strategy is selected.                                         *)

StageInv ==
    \/ Selected("dual") /\ DualInv
    \/ Selected("adaptive") /\ AdaptiveInv
    \/ Selected("handoff") /\ HandoffInv

LEMMA StageInitially == Init => StageInv
  BY DualInitially, AdaptiveInitially, HandoffInitially
  DEF Init, StageInv, Selected, DualInv, AdaptiveInv, HandoffInv, DualDomains,
      AdaptiveDomains, HandoffDomains

LEMMA StageStays == StageInv /\ UNCHANGED vars => StageInv'
<1> SUFFICES ASSUME StageInv, UNCHANGED vars PROVE StageInv'
  OBVIOUS
<1>1. UNCHANGED <<o, claimed, pc, mu, state, coeff, ready, producer_done, holds, made,
                  encoded, abort, main, producer>>
  BY DEF vars, stageVars, slotVars, frameVars, flagVars, ownVars
<1>2. CASE Selected("dual") /\ DualInv
  <2>1. DualDomains' /\ MainInv'
    BY <1>1, <1>2 DEF DualInv, DualDomains, MainInv
  <2>2. \A q \in Dual!Pairs : DualOf(q)'
    BY <1>1, <1>2, BystanderKeeps DEF DualInv, Bystander, Similar
  <2> QED BY <1>1, <1>2, <2>1, <2>2 DEF StageInv, Selected, DualInv
<1>3. CASE Selected("adaptive") /\ AdaptiveInv
  <2>1. AdaptiveDomains' /\ AdaptivePool' /\ AdaptiveHands' /\ AdaptiveEnd' /\ MainInv'
    BY <1>1, <1>3 DEF AdaptiveInv, AdaptiveDomains, AdaptivePool, AdaptiveHands,
       AdaptiveEnd, ProducersHold, EntropiesHold, MainInv
  <2>2. AdaptiveOrder'
    BY <1>1, <1>3 DEF AdaptiveInv, AdaptiveOrder, Published, ReadyFrames, Traces, Encoding
  <2> QED BY <1>1, <1>3, <2>1, <2>2 DEF StageInv, Selected, AdaptiveInv
<1>4. CASE Selected("handoff") /\ HandoffInv
  <2>1. HandoffDomains' /\ HandoffOf' /\ MainInv'
    BY <1>1, <1>4, HandoffNames DEF HandoffInv, HandoffDomains, HandoffOf, HandoffPair,
       HandoffHands, HandoffEnd, MainInv
  <2>2. \A t \in Handoff!Normals : NormalOf(t)'
    BY <1>1, <1>4 DEF HandoffInv, NormalOf
  <2>3. Handoff!Normals' = Handoff!Normals
    BY <1>1, HandoffNames
  <2> QED BY <1>1, <1>4, <2>1, <2>2, <2>3 DEF StageInv, Selected, HandoffInv
<1> QED BY <1>2, <1>3, <1>4 DEF StageInv

LEMMA StageStep == StageInv /\ [Next]_vars => StageInv'
<1> SUFFICES ASSUME StageInv, [Next]_vars PROVE StageInv'
  OBVIOUS
<1>1. CASE UNCHANGED vars
  BY <1>1, StageStays
<1>2. CASE Selected("dual") /\ Dual!Next
  <2>1. DualInv
    BY <1>2 DEF StageInv, Selected
  <2>2. DualInv'
    BY <1>2, <2>1, DualNext
  <2> QED BY <2>2 DEF StageInv, Selected, DualInv, DualDomains
<1>3. CASE Selected("adaptive") /\ Adaptive!Next
  <2>1. AdaptiveInv
    BY <1>3 DEF StageInv, Selected
  <2>2. AdaptiveInv'
    BY <1>3, <2>1, AdaptiveNext
  <2> QED BY <2>2 DEF StageInv, Selected, AdaptiveInv, AdaptiveDomains
<1>4. CASE Selected("handoff") /\ Handoff!Next
  <2>1. HandoffInv
    BY <1>4 DEF StageInv, Selected
  <2>2. HandoffInv'
    BY <1>4, <2>1, HandoffNext
  <2> QED BY <2>2 DEF StageInv, Selected, HandoffInv, HandoffDomains
<1> QED BY <1>1, <1>2, <1>3, <1>4 DEF Next

LEMMA StageInvariant == Spec => []StageInv
  BY StageInitially, StageStep, PTL DEF Spec

\* Whatever the strategy and whichever stages throw, a slot of coefficients is
\* in one thread's hands, the ones its state names, or once in the ready queue.
THEOREM SlotsAreHandedOver == Spec => []SlotsHandedOver
<1>1. StageInv => SlotsHandedOver
  BY DualOutcome, AdaptiveOutcome, HandoffOutcome
  DEF StageInv, Selected, SlotsHandedOver
<1> QED BY <1>1, StageInvariant, PTL

\* An entropy thread encodes the frames of a producer in the order in which
\* they were made, slot reuse, queue policy and stealing included.
THEOREM EncodedInOrder == Spec => []InOrder
<1>1. StageInv => InOrder
  BY DualOutcome, AdaptiveOutcome, HandoffOutcome DEF StageInv, Selected, InOrder
<1> QED BY <1>1, StageInvariant, PTL

-----------------------------------------------------------------------------
(* Each strategy delivers every frame once: what its steps look like to    *)
(* the caller.                                                             *)

\* The encodings that Encodings counts.
EncodingSet == UNION {{<<t, k>> : k \in DOMAIN encoded[t]} : t \in DOMAIN encoded}

DeliveryStep == [Delivery!Next]_(Delivery!frameVars)

\* Whether frames are still taken on after a step of t.
LEMMA StillClaimingAfter ==
  ASSUME NEW t \in DOMAIN pc, NEW where, Moves(t, where), pc[t] # "done"
  PROVE  /\ where # "done" => StillClaiming' = StillClaiming
         /\ t[1] = "entropy" => StillClaiming' = StillClaiming
         /\ t[1] # "entropy" => StillClaiming
<1>1. /\ DOMAIN pc' = DOMAIN pc /\ pc'[t] = where
      /\ \A u \in DOMAIN pc \ {t} : pc'[u] = "done" <=> pc[u] = "done"
  BY DEF Moves, Similar
<1>2. ASSUME where # "done" PROVE StillClaiming' = StillClaiming
  <2>1. \A u \in DOMAIN pc : pc'[u] = "done" <=> pc[u] = "done"
    BY <1>1, <1>2
  <2> QED BY <1>1, <2>1 DEF StillClaiming
<1>3. ASSUME t[1] = "entropy" PROVE StillClaiming' = StillClaiming
  BY <1>1, <1>3 DEF StillClaiming
<1>4. t[1] # "entropy" => StillClaiming
  BY DEF StillClaiming
<1> QED BY <1>2, <1>3, <1>4

\* A thread moves on, ends or fails.
LEMMA MoveDelivers ==
  ASSUME MainInv, NEW t \in DOMAIN pc, NEW where, Moves(t, where), pc[t] # "done",
         UNCHANGED <<made, encoded, main>>,
         \/ abort' = abort
         \/ abort' = TRUE /\ where # "done"
  PROVE  DeliveryStep
<1>1. Taken' = Taken /\ Finished' = Finished /\ Encodings' = Encodings
  BY DEF Taken, Finished, Encodings
<1>2. /\ where # "done" => StillClaiming' = StillClaiming
      /\ t[1] = "entropy" => StillClaiming' = StillClaiming
      /\ t[1] # "entropy" => StillClaiming
      /\ StillClaiming \in BOOLEAN /\ StillClaiming' \in BOOLEAN
  BY StillClaimingAfter DEF StillClaiming
<1>3. main = "running" /\ abort \in BOOLEAN
  BY DEF MainInv
<1>4. CASE abort' = abort
  <2>1. CASE StillClaiming' = StillClaiming
    BY <1>1, <1>4, <2>1 DEF DeliveryStep, Delivery!frameVars
  <2>2. CASE StillClaiming' # StillClaiming
    <3>1. StillClaiming = TRUE /\ StillClaiming' = FALSE
      BY <1>2, <2>2
    <3>2. Delivery!Stop
      BY <1>1, <1>4, <3>1 DEF Delivery!Stop
    <3> QED BY <3>2 DEF DeliveryStep, Delivery!Next
  <2> QED BY <2>1, <2>2
<1>5. CASE abort' = TRUE /\ abort = FALSE /\ where # "done"
  <2>1. Delivery!Fail
    BY <1>1, <1>2, <1>3, <1>5 DEF Delivery!Fail
  <2> QED BY <2>1 DEF DeliveryStep, Delivery!Next
<1> QED BY <1>3, <1>4, <1>5

\* A thread takes on its next frame.
LEMMA TakeDelivers ==
  ASSUME NEW t \in DOMAIN pc, NEW where, Moves(t, where), pc[t] # "done",
         where # "done", t[1] # "entropy", UNCHANGED <<encoded, main, abort>>,
         NEW m \in DOMAIN made, made[m] \in Nat, made' = [made EXCEPT ![m] = @ + 1]
  PROVE  DeliveryStep
<1> DEFINE f == <<m, made[m] + 1>>
<1>1. Finished' = Finished /\ Encodings' = Encodings
  BY DEF Finished, Encodings
<1>2. StillClaiming /\ StillClaiming' = StillClaiming
  BY StillClaimingAfter
<1>3. /\ DOMAIN made' = DOMAIN made /\ made'[m] = made[m] + 1
      /\ \A u \in DOMAIN made : u # m => made'[u] = made[u]
  OBVIOUS
<1>4. 1..(made[m] + 1) = (1..made[m]) \cup {made[m] + 1}
  OBVIOUS
<1>5. made[m] + 1 \notin 1..made[m]
  OBVIOUS
<1>6. ASSUME NEW g PROVE g \in Taken' <=> g \in Taken \/ g = f
  <2>1. g \in Taken' <=> \E u \in DOMAIN made : \E n \in 1..made'[u] : g = <<u, n>>
    BY <1>3 DEF Taken
  <2>2. g \in Taken <=> \E u \in DOMAIN made : \E n \in 1..made[u] : g = <<u, n>>
    BY DEF Taken
  <2>3. ASSUME g \in Taken PROVE g \in Taken'
    <3>1. PICK u \in DOMAIN made : \E n \in 1..made[u] : g = <<u, n>>
      BY <2>2, <2>3
    <3>2. PICK n \in 1..made[u] : g = <<u, n>>
      BY <3>1
    <3>3. n \in 1..made'[u]
      BY <1>3, <1>4, <3>2
    <3> QED BY <2>1, <3>2, <3>3
  <2>4. f \in Taken'
    <3>1. made[m] + 1 \in 1..made'[m]
      BY <1>3
    <3> QED BY <1>3, <3>1 DEF Taken
  <2>5. ASSUME g \in Taken' PROVE g \in Taken \/ g = f
    <3>1. PICK u \in DOMAIN made : \E n \in 1..made'[u] : g = <<u, n>>
      BY <2>1, <2>5
    <3>2. PICK n \in 1..made'[u] : g = <<u, n>>
      BY <3>1
    <3>3. n \in 1..made[u] \/ (u = m /\ n = made[m] + 1)
      BY <1>3, <1>4, <3>2
    <3> QED BY <2>2, <3>2, <3>3
  <2> QED BY <2>3, <2>4, <2>5
<1>7. f \notin Taken
  <2>1. f \in Taken => \E u \in DOMAIN made : \E n \in 1..made[u] : f = <<u, n>>
    BY DEF Taken
  <2> QED BY <2>1, <1>5
<1>8. Taken \subseteq Taken' /\ Taken' \ Taken = {f}
  BY <1>6, <1>7
<1>9. Delivery!Cardinality(Taken' \ Taken) = 1
  BY <1>8, SameCardinality, FS_Singleton
<1>10. Delivery!Take
  BY <1>1, <1>2, <1>8, <1>9 DEF Delivery!Take
<1> QED BY <1>10 DEF DeliveryStep, Delivery!Next

\* One more encoding.
LEMMA EncodingSetAfter ==
  ASSUME NEW e \in DOMAIN encoded, NEW S, encoded[e] \in Seq(S), NEW f \in S,
         encoded' = [encoded EXCEPT ![e] = Append(@, f)], IsFiniteSet(EncodingSet)
  PROVE  /\ Finished' = Finished \cup {f}
         /\ IsFiniteSet(EncodingSet') /\ Encodings' = Encodings + 1
<1> DEFINE q == encoded[e]
           x == <<e, Len(q) + 1>>
<1>1. /\ DOMAIN encoded' = DOMAIN encoded /\ encoded'[e] = Append(q, f)
      /\ \A u \in DOMAIN encoded : u # e => encoded'[u] = encoded[u]
  OBVIOUS
<1>2. /\ DOMAIN q = 1..Len(q) /\ Len(q) \in Nat
      /\ DOMAIN Append(q, f) = (DOMAIN q) \cup {Len(q) + 1}
      /\ Len(q) + 1 \notin DOMAIN q
      /\ \A j \in DOMAIN q : Append(q, f)[j] = q[j]
      /\ Append(q, f)[Len(q) + 1] = f
  <2>1. /\ DOMAIN q = 1..Len(q) /\ Len(q) \in Nat
        /\ DOMAIN Append(q, f) = 1..(Len(q) + 1)
        /\ \A j \in DOMAIN q : Append(q, f)[j] = q[j]
        /\ Append(q, f)[Len(q) + 1] = f
    BY AppendFacts
  <2> QED BY <2>1
<1> HIDE DEF q
<1>3. ASSUME NEW g PROVE g \in Finished' <=> g \in Finished \/ g = f
  <2>1. g \in Finished' <=>
          \E u \in DOMAIN encoded : \E j \in DOMAIN encoded'[u] : g = encoded'[u][j]
    BY <1>1 DEF Finished
  <2>2. g \in Finished <=>
          \E u \in DOMAIN encoded : \E j \in DOMAIN encoded[u] : g = encoded[u][j]
    BY DEF Finished
  <2>3. ASSUME g \in Finished PROVE g \in Finished'
    <3>1. PICK u \in DOMAIN encoded : \E j \in DOMAIN encoded[u] : g = encoded[u][j]
      BY <2>2, <2>3
    <3>2. PICK j \in DOMAIN encoded[u] : g = encoded[u][j]
      BY <3>1
    <3>3. j \in DOMAIN encoded'[u] /\ g = encoded'[u][j]
      BY <1>1, <1>2, <3>2 DEF q
    <3> QED BY <2>1, <3>3
  <2>4. f \in Finished'
    <3>1. Len(q) + 1 \in DOMAIN encoded'[e] /\ encoded'[e][Len(q) + 1] = f
      BY <1>1, <1>2
    <3> QED BY <1>1, <3>1 DEF Finished
  <2>5. ASSUME g \in Finished' PROVE g \in Finished \/ g = f
    <3>1. PICK u \in DOMAIN encoded : \E j \in DOMAIN encoded'[u] : g = encoded'[u][j]
      BY <2>1, <2>5
    <3>2. PICK j \in DOMAIN encoded'[u] : g = encoded'[u][j]
      BY <3>1
    <3>3. (j \in DOMAIN encoded[u] /\ g = encoded[u][j]) \/ g = f
      BY <1>1, <1>2, <3>2 DEF q
    <3> QED BY <2>2, <3>3
  <2> QED BY <2>3, <2>4, <2>5
<1>4. ASSUME NEW g PROVE g \in EncodingSet' <=> g \in EncodingSet \/ g = x
  <2>1. g \in EncodingSet' <=>
          \E u \in DOMAIN encoded : \E j \in DOMAIN encoded'[u] : g = <<u, j>>
    BY <1>1 DEF EncodingSet
  <2>2. g \in EncodingSet <=>
          \E u \in DOMAIN encoded : \E j \in DOMAIN encoded[u] : g = <<u, j>>
    BY DEF EncodingSet
  <2>3. \A u \in DOMAIN encoded : \A j : j \in DOMAIN encoded'[u] <=>
          j \in DOMAIN encoded[u] \/ (u = e /\ j = Len(q) + 1)
    BY <1>1, <1>2 DEF q
  <2> QED BY <2>1, <2>2, <2>3
<1>5. x \notin EncodingSet
  <2>1. x \in EncodingSet =>
          \E u \in DOMAIN encoded : \E j \in DOMAIN encoded[u] : x = <<u, j>>
    BY DEF EncodingSet
  <2> QED BY <1>2, <2>1 DEF q
<1> HIDE DEF x
<1>6. EncodingSet' = EncodingSet \cup {x}
  BY <1>4
<1>7. /\ IsFiniteSet(EncodingSet \cup {x})
      /\ Cardinality(EncodingSet \cup {x}) = Cardinality(EncodingSet) + 1
  BY <1>5, FS_AddElement
<1>8. Encodings = Cardinality(EncodingSet) /\ Encodings' = Cardinality(EncodingSet')
  BY DEF Encodings, EncodingSet
<1> QED BY <1>3, <1>6, <1>7, <1>8

\* A thread encodes a frame that was taken on and not encoded before.
LEMMA EncodeDelivers ==
  ASSUME MainInv, NEW t \in DOMAIN pc, NEW where, Moves(t, where), pc[t] # "done",
         where # "done", UNCHANGED <<made, main, abort>>,
         NEW e \in DOMAIN encoded, NEW S, encoded[e] \in Seq(S), NEW f \in S,
         encoded' = [encoded EXCEPT ![e] = Append(@, f)],
         f \in Taken, f \notin Finished, IsFiniteSet(EncodingSet)
  PROVE  DeliveryStep /\ IsFiniteSet(EncodingSet')
<1>1. /\ Finished' = Finished \cup {f}
      /\ IsFiniteSet(EncodingSet') /\ Encodings' = Encodings + 1
  BY EncodingSetAfter
<1>2. Taken' = Taken
  BY DEF Taken
<1>3. StillClaiming' = StillClaiming
  BY StillClaimingAfter
<1>4. (IF abort THEN "failed" ELSE main) # "returned"
  BY DEF MainInv
<1>5. Delivery!Finish
  BY <1>1, <1>2, <1>3, <1>4 DEF Delivery!Finish
<1> QED BY <1>1, <1>5 DEF DeliveryStep, Delivery!Next

\* The threads are joined: after a pass without a failure every frame that
\* was taken on has been encoded.
LEMMA JoinDelivers ==
  ASSUME MainInv, main = "running", \A t \in DOMAIN pc : pc[t] = "done",
         main' = IF abort THEN "failed" ELSE "returned",
         UNCHANGED <<pc, made, encoded, abort>>, ~abort => Finished = Taken
  PROVE  DeliveryStep
<1>1. /\ Taken' = Taken /\ Finished' = Finished /\ Encodings' = Encodings
      /\ StillClaiming' = StillClaiming /\ ~ StillClaiming
  BY DEF Taken, Finished, Encodings, StillClaiming
<1>2. CASE abort
  BY <1>1, <1>2 DEF DeliveryStep, Delivery!frameVars
<1>3. CASE ~ abort
  <2>1. Delivery!Return
    BY <1>1, <1>3 DEF Delivery!Return
  <2> QED BY <2>1 DEF DeliveryStep, Delivery!Next
<1> QED BY <1>2, <1>3

LEMMA EncodingSetStays ==
  ASSUME encoded' = encoded, IsFiniteSet(EncodingSet) PROVE IsFiniteSet(EncodingSet')
  BY DEF EncodingSet

\* A step in which t moves, and the frames stay where they are.
OnlyAdvances(t) == \E where :
    /\ Moves(t, where) /\ pc[t] # "done"
    /\ UNCHANGED <<made, encoded, main>>
    /\ \/ abort' = abort
       \/ abort' = TRUE /\ where # "done"

LEMMA AdvanceDelivers ==
  ASSUME MainInv, NEW t \in DOMAIN pc, OnlyAdvances(t), IsFiniteSet(EncodingSet)
  PROVE  DeliveryStep /\ IsFiniteSet(EncodingSet')
<1>1. PICK where : /\ Moves(t, where) /\ pc[t] # "done"
                   /\ UNCHANGED <<made, encoded, main>>
                   /\ \/ abort' = abort
                      \/ abort' = TRUE /\ where # "done"
  BY DEF OnlyAdvances
<1>2. DeliveryStep
  BY <1>1, MoveDelivers
<1>3. IsFiniteSet(EncodingSet')
  BY <1>1, EncodingSetStays
<1> QED BY <1>2, <1>3

LEMMA DualProducerAdvances ==
  ASSUME DualInv, NEW p \in Dual!Pairs, NEW t, t = Dual!Producer(p),
         \/ Dual!Start(t, "claim") \/ Dual!ClaimWork(t, "wait", "finish")
         \/ Dual!Transform(p) \/ Dual!Publish(p)
         \/ Dual!ProducerFinish(p) \/ Dual!ProducerCaught(p)
         \/ Dual!TellAll(t) \/ Dual!Sleep(t) \/ Dual!Wake(t) \/ Dual!Throw(t)
  PROVE  OnlyAdvances(t)
<1> USE DEF Dual!slotVars, Dual!frameVars, Dual!flagVars
<1>1. t \in DOMAIN pc
  BY DualActor DEF Dual!PairThreads
<1>2. CASE Dual!Start(t, "claim")
  <2>1. Moves(t, "claim") /\ pc[t] = "start"
    BY <1>1, <1>2, StepsMove DEF Dual!Start
  <2> QED BY <1>2, <2>1 DEF Dual!Start, OnlyAdvances
<1>3. CASE Dual!ClaimWork(t, "wait", "finish")
  <2>1. PICK where : Moves(t, where)
    BY <1>1, <1>3, StepsMove DEF Dual!ClaimWork
  <2>2. pc[t] = "claim" /\ UNCHANGED <<made, encoded, main, abort>>
    BY <1>3 DEF Dual!ClaimWork
  <2> QED BY <2>1, <2>2 DEF OnlyAdvances
<1>4. CASE Dual!Transform(p)
  <2>1. Moves(t, "publish") /\ pc[t] = "transform"
    BY <1>1, <1>4, StepsMove DEF Dual!Transform
  <2> QED BY <1>4, <2>1 DEF Dual!Transform, OnlyAdvances
<1>5. CASE Dual!Publish(p)
  <2>1. Moves(t, "claim") /\ pc[t] = "publish"
    BY <1>1, <1>5, StepsMove DEF Dual!Publish
  <2> QED BY <1>5, <2>1 DEF Dual!Publish, OnlyAdvances
<1>6. CASE Dual!ProducerFinish(p)
  <2>1. Moves(t, "done") /\ pc[t] = "finish"
    BY <1>1, <1>6, StepsMove DEF Dual!ProducerFinish
  <2> QED BY <1>6, <2>1 DEF Dual!ProducerFinish, OnlyAdvances
<1>7. CASE Dual!ProducerCaught(p)
  <2>1. Moves(t, "tellAll") /\ pc[t] = "caught"
    BY <1>1, <1>7, StepsMove DEF Dual!ProducerCaught
  <2> QED BY <1>7, <2>1 DEF Dual!ProducerCaught, OnlyAdvances
<1>8. CASE Dual!TellAll(t)
  <2>1. Moves(t, "done") /\ pc[t] = "tellAll"
    BY <1>1, <1>8, StepsMove DEF Dual!TellAll
  <2> QED BY <1>8, <2>1 DEF Dual!TellAll, OnlyAdvances
<1>9. CASE Dual!Sleep(t)
  <2>1. Moves(t, "asleep") /\ pc[t] = "drowsy"
    BY <1>1, <1>9, StepsMove DEF Dual!Sleep
  <2> QED BY <1>9, <2>1 DEF Dual!Sleep, OnlyAdvances
<1>10. CASE Dual!Wake(t)
  <2>1. Moves(t, "wait") /\ pc[t] = "asleep"
    BY <1>1, <1>10, StepsMove DEF Dual!Wake
  <2> QED BY <1>10, <2>1 DEF Dual!Wake, OnlyAdvances
<1>11. CASE Dual!Throw(t)
  <2>1. PICK where \in {"caught", "tellAll"} : Moves(t, where)
    BY <1>1, <1>11, StepsMove DEF Dual!Throw
  <2> QED BY <1>11, <2>1 DEF Dual!Throw, OnlyAdvances
<1> QED BY <1>2, <1>3, <1>4, <1>5, <1>6, <1>7, <1>8, <1>9, <1>10, <1>11

LEMMA DualEntropyAdvances ==
  ASSUME DualInv, NEW p \in Dual!Pairs, NEW t, t = Dual!Entropy(p),
         \/ Dual!Start(t, "wait") \/ Dual!EntropyWait(p) \/ Dual!Release(p)
         \/ Dual!TellAll(t) \/ Dual!Sleep(t) \/ Dual!Wake(t) \/ Dual!Throw(t)
  PROVE  OnlyAdvances(t)
<1> USE DEF Dual!slotVars, Dual!frameVars, Dual!flagVars
<1>1. t \in DOMAIN pc
  BY DualActor DEF Dual!PairThreads
<1>2. CASE Dual!Start(t, "wait")
  <2>1. Moves(t, "wait") /\ pc[t] = "start"
    BY <1>1, <1>2, StepsMove DEF Dual!Start
  <2> QED BY <1>2, <2>1 DEF Dual!Start, OnlyAdvances
<1>3. CASE Dual!EntropyWait(p)
  <2>1. PICK where : Moves(t, where)
    BY <1>1, <1>3, StepsMove DEF Dual!EntropyWait, Dual!TakeReady, Dual!Doze
  <2>2. pc[t] = "wait" /\ UNCHANGED <<made, encoded, main, abort>>
    BY <1>3 DEF Dual!EntropyWait, Dual!TakeReady
  <2> QED BY <2>1, <2>2 DEF OnlyAdvances
<1>4. CASE Dual!Release(p)
  <2>1. Moves(t, "wait") /\ pc[t] = "release"
    BY <1>1, <1>4, StepsMove DEF Dual!Release
  <2> QED BY <1>4, <2>1 DEF Dual!Release, OnlyAdvances
<1>5. CASE Dual!TellAll(t)
  <2>1. Moves(t, "done") /\ pc[t] = "tellAll"
    BY <1>1, <1>5, StepsMove DEF Dual!TellAll
  <2> QED BY <1>5, <2>1 DEF Dual!TellAll, OnlyAdvances
<1>6. CASE Dual!Sleep(t)
  <2>1. Moves(t, "asleep") /\ pc[t] = "drowsy"
    BY <1>1, <1>6, StepsMove DEF Dual!Sleep
  <2> QED BY <1>6, <2>1 DEF Dual!Sleep, OnlyAdvances
<1>7. CASE Dual!Wake(t)
  <2>1. Moves(t, "wait") /\ pc[t] = "asleep"
    BY <1>1, <1>7, StepsMove DEF Dual!Wake
  <2> QED BY <1>7, <2>1 DEF Dual!Wake, OnlyAdvances
<1>8. CASE Dual!Throw(t)
  <2>1. PICK where \in {"caught", "tellAll"} : Moves(t, where)
    BY <1>1, <1>8, StepsMove DEF Dual!Throw
  <2> QED BY <1>8, <2>1 DEF Dual!Throw, OnlyAdvances
<1> QED BY <1>2, <1>3, <1>4, <1>5, <1>6, <1>7, <1>8

\* What a pair says of its frames.
LEMMA DualFrames ==
  ASSUME DualInv, NEW p \in Dual!Pairs
  PROVE  /\ made[p] \in Nat /\ encoded[p] \in Seq({p} \X Nat)
         /\ \A k \in DOMAIN encoded[p] : encoded[p][k] = <<p, k>>
         /\ ready[p] = <<>> /\ holds[Dual!Producer(p)] = Nil
              /\ holds[Dual!Entropy(p)] = Nil => made[p] = Len(encoded[p])
<1>1. PairTypes(o.slots, p, state[p], coeff[p], ready[p], holds[Dual!Producer(p)],
                holds[Dual!Entropy(p)], made[p], encoded[p])
  BY DEF DualInv, DualOf, DualPair, Pair
<1>2. \A k \in DOMAIN encoded[p] : encoded[p][k] = <<p, k>>
  BY DEF DualInv, DualOf, DualPair, Pair, Consecutive
<1>3. made[p] = Len(encoded[p])
                  + (IF holds[Dual!Entropy(p)] # Nil /\ ~(pc[Dual!Entropy(p)] = "release")
                     THEN 1 ELSE 0)
                  + Len(ready[p]) + (IF holds[Dual!Producer(p)] # Nil THEN 1 ELSE 0)
  BY DEF DualInv, DualOf, DualPair, Pair, Consecutive, InHand
<1>4. ASSUME ready[p] = <<>>, holds[Dual!Producer(p)] = Nil,
             holds[Dual!Entropy(p)] = Nil
      PROVE  made[p] = Len(encoded[p])
  <2>1. Len(encoded[p]) \in Nat
    BY <1>1 DEF PairTypes
  <2>2. Len(ready[p]) = 0
    BY <1>4
  <2> QED BY <1>3, <1>4, <2>1, <2>2
<1> QED BY <1>1, <1>2, <1>4 DEF PairTypes

LEMMA DualDelivers ==
  ASSUME DualInv, Dual!Next, IsFiniteSet(EncodingSet)
  PROVE  DeliveryStep /\ IsFiniteSet(EncodingSet')
<1>1. MainInv /\ DualDomains
  BY DEF DualInv
<1>2. ASSUME NEW p \in Dual!Pairs
      PROVE  /\ Dual!Producer(p) \in DOMAIN pc /\ Dual!Entropy(p) \in DOMAIN pc
             /\ Dual!Producer(p)[1] = "producer" /\ Dual!Entropy(p)[1] = "entropy"
  BY <1>1, DualThreads DEF DualDomains, Dual!Producer, Dual!Entropy
<1>3. ASSUME NEW p \in Dual!Pairs, Dual!ProducerWait(p)
      PROVE  DeliveryStep /\ IsFiniteSet(EncodingSet')
  <2> DEFINE t == Dual!Producer(p)
  <2>1. /\ pc[t] = "wait" /\ UNCHANGED <<encoded, main, abort>>
        /\ \/ made' = made /\ (Dual!Goto(t, "finish") \/ Dual!Goto(t, "drowsy"))
           \/ made' = [made EXCEPT ![p] = @ + 1] /\ Dual!Goto(t, "transform")
    BY <1>3 DEF Dual!ProducerWait, Dual!Doze, Dual!flagVars
  <2>2. t \in DOMAIN pc /\ t[1] # "entropy"
    BY <1>2
  <2> HIDE DEF t
  <2>3. CASE made' = made /\ (Dual!Goto(t, "finish") \/ Dual!Goto(t, "drowsy"))
    <3>1. PICK where : Moves(t, where)
      BY <2>2, <2>3, StepsMove
    <3>2. OnlyAdvances(t)
      BY <2>1, <2>3, <3>1 DEF OnlyAdvances
    <3> QED BY <1>1, <2>2, <3>2, AdvanceDelivers
  <2>4. CASE made' = [made EXCEPT ![p] = @ + 1] /\ Dual!Goto(t, "transform")
    <3>1. Moves(t, "transform")
      BY <2>2, <2>4, StepsMove
    <3>2. p \in DOMAIN made /\ made[p] \in Nat
      BY <1>1, DualFrames DEF DualDomains
    <3>3. DeliveryStep
      BY <2>1, <2>2, <2>4, <3>1, <3>2, TakeDelivers
    <3> QED BY <2>1, <3>3, EncodingSetStays
  <2> QED BY <2>1, <2>3, <2>4
<1>4. ASSUME NEW p \in Dual!Pairs, Dual!Encode(p)
      PROVE  DeliveryStep /\ IsFiniteSet(EncodingSet')
  <2> DEFINE t == Dual!Entropy(p)
             n == Len(encoded[p]) + 1
             f == <<p, n>>
  <2>1. /\ pc[t] = "encode" /\ Dual!Goto(t, "release")
        /\ UNCHANGED <<made, main, abort>>
    BY <1>4 DEF Dual!Encode, Dual!flagVars
  <2>2. /\ encoded' = [encoded EXCEPT ![p] = Append(@, f)]
        /\ n <= made[p]
    BY <1>4, DualEncode
  <2>3. /\ made[p] \in Nat /\ encoded[p] \in Seq({p} \X Nat)
        /\ p \in DOMAIN made /\ p \in DOMAIN encoded
    BY <1>1, DualFrames DEF DualDomains
  <2>4. n \in 1..made[p] /\ n \in Nat /\ n \notin DOMAIN encoded[p]
    BY <2>2, <2>3
  <2> HIDE DEF n
  <2>5. f \in Taken
    BY <2>3, <2>4 DEF Taken
  <2>6. f \notin Finished
    <3>1. ASSUME NEW q \in Dual!Pairs, NEW k \in DOMAIN encoded[q]
          PROVE  encoded[q][k] # f
      <4>1. encoded[q][k] = <<q, k>>
        BY DualFrames
      <4> QED BY <2>4, <4>1
    <3> QED BY <1>1, <3>1 DEF Finished, DualDomains
  <2>7. t \in DOMAIN pc
    BY <1>2
  <2>8. Moves(t, "release")
    BY <2>1, <2>7, StepsMove
  <2>9. f \in {p} \X Nat
    BY <2>4
  <2> HIDE DEF f, t
  <2> QED BY <1>1, <2>1, <2>2, <2>3, <2>5, <2>6, <2>7, <2>8, <2>9, EncodeDelivers
<1>5. ASSUME NEW t \in DOMAIN pc, OnlyAdvances(t)
      PROVE  DeliveryStep /\ IsFiniteSet(EncodingSet')
  BY <1>1, <1>5, AdvanceDelivers
<1>6. ASSUME NEW p \in Dual!Pairs, Dual!ProducerStep(p)
      PROVE  DeliveryStep /\ IsFiniteSet(EncodingSet')
  BY <1>2, <1>3, <1>5, <1>6, DualProducerAdvances DEF Dual!ProducerStep
<1>7. ASSUME NEW p \in Dual!Pairs, Dual!EntropyStep(p)
      PROVE  DeliveryStep /\ IsFiniteSet(EncodingSet')
  BY <1>2, <1>4, <1>5, <1>7, DualEntropyAdvances DEF Dual!EntropyStep
<1>8. ASSUME NEW t \in Dual!Threads, Dual!Throw(t) \/ Dual!Wake(t)
      PROVE  DeliveryStep /\ IsFiniteSet(EncodingSet')
  <2>1. PICK p \in Dual!Pairs : t = Dual!Producer(p) \/ t = Dual!Entropy(p)
    BY DualThreads
  <2> QED BY <1>2, <1>5, <1>8, <2>1, DualProducerAdvances, DualEntropyAdvances
<1>9. ASSUME Dual!Join PROVE DeliveryStep /\ IsFiniteSet(EncodingSet')
  <2>1. /\ main = "running" /\ \A t \in DOMAIN pc : pc[t] = "done"
        /\ main' = IF abort THEN "failed" ELSE "returned"
        /\ UNCHANGED <<pc, made, encoded, abort>>
    BY <1>9 DEF Dual!Join, Dual!frameVars
  <2>2. ASSUME ~abort PROVE Finished = Taken
    <3>1. ASSUME NEW p \in Dual!Pairs
          PROVE  /\ DOMAIN encoded[p] = 1..made[p]
                 /\ \A k \in DOMAIN encoded[p] : encoded[p][k] = <<p, k>>
      <4>1. DualEnd(p)
        BY DEF DualInv, DualOf
      <4>2. /\ ready[p] = <<>> /\ holds[Dual!Producer(p)] = Nil
            /\ holds[Dual!Entropy(p)] = Nil
        BY <1>2, <2>1, <2>2, <4>1 DEF DualEnd
      <4>3. made[p] = Len(encoded[p]) /\ encoded[p] \in Seq({p} \X Nat)
            /\ \A k \in DOMAIN encoded[p] : encoded[p][k] = <<p, k>>
        BY <4>2, DualFrames
      <4> QED BY <4>3
    <3>2. /\ DOMAIN made = Dual!Pairs /\ DOMAIN encoded = Dual!Pairs
          /\ \A u \in Dual!Pairs : {encoded[u][k] : k \in DOMAIN encoded[u]}
                                     = {<<u, k>> : k \in 1..made[u]}
      BY <1>1, <3>1 DEF DualDomains
    <3> QED BY <3>2 DEF Finished, Taken
  <2>3. DeliveryStep
    BY <1>1, <2>1, <2>2, JoinDelivers
  <2> QED BY <2>1, <2>3, EncodingSetStays
<1> QED BY <1>6, <1>7, <1>8, <1>9 DEF Dual!Next

LEMMA AdaptiveProducerAdvances ==
  ASSUME AdaptiveInv, NEW i \in Both, NEW t, t = Adaptive!Producer(i),
         \/ Adaptive!Start(t, "claim") \/ Adaptive!ClaimWork(t, "wait", "finish")
         \/ Adaptive!Transform(i) \/ Adaptive!Publish(i)
         \/ Adaptive!ProducerFinish(i) \/ Adaptive!Caught(t)
         \/ Adaptive!Sleep(t) \/ Adaptive!Wake(t) \/ Adaptive!Throw(t)
  PROVE  OnlyAdvances(t)
<1> USE DEF Adaptive!slotVars, Adaptive!frameVars, Adaptive!flagVars
<1>1. t \in DOMAIN pc
  BY AdaptiveActor
<1>2. CASE Adaptive!Start(t, "claim")
  <2>1. Moves(t, "claim") /\ pc[t] = "start"
    BY <1>1, <1>2, StepsMove DEF Adaptive!Start
  <2> QED BY <1>2, <2>1 DEF Adaptive!Start, OnlyAdvances
<1>3. CASE Adaptive!ClaimWork(t, "wait", "finish")
  <2>1. PICK where : Moves(t, where)
    BY <1>1, <1>3, StepsMove DEF Adaptive!ClaimWork
  <2>2. pc[t] = "claim" /\ UNCHANGED <<made, encoded, main, abort>>
    BY <1>3 DEF Adaptive!ClaimWork
  <2> QED BY <2>1, <2>2 DEF OnlyAdvances
<1>4. CASE Adaptive!Transform(i)
  <2>1. Moves(t, "publish") /\ pc[t] = "transform"
    BY <1>1, <1>4, StepsMove DEF Adaptive!Transform
  <2> QED BY <1>4, <2>1 DEF Adaptive!Transform, OnlyAdvances
<1>5. CASE Adaptive!Publish(i)
  <2>1. Moves(t, "claim") /\ pc[t] = "publish"
    BY <1>1, <1>5, StepsMove DEF Adaptive!Publish
  <2> QED BY <1>5, <2>1 DEF Adaptive!Publish, OnlyAdvances
<1>6. CASE Adaptive!ProducerFinish(i)
  <2>1. Moves(t, "done") /\ pc[t] = "finish"
    BY <1>1, <1>6, StepsMove DEF Adaptive!ProducerFinish
  <2> QED BY <1>6, <2>1 DEF Adaptive!ProducerFinish, OnlyAdvances
<1>7. CASE Adaptive!Caught(t)
  <2>1. Moves(t, "done") /\ pc[t] = "caught"
    BY <1>1, <1>7, StepsMove DEF Adaptive!Caught
  <2> QED BY <1>7, <2>1 DEF Adaptive!Caught, OnlyAdvances
<1>8. CASE Adaptive!Sleep(t)
  <2>1. Moves(t, "asleep") /\ pc[t] = "drowsy"
    BY <1>1, <1>8, StepsMove DEF Adaptive!Sleep
  <2> QED BY <1>8, <2>1 DEF Adaptive!Sleep, OnlyAdvances
<1>9. CASE Adaptive!Wake(t)
  <2>1. Moves(t, "wait") /\ pc[t] = "asleep"
    BY <1>1, <1>9, StepsMove DEF Adaptive!Wake
  <2> QED BY <1>9, <2>1 DEF Adaptive!Wake, OnlyAdvances
<1>10. CASE Adaptive!Throw(t)
  <2>1. pc[t] # "done" /\ \E where : Moves(t, where) /\ where # "done"
    BY <1>1, <1>10, StepsMove DEF Adaptive!Throw
  <2>2. abort' = TRUE /\ UNCHANGED <<made, encoded, main>>
    BY <1>10 DEF Adaptive!Throw
  <2> QED BY <2>1, <2>2 DEF OnlyAdvances
<1> QED BY <1>2, <1>3, <1>4, <1>5, <1>6, <1>7, <1>8, <1>9, <1>10

LEMMA AdaptiveEntropyAdvances ==
  ASSUME AdaptiveInv, NEW e \in Both, NEW t, t = Adaptive!Entropy(e),
         \/ Adaptive!Start(t, "wait") \/ Adaptive!EntropyWait(e)
         \/ Adaptive!Release(e) \/ Adaptive!Caught(t)
         \/ Adaptive!Sleep(t) \/ Adaptive!Wake(t) \/ Adaptive!Throw(t)
  PROVE  OnlyAdvances(t)
<1> USE DEF Adaptive!slotVars, Adaptive!frameVars, Adaptive!flagVars
<1>1. t \in DOMAIN pc
  BY AdaptiveActor
<1>2. CASE Adaptive!Start(t, "wait")
  <2>1. Moves(t, "wait") /\ pc[t] = "start"
    BY <1>1, <1>2, StepsMove DEF Adaptive!Start
  <2> QED BY <1>2, <2>1 DEF Adaptive!Start, OnlyAdvances
<1>3. CASE Adaptive!EntropyWait(e)
  <2>1. PICK where : Moves(t, where)
    BY <1>1, <1>3, StepsMove DEF Adaptive!EntropyWait, Adaptive!Doze
  <2>2. pc[t] = "wait" /\ UNCHANGED <<made, encoded, main, abort>>
    BY <1>3 DEF Adaptive!EntropyWait
  <2> QED BY <2>1, <2>2 DEF OnlyAdvances
<1>4. CASE Adaptive!Release(e)
  <2>1. Moves(t, "wait") /\ pc[t] = "release"
    BY <1>1, <1>4, StepsMove DEF Adaptive!Release
  <2> QED BY <1>4, <2>1 DEF Adaptive!Release, OnlyAdvances
<1>5. CASE Adaptive!Caught(t)
  <2>1. Moves(t, "done") /\ pc[t] = "caught"
    BY <1>1, <1>5, StepsMove DEF Adaptive!Caught
  <2> QED BY <1>5, <2>1 DEF Adaptive!Caught, OnlyAdvances
<1>6. CASE Adaptive!Sleep(t)
  <2>1. Moves(t, "asleep") /\ pc[t] = "drowsy"
    BY <1>1, <1>6, StepsMove DEF Adaptive!Sleep
  <2> QED BY <1>6, <2>1 DEF Adaptive!Sleep, OnlyAdvances
<1>7. CASE Adaptive!Wake(t)
  <2>1. Moves(t, "wait") /\ pc[t] = "asleep"
    BY <1>1, <1>7, StepsMove DEF Adaptive!Wake
  <2> QED BY <1>7, <2>1 DEF Adaptive!Wake, OnlyAdvances
<1>8. CASE Adaptive!Throw(t)
  <2>1. pc[t] # "done" /\ \E where : Moves(t, where) /\ where # "done"
    BY <1>1, <1>8, StepsMove DEF Adaptive!Throw
  <2>2. abort' = TRUE /\ UNCHANGED <<made, encoded, main>>
    BY <1>8 DEF Adaptive!Throw
  <2> QED BY <2>1, <2>2 DEF OnlyAdvances
<1> QED BY <1>2, <1>3, <1>4, <1>5, <1>6, <1>7, <1>8

\* When both producers and both entropy threads have ended without a failure,
\* what was taken on is what was encoded.
LEMMA AdaptiveAllEncoded ==
  ASSUME AdaptiveInv, ~abort, \A t \in DOMAIN pc : pc[t] = "done"
  PROVE  Finished = Taken
<1>1. AdaptiveDomains /\ \A i \in Both :
        /\ pc[Adaptive!Producer(i)] = "done" /\ pc[Adaptive!Entropy(i)] = "done"
  BY AdaptiveActor DEF AdaptiveInv
<1>2. /\ ready = <<>>
      /\ \A i \in Both : /\ holds[Adaptive!Producer(i)] = Nil
                         /\ holds[Adaptive!Entropy(i)] = Nil
  BY <1>1, BothAreTwo DEF AdaptiveInv, AdaptiveEnd
<1>3. \A i \in Both : Published[i] = made[i]
  BY <1>1, <1>2 DEF Published, AdaptiveDomains
<1>4. \A e \in Both : Traces[e] = encoded[e]
  BY <1>2 DEF Traces, Encoding
<1>5. DOMAIN ReadyFrames = {}
  BY <1>2 DEF ReadyFrames
<1>6. /\ \A e \in Both : \A j \in DOMAIN encoded[e] :
           encoded[e][j][2] \in 1..Published[encoded[e][j][1]]
      /\ \A i \in Both : \A n \in 1..Published[i] :
           \E e \in Both : \E j \in DOMAIN encoded[e] : encoded[e][j] = <<i, n>>
  <2>1. InBounds(Published, ReadyFrames, Traces) /\ NoneLost(Published, ReadyFrames, Traces)
    BY DEF AdaptiveInv, AdaptiveOrder, Order
  <2>2. \A e \in Both : \A j \in DOMAIN encoded[e] :
          encoded[e][j][2] \in 1..Published[encoded[e][j][1]]
    BY <1>4, <2>1 DEF InBounds
  <2>3. ASSUME NEW i \in Both, NEW n \in 1..Published[i]
        PROVE  \E e \in Both : \E j \in DOMAIN encoded[e] : encoded[e][j] = <<i, n>>
    <3>1. \E e \in Both : \E j \in DOMAIN Traces[e] : Traces[e][j] = <<i, n>>
      BY <1>5, <2>1 DEF NoneLost
    <3> QED BY <1>4, <3>1
  <2> QED BY <2>2, <2>3
<1>7. /\ DOMAIN made = Both /\ DOMAIN encoded = Both
      /\ \A e \in Both : encoded[e] \in Seq(PoolFrames)
  BY <1>1 DEF AdaptiveDomains
<1>8. ASSUME NEW f \in Finished PROVE f \in Taken
  <2>1. PICK e \in Both : \E j \in DOMAIN encoded[e] : f = encoded[e][j]
    BY <1>7 DEF Finished
  <2>2. PICK j \in DOMAIN encoded[e] : f = encoded[e][j]
    BY <2>1
  <2>3. f \in PoolFrames
    BY <1>7, <2>2, ElementOf
  <2>4. f[1] \in Both /\ f = <<f[1], f[2]>> /\ f[2] \in 1..made[f[1]]
    BY <1>3, <1>6, <2>2, <2>3 DEF PoolFrames
  <2> QED BY <1>7, <2>4 DEF Taken
<1>9. ASSUME NEW f \in Taken PROVE f \in Finished
  <2>1. PICK i \in Both : \E n \in 1..made[i] : f = <<i, n>>
    BY <1>7 DEF Taken
  <2>2. PICK n \in 1..made[i] : f = <<i, n>>
    BY <2>1
  <2>3. n \in 1..Published[i]
    BY <1>3, <2>2
  <2>4. PICK e \in Both : \E j \in DOMAIN encoded[e] : encoded[e][j] = <<i, n>>
    BY <1>6, <2>3
  <2> QED BY <1>7, <2>2, <2>4 DEF Finished
<1> QED BY <1>8, <1>9

LEMMA AdaptiveDelivers ==
  ASSUME AdaptiveInv, Adaptive!Next, IsFiniteSet(EncodingSet)
  PROVE  DeliveryStep /\ IsFiniteSet(EncodingSet')
<1> USE DEF Adaptive!adaptiveVars
<1>1. MainInv /\ AdaptiveDomains
  BY DEF AdaptiveInv
<1>2. ASSUME NEW i \in Both
      PROVE  /\ Adaptive!Producer(i) \in DOMAIN pc /\ Adaptive!Entropy(i) \in DOMAIN pc
             /\ Adaptive!Producer(i)[1] = "producer"
  BY AdaptiveActor DEF Adaptive!Producer
<1>3. ASSUME NEW i \in Both, Adaptive!ProducerWait(i)
      PROVE  DeliveryStep /\ IsFiniteSet(EncodingSet')
  <2> DEFINE t == Adaptive!Producer(i)
  <2>1. /\ pc[t] = "wait" /\ UNCHANGED <<encoded, main, abort>>
        /\ \/ made' = made /\ (Adaptive!Goto(t, "finish") \/ Adaptive!Goto(t, "drowsy"))
           \/ made' = [made EXCEPT ![i] = @ + 1] /\ Adaptive!Goto(t, "transform")
    BY <1>3 DEF Adaptive!ProducerWait, Adaptive!Doze, Adaptive!flagVars
  <2>2. t \in DOMAIN pc /\ t[1] # "entropy"
    BY <1>2
  <2> HIDE DEF t
  <2>3. CASE made' = made /\ (Adaptive!Goto(t, "finish") \/ Adaptive!Goto(t, "drowsy"))
    <3>1. PICK where : Moves(t, where)
      BY <2>2, <2>3, StepsMove
    <3>2. OnlyAdvances(t)
      BY <2>1, <2>3, <3>1 DEF OnlyAdvances
    <3> QED BY <1>1, <2>2, <3>2, AdvanceDelivers
  <2>4. CASE made' = [made EXCEPT ![i] = @ + 1] /\ Adaptive!Goto(t, "transform")
    <3>1. Moves(t, "transform")
      BY <2>2, <2>4, StepsMove
    <3>2. i \in DOMAIN made /\ made[i] \in Nat
      BY <1>1 DEF AdaptiveDomains
    <3>3. DeliveryStep
      BY <2>1, <2>2, <2>4, <3>1, <3>2, TakeDelivers
    <3> QED BY <2>1, <3>3, EncodingSetStays
  <2> QED BY <2>1, <2>3, <2>4
<1>4. ASSUME NEW e \in Both, Adaptive!Encode(e)
      PROVE  DeliveryStep /\ IsFiniteSet(EncodingSet')
  <2> DEFINE t == Adaptive!Entropy(e)
  <2>1. /\ pc[t] = "encode" /\ Adaptive!Goto(t, "release")
        /\ UNCHANGED <<made, main, abort>>
    BY <1>4 DEF Adaptive!Encode, Adaptive!flagVars
  <2>2. PICK f \in PoolFrames :
          /\ encoded' = [encoded EXCEPT ![e] = Append(@, f)]
          /\ f[2] \in 1..made[f[1]]
          /\ \A d \in Both : \A j \in DOMAIN encoded[d] : encoded[d][j] # f
    BY <1>4, AdaptiveEncode
  <2>3. /\ encoded[e] \in Seq(PoolFrames)
        /\ DOMAIN made = Both /\ DOMAIN encoded = Both
    BY <1>1 DEF AdaptiveDomains
  <2>4. f \in Taken
    <3>1. f[1] \in Both /\ f = <<f[1], f[2]>>
      BY <2>2 DEF PoolFrames
    <3> QED BY <2>2, <2>3, <3>1 DEF Taken
  <2>5. f \notin Finished
    BY <2>2, <2>3 DEF Finished
  <2>6. t \in DOMAIN pc
    BY <1>2
  <2>7. Moves(t, "release")
    BY <2>1, <2>6, StepsMove
  <2> HIDE DEF t
  <2> QED BY <1>1, <2>1, <2>2, <2>3, <2>4, <2>5, <2>6, <2>7, EncodeDelivers
<1>5. ASSUME NEW t \in DOMAIN pc, OnlyAdvances(t)
      PROVE  DeliveryStep /\ IsFiniteSet(EncodingSet')
  BY <1>1, <1>5, AdvanceDelivers
<1>6. ASSUME NEW i \in Both, Adaptive!ProducerStep(i)
      PROVE  DeliveryStep /\ IsFiniteSet(EncodingSet')
  BY <1>2, <1>3, <1>5, <1>6, AdaptiveProducerAdvances DEF Adaptive!ProducerStep
<1>7. ASSUME NEW e \in Both, Adaptive!EntropyStep(e)
      PROVE  DeliveryStep /\ IsFiniteSet(EncodingSet')
  BY <1>2, <1>4, <1>5, <1>7, AdaptiveEntropyAdvances DEF Adaptive!EntropyStep
<1>8. ASSUME NEW t \in Adaptive!Threads, Adaptive!Throw(t) \/ Adaptive!Wake(t)
      PROVE  DeliveryStep /\ IsFiniteSet(EncodingSet')
  <2>1. PICK i \in Both : t = Adaptive!Producer(i) \/ t = Adaptive!Entropy(i)
    BY AdaptiveThreads
  <2> QED BY <1>2, <1>5, <1>8, <2>1, AdaptiveProducerAdvances, AdaptiveEntropyAdvances
<1>9. ASSUME Adaptive!Join PROVE DeliveryStep /\ IsFiniteSet(EncodingSet')
  <2>1. /\ main = "running" /\ \A t \in DOMAIN pc : pc[t] = "done"
        /\ main' = IF abort THEN "failed" ELSE "returned"
        /\ UNCHANGED <<pc, made, encoded, abort>>
    BY <1>9 DEF Adaptive!Join, Adaptive!frameVars
  <2>2. DeliveryStep
    BY <1>1, <2>1, AdaptiveAllEncoded, JoinDelivers
  <2> QED BY <2>1, <2>2, EncodingSetStays
<1> QED BY <1>6, <1>7, <1>8, <1>9 DEF Adaptive!Next, Both

LEMMA HandoffProducerAdvances ==
  ASSUME HandoffInv, NEW t, t = Handoff!P,
         \/ Handoff!Start(t, "claim") \/ Handoff!ClaimWork(t, "wait", "finish")
         \/ Handoff!Transform \/ Handoff!Publish
         \/ Handoff!ProducerFinish \/ Handoff!ProducerCaught
         \/ Handoff!Tell(t) \/ Handoff!Sleep(t) \/ Handoff!Wake(t) \/ Handoff!Throw(t)
  PROVE  OnlyAdvances(t)
<1> USE DEF Handoff!slotVars, Handoff!frameVars, Handoff!flagVars
<1>1. t \in DOMAIN pc
  BY HandoffActor
<1>2. CASE Handoff!Start(t, "claim")
  <2>1. Moves(t, "claim") /\ pc[t] = "start"
    BY <1>1, <1>2, StepsMove DEF Handoff!Start
  <2> QED BY <1>2, <2>1 DEF Handoff!Start, OnlyAdvances
<1>3. CASE Handoff!ClaimWork(t, "wait", "finish")
  <2>1. PICK where : Moves(t, where)
    BY <1>1, <1>3, StepsMove DEF Handoff!ClaimWork
  <2>2. pc[t] = "claim" /\ UNCHANGED <<made, encoded, main, abort>>
    BY <1>3 DEF Handoff!ClaimWork
  <2> QED BY <2>1, <2>2 DEF OnlyAdvances
<1>4. CASE Handoff!Transform
  <2>1. Moves(t, "publish") /\ pc[t] = "transform"
    BY <1>1, <1>4, StepsMove DEF Handoff!Transform
  <2> QED BY <1>4, <2>1 DEF Handoff!Transform, OnlyAdvances
<1>5. CASE Handoff!Publish
  <2>1. Moves(t, "claim") /\ pc[t] = "publish"
    BY <1>1, <1>5, StepsMove DEF Handoff!Publish
  <2> QED BY <1>5, <2>1 DEF Handoff!Publish, OnlyAdvances
<1>6. CASE Handoff!ProducerFinish
  <2>1. Moves(t, "done") /\ pc[t] = "finish"
    BY <1>1, <1>6, StepsMove DEF Handoff!ProducerFinish
  <2> QED BY <1>6, <2>1 DEF Handoff!ProducerFinish, OnlyAdvances
<1>7. CASE Handoff!ProducerCaught
  <2>1. Moves(t, "tell") /\ pc[t] = "caught"
    BY <1>1, <1>7, StepsMove DEF Handoff!ProducerCaught
  <2> QED BY <1>7, <2>1 DEF Handoff!ProducerCaught, OnlyAdvances
<1>8. CASE Handoff!Tell(t)
  <2>1. Moves(t, "done") /\ pc[t] = "tell"
    BY <1>1, <1>8, StepsMove DEF Handoff!Tell
  <2> QED BY <1>8, <2>1 DEF Handoff!Tell, OnlyAdvances
<1>9. CASE Handoff!Sleep(t)
  <2>1. Moves(t, "asleep") /\ pc[t] = "drowsy"
    BY <1>1, <1>9, StepsMove DEF Handoff!Sleep
  <2> QED BY <1>9, <2>1 DEF Handoff!Sleep, OnlyAdvances
<1>10. CASE Handoff!Wake(t)
  <2>1. Moves(t, "wait") /\ pc[t] = "asleep"
    BY <1>1, <1>10, StepsMove DEF Handoff!Wake
  <2> QED BY <1>10, <2>1 DEF Handoff!Wake, OnlyAdvances
<1>11. CASE Handoff!Throw(t)
  <2>1. pc[t] # "done" /\ \E where : Moves(t, where) /\ where # "done"
    BY <1>1, <1>11, StepsMove DEF Handoff!Throw
  <2>2. abort' = TRUE /\ UNCHANGED <<made, encoded, main>>
    BY <1>11 DEF Handoff!Throw
  <2> QED BY <2>1, <2>2 DEF OnlyAdvances
<1> QED BY <1>2, <1>3, <1>4, <1>5, <1>6, <1>7, <1>8, <1>9, <1>10, <1>11

LEMMA HandoffEntropyAdvances ==
  ASSUME HandoffInv, NEW t, t = Handoff!E,
         \/ Handoff!Start(t, "wait") \/ Handoff!EntropyWait \/ Handoff!Release
         \/ Handoff!Tell(t) \/ Handoff!Sleep(t) \/ Handoff!Wake(t) \/ Handoff!Throw(t)
  PROVE  OnlyAdvances(t)
<1> USE DEF Handoff!slotVars, Handoff!frameVars, Handoff!flagVars
<1>1. t \in DOMAIN pc
  BY HandoffActor
<1>2. CASE Handoff!Start(t, "wait")
  <2>1. Moves(t, "wait") /\ pc[t] = "start"
    BY <1>1, <1>2, StepsMove DEF Handoff!Start
  <2> QED BY <1>2, <2>1 DEF Handoff!Start, OnlyAdvances
<1>3. CASE Handoff!EntropyWait
  <2>1. PICK where : Moves(t, where)
    BY <1>1, <1>3, StepsMove DEF Handoff!EntropyWait, Handoff!Doze
  <2>2. pc[t] = "wait" /\ UNCHANGED <<made, encoded, main, abort>>
    BY <1>3 DEF Handoff!EntropyWait
  <2> QED BY <2>1, <2>2 DEF OnlyAdvances
<1>4. CASE Handoff!Release
  <2>1. Moves(t, "wait") /\ pc[t] = "release"
    BY <1>1, <1>4, StepsMove DEF Handoff!Release
  <2> QED BY <1>4, <2>1 DEF Handoff!Release, OnlyAdvances
<1>5. CASE Handoff!Tell(t)
  <2>1. Moves(t, "done") /\ pc[t] = "tell"
    BY <1>1, <1>5, StepsMove DEF Handoff!Tell
  <2> QED BY <1>5, <2>1 DEF Handoff!Tell, OnlyAdvances
<1>6. CASE Handoff!Sleep(t)
  <2>1. Moves(t, "asleep") /\ pc[t] = "drowsy"
    BY <1>1, <1>6, StepsMove DEF Handoff!Sleep
  <2> QED BY <1>6, <2>1 DEF Handoff!Sleep, OnlyAdvances
<1>7. CASE Handoff!Wake(t)
  <2>1. Moves(t, "wait") /\ pc[t] = "asleep"
    BY <1>1, <1>7, StepsMove DEF Handoff!Wake
  <2> QED BY <1>7, <2>1 DEF Handoff!Wake, OnlyAdvances
<1>8. CASE Handoff!Throw(t)
  <2>1. pc[t] # "done" /\ \E where : Moves(t, where) /\ where # "done"
    BY <1>1, <1>8, StepsMove DEF Handoff!Throw
  <2>2. abort' = TRUE /\ UNCHANGED <<made, encoded, main>>
    BY <1>8 DEF Handoff!Throw
  <2> QED BY <2>1, <2>2 DEF OnlyAdvances
<1> QED BY <1>2, <1>3, <1>4, <1>5, <1>6, <1>7, <1>8

\* As DualFrames, and what a normal worker says of its frames.
LEMMA HandoffFrames ==
  ASSUME HandoffInv
  PROVE  /\ made[Handoff!P] \in Nat /\ encoded[Handoff!E] \in Seq({Handoff!P} \X Nat)
         /\ \A k \in DOMAIN encoded[Handoff!E] : encoded[Handoff!E][k] = <<Handoff!P, k>>
         /\ ready = <<>> /\ holds[Handoff!P] = Nil /\ holds[Handoff!E] = Nil
              => made[Handoff!P] = Len(encoded[Handoff!E])
         /\ \A t \in Handoff!Normals : \A k \in DOMAIN encoded[t] : encoded[t][k] = <<t, k>>
<1>1. /\ PairTypes(o.slots, Handoff!P, state, coeff, ready, holds[Handoff!P],
                   holds[Handoff!E], made[Handoff!P], encoded[Handoff!E])
      /\ \A k \in DOMAIN encoded[Handoff!E] : encoded[Handoff!E][k] = <<Handoff!P, k>>
  BY DEF HandoffInv, HandoffOf, HandoffPair, Pair, Consecutive
<1>2. made[Handoff!P] = Len(encoded[Handoff!E])
                  + (IF holds[Handoff!E] # Nil /\ ~(pc[Handoff!E] = "release")
                     THEN 1 ELSE 0)
                  + Len(ready) + (IF holds[Handoff!P] # Nil THEN 1 ELSE 0)
  BY DEF HandoffInv, HandoffOf, HandoffPair, Pair, Consecutive, InHand
<1>3. ASSUME ready = <<>>, holds[Handoff!P] = Nil, holds[Handoff!E] = Nil
      PROVE  made[Handoff!P] = Len(encoded[Handoff!E])
  <2>1. Len(encoded[Handoff!E]) \in Nat
    BY <1>1 DEF PairTypes
  <2>2. Len(ready) = 0
    BY <1>3
  <2> QED BY <1>2, <1>3, <2>1, <2>2
<1>4. \A t \in Handoff!Normals : \A k \in DOMAIN encoded[t] : encoded[t][k] = <<t, k>>
  BY DEF HandoffInv, NormalOf
<1> QED BY <1>1, <1>3, <1>4 DEF PairTypes

\* A frame carries the thread that made it, so only that thread, or the
\* entropy thread for the producer's, can have encoded it.
LEMMA HandoffNotFinished ==
  ASSUME HandoffInv, NEW n,
         NEW d \in DOMAIN encoded, NEW t, n \notin DOMAIN encoded[d],
         (d = Handoff!E /\ t = Handoff!P) \/ (d \in Handoff!Normals /\ t = d)
  PROVE  <<t, n>> \notin Finished
<1>1. ASSUME NEW u \in DOMAIN encoded, NEW k \in DOMAIN encoded[u]
      PROVE  encoded[u][k] # <<t, n>>
  <2>1. CASE u = Handoff!E
    BY <2>1, HandoffFrames, HandoffThreads
  <2>2. CASE u \in Handoff!Normals
    BY <2>2, HandoffFrames, HandoffThreads
  <2> QED BY <2>1, <2>2 DEF HandoffInv, HandoffDomains
<1> QED BY <1>1 DEF Finished

\* As AdaptiveAllEncoded.
LEMMA HandoffAllEncoded ==
  ASSUME HandoffInv, ~abort, \A t \in DOMAIN pc : pc[t] = "done"
  PROVE  Finished = Taken
<1>1. /\ HandoffDomains
      /\ pc[Handoff!P] = "done" /\ pc[Handoff!E] = "done"
      /\ ready = <<>> /\ holds[Handoff!P] = Nil /\ holds[Handoff!E] = Nil
  BY HandoffActor DEF HandoffEnd
<1>2. /\ DOMAIN encoded[Handoff!E] = 1..made[Handoff!P]
      /\ \A k \in DOMAIN encoded[Handoff!E] : encoded[Handoff!E][k] = <<Handoff!P, k>>
  BY <1>1, HandoffFrames
<1>3. ASSUME NEW t \in Handoff!Normals
      PROVE  /\ DOMAIN encoded[t] = 1..made[t]
             /\ \A k \in DOMAIN encoded[t] : encoded[t][k] = <<t, k>>
  <2>1. t \in DOMAIN pc
    BY <1>1, HandoffThreads DEF HandoffDomains
  <2>2. NormalOf(t)
    BY DEF HandoffInv
  <2>3. made[t] = Len(encoded[t]) /\ encoded[t] \in Seq({t} \X Nat)
    BY <2>1, <2>2 DEF NormalOf
  <2> QED BY <2>2, <2>3 DEF NormalOf
<1>4. /\ {encoded[Handoff!E][k] : k \in DOMAIN encoded[Handoff!E]}
           = {<<Handoff!P, k>> : k \in 1..made[Handoff!P]}
      /\ \A t \in Handoff!Normals :
           {encoded[t][k] : k \in DOMAIN encoded[t]} = {<<t, k>> : k \in 1..made[t]}
  BY <1>2, <1>3
<1>5. ASSUME NEW f
      PROVE  /\ f \in Finished <=>
                  \/ f \in {encoded[Handoff!E][k] : k \in DOMAIN encoded[Handoff!E]}
                  \/ \E t \in Handoff!Normals :
                       f \in {encoded[t][k] : k \in DOMAIN encoded[t]}
             /\ f \in Taken <=>
                  \/ f \in {<<Handoff!P, k>> : k \in 1..made[Handoff!P]}
                  \/ \E t \in Handoff!Normals : f \in {<<t, k>> : k \in 1..made[t]}
  BY <1>1 DEF Finished, Taken, HandoffDomains
<1> QED BY <1>4, <1>5

LEMMA HandoffDelivers ==
  ASSUME HandoffInv, Handoff!Next, IsFiniteSet(EncodingSet)
  PROVE  DeliveryStep /\ IsFiniteSet(EncodingSet')
<1> USE DEF Handoff!slotVars, Handoff!frameVars, Handoff!flagVars
<1>1. /\ MainInv /\ HandoffDomains
      /\ Handoff!P \in DOMAIN pc /\ Handoff!E \in DOMAIN pc
      /\ Handoff!P[1] # "entropy"
  <2>1. Handoff!P[1] = "producer"
    BY DEF Handoff!P, Handoff!Producer
  <2> QED BY <2>1, HandoffActor DEF HandoffInv
<1>2. ASSUME NEW t \in Handoff!Normals
      PROVE  /\ t \in DOMAIN pc /\ t[1] # "entropy" /\ NormalOf(t)
             /\ t \in DOMAIN made /\ t \in DOMAIN encoded
  <2>1. t[1] = "normal"
    BY DEF Handoff!Normals, Handoff!Normal
  <2> QED BY <1>1, <2>1, HandoffThreads DEF HandoffInv, HandoffDomains
<1>3. ASSUME Handoff!ProducerWait
      PROVE  DeliveryStep /\ IsFiniteSet(EncodingSet')
  <2> DEFINE t == Handoff!P
  <2>1. /\ pc[t] = "wait" /\ UNCHANGED <<encoded, main, abort>>
        /\ \/ made' = made /\ (Handoff!Goto(t, "finish") \/ Handoff!Goto(t, "drowsy"))
           \/ made' = [made EXCEPT ![t] = @ + 1] /\ Handoff!Goto(t, "transform")
    BY <1>3 DEF Handoff!ProducerWait, Handoff!Doze
  <2>2. t \in DOMAIN pc /\ t[1] # "entropy" /\ t \in DOMAIN made /\ made[t] \in Nat
    BY <1>1, HandoffFrames DEF HandoffDomains
  <2> HIDE DEF t
  <2>3. CASE made' = made /\ (Handoff!Goto(t, "finish") \/ Handoff!Goto(t, "drowsy"))
    <3>1. PICK where : Moves(t, where)
      BY <2>2, <2>3, StepsMove
    <3>2. OnlyAdvances(t)
      BY <2>1, <2>3, <3>1 DEF OnlyAdvances
    <3> QED BY <1>1, <2>2, <3>2, AdvanceDelivers
  <2>4. CASE made' = [made EXCEPT ![t] = @ + 1] /\ Handoff!Goto(t, "transform")
    <3>1. Moves(t, "transform")
      BY <2>2, <2>4, StepsMove
    <3>2. DeliveryStep
      BY <2>1, <2>2, <2>4, <3>1, TakeDelivers
    <3> QED BY <2>1, <3>2, EncodingSetStays
  <2> QED BY <2>1, <2>3, <2>4
<1>4. ASSUME Handoff!Encode
      PROVE  DeliveryStep /\ IsFiniteSet(EncodingSet')
  <2> DEFINE t == Handoff!E
             p == Handoff!P
             n == Len(encoded[t]) + 1
             f == <<p, n>>
  <2>1. /\ pc[t] = "encode" /\ Handoff!Goto(t, "release")
        /\ UNCHANGED <<made, main, abort>>
    BY <1>4 DEF Handoff!Encode
  <2>2. encoded' = [encoded EXCEPT ![t] = Append(@, f)] /\ n <= made[p]
    BY <1>4, HandoffEncode
  <2>3. /\ made[p] \in Nat /\ encoded[t] \in Seq({p} \X Nat)
        /\ p \in DOMAIN made /\ t \in DOMAIN encoded
    BY <1>1, HandoffFrames DEF HandoffDomains
  <2>4. n \in 1..made[p] /\ n \in Nat /\ n \notin DOMAIN encoded[t]
    BY <2>2, <2>3
  <2> HIDE DEF n
  <2>5. f \in Taken
    BY <2>3, <2>4 DEF Taken
  <2>6. f \notin Finished
    BY <2>3, <2>4, HandoffNotFinished
  <2>7. Moves(t, "release")
    BY <1>1, <2>1, StepsMove
  <2>8. f \in {p} \X Nat /\ t \in DOMAIN pc
    BY <1>1, <2>4
  <2> HIDE DEF f, t
  <2> QED BY <1>1, <2>1, <2>2, <2>3, <2>5, <2>6, <2>7, <2>8, EncodeDelivers
<1>5. ASSUME NEW t \in DOMAIN pc, OnlyAdvances(t)
      PROVE  DeliveryStep /\ IsFiniteSet(EncodingSet')
  BY <1>1, <1>5, AdvanceDelivers
<1>6. ASSUME Handoff!ProducerStep
      PROVE  DeliveryStep /\ IsFiniteSet(EncodingSet')
  BY <1>1, <1>3, <1>5, <1>6, HandoffProducerAdvances DEF Handoff!ProducerStep
<1>7. ASSUME Handoff!EntropyStep
      PROVE  DeliveryStep /\ IsFiniteSet(EncodingSet')
  BY <1>1, <1>4, <1>5, <1>7, HandoffEntropyAdvances DEF Handoff!EntropyStep
<1>8. ASSUME NEW t \in Handoff!Normals, Handoff!TransformLocal(t)
      PROVE  DeliveryStep /\ IsFiniteSet(EncodingSet')
  <2>1. /\ pc[t] = "transform" /\ UNCHANGED <<encoded, main, abort>>
        /\ made' = [made EXCEPT ![t] = @ + 1] /\ Moves(t, "encode")
    BY <1>2, <1>8, StepsMove DEF Handoff!TransformLocal
  <2>2. made[t] \in Nat
    BY <1>2 DEF NormalOf
  <2>3. DeliveryStep
    BY <1>2, <2>1, <2>2, TakeDelivers
  <2> QED BY <2>1, <2>3, EncodingSetStays
<1>9. ASSUME NEW t \in Handoff!Normals, Handoff!EncodeLocal(t)
      PROVE  DeliveryStep /\ IsFiniteSet(EncodingSet')
  <2> DEFINE n == made[t]
             f == <<t, n>>
  <2>1. /\ pc[t] = "encode" /\ Moves(t, "claim")
        /\ UNCHANGED <<made, main, abort>>
        /\ encoded' = [encoded EXCEPT ![t] = Append(@, f)]
    BY <1>2, <1>9, StepsMove DEF Handoff!EncodeLocal
  <2>2. n \in Nat /\ n = Len(encoded[t]) + 1 /\ encoded[t] \in Seq({t} \X Nat)
    BY <1>2, <2>1 DEF NormalOf
  <2>3. n \in 1..made[t] /\ n \notin DOMAIN encoded[t]
    BY <2>2
  <2> HIDE DEF n
  <2>4. f \in Taken
    BY <1>2, <2>3 DEF Taken
  <2>5. f \notin Finished
    BY <1>2, <2>3, HandoffNotFinished
  <2>6. f \in {t} \X Nat
    BY <2>2
  <2> HIDE DEF f
  <2> QED BY <1>1, <1>2, <2>1, <2>2, <2>4, <2>5, <2>6, EncodeDelivers
<1>10. ASSUME NEW t \in Handoff!Normals,
              \/ Handoff!Tell(t) \/ Handoff!Start(t, "claim")
              \/ Handoff!ClaimWork(t, "transform", "done") \/ Handoff!Throw(t)
       PROVE  OnlyAdvances(t)
  <2>1. CASE Handoff!Tell(t)
    <3>1. Moves(t, "done") /\ pc[t] = "tell"
      BY <1>2, <2>1, StepsMove DEF Handoff!Tell
    <3> QED BY <2>1, <3>1 DEF Handoff!Tell, OnlyAdvances
  <2>2. CASE Handoff!Start(t, "claim")
    <3>1. Moves(t, "claim") /\ pc[t] = "start"
      BY <1>2, <2>2, StepsMove DEF Handoff!Start
    <3> QED BY <2>2, <3>1 DEF Handoff!Start, OnlyAdvances
  <2>3. CASE Handoff!ClaimWork(t, "transform", "done")
    <3>1. PICK where : Moves(t, where)
      BY <1>2, <2>3, StepsMove DEF Handoff!ClaimWork
    <3>2. pc[t] = "claim" /\ UNCHANGED <<made, encoded, main, abort>>
      BY <2>3 DEF Handoff!ClaimWork
    <3> QED BY <3>1, <3>2 DEF OnlyAdvances
  <2>4. CASE Handoff!Throw(t)
    <3>1. pc[t] # "done" /\ \E where : Moves(t, where) /\ where # "done"
      BY <1>2, <2>4, StepsMove DEF Handoff!Throw
    <3>2. abort' = TRUE /\ UNCHANGED <<made, encoded, main>>
      BY <2>4 DEF Handoff!Throw
    <3> QED BY <3>1, <3>2 DEF OnlyAdvances
  <2> QED BY <1>10, <2>1, <2>2, <2>3, <2>4
<1>11. ASSUME NEW t \in Handoff!Normals, Handoff!NormalStep(t)
       PROVE  DeliveryStep /\ IsFiniteSet(EncodingSet')
  BY <1>2, <1>5, <1>8, <1>9, <1>10, <1>11 DEF Handoff!NormalStep
<1>12. ASSUME NEW t \in Handoff!Threads, Handoff!Throw(t) \/ Handoff!Wake(t)
       PROVE  DeliveryStep /\ IsFiniteSet(EncodingSet')
  <2>1. CASE t = Handoff!P
    BY <1>1, <1>5, <1>12, <2>1, HandoffProducerAdvances
  <2>2. CASE t = Handoff!E
    BY <1>1, <1>5, <1>12, <2>2, HandoffEntropyAdvances
  <2>3. CASE t \in Handoff!Normals
    <3>1. ~ Handoff!Wake(t)
      BY <1>2, <2>3 DEF Handoff!Wake, NormalOf
    <3> QED BY <1>2, <1>5, <1>10, <1>12, <2>3, <3>1
  <2> QED BY <2>1, <2>2, <2>3, HandoffThreads
<1>13. ASSUME Handoff!Join PROVE DeliveryStep /\ IsFiniteSet(EncodingSet')
  <2>1. /\ main = "running" /\ \A t \in DOMAIN pc : pc[t] = "done"
        /\ main' = IF abort THEN "failed" ELSE "returned"
        /\ UNCHANGED <<pc, made, encoded, abort>>
    BY <1>13 DEF Handoff!Join
  <2>2. DeliveryStep
    BY <1>1, <2>1, HandoffAllEncoded, JoinDelivers
  <2> QED BY <2>1, <2>2, EncodingSetStays
<1> QED BY <1>6, <1>7, <1>11, <1>12, <1>13 DEF Handoff!Next

-----------------------------------------------------------------------------
(* Whichever strategy is selected, each of its steps is one of              *)
(* EveryFrameOnce, or none.                                                 *)

LEMMA DeliveryBegins ==
  ASSUME \A t \in DOMAIN made : made[t] = 0,
         \A t \in DOMAIN encoded : encoded[t] = <<>>,
         NEW t \in DOMAIN pc, t[1] # "entropy", pc[t] # "done",
         ~abort, main = "running"
  PROVE  Delivery!Init /\ IsFiniteSet(EncodingSet)
<1>1. Taken = {}
  BY DEF Taken
<1>2. Finished = {} /\ EncodingSet = {}
  BY DEF Finished, EncodingSet
<1>3. Cardinality({}) = 0 /\ IsFiniteSet({})
  BY FS_EmptySet
<1>4. Encodings = 0
  BY <1>2, <1>3 DEF Encodings, EncodingSet
<1>5. StillClaiming
  BY DEF StillClaiming
<1>6. StillClaiming = TRUE
  BY <1>5 DEF StillClaiming
<1> QED BY <1>1, <1>2, <1>3, <1>4, <1>6 DEF Delivery!Init

LEMMA StageBegins == Init => Delivery!Init /\ IsFiniteSet(EncodingSet)
<1>1. ASSUME Dual!Init PROVE Delivery!Init /\ IsFiniteSet(EncodingSet)
  <2> DEFINE t == Dual!Producer("A")
  <2>1. t \in Dual!Threads /\ t[1] # "entropy"
    BY DEF Dual!Threads, Dual!PairThreads, Dual!Pairs, Dual!Producer
  <2>2. t \in DOMAIN pc /\ pc[t] = "start"
    BY <1>1, <2>1 DEF Dual!Init
  <2> HIDE DEF t
  <2> QED BY <1>1, <2>1, <2>2, DeliveryBegins DEF Dual!Init
<1>2. ASSUME Adaptive!Init PROVE Delivery!Init /\ IsFiniteSet(EncodingSet)
  <2> DEFINE t == Adaptive!Producer(0)
  <2>1. t \in Adaptive!Threads /\ t[1] # "entropy"
    <3>1. t[1] = "producer"
      BY DEF Adaptive!Producer
    <3> QED BY <3>1, AdaptiveThreads, BothAreTwo
  <2>2. t \in DOMAIN pc /\ pc[t] = "start"
    BY <1>2, <2>1 DEF Adaptive!Init
  <2> HIDE DEF t
  <2> QED BY <1>2, <2>1, <2>2, DeliveryBegins DEF Adaptive!Init
<1>3. ASSUME Handoff!Init PROVE Delivery!Init /\ IsFiniteSet(EncodingSet)
  <2> DEFINE t == Handoff!P
  <2>1. t \in Handoff!Threads /\ t[1] # "entropy"
    <3>1. t[1] = "producer"
      BY DEF Handoff!P, Handoff!Producer
    <3> QED BY <3>1, HandoffThreads
  <2>2. t \in DOMAIN pc /\ pc[t] = "start"
    BY <1>3, <2>1 DEF Handoff!Init
  <2> HIDE DEF t
  <2> QED BY <1>3, <2>1, <2>2, DeliveryBegins DEF Handoff!Init
<1> QED BY <1>1, <1>2, <1>3 DEF Init

LEMMA StageDelivers ==
  ASSUME StageInv, IsFiniteSet(EncodingSet), [Next]_vars
  PROVE  DeliveryStep /\ IsFiniteSet(EncodingSet')
<1>1. CASE UNCHANGED vars
  <2>1. UNCHANGED <<pc, made, encoded, abort, main>>
    BY <1>1 DEF vars, stageVars, frameVars, flagVars
  <2>2. UNCHANGED Delivery!frameVars
    BY <2>1 DEF Delivery!frameVars, Taken, Finished, Encodings, StillClaiming
  <2> QED BY <2>1, <2>2, EncodingSetStays DEF DeliveryStep
<1>2. CASE Selected("dual") /\ Dual!Next
  BY <1>2, DualDelivers DEF StageInv, Selected
<1>3. CASE Selected("adaptive") /\ Adaptive!Next
  BY <1>3, AdaptiveDelivers DEF StageInv, Selected
<1>4. CASE Selected("handoff") /\ Handoff!Next
  BY <1>4, HandoffDelivers DEF StageInv, Selected
<1> QED BY <1>1, <1>2, <1>3, <1>4 DEF Next

\* ImplementsDelivery but for its fairness: whichever strategy runs, a frame
\* that is taken on is encoded at most once, after a failure too, and the
\* caller is told of success only when every frame taken on is encoded.
THEOREM EveryFrameIsDeliveredOnce ==
    Spec => Delivery!Init /\ [][Delivery!Next]_(Delivery!frameVars)
<1> DEFINE DInv == StageInv /\ IsFiniteSet(EncodingSet)
<1>1. Init => DInv /\ Delivery!Init
  BY StageInitially, StageBegins
<1>2. DInv /\ [Next]_vars => DInv' /\ DeliveryStep
  BY StageStep, StageDelivers
<1>3. DeliveryStep => [Delivery!Next]_(Delivery!frameVars)
  BY DEF DeliveryStep
<1> QED BY <1>1, <1>2, <1>3, PTL DEF Spec
=============================================================================
