------------------------- MODULE FitAndShape_proofs -------------------------
(***************************************************************************)
(* Theorems about the two detectors' algorithms that TunnelShape and       *)
(* BeaconFit model: the walk over constant labels in detect/dnstunnel.py   *)
(* and the choice of a period in detect/beacon.py.                         *)
(*                                                                         *)
(* The walk, for every set of names and labels and every share and limit:  *)
(* the payload of nearly every query survives it, what is stripped belongs *)
(* to one name, and a fixed prefix is stripped without a trace.  For the   *)
(* first it is enough that the last place stripped was routing.  For the   *)
(* second the places have to be taken together: with each place the        *)
(* queries that share all labels so far can shrink only by the share that  *)
(* may miss the new one.  That is Together, and it is inductive.  The      *)
(* third, that a fixed prefix changes nothing, compares two walks: with a  *)
(* label hung under the parent each place is what the one before it was.   *)
(*                                                                         *)
(* The period, for every list of gaps and every number of candidates       *)
(* sampled: a schedule kept by more than half of the gaps is found with    *)
(* all its misses, a period looks perfect only when more than half of the  *)
(* folded gaps are on it, and fewer than a quarter of stragglers count for *)
(* nothing.  Medians and quartiles are values at a place in the order, and *)
(* KthCommon says which places a value most of them have must take.  The   *)
(* period of a schedule is the shortest gap, so it is always sampled; it   *)
(* explains every gap without deviation, which no longer period does and   *)
(* no period exceeds.  PInv follows that through the candidates, from the  *)
(* longest to the shortest.                                                *)
(***************************************************************************)
EXTENDS TunnelShape, BeaconFit, SequenceTheorems, FiniteSetTheorems, NaturalsInduction,
        TLAPS

-----------------------------------------------------------------------------
(* The shape of a tunnel *)

\* The queries that go on beyond place d and have the labels lab before it.
Sharing(rs, d, lab) ==
    {i \in DOMAIN rs : Len(rs[i]) > d /\ \A k \in 0..d - 1 : Label(rs[i], k) = lab[k]}

Together(rs, d, lab) ==
    100 * Cardinality(Sharing(rs, d, lab)) >= (100 - d * (100 - ConstantShare)) * Len(rs)

\* Some one tail of d labels is below that many queries.
OneTail(rs, d) == \E lab \in [0..d - 1 -> Labels] : Together(rs, d, lab)

TInv ==
    /\ records \in Seq(Subs)
    /\ phase \in {"capture", "depth", "done", "none"}
    /\ depth \in Nat
    /\ phase = "capture" => depth = 0
    /\ phase \in {"depth", "done"} => Len(records) > 0
    /\ \A k \in 0..depth - 1 : Routing(records, k)
    /\ phase = "done" => depth = MaxConstantDepth \/ ~Routing(records, depth)
    /\ OneTail(records, depth)

-----------------------------------------------------------------------------
(* Sets of queries *)

LEMMA Queries ==
    ASSUME NEW rs \in Seq(Subs)
    PROVE  /\ Len(rs) \in Nat /\ DOMAIN rs = 1..Len(rs)
           /\ IsFiniteSet(DOMAIN rs) /\ Cardinality(DOMAIN rs) = Len(rs)
           /\ \A i \in DOMAIN rs : rs[i] \in Seq(Labels) /\ Len(rs[i]) \in Nat \ {0}
<1>1. Len(rs) \in Nat /\ DOMAIN rs = 1..Len(rs) /\ rs \in [1..Len(rs) -> Subs]
  BY LenProperties
<1>2. IsFiniteSet(1..Len(rs)) /\ Cardinality(1..Len(rs)) = Len(rs)
  BY <1>1, FS_Interval
<1>3. ASSUME NEW i \in DOMAIN rs PROVE rs[i] \in Seq(Labels) /\ Len(rs[i]) \in Nat \ {0}
  <2>1. rs[i] \in Seq(Labels) /\ rs[i] # <<>>
    BY <1>1, <1>3, ShapeAssumption
  <2>2. Len(rs[i]) \in Nat /\ Len(rs[i]) # 0
    BY <2>1, LenProperties, EmptySeq
  <2> QED BY <2>1, <2>2
<1> QED BY <1>1, <1>2, <1>3

LEMMA Counts ==
    ASSUME NEW rs \in Seq(Subs), NEW A \in SUBSET (DOMAIN rs), NEW B \in SUBSET (DOMAIN rs)
    PROVE  /\ Cardinality(A) \in Nat
           /\ A \subseteq B => Cardinality(A) <= Cardinality(B)
           /\ Cardinality(A \cap B) \in Nat
           /\ Cardinality(A \cap B) >= Cardinality(A) + Cardinality(B) - Len(rs)
<1>1. /\ IsFiniteSet(DOMAIN rs) /\ Cardinality(DOMAIN rs) = Len(rs) /\ Len(rs) \in Nat
  BY Queries
<1>2. IsFiniteSet(A) /\ IsFiniteSet(B)
  BY <1>1, FS_Subset
<1>3. Cardinality(A) \in Nat /\ Cardinality(B) \in Nat
  BY <1>2, FS_CardinalityType
<1>4. A \subseteq B => Cardinality(A) <= Cardinality(B)
  BY <1>2, FS_Subset
<1>5. IsFiniteSet(A \cap B)
  BY <1>2, FS_Intersection
<1>6. Cardinality(A \cap B) \in Nat
  BY <1>5, FS_CardinalityType
<1>7. Cardinality(A \cup B) = Cardinality(A) + Cardinality(B) - Cardinality(A \cap B)
  BY <1>2, FS_Union
<1>8. Cardinality(A \cup B) <= Len(rs) /\ Cardinality(A \cup B) \in Nat
  <2>1. A \cup B \in SUBSET (DOMAIN rs)
    OBVIOUS
  <2> QED BY <1>1, <2>1, FS_Subset, FS_CardinalityType
<1> QED BY <1>1, <1>3, <1>4, <1>6, <1>7, <1>8

-----------------------------------------------------------------------------
(* One place more *)

\* Nothing stripped, nothing lost.
LEMMA TogetherAtParent ==
    ASSUME NEW rs \in Seq(Subs)
    PROVE  OneTail(rs, 0)
<1> DEFINE none == [k \in 0..0 - 1 |-> CHOOSE label \in Labels : TRUE]
<1>1. none \in [0..0 - 1 -> Labels]
  OBVIOUS
<1>2. Sharing(rs, 0, none) = DOMAIN rs
  <2>1. \A k \in 0..0 - 1 : FALSE
    OBVIOUS
  <2> HIDE DEF none
  <2>2. \A i \in DOMAIN rs : Len(rs[i]) > 0
    BY Queries
  <2> QED BY <2>1, <2>2 DEF Sharing
<1>3. Cardinality(Sharing(rs, 0, none)) = Len(rs) /\ Len(rs) \in Nat
  BY <1>2, Queries
<1>4. Together(rs, 0, none)
  BY <1>3, ShapeAssumption DEF Together
<1> QED BY <1>1, <1>4 DEF OneTail

LEMMA TogetherDeeper ==
    ASSUME NEW rs \in Seq(Subs), NEW d \in Nat, Routing(rs, d), OneTail(rs, d)
    PROVE  OneTail(rs, d + 1)
<1>0. PICK lab \in [0..d - 1 -> Labels] : Together(rs, d, lab)
  BY DEF OneTail
<1>1. PICK label \in Labels : Nearly(Having(rs, d, label), Len(rs))
  BY DEF Routing
<1> DEFINE deeper == [k \in 0..(d + 1) - 1 |-> IF k = d THEN label ELSE lab[k]]
           A == Sharing(rs, d, lab)
           B == {i \in DOMAIN rs : Len(rs[i]) > d + 1 /\ Label(rs[i], d) = label}
           C == Sharing(rs, d + 1, deeper)
           miss == (100 - ConstantShare) * Len(rs)
<1>2. deeper \in [0..(d + 1) - 1 -> Labels]
  OBVIOUS
<1>3. A \cap B \subseteq C
  <2>1. ASSUME NEW i \in A \cap B, NEW k \in 0..(d + 1) - 1
        PROVE  Label(rs[i], k) = deeper[k]
    BY <2>1 DEF Sharing
  <2> QED BY <2>1 DEF Sharing
<1>4. A \in SUBSET (DOMAIN rs) /\ B \in SUBSET (DOMAIN rs) /\ C \in SUBSET (DOMAIN rs)
  BY DEF Sharing
<1>5. Len(rs) \in Nat
  BY Queries
<1>6. 100 * Cardinality(A) >= 100 * Len(rs) - d * miss
  <2>1. (100 - d * (100 - ConstantShare)) * Len(rs) = 100 * Len(rs) - d * miss
    BY <1>5, ShapeAssumption
  <2> QED BY <1>0, <2>1 DEF Together
<1>7. 100 * Cardinality(B) >= 100 * Len(rs) - miss
  <2>1. ConstantShare * Len(rs) = 100 * Len(rs) - miss
    BY <1>5, ShapeAssumption
  <2> QED BY <1>1, <2>1 DEF Nearly, Having
<1>8. miss \in Int /\ d * miss \in Int /\ (d + 1) * miss = d * miss + miss
  <2>1. miss \in Int
    BY <1>5, ShapeAssumption
  <2> HIDE DEF miss
  <2> QED BY <2>1
<1>9. Cardinality(C) >= Cardinality(A) + Cardinality(B) - Len(rs)
  <2> HIDE DEF A, B, C
  <2>1. A \cap B \in SUBSET (DOMAIN rs)
    BY <1>4
  <2>2. Cardinality(A \cap B) >= Cardinality(A) + Cardinality(B) - Len(rs)
    BY <1>4, Counts
  <2>3. Cardinality(A \cap B) <= Cardinality(C)
    BY <1>3, <1>4, <2>1, Counts
  <2>4. /\ Cardinality(A) \in Nat /\ Cardinality(B) \in Nat /\ Cardinality(C) \in Nat
        /\ Cardinality(A \cap B) \in Nat
    BY <1>4, <2>1, Counts
  <2> QED BY <1>5, <2>2, <2>3, <2>4
<1>10. Together(rs, d + 1, deeper)
  <2>1. (100 - (d + 1) * (100 - ConstantShare)) * Len(rs) = 100 * Len(rs) - (d + 1) * miss
    BY <1>5, ShapeAssumption
  <2>2. Cardinality(A) \in Nat /\ Cardinality(B) \in Nat /\ Cardinality(C) \in Nat
    BY <1>4, Counts
  <2>3. 100 * Cardinality(C) >= 100 * Len(rs) - (d + 1) * miss
    <3> HIDE DEF A, B, C, miss
    <3> QED BY <1>5, <1>6, <1>7, <1>8, <1>9, <2>2
  <2> QED BY <2>1, <2>3 DEF Together
<1> QED BY <1>2, <1>10 DEF OneTail

-----------------------------------------------------------------------------
(* The invariant *)

LEMMA TInitInv == Init => TInv
<1> SUFFICES ASSUME Init PROVE TInv
  OBVIOUS
<1>1. records = <<>> /\ records \in Seq(Subs) /\ depth = 0 /\ phase = "capture"
  BY EmptySeq DEF Init
<1>2. OneTail(records, depth)
  BY <1>1, TogetherAtParent
<1> QED BY <1>1, <1>2 DEF TInv

LEMMA TStepInv ==
    ASSUME TInv, [Next]_vars
    PROVE  TInv'
<1> USE DEF TInv
<1>1. ASSUME NEW sub \in Subs, Query(sub) PROVE TInv'
  <2>1. records' \in Seq(Subs) /\ depth' = 0 /\ phase' = "capture"
    BY <1>1, AppendProperties DEF Query
  <2>2. OneTail(records', depth')
    BY <2>1, TogetherAtParent
  <2> QED BY <2>1, <2>2
<1>2. CASE Score
  <2>1. /\ UNCHANGED <<records, depth>> /\ depth = 0
        /\ phase' \in {"none", "depth"}
        /\ phase' = "depth" => ~(Len(records) < MinQueries)
    BY <1>2 DEF Score
  <2>2. Len(records) \in Nat
    BY Queries
  <2>3. phase' = "depth" => Len(records') > 0
    BY <2>1, <2>2, ShapeAssumption
  <2> QED BY <2>1, <2>3
<1>3. CASE Deeper
  <2>1. /\ UNCHANGED <<records, phase>> /\ phase = "depth" /\ depth' = depth + 1
        /\ Routing(records, depth)
    BY <1>3 DEF Deeper
  <2>2. OneTail(records', depth')
    BY <2>1, TogetherDeeper
  <2>3. \A k \in 0..depth' - 1 : k \in 0..depth - 1 \/ k = depth
    BY <2>1
  <2>4. \A k \in 0..depth' - 1 : Routing(records', k)
    BY <2>1, <2>3
  <2> QED BY <2>1, <2>2, <2>4
<1>4. CASE Settled
  BY <1>4 DEF Settled
<1>5. CASE UNCHANGED vars
  BY <1>5 DEF vars
<1> QED BY <1>1, <1>2, <1>3, <1>4, <1>5 DEF Next

LEMMA TInvariance == Spec => []TInv
BY TInitInv, TStepInv, PTL DEF Spec

-----------------------------------------------------------------------------
(* What follows *)

LEMMA PayloadAtDone == TInv => PayloadKept
<1> SUFFICES ASSUME TInv, phase = "done" PROVE
        Nearly(Cardinality({i \in DOMAIN records : Encoded(records[i], depth) # <<>>}),
               Len(records))
  BY DEF PayloadKept
<1> DEFINE kept == {i \in DOMAIN records : Encoded(records[i], depth) # <<>>}
<1>1. records \in Seq(Subs) /\ depth \in Nat
  BY DEF TInv
<1>2. ASSUME NEW i \in DOMAIN records, Len(records[i]) > depth PROVE i \in kept
  <2> DEFINE sub == records[i]
             end == Len(sub) - depth
  <2>1. sub \in Seq(Labels) /\ Len(sub) \in Nat /\ end \in 1..Len(sub)
    BY <1>1, <1>2, Queries
  <2>2. Encoded(sub, depth) = SubSeq(sub, 1, end)
    BY <2>1 DEF Encoded
  <2>3. \A k \in 1..end : sub[k] \in Labels
    BY <2>1, ElementOfSeq
  <2> HIDE DEF sub, end
  <2>4. Len(SubSeq(sub, 1, end)) = end
    BY <2>1, <2>3, SubSeqProperties
  <2>5. SubSeq(sub, 1, end) # <<>>
    BY <2>1, <2>4, EmptySeq
  <2> QED BY <2>2, <2>5 DEF sub
<1>3. PICK most \in SUBSET kept : Nearly(Cardinality(most), Len(records))
  <2>1. CASE depth = 0
    <3>1. DOMAIN records \in SUBSET kept
      BY <1>1, <1>2, <2>1, Queries
    <3>2. Nearly(Cardinality(DOMAIN records), Len(records))
      <4>1. Cardinality(DOMAIN records) = Len(records) /\ Len(records) \in Nat
        BY <1>1, Queries
      <4>2. 100 * Len(records) >= ConstantShare * Len(records)
        BY <4>1, ShapeAssumption
      <4> QED BY <4>1, <4>2 DEF Nearly
    <3> QED BY <3>1, <3>2
  <2>2. CASE depth > 0
    <3>0. depth - 1 \in 0..depth - 1
      BY <1>1, <2>2
    <3>1. PICK label \in Labels : Nearly(Having(records, depth - 1, label), Len(records))
      BY <3>0 DEF TInv, Routing
    <3> DEFINE having == {i \in DOMAIN records :
                 Len(records[i]) > (depth - 1) + 1 /\ Label(records[i], depth - 1) = label}
    <3>2. having \in SUBSET kept
      BY <1>1, <1>2
    <3>3. Nearly(Cardinality(having), Len(records))
      BY <3>1 DEF Having
    <3> QED BY <3>2, <3>3
  <2> QED BY <1>1, <2>1, <2>2
<1>4. kept \in SUBSET (DOMAIN records) /\ most \in SUBSET (DOMAIN records)
  OBVIOUS
<1>5. /\ Cardinality(most) <= Cardinality(kept)
      /\ Cardinality(most) \in Nat /\ Cardinality(kept) \in Nat
  <2> HIDE DEF kept
  <2> QED BY <1>1, <1>4, Counts
<1>6. Nearly(Cardinality(kept), Len(records))
  <2> DEFINE least == ConstantShare * Len(records)
  <2>1. least \in Int
    BY <1>1, Queries, ShapeAssumption
  <2>2. 100 * Cardinality(most) >= least
    BY <1>3 DEF Nearly
  <2>3. 100 * Cardinality(kept) >= least
    <3> HIDE DEF least, kept
    <3> QED BY <1>5, <2>1, <2>2
  <2> QED BY <2>3 DEF Nearly
<1> QED BY <1>6

(* The label the data is in is never stripped as well: after the walk      *)
(* nearly every query still has a payload, whatever was asked for.         *)
THEOREM PayloadSurvives == Spec => []PayloadKept
BY TInvariance, PayloadAtDone, PTL

LEMMA ReverseFacts ==
    ASSUME NEW s \in Seq(Labels)
    PROVE  /\ Reverse(s) \in Seq(Labels) /\ Len(Reverse(s)) = Len(s)
           /\ \A i \in 1..Len(s) : Reverse(s)[i] = s[Len(s) - i + 1]
<1>1. Len(s) \in Nat
  BY LenProperties
<1>2. \A i \in 1..Len(s) : Len(s) - i + 1 \in 1..Len(s)
  BY <1>1
<1>3. \A i \in 1..Len(s) : s[Len(s) - i + 1] \in Labels
  BY <1>2, ElementOfSeq
<1> QED BY <1>1, <1>3 DEF Reverse

\* Names with the same last d labels share that tail.
LEMMA SameTail ==
    ASSUME NEW a \in Seq(Labels), NEW b \in Seq(Labels), NEW d \in Nat,
           Len(a) > d, Len(b) > d, \A k \in 0..d - 1 : Label(a, k) = Label(b, k)
    PROVE  LET tail == SubSeq(a, Len(a) - d + 1, Len(a))
           IN  Len(tail) = d /\ IsSuffix(tail, b)
<1> DEFINE from == Len(a) - d + 1
           tail == SubSeq(a, from, Len(a))
           rt == Reverse(tail)
           rb == Reverse(b)
<1>1. Len(a) \in Nat /\ Len(b) \in Nat /\ from \in 1..Len(a) + 1
  BY LenProperties
<1>2. /\ tail \in Seq(Labels) /\ Len(tail) = d
      /\ \A i \in 1..d : tail[i] = a[Len(a) - d + i]
  <2>1. \A i \in from..Len(a) : a[i] \in Labels
    BY <1>1, ElementOfSeq
  <2>2. /\ tail \in Seq(Labels)
        /\ Len(tail) = IF from <= Len(a) THEN Len(a) - from + 1 ELSE 0
        /\ \A i \in 1..(Len(a) - from + 1) : tail[i] = a[from + i - 1]
    <3> HIDE DEF from
    <3> QED BY <1>1, <2>1, SubSeqProperties
  <2>3. Len(a) - from + 1 = d /\ \A i \in 1..d : from + i - 1 = Len(a) - d + i
    BY <1>1
  <2> QED BY <1>1, <2>2, <2>3
<1> HIDE DEF from, tail
<1>3. /\ rt \in Seq(Labels) /\ Len(rt) = d
      /\ \A i \in 1..d : rt[i] = tail[d - i + 1]
  BY <1>2, ReverseFacts
<1>4. /\ rb \in Seq(Labels) /\ Len(rb) = Len(b)
      /\ \A i \in 1..Len(b) : rb[i] = b[Len(b) - i + 1]
  BY ReverseFacts
<1>5. \A i \in 1..d : rt[i] = rb[i]
  <2> SUFFICES ASSUME NEW i \in 1..d PROVE rt[i] = rb[i]
    OBVIOUS
  <2>1. rt[i] = a[Len(a) - (i - 1)]
    <3>1. d - i + 1 \in 1..d /\ Len(a) - d + (d - i + 1) = Len(a) - (i - 1)
      BY <1>1
    <3> QED BY <1>2, <1>3, <3>1
  <2>2. rb[i] = b[Len(b) - (i - 1)]
    <3>1. i \in 1..Len(b) /\ Len(b) - i + 1 = Len(b) - (i - 1)
      BY <1>1
    <3> QED BY <1>4, <3>1
  <2>3. Label(a, i - 1) = Label(b, i - 1)
    OBVIOUS
  <2> QED BY <2>1, <2>2, <2>3 DEF Label
<1> HIDE DEF rt, rb
<1>6. SubSeq(rt, 1, d) = SubSeq(rb, 1, d)
  <2>1. \A i \in 1..d : rt[i] \in Labels /\ rb[i] \in Labels
    BY <1>1, <1>3, <1>4, ElementOfSeq
  <2>2. /\ SubSeq(rt, 1, d) \in Seq(Labels) /\ SubSeq(rb, 1, d) \in Seq(Labels)
        /\ Len(SubSeq(rt, 1, d)) = d /\ Len(SubSeq(rb, 1, d)) = d
        /\ \A i \in 1..d : SubSeq(rt, 1, d)[i] = rt[i] /\ SubSeq(rb, 1, d)[i] = rb[i]
    <3>1. d - 1 + 1 = d /\ \A i \in 1..d : 1 + i - 1 = i
      OBVIOUS
    <3> QED BY <2>1, <3>1, SubSeqProperties
  <2> QED BY <1>5, <2>2, SeqEqual
<1>7. IsPrefix(rt, rb)
  BY <1>1, <1>3, <1>4, <1>6 DEF IsPrefix
<1> QED BY <1>2, <1>7 DEF IsSuffix, rt, rb, tail, from

LEMMA RoutingAtDone == TInv => OneRouting
<1> SUFFICES ASSUME TInv, phase = "done" PROVE
        \E sub \in {s \in ToSet(records) : Len(s) > depth} :
            100 * Under(SubSeq(sub, Len(sub) - depth + 1, Len(sub)))
                >= (100 - depth * (100 - ConstantShare)) * Len(records)
  BY DEF OneRouting
<1> DEFINE bound == (100 - depth * (100 - ConstantShare)) * Len(records)
<1>1. records \in Seq(Subs) /\ depth \in Nat /\ Len(records) \in Nat /\ Len(records) > 0
  BY Queries DEF TInv
<1>2. bound \in Int
  BY <1>1, ShapeAssumption
<1>3. PICK lab \in [0..depth - 1 -> Labels] : Together(records, depth, lab)
  BY DEF TInv, OneTail
<1> DEFINE S == Sharing(records, depth, lab)
<1>4. S \in SUBSET (DOMAIN records) /\ Cardinality(S) \in Nat /\ 100 * Cardinality(S) >= bound
  <2>1. S \in SUBSET (DOMAIN records)
    BY DEF Sharing
  <2>2. Cardinality(S) \in Nat
    BY <1>1, <2>1, Counts
  <2> QED BY <1>3, <2>1, <2>2 DEF Together
<1>5. \E i \in DOMAIN records : Len(records[i]) > depth
  <2>1. CASE depth = 0
    BY <1>1, <2>1, Queries
  <2>2. CASE depth > 0
    <3>0. depth - 1 \in 0..depth - 1
      BY <1>1, <2>2
    <3>1. PICK label \in Labels : Nearly(Having(records, depth - 1, label), Len(records))
      BY <3>0 DEF TInv, Routing
    <3> DEFINE having == {i \in DOMAIN records :
                 Len(records[i]) > (depth - 1) + 1 /\ Label(records[i], depth - 1) = label}
    <3>2. 100 * Cardinality(having) >= ConstantShare * Len(records)
      BY <3>1 DEF Having, Nearly
    <3>3. ConstantShare * Len(records) > 0
      BY <1>1, ShapeAssumption
    <3>4. Cardinality(having) # 0
      BY <1>1, <3>2, <3>3, ShapeAssumption
    <3>5. having # {}
      <4> HIDE DEF having
      <4> QED BY <3>4, FS_EmptySet
    <3> QED BY <1>1, <3>5
  <2> QED BY <1>1, <2>1, <2>2
<1>6. PICK j \in DOMAIN records : Len(records[j]) > depth /\ (S # {} => j \in S)
  BY <1>5 DEF Sharing
<1> DEFINE sub == records[j]
           tail == SubSeq(sub, Len(sub) - depth + 1, Len(sub))
           below == {i \in DOMAIN records :
                       Len(records[i]) > Len(tail) /\ IsSuffix(tail, records[i])}
<1>7. Under(tail) = Cardinality(below) /\ below \in SUBSET (DOMAIN records)
  BY DEF Under
<1>8. Cardinality(below) \in Nat
  <2> HIDE DEF below
  <2> QED BY <1>1, <1>7, Counts
<1>9. S \in SUBSET below
  <2> SUFFICES ASSUME NEW i \in S PROVE i \in below
    OBVIOUS
  <2>1. i \in DOMAIN records /\ Len(records[i]) > depth
    BY DEF Sharing
  <2>2. \A k \in 0..depth - 1 : Label(sub, k) = Label(records[i], k)
    BY <1>6 DEF Sharing
  <2>3. sub \in Seq(Labels) /\ records[i] \in Seq(Labels)
    BY <1>1, <1>6, <2>1, Queries
  <2>4. Len(tail) = depth /\ IsSuffix(tail, records[i])
    BY <1>1, <1>6, <2>1, <2>2, <2>3, SameTail
  <2> QED BY <2>1, <2>4
<1>10. Cardinality(S) <= Cardinality(below)
  <2> HIDE DEF S, below
  <2> QED BY <1>1, <1>4, <1>7, <1>9, Counts
<1>11. 100 * Under(tail) >= bound
  <2> HIDE DEF bound, S, below, tail
  <2> QED BY <1>2, <1>4, <1>7, <1>8, <1>10
<1>12. sub \in ToSet(records) /\ Len(sub) > depth
  BY <1>6 DEF ToSet
<1> QED BY <1>11, <1>12

(* What is stripped is the tail of one name, which the other queries are   *)
(* without only by the share that may miss each of its labels.             *)
THEOREM RoutingIsOneName == Spec => []OneRouting
BY TInvariance, RoutingAtDone, PTL

-----------------------------------------------------------------------------
(* A label hung between the parent and every name *)

Hung(rs, label) == [i \in DOMAIN rs |-> Append(rs[i], label)]

LEMMA HungFacts ==
    ASSUME NEW rs \in Seq(Subs), NEW label \in Labels
    PROVE  /\ DOMAIN Hung(rs, label) = DOMAIN rs /\ Len(Hung(rs, label)) = Len(rs)
           /\ \A i \in DOMAIN rs :
                 /\ Len(Hung(rs, label)[i]) = Len(rs[i]) + 1
                 /\ Label(Hung(rs, label)[i], 0) = label
                 /\ \A d \in 0..Len(rs[i]) - 1 :
                       Label(Hung(rs, label)[i], d + 1) = Label(rs[i], d)
<1> DEFINE hung == Hung(rs, label)
<1>1. /\ Len(rs) \in Nat /\ DOMAIN rs = 1..Len(rs)
      /\ \A i \in DOMAIN rs : rs[i] \in Seq(Labels) /\ Len(rs[i]) \in Nat \ {0}
  BY Queries
<1>2. hung = [i \in 1..Len(rs) |-> Append(rs[i], label)]
  BY <1>1 DEF Hung
<1>3. \A i \in 1..Len(rs) : Append(rs[i], label) \in Seq(Labels)
  BY <1>1, AppendProperties
<1>4. hung \in Seq(Seq(Labels)) /\ Len(hung) = Len(rs)
  <2> HIDE DEF hung
  <2>1. hung \in [1..Len(rs) -> Seq(Labels)]
    BY <1>2, <1>3
  <2>2. hung \in Seq(Seq(Labels))
    BY <1>1, <2>1, SeqDef
  <2> QED BY <1>1, <2>1, <2>2, LenProperties
<1>5. ASSUME NEW i \in DOMAIN rs
      PROVE  /\ Len(hung[i]) = Len(rs[i]) + 1 /\ Label(hung[i], 0) = label
             /\ \A d \in 0..Len(rs[i]) - 1 : Label(hung[i], d + 1) = Label(rs[i], d)
  <2> DEFINE n == Len(rs[i])
  <2>1. n \in Nat \ {0} /\ rs[i] \in Seq(Labels) /\ hung[i] = Append(rs[i], label)
    BY <1>1, <1>2
  <2> HIDE DEF n, hung
  <2>2. /\ Len(hung[i]) = n + 1 /\ hung[i][n + 1] = label
        /\ \A k \in 1..n : hung[i][k] = rs[i][k]
    BY <2>1, AppendProperties DEF n
  <2>3. Label(hung[i], 0) = label
    <3>1. (n + 1) - 0 = n + 1
      BY <2>1
    <3> QED BY <2>2, <3>1 DEF Label
  <2>4. ASSUME NEW d \in 0..n - 1 PROVE Label(hung[i], d + 1) = Label(rs[i], d)
    <3>1. (n + 1) - (d + 1) = n - d /\ n - d \in 1..n
      BY <2>1
    <3> QED BY <2>2, <3>1 DEF Label, n
  <2> QED BY <2>2, <2>3, <2>4 DEF n
<1>6. DOMAIN hung = DOMAIN rs
  BY DEF Hung
<1> QED BY <1>4, <1>5, <1>6

\* The label hung is routing itself, and moves every other place by one.
LEMMA HungRouting ==
    ASSUME NEW rs \in Seq(Subs), NEW label \in Labels
    PROVE  /\ Routing(Hung(rs, label), 0)
           /\ \A d \in Nat : Routing(Hung(rs, label), d + 1) <=> Routing(rs, d)
<1> DEFINE hung == Hung(rs, label)
<1>1. /\ Len(rs) \in Nat /\ Cardinality(DOMAIN rs) = Len(rs)
      /\ \A i \in DOMAIN rs : Len(rs[i]) \in Nat \ {0}
  BY Queries
<1>2. /\ DOMAIN hung = DOMAIN rs /\ Len(hung) = Len(rs)
      /\ \A i \in DOMAIN rs :
            /\ Len(hung[i]) = Len(rs[i]) + 1 /\ Label(hung[i], 0) = label
            /\ \A d \in 0..Len(rs[i]) - 1 : Label(hung[i], d + 1) = Label(rs[i], d)
  BY HungFacts
<1> HIDE DEF hung
<1>3. Routing(hung, 0)
  <2>1. {i \in DOMAIN hung : Len(hung[i]) > 0 + 1 /\ Label(hung[i], 0) = label} = DOMAIN rs
    BY <1>1, <1>2
  <2>2. Having(hung, 0, label) = Len(hung)
    BY <1>1, <1>2, <2>1 DEF Having
  <2>3. 100 * Len(rs) >= ConstantShare * Len(rs)
    BY <1>1, ShapeAssumption
  <2> QED BY <1>2, <2>2, <2>3 DEF Routing, Nearly
<1>4. ASSUME NEW d \in Nat, NEW l \in Labels PROVE Having(hung, d + 1, l) = Having(rs, d, l)
  <2>1. ASSUME NEW i \in DOMAIN rs
        PROVE  (Len(hung[i]) > (d + 1) + 1 /\ Label(hung[i], d + 1) = l)
                 <=> (Len(rs[i]) > d + 1 /\ Label(rs[i], d) = l)
    <3>1. Len(hung[i]) > (d + 1) + 1 <=> Len(rs[i]) > d + 1
      BY <1>1, <1>2
    <3>2. Len(rs[i]) > d + 1 => Label(hung[i], d + 1) = Label(rs[i], d)
      BY <1>1, <1>2
    <3> QED BY <3>1, <3>2
  <2>2. {i \in DOMAIN hung : Len(hung[i]) > (d + 1) + 1 /\ Label(hung[i], d + 1) = l}
          = {i \in DOMAIN rs : Len(rs[i]) > d + 1 /\ Label(rs[i], d) = l}
    BY <1>2, <2>1
  <2> QED BY <2>2 DEF Having
<1>5. \A d \in Nat : Routing(hung, d + 1) <=> Routing(rs, d)
  BY <1>2, <1>4 DEF Routing
<1> QED BY <1>3, <1>5 DEF hung

LEMMA HungDepth ==
    ASSUME NEW rs \in Seq(Subs), NEW label \in Labels, NEW d \in Nat, d < MaxConstantDepth,
           \A k \in 0..d - 1 : Routing(rs, k), ~Routing(rs, d)
    PROVE  Depth(Hung(rs, label)) = d + 1
<1> DEFINE hung == Hung(rs, label)
           S == {e \in 0..MaxConstantDepth : \A k \in 0..e - 1 : Routing(hung, k)}
<1>1. Routing(hung, 0) /\ \A e \in Nat : Routing(hung, e + 1) <=> Routing(rs, e)
  BY HungRouting
<1> HIDE DEF hung
<1>2. d + 1 \in S
  <2>1. d + 1 \in 0..MaxConstantDepth
    BY ShapeAssumption
  <2>2. ASSUME NEW k \in 0..(d + 1) - 1 PROVE Routing(hung, k)
    <3>1. CASE k = 0
      BY <1>1, <3>1
    <3>2. CASE k # 0
      <4>1. k - 1 \in Nat /\ k - 1 \in 0..d - 1 /\ (k - 1) + 1 = k
        BY <3>2
      <4>2. Routing(rs, k - 1)
        BY <4>1
      <4>3. Routing(hung, (k - 1) + 1)
        BY <1>1, <4>1, <4>2
      <4> QED BY <4>1, <4>3
    <3> QED BY <3>1, <3>2
  <2> QED BY <2>1, <2>2
<1>3. ASSUME NEW e \in S PROVE e <= d + 1
  <2>1. ~Routing(hung, d + 1)
    BY <1>1
  <2>2. e > d + 1 => d + 1 \in 0..e - 1
    BY ShapeAssumption
  <2>3. e \in Nat /\ (d + 1 \in 0..e - 1 => Routing(hung, d + 1))
    BY <1>3
  <2> QED BY <2>1, <2>2, <2>3
<1>4. S \subseteq Nat
  OBVIOUS
<1> HIDE DEF S
<1>5. (CHOOSE x \in S : \A y \in S : x >= y) = d + 1
  <2>1. \A y \in S : d + 1 >= y
    BY <1>3, <1>4
  <2>2. \A x \in S : (\A y \in S : x >= y) => x = d + 1
    BY <1>2, <1>3, <1>4
  <2> QED BY <1>2, <2>1, <2>2
<1> QED BY <1>5 DEF Depth, Max, S, hung

LEMMA HungPayload ==
    ASSUME NEW r \in Seq(Labels), NEW label \in Labels, NEW d \in Nat, Len(r) >= d
    PROVE  Encoded(Append(r, label), d + 1) = Encoded(r, d)
<1> DEFINE n == Len(r)
           e == n - d
           h == Append(r, label)
<1>1. /\ n \in Nat /\ h \in Seq(Labels) /\ Len(h) = n + 1
      /\ \A k \in 1..n : h[k] = r[k] /\ r[k] \in Labels /\ h[k] \in Labels
  BY AppendProperties, LenProperties, ElementOfSeq
<1>2. e \in 0..n /\ (n + 1) - (d + 1) = e /\ e >= 0
  BY <1>1
<1>3. Encoded(r, d) = SubSeq(r, 1, e) /\ Encoded(h, d + 1) = SubSeq(h, 1, e)
  <2> HIDE DEF h
  <2> QED BY <1>1, <1>2 DEF Encoded
<1> HIDE DEF n, e, h
<1>4. \A k \in 1..e : k \in 1..n /\ 1 + k - 1 = k
  BY <1>1, <1>2
<1>5. (IF 1 <= e THEN e - 1 + 1 ELSE 0) = e
  BY <1>2
<1>6. /\ SubSeq(r, 1, e) \in Seq(Labels) /\ Len(SubSeq(r, 1, e)) = e
      /\ \A k \in 1..e : SubSeq(r, 1, e)[k] = r[k]
  <2>1. \A k \in 1..e : r[k] \in Labels
    BY <1>1, <1>4
  <2> QED BY <1>2, <1>4, <1>5, <2>1, SubSeqProperties
<1>7. /\ SubSeq(h, 1, e) \in Seq(Labels) /\ Len(SubSeq(h, 1, e)) = e
      /\ \A k \in 1..e : SubSeq(h, 1, e)[k] = h[k]
  <2>1. \A k \in 1..e : h[k] \in Labels
    BY <1>1, <1>4
  <2> QED BY <1>2, <1>4, <1>5, <2>1, SubSeqProperties
<1>8. SubSeq(h, 1, e) = SubSeq(r, 1, e)
  BY <1>1, <1>4, <1>6, <1>7, SeqEqual
<1> QED BY <1>3, <1>8 DEF h

LEMMA PrefixAtDone == TInv => RoutingAddsNothing
<1> SUFFICES ASSUME TInv, phase = "done", depth < MaxConstantDepth, NEW label \in Labels
             PROVE  LET hung == [i \in DOMAIN records |-> Append(records[i], label)] IN
                    /\ Depth(hung) = depth + 1
                    /\ \A i \in DOMAIN records : Len(records[i]) >= depth =>
                          Encoded(hung[i], depth + 1) = Encoded(records[i], depth)
  BY DEF RoutingAddsNothing
<1>1. records \in Seq(Subs) /\ depth \in Nat
  BY DEF TInv
<1>2. ~Routing(records, depth) /\ \A k \in 0..depth - 1 : Routing(records, k)
  BY <1>1, ShapeAssumption DEF TInv
<1>3. Depth(Hung(records, label)) = depth + 1
  BY <1>1, <1>2, HungDepth
<1>4. ASSUME NEW i \in DOMAIN records, Len(records[i]) >= depth
      PROVE  Encoded(Hung(records, label)[i], depth + 1) = Encoded(records[i], depth)
  <2>1. Hung(records, label)[i] = Append(records[i], label) /\ records[i] \in Seq(Labels)
    BY <1>1, Queries DEF Hung
  <2> QED BY <1>1, <1>4, <2>1, HungPayload
<1> QED BY <1>3, <1>4 DEF Hung

(* A tunnel gains nothing by hanging its names under a fixed prefix: with  *)
(* one more label between the parent and every name the walk goes one      *)
(* place further and the payloads are the same.                            *)
THEOREM PrefixGainsNothing == Spec => []RoutingAddsNothing
BY TInvariance, PrefixAtDone, PTL

-----------------------------------------------------------------------------
(* The period of a beacon *)

-----------------------------------------------------------------------------
(* The k-th smallest of finitely many values *)

Below(values, v) == {i \in DOMAIN values : values[i] < v}
Upto(values, v)  == {i \in DOMAIN values : values[i] <= v}

\* Numbers kept by position in a list.
Valued(values) ==
    /\ \E n \in Nat : DOMAIN values \subseteq 1..n
    /\ \A i \in DOMAIN values : values[i] \in Nat

LEMMA LeastNat ==
    ASSUME NEW S \in SUBSET Nat, S # {}
    PROVE  \E m \in S : \A y \in S : m <= y
<1>1. PICK x \in S : TRUE
  OBVIOUS
<1>2. \E y \in S : \A z \in Nat : <<z, y>> \in OpToRel(<, Nat) => z \notin S
  BY NatLessThanWellFounded, <1>1, WFMin
<1>3. PICK y \in S : \A z \in S : ~(z < y)
  BY <1>2 DEF OpToRel
<1>4. \A z \in S : y <= z
  BY <1>3
<1> QED BY <1>4

LEMMA Parts ==
    ASSUME NEW values, Valued(values)
    PROVE  /\ IsFiniteSet(DOMAIN values) /\ Number(values) \in Nat
           /\ \A S \in SUBSET DOMAIN values :
                 IsFiniteSet(S) /\ Cardinality(S) \in Nat /\ Cardinality(S) <= Number(values)
           /\ \A S, T \in SUBSET DOMAIN values : S \subseteq T => Cardinality(S) <= Cardinality(T)
<1>1. IsFiniteSet(DOMAIN values)
  <2>1. PICK n \in Nat : DOMAIN values \subseteq 1..n
    BY DEF Valued
  <2>2. IsFiniteSet(1..n)
    BY FS_Interval
  <2> QED BY <2>1, <2>2, FS_Subset
<1>2. \A S \in SUBSET DOMAIN values : IsFiniteSet(S) /\ Cardinality(S) \in Nat
  BY <1>1, FS_Subset, FS_CardinalityType
<1>3. \A S, T \in SUBSET DOMAIN values : S \subseteq T => Cardinality(S) <= Cardinality(T)
  BY <1>2, FS_Subset
<1> QED BY <1>1, <1>2, <1>3, FS_CardinalityType DEF Number

\* Sets of positions without one in common.
LEMMA Apart ==
    ASSUME NEW values, Valued(values), NEW S \in SUBSET DOMAIN values,
           NEW T \in SUBSET DOMAIN values, S \cap T = {}
    PROVE  Cardinality(S) + Cardinality(T) <= Number(values)
<1>1. IsFiniteSet(S) /\ IsFiniteSet(T)
  BY Parts
<1>2. Cardinality(S \cup T) = Cardinality(S) + Cardinality(T)
  <2>1. Cardinality(S \cup T) = Cardinality(S) + Cardinality(T) - Cardinality(S \cap T)
    BY <1>1, FS_Union
  <2>2. Cardinality(S \cap T) = 0 /\ Cardinality(S) \in Nat /\ Cardinality(T) \in Nat
    BY <1>1, FS_EmptySet, FS_CardinalityType
  <2> QED BY <2>1, <2>2
<1>3. S \cup T \in SUBSET DOMAIN values
  OBVIOUS
<1> QED BY <1>2, <1>3, Parts

LEMMA Bounded ==
    ASSUME NEW values, Valued(values)
    PROVE  \E b \in Nat : \A i \in DOMAIN values : values[i] <= b
<1>1. PICK n \in Nat : DOMAIN values \subseteq 1..n
  BY DEF Valued
<1> DEFINE Holds(m) == \E b \in Nat : \A i \in DOMAIN values : i <= m => values[i] <= b
           B == {m \in 0..n : ~Holds(m)}
<1>2. SUFFICES ASSUME B # {} PROVE FALSE
  <2>1. n \in 0..n /\ \A i \in DOMAIN values : i <= n
    BY <1>1
  <2> QED BY <2>1
<1>3. PICK x \in B : \A y \in B : x <= y
  <2>1. B \in SUBSET Nat
    OBVIOUS
  <2> HIDE DEF B
  <2> QED BY <1>2, <2>1, LeastNat
<1>4. x \in 0..n /\ ~Holds(x)
  BY <1>3
<1>5. x # 0
  <2>1. \A i \in DOMAIN values : ~(i <= 0)
    BY <1>1
  <2> QED BY <1>4, <2>1
<1>6. Holds(x - 1)
  <2>1. x - 1 \in 0..n /\ ~(x <= x - 1)
    BY <1>4, <1>5
  <2>2. x - 1 \notin B
    <3> HIDE DEF B
    <3> QED BY <1>3, <2>1
  <2> HIDE DEF Holds
  <2> QED BY <2>1, <2>2
<1>7. PICK b \in Nat : \A i \in DOMAIN values : i <= x - 1 => values[i] <= b
  BY <1>6
<1>8. \A i \in DOMAIN values : i <= x => i <= x - 1 \/ i = x
  BY <1>1, <1>4
<1>9. CASE x \in DOMAIN values
  <2>1. values[x] \in Nat
    BY <1>9 DEF Valued
  <2>2. PICK c \in Nat : b <= c /\ values[x] <= c
    <3>1. CASE values[x] <= b
      BY <3>1
    <3>2. CASE ~(values[x] <= b)
      BY <2>1, <3>2
    <3> QED BY <3>1, <3>2
  <2>3. \A i \in DOMAIN values : i <= x => values[i] <= c
    BY <1>7, <1>8, <2>1, <2>2 DEF Valued
  <2> QED BY <1>4, <2>3
<1>10. CASE x \notin DOMAIN values
  BY <1>4, <1>7, <1>8, <1>10
<1> QED BY <1>9, <1>10

\* sorted(values)[k - 1] is one of the values, in its place.
LEMMA KthIs ==
    ASSUME NEW values, Valued(values), NEW k \in 1..Number(values)
    PROVE  /\ Kth(values, k) \in Nat
           /\ \E i \in DOMAIN values : values[i] = Kth(values, k)
           /\ Cardinality(Below(values, Kth(values, k))) < k
           /\ k <= Cardinality(Upto(values, Kth(values, k)))
<1> DEFINE T == {v \in Nat : k <= Cardinality(Upto(values, v))}
<1>1. Number(values) \in Nat /\ k \in Nat /\ k >= 1
  BY Parts
<1>2. T # {}
  <2>1. PICK b \in Nat : \A i \in DOMAIN values : values[i] <= b
    BY Bounded
  <2>2. Upto(values, b) = DOMAIN values
    BY <2>1 DEF Upto
  <2>3. b \in T
    BY <1>1, <2>2 DEF Number
  <2> QED BY <2>3
<1>3. PICK v \in T : \A u \in T : v <= u
  <2>1. T \in SUBSET Nat
    OBVIOUS
  <2> HIDE DEF T
  <2> QED BY <1>2, <2>1, LeastNat
<1>4. v \in Nat /\ k <= Cardinality(Upto(values, v))
  BY <1>3
<1>5. Cardinality(Below(values, v)) < k
  <2>1. CASE v = 0
    <3>1. Below(values, v) = {}
      BY <2>1 DEF Below, Valued
    <3> QED BY <1>1, <3>1, FS_EmptySet
  <2>2. CASE v # 0
    <3>1. v - 1 \in Nat /\ ~(v <= v - 1)
      BY <1>4, <2>2
    <3>2. v - 1 \notin T
      <4> HIDE DEF T
      <4> QED BY <1>3, <3>1
    <3>3. ~(k <= Cardinality(Upto(values, v - 1)))
      BY <3>1, <3>2
    <3>4. Upto(values, v - 1) = Below(values, v)
      BY <1>4, <3>1 DEF Upto, Below, Valued
    <3>5. Cardinality(Below(values, v)) \in Nat
      BY Parts DEF Below
    <3> QED BY <1>1, <3>3, <3>4, <3>5
  <2> QED BY <2>1, <2>2
<1>6. \E i \in DOMAIN values : values[i] = v
  <2>1. SUFFICES ASSUME \A i \in DOMAIN values : values[i] # v PROVE FALSE
    OBVIOUS
  <2>2. Upto(values, v) = Below(values, v)
    BY <1>4, <2>1 DEF Upto, Below, Valued
  <2>3. Cardinality(Below(values, v)) \in Nat
    BY Parts DEF Below
  <2> QED BY <1>1, <1>4, <1>5, <2>2, <2>3
<1> DEFINE Is(u) == /\ Cardinality({i \in DOMAIN values : values[i] < u}) < k
                    /\ k <= Cardinality({i \in DOMAIN values : values[i] <= u})
           V == {values[i] : i \in DOMAIN values}
<1>7. Kth(values, k) = CHOOSE u \in V : Is(u)
  BY DEF Kth
<1>8. v \in V /\ Is(v)
  BY <1>4, <1>5, <1>6 DEF Below, Upto
<1>9. Kth(values, k) \in V /\ Is(Kth(values, k))
  <2> HIDE DEF V, Is
  <2> QED BY <1>7, <1>8
<1> QED BY <1>9 DEF Below, Upto, Valued

\* Later in the order is no less.
LEMMA KthGrows ==
    ASSUME NEW values, Valued(values), NEW j \in 1..Number(values), NEW k \in 1..Number(values),
           j <= k
    PROVE  Kth(values, j) <= Kth(values, k)
<1>1. Number(values) \in Nat
  BY Parts
<1>2. PICK u, v : u = Kth(values, j) /\ v = Kth(values, k)
  OBVIOUS
<1>3. /\ u \in Nat /\ v \in Nat
      /\ Cardinality(Below(values, u)) < j /\ k <= Cardinality(Upto(values, v))
  BY <1>2, KthIs
<1>4. ASSUME v < u PROVE FALSE
  <2>1. Upto(values, v) \subseteq Below(values, u)
    BY <1>3, <1>4 DEF Upto, Below, Valued
  <2>2. Cardinality(Upto(values, v)) <= Cardinality(Below(values, u))
        /\ Cardinality(Upto(values, v)) \in Nat /\ Cardinality(Below(values, u)) \in Nat
    BY <2>1, Parts DEF Upto, Below
  <2> QED BY <1>1, <1>3, <2>2
<1> QED BY <1>2, <1>3, <1>4

\* A value that all but few have has every place that is not at the ends.
LEMMA KthCommon ==
    ASSUME NEW values, Valued(values), NEW p \in Nat, NEW k \in 1..Number(values),
           LET off == Cardinality({i \in DOMAIN values : values[i] # p})
           IN  off < k /\ k <= Number(values) - off
    PROVE  Kth(values, k) = p
<1> DEFINE Off == {i \in DOMAIN values : values[i] # p}
           On  == {i \in DOMAIN values : values[i] = p}
<1>1. /\ Number(values) \in Nat /\ Cardinality(Off) \in Nat /\ Cardinality(On) \in Nat
      /\ IsFiniteSet(Off) /\ IsFiniteSet(On)
      /\ Off \in SUBSET DOMAIN values /\ On \in SUBSET DOMAIN values
  BY Parts
<1>2. Cardinality(On) = Number(values) - Cardinality(Off)
  <2>1. On \cap Off = {} /\ On \cup Off = DOMAIN values
    OBVIOUS
  <2>2. Cardinality(On \cup Off) = Cardinality(On) + Cardinality(Off) - Cardinality(On \cap Off)
    <3> HIDE DEF On, Off
    <3> QED BY <1>1, FS_Union
  <2>3. Cardinality(On \cap Off) = 0
    <3> HIDE DEF On, Off
    <3> QED BY <2>1, FS_EmptySet
  <2> HIDE DEF On, Off
  <2> QED BY <1>1, <2>1, <2>2, <2>3 DEF Number
<1>3. PICK v : v = Kth(values, k)
  OBVIOUS
<1>4. /\ v \in Nat /\ Cardinality(Below(values, v)) < k /\ k <= Cardinality(Upto(values, v))
      /\ Below(values, v) \in SUBSET DOMAIN values /\ Upto(values, v) \in SUBSET DOMAIN values
  BY <1>3, KthIs DEF Below, Upto
<1>5. Cardinality(Off) < k /\ k <= Number(values) - Cardinality(Off)
  OBVIOUS
<1>6. CASE v < p
  <2>1. Upto(values, v) \subseteq Off
    BY <1>4, <1>6 DEF Upto, Valued
  <2>2. Cardinality(Upto(values, v)) <= Cardinality(Off)
    <3> HIDE DEF Off
    <3> QED BY <1>1, <1>4, <2>1, Parts
  <2>3. Cardinality(Upto(values, v)) \in Nat
    BY <1>4, Parts
  <2> HIDE DEF Off
  <2> QED BY <1>1, <1>4, <1>5, <2>2, <2>3
<1>7. CASE p < v
  <2>1. On \subseteq Below(values, v)
    BY <1>4, <1>7 DEF Below, Valued
  <2>2. Cardinality(On) <= Cardinality(Below(values, v))
    <3> HIDE DEF On
    <3> QED BY <1>1, <1>4, <2>1, Parts
  <2>3. Cardinality(Below(values, v)) \in Nat
    BY <1>4, Parts
  <2> HIDE DEF On, Off
  <2> QED BY <1>1, <1>2, <1>4, <1>5, <2>2, <2>3
<1> QED BY <1>3, <1>4, <1>6, <1>7

-----------------------------------------------------------------------------
(* The median *)

LEMMA Halves ==
    ASSUME NEW n \in Nat
    PROVE  \E h \in Nat, r \in {0, 1} :
              n = 2 * h + r /\ n \div 2 = h /\ (n + 1) \div 2 = h + r
<1>1. PICK h, r : h = n \div 2 /\ r = n % 2
  OBVIOUS
<1>2. h \in Nat /\ r \in {0, 1} /\ n = 2 * h + r
  BY <1>1
<1>3. (n + 1) \div 2 = h + r
  BY <1>2
<1> QED BY <1>1, <1>2, <1>3

LEMMA HalfPlaces ==
    ASSUME NEW n \in Nat \ {0}
    PROVE  (n + 1) \div 2 \in 1..n /\ n \div 2 + 1 \in 1..n /\ 2 * (n \div 2 + 1) > n
<1>1. PICK h \in Nat, r \in {0, 1} :
         n = 2 * h + r /\ n \div 2 = h /\ (n + 1) \div 2 = h + r
  BY Halves
<1> QED BY <1>1

LEMMA MedianNat ==
    ASSUME NEW values, Valued(values), DOMAIN values # {}
    PROVE  Median(values) \in Nat /\ Number(values) \in Nat \ {0}
<1>1. Number(values) \in Nat \ {0}
  BY Parts, FS_EmptySet DEF Number
<1> QED BY <1>1, HalfPlaces, KthIs DEF Median

\* All but fewer than half agree.
LEMMA MedianCommon ==
    ASSUME NEW values, Valued(values), NEW p \in Nat,
           2 * Cardinality({i \in DOMAIN values : values[i] # p}) < Number(values)
    PROVE  Median(values) = 2 * p
<1>1. PICK n, off : n = Number(values) /\ off = Cardinality({i \in DOMAIN values : values[i] # p})
  OBVIOUS
<1>2. n \in Nat /\ off \in Nat /\ 2 * off < n
  BY <1>1, Parts
<1>3. PICK h \in Nat, r \in {0, 1} :
         n = 2 * h + r /\ n \div 2 = h /\ (n + 1) \div 2 = h + r
  BY <1>2, Halves
<1>4. /\ h + r \in 1..n /\ h + 1 \in 1..n
      /\ off < h + r /\ h + r <= n - off /\ off < h + 1 /\ h + 1 <= n - off
  BY <1>2, <1>3
<1>5. Kth(values, h + r) = p /\ Kth(values, h + 1) = p
  BY <1>1, <1>4, KthCommon
<1> QED BY <1>1, <1>3, <1>5 DEF Median

\* At least half are above zero.
LEMMA MedianAbove ==
    ASSUME NEW values, Valued(values), Number(values) # 0,
           2 * Cardinality({i \in DOMAIN values : values[i] > 0}) >= Number(values)
    PROVE  Median(values) > 0
<1> DEFINE On == {i \in DOMAIN values : values[i] > 0}
           n == Number(values)
<1>1. n \in Nat /\ Cardinality(On) \in Nat /\ 2 * Cardinality(On) >= n
      /\ Cardinality(On) <= n
  BY Parts
<1>2. n # 0
  OBVIOUS
<1>3. PICK k, v, u : /\ k = n \div 2 + 1 /\ v = Kth(values, k)
                     /\ u = Kth(values, (n + 1) \div 2)
  OBVIOUS
<1>4. k \in 1..n /\ u \in Nat /\ v \in Nat /\ 2 * k > n
  <2>1. k \in 1..n /\ (n + 1) \div 2 \in 1..n /\ 2 * k > n
    BY <1>1, <1>2, <1>3, HalfPlaces
  <2> QED BY <1>3, <2>1, KthIs
<1>5. k <= Cardinality(Upto(values, v))
  BY <1>3, <1>4, KthIs
<1>6. v # 0
  <2>1. SUFFICES ASSUME v = 0 PROVE FALSE
    OBVIOUS
  <2>2. Upto(values, v) \cap On = {} /\ Upto(values, v) \in SUBSET DOMAIN values
    BY <2>1 DEF Upto, Valued
  <2>3. Cardinality(Upto(values, v)) + Cardinality(On) <= n
    BY <2>2, Apart
  <2>4. Cardinality(Upto(values, v)) \in Nat
    BY <2>2, Parts
  <2> HIDE DEF On
  <2> QED BY <1>1, <1>4, <1>5, <2>3, <2>4
<1>7. Median(values) = u + v
  BY <1>3 DEF Median
<1> QED BY <1>4, <1>6, <1>7

-----------------------------------------------------------------------------
(* The quartiles *)

\* _quantile at a fourth of a place.
Quantile(values, at) ==
    LET low  == Kth(values, at \div 4 + 1)
        high == Kth(values, Min({at \div 4 + 2, Number(values)}))
    IN  4 * low + (high - low) * (at % 4)

LEMMA MinOfTwo ==
    ASSUME NEW a \in Nat, NEW b \in Nat
    PROVE  Min({a, b}) = IF a <= b THEN a ELSE b
<1>1. PICK m : m = IF a <= b THEN a ELSE b
  OBVIOUS
<1>2. m \in {a, b} /\ \A y \in {a, b} : m <= y
  BY <1>1
<1>3. Min({a, b}) = CHOOSE x \in {a, b} : \A y \in {a, b} : x <= y
  BY DEF Min
<1>4. \A x \in {a, b} : (\A y \in {a, b} : x <= y) => x = m
  BY <1>1, <1>2
<1> QED BY <1>1, <1>2, <1>3, <1>4

\* The two neighbours in the order a quantile is between.
Neighbours(values, at, q, r, next) ==
    /\ at = 4 * q + r /\ q \in Nat /\ r \in 0..3
    /\ q + 1 \in 1..Number(values) /\ next \in 1..Number(values)
    /\ next = IF q + 2 <= Number(values) THEN q + 2 ELSE Number(values)
    /\ Kth(values, q + 1) \in Nat /\ Kth(values, next) \in Nat
    /\ Kth(values, q + 1) <= Kth(values, next)
    /\ Quantile(values, at) = 4 * Kth(values, q + 1) + (Kth(values, next) - Kth(values, q + 1)) * r

LEMMA Fourths ==
    ASSUME NEW at \in Nat
    PROVE  at \div 4 \in Nat /\ at % 4 \in 0..3 /\ at = 4 * (at \div 4) + (at % 4)
OBVIOUS

LEMMA QuantileBetween ==
    ASSUME NEW values, Valued(values), NEW at \in Nat, at <= 3 * (Number(values) - 1),
           Number(values) # 0
    PROVE  \E q, r, next : Neighbours(values, at, q, r, next)
<1> DEFINE n == Number(values)
<1>1. n \in Nat \ {0}
  BY Parts
<1>2. PICK q, r : q = at \div 4 /\ r = at % 4
  OBVIOUS
<1>3. q \in Nat /\ r \in 0..3 /\ at = 4 * q + r
  BY <1>2, Fourths
<1>4. q + 1 \in 1..n
  <2>1. PICK m : m = n
    OBVIOUS
  <2>2. 4 * q <= 3 * (m - 1)
    BY <1>1, <1>3, <2>1
  <2> QED BY <1>1, <1>3, <2>1, <2>2
<1>5. PICK next : next = IF q + 2 <= n THEN q + 2 ELSE n
  OBVIOUS
<1>6. next \in 1..n /\ q + 1 <= next
  <2>1. PICK m : m = n
    OBVIOUS
  <2> HIDE DEF n
  <2> QED BY <1>1, <1>3, <1>4, <1>5, <2>1
<1>7. Min({q + 2, n}) = next
  <2>1. q + 2 \in Nat /\ n \in Nat
    BY <1>1, <1>3
  <2> HIDE DEF n
  <2> QED BY <1>5, <2>1, MinOfTwo
<1>8. Kth(values, q + 1) \in Nat /\ Kth(values, next) \in Nat
      /\ Kth(values, q + 1) <= Kth(values, next)
  BY <1>4, <1>6, KthIs, KthGrows
<1>9. Quantile(values, at) = 4 * Kth(values, q + 1) + (Kth(values, next) - Kth(values, q + 1)) * r
  BY <1>2, <1>7 DEF Quantile
<1>10. Neighbours(values, at, q, r, next)
  BY <1>3, <1>4, <1>5, <1>6, <1>8, <1>9 DEF Neighbours
<1> QED BY <1>10

\* A step of a quarter of a difference is within it.
LEMMA Steps ==
    ASSUME NEW d \in Nat, NEW r \in 0..3
    PROVE  d * r \in Nat /\ d * r <= 4 * d /\ \A s \in 0..3 : r <= s => d * r <= d * s
<1>1. r = 0 \/ r = 1 \/ r = 2 \/ r = 3
  OBVIOUS
<1>2. d * 0 = 0 /\ d * 1 = d /\ d * 2 = 2 * d /\ d * 3 = 3 * d
  OBVIOUS
<1>3. \A s \in 0..3 : s = 0 \/ s = 1 \/ s = 2 \/ s = 3
  OBVIOUS
<1> QED BY <1>1, <1>2, <1>3

LEMMA QuantileGrows ==
    ASSUME NEW values, Valued(values), NEW a \in Nat, NEW b \in Nat, a <= b,
           b <= 3 * (Number(values) - 1), Number(values) # 0
    PROVE  Quantile(values, a) \in Nat /\ Quantile(values, a) <= Quantile(values, b)
<1>1. PICK n : n = Number(values)
  OBVIOUS
<1>2. n \in Nat /\ a <= 3 * (Number(values) - 1)
  BY <1>1, Parts
<1>3. PICK q, r, next : Neighbours(values, a, q, r, next)
  BY <1>2, QuantileBetween
<1>4. PICK q2, r2, next2 : Neighbours(values, b, q2, r2, next2)
  BY QuantileBetween
<1>5. PICK low, high, low2, high2 :
         /\ low = Kth(values, q + 1) /\ high = Kth(values, next)
         /\ low2 = Kth(values, q2 + 1) /\ high2 = Kth(values, next2)
  OBVIOUS
<1>6. /\ a = 4 * q + r /\ q \in Nat /\ r \in 0..3 /\ q + 1 \in 1..n /\ next \in 1..n
      /\ next = (IF q + 2 <= n THEN q + 2 ELSE n)
      /\ low \in Nat /\ high \in Nat /\ low <= high
      /\ Quantile(values, a) = 4 * low + (high - low) * r
  BY <1>1, <1>3, <1>5 DEF Neighbours
<1>7. /\ b = 4 * q2 + r2 /\ q2 \in Nat /\ r2 \in 0..3 /\ q2 + 1 \in 1..n /\ next2 \in 1..n
      /\ next2 = (IF q2 + 2 <= n THEN q2 + 2 ELSE n)
      /\ low2 \in Nat /\ high2 \in Nat /\ low2 <= high2
      /\ Quantile(values, b) = 4 * low2 + (high2 - low2) * r2
  BY <1>1, <1>4, <1>5 DEF Neighbours
<1>8. PICK x, y : x = (high - low) * r /\ y = (high2 - low2) * r2
  OBVIOUS
<1>9. x \in Nat /\ y \in Nat /\ x <= 4 * (high - low)
  <2>1. high - low \in Nat /\ high2 - low2 \in Nat
    BY <1>6, <1>7
  <2> QED BY <1>6, <1>7, <1>8, <2>1, Steps
<1>10. Quantile(values, a) \in Nat
  BY <1>6, <1>8, <1>9
<1>11. CASE q = q2
  <2>1. low = low2 /\ high = high2 /\ r <= r2 /\ high - low \in Nat
    <3>1. next = next2
      BY <1>6, <1>7, <1>11
    <3>2. r <= r2 /\ high - low \in Nat
      BY <1>6, <1>7, <1>11
    <3> QED BY <1>5, <1>11, <3>1, <3>2
  <2>2. x <= y
    BY <1>6, <1>7, <1>8, <2>1, Steps
  <2> QED BY <1>6, <1>7, <1>8, <1>9, <1>10, <2>1, <2>2
<1>12. CASE q # q2
  <2>1. q < q2
    BY <1>6, <1>7, <1>12
  <2>2. next = q + 2 /\ next <= q2 + 1
    BY <1>2, <1>6, <1>7, <2>1
  <2>3. high <= low2
    <3>1. next \in 1..Number(values) /\ q2 + 1 \in 1..Number(values)
      BY <1>1, <1>6, <1>7
    <3> QED BY <1>5, <2>2, <3>1, KthGrows
  <2>4. Quantile(values, a) <= 4 * high
    BY <1>6, <1>8, <1>9
  <2>5. 4 * low2 <= Quantile(values, b)
    BY <1>7, <1>8, <1>9
  <2>6. Quantile(values, b) \in Nat
    BY <1>7, <1>8, <1>9
  <2> QED BY <1>6, <1>7, <1>10, <2>3, <2>4, <2>5, <2>6
<1> QED BY <1>11, <1>12

\* Fewer than a quarter of the values are not p.
LEMMA QuantileCommon ==
    ASSUME NEW values, Valued(values), NEW p \in Nat, NEW k \in 1..3,
           4 * Cardinality({i \in DOMAIN values : values[i] # p}) < Number(values)
    PROVE  Quantile(values, k * (Number(values) - 1)) = 4 * p
<1>1. PICK n, off : n = Number(values) /\ off = Cardinality({i \in DOMAIN values : values[i] # p})
  OBVIOUS
<1>2. n \in Nat /\ off \in Nat /\ 4 * off < n
  BY <1>1, Parts
<1>3. PICK at : at = k * (n - 1)
  OBVIOUS
<1>4. at \in Nat /\ n - 1 <= at /\ at <= 3 * (n - 1) /\ n # 0
  <2>1. k = 1 \/ k = 2 \/ k = 3
    OBVIOUS
  <2> QED BY <1>2, <1>3, <2>1
<1>5. PICK q, r, next : Neighbours(values, at, q, r, next)
  BY <1>1, <1>4, QuantileBetween
<1>6. PICK low, high : low = Kth(values, q + 1) /\ high = Kth(values, next)
  OBVIOUS
<1>7. /\ q + 1 \in 1..n /\ next \in 1..n /\ low \in Nat /\ high \in Nat
      /\ q \in Nat /\ next = (IF q + 2 <= n THEN q + 2 ELSE n)
      /\ r \in 0..3 /\ at = 4 * q + r /\ Quantile(values, at) = 4 * low + (high - low) * r
  BY <1>1, <1>5, <1>6 DEF Neighbours
<1>8. low = p
  <2>1. off < q + 1 /\ q + 1 <= n - off
    BY <1>2, <1>4, <1>7
  <2> QED BY <1>1, <1>6, <1>7, <2>1, KthCommon
<1>9. CASE r = 0
  <2>1. (high - low) * r = 0
    BY <1>7, <1>9
  <2> QED BY <1>1, <1>3, <1>7, <1>8, <2>1
<1>10. CASE r # 0
  <2>1. off < next /\ next <= n - off
    BY <1>2, <1>4, <1>7, <1>10
  <2>2. high = p
    BY <1>1, <1>6, <1>7, <2>1, KthCommon
  <2>3. (high - low) * r = 0
    BY <1>7, <1>8, <2>2
  <2> QED BY <1>1, <1>3, <1>7, <1>8, <2>3
<1> QED BY <1>9, <1>10

LEMMA QuartileIs ==
    ASSUME NEW values, NEW k
    PROVE  Quartile(values, k) = Quantile(values, k * (Number(values) - 1))
BY DEF Quartile, Quantile

\* Skew is a share of the spread, and none where all but a few agree.
LEMMA SkewIs ==
    ASSUME NEW values, Valued(values), DOMAIN values # {}
    PROVE  /\ Abs(Skew(values).lean) <= Skew(values).spread
           /\ \A p \in Nat :
                 4 * Cardinality({i \in DOMAIN values : values[i] # p}) < Number(values)
                    => Skew(values).lean = 0
<1> DEFINE n == Number(values)
<1>1. n \in Nat \ {0}
  BY MedianNat
<1>2. PICK x, y, z : /\ x = Quantile(values, 1 * (n - 1)) /\ y = Quantile(values, 2 * (n - 1))
                     /\ z = Quantile(values, 3 * (n - 1))
  OBVIOUS
<1>3. x \in Nat /\ y \in Nat /\ z \in Nat /\ x <= y /\ y <= z
  <2>1. /\ 1 * (n - 1) \in Nat /\ 2 * (n - 1) \in Nat /\ 3 * (n - 1) \in Nat
        /\ 1 * (n - 1) <= 2 * (n - 1) /\ 2 * (n - 1) <= 3 * (n - 1)
    BY <1>1
  <2>2. 2 * (n - 1) <= 3 * (Number(values) - 1) /\ 3 * (n - 1) <= 3 * (Number(values) - 1)
    BY <2>1
  <2> QED BY <1>1, <1>2, <2>1, <2>2, QuantileGrows
<1>4. Skew(values).lean = z + x - 2 * y /\ Skew(values).spread = z - x
  BY <1>2, QuartileIs DEF Skew
<1>5. Abs(Skew(values).lean) <= Skew(values).spread
  BY <1>3, <1>4 DEF Abs
<1>6. ASSUME NEW p \in Nat,
             4 * Cardinality({i \in DOMAIN values : values[i] # p}) < Number(values)
      PROVE  Skew(values).lean = 0
  <2>1. x = 4 * p /\ y = 4 * p /\ z = 4 * p
    BY <1>2, <1>6, QuantileCommon
  <2> QED BY <1>4, <2>1
<1> QED BY <1>5, <1>6

-----------------------------------------------------------------------------
(* The gaps *)

\* Gaps of a conversation: whole numbers, none of them zero.
Positive == Nat \ {0}
GapList(gaps) == gaps \in Seq(Positive)

LEMMA GapsAre ==
    ASSUME NEW gaps, GapList(gaps)
    PROVE  /\ Valued(gaps) /\ Len(gaps) \in Nat /\ DOMAIN gaps = 1..Len(gaps)
           /\ Number(gaps) = Len(gaps)
           /\ \A i \in DOMAIN gaps : gaps[i] \in Positive
<1>1. Len(gaps) \in Nat /\ DOMAIN gaps = 1..Len(gaps) /\ gaps \in [1..Len(gaps) -> Positive]
  BY LenProperties DEF GapList
<1>2. Number(gaps) = Len(gaps)
  BY <1>1, FS_Interval DEF Number
<1>3. Valued(gaps)
  BY <1>1 DEF Valued, Positive
<1> QED BY <1>1, <1>2, <1>3

\* A gap is near few multiples, and divided by one it stays whole.
LEMMA Folds ==
    ASSUME NEW gaps, GapList(gaps), NEW c \in Positive
    PROVE  /\ Valued(Folded(gaps, c)) /\ DOMAIN Folded(gaps, c) = Agreeing(gaps, c)
           /\ \A i \in Agreeing(gaps, c) : Multiple(gaps[i], c) \in Multiples(gaps[i], c)
           /\ \A i \in Agreeing(gaps, c) : Folded(gaps, c)[i] = gaps[i] \div Multiple(gaps[i], c)
           /\ Agreeing(gaps, c) \in SUBSET DOMAIN gaps
<1>1. Agreeing(gaps, c) \in SUBSET DOMAIN gaps
  BY DEF Agreeing
<1>2. ASSUME NEW i \in Agreeing(gaps, c)
      PROVE  Multiple(gaps[i], c) \in Multiples(gaps[i], c)
  <2>1. Multiples(gaps[i], c) # {}
    BY DEF Agreeing
  <2> QED BY <2>1 DEF Multiple
<1>3. \A i \in Agreeing(gaps, c) : Folded(gaps, c)[i] = gaps[i] \div Multiple(gaps[i], c)
  BY DEF Folded
<1>4. DOMAIN Folded(gaps, c) = Agreeing(gaps, c)
  BY DEF Folded
<1>5. ASSUME NEW i \in Agreeing(gaps, c) PROVE Folded(gaps, c)[i] \in Nat
  <2>1. gaps[i] \in Nat
    BY <1>1, GapsAre DEF Positive
  <2>2. Multiple(gaps[i], c) \in 1..6
    BY <1>2 DEF Multiples, MAX_FOLD
  <2>3. \A g \in Nat, m \in 1..6 : g \div m \in Nat
    OBVIOUS
  <2> QED BY <1>3, <2>1, <2>2, <2>3
<1>6. \E n \in Nat : Agreeing(gaps, c) \subseteq 1..n
  BY <1>1, GapsAre
<1>7. Valued(Folded(gaps, c))
  BY <1>4, <1>5, <1>6 DEF Valued
<1> QED BY <1>1, <1>2, <1>3, <1>4, <1>7

-----------------------------------------------------------------------------
(* The deviation *)

Distances(folded, c) == [i \in DOMAIN folded |-> Abs(folded[i] - c)]

LEMMA DistancesAre ==
    ASSUME NEW folded, Valued(folded), NEW c \in Nat
    PROVE  /\ Valued(Distances(folded, c)) /\ DOMAIN Distances(folded, c) = DOMAIN folded
           /\ Number(Distances(folded, c)) = Number(folded)
           /\ Deviation(folded, c) = Median(Distances(folded, c))
           /\ {i \in DOMAIN folded : Distances(folded, c)[i] # 0}
                 = {i \in DOMAIN folded : folded[i] # c}
           /\ {i \in DOMAIN folded : Distances(folded, c)[i] > 0}
                 = {i \in DOMAIN folded : folded[i] # c}
<1>1. DOMAIN Distances(folded, c) = DOMAIN folded
      /\ \A i \in DOMAIN folded : Distances(folded, c)[i] = Abs(folded[i] - c)
  BY DEF Distances
<1>2. \A i \in DOMAIN folded : folded[i] \in Nat
  BY DEF Valued
<1>3. \A i \in DOMAIN folded :
         /\ Distances(folded, c)[i] \in Nat
         /\ (Distances(folded, c)[i] # 0) <=> (folded[i] # c)
         /\ (Distances(folded, c)[i] > 0) <=> (folded[i] # c)
  BY <1>1, <1>2 DEF Abs
<1>4. Valued(Distances(folded, c))
  BY <1>1, <1>3 DEF Valued
<1>5. Deviation(folded, c) = Median(Distances(folded, c))
  BY DEF Deviation, Distances
<1> QED BY <1>1, <1>3, <1>4, <1>5 DEF Number

\* No deviation where more than half of the folded gaps are the period.
LEMMA NoDeviation ==
    ASSUME NEW folded, Valued(folded), NEW c \in Nat,
           2 * Cardinality({i \in DOMAIN folded : folded[i] # c}) < Number(folded)
    PROVE  Deviation(folded, c) = 0
<1> DEFINE d == Distances(folded, c)
<1>1. /\ Valued(d) /\ DOMAIN d = DOMAIN folded /\ Number(d) = Number(folded)
      /\ Deviation(folded, c) = Median(d)
      /\ {i \in DOMAIN folded : d[i] # 0} = {i \in DOMAIN folded : folded[i] # c}
  BY DistancesAre
<1>2. 2 * Cardinality({i \in DOMAIN d : d[i] # 0}) < Number(d)
  BY <1>1
<1> HIDE DEF d
<1>3. Median(d) = 2 * 0
  BY <1>1, <1>2, MedianCommon
<1> QED BY <1>1, <1>3

\* Some where at least half of them are not.
LEMMA SomeDeviation ==
    ASSUME NEW folded, Valued(folded), NEW c \in Nat, Number(folded) # 0,
           2 * Cardinality({i \in DOMAIN folded : folded[i] # c}) >= Number(folded)
    PROVE  Deviation(folded, c) > 0
<1> DEFINE d == Distances(folded, c)
<1>1. /\ Valued(d) /\ DOMAIN d = DOMAIN folded /\ Number(d) = Number(folded)
      /\ Deviation(folded, c) = Median(d)
      /\ {i \in DOMAIN folded : d[i] > 0} = {i \in DOMAIN folded : folded[i] # c}
  BY DistancesAre
<1>2. 2 * Cardinality({i \in DOMAIN d : d[i] > 0}) >= Number(d) /\ Number(d) # 0
  BY <1>1
<1> HIDE DEF d
<1> QED BY <1>1, <1>2, MedianAbove

LEMMA DeviationNat ==
    ASSUME NEW folded, Valued(folded), DOMAIN folded # {}, NEW c \in Nat
    PROVE  Deviation(folded, c) \in Nat
<1>1. PICK d : d = Distances(folded, c)
  OBVIOUS
<1>2. Valued(d) /\ DOMAIN d # {} /\ Deviation(folded, c) = Median(d)
  BY <1>1, DistancesAre
<1> QED BY <1>2, MedianNat

-----------------------------------------------------------------------------
(* How much of a conversation a period explains *)

LEMMA MaxOfTwo ==
    ASSUME NEW a \in Int
    PROVE  Max({0, a}) = IF a <= 0 THEN 0 ELSE a
<1>1. PICK m : m = IF a <= 0 THEN 0 ELSE a
  OBVIOUS
<1>2. m \in {0, a} /\ \A y \in {0, a} : m >= y
  BY <1>1
<1>3. Max({0, a}) = CHOOSE x \in {0, a} : \A y \in {0, a} : x >= y
  BY DEF Max
<1>4. \A x \in {0, a} : (\A y \in {0, a} : x >= y) => x = m
  BY <1>1, <1>2
<1> QED BY <1>1, <1>2, <1>3, <1>4

LEMMA TimesGrow ==
    ASSUME NEW x \in Nat, NEW y \in Nat, NEW z \in Nat, x <= y
    PROVE  x * z \in Nat /\ x * z <= y * z /\ z * x <= z * y
<1>1. y - x \in Nat /\ y = x + (y - x)
  OBVIOUS
<1>2. y * z = x * z + (y - x) * z /\ (y - x) * z \in Nat /\ x * z \in Nat
  BY <1>1
<1>3. z * x = x * z /\ z * y = y * z
  OBVIOUS
<1> QED BY <1>2, <1>3

LEMMA TimesLess ==
    ASSUME NEW x \in Nat, NEW y \in Nat, NEW z \in Positive, x < y
    PROVE  x * z < y * z /\ z * x < z * y /\ x * z \in Nat /\ y * z \in Nat
<1>1. PICK d : d = y - x
  OBVIOUS
<1>2. d \in Nat /\ d >= 1 /\ y = x + d /\ z \in Nat /\ z >= 1
  BY <1>1 DEF Positive
<1>3. y * z = x * z + d * z /\ d * z \in Nat /\ x * z \in Nat /\ y * z \in Nat
  BY <1>2
<1>4. 1 * z <= d * z
  BY <1>2, TimesGrow
<1>5. z * x = x * z /\ z * y = y * z
  BY <1>2
<1> QED BY <1>2, <1>3, <1>4, <1>5

\* What every fit found is, and is no more than.
Explains(gaps, c, fit) ==
    /\ fit.period = c /\ fit.deviation \in Nat /\ fit.agreeing \in Nat
    /\ fit.agreeing <= Len(gaps) /\ fit # NoFit
    /\ Share(fit) \in Nat /\ Share(fit) <= 2 * c * Len(gaps)
    /\ fit.agreeing < Len(gaps) \/ fit.deviation > 0 => Share(fit) < 2 * c * Len(gaps)

LEMMA FitExplains ==
    ASSUME NEW gaps, GapList(gaps), NEW c \in Positive, Fit(gaps, c) # NoFit
    PROVE  /\ Explains(gaps, c, Fit(gaps, c)) /\ Agreeing(gaps, c) # {}
           /\ Fit(gaps, c).deviation = Deviation(Folded(gaps, c), c)
           /\ Fit(gaps, c).agreeing = Cardinality(Agreeing(gaps, c))
<1>1. PICK fit, n : fit = Fit(gaps, c) /\ n = Len(gaps)
  OBVIOUS
<1>2. /\ Agreeing(gaps, c) # {} /\ fit.period = c
      /\ fit.deviation = Deviation(Folded(gaps, c), c)
      /\ fit.agreeing = Cardinality(Agreeing(gaps, c))
  BY <1>1 DEF Fit
<1>3. n \in Nat /\ c \in Nat /\ c > 0
  BY <1>1, GapsAre DEF Positive
<1>4. fit.agreeing \in Nat /\ fit.agreeing <= n
  BY <1>1, <1>2, Folds, GapsAre, Parts
<1>5. fit.deviation \in Nat
  BY <1>2, <1>3, Folds, DeviationNat
<1>6. PICK a, d, m : a = fit.agreeing /\ d = fit.deviation /\ m = Max({0, 2 * c - d})
  OBVIOUS
<1>7. a \in Nat /\ d \in Nat /\ a <= n /\ m \in Nat /\ m <= 2 * c
      /\ (d > 0 => m < 2 * c)
  BY <1>3, <1>4, <1>5, <1>6, MaxOfTwo
<1>8. Share(fit) = m * a
  BY <1>2, <1>6 DEF Share
<1>9. a # 0
  BY <1>2, <1>6, Folds, GapsAre, Parts, FS_EmptySet
<1>10. PICK t : t = 2 * c
  OBVIOUS
<1>11. t \in Nat /\ t > 0 /\ m <= t /\ (d > 0 => m < t) /\ t * n = 2 * c * n
  BY <1>3, <1>7, <1>10
<1>12. m * a \in Nat /\ m * a <= t * a /\ t * a \in Nat /\ t * a <= t * n /\ t * n \in Nat
  BY <1>3, <1>7, <1>11, TimesGrow
<1>13. m * a <= t * n
  BY <1>12
<1>14. ASSUME a < n \/ d > 0 PROVE m * a < t * n
  <2>1. CASE a < n
    <3>1. t * a < t * n
      BY <1>3, <1>7, <1>11, <2>1, TimesLess DEF Positive
    <3> QED BY <1>12, <3>1
  <2>2. CASE d > 0
    <3>1. m * a < t * a
      BY <1>7, <1>9, <1>11, <2>2, TimesLess DEF Positive
    <3> QED BY <1>12, <3>1
  <2> QED BY <1>14, <2>1, <2>2
<1>15. Explains(gaps, c, fit)
  BY <1>1, <1>2, <1>4, <1>5, <1>6, <1>8, <1>11, <1>12, <1>13, <1>14 DEF Explains
<1> QED BY <1>1, <1>2, <1>15

-----------------------------------------------------------------------------
(* The schedule most of the gaps keep *)

\* Most gaps are p, and the others some multiples of it.
Schedule(gaps, p) ==
    /\ \E i \in DOMAIN gaps : gaps[i] = p
    /\ Exact(gaps, p) /\ 2 * Times(gaps, p) > Len(gaps)

LEMMA SixTimes ==
    ASSUME NEW m \in 1..6, NEW p \in Nat
    PROVE  \/ m = 1 /\ m * p = p
           \/ m = 2 /\ m * p = 2 * p
           \/ m = 3 /\ m * p = 3 * p
           \/ m = 4 /\ m * p = 4 * p
           \/ m = 5 /\ m * p = 5 * p
           \/ m = 6 /\ m * p = 6 * p
<1>1. m = 1 \/ m = 2 \/ m = 3 \/ m = 4 \/ m = 5 \/ m = 6
  OBVIOUS
<1> QED BY <1>1

\* It is the shortest gap.
LEMMA Shortest ==
    ASSUME NEW gaps, GapList(gaps), NEW p, Schedule(gaps, p)
    PROVE  /\ p \in Positive /\ 1 \in 1..Len(gaps) /\ Kth(gaps, 1) = p
           /\ \A i \in DOMAIN gaps : p <= gaps[i]
<1>1. PICK j \in DOMAIN gaps : gaps[j] = p
  BY DEF Schedule
<1>2. p \in Positive /\ 1 \in 1..Len(gaps)
  BY <1>1, GapsAre
<1>3. ASSUME NEW i \in DOMAIN gaps PROVE p <= gaps[i]
  <2>1. PICK m \in 1..6 : gaps[i] = m * p
    BY DEF Schedule, Exact, MAX_FOLD
  <2> QED BY <1>2, <2>1, SixTimes DEF Positive
<1>4. PICK v : v = Kth(gaps, 1)
  OBVIOUS
<1>5. v \in Nat /\ (\E i \in DOMAIN gaps : gaps[i] = v) /\ Cardinality(Below(gaps, v)) < 1
  BY <1>2, <1>4, GapsAre, KthIs
<1>6. p <= v
  BY <1>3, <1>5
<1>7. ASSUME p < v PROVE FALSE
  <2>1. j \in Below(gaps, v)
    BY <1>1, <1>7 DEF Below
  <2>2. IsFiniteSet(Below(gaps, v)) /\ Cardinality(Below(gaps, v)) \in Nat
    BY GapsAre, Parts DEF Below
  <2>3. Cardinality(Below(gaps, v)) = 0
    BY <1>5, <2>2
  <2> QED BY <2>1, <2>2, <2>3, FS_EmptySet
<1>8. v = p
  BY <1>2, <1>5, <1>6, <1>7 DEF Positive
<1> QED BY <1>2, <1>3, <1>4, <1>8

\* An exact multiple is near no other one.
LEMMA OneMultiple ==
    ASSUME NEW p \in Positive, NEW m \in 1..6
    PROVE  Multiples(m * p, p) = {m}
<1>1. p \in Nat /\ p > 0
  BY DEF Positive
<1>2. ASSUME NEW k \in 1..6 PROVE 100 * Abs(m * p - k * p) <= 35 * p <=> k = m
  <2>1. PICK x, y : x = m * p /\ y = k * p
    OBVIOUS
  <2>2. \/ m = 1 /\ x = p
        \/ m = 2 /\ x = 2 * p
        \/ m = 3 /\ x = 3 * p
        \/ m = 4 /\ x = 4 * p
        \/ m = 5 /\ x = 5 * p
        \/ m = 6 /\ x = 6 * p
    BY <1>1, <2>1, SixTimes
  <2>3. \/ k = 1 /\ y = p
        \/ k = 2 /\ y = 2 * p
        \/ k = 3 /\ y = 3 * p
        \/ k = 4 /\ y = 4 * p
        \/ k = 5 /\ y = 5 * p
        \/ k = 6 /\ y = 6 * p
    BY <1>1, <2>1, SixTimes
  <2>4. x \in Nat /\ y \in Nat
    BY <1>1, <2>2, <2>3
  <2>5. CASE x = y
    <3>1. k = m /\ Abs(x - y) = 0
      BY <1>1, <2>2, <2>3, <2>4, <2>5 DEF Abs
    <3> QED BY <1>1, <2>1, <3>1
  <2>6. CASE x < y
    <3>1. p <= y - x /\ k # m
      BY <1>1, <2>2, <2>3, <2>6
    <3>2. Abs(x - y) = y - x
      BY <2>4, <2>6 DEF Abs
    <3> QED BY <1>1, <2>1, <2>4, <3>1, <3>2
  <2>7. CASE y < x
    <3>1. p <= x - y /\ k # m
      BY <1>1, <2>2, <2>3, <2>7
    <3>2. Abs(x - y) = x - y
      BY <2>4, <2>7 DEF Abs
    <3> QED BY <1>1, <2>1, <2>4, <3>1, <3>2
  <2> QED BY <2>4, <2>5, <2>6, <2>7
<1> QED BY <1>2 DEF Multiples, MAX_FOLD, FoldTolerance

LEMMA BackToPeriod ==
    ASSUME NEW p \in Nat, NEW m \in 1..6
    PROVE  (m * p) \div m = p
<1>1. /\ (1 * p) \div 1 = p /\ (2 * p) \div 2 = p /\ (3 * p) \div 3 = p
      /\ (4 * p) \div 4 = p /\ (5 * p) \div 5 = p /\ (6 * p) \div 6 = p
  OBVIOUS
<1>2. m = 1 \/ m = 2 \/ m = 3 \/ m = 4 \/ m = 5 \/ m = 6
  OBVIOUS
<1> QED BY <1>1, <1>2

-----------------------------------------------------------------------------
(* What the period of the schedule explains: all of it *)

LEMMA OwnFold ==
    ASSUME NEW gaps, GapList(gaps), NEW p, Schedule(gaps, p)
    PROVE  /\ Agreeing(gaps, p) = DOMAIN gaps
           /\ \A i \in DOMAIN gaps :
                 /\ Multiple(gaps[i], p) \in 1..6 /\ gaps[i] = Multiple(gaps[i], p) * p
                 /\ Folded(gaps, p)[i] = p
<1>1. p \in Positive
  BY Shortest
<1>2. ASSUME NEW i \in DOMAIN gaps
      PROVE  \E m \in 1..6 : gaps[i] = m * p /\ Multiples(gaps[i], p) = {m}
  <2>1. PICK m \in 1..6 : gaps[i] = m * p
    BY DEF Schedule, Exact, MAX_FOLD
  <2> QED BY <1>1, <2>1, OneMultiple
<1>3. Agreeing(gaps, p) = DOMAIN gaps
  BY <1>2 DEF Agreeing
<1>4. ASSUME NEW i \in DOMAIN gaps
      PROVE  /\ Multiple(gaps[i], p) \in 1..6 /\ gaps[i] = Multiple(gaps[i], p) * p
             /\ Folded(gaps, p)[i] = p
  <2>1. PICK m \in 1..6 : gaps[i] = m * p /\ Multiples(gaps[i], p) = {m}
    BY <1>2
  <2>2. Multiple(gaps[i], p) = m
    BY <1>1, <1>3, <2>1, Folds
  <2>3. Folded(gaps, p)[i] = (m * p) \div m
    BY <1>1, <1>3, <2>1, <2>2, Folds
  <2>4. (m * p) \div m = p
    BY <1>1, BackToPeriod DEF Positive
  <2> QED BY <2>1, <2>2, <2>3, <2>4
<1> QED BY <1>3, <1>4

LEMMA OwnMisses ==
    ASSUME NEW gaps, GapList(gaps), NEW p, Schedule(gaps, p)
    PROVE  Missed(gaps, p) = Cardinality(CheckIns(gaps, p))
<1>1. p \in Nat /\ p > 0
  BY Shortest DEF Positive
<1>2. ASSUME NEW i \in DOMAIN gaps
      PROVE  1..Multiple(gaps[i], p) - 1 = {k \in 1..MAX_FOLD : k * p < gaps[i]}
  <2>1. PICK m : m = Multiple(gaps[i], p)
    OBVIOUS
  <2>2. m \in 1..6 /\ gaps[i] = m * p
    BY <2>1, OwnFold
  <2>3. ASSUME NEW k \in 1..6 PROVE k * p < m * p <=> k <= m - 1
    <3>1. PICK x, y : x = m * p /\ y = k * p
      OBVIOUS
    <3>2. \/ m = 1 /\ x = p
          \/ m = 2 /\ x = 2 * p
          \/ m = 3 /\ x = 3 * p
          \/ m = 4 /\ x = 4 * p
          \/ m = 5 /\ x = 5 * p
          \/ m = 6 /\ x = 6 * p
      BY <1>1, <2>2, <3>1, SixTimes
    <3>3. \/ k = 1 /\ y = p
          \/ k = 2 /\ y = 2 * p
          \/ k = 3 /\ y = 3 * p
          \/ k = 4 /\ y = 4 * p
          \/ k = 5 /\ y = 5 * p
          \/ k = 6 /\ y = 6 * p
      BY <1>1, <3>1, SixTimes
    <3> QED BY <1>1, <3>1, <3>2, <3>3
  <2>4. ASSUME NEW k
        PROVE  k \in 1..m - 1 <=> k \in {z \in 1..6 : z * p < gaps[i]}
    BY <2>2, <2>3
  <2> QED BY <2>1, <2>4 DEF MAX_FOLD
<1>3. Agreeing(gaps, p) = DOMAIN gaps
  BY OwnFold
<1>4. UNION {{i} \X (1..Multiple(gaps[i], p) - 1) : i \in Agreeing(gaps, p)} = CheckIns(gaps, p)
  BY <1>2, <1>3 DEF CheckIns
<1> QED BY <1>4 DEF Missed

LEMMA OwnFit ==
    ASSUME NEW gaps, GapList(gaps), NEW p, Schedule(gaps, p)
    PROVE  /\ Fit(gaps, p) # NoFit /\ Fit(gaps, p).period = p
           /\ Fit(gaps, p).missed = Cardinality(CheckIns(gaps, p))
           /\ Fit(gaps, p).deviation = 0 /\ Fit(gaps, p).agreeing = Len(gaps)
           /\ Share(Fit(gaps, p)) = 2 * p * Len(gaps)
<1>1. p \in Positive /\ p \in Nat /\ 1 \in 1..Len(gaps)
  BY Shortest DEF Positive
<1>2. Valued(gaps) /\ Len(gaps) \in Nat /\ Number(gaps) = Len(gaps) /\ DOMAIN gaps # {}
  BY <1>1, GapsAre
<1>3. Agreeing(gaps, p) # {}
  BY <1>2, OwnFold
<1>4. Cardinality(Agreeing(gaps, p)) = Len(gaps)
  BY <1>2, OwnFold DEF Number
<1>5. Deviation(Folded(gaps, p), p) = 0
  <2>1. PICK f : f = Folded(gaps, p)
    OBVIOUS
  <2>2. Valued(f) /\ DOMAIN f = DOMAIN gaps /\ \A i \in DOMAIN f : f[i] = p
    BY <1>1, <2>1, Folds, OwnFold
  <2>3. {i \in DOMAIN f : f[i] # p} = {} /\ Number(f) = Len(gaps)
    BY <1>2, <2>2 DEF Number
  <2>4. Cardinality({i \in DOMAIN f : f[i] # p}) = 0
    BY <2>3, FS_EmptySet
  <2>5. 2 * Cardinality({i \in DOMAIN f : f[i] # p}) < Number(f)
    BY <1>1, <1>2, <2>3, <2>4
  <2> QED BY <1>1, <2>1, <2>2, <2>5, NoDeviation
<1>6. PICK fit : fit = Fit(gaps, p)
  OBVIOUS
<1>7. /\ fit.period = p /\ fit.missed = Cardinality(CheckIns(gaps, p))
      /\ fit.deviation = 0 /\ fit.agreeing = Len(gaps)
  BY <1>3, <1>4, <1>5, <1>6, OwnMisses DEF Fit
<1>8. fit # NoFit
  BY <1>1, <1>7 DEF NoFit, Positive
<1>9. Share(fit) = 2 * p * Len(gaps)
  <2>1. Max({0, 2 * p - 0}) = 2 * p
    BY <1>1, MaxOfTwo
  <2> QED BY <1>7, <2>1 DEF Share
<1> QED BY <1>6, <1>7, <1>8, <1>9

-----------------------------------------------------------------------------
(* A longer period explains less *)

LEMMA OnceOrNever ==
    ASSUME NEW p \in Positive, NEW c \in Nat, p < c, NEW m \in Multiples(p, c)
    PROVE  m = 1
<1>1. m \in 1..6 /\ 100 * Abs(p - m * c) <= 35 * c
  BY DEF Multiples, MAX_FOLD, FoldTolerance
<1>2. PICK x : x = m * c
  OBVIOUS
<1>3. p \in Nat /\ p > 0 /\ c > 0
  BY DEF Positive
<1>4. \/ m = 1 /\ x = c
      \/ m = 2 /\ x = 2 * c
      \/ m = 3 /\ x = 3 * c
      \/ m = 4 /\ x = 4 * c
      \/ m = 5 /\ x = 5 * c
      \/ m = 6 /\ x = 6 * c
  BY <1>1, <1>2, SixTimes
<1>5. m # 1 => Abs(p - x) = x - p /\ x - p > c
  BY <1>3, <1>4 DEF Abs
<1> QED BY <1>1, <1>2, <1>3, <1>4, <1>5

LEMMA LongerIsWorse ==
    ASSUME NEW gaps, GapList(gaps), NEW p, Schedule(gaps, p), NEW c \in Positive, p < c,
           Fit(gaps, c) # NoFit
    PROVE  Share(Fit(gaps, c)) < 2 * c * Len(gaps)
<1>1. PICK fit, n : fit = Fit(gaps, c) /\ n = Len(gaps)
  OBVIOUS
<1>2. p \in Positive /\ n \in Nat /\ Valued(gaps) /\ Number(gaps) = n /\ c \in Nat
  BY <1>1, Shortest, GapsAre DEF Positive
<1>3. /\ Explains(gaps, c, fit)
      /\ fit.deviation = Deviation(Folded(gaps, c), c)
      /\ fit.agreeing = Cardinality(Agreeing(gaps, c))
  BY <1>1, FitExplains
<1>4. CASE fit.agreeing < n
  BY <1>1, <1>3, <1>4 DEF Explains
<1>5. CASE ~(fit.agreeing < n)
  <2>1. fit.agreeing = n
    BY <1>1, <1>2, <1>3, <1>5 DEF Explains
  <2>2. Agreeing(gaps, c) = DOMAIN gaps
    <3>1. Agreeing(gaps, c) \subseteq DOMAIN gaps /\ IsFiniteSet(DOMAIN gaps)
      BY <1>2, Folds, Parts
    <3>2. Cardinality(Agreeing(gaps, c)) = Cardinality(DOMAIN gaps)
      BY <1>2, <1>3, <2>1 DEF Number
    <3> QED BY <3>1, <3>2, FS_Subset
  <2>3. PICK f : f = Folded(gaps, c)
    OBVIOUS
  <2>4. Valued(f) /\ DOMAIN f = DOMAIN gaps /\ Number(f) = n
    BY <1>2, <2>2, <2>3, Folds DEF Number
  <2>5. ASSUME NEW i \in DOMAIN gaps, gaps[i] = p PROVE f[i] # c
    <3>1. Multiple(gaps[i], c) = 1
      BY <1>2, <2>2, <2>5, Folds, OnceOrNever
    <3>2. f[i] = p \div 1
      BY <2>2, <2>3, <2>5, <3>1, Folds
    <3> QED BY <1>2, <3>2 DEF Positive
  <2>6. Times(gaps, p) <= Cardinality({i \in DOMAIN f : f[i] # c})
    <3>1. {i \in DOMAIN gaps : gaps[i] = p} \subseteq {i \in DOMAIN f : f[i] # c}
      BY <2>4, <2>5
    <3>2. Cardinality({i \in DOMAIN gaps : gaps[i] = p})
             <= Cardinality({i \in DOMAIN f : f[i] # c})
      BY <2>4, <3>1, Parts
    <3> QED BY <3>2 DEF Times
  <2>7. Times(gaps, p) \in Nat /\ Cardinality({i \in DOMAIN f : f[i] # c}) \in Nat
    BY <1>2, <2>4, Parts DEF Times
  <2>8. /\ 2 * Cardinality({i \in DOMAIN f : f[i] # c}) >= Number(f)
        /\ Number(f) # 0
    <3>1. n # 0
      BY <1>1, GapsAre DEF Schedule
    <3>2. 2 * Times(gaps, p) > Number(f)
      BY <1>1, <2>4 DEF Schedule
    <3> QED BY <1>2, <2>4, <2>6, <2>7, <3>1, <3>2
  <2>9. fit.deviation > 0
    BY <1>2, <1>3, <2>3, <2>4, <2>8, SomeDeviation
  <2> QED BY <1>1, <1>3, <2>9 DEF Explains
<1> QED BY <1>1, <1>4, <1>5

-----------------------------------------------------------------------------
(* The candidates *)

LEMMA DivBelow ==
    ASSUME NEW a \in Nat, NEW d \in Positive, NEW n \in Nat, a < d * n
    PROVE  a \div d \in Nat /\ a \div d < n
<1>1. PICK q : q = a \div d
  OBVIOUS
<1>2. d \in Nat /\ d > 0
  BY DEF Positive
<1>3. q \in Nat /\ d * q <= a
  BY <1>1, <1>2
<1>4. ASSUME n <= q PROVE FALSE
  <2>1. d * n <= d * q /\ d * n \in Nat /\ d * q \in Nat
    BY <1>2, <1>3, <1>4, TimesGrow
  <2> QED BY <1>3, <2>1
<1> QED BY <1>1, <1>3, <1>4

\* What is sampled is in the list, the shortest gap with it.
LEMMA Sampled ==
    ASSUME NEW n \in Nat \ {0}
    PROVE  Sample(n) \subseteq 1..n /\ 1 \in Sample(n)
<1>1. MaxCandidates \in Positive /\ MaxCandidates \in Nat /\ 1 \in 1..MaxCandidates
  BY GapsAssumption DEF Positive
<1>2. CASE n <= MaxCandidates
  BY <1>2 DEF Sample
<1>3. CASE ~(n <= MaxCandidates)
  <2>1. Sample(n) = {((i - 1) * n) \div MaxCandidates + 1 : i \in 1..MaxCandidates}
    BY <1>3 DEF Sample
  <2>2. ASSUME NEW i \in 1..MaxCandidates
        PROVE  ((i - 1) * n) \div MaxCandidates + 1 \in 1..n
    <3>1. PICK j, a : j = i - 1 /\ a = j * n
      OBVIOUS
    <3>2. j \in Nat /\ j < MaxCandidates
      BY <1>1, <3>1
    <3>3. a \in Nat /\ a < MaxCandidates * n
      BY <1>1, <3>1, <3>2, TimesLess DEF Positive
    <3>4. a \div MaxCandidates \in Nat /\ a \div MaxCandidates < n
      BY <1>1, <3>3, DivBelow
    <3> QED BY <3>1, <3>4
  <2>3. ((1 - 1) * n) \div MaxCandidates + 1 = 1
    <3>1. (1 - 1) * n = 0
      OBVIOUS
    <3>2. 0 \div MaxCandidates = 0
      <4>1. 0 < MaxCandidates * 1
        BY <1>1 DEF Positive
      <4>2. 0 \div MaxCandidates \in Nat /\ 0 \div MaxCandidates < 1
        BY <1>1, <4>1, DivBelow
      <4> QED BY <4>2
    <3> QED BY <3>1, <3>2
  <2> QED BY <1>1, <2>1, <2>2, <2>3
<1> QED BY <1>2, <1>3

LEMMA CandidatesAre ==
    ASSUME NEW gaps, GapList(gaps), Len(gaps) # 0
    PROVE  Candidates(gaps) \subseteq Positive
<1>1. PICK n : n = Len(gaps)
  OBVIOUS
<1>2. n \in Nat \ {0} /\ Valued(gaps) /\ Number(gaps) = n
  BY <1>1, GapsAre
<1>3. Kth(gaps, 1) \in Positive
  <2>1. 1 \in 1..Number(gaps)
    BY <1>2
  <2> QED BY <1>2, <2>1, KthIs, GapsAre
<1>4. ASSUME NEW c \in Candidates(gaps) PROVE c \in Positive
  <2>1. PICK k \in Sample(n), m \in 1..6 : c = Kth(gaps, k) \div m /\ 2 * c >= Kth(gaps, 1)
    BY <1>1 DEF Candidates, MAX_FOLD
  <2>2. Kth(gaps, k) \in Nat
    BY <1>2, Sampled, KthIs
  <2>3. \A g \in Nat : g \div m \in Nat
    OBVIOUS
  <2>4. c \in Nat
    BY <2>1, <2>2, <2>3
  <2> QED BY <1>3, <2>1, <2>4 DEF Positive
<1> QED BY <1>4

LEMMA OwnCandidate ==
    ASSUME NEW gaps, GapList(gaps), NEW p, Schedule(gaps, p)
    PROVE  p \in Candidates(gaps)
<1>1. p \in Positive /\ Len(gaps) \in Nat \ {0} /\ Kth(gaps, 1) = p
  BY Shortest, GapsAre
<1>2. 1 \in Sample(Len(gaps)) /\ 1 \in 1..6
  BY <1>1, Sampled
<1>3. p = Kth(gaps, 1) \div 1 /\ 2 * p >= Kth(gaps, 1)
  BY <1>1 DEF Positive
<1>4. p \in {Kth(gaps, k) \div m : k \in Sample(Len(gaps)), m \in 1..6}
  BY <1>2, <1>3
<1> QED BY <1>3, <1>4 DEF Candidates, MAX_FOLD

-----------------------------------------------------------------------------
(* The choice of the period *)

Found(gaps, fit) ==
    fit = NoFit \/ \E c \in Positive : fit = Fit(gaps, c) /\ Fit(gaps, c) # NoFit

\* The best fit as long as only longer periods than p have been tried.
Longer(gaps, p, fit) ==
    \/ fit = NoFit
    \/ /\ fit.period \in Positive /\ p < fit.period
       /\ Share(fit) \in Nat /\ Share(fit) < 2 * fit.period * Len(gaps)

\* Where the fitting stands with each schedule the gaps keep.
Chosen(gaps, periods, fit) ==
    \A p \in Positive : Schedule(gaps, p) =>
        IF p \in periods THEN Longer(gaps, p, fit) ELSE fit = Fit(gaps, p)

PInv ==
    /\ GapList(deltas) /\ stage \in {"capture", "fit", "done"}
    /\ Found(deltas, best)
    /\ stage = "capture" => best = NoFit
    /\ stage = "fit" => left \subseteq Positive /\ Chosen(deltas, left, best)
    /\ stage = "done" => best = NoFit \/ Chosen(deltas, {}, best)

LEMMA FirstLonger ==
    ASSUME NEW gaps, GapList(gaps), NEW p \in Positive, Schedule(gaps, p),
           NEW c \in Positive, p < c
    PROVE  Longer(gaps, p, Fit(gaps, c))
<1>1. CASE Fit(gaps, c) = NoFit
  BY <1>1 DEF Longer
<1>2. CASE Fit(gaps, c) # NoFit
  <2>1. PICK fit : fit = Fit(gaps, c)
    OBVIOUS
  <2>2. Explains(gaps, c, fit) /\ Share(fit) < 2 * c * Len(gaps)
    BY <1>2, <2>1, FitExplains, LongerIsWorse
  <2>3. Longer(gaps, p, fit)
    BY <2>2 DEF Explains, Longer
  <2> QED BY <2>1, <2>3
<1> QED BY <1>1, <1>2

\* It is taken when its turn comes, whatever was best before.
LEMMA OwnTaken ==
    ASSUME NEW gaps, GapList(gaps), NEW p \in Positive, Schedule(gaps, p),
           NEW fit, Longer(gaps, p, fit)
    PROVE  fit = NoFit \/ Better(Fit(gaps, p), fit)
<1>1. CASE fit = NoFit
  BY <1>1
<1>2. CASE fit # NoFit
  <2>1. PICK n, c, s : n = Len(gaps) /\ c = fit.period /\ s = Share(fit)
    OBVIOUS
  <2>2. n \in Nat /\ c \in Positive /\ c \in Nat /\ s \in Nat /\ s < 2 * c * n /\ p \in Nat
    BY <1>2, <2>1, GapsAre DEF Longer, Positive
  <2>3. 2 * c * n \in Nat /\ s * p < (2 * c * n) * p
    <3>1. PICK t : t = 2 * c
      OBVIOUS
    <3>2. t \in Nat
      BY <2>2, <3>1
    <3>3. t * n \in Nat
      BY <2>2, <3>2
    <3> QED BY <2>2, <3>1, <3>3, TimesLess
  <2>4. (2 * c * n) * p = (2 * p * n) * c
    BY <2>2
  <2>5. Share(Fit(gaps, p)) = 2 * p * n /\ Fit(gaps, p).period = p
    BY <2>1, OwnFit
  <2>6. (2 * p * n) * c > s * p
    BY <2>2, <2>3, <2>4
  <2> QED BY <2>1, <2>5, <2>6 DEF Better
<1> QED BY <1>1, <1>2

\* And it stays.
LEMMA OwnKept ==
    ASSUME NEW gaps, GapList(gaps), NEW p \in Positive, Schedule(gaps, p),
           NEW c \in Positive, Fit(gaps, c) # NoFit
    PROVE  ~Better(Fit(gaps, c), Fit(gaps, p)) /\ Fit(gaps, p) # NoFit
<1>1. PICK n, s : n = Len(gaps) /\ s = Share(Fit(gaps, c))
  OBVIOUS
<1>2. s \in Nat /\ s <= 2 * c * n /\ Fit(gaps, c).period = c
  BY <1>1, FitExplains DEF Explains
<1>3. n \in Nat /\ c \in Nat /\ p \in Nat
  BY <1>1, GapsAre DEF Positive
<1>4. PICK u : u = 2 * c * n
  OBVIOUS
<1>5. u \in Nat
  <2>1. PICK t : t = 2 * c
    OBVIOUS
  <2>2. t \in Nat
    BY <1>3, <2>1
  <2>3. t * n \in Nat
    BY <1>3, <2>2
  <2> QED BY <1>4, <2>1, <2>3
<1>6. s * p \in Nat /\ s * p <= u * p /\ u * p \in Nat
  BY <1>2, <1>3, <1>4, <1>5, TimesGrow
<1>7. u * p = (2 * p * n) * c
  BY <1>3, <1>4
<1>8. /\ Share(Fit(gaps, p)) = 2 * p * n /\ Fit(gaps, p).period = p
      /\ Fit(gaps, p) # NoFit
  BY <1>1, OwnFit
<1> QED BY <1>1, <1>2, <1>6, <1>7, <1>8 DEF Better

-----------------------------------------------------------------------------
(* The invariant *)

LEMMA CallbackKeeps ==
    ASSUME PInv, NEW gap \in Gaps, Callback(gap)
    PROVE  PInv'
<1>1. /\ stage = "capture" /\ stage' = stage /\ best' = best
      /\ deltas' = IF gap > 0 THEN Append(deltas, gap * Unit) ELSE deltas
  BY DEF Callback
<1>2. GapList(deltas')
  <2>1. CASE gap > 0
    <3>1. gap * Unit \in Positive
      BY <2>1, GapsAssumption DEF Positive, Unit
    <3>2. Append(deltas, gap * Unit) \in Seq(Positive)
      BY <3>1, AppendProperties DEF PInv, GapList
    <3> QED BY <1>1, <2>1, <3>2 DEF GapList
  <2>2. CASE ~(gap > 0)
    BY <1>1, <2>2 DEF PInv
  <2> QED BY <2>1, <2>2
<1>3. best' = NoFit
  BY <1>1 DEF PInv
<1> QED BY <1>1, <1>2, <1>3 DEF PInv, Found

LEMMA ScoreKeeps ==
    ASSUME PInv, ScoreGroup
    PROVE  PInv'
<1>1. stage = "capture" /\ deltas' = deltas /\ best' = best /\ best = NoFit /\ GapList(deltas)
  BY DEF ScoreGroup, PInv
<1>2. CASE flows < MinConnections \/ Len(deltas) < MinConnections - 1
  <2>1. stage' = "done"
    BY <1>2 DEF ScoreGroup
  <2> QED BY <1>1, <2>1 DEF PInv, Found
<1>3. CASE ~(flows < MinConnections \/ Len(deltas) < MinConnections - 1)
  <2>1. stage' = "fit" /\ left' = Candidates(deltas)
    BY <1>3 DEF ScoreGroup
  <2>2. Len(deltas) # 0
    BY <1>1, <1>3, GapsAre, GapsAssumption
  <2>3. left' \subseteq Positive
    BY <1>1, <2>1, <2>2, CandidatesAre
  <2>4. Chosen(deltas, Candidates(deltas), NoFit)
    BY <1>1, OwnCandidate DEF Chosen, Longer
  <2> QED BY <1>1, <2>1, <2>3, <2>4 DEF PInv, Found
<1> QED BY <1>2, <1>3

LEMMA TryKeeps ==
    ASSUME PInv, NEW period \in left, Try(period)
    PROVE  PInv'
<1>1. /\ stage = "fit" /\ stage' = stage /\ deltas' = deltas /\ left' = left \ {period}
      /\ \A c \in left : c <= period
  BY DEF Try
<1>2. PICK fit : fit = Fit(deltas, period)
  OBVIOUS
<1>3. best' = IF fit # NoFit /\ (best = NoFit \/ Better(fit, best)) THEN fit ELSE best
  BY <1>2 DEF Try
<1>4. /\ GapList(deltas) /\ left \subseteq Positive /\ period \in Positive
      /\ Found(deltas, best) /\ Chosen(deltas, left, best)
  BY <1>1 DEF PInv
<1>5. Found(deltas, best')
  BY <1>2, <1>3, <1>4 DEF Found
<1>6. ASSUME NEW p \in Positive, Schedule(deltas, p)
      PROVE  IF p \in left' THEN Longer(deltas, p, best') ELSE best' = Fit(deltas, p)
  <2>1. CASE p \in left /\ p = period
    <3>1. Longer(deltas, p, best)
      BY <1>4, <1>6, <2>1 DEF Chosen
    <3>2. best = NoFit \/ Better(fit, best)
      BY <1>2, <1>4, <1>6, <2>1, <3>1, OwnTaken
    <3>3. fit # NoFit
      BY <1>2, <1>4, <1>6, <2>1, OwnFit
    <3> QED BY <1>1, <1>2, <1>3, <2>1, <3>2, <3>3
  <2>2. CASE p \in left /\ p # period
    <3>1. p < period /\ p \in left'
      BY <1>1, <1>4, <2>2 DEF Positive
    <3>2. Longer(deltas, p, best)
      BY <1>4, <1>6, <2>2 DEF Chosen
    <3>3. Longer(deltas, p, fit)
      BY <1>2, <1>4, <1>6, <3>1, FirstLonger
    <3> QED BY <1>3, <3>1, <3>2, <3>3
  <2>3. CASE p \notin left
    <3>1. best = Fit(deltas, p) /\ p \notin left'
      BY <1>1, <1>4, <1>6, <2>3 DEF Chosen
    <3>2. fit = NoFit \/ (~Better(fit, best) /\ best # NoFit)
      BY <1>2, <1>4, <1>6, <3>1, OwnKept
    <3> QED BY <1>3, <3>1, <3>2
  <2> QED BY <2>1, <2>2, <2>3
<1>7. Chosen(deltas, left', best')
  BY <1>6 DEF Chosen
<1> QED BY <1>1, <1>4, <1>5, <1>7 DEF PInv

LEMMA TriedKeeps ==
    ASSUME PInv, Tried
    PROVE  PInv'
<1>1. /\ stage = "fit" /\ left = {} /\ stage' = "done"
      /\ deltas' = deltas /\ best' = best /\ left' = left
  BY DEF Tried
<1> QED BY <1>1 DEF PInv

LEMMA FitInvariant == FitSpec => []PInv
<1>1. FitInit => PInv
  <2>1. <<>> \in Seq(Positive)
    OBVIOUS
  <2> QED BY <2>1 DEF FitInit, PInv, GapList, Found
<1>2. PInv /\ [FitNext]_fvars => PInv'
  <2> SUFFICES ASSUME PInv, [FitNext]_fvars PROVE PInv'
    OBVIOUS
  <2>1. ASSUME NEW gap \in Gaps, Callback(gap) PROVE PInv'
    BY <2>1, CallbackKeeps
  <2>2. CASE ScoreGroup
    BY <2>2, ScoreKeeps
  <2>3. ASSUME NEW period \in left, Try(period) PROVE PInv'
    BY <2>3, TryKeeps
  <2>4. CASE Tried
    BY <2>4, TriedKeeps
  <2>5. CASE UNCHANGED fvars
    BY <2>5 DEF fvars, PInv
  <2> QED BY <2>1, <2>2, <2>3, <2>4, <2>5 DEF FitNext
<1> QED BY <1>1, <1>2, PTL DEF FitSpec

-----------------------------------------------------------------------------
(* What it says of a conversation that has been scored *)

LEMMA ScheduleFound ==
    ASSUME PInv
    PROVE  MissesFolded
<1> SUFFICES ASSUME Scored, NEW i \in DOMAIN deltas,
                    Exact(deltas, deltas[i]), 2 * Times(deltas, deltas[i]) > Len(deltas)
             PROVE  /\ best.period = deltas[i]
                    /\ best.missed = Cardinality(CheckIns(deltas, deltas[i]))
                    /\ best.deviation = 0 /\ best.agreeing = Len(deltas)
  BY DEF MissesFolded
<1>1. PICK p : p = deltas[i]
  OBVIOUS
<1>2. Schedule(deltas, p) /\ GapList(deltas) /\ p \in Positive
  <2>1. GapList(deltas)
    BY DEF PInv
  <2> QED BY <1>1, <2>1, GapsAre DEF Schedule
<1>3. best = Fit(deltas, p)
  BY <1>2 DEF PInv, Scored, Chosen
<1> QED BY <1>1, <1>2, <1>3, OwnFit

LEMMA StragglersFound ==
    ASSUME PInv
    PROVE  StragglersForgiven
<1> SUFFICES ASSUME Scored PROVE StragglersForgiven
  BY DEF StragglersForgiven
<1>1. PICK c \in Positive : best = Fit(deltas, c) /\ Fit(deltas, c) # NoFit
  BY DEF PInv, Found, Scored
<1>2. GapList(deltas) /\ c \in Nat
  BY DEF PInv, Positive
<1>3. PICK f : f = Folded(deltas, c)
  OBVIOUS
<1>4. /\ best.period = c /\ best.deviation = Deviation(f, c)
      /\ Agreeing(deltas, c) # {}
  BY <1>1, <1>2, <1>3, FitExplains DEF Explains
<1>5. Valued(f) /\ DOMAIN f # {}
  BY <1>2, <1>3, <1>4, Folds
<1>6. Abs(Skew(f).lean) <= Skew(f).spread
  BY <1>5, SkewIs
<1>7. PICK off : off = Cardinality({i \in DOMAIN f : f[i] # c})
  OBVIOUS
<1>8. off \in Nat /\ Number(f) \in Nat /\ Number(f) # 0
  <2>1. off \in Nat /\ IsFiniteSet(DOMAIN f) /\ Number(f) \in Nat
    BY <1>5, <1>7, Parts DEF Valued
  <2>2. Number(f) # 0
    BY <1>5, <2>1, FS_EmptySet DEF Number
  <2> QED BY <2>1, <2>2
<1>9. Deviation(f, c) = 0 <=> 2 * off < Number(f)
  <2>1. ASSUME 2 * off < Number(f) PROVE Deviation(f, c) = 0
    BY <1>2, <1>5, <1>7, <2>1, NoDeviation
  <2>2. ASSUME ~(2 * off < Number(f)) PROVE Deviation(f, c) > 0
    <3>1. 2 * off >= Number(f)
      BY <1>8, <2>2
    <3> QED BY <1>2, <1>5, <1>7, <1>8, <3>1, SomeDeviation
  <2>3. ASSUME Deviation(f, c) > 0 PROVE Deviation(f, c) # 0
    BY <2>3
  <2> QED BY <2>1, <2>2, <2>3
<1>10. ASSUME 4 * off < Number(f) PROVE Skew(f).lean = 0
  BY <1>2, <1>5, <1>7, <1>10, SkewIs
<1> QED BY <1>3, <1>4, <1>6, <1>7, <1>9, <1>10 DEF StragglersForgiven

-----------------------------------------------------------------------------

(* A conversation most of whose gaps are one period, and the others exact  *)
(* multiples of it up to six, is given that period by _best_fit, with no   *)
(* deviation and with every missed check-in counted.                       *)
THEOREM MissesAreFolded == FitSpec => []MissesFolded
BY FitInvariant, ScheduleFound, PTL

(* Whatever period _best_fit gives a conversation, it has no deviation if  *)
(* and only if more than half of the folded gaps are on it; fewer than a   *)
(* quarter off it do not change its skew, and the skew _bowley_skew        *)
(* returns is a share.                                                     *)
THEOREM StragglersAreForgiven == FitSpec => []StragglersForgiven
BY FitInvariant, StragglersFound, PTL
=============================================================================
