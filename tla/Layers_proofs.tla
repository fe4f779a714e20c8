---------------------------- MODULE Layers_proofs ----------------------------
(***************************************************************************)
(* Theorems about the decoder, for every packet, cut after any byte, and   *)
(* every limit on tags and extension headers.                              *)
(*                                                                         *)
(* Outcome says what decode makes of the first n bytes of a packet, not    *)
(* header by header but from the packet as a whole: where its IP header    *)
(* begins, what its length claims leave of it, how far its chain can be    *)
(* walked.  That the walk over the headers comes to it is the invariant    *)
(* (Progress); the properties, which compare decodings that share nothing, *)
(* are then about Outcome alone.                                           *)
(***************************************************************************)
EXTENDS Layers, FiniteSetTheorems, SequenceTheorems, TLAPS

Vlan(p) == IF Tags(p) = <<>> THEN <<>> ELSE <<Head(Tags(p))>>

Framed(p, proto, ports, payload, fragmented) ==
    [described |-> TRUE, proto |-> proto, ports |-> ports, payload |-> payload,
     fragmented |-> fragmented, vlan |-> Vlan(p)]

\* What the transport header makes of the rest bytes behind the last header.
Carries(p, rest, fragmented) ==
    IF p.upper = "tcp"
    THEN IF rest < 20 \/ p.claim < 20 THEN None
         ELSE Framed(p, "tcp", <<"ports", "flags">>,
                     IF p.claim <= rest THEN rest - p.claim ELSE 0, fragmented)
    ELSE IF p.upper = "udp"
    THEN IF rest < 8 THEN None
         ELSE Framed(p, "udp", <<"ports">>,
                     IF p.claim >= 8 /\ p.claim < rest THEN p.claim - 8 ELSE rest - 8,
                     fragmented)
    ELSE Framed(p, p.upper, <<>>, rest, fragmented)

\* Where the IP header begins, and whether n bytes and the link layer, with
\* its tags, lead to it.
Begins(p) == LinkLen(p) + 4 * Len(Tags(p))

Reached(p, n) ==
    /\ p.linktype # "other" /\ Carried(p) # "arp"
    /\ Len(Tags(p)) <= MaxVlanTags /\ n > Begins(p)

Held4(p, n) ==
    n >= 20 /\ p.version = 4 /\ p.ihl >= 20 /\ Trim4(p, n) >= p.ihl

InIpv4(p, n) ==
    IF ~Held4(p, n) THEN None
    ELSE IF p.fragment = "later" THEN Framed(p, p.upper, <<>>, 0, TRUE)
    ELSE Carries(p, Trim4(p, n) - p.ihl, p.fragment = "first")

\* The first k extension headers are within t bytes and the limit, and none
\* of them ends the walk.
Walked(p, t, k) ==
    /\ k <= MaxExtHeaders /\ 40 + ChainTo(p, k) <= t
    /\ \A i \in 1..k : p.chain[i].kind # "later frag"

\* The walk through t bytes ends at the fragment header k.
EndsAt(p, t, k) ==
    /\ p.chain[k].kind = "later frag" /\ Walked(p, t, k - 1)
    /\ k <= MaxExtHeaders /\ 40 + ChainTo(p, k) <= t

Ending(p, t) == CHOOSE k \in 1..Len(p.chain) : EndsAt(p, t, k)

Fragmented(p, k) == \E i \in 1..k : Fragment(p.chain[i])

InIpv6(p, n) ==
    LET t == Trim6(p, n) IN
    IF n < 40 \/ p.version # 6 THEN None
    ELSE IF \E k \in 1..Len(p.chain) : EndsAt(p, t, k)
    THEN Framed(p, NextHeader(p, Ending(p, t)), <<>>, 0, TRUE)
    ELSE IF Walked(p, t, Len(p.chain))
    THEN Carries(p, t - (40 + ChainLen(p)), Fragmented(p, Len(p.chain)))
    ELSE None

\* What decode makes of the first n bytes of p.
Outcome(p, n) ==
    IF ~Reached(p, n) THEN None
    ELSE IF Carried(p) = "ipv4" THEN InIpv4(p, n - Begins(p))
    ELSE InIpv6(p, n - Begins(p))

Stages == {"link", "tags", "bare", "ipv4", "ipv6", "chain", "transport", "done"}

Frames ==
    {None} \cup
    [described : {TRUE}, proto : Uppers \cup ExtKinds,
     ports : {<<>>, <<"ports">>, <<"ports", "flags">>}, payload : Nat,
     fragmented : BOOLEAN, vlan : Seq(Nat)]

DecoderState ==
    [stage : Stages, tag : Nat, depth : Nat, offset : Nat, avail : Nat,
     fragmented : BOOLEAN, frame : Frames]

Fresh(r) == r.depth = 0 /\ r.offset = 0 /\ r.fragmented = FALSE

\* How far a decoding r of the first n bytes of p has come.
Progress(p, n, r) ==
    /\ r.stage = "link" => r.tag = 0 /\ r.avail = n /\ Fresh(r)
    /\ r.stage = "tags" =>
          /\ p.linktype = "ethernet" /\ r.tag <= Len(Tags(p)) /\ r.tag <= MaxVlanTags
          /\ n = r.avail + LinkLen(p) + 4 * r.tag /\ Fresh(r)
    /\ r.stage = "bare" =>
          /\ p.linktype # "other" /\ Len(Tags(p)) <= MaxVlanTags
          /\ n = r.avail + Begins(p) /\ Fresh(r)
    /\ r.stage \in {"ipv4", "ipv6"} =>
          /\ Reached(p, n) /\ Carried(p) = r.stage
          /\ n = r.avail + Begins(p) /\ Fresh(r)
    /\ r.stage = "chain" =>
          /\ Reached(p, n) /\ Carried(p) = "ipv6" /\ p.version = 6
          /\ n - Begins(p) >= 40 /\ r.avail = Trim6(p, n - Begins(p))
          /\ r.depth <= Len(p.chain) /\ Walked(p, r.avail, r.depth)
          /\ r.offset = 40 + ChainTo(p, r.depth)
          /\ r.fragmented = Fragmented(p, r.depth)
    /\ r.stage = "transport" =>
          /\ r.offset <= r.avail
          /\ Outcome(p, n) = Carries(p, r.avail - r.offset, r.fragmented)
    /\ r.frame = IF r.stage = "done" THEN Outcome(p, n) ELSE None

Captured(d) == IF d = "cut" THEN size ELSE Whole(packet)

LInv ==
    /\ packet \in Packet /\ size \in 0..Whole(packet)
    /\ decoder \in [ToSet(Decodings) -> DecoderState]
    /\ \A d \in ToSet(Decodings) : Progress(P(d), Captured(d), D(d))

-----------------------------------------------------------------------------
(* Packets and their chains *)

LEMMA PacketFacts ==
    ASSUME NEW p \in Packet
    PROVE  /\ p.tags \in Seq(Nat) /\ p.version \in {0, 4, 6} /\ p.upper \in Uppers
           /\ p.ihl \in Nat /\ p.declared \in Nat /\ p.claim \in Nat /\ p.room \in Nat
           /\ p.fragment \in {"no", "first", "later"}
           /\ p.chain \in Seq([kind : ExtKinds, len : Nat \ (0..7)])
           /\ Carried(p) \in {"ipv4", "ipv6", "arp"}
           /\ LinkLen(p) \in Nat /\ IpLen(p) \in Nat /\ IpLen(p) >= 20
           /\ Tags(p) \in Seq(Nat) /\ Len(Tags(p)) \in Nat
           /\ Begins(p) \in Nat /\ Begins(p) >= LinkLen(p)
           /\ p.linktype # "ethernet" => Begins(p) = LinkLen(p) /\ Len(Tags(p)) = 0
<1>1. /\ p.tags \in Seq(Nat) /\ p.version \in {0, 4, 6} /\ p.upper \in Uppers
      /\ p.ihl \in Nat /\ p.declared \in Nat /\ p.claim \in Nat /\ p.room \in Nat
      /\ p.fragment \in {"no", "first", "later"} /\ p.ethertype \in {"ipv4", "ipv6", "arp"}
      /\ p.chain \in Seq([kind : ExtKinds, len : Nat \ (0..7)])
  BY DEF Packet
<1>2. Carried(p) \in {"ipv4", "ipv6", "arp"}
  BY <1>1 DEF Carried
<1>3. LinkLen(p) \in Nat /\ IpLen(p) \in Nat /\ IpLen(p) >= 20
  BY <1>1 DEF LinkLen, IpLen
<1>4. Tags(p) \in Seq(Nat) /\ Len(Tags(p)) \in Nat
  <2>1. Tags(p) \in Seq(Nat)
    BY <1>1 DEF Tags
  <2> QED BY <2>1, LenProperties
<1>5. Begins(p) \in Nat /\ Begins(p) >= LinkLen(p)
  BY <1>3, <1>4 DEF Begins
<1>6. p.linktype # "ethernet" => Begins(p) = LinkLen(p) /\ Len(Tags(p)) = 0
  <2>1. ASSUME p.linktype # "ethernet" PROVE Len(Tags(p)) = 0
    BY <2>1 DEF Tags
  <2> QED BY <1>3, <2>1 DEF Begins
<1> QED BY <1>1, <1>2, <1>3, <1>4, <1>5, <1>6

LEMMA HeaderFacts ==
    ASSUME NEW p \in Packet, NEW k \in 1..Len(p.chain)
    PROVE  /\ p.chain[k].kind \in ExtKinds /\ p.chain[k].len \in Nat
           /\ ExtLen(p.chain[k]) \in Nat /\ ExtLen(p.chain[k]) >= 8
           /\ Fragment(p.chain[k]) => ExtLen(p.chain[k]) = 8
<1>1. p.chain[k] \in [kind : ExtKinds, len : Nat \ (0..7)]
  BY PacketFacts, ElementOfSeq
<1>2. p.chain[k].kind \in ExtKinds /\ p.chain[k].len \in Nat /\ p.chain[k].len >= 8
  BY <1>1
<1> QED BY <1>2 DEF ExtLen

HeaderBytes(p, n) == UNION {{i} \X (1..ExtLen(p.chain[i])) : i \in 1..n}

\* The bytes of one header.
LEMMA OneHeader ==
    ASSUME NEW n, NEW k \in Nat
    PROVE  IsFiniteSet({n} \X (1..k)) /\ Cardinality({n} \X (1..k)) = k
<1>1. IsFiniteSet({n}) /\ Cardinality({n}) = 1
  BY FS_Singleton
<1>2. IsFiniteSet(1..k) /\ Cardinality(1..k) = k
  BY FS_Interval
<1> DEFINE bytes == {n} \X (1..k)
<1>3. IsFiniteSet(bytes) /\ Cardinality(bytes) = Cardinality({n}) * Cardinality(1..k)
  BY <1>1, <1>2, FS_Product
<1> HIDE DEF bytes
<1>4. IsFiniteSet(bytes) /\ Cardinality(bytes) = k
  BY <1>1, <1>2, <1>3
<1> QED BY <1>4 DEF bytes

LEMMA FiniteHeaders ==
    ASSUME NEW p \in Packet, NEW n \in 0..Len(p.chain)
    PROVE  IsFiniteSet(HeaderBytes(p, n)) /\ Cardinality(HeaderBytes(p, n)) \in Nat
<1> DEFINE of == [i \in 1..n |-> {i} \X (1..ExtLen(p.chain[i]))]
           T == {{i} \X (1..ExtLen(p.chain[i])) : i \in 1..n}
<1>1. Len(p.chain) \in Nat
  BY PacketFacts, LenProperties
<1>2. ASSUME NEW i \in 1..n PROVE IsFiniteSet({i} \X (1..ExtLen(p.chain[i])))
  <2>1. i \in 1..Len(p.chain)
    BY <1>1
  <2>2. ExtLen(p.chain[i]) \in Nat
    BY <2>1, HeaderFacts
  <2> QED BY <2>2, OneHeader
<1>3. of \in Surjection(1..n, T)
  BY DEF Surjection
<1>4. IsFiniteSet(1..n)
  BY <1>1, FS_Interval
<1>5. \A s \in T : IsFiniteSet(s)
  BY <1>2
<1> HIDE DEF of, T
<1>6. IsFiniteSet(UNION T)
  BY <1>3, <1>4, <1>5, FS_Surjection, FS_UNION
<1> QED BY <1>6, FS_CardinalityType DEF HeaderBytes, T

\* Where the headers of a chain begin.
LEMMA ChainFacts ==
    ASSUME NEW p \in Packet
    PROVE  /\ Len(p.chain) \in Nat /\ ChainLen(p) = ChainTo(p, Len(p.chain))
           /\ ChainLen(p) \in Nat /\ ChainTo(p, 0) = 0
           /\ \A n \in 0..Len(p.chain) : ChainTo(p, n) \in Nat
           /\ \A n \in 1..Len(p.chain) :
                 ChainTo(p, n) = ChainTo(p, n - 1) + ExtLen(p.chain[n])
           /\ \A m, n \in 0..Len(p.chain) : m <= n => ChainTo(p, m) <= ChainTo(p, n)
<1>1. Len(p.chain) \in Nat
  BY PacketFacts, LenProperties
<1>2. ASSUME NEW n \in 0..Len(p.chain)
      PROVE  ChainTo(p, n) \in Nat /\ ChainTo(p, n) = Cardinality(HeaderBytes(p, n))
  <2>1. ChainTo(p, n) = Cardinality(HeaderBytes(p, n))
    BY DEF ChainTo, HeaderBytes
  <2> QED BY <2>1, FiniteHeaders
<1>3. ChainTo(p, 0) = 0
  <2>1. HeaderBytes(p, 0) = {}
    BY DEF HeaderBytes
  <2>2. 0 \in 0..Len(p.chain)
    BY <1>1
  <2>3. ChainTo(p, 0) = Cardinality({})
    BY <1>2, <2>1, <2>2
  <2> QED BY <2>3, FS_EmptySet
<1>4. ASSUME NEW n \in 1..Len(p.chain)
      PROVE  ChainTo(p, n) = ChainTo(p, n - 1) + ExtLen(p.chain[n])
  <2> DEFINE old == HeaderBytes(p, n - 1)
             k == ExtLen(p.chain[n])
             new == {n} \X (1..k)
  <2>1. k \in Nat /\ n - 1 \in 0..Len(p.chain) /\ n \in 0..Len(p.chain)
    BY <1>1, HeaderFacts
  <2>2. HeaderBytes(p, n) = old \cup new
    <3>1. 1..n = (1..n - 1) \cup {n}
      OBVIOUS
    <3> QED BY <3>1 DEF HeaderBytes
  <2>3. old \cap new = {}
    BY DEF HeaderBytes
  <2> HIDE DEF k
  <2>4. IsFiniteSet(new) /\ Cardinality(new) = k
    BY <2>1, OneHeader
  <2> HIDE DEF old, new
  <2>5. IsFiniteSet(old) /\ Cardinality(old) \in Nat
    BY <2>1, FiniteHeaders DEF old
  <2>6. Cardinality(old \cup new) = Cardinality(old) + Cardinality(new) - Cardinality(old \cap new)
    BY <2>4, <2>5, FS_Union
  <2>7. Cardinality(old \cap new) = 0
    BY <2>3, FS_EmptySet
  <2>8. Cardinality(HeaderBytes(p, n)) = Cardinality(HeaderBytes(p, n - 1)) + k
    BY <2>1, <2>2, <2>4, <2>5, <2>6, <2>7 DEF old
  <2> QED BY <1>2, <2>1, <2>8 DEF k
<1>5. ASSUME NEW m \in 0..Len(p.chain), NEW n \in 0..Len(p.chain), m <= n
      PROVE  ChainTo(p, m) <= ChainTo(p, n)
  <2>1. HeaderBytes(p, m) \subseteq HeaderBytes(p, n)
    <3>1. \A i \in 1..m : i \in 1..n
      BY <1>5
    <3> QED BY <3>1 DEF HeaderBytes
  <2>2. IsFiniteSet(HeaderBytes(p, n))
    BY FiniteHeaders
  <2>3. Cardinality(HeaderBytes(p, m)) <= Cardinality(HeaderBytes(p, n))
    BY <2>1, <2>2, FS_Subset
  <2> QED BY <1>2, <2>3
<1>6. ChainLen(p) = ChainTo(p, Len(p.chain)) /\ ChainLen(p) \in Nat
  BY <1>1, <1>2 DEF ChainLen
<1> QED BY <1>1, <1>2, <1>3, <1>4, <1>5, <1>6

LEMMA WholeFacts ==
    ASSUME NEW p \in Packet
    PROVE  /\ Whole(p) \in Nat
           /\ Whole(p) = Begins(p) + IpLen(p) + ChainLen(p) + p.room
<1>1. /\ LinkLen(p) \in Nat /\ Len(Tags(p)) \in Nat /\ IpLen(p) \in Nat
      /\ ChainLen(p) \in Nat /\ p.room \in Nat
  BY PacketFacts, ChainFacts
<1> QED BY <1>1 DEF Whole, Begins

LEMMA LaterFacts ==
    ASSUME NEW p \in Packet
    PROVE  /\ LaterOf(p) \in Packet
           /\ LaterOf(p).linktype = p.linktype /\ LaterOf(p).version = p.version
           /\ LaterOf(p).upper = p.upper /\ Carried(LaterOf(p)) = Carried(p)
           /\ LaterOf(p).fragment = IF p.fragment = "first" THEN "later" ELSE p.fragment
           /\ Len(LaterOf(p).chain) = Len(p.chain)
           /\ \A i \in 1..Len(p.chain) :
                 LaterOf(p).chain[i].kind =
                    IF p.chain[i].kind = "frag" THEN "later frag" ELSE p.chain[i].kind
<1> DEFINE c == [i \in 1..Len(p.chain) |->
                    IF p.chain[i].kind = "frag"
                    THEN [p.chain[i] EXCEPT !.kind = "later frag"] ELSE p.chain[i]]
           f == IF p.fragment = "first" THEN "later" ELSE p.fragment
           H == [kind : ExtKinds, len : Nat \ (0..7)]
           q == [p EXCEPT !.fragment = f, !.chain = c]
<1>1. Len(p.chain) \in Nat /\ \A i \in 1..Len(p.chain) : p.chain[i] \in H
  BY PacketFacts, LenProperties, ElementOfSeq
<1>2. ASSUME NEW i \in 1..Len(p.chain)
      PROVE  c[i] \in H /\ c[i].kind = IF p.chain[i].kind = "frag" THEN "later frag"
                                       ELSE p.chain[i].kind
  <2>1. p.chain[i] \in H
    BY <1>1
  <2>2. [p.chain[i] EXCEPT !.kind = "later frag"] \in H
        /\ [p.chain[i] EXCEPT !.kind = "later frag"].kind = "later frag"
    BY <2>1 DEF ExtKinds
  <2> QED BY <2>1, <2>2
<1>3. c \in [1..Len(p.chain) -> H]
  BY <1>2
<1>4. c \in Seq(H) /\ Len(c) = Len(p.chain)
  <2> HIDE DEF H, c
  <2>1. c \in Seq(H)
    BY <1>1, <1>3, SeqDef
  <2>2. DOMAIN c = 1..Len(p.chain)
    BY <1>3
  <2> QED BY <1>1, <2>1, <2>2, LenProperties
<1>5. LaterOf(p) = q
  BY DEF LaterOf
<1> HIDE DEF c
<1>6. f \in {"no", "first", "later"}
  BY PacketFacts
<1>7. q \in Packet /\ q.chain = c /\ q.fragment = f /\ q.linktype = p.linktype
      /\ q.version = p.version /\ q.upper = p.upper /\ q.ethertype = p.ethertype
  <2> HIDE DEF f
  <2> QED BY <1>4, <1>6 DEF Packet
<1> HIDE DEF q, H
<1>8. Carried(q) = Carried(p)
  BY <1>7 DEF Carried
<1> QED BY <1>2, <1>4, <1>5, <1>7, <1>8

-----------------------------------------------------------------------------
(* One decoding takes a step *)

LEMMA Three == ToSet(Decodings) = {"cut", "whole", "later"}
<1>1. DOMAIN Decodings = 1..3 /\ 1..3 = {1, 2, 3}
      /\ Decodings[1] = "cut" /\ Decodings[2] = "whole" /\ Decodings[3] = "later"
  BY DEF Decodings
<1> QED BY <1>1 DEF ToSet

LEMMA DecodingFacts ==
    ASSUME LInv, NEW d \in ToSet(Decodings)
    PROVE  /\ P(d) \in Packet /\ Captured(d) \in Nat
           /\ D(d) \in DecoderState /\ Progress(P(d), Captured(d), D(d))
<1>1. packet \in Packet
  BY DEF LInv
<1>2. P(d) \in Packet
  BY <1>1, LaterFacts DEF P
<1>3. Captured(d) \in Nat
  <2>1. Whole(packet) \in Nat
    BY <1>1, WholeFacts
  <2> QED BY <2>1 DEF LInv, Captured
<1> QED BY <1>2, <1>3 DEF LInv, D

LEMMA Advance ==
    ASSUME LInv, NEW d \in ToSet(Decodings), NEW r \in DecoderState,
           Progress(P(d), Captured(d), r), Become(d, r)
    PROVE  LInv'
<1>1. packet' = packet /\ size' = size /\ decoder' = [decoder EXCEPT ![d] = r]
  BY DEF Become
<1>2. decoder \in [ToSet(Decodings) -> DecoderState]
  BY DEF LInv
<1>3. decoder' \in [ToSet(Decodings) -> DecoderState]
  BY <1>1, <1>2
<1>4. ASSUME NEW e \in ToSet(Decodings) PROVE Progress(P(e), Captured(e), D(e))'
  <2>1. P(e)' = P(e) /\ Captured(e)' = Captured(e)
    BY <1>1 DEF P, Captured
  <2>2. D(e)' = IF e = d THEN r ELSE D(e)
    BY <1>1, <1>2 DEF D
  <2>3. Progress(P(e), Captured(e), D(e))' = Progress(P(e)', Captured(e)', D(e)')
    BY DEF Progress, Outcome, Reached, InIpv4, InIpv6, Carries
  <2> QED BY <2>1, <2>2, <2>3, DecodingFacts
<1> QED BY <1>1, <1>3, <1>4 DEF LInv

\* A decoding that gives the packet up.
LEMMA Rejected ==
    ASSUME LInv, NEW d \in ToSet(Decodings), D(d).stage # "done",
           Outcome(P(d), Captured(d)) = None, Reject(d)
    PROVE  LInv'
<1> DEFINE r == D(d)  s == [r EXCEPT !.stage = "done"]
<1>1. r \in DecoderState /\ Progress(P(d), Captured(d), r)
  BY DecodingFacts
<1> HIDE DEF r
<1>2. s \in DecoderState /\ s.stage = "done" /\ s.frame = r.frame
  BY <1>1 DEF DecoderState, Stages
<1>3. r.frame = None
  BY <1>1 DEF Progress, r
<1>4. Become(d, s)
  BY DEF Reject, r
<1> HIDE DEF s
<1>5. Progress(P(d), Captured(d), s)
  BY <1>2, <1>3 DEF Progress
<1> QED BY <1>2, <1>4, <1>5, Advance

LEMMA VlanType ==
    ASSUME NEW p \in Packet
    PROVE  Vlan(p) \in Seq(Nat)
<1>1. Tags(p) \in Seq(Nat)
  BY PacketFacts
<1>2. CASE Tags(p) = <<>>
  BY <1>2 DEF Vlan
<1>3. CASE Tags(p) # <<>>
  BY <1>1, <1>3, HeadTailProperties DEF Vlan
<1> QED BY <1>2, <1>3

\* A decoding that describes it.
LEMMA Settled ==
    ASSUME LInv, NEW d \in ToSet(Decodings),
           NEW proto \in Uppers \cup ExtKinds,
           NEW ports \in {<<>>, <<"ports">>, <<"ports", "flags">>},
           NEW payload \in Nat, NEW fragmented \in BOOLEAN,
           Outcome(P(d), Captured(d)) = Framed(P(d), proto, ports, payload, fragmented),
           Describe(d, proto, ports, payload, fragmented)
    PROVE  LInv'
<1> DEFINE r == D(d)
           f == Framed(P(d), proto, ports, payload, fragmented)
           s == [r EXCEPT !.stage = "done", !.frame = f]
<1>1. r \in DecoderState
  BY DecodingFacts
<1>2. Vlan(P(d)) \in Seq(Nat)
  BY DecodingFacts, VlanType
<1>3. f \in Frames
  BY <1>2 DEF Framed, Frames
<1>4. Become(d, s)
  BY DEF Describe, Framed, Vlan
<1> HIDE DEF r, f
<1>5. s \in DecoderState /\ s.stage = "done" /\ s.frame = f
  BY <1>1, <1>3 DEF DecoderState, Stages
<1> HIDE DEF s
<1>6. Progress(P(d), Captured(d), s)
  BY <1>5 DEF Progress, f
<1> QED BY <1>4, <1>5, <1>6, Advance

-----------------------------------------------------------------------------
(* The link layer *)

LEMMA NotReached ==
    ASSUME NEW p, NEW n, ~Reached(p, n)
    PROVE  Outcome(p, n) = None
BY DEF Outcome

LEMMA LinkStep ==
    ASSUME LInv, NEW d \in ToSet(Decodings), Link(d)
    PROVE  LInv'
<1> DEFINE p == P(d)  n == Captured(d)  r == D(d)  k == LinkLen(p)
           next == IF p.linktype = "ethernet" THEN "tags" ELSE "bare"
           s == [r EXCEPT !.avail = @ - k, !.stage = next]
<1>1. /\ p \in Packet /\ n \in Nat /\ r \in DecoderState /\ Progress(p, n, r)
      /\ k \in Nat /\ Len(Tags(p)) \in Nat /\ Begins(p) \in Nat /\ Begins(p) >= k
      /\ p.linktype # "ethernet" => Begins(p) = k /\ Len(Tags(p)) = 0
  BY DecodingFacts, PacketFacts
<1>2. r.stage = "link"
  BY DEF Link, At
<1>3. r.tag = 0 /\ r.avail = n /\ Fresh(r) /\ r.frame = None
  BY <1>1, <1>2 DEF Progress
<1>4. CASE p.linktype = "other" \/ r.avail < k
  <2>1. Reject(d)
    BY <1>4 DEF Link
  <2>2. ~Reached(p, n)
    <3> HIDE DEF p, n, r, k
    <3> QED BY <1>1, <1>3, <1>4 DEF Reached
  <2> QED BY <1>2, <2>1, <2>2, NotReached, Rejected
<1>5. CASE ~(p.linktype = "other" \/ r.avail < k)
  <2>1. Become(d, s)
    BY <1>5 DEF Link, Strip
  <2> HIDE DEF p, n, r, k
  <2>2. r.avail - k \in Nat
    BY <1>1, <1>3, <1>5
  <2>3. /\ s \in DecoderState /\ s.stage = next /\ s.avail = n - k /\ s.tag = 0
        /\ Fresh(s) /\ s.frame = None
    BY <1>1, <1>3, <2>2 DEF DecoderState, Stages, Fresh
  <2>4. p.linktype = "ethernet" => next = "tags"
    OBVIOUS
  <2>5. p.linktype # "ethernet" => next = "bare"
    OBVIOUS
  <2> HIDE DEF s, next
  <2>6. MaxVlanTags \in Nat
    BY LimitsAssumption
  <2>7. CASE p.linktype = "ethernet"
    <3>1. n = s.avail + LinkLen(p) + 4 * s.tag
      BY <1>1, <1>3, <2>3 DEF k
    <3>2. s.stage = "tags" /\ s.tag <= Len(Tags(p)) /\ s.tag <= MaxVlanTags
      BY <1>1, <2>3, <2>4, <2>6, <2>7
    <3>3. Progress(p, n, s)
      BY <2>3, <2>7, <3>1, <3>2 DEF Progress
    <3> QED BY <2>1, <2>3, <3>3, Advance DEF p, n
  <2>8. CASE p.linktype # "ethernet"
    <3>1. n = s.avail + Begins(p) /\ Len(Tags(p)) <= MaxVlanTags
      BY <1>1, <1>3, <2>3, <2>6, <2>8
    <3> QED BY <1>1, <1>5, <2>1, <2>3, <2>5, <2>8, <3>1, Advance DEF Progress, p, n
  <2> QED BY <2>7, <2>8
<1> QED BY <1>4, <1>5

LEMMA TagWalkStep ==
    ASSUME LInv, NEW d \in ToSet(Decodings), TagWalk(d)
    PROVE  LInv'
<1> DEFINE p == P(d)  n == Captured(d)  r == D(d)  L == Len(Tags(p))
           left == L - r.tag
<1>1. /\ p \in Packet /\ n \in Nat /\ r \in DecoderState /\ Progress(p, n, r)
      /\ LinkLen(p) \in Nat /\ L \in Nat
  BY DecodingFacts, PacketFacts
<1>2. r.stage = "tags"
  BY DEF TagWalk, At
<1>3. /\ p.linktype = "ethernet" /\ r.tag <= L /\ r.tag <= MaxVlanTags
      /\ n = r.avail + LinkLen(p) + 4 * r.tag /\ Fresh(r) /\ r.frame = None
      /\ r.tag \in Nat /\ r.avail \in Nat /\ MaxVlanTags \in Nat
  BY <1>1, <1>2, LimitsAssumption DEF Progress, DecoderState
<1>4. Begins(p) = LinkLen(p) + 4 * L
  BY DEF Begins
<1>5. CASE left = 0
  <2> DEFINE s == [r EXCEPT !.avail = @ - 0, !.stage = "bare"]
  <2>1. Become(d, s)
    BY <1>5 DEF TagWalk, Strip
  <2> HIDE DEF p, n, r, L
  <2>2. /\ s \in DecoderState /\ s.stage = "bare" /\ s.avail = r.avail
        /\ Fresh(s) /\ s.frame = None
    <3>1. r.avail - 0 = r.avail
      BY <1>3
    <3>2. s \in DecoderState
      BY <1>1, <1>3, <3>1 DEF DecoderState, Stages
    <3>3. /\ s.stage = "bare" /\ s.avail = r.avail /\ s.frame = r.frame
          /\ s.depth = r.depth /\ s.offset = r.offset /\ s.fragmented = r.fragmented
      BY <1>1, <3>1 DEF DecoderState
    <3> QED BY <1>3, <3>2, <3>3 DEF Fresh
  <2>3. n = s.avail + Begins(p) /\ L <= MaxVlanTags
    BY <1>1, <1>3, <1>4, <1>5, <2>2
  <2> HIDE DEF s
  <2> QED BY <1>3, <2>1, <2>2, <2>3, Advance DEF Progress, p, n, L
<1>6. CASE left # 0 /\ (r.tag = MaxVlanTags \/ r.avail < 4)
  <2>1. Reject(d)
    BY <1>6 DEF TagWalk
  <2>2. ~Reached(p, n)
    <3> HIDE DEF p, n, r, L
    <3>1. L >= r.tag + 1
      BY <1>1, <1>3, <1>6
    <3>2. L > MaxVlanTags \/ n <= Begins(p)
      BY <1>1, <1>3, <1>4, <1>6, <3>1
    <3> QED BY <1>1, <1>3, <3>2, <1>4 DEF Reached, L
  <2> QED BY <1>2, <2>1, <2>2, NotReached, Rejected
<1>7. CASE left # 0 /\ ~(r.tag = MaxVlanTags \/ r.avail < 4)
  <2> DEFINE s == [r EXCEPT !.tag = @ + 1, !.avail = @ - 4]
  <2>1. Become(d, s)
    BY <1>7 DEF TagWalk
  <2> HIDE DEF p, n, r, L
  <2>2. r.avail - 4 \in Nat
    BY <1>3, <1>7
  <2>3. /\ s \in DecoderState /\ s.stage = "tags" /\ s.avail = r.avail - 4
        /\ s.tag = r.tag + 1 /\ Fresh(s) /\ s.frame = None
    <3>1. s \in DecoderState
      <4>1. r.tag + 1 \in Nat
        BY <1>3
      <4> QED BY <1>1, <2>2, <4>1 DEF DecoderState
    <3>2. /\ s.stage = r.stage /\ s.avail = r.avail - 4 /\ s.tag = r.tag + 1
          /\ s.depth = r.depth /\ s.offset = r.offset /\ s.fragmented = r.fragmented
          /\ s.frame = r.frame
      BY <1>1 DEF DecoderState
    <3> QED BY <1>2, <1>3, <3>1, <3>2 DEF Fresh
  <2>4. /\ n = s.avail + LinkLen(p) + 4 * s.tag /\ s.tag <= L /\ s.tag <= MaxVlanTags
    BY <1>1, <1>3, <1>7, <2>3
  <2> HIDE DEF s
  <2> QED BY <1>3, <2>1, <2>3, <2>4, Advance DEF Progress, p, n, L
<1> QED BY <1>5, <1>6, <1>7

LEMMA BareStep ==
    ASSUME LInv, NEW d \in ToSet(Decodings), Bare(d)
    PROVE  LInv'
<1> DEFINE p == P(d)  n == Captured(d)  r == D(d)
<1>1. /\ p \in Packet /\ n \in Nat /\ r \in DecoderState /\ Progress(p, n, r)
      /\ Carried(p) \in {"ipv4", "ipv6", "arp"} /\ Begins(p) \in Nat
  BY DecodingFacts, PacketFacts
<1>2. r.stage = "bare"
  BY DEF Bare, At
<1>3. /\ p.linktype # "other" /\ Len(Tags(p)) <= MaxVlanTags
      /\ n = r.avail + Begins(p) /\ Fresh(r) /\ r.frame = None /\ r.avail \in Nat
  BY <1>1, <1>2 DEF Progress, DecoderState
<1>4. CASE r.avail = 0 \/ Carried(p) = "arp"
  <2>1. Reject(d)
    BY <1>4 DEF Bare
  <2>2. ~Reached(p, n)
    <3> HIDE DEF p, n, r
    <3> QED BY <1>1, <1>3, <1>4 DEF Reached
  <2> QED BY <1>2, <2>1, <2>2, NotReached, Rejected
<1>5. CASE ~(r.avail = 0 \/ Carried(p) = "arp")
  <2> DEFINE s == [r EXCEPT !.avail = @ - 0, !.stage = Carried(p)]
  <2>1. Become(d, s)
    BY <1>5 DEF Bare, Strip
  <2> HIDE DEF p, n, r
  <2>2. Carried(p) \in {"ipv4", "ipv6"}
    BY <1>1, <1>5
  <2>3. /\ s \in DecoderState /\ s.stage = Carried(p) /\ s.avail = r.avail
        /\ Fresh(s) /\ s.frame = None
    <3>1. r.avail - 0 = r.avail
      BY <1>3
    <3>2. s \in DecoderState
      BY <1>1, <1>3, <2>2, <3>1 DEF DecoderState, Stages
    <3>3. /\ s.stage = Carried(p) /\ s.avail = r.avail /\ s.frame = r.frame
          /\ s.depth = r.depth /\ s.offset = r.offset /\ s.fragmented = r.fragmented
      BY <1>1, <3>1 DEF DecoderState
    <3> QED BY <1>3, <3>2, <3>3 DEF Fresh
  <2>4. Reached(p, n) /\ n = s.avail + Begins(p)
    BY <1>1, <1>3, <1>5, <2>3 DEF Reached
  <2> HIDE DEF s
  <2> QED BY <2>1, <2>2, <2>3, <2>4, Advance DEF Progress, p, n
<1> QED BY <1>4, <1>5

-----------------------------------------------------------------------------
(* The IP header *)

LEMMA LeadsToIp ==
    ASSUME NEW p \in Packet, NEW n \in Nat, NEW a \in Nat, Reached(p, n), n = a + Begins(p)
    PROVE  /\ Carried(p) = "ipv4" => Outcome(p, n) = InIpv4(p, a)
           /\ Carried(p) = "ipv6" => Outcome(p, n) = InIpv6(p, a)
<1>1. n - Begins(p) = a
  BY PacketFacts
<1> QED BY <1>1 DEF Outcome

LEMMA TrimFacts ==
    ASSUME NEW p \in Packet, NEW a \in Nat
    PROVE  /\ Trim4(p, a) \in Nat /\ Trim4(p, a) <= a
           /\ Trim6(p, a) \in Nat /\ Trim6(p, a) <= a /\ (a >= 40 => Trim6(p, a) >= 40)
<1>1. p.declared \in Nat /\ p.ihl \in Nat
  BY PacketFacts
<1> QED BY <1>1 DEF Trim4, Trim6

LEMMA Ipv4Step ==
    ASSUME LInv, NEW d \in ToSet(Decodings), Ipv4(d)
    PROVE  LInv'
<1> DEFINE p == P(d)  n == Captured(d)  r == D(d)  a == r.avail  t == Trim4(p, a)
<1>1. /\ p \in Packet /\ n \in Nat /\ r \in DecoderState /\ Progress(p, n, r)
      /\ p.upper \in Uppers /\ p.ihl \in Nat
  BY DecodingFacts, PacketFacts
<1>2. r.stage = "ipv4"
  BY DEF Ipv4, At
<1>3. /\ Reached(p, n) /\ Carried(p) = "ipv4" /\ n = a + Begins(p) /\ Fresh(r)
      /\ r.frame = None /\ a \in Nat
  BY <1>1, <1>2 DEF Progress, DecoderState
<1>4. t \in Nat
  BY <1>1, <1>3, TrimFacts
<1>5. Outcome(p, n) = InIpv4(p, a)
  BY <1>1, <1>3, LeadsToIp
<1>6. CASE ~Held4(p, a)
  <2>1. a < 20 \/ p.version # 4 \/ p.ihl < 20 \/ t < p.ihl
    BY <1>1, <1>3, <1>4, <1>6 DEF Held4
  <2>2. Reject(d)
    BY <2>1 DEF Ipv4
  <2>3. Outcome(p, n) = None
    BY <1>5, <1>6 DEF InIpv4
  <2> QED BY <1>2, <2>2, <2>3, Rejected
<1>7. CASE Held4(p, a) /\ p.fragment = "later"
  <2>1. ~(a < 20 \/ p.version # 4 \/ p.ihl < 20 \/ t < p.ihl)
    BY <1>1, <1>3, <1>4, <1>7 DEF Held4
  <2>2. Describe(d, p.upper, <<>>, 0, TRUE)
    BY <1>7, <2>1 DEF Ipv4
  <2>3. Outcome(p, n) = Framed(p, p.upper, <<>>, 0, TRUE)
    BY <1>5, <1>7 DEF InIpv4
  <2> QED BY <1>1, <2>2, <2>3, Settled
<1>8. CASE Held4(p, a) /\ p.fragment # "later"
  <2> DEFINE first == p.fragment = "first"
             s == [r EXCEPT !.stage = "transport", !.offset = p.ihl, !.avail = t,
                            !.fragmented = first]
  <2>1. ~(a < 20 \/ p.version # 4 \/ p.ihl < 20 \/ t < p.ihl)
    BY <1>1, <1>3, <1>4, <1>8 DEF Held4
  <2>2. Become(d, s)
    BY <1>8, <2>1 DEF Ipv4
  <2>3. Outcome(p, n) = Carries(p, t - p.ihl, first)
    BY <1>5, <1>8 DEF InIpv4
  <2>4. first \in BOOLEAN
    OBVIOUS
  <2> HIDE DEF p, n, r, a, t, first
  <2>5. s \in DecoderState
    BY <1>1, <1>4, <2>4 DEF DecoderState, Stages
  <2>6. /\ s.stage = "transport" /\ s.offset = p.ihl /\ s.avail = t
        /\ s.fragmented = first /\ s.frame = r.frame
    BY <1>1 DEF DecoderState
  <2>7. s.offset <= s.avail
    BY <1>1, <1>4, <2>1, <2>6
  <2> HIDE DEF s
  <2>8. Progress(p, n, s)
    BY <1>3, <2>3, <2>6, <2>7 DEF Progress
  <2> QED BY <2>2, <2>5, <2>8, Advance DEF p, n
<1> QED BY <1>6, <1>7, <1>8

\* The walk starts.
LEMMA WalkedNone ==
    ASSUME NEW p \in Packet, NEW t \in Nat, t >= 40
    PROVE  Walked(p, t, 0) /\ Fragmented(p, 0) = FALSE /\ ChainTo(p, 0) = 0
<1>1. ChainTo(p, 0) = 0 /\ MaxExtHeaders \in Nat /\ 1..0 = {}
  BY ChainFacts, LimitsAssumption
<1>2. Walked(p, t, 0)
  BY <1>1 DEF Walked
<1>3. Fragmented(p, 0) = FALSE
  BY <1>1 DEF Fragmented
<1> QED BY <1>1, <1>2, <1>3

LEMMA Ipv6Step ==
    ASSUME LInv, NEW d \in ToSet(Decodings), Ipv6(d)
    PROVE  LInv'
<1> DEFINE p == P(d)  n == Captured(d)  r == D(d)  a == r.avail  t == Trim6(p, a)
<1>1. /\ p \in Packet /\ n \in Nat /\ r \in DecoderState /\ Progress(p, n, r)
      /\ Begins(p) \in Nat /\ Len(p.chain) \in Nat
  BY DecodingFacts, PacketFacts, ChainFacts
<1>2. r.stage = "ipv6"
  BY DEF Ipv6, At
<1>3. /\ Reached(p, n) /\ Carried(p) = "ipv6" /\ n = a + Begins(p) /\ Fresh(r)
      /\ r.frame = None /\ a \in Nat
  BY <1>1, <1>2 DEF Progress, DecoderState
<1>4. t \in Nat /\ (a >= 40 => t >= 40)
  BY <1>1, <1>3, TrimFacts
<1>5. Outcome(p, n) = InIpv6(p, a)
  BY <1>1, <1>3, LeadsToIp
<1>6. CASE a < 40 \/ p.version # 6
  <2>1. Reject(d)
    BY <1>6 DEF Ipv6
  <2>2. Outcome(p, n) = None
    BY <1>5, <1>6 DEF InIpv6
  <2> QED BY <1>2, <2>1, <2>2, Rejected
<1>7. CASE ~(a < 40 \/ p.version # 6)
  <2> DEFINE s == [r EXCEPT !.stage = "chain", !.offset = 40, !.avail = t]
  <2>1. Become(d, s)
    BY <1>7 DEF Ipv6
  <2>2. /\ Walked(p, t, 0) /\ Fragmented(p, 0) = FALSE /\ ChainTo(p, 0) = 0
        /\ n - Begins(p) = a /\ a >= 40
    <3> HIDE DEF p, n, r, a, t
    <3>1. a >= 40 /\ t >= 40 /\ n - Begins(p) = a
      BY <1>1, <1>3, <1>4, <1>7
    <3> QED BY <1>1, <1>4, <3>1, WalkedNone
  <2>3. p.version = 6 /\ t = Trim6(p, a)
    BY <1>7
  <2> HIDE DEF p, n, r, a, t
  <2>4. s \in DecoderState
    BY <1>1, <1>4 DEF DecoderState, Stages
  <2>5. /\ s.stage = "chain" /\ s.offset = 40 /\ s.avail = t
        /\ s.depth = r.depth /\ s.fragmented = r.fragmented /\ s.frame = r.frame
    BY <1>1 DEF DecoderState
  <2>6. s.depth = 0 /\ s.fragmented = FALSE /\ s.depth <= Len(p.chain)
    BY <1>1, <1>3, <2>5 DEF Fresh
  <2> HIDE DEF s
  <2>7. s.offset = 40 + ChainTo(p, s.depth) /\ s.fragmented = Fragmented(p, s.depth)
    <3>1. ChainTo(p, s.depth) = 0 /\ Fragmented(p, s.depth) = FALSE
      BY <2>2, <2>6
    <3>2. s.offset = 40 + ChainTo(p, s.depth)
      BY <2>5, <3>1
    <3>3. s.fragmented = Fragmented(p, s.depth)
      BY <2>6, <3>1, Zenon
    <3> QED BY <3>2, <3>3
  <2>8. Progress(p, n, s)
    BY <1>3, <2>2, <2>3, <2>5, <2>6, <2>7 DEF Progress
  <2> QED BY <2>1, <2>4, <2>8, Advance DEF p, n
<1> QED BY <1>6, <1>7

-----------------------------------------------------------------------------
(* The extension headers *)

LEMMA OneEnding ==
    ASSUME NEW p \in Packet, NEW t, NEW k \in 1..Len(p.chain), EndsAt(p, t, k)
    PROVE  Ending(p, t) = k
<1>1. Len(p.chain) \in Nat
  BY ChainFacts
<1>2. ASSUME NEW j \in 1..Len(p.chain), EndsAt(p, t, j) PROVE j = k
  <2>1. CASE j < k
    <3>1. j \in 1..k - 1
      BY <1>1, <2>1
    <3> QED BY <1>2, <3>1 DEF EndsAt, Walked
  <2>2. CASE k < j
    <3>1. k \in 1..j - 1
      BY <1>1, <2>2
    <3> QED BY <1>2, <3>1 DEF EndsAt, Walked
  <2> QED BY <1>1, <2>1, <2>2
<1> QED BY <1>2 DEF Ending

\* A walk that is stuck before header i comes to nothing.
LEMMA WalkStuck ==
    ASSUME NEW p \in Packet, NEW t \in Nat, NEW i \in 1..Len(p.chain),
           Walked(p, t, i - 1), i > MaxExtHeaders \/ 40 + ChainTo(p, i) > t
    PROVE  ~Walked(p, t, Len(p.chain)) /\ ~\E k \in 1..Len(p.chain) : EndsAt(p, t, k)
<1>1. /\ Len(p.chain) \in Nat /\ MaxExtHeaders \in Nat
      /\ \A m \in 0..Len(p.chain) : ChainTo(p, m) \in Nat
      /\ \A m, n \in 0..Len(p.chain) : m <= n => ChainTo(p, m) <= ChainTo(p, n)
  BY ChainFacts, LimitsAssumption
<1>2. ASSUME NEW k \in i..Len(p.chain), k <= MaxExtHeaders, 40 + ChainTo(p, k) <= t
      PROVE  FALSE
  <2>1. k \in 0..Len(p.chain) /\ i \in 0..Len(p.chain) /\ i <= k
    BY <1>1
  <2>2. ChainTo(p, i) <= ChainTo(p, k) /\ ChainTo(p, i) \in Nat /\ ChainTo(p, k) \in Nat
    BY <1>1, <2>1
  <2> QED BY <1>1, <1>2, <2>1, <2>2
<1>3. ~Walked(p, t, Len(p.chain))
  <2>1. Len(p.chain) \in i..Len(p.chain)
    BY <1>1
  <2> QED BY <1>2, <2>1 DEF Walked
<1>4. ASSUME NEW k \in 1..Len(p.chain), EndsAt(p, t, k) PROVE FALSE
  <2>1. CASE k \in i..Len(p.chain)
    BY <1>2, <1>4, <2>1 DEF EndsAt
  <2>2. CASE k \in 1..i - 1
    BY <1>4, <2>2 DEF EndsAt, Walked
  <2> QED BY <1>1, <2>1, <2>2
<1> QED BY <1>3, <1>4

LEMMA WalkGrows ==
    ASSUME NEW p \in Packet, NEW t \in Nat, NEW i \in 1..Len(p.chain),
           Walked(p, t, i - 1), i <= MaxExtHeaders, 40 + ChainTo(p, i) <= t
    PROVE  /\ p.chain[i].kind = "later frag" => EndsAt(p, t, i)
           /\ p.chain[i].kind # "later frag" => Walked(p, t, i)
           /\ Fragmented(p, i) = (Fragmented(p, i - 1) \/ Fragment(p.chain[i]))
<1>1. Len(p.chain) \in Nat /\ 1..i = (1..i - 1) \cup {i}
  BY ChainFacts
<1>2. Fragmented(p, i) = (Fragmented(p, i - 1) \/ Fragment(p.chain[i]))
  BY <1>1 DEF Fragmented
<1>3. p.chain[i].kind = "later frag" => EndsAt(p, t, i)
  BY DEF EndsAt
<1>4. p.chain[i].kind # "later frag" => Walked(p, t, i)
  BY <1>1 DEF Walked
<1> QED BY <1>2, <1>3, <1>4

\* What is known of a decoding that walks a chain.
LEMMA WalkFacts ==
    ASSUME LInv, NEW d \in ToSet(Decodings), D(d).stage = "chain"
    PROVE  /\ P(d) \in Packet /\ Captured(d) \in Nat /\ D(d) \in DecoderState
           /\ Reached(P(d), Captured(d)) /\ Carried(P(d)) = "ipv6" /\ P(d).version = 6
           /\ D(d).depth \in 0..Len(P(d).chain) /\ D(d).avail \in Nat
           /\ D(d).offset = 40 + ChainTo(P(d), D(d).depth) /\ D(d).frame = None
           /\ D(d).fragmented = Fragmented(P(d), D(d).depth)
           /\ Walked(P(d), D(d).avail, D(d).depth)
           /\ Captured(d) - Begins(P(d)) \in Nat /\ Captured(d) - Begins(P(d)) >= 40
           /\ D(d).avail = Trim6(P(d), Captured(d) - Begins(P(d)))
           /\ Outcome(P(d), Captured(d)) = InIpv6(P(d), Captured(d) - Begins(P(d)))
<1> DEFINE p == P(d)  n == Captured(d)  r == D(d)
<1>1. /\ p \in Packet /\ n \in Nat /\ r \in DecoderState /\ Progress(p, n, r)
      /\ Begins(p) \in Nat /\ Len(p.chain) \in Nat
  BY DecodingFacts, PacketFacts, ChainFacts
<1> HIDE DEF p, n, r
<1>2. /\ Reached(p, n) /\ Carried(p) = "ipv6" /\ p.version = 6
      /\ n - Begins(p) >= 40 /\ r.avail = Trim6(p, n - Begins(p))
      /\ r.depth <= Len(p.chain) /\ Walked(p, r.avail, r.depth)
      /\ r.offset = 40 + ChainTo(p, r.depth)
      /\ r.fragmented = Fragmented(p, r.depth) /\ r.frame = None
  BY <1>1 DEF Progress, r
<1>3. r.depth \in Nat /\ r.avail \in Nat
  BY <1>1 DEF DecoderState
<1>4. n - Begins(p) \in Nat /\ r.depth \in 0..Len(p.chain)
  BY <1>1, <1>2, <1>3
<1>5. Outcome(p, n) = InIpv6(p, n - Begins(p))
  BY <1>2 DEF Outcome
<1> QED BY <1>1, <1>2, <1>3, <1>4, <1>5 DEF p, n, r

\* A header of e bytes behind c of the chain does not fit in t.
LEMMA NoRoom ==
    ASSUME NEW t \in Nat, NEW c \in Nat, NEW e \in Nat, e >= 8,
           NEW left, left = t - (40 + c)
    PROVE  /\ 40 + (c + e) > t <=> left < e
           /\ left < 2 => left < e
           /\ ~(40 + (c + e) > t) => 40 + (c + e) <= t
  OBVIOUS

LEMMA ExtStep ==
    ASSUME LInv, NEW d \in ToSet(Decodings), Ext(d)
    PROVE  LInv'
<1> DEFINE p == P(d)  n == Captured(d)  r == D(d)  t == r.avail  i == r.depth + 1
           h == p.chain[i]  left == t - r.offset  a == n - Begins(p)
<1>1. r.stage = "chain" /\ i <= Len(p.chain)
  BY DEF Ext, At
<1>2. /\ p \in Packet /\ n \in Nat /\ r \in DecoderState
      /\ Reached(p, n) /\ Carried(p) = "ipv6" /\ p.version = 6
      /\ r.depth \in 0..Len(p.chain) /\ t \in Nat
      /\ r.offset = 40 + ChainTo(p, r.depth) /\ r.frame = None
      /\ r.fragmented = Fragmented(p, r.depth) /\ Walked(p, t, r.depth)
      /\ a \in Nat /\ a >= 40 /\ t = Trim6(p, a) /\ Outcome(p, n) = InIpv6(p, a)
  BY <1>1, WalkFacts
<1>3. /\ Len(p.chain) \in Nat /\ i \in 1..Len(p.chain) /\ r.depth = i - 1
      /\ ChainTo(p, r.depth) \in Nat /\ ChainTo(p, i) \in Nat
      /\ ChainTo(p, i) = ChainTo(p, r.depth) + ExtLen(h) /\ MaxExtHeaders \in Nat
  <2> HIDE DEF p, r
  <2>1. Len(p.chain) \in Nat
    BY <1>2, ChainFacts
  <2>2. i \in 1..Len(p.chain) /\ r.depth = i - 1 /\ i \in 0..Len(p.chain)
    BY <1>1, <1>2, <2>1
  <2> QED BY <1>2, <2>1, <2>2, ChainFacts, LimitsAssumption
<1>4. /\ h.kind \in ExtKinds /\ ExtLen(h) \in Nat /\ ExtLen(h) >= 8
      /\ Fragment(h) => ExtLen(h) = 8
  BY <1>2, <1>3, HeaderFacts
<1>5. Fragment(h) <=> h.kind \in {"frag", "later frag"}
  BY DEF Fragment
<1> DEFINE stuck == i > MaxExtHeaders \/ left < 2 \/ (Fragment(h) /\ left < 8)
<1>6. /\ 40 + ChainTo(p, i) > t <=> left < ExtLen(h)
      /\ left < 2 => left < ExtLen(h)
      /\ Fragment(h) => (left < 8 <=> left < ExtLen(h))
      /\ ~(i > MaxExtHeaders) => i <= MaxExtHeaders
      /\ ~(40 + ChainTo(p, i) > t) => 40 + ChainTo(p, i) <= t
  <2>1. PICK c, e : c = ChainTo(p, r.depth) /\ e = ExtLen(h)
    OBVIOUS
  <2>2. c \in Nat /\ e \in Nat /\ e >= 8 /\ t \in Nat
    BY <1>2, <1>3, <1>4, <2>1
  <2>3. left = t - (40 + c) /\ ChainTo(p, i) = c + e
    BY <1>2, <1>3, <2>1
  <2>4. i \in Int
    BY <1>3
  <2> HIDE DEF p, r, h, t, left
  <2>5. /\ 40 + (c + e) > t <=> left < e
        /\ left < 2 => left < e
        /\ ~(40 + (c + e) > t) => 40 + (c + e) <= t
    BY <2>2, <2>3, NoRoom
  <2>6. Fragment(h) => e = 8
    BY <1>4, <2>1
  <2>7. ~(i > MaxExtHeaders) => i <= MaxExtHeaders
    BY <1>3, <2>4
  <2> QED BY <2>1, <2>3, <2>5, <2>6, <2>7
<1>7. CASE stuck \/ (h.kind # "later frag" /\ left < ExtLen(h))
  <2>1. Reject(d)
    <3>1. CASE stuck
      BY <3>1 DEF Ext
    <3>2. CASE ~stuck /\ h.kind # "later frag" /\ left < ExtLen(h)
      BY <3>2 DEF Ext
    <3> QED BY <1>7, <3>1, <3>2
  <2>2. i > MaxExtHeaders \/ 40 + ChainTo(p, i) > t
    <3> HIDE DEF p, r, h, i, left
    <3> QED BY <1>6, <1>7, Zenon
  <2>3. Walked(p, t, i - 1)
    BY <1>2, <1>3
  <2>4. ~Walked(p, t, Len(p.chain)) /\ ~\E k \in 1..Len(p.chain) : EndsAt(p, t, k)
    BY <1>2, <1>3, <2>2, <2>3, WalkStuck
  <2>5. Outcome(p, n) = None
    BY <1>2, <2>4 DEF InIpv6
  <2> QED BY <1>1, <2>1, <2>5, Rejected
<1>8. CASE ~stuck /\ h.kind = "later frag"
  <2>1. Describe(d, NextHeader(p, i), <<>>, 0, TRUE)
    BY <1>8 DEF Ext
  <2>2. i <= MaxExtHeaders /\ 40 + ChainTo(p, i) <= t /\ Walked(p, t, i - 1)
    <3> HIDE DEF p, r, h, i, left
    <3>1. Fragment(h)
      BY <1>5, <1>8, Zenon
    <3>2. i <= MaxExtHeaders /\ 40 + ChainTo(p, i) <= t
      BY <1>6, <1>8, <3>1, Zenon
    <3> QED BY <1>2, <1>3, <3>2, Zenon
  <2>3. EndsAt(p, t, i)
    BY <1>2, <1>3, <1>8, <2>2, WalkGrows
  <2>4. Ending(p, t) = i
    BY <1>2, <1>3, <2>3, OneEnding
  <2>5. Outcome(p, n) = Framed(p, NextHeader(p, i), <<>>, 0, TRUE)
    <3> HIDE DEF p, n, r, t, a, i
    <3>1. \E k \in 1..Len(p.chain) : EndsAt(p, t, k)
      BY <1>3, <2>3
    <3>2. ~(a < 40 \/ p.version # 6)
      BY <1>2
    <3> QED BY <1>2, <2>4, <3>1, <3>2 DEF InIpv6
  <2>6. NextHeader(p, i) \in Uppers \cup ExtKinds
    <3>1. p.upper \in Uppers
      BY <1>2, PacketFacts
    <3>2. CASE i < Len(p.chain)
      <4>1. i + 1 \in 1..Len(p.chain)
        BY <1>3, <3>2
      <4>2. p.chain[i + 1].kind \in ExtKinds
        BY <1>2, <4>1, HeaderFacts
      <4> QED BY <3>2, <4>2 DEF NextHeader
    <3>3. CASE ~(i < Len(p.chain))
      BY <3>1, <3>3 DEF NextHeader
    <3> QED BY <3>2, <3>3
  <2> QED BY <2>1, <2>5, <2>6, Settled
<1>9. CASE ~stuck /\ h.kind # "later frag" /\ ~(left < ExtLen(h))
  <2> DEFINE f == r.fragmented \/ Fragment(h)
             s == [r EXCEPT !.depth = i, !.offset = @ + ExtLen(h), !.fragmented = f]
  <2>1. Become(d, s)
    BY <1>9 DEF Ext
  <2>2. i <= MaxExtHeaders /\ 40 + ChainTo(p, i) <= t /\ Walked(p, t, i - 1)
    <3> HIDE DEF p, r, h, i, left
    <3>1. i <= MaxExtHeaders /\ 40 + ChainTo(p, i) <= t
      BY <1>6, <1>9, Zenon
    <3> QED BY <1>2, <1>3, <3>1, Zenon
  <2>3. Walked(p, t, i) /\ Fragmented(p, i) = (Fragmented(p, i - 1) \/ Fragment(h))
    BY <1>2, <1>3, <1>9, <2>2, WalkGrows
  <2>4. f \in BOOLEAN /\ f = Fragmented(p, i)
    BY <1>2, <1>3, <2>3
  <2> HIDE DEF p, n, r, t, a, h, left, f
  <2>5. i \in Nat /\ r.offset + ExtLen(h) \in Nat
    BY <1>2, <1>3, <1>4
  <2> HIDE DEF i
  <2>6. s \in DecoderState
    BY <1>2, <2>4, <2>5 DEF DecoderState
  <2>7. /\ s.stage = r.stage /\ s.depth = i /\ s.offset = r.offset + ExtLen(h)
        /\ s.avail = t /\ s.fragmented = f /\ s.frame = r.frame
    BY <1>2 DEF DecoderState, t
  <2> HIDE DEF s
  <2>8. /\ s.depth <= Len(p.chain) /\ s.offset = 40 + ChainTo(p, s.depth)
        /\ s.fragmented = Fragmented(p, s.depth) /\ Walked(p, s.avail, s.depth)
    BY <1>2, <1>3, <1>4, <2>3, <2>4, <2>7
  <2>9. Progress(p, n, s)
    BY <1>1, <1>2, <2>7, <2>8 DEF Progress, a
  <2> QED BY <2>1, <2>6, <2>9, Advance DEF p, n
<1> QED BY <1>7, <1>8, <1>9

LEMMA ChainDoneStep ==
    ASSUME LInv, NEW d \in ToSet(Decodings), ChainDone(d)
    PROVE  LInv'
<1> DEFINE p == P(d)  n == Captured(d)  r == D(d)  t == r.avail  L == Len(p.chain)
           a == n - Begins(p)  s == [r EXCEPT !.stage = "transport"]
<1>1. r.stage = "chain" /\ r.depth = L /\ Become(d, s)
  BY DEF ChainDone, At
<1>2. /\ p \in Packet /\ n \in Nat /\ r \in DecoderState /\ p.version = 6
      /\ t \in Nat /\ r.offset = 40 + ChainTo(p, r.depth) /\ r.frame = None
      /\ r.fragmented = Fragmented(p, r.depth) /\ Walked(p, t, r.depth)
      /\ a \in Nat /\ a >= 40 /\ t = Trim6(p, a) /\ Outcome(p, n) = InIpv6(p, a)
  BY <1>1, WalkFacts
<1>3. L \in Nat /\ ChainLen(p) = ChainTo(p, L) /\ ChainLen(p) \in Nat
  BY <1>2, ChainFacts
<1> HIDE DEF p, n, r, t, L, a
<1>4. ~\E k \in 1..L : EndsAt(p, t, k)
  BY <1>1, <1>2 DEF EndsAt, Walked
<1>5. Outcome(p, n) = Carries(p, t - (40 + ChainLen(p)), Fragmented(p, L))
  BY <1>1, <1>2, <1>4 DEF InIpv6, L
<1>6. s \in DecoderState
  BY <1>2 DEF DecoderState, Stages
<1>7. /\ s.stage = "transport" /\ s.offset = r.offset /\ s.avail = t
      /\ s.fragmented = r.fragmented /\ s.frame = r.frame
  BY <1>2 DEF DecoderState, t
<1> HIDE DEF s
<1>8. r.offset = 40 + ChainLen(p) /\ r.fragmented = Fragmented(p, L) /\ r.offset <= t
  BY <1>1, <1>2, <1>3 DEF Walked
<1>9. Progress(p, n, s)
  BY <1>2, <1>5, <1>7, <1>8 DEF Progress
<1> QED BY <1>1, <1>6, <1>9, Advance DEF p, n

-----------------------------------------------------------------------------
(* The transport header *)

LEMMA CarryFacts ==
    ASSUME LInv, NEW d \in ToSet(Decodings), D(d).stage = "transport"
    PROVE  /\ P(d).upper \in Uppers /\ P(d).claim \in Nat
           /\ D(d).fragmented \in BOOLEAN /\ D(d).avail - D(d).offset \in Nat
           /\ Outcome(P(d), Captured(d)) =
                 Carries(P(d), D(d).avail - D(d).offset, D(d).fragmented)
<1> DEFINE p == P(d)  n == Captured(d)  r == D(d)
<1>1. /\ p \in Packet /\ r \in DecoderState /\ Progress(p, n, r)
      /\ p.upper \in Uppers /\ p.claim \in Nat
  BY DecodingFacts, PacketFacts
<1> HIDE DEF p, n, r
<1>2. r.offset <= r.avail /\ Outcome(p, n) = Carries(p, r.avail - r.offset, r.fragmented)
  BY <1>1 DEF Progress, r
<1>3. r.fragmented \in BOOLEAN /\ r.avail \in Nat /\ r.offset \in Nat
  BY <1>1 DEF DecoderState
<1>4. r.avail - r.offset \in Nat
  BY <1>2, <1>3
<1> QED BY <1>1, <1>2, <1>3, <1>4 DEF p, n, r

LEMMA TcpStep ==
    ASSUME LInv, NEW d \in ToSet(Decodings), Tcp(d)
    PROVE  LInv'
<1> DEFINE p == P(d)  r == D(d)  rest == r.avail - r.offset
           payload == IF p.claim <= rest THEN rest - p.claim ELSE 0
           ports == <<"ports", "flags">>
<1>1. D(d).stage = "transport" /\ p.upper = "tcp"
  BY DEF Tcp, At
<1>2. /\ p.claim \in Nat /\ r.fragmented \in BOOLEAN /\ rest \in Nat
      /\ Outcome(p, Captured(d)) = Carries(p, rest, r.fragmented)
  BY <1>1, CarryFacts
<1>3. CASE rest < 20 \/ p.claim < 20
  <2>1. Reject(d)
    BY <1>3 DEF Tcp
  <2>2. Outcome(p, Captured(d)) = None
    BY <1>1, <1>2, <1>3 DEF Carries
  <2> QED BY <1>1, <2>1, <2>2, Rejected
<1>4. CASE ~(rest < 20 \/ p.claim < 20)
  <2>1. Describe(d, "tcp", ports, payload, r.fragmented)
    BY <1>4 DEF Tcp
  <2>2. Outcome(p, Captured(d)) = Framed(p, "tcp", ports, payload, r.fragmented)
    BY <1>1, <1>2, <1>4 DEF Carries
  <2>3. payload \in Nat
    <3> HIDE DEF rest
    <3> QED BY <1>2
  <2>4. "tcp" \in Uppers \cup ExtKinds
    BY DEF Uppers
  <2> HIDE DEF payload
  <2> QED BY <1>2, <2>1, <2>2, <2>3, <2>4, Settled
<1> QED BY <1>3, <1>4

LEMMA UdpStep ==
    ASSUME LInv, NEW d \in ToSet(Decodings), Udp(d)
    PROVE  LInv'
<1> DEFINE p == P(d)  r == D(d)  rest == r.avail - r.offset
           payload == IF p.claim >= 8 /\ p.claim < rest THEN p.claim - 8 ELSE rest - 8
<1>1. D(d).stage = "transport" /\ p.upper = "udp"
  BY DEF Udp, At
<1>2. /\ p.claim \in Nat /\ r.fragmented \in BOOLEAN /\ rest \in Nat
      /\ Outcome(p, Captured(d)) = Carries(p, rest, r.fragmented)
  BY <1>1, CarryFacts
<1>3. CASE rest < 8
  <2>1. Reject(d)
    BY <1>3 DEF Udp
  <2>2. Outcome(p, Captured(d)) = None
    BY <1>1, <1>2, <1>3 DEF Carries
  <2> QED BY <1>1, <2>1, <2>2, Rejected
<1>4. CASE ~(rest < 8)
  <2>1. Describe(d, "udp", <<"ports">>, payload, r.fragmented)
    BY <1>4 DEF Udp
  <2>2. Outcome(p, Captured(d)) = Framed(p, "udp", <<"ports">>, payload, r.fragmented)
    BY <1>1, <1>2, <1>4 DEF Carries
  <2>3. payload \in Nat
    <3> HIDE DEF rest
    <3> QED BY <1>2, <1>4
  <2>4. "udp" \in Uppers \cup ExtKinds
    BY DEF Uppers
  <2> HIDE DEF payload
  <2> QED BY <1>2, <2>1, <2>2, <2>3, <2>4, Settled
<1> QED BY <1>3, <1>4

LEMMA PortlessStep ==
    ASSUME LInv, NEW d \in ToSet(Decodings), Portless(d)
    PROVE  LInv'
<1> DEFINE p == P(d)  r == D(d)  rest == r.avail - r.offset
<1>1. D(d).stage = "transport" /\ p.upper \notin {"tcp", "udp"}
  BY DEF Portless, At
<1>2. /\ p.upper \in Uppers /\ r.fragmented \in BOOLEAN /\ rest \in Nat
      /\ Outcome(p, Captured(d)) = Carries(p, rest, r.fragmented)
  BY <1>1, CarryFacts
<1>3. Describe(d, p.upper, <<>>, rest, r.fragmented)
  BY DEF Portless
<1>4. Outcome(p, Captured(d)) = Framed(p, p.upper, <<>>, rest, r.fragmented)
  BY <1>1, <1>2 DEF Carries
<1> HIDE DEF rest
<1> QED BY <1>2, <1>3, <1>4, Settled

-----------------------------------------------------------------------------
(* The invariant *)

LEMMA LInit == Init => LInv
<1> SUFFICES ASSUME Init PROVE LInv
  OBVIOUS
<1>1. packet \in Packet /\ size \in 0..Whole(packet) /\ Whole(packet) \in Nat
  BY PacketsAssumption, WholeFacts DEF Init
<1>2. ASSUME NEW d \in ToSet(Decodings)
      PROVE  D(d) \in DecoderState /\ Progress(P(d), Captured(d), D(d))
  <2> DEFINE r == D(d)
  <2>1. r = [stage |-> "link", tag |-> 0, depth |-> 0, offset |-> 0,
             avail |-> Captured(d), fragmented |-> FALSE, frame |-> None]
    BY DEF Init, D, Captured
  <2>2. Captured(d) \in Nat
    BY <1>1 DEF Captured
  <2> HIDE DEF r
  <2>3. r \in DecoderState
    BY <2>1, <2>2 DEF DecoderState, Stages, Frames
  <2>4. /\ r.stage = "link" /\ r.tag = 0 /\ r.depth = 0 /\ r.offset = 0
        /\ r.avail = Captured(d) /\ r.fragmented = FALSE /\ r.frame = None
    BY <2>1
  <2>5. Progress(P(d), Captured(d), r)
    BY <2>4 DEF Progress, Fresh
  <2> QED BY <2>3, <2>5 DEF r
<1>3. decoder \in [ToSet(Decodings) -> DecoderState]
  <2>1. \A d \in ToSet(Decodings) : decoder[d] \in DecoderState
    BY <1>2 DEF D
  <2>2. decoder = [d \in ToSet(Decodings) |-> decoder[d]]
    BY DEF Init
  <2> QED BY <2>1, <2>2
<1> QED BY <1>1, <1>2, <1>3 DEF LInv

LEMMA LStep ==
    ASSUME LInv, [Next]_vars
    PROVE  LInv'
<1>1. CASE Next
  <2>1. PICK d \in ToSet(Decodings) : Step(d)
    BY <1>1 DEF Next
  <2> QED BY <2>1, LinkStep, TagWalkStep, BareStep, Ipv4Step, Ipv6Step, ExtStep,
             ChainDoneStep, TcpStep, UdpStep, PortlessStep DEF Step
<1>2. CASE UNCHANGED vars
  <2>1. packet' = packet /\ size' = size /\ decoder' = decoder
    BY <1>2 DEF vars
  <2>2. ASSUME NEW e \in ToSet(Decodings) PROVE Progress(P(e), Captured(e), D(e))'
    <3>1. P(e)' = P(e) /\ Captured(e)' = Captured(e) /\ D(e)' = D(e)
      BY <2>1 DEF P, Captured, D
    <3>2. Progress(P(e), Captured(e), D(e))' = Progress(P(e)', Captured(e)', D(e)')
      BY DEF Progress, Outcome, Reached, InIpv4, InIpv6, Carries
    <3> QED BY <3>1, <3>2, DecodingFacts
  <2> QED BY <2>1, <2>2 DEF LInv
<1> QED BY <1>1, <1>2

\* What a decoding has come to: what Outcome says, and until then nothing.
WalkIsOutcome ==
    \A d \in ToSet(Decodings) :
       Frame(d) = IF Finished(d) THEN Outcome(P(d), Captured(d)) ELSE None

(* The walk of decode over the headers of a packet comes to what the packet *)
(* as a whole says of its first bytes, however many tags and extension      *)
(* headers there are.                                                       *)
THEOREM WalkDecodes == Spec => []WalkIsOutcome
<1>1. LInv => WalkIsOutcome
  <2> SUFFICES ASSUME LInv, NEW d \in ToSet(Decodings)
               PROVE  Frame(d) = IF Finished(d) THEN Outcome(P(d), Captured(d)) ELSE None
    BY DEF WalkIsOutcome
  <2> QED BY DecodingFacts DEF Progress, Frame, Finished
<1>2. LInv /\ [Next]_vars => LInv'
  BY LStep
<1> QED BY <1>1, <1>2, LInit, PTL DEF Spec

-----------------------------------------------------------------------------
(* What a cut changes *)

\* The frame f says the same of the packet as g does, with no more payload.
Same(f, g) ==
    /\ g.described
    /\ [f EXCEPT !.payload = 0] = [g EXCEPT !.payload = 0]
    /\ f.payload <= g.payload

LEMMA NoneFacts == None.described = FALSE
BY DEF None

\* The records that Framed returns.
FramedAs(A, B, V) ==
    [described : BOOLEAN, proto : A, ports : B, payload : Nat, fragmented : BOOLEAN, vlan : V]

LEMMA SameButPayload ==
    ASSUME NEW A, NEW B, NEW V, NEW f \in FramedAs(A, B, V), NEW g \in FramedAs(A, B, V),
           g.described = TRUE, f.described = g.described, f.proto = g.proto,
           f.ports = g.ports, f.fragmented = g.fragmented, f.vlan = g.vlan,
           f.payload <= g.payload
    PROVE  Same(f, g)
<1>1. [f EXCEPT !.payload = 0] = [g EXCEPT !.payload = 0]
  BY DEF FramedAs
<1> QED BY <1>1, Zenon DEF Same

LEMMA FramedMore ==
    ASSUME NEW p, NEW proto, NEW ports, NEW x \in Nat, NEW y \in Nat,
           NEW fragmented \in BOOLEAN, x <= y
    PROVE  Same(Framed(p, proto, ports, x, fragmented), Framed(p, proto, ports, y, fragmented))
<1> DEFINE f == Framed(p, proto, ports, x, fragmented)
           g == Framed(p, proto, ports, y, fragmented)
           R == FramedAs({proto}, {ports}, {Vlan(p)})
<1>1. f \in R /\ g \in R
  <2> DEFINE v == Vlan(p)
  <2>1. v \in {v}
    OBVIOUS
  <2> HIDE DEF v
  <2> QED BY <2>1 DEF Framed, FramedAs, v
<1>2. /\ f.described = TRUE /\ f.proto = proto /\ f.ports = ports /\ f.payload = x
      /\ f.fragmented = fragmented /\ f.vlan = Vlan(p)
  BY DEF Framed
<1>3. /\ g.described = TRUE /\ g.proto = proto /\ g.ports = ports /\ g.payload = y
      /\ g.fragmented = fragmented /\ g.vlan = Vlan(p)
  BY DEF Framed
<1> HIDE DEF f, g
<1>4. /\ g.described = TRUE /\ f.described = g.described /\ f.proto = g.proto
      /\ f.ports = g.ports /\ f.fragmented = g.fragmented /\ f.vlan = g.vlan
      /\ f.payload <= g.payload
  BY <1>2, <1>3
<1>5. Same(f, g)
  BY <1>1, <1>4, SameButPayload, Zenon
<1> QED BY <1>5 DEF f, g

\* A fragment whose ports are unknown.
LEMMA FramedSame ==
    ASSUME NEW p, NEW proto
    PROVE  Same(Framed(p, proto, <<>>, 0, TRUE), Framed(p, proto, <<>>, 0, TRUE))
<1>1. 0 \in Nat /\ 0 <= 0 /\ TRUE \in BOOLEAN
  OBVIOUS
<1> QED BY <1>1, FramedMore, Zenon

LEMMA CarriesMore ==
    ASSUME NEW p \in Packet, NEW x \in Nat, NEW y \in Nat,
           NEW fragmented \in BOOLEAN, x <= y,
           Carries(p, x, fragmented).described
    PROVE  Same(Carries(p, x, fragmented), Carries(p, y, fragmented))
<1>1. p.claim \in Nat
  BY PacketFacts
<1>2. CASE p.upper = "tcp"
  <2> DEFINE of(rest) == IF p.claim <= rest THEN rest - p.claim ELSE 0
  <2>1. ~(x < 20 \/ p.claim < 20)
    BY <1>2, NoneFacts DEF Carries
  <2>2. ~(y < 20 \/ p.claim < 20)
    BY <1>1, <2>1
  <2>3. /\ Carries(p, x, fragmented) = Framed(p, "tcp", <<"ports", "flags">>, of(x), fragmented)
        /\ Carries(p, y, fragmented) = Framed(p, "tcp", <<"ports", "flags">>, of(y), fragmented)
    BY <1>2, <2>1, <2>2 DEF Carries
  <2>4. of(x) \in Nat /\ of(y) \in Nat /\ of(x) <= of(y)
    BY <1>1
  <2> HIDE DEF of
  <2> QED BY <2>3, <2>4, FramedMore
<1>3. CASE p.upper = "udp"
  <2> DEFINE of(rest) == IF p.claim >= 8 /\ p.claim < rest THEN p.claim - 8 ELSE rest - 8
  <2>1. ~(x < 8)
    BY <1>3, NoneFacts DEF Carries
  <2>2. ~(y < 8)
    BY <2>1
  <2>3. /\ Carries(p, x, fragmented) = Framed(p, "udp", <<"ports">>, of(x), fragmented)
        /\ Carries(p, y, fragmented) = Framed(p, "udp", <<"ports">>, of(y), fragmented)
    BY <1>3, <2>1, <2>2 DEF Carries
  <2>4. of(x) \in Nat /\ of(y) \in Nat /\ of(x) <= of(y)
    BY <1>1, <2>1, <2>2
  <2> HIDE DEF of
  <2> QED BY <2>3, <2>4, FramedMore
<1>4. CASE p.upper \notin {"tcp", "udp"}
  <2>1. /\ Carries(p, x, fragmented) = Framed(p, p.upper, <<>>, x, fragmented)
        /\ Carries(p, y, fragmented) = Framed(p, p.upper, <<>>, y, fragmented)
    BY <1>4 DEF Carries
  <2> QED BY <2>1, FramedMore
<1> QED BY <1>2, <1>3, <1>4

LEMMA TrimMore ==
    ASSUME NEW p \in Packet, NEW m \in Nat, NEW n \in Nat, m <= n
    PROVE  Trim4(p, m) <= Trim4(p, n) /\ Trim6(p, m) <= Trim6(p, n)
<1>1. p.declared \in Nat /\ p.ihl \in Nat
  BY PacketFacts
<1> QED BY <1>1 DEF Trim4, Trim6

LEMMA InIpv4More ==
    ASSUME NEW p \in Packet, NEW m \in Nat, NEW n \in Nat, m <= n, InIpv4(p, m).described
    PROVE  Same(InIpv4(p, m), InIpv4(p, n))
<1>1. Held4(p, m)
  BY NoneFacts DEF InIpv4
<1>2. /\ p.ihl \in Nat /\ Trim4(p, m) \in Nat /\ Trim4(p, n) \in Nat
      /\ Trim4(p, m) <= Trim4(p, n)
  BY PacketFacts, TrimFacts, TrimMore
<1>3. Held4(p, n)
  BY <1>1, <1>2 DEF Held4
<1>4. CASE p.fragment = "later"
  <2>1. /\ InIpv4(p, m) = Framed(p, p.upper, <<>>, 0, TRUE)
        /\ InIpv4(p, n) = Framed(p, p.upper, <<>>, 0, TRUE)
    BY <1>1, <1>3, <1>4 DEF InIpv4
  <2> QED BY <2>1, FramedSame
<1>5. CASE p.fragment # "later"
  <2> DEFINE x == Trim4(p, m) - p.ihl  y == Trim4(p, n) - p.ihl  first == p.fragment = "first"
  <2>1. x \in Nat /\ y \in Nat /\ x <= y
    BY <1>1, <1>2, <1>3 DEF Held4
  <2>2. InIpv4(p, m) = Carries(p, x, first) /\ InIpv4(p, n) = Carries(p, y, first)
    BY <1>1, <1>3, <1>5 DEF InIpv4
  <2>3. first \in BOOLEAN
    OBVIOUS
  <2> HIDE DEF x, y, first
  <2> QED BY <2>1, <2>2, <2>3, CarriesMore
<1> QED BY <1>4, <1>5

LEMMA WalkedMore ==
    ASSUME NEW p \in Packet, NEW t \in Nat, NEW u \in Nat, t <= u
    PROVE  /\ \A k \in 0..Len(p.chain) : Walked(p, t, k) => Walked(p, u, k)
           /\ \A k \in 1..Len(p.chain) : EndsAt(p, t, k) => EndsAt(p, u, k)
<1>1. Len(p.chain) \in Nat /\ \A k \in 0..Len(p.chain) : ChainTo(p, k) \in Nat
  BY ChainFacts
<1>2. ASSUME NEW k \in 0..Len(p.chain), Walked(p, t, k) PROVE Walked(p, u, k)
  <2>1. 40 + ChainTo(p, k) <= t /\ ChainTo(p, k) \in Nat
    BY <1>1, <1>2 DEF Walked
  <2>2. 40 + ChainTo(p, k) <= u
    BY <2>1
  <2> QED BY <1>2, <2>2 DEF Walked
<1>3. ASSUME NEW k \in 1..Len(p.chain), EndsAt(p, t, k) PROVE EndsAt(p, u, k)
  <2>1. k - 1 \in 0..Len(p.chain) /\ k \in 0..Len(p.chain)
    BY <1>1
  <2>2. Walked(p, t, k - 1) /\ 40 + ChainTo(p, k) <= t /\ ChainTo(p, k) \in Nat
    BY <1>1, <1>3, <2>1 DEF EndsAt
  <2>3. Walked(p, u, k - 1)
    BY <1>2, <2>1, <2>2
  <2>4. 40 + ChainTo(p, k) <= u
    BY <2>2
  <2> QED BY <1>3, <2>3, <2>4 DEF EndsAt
<1> QED BY <1>2, <1>3

LEMMA InIpv6More ==
    ASSUME NEW p \in Packet, NEW m \in Nat, NEW n \in Nat, m <= n, InIpv6(p, m).described
    PROVE  Same(InIpv6(p, m), InIpv6(p, n))
<1> DEFINE t == Trim6(p, m)  u == Trim6(p, n)  L == Len(p.chain)
           ends(v) == \E k \in 1..L : EndsAt(p, v, k)
<1>1. ~(m < 40 \/ p.version # 6)
  BY NoneFacts DEF InIpv6
<1>2. ~(n < 40 \/ p.version # 6)
  BY <1>1
<1>3. /\ t \in Nat /\ u \in Nat /\ t <= u /\ L \in Nat /\ ChainLen(p) \in Nat
      /\ ChainLen(p) = ChainTo(p, L)
  BY TrimFacts, TrimMore, ChainFacts
<1>4. CASE ends(t)
  <2>1. PICK k \in 1..L : EndsAt(p, t, k)
    BY <1>4
  <2>2. EndsAt(p, u, k)
    BY <1>3, <2>1, WalkedMore
  <2>3. Ending(p, t) = k /\ Ending(p, u) = k
    BY <2>1, <2>2, OneEnding
  <2>4. /\ InIpv6(p, m) = Framed(p, NextHeader(p, k), <<>>, 0, TRUE)
        /\ InIpv6(p, n) = Framed(p, NextHeader(p, k), <<>>, 0, TRUE)
    BY <1>1, <1>2, <2>1, <2>2, <2>3 DEF InIpv6
  <2> QED BY <2>4, FramedSame
<1>5. CASE ~ends(t)
  <2>1. Walked(p, t, L)
    BY <1>1, <1>5, NoneFacts DEF InIpv6
  <2>2. Walked(p, u, L)
    BY <1>3, <2>1, WalkedMore
  <2>3. ~ends(u)
    BY <2>1 DEF Walked, EndsAt
  <2> DEFINE x == t - (40 + ChainLen(p))  y == u - (40 + ChainLen(p))
             f == Fragmented(p, L)
  <2>4. InIpv6(p, m) = Carries(p, x, f) /\ InIpv6(p, n) = Carries(p, y, f)
    BY <1>1, <1>2, <1>5, <2>1, <2>2, <2>3 DEF InIpv6
  <2>5. x \in Nat /\ y \in Nat /\ x <= y
    <3>1. 40 + ChainLen(p) <= t
      BY <1>3, <2>1 DEF Walked
    <3> HIDE DEF t, u
    <3> QED BY <1>3, <3>1
  <2>6. f \in BOOLEAN
    BY DEF Fragmented
  <2> HIDE DEF x, y, f
  <2> QED BY <2>4, <2>5, <2>6, CarriesMore
<1> QED BY <1>4, <1>5

LEMMA OutcomeMore ==
    ASSUME NEW p \in Packet, NEW m \in Nat, NEW n \in Nat, m <= n, Outcome(p, m).described
    PROVE  Same(Outcome(p, m), Outcome(p, n))
<1> DEFINE a == m - Begins(p)  b == n - Begins(p)
<1>1. Reached(p, m) /\ Begins(p) \in Nat
  BY PacketFacts, NoneFacts DEF Outcome
<1>2. Reached(p, n) /\ a \in Nat /\ b \in Nat /\ a <= b
  BY <1>1 DEF Reached
<1>3. CASE Carried(p) = "ipv4"
  <2>1. Outcome(p, m) = InIpv4(p, a) /\ Outcome(p, n) = InIpv4(p, b)
    BY <1>1, <1>2, <1>3 DEF Outcome
  <2> HIDE DEF a, b
  <2> QED BY <1>2, <2>1, InIpv4More
<1>4. CASE Carried(p) # "ipv4"
  <2>1. Outcome(p, m) = InIpv6(p, a) /\ Outcome(p, n) = InIpv6(p, b)
    BY <1>1, <1>2, <1>4 DEF Outcome
  <2> HIDE DEF a, b
  <2> QED BY <1>2, <2>1, InIpv6More
<1> QED BY <1>3, <1>4

\* What is known of the frame of a decoding.
LEMMA FrameFacts ==
    ASSUME LInv, NEW d \in ToSet(Decodings)
    PROVE  /\ Frame(d).described => Finished(d)
           /\ Finished(d) => Frame(d) = Outcome(P(d), Captured(d))
<1>1. Frame(d) = IF Finished(d) THEN Outcome(P(d), Captured(d)) ELSE None
  BY DecodingFacts DEF Progress, Frame, Finished
<1> QED BY <1>1, NoneFacts

(* A packet cut short after any byte is described as the whole of it is,   *)
(* with no more payload, or not at all.                                    *)
THEOREM CutIsDescribedSame == Spec => []CutDescribesSame
<1>1. LInv => CutDescribesSame
  <2> SUFFICES ASSUME LInv, Finished("whole"), Frame("cut").described
               PROVE  Same(Frame("cut"), Frame("whole"))
    BY DEF CutDescribesSame, Same
  <2>1. "cut" \in ToSet(Decodings) /\ "whole" \in ToSet(Decodings)
    BY Three
  <2>2. /\ P("cut") = packet /\ P("whole") = packet /\ packet \in Packet
        /\ Captured("cut") = size /\ Captured("whole") = Whole(packet)
    BY DEF P, Captured, LInv
  <2>3. /\ Frame("cut") = Outcome(packet, size)
        /\ Frame("whole") = Outcome(packet, Whole(packet))
    BY <2>1, <2>2, FrameFacts
  <2>4. Whole(packet) \in Nat /\ size \in Nat /\ size <= Whole(packet)
    BY <2>2, WholeFacts DEF LInv
  <2> QED BY <2>2, <2>3, <2>4, OutcomeMore
<1> QED BY <1>1, LStep, LInit, PTL DEF Spec

-----------------------------------------------------------------------------
(* Packets whose lengths are true *)

\* The frame f is described, with the payload a packet of true lengths has.
Exact(p, f) ==
    /\ f.described
    /\ f.payload = CASE p.upper = "tcp" -> Honest(p) - p.claim
                     [] p.upper = "udp" -> p.claim - 8
                     [] OTHER -> Honest(p)

LEMMA HonestCarries ==
    ASSUME NEW p \in Packet, Consistent(p), NEW fragmented
    PROVE  Exact(p, Carries(p, Honest(p), fragmented))
<1> DEFINE rest == Honest(p)
<1>1. /\ p.claim \in Nat /\ rest \in Nat
      /\ p.upper = "tcp" => p.claim >= 20 /\ p.claim <= rest
      /\ p.upper = "udp" => p.claim = rest /\ p.claim >= 8
  <2>1. p.claim \in Nat /\ p.room \in Nat
    BY PacketFacts
  <2>2. /\ rest \in 0..p.room
        /\ p.upper = "tcp" => p.claim \in 20..rest
        /\ p.upper = "udp" => p.claim = rest /\ p.claim >= 8
    BY DEF Consistent
  <2> HIDE DEF rest
  <2> QED BY <2>1, <2>2
<1> HIDE DEF rest
<1>2. CASE p.upper = "tcp"
  <2>1. ~(rest < 20 \/ p.claim < 20)
    BY <1>1, <1>2
  <2>2. Carries(p, rest, fragmented)
          = Framed(p, "tcp", <<"ports", "flags">>, rest - p.claim, fragmented)
    BY <1>1, <1>2, <2>1 DEF Carries
  <2>3. /\ Carries(p, rest, fragmented).described
        /\ Carries(p, rest, fragmented).payload = rest - p.claim
    BY <2>2 DEF Framed
  <2> QED BY <1>2, <2>3 DEF Exact, rest
<1>3. CASE p.upper = "udp"
  <2>1. ~(rest < 8) /\ ~(p.claim >= 8 /\ p.claim < rest) /\ rest - 8 = p.claim - 8
    BY <1>1, <1>3
  <2>2. Carries(p, rest, fragmented)
          = Framed(p, "udp", <<"ports">>, rest - 8, fragmented)
    BY <1>3, <2>1 DEF Carries
  <2>3. /\ Carries(p, rest, fragmented).described
        /\ Carries(p, rest, fragmented).payload = p.claim - 8
    BY <2>1, <2>2 DEF Framed
  <2> QED BY <1>3, <2>3 DEF Exact, rest
<1>4. CASE p.upper \notin {"tcp", "udp"}
  <2>1. Carries(p, rest, fragmented) = Framed(p, p.upper, <<>>, rest, fragmented)
    BY <1>4 DEF Carries
  <2>2. /\ Carries(p, rest, fragmented).described
        /\ Carries(p, rest, fragmented).payload = rest
    BY <2>1 DEF Framed
  <2> QED BY <1>4, <2>2 DEF Exact, rest
<1> QED BY <1>2, <1>3, <1>4 DEF rest

LEMMA HonestIpv4 ==
    ASSUME NEW p \in Packet, Consistent(p), ~Later(p), Carried(p) = "ipv4"
    PROVE  Exact(p, InIpv4(p, IpLen(p) + ChainLen(p) + p.room)) /\ Len(p.chain) = 0
<1> DEFINE a == IpLen(p) + ChainLen(p) + p.room
<1>1. /\ p.declared \in Nat /\ p.ihl \in Nat /\ p.room \in Nat
      /\ p.version = 4 /\ p.ihl >= 20 /\ p.chain = <<>>
      /\ Honest(p) = p.declared - p.ihl /\ p.declared - p.ihl \in 0..p.room
  BY PacketFacts DEF Consistent, Honest
<1>2. Len(p.chain) = 0
  BY <1>1
<1>3. ChainLen(p) = 0
  BY <1>2, ChainFacts
<1>4. a = p.ihl + p.room
  BY <1>1, <1>3 DEF IpLen
<1> HIDE DEF a
<1>5. Trim4(p, a) = p.declared
  BY <1>1, <1>4 DEF Trim4
<1>6. Held4(p, a)
  BY <1>1, <1>4, <1>5 DEF Held4
<1>7. p.fragment # "later"
  BY DEF Later
<1>8. InIpv4(p, a) = Carries(p, Honest(p), p.fragment = "first")
  BY <1>1, <1>5, <1>6, <1>7 DEF InIpv4
<1> DEFINE first == p.fragment = "first"
<1>9. InIpv4(p, a) = Carries(p, Honest(p), first)
  BY <1>8
<1> HIDE DEF first
<1>10. Exact(p, Carries(p, Honest(p), first))
  BY HonestCarries
<1> QED BY <1>2, <1>9, <1>10 DEF a

LEMMA HonestIpv6 ==
    ASSUME NEW p \in Packet, Consistent(p), ~Later(p), Carried(p) # "ipv4"
    PROVE  LET a == IpLen(p) + ChainLen(p) + p.room IN
           /\ Len(p.chain) <= MaxExtHeaders => Exact(p, InIpv6(p, a))
           /\ ~(Len(p.chain) <= MaxExtHeaders) => InIpv6(p, a) = None
<1> DEFINE a == IpLen(p) + ChainLen(p) + p.room
           L == Len(p.chain)
           t == 40 + p.declared
           f == Fragmented(p, L)
<1>1. /\ p.declared \in Nat /\ p.room \in Nat /\ p.version = 6 /\ p.declared > 0
      /\ Honest(p) = p.declared - ChainLen(p) /\ p.declared - ChainLen(p) \in 0..p.room
      /\ IpLen(p) = 40
  BY PacketFacts DEF Consistent, Honest, IpLen
<1>2. L \in Nat /\ ChainLen(p) \in Nat /\ ChainLen(p) = ChainTo(p, L)
  BY ChainFacts
<1>3. a \in Nat /\ a >= 40 /\ t <= a /\ 40 + ChainLen(p) <= t /\ t - (40 + ChainLen(p)) = Honest(p)
  <2> HIDE DEF L
  <2> QED BY <1>1, <1>2
<1> HIDE DEF a
<1>4. Trim6(p, a) = t
  BY <1>1, <1>3 DEF Trim6
<1>5. \A i \in 1..L : p.chain[i].kind # "later frag"
  BY DEF Later
<1>6. ~\E k \in 1..L : EndsAt(p, t, k)
  BY <1>5 DEF EndsAt
<1>7. Walked(p, t, L) <=> L <= MaxExtHeaders
  BY <1>2, <1>3, <1>5 DEF Walked
<1> HIDE DEF t
<1>8. CASE L <= MaxExtHeaders
  <2>1. InIpv6(p, a) = Carries(p, t - (40 + ChainLen(p)), f)
    BY <1>1, <1>3, <1>4, <1>6, <1>7, <1>8 DEF InIpv6
  <2>2. InIpv6(p, a) = Carries(p, Honest(p), f)
    BY <1>3, <2>1
  <2> HIDE DEF f
  <2>3. Exact(p, Carries(p, Honest(p), f))
    BY HonestCarries
  <2> QED BY <1>8, <2>2, <2>3 DEF a
<1>9. CASE ~(L <= MaxExtHeaders)
  <2>1. InIpv6(p, a) = None
    BY <1>4, <1>6, <1>7, <1>9 DEF InIpv6
  <2> QED BY <1>9, <2>1 DEF a
<1> QED BY <1>8, <1>9

(* A packet whose lengths are true is described when it has no more tags   *)
(* and extension headers than the limits, and its payload is exact.        *)
THEOREM HonestIsDecoded == Spec => []HonestDecoded
<1>1. LInv => HonestDecoded
  <2> DEFINE p == packet  n == Whole(p)  f == Frame("whole")
             a == IpLen(p) + ChainLen(p) + p.room
             within == Len(Tags(p)) <= MaxVlanTags /\ Len(p.chain) <= MaxExtHeaders
  <2> SUFFICES ASSUME LInv, Finished("whole"), Consistent(p), ~Later(p)
               PROVE  (f.described <=> within) /\ (f.described => Exact(p, f))
    BY DEF HonestDecoded, Exact
  <2>1. p \in Packet /\ f = Outcome(p, n)
    <3>1. "whole" \in ToSet(Decodings) /\ P("whole") = p /\ Captured("whole") = n
      BY Three DEF P, Captured
    <3> QED BY <3>1, FrameFacts DEF LInv
  <2>2. /\ n \in Nat /\ Begins(p) \in Nat /\ a \in Nat /\ n - Begins(p) = a /\ n > Begins(p)
        /\ Len(Tags(p)) \in Nat
    <3>1. /\ n = Begins(p) + IpLen(p) + ChainLen(p) + p.room /\ Begins(p) \in Nat
          /\ IpLen(p) \in Nat /\ IpLen(p) >= 20 /\ ChainLen(p) \in Nat /\ p.room \in Nat
          /\ n \in Nat /\ Len(Tags(p)) \in Nat
      BY <2>1, WholeFacts, PacketFacts, ChainFacts
    <3> HIDE DEF n
    <3> QED BY <3>1
  <2>3. p.linktype # "other" /\ Carried(p) # "arp"
    BY DEF Consistent
  <2> HIDE DEF n
  <2>4. Reached(p, n) <=> Len(Tags(p)) <= MaxVlanTags
    BY <2>2, <2>3 DEF Reached
  <2>5. CASE ~(Len(Tags(p)) <= MaxVlanTags)
    <3>1. f = None
      BY <2>1, <2>4, <2>5, NotReached
    <3> QED BY <2>5, <3>1, NoneFacts
  <2>6. CASE Len(Tags(p)) <= MaxVlanTags /\ Carried(p) = "ipv4"
    <3>1. f = InIpv4(p, a)
      BY <2>1, <2>2, <2>4, <2>6 DEF Outcome
    <3>2. Exact(p, f) /\ Len(p.chain) = 0
      BY <2>1, <2>6, <3>1, HonestIpv4
    <3>3. within
      BY <2>6, <3>2, LimitsAssumption
    <3> QED BY <3>2, <3>3 DEF Exact
  <2>7. CASE Len(Tags(p)) <= MaxVlanTags /\ Carried(p) # "ipv4"
    <3>1. f = InIpv6(p, a)
      BY <2>1, <2>2, <2>4, <2>7 DEF Outcome
    <3>2. /\ Len(p.chain) <= MaxExtHeaders => Exact(p, f)
          /\ ~(Len(p.chain) <= MaxExtHeaders) => f = None
      BY <2>1, <2>7, <3>1, HonestIpv6
    <3> QED BY <2>7, <3>2, NoneFacts DEF Exact
  <2> QED BY <2>5, <2>6, <2>7
<1> QED BY <1>1, LStep, LInit, PTL DEF Spec

-----------------------------------------------------------------------------
(* The fragments of a datagram *)

LEMMA CarriesUpper ==
    ASSUME NEW p, NEW rest, NEW fragmented, Carries(p, rest, fragmented).described
    PROVE  /\ Carries(p, rest, fragmented).proto = p.upper
           /\ Carries(p, rest, fragmented).fragmented = fragmented
<1>1. CASE p.upper = "tcp"
  <2>1. ~(rest < 20 \/ p.claim < 20)
    BY <1>1, NoneFacts DEF Carries
  <2> QED BY <1>1, <2>1 DEF Carries, Framed
<1>2. CASE p.upper = "udp"
  <2>1. ~(rest < 8)
    BY <1>2, NoneFacts DEF Carries
  <2> QED BY <1>2, <2>1 DEF Carries, Framed
<1>3. CASE p.upper \notin {"tcp", "udp"}
  BY <1>3 DEF Carries, Framed
<1> QED BY <1>1, <1>2, <1>3

LEMMA FramedFragment ==
    ASSUME NEW p, NEW proto, NEW f, f = Framed(p, proto, <<>>, 0, TRUE)
    PROVE  f.fragmented /\ f.proto = proto
BY DEF Framed

\* The first fragment of a datagram of IPv4, and a later one.
LEMMA FirstIpv4 ==
    ASSUME NEW p, NEW n, p.fragment = "first", InIpv4(p, n).described
    PROVE  InIpv4(p, n).fragmented /\ InIpv4(p, n).proto = p.upper
<1> DEFINE yes == TRUE  rest == Trim4(p, n) - p.ihl
<1>1. InIpv4(p, n) = Carries(p, rest, yes)
  BY NoneFacts DEF InIpv4
<1>2. yes
  OBVIOUS
<1> HIDE DEF yes, rest
<1>3. Carries(p, rest, yes).described
  BY <1>1
<1>4. Carries(p, rest, yes).proto = p.upper /\ Carries(p, rest, yes).fragmented = yes
  BY <1>3, CarriesUpper
<1> QED BY <1>1, <1>2, <1>4, Zenon

LEMMA LaterIpv4 ==
    ASSUME NEW p, NEW n, p.fragment = "later", InIpv4(p, n).described
    PROVE  InIpv4(p, n).fragmented /\ InIpv4(p, n).proto = p.upper
<1>1. InIpv4(p, n) = Framed(p, p.upper, <<>>, 0, TRUE)
  BY NoneFacts DEF InIpv4
<1> QED BY <1>1 DEF Framed

\* Those of a datagram of IPv6, whose chain a fragment header of this kind
\* closes, the only one of its kind.
Closes(p, kind) ==
    \E i \in 1..Len(p.chain) :
       /\ i = Len(p.chain)
       /\ \A j \in 1..Len(p.chain) : p.chain[j].kind = kind <=> j = i

Unended(p) == \A j \in 1..Len(p.chain) : p.chain[j].kind # "later frag"

LEMMA FirstCloses ==
    ASSUME NEW p \in Packet, Carried(p) # "ipv4", First(p)
    PROVE  Closes(p, "frag") /\ Unended(p)
<1>1. DOMAIN p.chain = 1..Len(p.chain)
  BY PacketFacts, LenProperties
<1>2. PICK i \in DOMAIN p.chain :
         /\ i = Len(p.chain)
         /\ \A j \in DOMAIN p.chain : p.chain[j].kind = "frag" <=> j = i
         /\ \A j \in DOMAIN p.chain : p.chain[j].kind # "later frag"
  BY DEF First
<1>3. i \in 1..Len(p.chain)
  BY <1>1
<1>4. ASSUME NEW j \in 1..Len(p.chain)
      PROVE  p.chain[j].kind # "later frag" /\ (p.chain[j].kind = "frag" <=> j = i)
  <2>1. j \in DOMAIN p.chain
    BY <1>1
  <2> QED BY <1>2, <2>1, Zenon
<1>5. Unended(p)
  BY <1>4, Zenon DEF Unended
<1>6. i = Len(p.chain)
  BY <1>2, Zenon
<1>7. Closes(p, "frag")
  BY <1>3, <1>4, <1>6, Zenon DEF Closes
<1> QED BY <1>5, <1>7

LEMMA LaterCloses ==
    ASSUME NEW p \in Packet, Closes(p, "frag"), Unended(p)
    PROVE  Closes(LaterOf(p), "later frag")
<1> DEFINE q == LaterOf(p)
<1>1. /\ Len(q.chain) = Len(p.chain)
      /\ \A i \in 1..Len(p.chain) :
            q.chain[i].kind
               = IF p.chain[i].kind = "frag" THEN "later frag" ELSE p.chain[i].kind
  BY LaterFacts
<1> HIDE DEF q
<1>2. PICK i \in 1..Len(p.chain) :
         /\ i = Len(p.chain)
         /\ \A j \in 1..Len(p.chain) : p.chain[j].kind = "frag" <=> j = i
  BY DEF Closes
<1>3. ASSUME NEW j \in 1..Len(p.chain)
      PROVE  q.chain[j].kind = "later frag" <=> j = i
  <2>1. p.chain[j].kind # "later frag"
    BY DEF Unended
  <2>2. q.chain[j].kind
           = IF p.chain[j].kind = "frag" THEN "later frag" ELSE p.chain[j].kind
    BY <1>1, Zenon
  <2>3. p.chain[j].kind = "frag" <=> j = i
    BY <1>2, Zenon
  <2>4. CASE j = i
    BY <2>2, <2>3, <2>4, Zenon
  <2>5. CASE j # i
    BY <2>1, <2>2, <2>3, <2>5, Zenon
  <2> QED BY <2>4, <2>5
<1>4. i = Len(q.chain) /\ i \in 1..Len(q.chain)
  BY <1>1, <1>2
<1>5. \A j \in 1..Len(q.chain) : q.chain[j].kind = "later frag" <=> j = i
  BY <1>1, <1>3
<1>6. Closes(q, "later frag")
  BY <1>4, <1>5, Zenon DEF Closes
<1> QED BY <1>6 DEF q

LEMMA LastHeader ==
    ASSUME NEW p \in Packet
    PROVE  NextHeader(p, Len(p.chain)) = p.upper
<1>1. Len(p.chain) \in Nat
  BY ChainFacts
<1>2. ~(Len(p.chain) < Len(p.chain))
  BY <1>1
<1> QED BY <1>2 DEF NextHeader

LEMMA FirstIpv6 ==
    ASSUME NEW p \in Packet, NEW n, InIpv6(p, n).described, Closes(p, "frag"), Unended(p)
    PROVE  InIpv6(p, n).fragmented /\ InIpv6(p, n).proto = p.upper
<1> DEFINE L == Len(p.chain)  t == Trim6(p, n)  f == Fragmented(p, L)
           rest == t - (40 + ChainLen(p))
<1>1. ~\E k \in 1..L : EndsAt(p, t, k)
  BY DEF EndsAt, Unended
<1>2. InIpv6(p, n) = Carries(p, rest, f)
  BY <1>1, NoneFacts DEF InIpv6
<1>3. f
  <2>1. PICK i \in 1..L : p.chain[i].kind = "frag"
    BY DEF Closes
  <2> QED BY <2>1 DEF Fragmented, Fragment
<1> HIDE DEF f, rest
<1>4. Carries(p, rest, f).described
  BY <1>2
<1>5. Carries(p, rest, f).proto = p.upper /\ Carries(p, rest, f).fragmented = f
  BY <1>4, CarriesUpper
<1> QED BY <1>2, <1>3, <1>5, Zenon

LEMMA LaterIpv6 ==
    ASSUME NEW p \in Packet, NEW n, InIpv6(p, n).described, Closes(p, "later frag")
    PROVE  InIpv6(p, n).fragmented /\ InIpv6(p, n).proto = p.upper
<1> DEFINE t == Trim6(p, n)  upper == p.upper
<1>1. PICK i \in 1..Len(p.chain) :
         /\ i = Len(p.chain)
         /\ \A j \in 1..Len(p.chain) : p.chain[j].kind = "later frag" <=> j = i
  BY DEF Closes
<1>2. ~Walked(p, t, Len(p.chain))
  BY <1>1 DEF Walked
<1>3. PICK k \in 1..Len(p.chain) : EndsAt(p, t, k)
  BY <1>2, NoneFacts DEF InIpv6
<1>4. k = i
  BY <1>1, <1>3 DEF EndsAt
<1>5. Ending(p, t) = i
  BY <1>3, <1>4, OneEnding
<1>6. NextHeader(p, i) = upper
  <2>1. i = Len(p.chain)
    BY <1>1, Zenon
  <2> QED BY <2>1, LastHeader, Zenon
<1> HIDE DEF upper
<1>7. InIpv6(p, n) = Framed(p, upper, <<>>, 0, TRUE)
  BY <1>3, <1>5, <1>6, NoneFacts DEF InIpv6
<1>8. InIpv6(p, n).fragmented /\ InIpv6(p, n).proto = upper
  BY <1>7, FramedFragment
<1> QED BY <1>8 DEF upper

(* A first fragment and a later one of the same datagram, read along       *)
(* different paths, are both marked and have one protocol.                 *)
THEOREM FragmentsAreTogether == Spec => []FragmentsTogether
<1>1. LInv => FragmentsTogether
  <2> DEFINE p == packet  q == LaterOf(p)  n == Whole(p)
             f == Frame("whole")  g == Frame("later")
  <2> SUFFICES ASSUME LInv, Finished("later"), First(p), f.described, g.described
               PROVE  f.fragmented /\ g.fragmented /\ f.proto = g.proto
    BY DEF FragmentsTogether
  <2>1. p \in Packet /\ f = Outcome(p, n) /\ g = Outcome(q, n)
    <3>1. /\ "whole" \in ToSet(Decodings) /\ P("whole") = p /\ Captured("whole") = n
          /\ "later" \in ToSet(Decodings) /\ P("later") = q /\ Captured("later") = n
      BY Three DEF P, Captured
    <3>2. Finished("whole")
      BY <3>1, FrameFacts
    <3> QED BY <3>1, <3>2, FrameFacts DEF LInv
  <2>2. /\ q \in Packet /\ Carried(q) = Carried(p) /\ q.upper = p.upper
        /\ p.fragment = "first" => q.fragment = "later"
        /\ Len(q.chain) = Len(p.chain)
        /\ \A i \in 1..Len(p.chain) :
              q.chain[i].kind
                 = IF p.chain[i].kind = "frag" THEN "later frag" ELSE p.chain[i].kind
    BY <2>1, LaterFacts
  <2>3. Reached(p, n) /\ Reached(q, n)
    BY <2>1, NotReached, NoneFacts
  <2> HIDE DEF n, q
  <2>4. CASE Carried(p) = "ipv4"
    <3>1. /\ f = InIpv4(p, n - Begins(p)) /\ g = InIpv4(q, n - Begins(q))
          /\ p.fragment = "first" /\ q.fragment = "later"
      BY <2>1, <2>2, <2>3, <2>4 DEF Outcome, First
    <3> HIDE DEF p, f, g
    <3> QED BY <2>2, <3>1, FirstIpv4, LaterIpv4
  <2>5. CASE Carried(p) # "ipv4"
    <3>1. f = InIpv6(p, n - Begins(p)) /\ g = InIpv6(q, n - Begins(q))
      BY <2>1, <2>2, <2>3, <2>5 DEF Outcome
    <3>2. Closes(p, "frag") /\ Unended(p)
      BY <2>1, <2>5, FirstCloses
    <3>3. Closes(q, "later frag")
      BY <2>1, <3>2, LaterCloses DEF q
    <3>4. f.fragmented /\ f.proto = p.upper
      <4> HIDE DEF p, f
      <4> QED BY <2>1, <3>1, <3>2, FirstIpv6
    <3>5. g.fragmented /\ g.proto = q.upper
      <4> HIDE DEF p, g
      <4> QED BY <2>2, <3>1, <3>3, LaterIpv6
    <3> QED BY <2>2, <3>4, <3>5
  <2> QED BY <2>4, <2>5
<1> QED BY <1>1, LStep, LInit, PTL DEF Spec
=============================================================================
