------------------------------- MODULE Layers -------------------------------
(***************************************************************************)
(* decode of src/pcapinator/layers: a captured packet is stripped of its   *)
(* link header and VLAN tags (link.py), its IP header is read and trims    *)
(* what follows, IPv6 extension headers are walked, and a transport header *)
(* gives the ports (inet.py).  The outcome is a frame, or None.            *)
(*                                                                         *)
(* A packet is the headers it is made of and the lengths they claim; it is *)
(* captured up to some byte.  Each is decoded three times: cut there,      *)
(* whole, and as the later fragment of the same datagram.  The decodings   *)
(* share nothing.  Addresses are those of the datagram throughout, and     *)
(* ts, ttl and wirelen are passed on unread, so all four are left out.     *)
(***************************************************************************)
EXTENDS Integers, SequencesExt

CONSTANTS
    Packets,         \* packets, see Packet
    MaxVlanTags,     \* MAX_VLAN_TAGS
    MaxExtHeaders    \* MAX_EXT_HEADERS

ExtKinds == {"hop", "routing", "dst", "ah", "frag", "later frag"}
Uppers   == {"tcp", "udp", "icmp"}

\* tags are the VLAN ids, outermost first.  version is the nibble the bytes
\* start with; ihl, in bytes, is IPv4's alone.  declared is the total length
\* of IPv4 and the payload length of IPv6; claim is TCP's data offset in
\* bytes or UDP's length.  An extension header claims its own length, but for
\* a fragment's.  room is the number of bytes behind the last header but the
\* transport's.
Packet == [linktype : {"ethernet", "sll", "sll2", "null", "raw", "ipv4", "ipv6",
                       "other"},
           tags : Seq(Nat), ethertype : {"ipv4", "ipv6", "arp"}, version : {0, 4, 6},
           ihl : Nat, declared : Nat, fragment : {"no", "first", "later"},
           chain : Seq([kind : ExtKinds, len : Nat \ (0..7)]),
           upper : Uppers, claim : Nat, room : Nat]

ASSUME PacketsAssumption == Packets \subseteq Packet

ASSUME LimitsAssumption == MaxVlanTags \in Nat /\ MaxExtHeaders \in Nat

VARIABLES
    packet,    \* the packet
    size,      \* the bytes of it the cut leaves
    decoder    \* the state of each decoding

vars == <<packet, size, decoder>>

Decodings == <<"cut", "whole", "later">>

\* _ethernet, _fixed, _loopback and _bare: what each link type strips.
LinkLen(p) ==
    CASE p.linktype = "ethernet" -> 14
      [] p.linktype = "sll"      -> 16
      [] p.linktype = "sll2"     -> 20
      [] p.linktype = "null"     -> 4
      [] OTHER                   -> 0

Tags(p) == IF p.linktype = "ethernet" THEN p.tags ELSE <<>>

\* What the link layer says is inside it: a bare IP link type says so
\* itself, and on a raw one the version nibble does.
Carried(p) ==
    CASE p.linktype \in {"ipv4", "ipv6"} -> p.linktype
      [] p.linktype = "raw" -> CASE p.version = 4 -> "ipv4"
                                 [] p.version = 6 -> "ipv6"
                                 [] OTHER -> "arp"
      [] OTHER -> p.ethertype

IpLen(p) == IF Carried(p) = "ipv4" THEN (IF p.ihl < 20 THEN 20 ELSE p.ihl) ELSE 40

Fragment(h) == h.kind \in {"frag", "later frag"}

\* A fragment header claims no length of its own.
ExtLen(h) == IF Fragment(h) THEN 8 ELSE h.len

\* The bytes of the first n extension headers.
ChainTo(p, n) == Cardinality(UNION {{i} \X (1..ExtLen(p.chain[i])) : i \in 1..n})

ChainLen(p) == ChainTo(p, Len(p.chain))

\* Its bytes in all: link header, tags, IP, extension headers and the rest.
Whole(p) == LinkLen(p) + 4 * Len(Tags(p)) + IpLen(p) + ChainLen(p) + p.room

\* The later fragment of the datagram p is the first fragment of.
LaterOf(p) ==
    [p EXCEPT !.fragment = IF @ = "first" THEN "later" ELSE @,
              !.chain = [i \in 1..Len(@) |->
                  IF @[i].kind = "frag" THEN [@[i] EXCEPT !.kind = "later frag"]
                  ELSE @[i]]]

P(d) == IF d = "later" THEN LaterOf(packet) ELSE packet

None == [described |-> FALSE]

Init ==
    /\ packet \in Packets
    /\ size \in 0..Whole(packet)
    /\ decoder = [d \in ToSet(Decodings) |->
                    [stage |-> "link", tag |-> 0, depth |-> 0, offset |-> 0,
                     avail |-> IF d = "cut" THEN size ELSE Whole(packet),
                     fragmented |-> FALSE, frame |-> None]]

-----------------------------------------------------------------------------

D(d) == decoder[d]

Finished(d) == D(d).stage = "done"

\* The decodings take turns in their order.
At(d, stage) ==
    /\ D(d).stage = stage
    /\ \A i, j \in 1..Len(Decodings) :
          i < j /\ Decodings[j] = d => Finished(Decodings[i])

Become(d, r) == decoder' = [decoder EXCEPT ![d] = r] /\ UNCHANGED <<packet, size>>

Reject(d) == Become(d, [D(d) EXCEPT !.stage = "done"])

Describe(d, proto, ports, payload, fragmented) ==
    Become(d, [D(d) EXCEPT !.stage = "done",
        !.frame = [described |-> TRUE, proto |-> proto, ports |-> ports,
                   payload |-> payload, fragmented |-> fragmented,
                   vlan |-> IF Tags(P(d)) = <<>> THEN <<>> ELSE <<Head(Tags(P(d)))>>]])

\* Goes on behind n bytes, with what is left of those available.
Strip(d, n, stage) ==
    Become(d, [D(d) EXCEPT !.avail = @ - n, !.stage = stage])

\* strip_link: the link header, and for Ethernet on to the tags.
Link(d) ==
    LET n == LinkLen(P(d)) IN
    /\ At(d, "link")
    /\ IF P(d).linktype = "other" \/ D(d).avail < n
       THEN Reject(d)
       ELSE Strip(d, n, IF P(d).linktype = "ethernet" THEN "tags" ELSE "bare")

\* Mutant: the loop refuses what is left behind its last turn unread, so that
\* a frame with as many tags as allowed is refused.
TagWalkRefusesLast(d) ==
    LET left == Len(Tags(P(d))) - D(d).tag IN
    /\ At(d, "tags")
    /\ IF D(d).tag = MaxVlanTags THEN Reject(d)
       ELSE IF left = 0 THEN Strip(d, 0, "bare")
       ELSE IF D(d).avail < 4 THEN Reject(d)
       ELSE Become(d, [D(d) EXCEPT !.tag = @ + 1, !.avail = @ - 4])

\* One turn of the tag walk of _ethernet, or its end.
TagWalk(d) ==
    LET left == Len(Tags(P(d))) - D(d).tag IN
    /\ At(d, "tags")
    /\ IF left = 0 THEN Strip(d, 0, "bare")
       ELSE IF D(d).tag = MaxVlanTags \/ D(d).avail < 4 THEN Reject(d)
       ELSE Become(d, [D(d) EXCEPT !.tag = @ + 1, !.avail = @ - 4])

\* _bare: only IP, and only with a byte of it there; then decode_ip.
Bare(d) ==
    /\ At(d, "bare")
    /\ IF D(d).avail = 0 \/ Carried(P(d)) = "arp" THEN Reject(d)
       ELSE Strip(d, 0, Carried(P(d)))

\* _ipv4: bytes past a credible total length are link padding.
Trim4(p, avail) ==
    IF p.ihl <= p.declared /\ p.declared < avail THEN p.declared ELSE avail

Ipv4(d) ==
    LET p == P(d)
        avail == Trim4(p, D(d).avail)
    IN
    /\ At(d, "ipv4")
    /\ IF D(d).avail < 20 \/ p.version # 4 \/ p.ihl < 20 \/ avail < p.ihl
       THEN Reject(d)
       ELSE IF p.fragment = "later"
       THEN Describe(d, p.upper, <<>>, 0, TRUE)
       ELSE Become(d, [D(d) EXCEPT !.stage = "transport", !.offset = p.ihl,
                                   !.avail = avail,
                                   !.fragmented = p.fragment = "first"])

\* _ipv6: a payload length of zero, a jumbogram's, trims nothing.
Trim6(p, avail) ==
    IF p.declared > 0 /\ 40 + p.declared < avail THEN 40 + p.declared ELSE avail

Ipv6(d) ==
    LET p == P(d) IN
    /\ At(d, "ipv6")
    /\ IF D(d).avail < 40 \/ p.version # 6 THEN Reject(d)
       ELSE Become(d, [D(d) EXCEPT !.stage = "chain", !.offset = 40,
                                   !.avail = Trim6(p, @)])

\* The header that header i of the chain names as the next one.
NextHeader(p, i) == IF i < Len(p.chain) THEN p.chain[i + 1].kind ELSE p.upper

\* Mutant: a first fragment, whose ports are known, is not marked as one.
ExtUnmarked(d) ==
    LET p == P(d)
        i == D(d).depth + 1
        left == D(d).avail - D(d).offset
    IN
    /\ At(d, "chain") /\ i <= Len(p.chain)
    /\ LET h == p.chain[i]
       IN  IF i > MaxExtHeaders \/ left < 2 \/ (Fragment(h) /\ left < 8)
           THEN Reject(d)
           ELSE IF h.kind = "later frag"
           THEN Describe(d, NextHeader(p, i), <<>>, 0, TRUE)
           ELSE IF left < ExtLen(h)
           THEN Reject(d)
           ELSE Become(d, [D(d) EXCEPT !.depth = i, !.offset = @ + ExtLen(h),
                                       !.fragmented = @])

\* One turn of the walk of _ipv6 through its extension headers.
Ext(d) ==
    LET p == P(d)
        i == D(d).depth + 1
        left == D(d).avail - D(d).offset
    IN
    /\ At(d, "chain") /\ i <= Len(p.chain)
    /\ LET h == p.chain[i]
       IN  IF i > MaxExtHeaders \/ left < 2 \/ (Fragment(h) /\ left < 8)
           THEN Reject(d)
           ELSE IF h.kind = "later frag"
           THEN Describe(d, NextHeader(p, i), <<>>, 0, TRUE)
           ELSE IF left < ExtLen(h)
           THEN Reject(d)
           ELSE Become(d, [D(d) EXCEPT !.depth = i, !.offset = @ + ExtLen(h),
                                       !.fragmented = @ \/ Fragment(h)])

ChainDone(d) ==
    /\ At(d, "chain") /\ D(d).depth = Len(P(d).chain)
    /\ Become(d, [D(d) EXCEPT !.stage = "transport"])

\* Mutant: what a cut leaves of the TCP options is taken for payload.
TcpOptionsArePayload(d) ==
    LET p == P(d)
        rest == D(d).avail - D(d).offset
    IN
    /\ At(d, "transport") /\ p.upper = "tcp"
    /\ IF rest < 20 \/ p.claim < 20 THEN Reject(d)
       ELSE Describe(d, "tcp", <<"ports", "flags">>,
                     IF p.claim <= rest THEN rest - p.claim ELSE rest - 20,
                     D(d).fragmented)

\* _transport.  Options cut short cost the payload, not the ports.
Tcp(d) ==
    LET p == P(d)
        rest == D(d).avail - D(d).offset
    IN
    /\ At(d, "transport") /\ p.upper = "tcp"
    /\ IF rest < 20 \/ p.claim < 20 THEN Reject(d)
       ELSE Describe(d, "tcp", <<"ports", "flags">>,
                     IF p.claim <= rest THEN rest - p.claim ELSE 0,
                     D(d).fragmented)

Udp(d) ==
    LET p == P(d)
        rest == D(d).avail - D(d).offset
    IN
    /\ At(d, "transport") /\ p.upper = "udp"
    /\ IF rest < 8 THEN Reject(d)
       ELSE Describe(d, "udp", <<"ports">>,
                     IF p.claim >= 8 /\ p.claim < rest THEN p.claim - 8 ELSE rest - 8,
                     D(d).fragmented)

Portless(d) ==
    /\ At(d, "transport") /\ P(d).upper \notin {"tcp", "udp"}
    /\ Describe(d, P(d).upper, <<>>, D(d).avail - D(d).offset, D(d).fragmented)

Step(d) ==
    \/ Link(d) \/ TagWalk(d) \/ Bare(d) \/ Ipv4(d) \/ Ipv6(d)
    \/ Ext(d) \/ ChainDone(d) \/ Tcp(d) \/ Udp(d) \/ Portless(d)

Next == \E d \in ToSet(Decodings) : Step(d)

Spec == Init /\ [][Next]_vars

-----------------------------------------------------------------------------

Frame(d) == D(d).frame

(* CutDescribesSame: a packet cut short by the snaplen is described as the *)
(* whole packet is, with no more payload, or not at all: never with other  *)
(* ports, another protocol, another VLAN, or as a fragment it is not.      *)
CutDescribesSame ==
    Finished("whole") /\ Frame("cut").described =>
        /\ Frame("whole").described
        /\ [Frame("cut") EXCEPT !.payload = 0] = [Frame("whole") EXCEPT !.payload = 0]
        /\ Frame("cut").payload <= Frame("whole").payload

\* The bytes behind the last extension header its IP length accounts for.
Honest(p) ==
    IF Carried(p) = "ipv4" THEN p.declared - p.ihl ELSE p.declared - ChainLen(p)

\* A packet whose lengths agree with its bytes, link padding apart.
Consistent(p) ==
    /\ p.linktype # "other" /\ Carried(p) # "arp"
    /\ p.version = (IF Carried(p) = "ipv4" THEN 4 ELSE 6)
    /\ Carried(p) = "ipv4" => p.ihl >= 20 /\ p.chain = <<>>
    /\ p.declared > 0 /\ Honest(p) \in 0..p.room
    /\ p.upper = "tcp" => p.claim \in 20..Honest(p)
    /\ p.upper = "udp" => p.claim = Honest(p) /\ p.claim >= 8

Later(p) == p.fragment = "later" \/ \E i \in 1..Len(p.chain) :
                                       p.chain[i].kind = "later frag"

(* HonestDecoded: a packet whose lengths are true is described when it has *)
(* no more tags and extension headers than the limits, and its payload is  *)
(* exact: link padding behind it is never taken for data.                  *)
HonestDecoded ==
    LET p == packet IN
    Finished("whole") /\ Consistent(p) /\ ~Later(p) =>
        /\ Frame("whole").described <=>
              Len(Tags(p)) <= MaxVlanTags /\ Len(p.chain) <= MaxExtHeaders
        /\ Frame("whole").described =>
              Frame("whole").payload =
                 CASE p.upper = "tcp" -> Honest(p) - p.claim
                   [] p.upper = "udp" -> p.claim - 8
                   [] OTHER -> Honest(p)

\* The first fragment of a datagram, its fragment header the last of any.
First(p) ==
    IF Carried(p) = "ipv4" THEN p.fragment = "first"
    ELSE \E i \in DOMAIN p.chain :
            /\ i = Len(p.chain)
            /\ \A j \in DOMAIN p.chain : p.chain[j].kind = "frag" <=> j = i
            /\ \A j \in DOMAIN p.chain : p.chain[j].kind # "later frag"

(* FragmentsTogether: "every fragment is keyed on addresses alone" in      *)
(* flows.py, for which a first fragment and a later one, which are read    *)
(* along different paths, have to be marked and have one protocol.  With   *)
(* another extension header behind the fragment header they do not.        *)
FragmentsTogether ==
    /\ Finished("later") /\ First(packet)
    /\ Frame("whole").described /\ Frame("later").described
    => /\ Frame("whole").fragmented /\ Frame("later").fragmented
       /\ Frame("whole").proto = Frame("later").proto
=============================================================================
