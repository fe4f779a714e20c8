------------------------------ MODULE MCLayers ------------------------------
(***************************************************************************)
(* Packets of every link type, IP version and transport, cut after every   *)
(* byte.  Their lengths are true or false, and packets of true lengths     *)
(* have no tag or extension header, as many as the limits allow, and one   *)
(* more.                                                                   *)
(***************************************************************************)
EXTENDS Layers

Base == [linktype |-> "ipv6", tags |-> <<>>, ethertype |-> "ipv6", version |-> 6,
         ihl |-> 0, declared |-> 0, fragment |-> "no", chain |-> <<>>,
         upper |-> "udp", claim |-> 10, room |-> 10]

Ipv4Packet(declared, fragment, upper, claim, room) ==
    [Base EXCEPT !.linktype = "ipv4", !.version = 4, !.ihl = 24, !.fragment = fragment,
                 !.declared = declared, !.upper = upper, !.claim = claim, !.room = room]

Ipv6Packet(declared, chain, upper, claim, room) ==
    [Base EXCEPT !.declared = declared, !.chain = chain, !.upper = upper,
                 !.claim = claim, !.room = room]

X(kind, len) == [kind |-> kind, len |-> len]

\* Each link layer around the same datagram, of 10 bytes behind its IP header,
\* and ones that say other things; Ethernet with as many tags as allowed, and
\* one more.  A declared length of 30 is true of IPv4, one of 10 of IPv6.
Linked ==
    {[Base EXCEPT !.linktype = l, !.ethertype = e, !.version = v, !.ihl = 20,
                  !.declared = n] :
        l \in {"sll", "sll2", "null", "raw", "ipv4", "ipv6", "other"},
        e \in {"ipv4", "ipv6", "arp"}, v \in {0, 4, 6}, n \in {0, 10, 30}}
    \cup
    {[Base EXCEPT !.linktype = "ethernet", !.ethertype = e, !.version = v, !.ihl = 20,
                  !.declared = n, !.tags = t] :
        e \in {"ipv4", "ipv6", "arp"}, v \in {0, 4, 6}, n \in {0, 10, 30},
        t \in {[i \in 1..k |-> i] : k \in 0..MaxVlanTags + 1}}

Ip4 == {Ipv4Packet(declared, fragment, upper, claim, 30) :
          declared \in {0, 20, 40, 50, 60}, fragment \in {"no", "first", "later"},
          upper \in Uppers, claim \in {7, 16, 20, 26}}
       \cup {[Ipv4Packet(44, "no", "tcp", 20, 26) EXCEPT !.ihl = 16]}

Chains ==
    {[i \in 1..n |-> X("dst", 8)] : n \in 0..MaxExtHeaders + 1}
    \cup [1..2 -> {X("hop", 16), X("ah", 12), X("frag", 8), X("dst", 8),
                   X("later frag", 8)}]

\* What follows the chain is 16, 26 or all 30 of its bytes, the rest padding;
\* or the length is a jumbogram's, ends in the chain, or says too much.
Ip6 == {Ipv6Packet(declared, chain, upper, claim, 30) :
          declared \in {0, 4, 20}, chain \in Chains, upper \in Uppers, claim \in {16, 26}}
       \cup
       {Ipv6Packet(ChainLen(Ipv6Packet(0, chain, upper, claim, 30)) + behind,
                   chain, upper, claim, 30) :
          behind \in {16, 26, 30, 34}, chain \in Chains, upper \in Uppers,
          claim \in {16, 26}}

MCPackets == Linked \cup Ip4 \cup Ip6
=============================================================================
