----------------------------- MODULE MCFlowHunt -----------------------------
(***************************************************************************)
(* Short captures of three hosts, the networks declared being an internal  *)
(* one, A, and the public one of X, but not the internal one of B: sweeps  *)
(* along both axes, refused, unanswered and served, callbacks from         *)
(* changing ports, and a datagram.                                         *)
(***************************************************************************)
EXTENDS FlowHunt

MCKind == [A |-> "internal", B |-> "internal", X |-> "public"]

Flow(proto, flags, out, in, src, sport, dst, dport, start, end) ==
    [proto |-> proto, flags_seen |-> flags, packets_in |-> in, responded |-> in > 0,
     payload_out |-> out, payload_in |-> 0, src |-> src, sport |-> sport,
     dst |-> dst, dport |-> dport, start |-> start, end |-> end]

Silent(src, sport, dst, dport, at) ==
    Flow("tcp", {"SYN"}, 0, 0, src, sport, dst, dport, at, at)
Refused(src, sport, dst, dport, at) ==
    Flow("tcp", {"SYN", "ACK", "RST"}, 0, 1, src, sport, dst, dport, at, at)
Session(src, sport, dst, dport, at, end) ==
    Flow("tcp", {"SYN", "ACK", "FIN"}, 1, 3, src, sport, dst, dport, at, end)
Poke(src, sport, dst, dport, at) ==
    Flow("udp", {}, 1, 0, src, sport, dst, dport, at, at)

MCFlows ==
    {Silent("A", 1, "X", 1, 0), Silent("A", 2, "X", 2, 1), Silent("A", 3, "B", 1, 2),
     Refused("A", 4, "X", 3, 2), Session("A", 5, "X", 1, 1, 4),
     Session("B", 1, "A", 1, 0, 3), Session("B", 2, "A", 1, 3, 3),
     Refused("X", 3, "B", 1, 1), Session("X", 4, "B", 1, 3, 3),
     Poke("A", 6, "X", 2, 3), Session("A", 7, "B", 1, 4, 4)}
=============================================================================
