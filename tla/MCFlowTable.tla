---------------------------- MODULE MCFlowTable ----------------------------
(***************************************************************************)
(* Captures small enough for TLC to run the flow table on every order of   *)
(* their frames: one TCP tuple with every kind of segment, and a handful   *)
(* of conversations of different kinds competing for the table.            *)
(***************************************************************************)
EXTENDS FlowTable

Frame(proto, src, dst, flags, payload, fragmented) ==
    [proto |-> proto, src |-> src[1], sport |-> src[2], dst |-> dst[1],
     dport |-> dst[2], flags |-> flags, payload |-> payload,
     fragmented |-> fragmented]

Client == <<"A", 1>>
Server == <<"B", 2>>

Tcp(src, dst, flags, payload) == Frame("tcp", src, dst, flags, payload, FALSE)

\* One TCP tuple: handshake, data both ways, FINs both ways and a reset.
Segments ==
    {Tcp(Client, Server, {"SYN"}, 0),
     Tcp(Server, Client, {"SYN", "ACK"}, 0),
     Tcp(Client, Server, {"ACK"}, 1),
     Tcp(Server, Client, {"ACK"}, 2),
     Tcp(Client, Server, {"FIN", "ACK"}, 0),
     Tcp(Server, Client, {"FIN", "ACK"}, 0),
     Tcp(Server, Client, {"RST"}, 0)}

\* Two TCP tuples, one of which can be closed from both ends, reset and opened
\* again, a UDP tuple with its fragments, and ICMP.
Mixed ==
    {Tcp(Client, Server, {"SYN"}, 0),
     Tcp(Client, Server, {"ACK"}, 1),
     Tcp(Client, Server, {"FIN", "ACK"}, 0),
     Tcp(Server, Client, {"FIN", "ACK"}, 0),
     Tcp(Server, Client, {"RST"}, 0),
     Tcp(<<"A", 2>>, Server, {"SYN"}, 0),
     Frame("udp", Client, Server, {}, 1, FALSE),
     Frame("udp", Server, Client, {}, 1, FALSE),
     Frame("udp", Client, Server, {}, 1, TRUE),
     Frame("icmp", <<"A", 0>>, <<"B", 0>>, {}, 1, FALSE)}
=============================================================================
