------------------------------- MODULE MCCli -------------------------------
(* Sittings of up to MaxRuns analyses, each of any short capture of a few   *)
(* packets: two TCP tuples, a reset, and UDP with a fragment.               *)
EXTENDS Cli, MCFlowTable

Few == {Tcp(Client, Server, {"ACK"}, 1),
        Tcp(Server, Client, {"RST"}, 0),
        Tcp(<<"A", 2>>, Server, {"SYN"}, 0),
        Frame("udp", Client, Server, {}, 1, FALSE),
        Frame("udp", Client, Server, {}, 1, TRUE)}
=============================================================================
