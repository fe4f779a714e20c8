--------------------------- MODULE MCTunnelShape ---------------------------
(***************************************************************************)
(* Queries of one to four labels: payloads alone, under one and two labels *)
(* of routing, and under labels that are routing for some queries only.    *)
(***************************************************************************)
EXTENDS TunnelShape

MCSubs ==
    {<<"p">>, <<"r">>, <<"p", "r">>, <<"q", "r">>, <<"p", "r", "s">>,
     <<"q", "r", "s">>, <<"q", "s", "r">>, <<"p", "q", "r", "s">>}
=============================================================================
