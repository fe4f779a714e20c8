---------------------------- MODULE MCDnsMessage ----------------------------
(***************************************************************************)
(* Every message of one header byte and up to Longest others, out of the   *)
(* bytes that lead the parser different ways: the root label, labels,      *)
(* pointers to every place and beyond the message, and a reserved label    *)
(* type.  The lengths of the format are scaled to match.                   *)
(***************************************************************************)
EXTENDS DnsMessage

CONSTANT Longest

MCMessages ==
    {<<2>> \o s : s \in UNION {[1..n -> {0, 1, 2, 3, 64, 192}] : n \in 0..Longest}}

H(qdcount, ancount, assigned) ==
    [qdcount |-> qdcount, ancount |-> ancount, assigned |-> assigned]

MCHeaders == {H(0, 1, TRUE), H(1, 1, TRUE), H(2, 1, TRUE), H(1, 0, FALSE)}
=============================================================================
