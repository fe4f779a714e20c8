----------------------------- MODULE MCDnsHunt -----------------------------
(***************************************************************************)
(* Short captures of queries and answers for names that are grouped,       *)
(* scored and attributed differently: a domain itself and names below it,  *)
(* one registered under a suffix of two labels, a service name and one in  *)
(* a local scope.                                                          *)
(***************************************************************************)
EXTENDS DnsHunt

MCNames ==
    {<<"x", "com">>, <<"www", "x", "com">>, <<"_tcp", "x", "com">>,
     <<"www", "y", "co", "uk">>, <<"a", "b", "local">>, <<"www", "z", "com">>}

MCMultiSuffixes == {<<"co", "uk">>}

MCGenerated == {<<"x", "com">>, <<"y", "co", "uk">>, <<"z", "com">>}
=============================================================================
