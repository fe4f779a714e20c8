------------------------------ MODULE DnsNames ------------------------------
(***************************************************************************)
(* What src/pcapinator makes of a DNS name: the labels and parent of an    *)
(* event (dnsview.py), the parent a tunnel is grouped by (dnstunnel.py)    *)
(* and the domain a generated name was registered as (dga.py).  A name is  *)
(* the sequence of its labels, <<>> the root; read_name has lowered their  *)
(* case.  A label holding a literal dot is not modelled, nor is the limit  *)
(* of 255 characters, which names on the wire cannot exceed.               *)
(***************************************************************************)
EXTENDS Integers, SequencesExt

CONSTANTS
    Names,           \* the names of the capture
    LocalScope,      \* LOCAL_SCOPE, last labels a tunnel cannot hide under
    LocalSuffixes,   \* _LOCAL_SUFFIXES, last labels not worth scoring
    ServiceLabels,   \* labels that start with an underscore
    MultiSuffixes    \* MULTI_SUFFIXES, two labels under which names register

\* A name is a sequence of labels.
ASSUME NamesAssumption == Names \subseteq Seq(UNION {ToSet(n) : n \in Names})

LastOf(name, n) == SubSeq(name, Len(name) - n + 1, Len(name))

\* DnsEvent.parent
Parent(name) == IF Len(name) >= 2 THEN LastOf(name, 2) ELSE name

\* The domain of _group, <<>> when it does not group the name.
TunnelParent(name) ==
    IF Len(name) < 3 \/ Last(name) \in LocalScope THEN <<>> ELSE LastOf(name, 2)

\* registrable, <<>> for what is not worth scoring.  Names have no white space at
\* their ends, which it strips.
Registrable(name) ==
    LET depth == IF LastOf(name, 2) \in MultiSuffixes THEN 3 ELSE 2
    IN  IF Len(name) < 2 \/ Last(name) \in LocalSuffixes
           \/ ToSet(name) \cap ServiceLabels # {} \/ Len(name) < depth
        THEN <<>> ELSE LastOf(name, depth)
=============================================================================
