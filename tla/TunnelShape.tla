---------------------------- MODULE TunnelShape ----------------------------
(***************************************************************************)
(* What score_domain of detect/dnstunnel.py in src/pcapinator takes for    *)
(* the payload of the queries under one parent: labels that nearly every   *)
(* query has in the same place are routing, and stripped, from the parent  *)
(* outwards; what is left carries the data.                                *)
(*                                                                         *)
(* A query is the labels below its parent, leftmost first; DnsHunt models  *)
(* the grouping.  Entropy and the scores are floating point and left out,  *)
(* as is the cut of a payload at MAX_ENCODED_CHARS.                        *)
(***************************************************************************)
EXTENDS Integers, SequencesExt

CONSTANTS
    Subs,               \* the labels a query may have below the parent
    Labels,             \* the labels there are
    MinQueries,         \* MIN_QUERIES
    MinUnique,          \* MIN_UNIQUE
    ConstantShare,      \* CONSTANT_SHARE, in hundredths
    MaxConstantDepth,   \* MAX_CONSTANT_DEPTH
    MaxQueries          \* bound of the model: queries under the parent

ASSUME ShapeAssumption ==
    /\ Subs \subseteq Seq(Labels) \ {<<>>}
    /\ ConstantShare \in 51..100
    /\ MinQueries \in Nat \ {0} /\ MinUnique \in Nat
    /\ MaxConstantDepth \in Nat /\ MaxQueries \in Nat

VARIABLES
    records,   \* the labels of each query, in capture order
    phase,     \* "capture", "depth", "done", or "none": nothing to report
    depth      \* labels found to be routing so far

vars == <<records, phase, depth>>

Init == records = <<>> /\ phase = "capture" /\ depth = 0

Query(sub) ==
    /\ phase = "capture" /\ Len(records) < MaxQueries
    /\ records' = Append(records, sub)
    /\ UNCHANGED <<phase, depth>>

\* Too few queries, or too few different ones, are not looked into.
Score ==
    /\ phase = "capture"
    /\ phase' = IF Len(records) < MinQueries \/ Cardinality(ToSet(records)) < MinUnique
                THEN "none" ELSE "depth"
    /\ UNCHANGED <<records, depth>>

-----------------------------------------------------------------------------
(* _constant_depth *)

Nearly(n, all) == 100 * n >= ConstantShare * all

\* The label d places above the parent.
Label(sub, d) == sub[Len(sub) - d]

\* How many of rs are longer than d + 1 labels and have this one at d.
Having(rs, d, label) ==
    Cardinality({i \in DOMAIN rs : Len(rs[i]) > d + 1 /\ Label(rs[i], d) = label})

\* Mutant: the leftmost label of a name may be routing as well.
RoutingReachesLeft(rs, d) ==
    /\ Nearly(Cardinality({i \in DOMAIN rs : Len(rs[i]) > d}), Len(rs))
    /\ \E label \in Labels :
          Nearly(Cardinality({i \in DOMAIN rs : Len(rs[i]) > d /\ Label(rs[i], d) = label}),
                 Len(rs))

\* Mutant: places are counted from the left.
RoutingFromLeft(rs, d) ==
    \E label \in Labels :
        Nearly(Cardinality({i \in DOMAIN rs : Len(rs[i]) > d + 1 /\ rs[i][d + 1] = label}),
               Len(rs))

\* Mutant: the share is of the queries that go on, not of all.
RoutingOfLonger(rs, d) ==
    LET longer == {i \in DOMAIN rs : Len(rs[i]) > d + 1} IN
    longer # {} /\ \E label \in Labels :
        Nearly(Having(rs, d, label), Cardinality(longer))

\* Nearly every query goes on beyond place d, and has one label there.  The
\* shares are of all queries, so that the second implies the first.
Routing(rs, d) == \E label \in Labels : Nearly(Having(rs, d, label), Len(rs))

Deeper ==
    /\ phase = "depth" /\ depth < MaxConstantDepth /\ Routing(records, depth)
    /\ depth' = depth + 1
    /\ UNCHANGED <<records, phase>>

Settled ==
    /\ phase = "depth"
    /\ depth = MaxConstantDepth \/ ~Routing(records, depth)
    /\ phase' = "done"
    /\ UNCHANGED <<records, depth>>

Next == (\E sub \in Subs : Query(sub)) \/ Score \/ Deeper \/ Settled

Spec == Init /\ [][Next]_vars

-----------------------------------------------------------------------------
(* What the depth is used for *)

\* _encoded.  The slice of a name shorter than the routing has a negative
\* end, and counts from the end of the name.
Encoded(sub, constant) ==
    LET end == Len(sub) - constant
    IN  SubSeq(sub, 1, IF end >= 0 THEN end ELSE Len(sub) + end)

-----------------------------------------------------------------------------

(* PayloadKept: whatever is asked for, and however the names differ in     *)
(* depth, what is taken for routing leaves a payload to nearly every       *)
(* query: the label the data is in cannot be stripped as well.             *)
PayloadKept ==
    phase = "done" =>
        Nearly(Cardinality({i \in DOMAIN records : Encoded(records[i], depth) # <<>>}),
               Len(records))

\* How many queries go on beyond one tail of their names.
Under(tail) ==
    Cardinality({i \in DOMAIN records :
        Len(records[i]) > Len(tail) /\ IsSuffix(tail, records[i])})

(* OneRouting: what is stripped is the tail of one name, and never labels  *)
(* that are each common but not together: queries are without it only by   *)
(* the share that may miss each of its labels.                             *)
OneRouting ==
    phase = "done" =>
        \E sub \in {s \in ToSet(records) : Len(s) > depth} :
            100 * Under(SubSeq(sub, Len(sub) - depth + 1, Len(sub)))
                >= (100 - depth * (100 - ConstantShare)) * Len(records)

\* The depth at which the walk over rs ends.
Depth(rs) ==
    Max({d \in 0..MaxConstantDepth : \A k \in 0..d - 1 : Routing(rs, k)})

(* RoutingAddsNothing: a tunnel gains nothing by hanging its names under a *)
(* fixed prefix, and a cloud service is not taken for a tunnel because its *)
(* names are long: with one more label between the parent and every name   *)
(* the payloads are the same, up to the limit on depth.  Names shorter     *)
(* than the routing are the exception.                                     *)
RoutingAddsNothing ==
    phase = "done" /\ depth < MaxConstantDepth => \A label \in Labels :
        LET hung == [i \in DOMAIN records |-> Append(records[i], label)] IN
        /\ Depth(hung) = depth + 1
        /\ \A i \in DOMAIN records : Len(records[i]) >= depth =>
              Encoded(hung[i], depth + 1) = Encoded(records[i], depth)
=============================================================================
