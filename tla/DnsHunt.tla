------------------------------- MODULE DnsHunt -------------------------------
(***************************************************************************)
(* The DNS side of cli.analyse in src/pcapinator: events are lifted from   *)
(* the frames as they pass (dnsview.py), and when the capture has ended    *)
(* the complete list is gone through three times: by _group of the tunnel  *)
(* detector, by find_dga, and by _clients, which says whose the DGA hits   *)
(* are; dga_findings then makes one finding per host.                      *)
(*                                                                         *)
(* Scores are floating point: Generated is the set of the domains whose    *)
(* score reaches the threshold, and the sorting of hits and findings by    *)
(* score is left out.  Timestamps and query types feed nothing but scores  *)
(* and are left out too.  All detectors run: --only could skip some.       *)
(***************************************************************************)
EXTENDS DnsNames

CONSTANTS
    Hosts,         \* addresses
    Generated,     \* registrable domains score_domain puts at the threshold
    MaxDomains,    \* MAX_DOMAINS
    MaxRecords,    \* MAX_RECORDS_PER_DOMAIN
    MaxNames,      \* MAX_NAMES
    MaxEvents      \* bound of the model: DNS events in the capture

ASSUME CapsAssumption ==
    MaxDomains \in Nat /\ MaxRecords \in Nat /\ MaxNames \in Nat /\ MaxEvents \in Nat

NoHost == "no host"    \* clients.get(domain, "")

ASSUME HostsAssumption == NoHost \notin Hosts

\* score_domain has nothing to judge in an empty name.
ASSUME GeneratedAssumption == <<>> \notin Generated

VARIABLES
    events,      \* the events lifted, in capture order
    pass,        \* what is going on: "capture", "group", "dga", "clients", ...
    next,        \* the event the pass looks at next
    domains,     \* domains of _group
    seen,        \* names find_dga has scored
    found,       \* the hits of find_dga, as they are found
    clients,     \* the dictionary of _clients
    findings     \* what dga_findings makes of the hits

vars == <<events, pass, next, domains, seen, found, clients, findings>>

Event == [client : Hosts, name : Names, is_response : BOOLEAN, nxdomain : BOOLEAN]

Init ==
    /\ events = <<>> /\ pass = "capture" /\ next = 1
    /\ domains = <<>> /\ seen = {} /\ found = <<>> /\ clients = <<>>
    /\ findings = {}

\* dns_event: on the way back the addresses are reversed, and the client is
\* still the client.
Client(src, dst, is_response) == IF is_response THEN dst ELSE src

\* A frame with a question in it passes.
Lift(src, dst, name, is_response, nxdomain) ==
    /\ pass = "capture" /\ Len(events) < MaxEvents
    /\ src # dst /\ (nxdomain => is_response)
    /\ events' = Append(events, [client |-> Client(src, dst, is_response),
                                 name |-> name, is_response |-> is_response,
                                 nxdomain |-> nxdomain])
    /\ UNCHANGED <<pass, next, domains, seen, found, clients, findings>>

After == [capture |-> "group", group |-> "dga", dga |-> "clients",
          clients |-> "report"]

\* The capture or a pass over its events has come to an end.
Ended ==
    /\ pass \in DOMAIN After
    /\ pass # "capture" => next > Len(events)
    /\ pass' = After[pass] /\ next' = 1
    /\ UNCHANGED <<events, domains, seen, found, clients, findings>>

At(p) == pass = p /\ next <= Len(events)

E == events[next]

-----------------------------------------------------------------------------
(* _group *)

NewDomain == [queries |-> 0, responses |-> 0, nxdomain |-> 0, records |-> <<>>]

\* Mutant: a response is counted among the queries as well.
TallyResponses(d) ==
    IF E.is_response
    THEN [d EXCEPT !.responses = @ + 1, !.queries = @ + 1,
                   !.nxdomain = @ + (IF E.nxdomain THEN 1 ELSE 0)]
    ELSE [d EXCEPT !.queries = @ + 1,
                   !.records = IF Len(@) < MaxRecords THEN Append(@, next) ELSE @]

\* Query and response counts, and the records of the first queries.
TallyEvent(d) ==
    IF E.is_response
    THEN [d EXCEPT !.responses = @ + 1,
                   !.nxdomain = @ + (IF E.nxdomain THEN 1 ELSE 0)]
    ELSE [d EXCEPT !.queries = @ + 1,
                   !.records = IF Len(@) < MaxRecords THEN Append(@, next) ELSE @]

\* Too short, locally scoped, or the first of one domain too many.
GroupSkips ==
    LET p == TunnelParent(E.name) IN
    \/ p = <<>>
    \/ p \notin DOMAIN domains /\ Cardinality(DOMAIN domains) >= MaxDomains

Group ==
    LET p == TunnelParent(E.name) IN
    /\ At("group") /\ next' = next + 1
    /\ domains' =
         IF GroupSkips THEN domains
         ELSE [q \in DOMAIN domains \cup {p} |->
                 IF q # p THEN domains[q]
                 ELSE TallyEvent(IF p \in DOMAIN domains THEN domains[p]
                                 ELSE NewDomain)]
    /\ UNCHANGED <<events, pass, seen, found, clients, findings>>

-----------------------------------------------------------------------------
(* find_dga *)

\* Mutant: what was scored is not remembered.
ScoreForgets ==
    LET d == Registrable(E.name) IN
    /\ At("dga") /\ d # <<>> /\ d \notin seen /\ Cardinality(seen) < MaxNames
    /\ found' = IF d \in Generated THEN Append(found, d) ELSE found
    /\ next' = next + 1
    /\ UNCHANGED <<events, pass, domains, seen, clients, findings>>

Score ==
    LET d == Registrable(E.name) IN
    /\ At("dga") /\ d # <<>> /\ d \notin seen /\ Cardinality(seen) < MaxNames
    /\ seen' = seen \cup {d}
    /\ found' = IF d \in Generated THEN Append(found, d) ELSE found
    /\ next' = next + 1
    /\ UNCHANGED <<events, pass, domains, clients, findings>>

Seen ==
    LET d == Registrable(E.name) IN
    /\ At("dga") /\ (d = <<>> \/ d \in seen)
    /\ next' = next + 1
    /\ UNCHANGED <<events, pass, domains, seen, found, clients, findings>>

\* One distinct name too many ends the loop.
Full ==
    LET d == Registrable(E.name) IN
    /\ At("dga") /\ d # <<>> /\ d \notin seen /\ Cardinality(seen) >= MaxNames
    /\ next' = Len(events) + 1
    /\ UNCHANGED <<events, pass, domains, seen, found, clients, findings>>

-----------------------------------------------------------------------------
(* _clients and dga_findings *)

\* Mutant: the answers of a server name it as the one who asked.
AskedFromAnswers(e) == {e.name, Parent(e.name)}

\* The keys setdefault is called on for an event.
Asked(e) == IF e.is_response THEN {} ELSE {e.name, Parent(e.name)}

Attribute ==
    /\ At("clients") /\ next' = next + 1
    /\ clients' = [d \in DOMAIN clients \cup Asked(E) |->
                     IF d \in DOMAIN clients THEN clients[d] ELSE E.client]
    /\ UNCHANGED <<events, pass, domains, seen, found, findings>>

ClientOf(d) == IF d \in DOMAIN clients THEN clients[d] ELSE NoHost

Report ==
    /\ pass = "report" /\ pass' = "done"
    /\ findings' = {[src |-> ClientOf(d),
                     domains |-> {x \in ToSet(found) : ClientOf(x) = ClientOf(d)}] :
                       d \in ToSet(found)}
    /\ UNCHANGED <<events, next, domains, seen, found, clients>>

Next ==
    \/ \E src, dst \in Hosts, name \in Names, response, nxdomain \in BOOLEAN :
          Lift(src, dst, name, response, nxdomain)
    \/ Ended \/ Group \/ Score \/ Seen \/ Full \/ Attribute \/ Report

Spec == Init /\ [][Next]_vars

-----------------------------------------------------------------------------

\* Event i is a question about a name at or below d.
AsksFor(i, d) == ~events[i].is_response /\ IsSuffix(d, events[i].name)

Grouped(p) == {i \in 1..Len(events) : TunnelParent(events[i].name) = p}

(* GroupsAddUp: whatever order queries, answers and new parents come in,   *)
(* and whichever parents the cap on domains leaves out, the totals of each *)
(* parent kept are those of all its events in the capture, and the records *)
(* kept are its first queries.                                             *)
GroupsAddUp ==
    pass = "dga" => \A p \in DOMAIN domains :
        LET d == domains[p]
            queries == {i \in Grouped(p) : ~events[i].is_response}
        IN  /\ d.queries = Cardinality(queries)
            /\ d.responses = Cardinality(Grouped(p) \ queries)
            /\ d.nxdomain = Cardinality({i \in Grouped(p) : events[i].nxdomain})
            /\ ToSet(d.records) \subseteq queries
            /\ Len(d.records) = Min({d.queries, MaxRecords})
            /\ \A i \in ToSet(d.records), j \in queries \ ToSet(d.records) : i < j

(* HitsOnce: a generated domain is a hit once, however often and by        *)
(* whatever names of its own it was asked for; it is missed only when the  *)
(* cap on names was reached.                                               *)
HitsOnce ==
    pass = "clients" =>
        /\ \A i, j \in 1..Len(found) : found[i] = found[j] => i = j
        /\ Cardinality(seen) < MaxNames =>
              ToSet(found) = {Registrable(events[i].name) : i \in 1..Len(events)}
                                \cap Generated

(* RightHost: a finding that names a host names one that asked for each of *)
(* its domains, each hit is in exactly one finding, and no host has two.   *)
(* A hit that was asked for names a host, "so a DGA hit names a machine to *)
(* go look at", by whatever name below it; of a domain registered under a  *)
(* suffix of two labels that holds only when it was asked for itself.      *)
RightHost ==
    /\ \A f, g \in findings : f.src = g.src => f = g
    /\ \A f \in findings : \A d \in f.domains :
          IF f.src # NoHost
          THEN \E i \in 1..Len(events) : events[i].client = f.src /\ AsksFor(i, d)
          ELSE \A i \in 1..Len(events) :
                  AsksFor(i, d) => Len(d) # 2 /\ events[i].name # d
    /\ pass = "done" => \A d \in ToSet(found) :
          Cardinality({f \in findings : d \in f.domains}) = 1
=============================================================================
