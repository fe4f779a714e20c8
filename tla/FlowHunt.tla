------------------------------ MODULE FlowHunt ------------------------------
(***************************************************************************)
(* The flow side of cli.analyse in src/pcapinator: flows come out of the   *)
(* flow table in completion order, and when the capture has ended the list *)
(* is gone through twice, by find_beacons, which groups it into            *)
(* conversations, and by find_scans, which keeps totals along both sweep   *)
(* axes.  Groups are scored one after the other, and the findings ranked.  *)
(*                                                                         *)
(* Scores are floating point.  BeaconFit models the fit of a conversation; *)
(* here the score of a group is any of Grades, in hundredths, within the   *)
(* bounds that its response and payload shares set.  Both detectors run.   *)
(***************************************************************************)
EXTENDS ScanGroups, SequencesExt

CONSTANTS
    Flows,            \* the flows there may be, as FlowTable records them
    Kind,             \* what ipaddress says of each address
    LocalNets,        \* the addresses --local-net declares, {} without it
    MinFanout,        \* MIN_FANOUT
    MinConnections,   \* MIN_CONNECTIONS
    Grades,           \* scores, in hundredths
    Thresholds,       \* --threshold, in hundredths
    MaxFlows          \* bound of the model: flows of the capture

NoHost == ""

Protocols == {"tcp", "udp", "icmp"}

\* A Flow of flows.py, as far as the detectors look at it.
FlowRecord ==
    [proto : Protocols, flags_seen : SUBSET {"SYN", "ACK", "FIN", "RST"},
     packets_in : Nat, responded : BOOLEAN, payload_out : Nat, payload_in : Nat,
     src : DOMAIN Kind, sport : Nat, dst : DOMAIN Kind, dport : Nat,
     start : Nat, end : Nat]

\* What FlowTable makes sure of: data comes in packets, a flow starts before
\* it ends.
ASSUME FlowsAssumption ==
    /\ Flows \subseteq FlowRecord /\ NoHost \notin DOMAIN Kind
    /\ \A f \in Flows : f.start <= f.end /\ (f.packets_in = 0 => f.payload_in = 0)

ASSUME HuntAssumption ==
    /\ Grades \subseteq 0..100 /\ Thresholds \subseteq 0..100
    /\ LocalNets \subseteq DOMAIN Kind
    /\ MinFanout \in 1..MaxTargets /\ MinConnections \in Nat \ {0, 1}
    /\ ProbePayload <= SessionPayload /\ MaxFlows \in Nat

VARIABLES
    flows,           \* the flows, in completion order
    threshold,       \* --threshold
    pass,            \* "capture", "beacons", "scans", "done"
    next,            \* the flow the pass looks at next
    conversations,   \* grouped of find_beacons
    vertical,        \* the groups of find_scans, in the order of their
    horizontal,      \*   dictionaries, and
    left,            \*   those not scored yet
    findings         \* summary.findings

vars == <<flows, threshold, pass, next, conversations, vertical, horizontal,
          left, findings>>

Init ==
    /\ flows = <<>> /\ threshold \in Thresholds
    /\ pass = "capture" /\ next = 1
    /\ conversations = <<>> /\ vertical = <<>> /\ horizontal = <<>>
    /\ left = <<>> /\ findings = <<>>

\* A flow is finished.
Complete(f) ==
    /\ pass = "capture" /\ Len(flows) < MaxFlows
    /\ flows' = Append(flows, f)
    /\ UNCHANGED <<threshold, pass, next, conversations, vertical, horizontal,
                   left, findings>>

F == flows[next]

-----------------------------------------------------------------------------
(* report.py *)

\* scope, for the networks nets, or the default ranges if there are none
Scope(address, nets) ==
    LET inside == IF nets = {} THEN {a \in DOMAIN Kind : Kind[a] = "internal"} ELSE nets
    IN  IF Kind[address] \notin {"internal", "public"} THEN Kind[address]
        ELSE IF address \in inside THEN "private" ELSE "external"

External(scope) == scope \in {"external", "unknown", NoHost}

\* severity_for, by its place in the order: critical is 1, low is 4.
Severity(score, scope) ==
    CASE score >= 90 -> IF External(scope) THEN 1 ELSE 2
      [] score >= 80 /\ score < 90 -> IF External(scope) THEN 2 ELSE 3
      [] score >= 70 /\ score < 80 -> 3
      [] OTHER -> 4

Finding(kind, src, dst, scope, score) ==
    [kind |-> kind, src |-> src, dst |-> dst, scope |-> scope,
     score |-> score, severity |-> Severity(score, scope)]

\* Mutant: the ranking is by severity alone.
WorseBySeverity(f, g) == f.severity < g.severity

\* The key of ranked.
Worse(f, g) ==
    \/ f.severity < g.severity
    \/ f.severity = g.severity /\ f.score > g.score

\* sorted is stable: of findings with equal keys the earlier comes first.
Before(i, j) ==
    \/ Worse(findings[i], findings[j])
    \/ ~Worse(findings[j], findings[i]) /\ i < j

Ranked ==
    LET place(i) == Cardinality({j \in DOMAIN findings : Before(j, i)}) + 1
    IN  [k \in DOMAIN findings |->
           findings[CHOOSE i \in DOMAIN findings : place(i) = k]]

-----------------------------------------------------------------------------
(* A dictionary of groups, in insertion order *)

At(groups, key) == {i \in DOMAIN groups : groups[i].key = key}

\* The groups after f has been added to its own by add, a new one if need be.
Into(groups, key, new, add(_)) ==
    IF At(groups, key) = {} THEN Append(groups, add(new))
    ELSE [i \in DOMAIN groups |->
            IF i \in At(groups, key) THEN add(groups[i]) ELSE groups[i]]

-----------------------------------------------------------------------------
(* find_beacons *)

Conversation(f) == <<f.src, f.dst, f.dport, f.proto>>

Group ==
    /\ pass = "beacons" /\ next <= Len(flows)
    /\ conversations' =
         Into(conversations, Conversation(F),
              [key |-> Conversation(F), flows |-> <<>>],
              LAMBDA g : [g EXCEPT !.flows = Append(@, F)])
    /\ next' = next + 1
    /\ left' = conversations'
    /\ UNCHANGED <<flows, threshold, pass, vertical, horizontal, findings>>

\* _capture_window
Window ==
    IF flows = <<>> THEN 0
    ELSE Max({f.end : f \in ToSet(flows)}) - Min({f.start : f \in ToSet(flows)})

Starts(g) == {f.start : f \in ToSet(g.flows)}
Span(g)   == Max(Starts(g)) - Min(Starts(g))

\* The gates of score_group: enough flows, and enough of them apart.
Scorable(g) ==
    Len(g.flows) >= MinConnections /\ Cardinality(Starts(g)) >= MinConnections

\* With networks declared, analyse keeps what calls out of them.
Reported(g) == LocalNets # {} => g.key[1] \in LocalNets

Beacon(g, score) ==
    Finding("beacon", g.key[1], g.key[2], Scope(g.key[2], LocalNets), score)

ScoreBeacon ==
    LET g == Head(left) IN
    /\ pass = "beacons" /\ next > Len(flows) /\ left # <<>>
    /\ left' = Tail(left)
    /\ \/ UNCHANGED findings
       \/ /\ Scorable(g) /\ Reported(g)
          /\ \E score \in Grades :
               score >= threshold /\ findings' = Append(findings, Beacon(g, score))
    /\ UNCHANGED <<flows, threshold, pass, next, conversations, vertical, horizontal>>

-----------------------------------------------------------------------------
(* find_scans *)

NewSweep(key, dst) ==
    [key |-> key, src |-> key[2], dst |-> dst, targets |-> {}, attempts |-> 0,
     served |-> 0, stealth |-> 0, quiet |-> 0, starts |-> <<>>]

One(test) == IF test THEN 1 ELSE 0

\* Mutant: once there are targets enough, attempts are no longer counted.
AddToSweepFull(g, f, target) ==
    IF Cardinality(g.targets) >= MaxTargets THEN g
    ELSE [g EXCEPT !.targets = @ \cup {target}, !.attempts = @ + 1,
                   !.served = @ + One(Served(f)), !.stealth = @ + One(Stealthy(f)),
                   !.quiet = @ + One(Quiet(f)), !.starts = Append(@, f.start)]

\* _Group.add
AddToSweep(g, f, target) ==
    [g EXCEPT !.targets  = IF Cardinality(@) < MaxTargets THEN @ \cup {target} ELSE @,
              !.attempts = @ + 1,
              !.served   = @ + One(Served(f)),
              !.stealth  = @ + One(Stealthy(f)),
              !.quiet    = @ + One(Quiet(f)),
              !.starts   = IF Len(@) < MaxStarts THEN Append(@, f.start) ELSE @]

Down(f)   == <<f.proto, f.src, f.dst>>
Across(f) == <<f.proto, f.src, f.dport>>

\* Mutant: a sweep of one host counts the ports the attempts left from.
SweepSourcePorts ==
    /\ pass = "scans" /\ next <= Len(flows)
    /\ vertical' = Into(vertical, Down(F), NewSweep(Down(F), F.dst),
                        LAMBDA g : AddToSweep(g, F, F.sport))
    /\ horizontal' = Into(horizontal, Across(F), NewSweep(Across(F), NoHost),
                          LAMBDA g : AddToSweep(g, F, F.dst))
    /\ left' = vertical' \o horizontal'
    /\ next' = next + 1
    /\ UNCHANGED <<flows, threshold, pass, conversations, findings>>

Sweep ==
    /\ pass = "scans" /\ next <= Len(flows)
    /\ vertical' = Into(vertical, Down(F), NewSweep(Down(F), F.dst),
                        LAMBDA g : AddToSweep(g, F, F.dport))
    /\ horizontal' = Into(horizontal, Across(F), NewSweep(Across(F), NoHost),
                          LAMBDA g : AddToSweep(g, F, F.dst))
    /\ left' = vertical' \o horizontal'
    /\ next' = next + 1
    /\ UNCHANGED <<flows, threshold, pass, conversations, findings>>

\* The response and payload shares multiplied, over twice the square of the
\* attempts: a score is at most that, and at least half of it.
Share(g) == 100 * (g.attempts - g.served) * (g.attempts + g.quiet)
Bound(g, score) == 2 * g.attempts * g.attempts * score

Scan(g, score) ==
    Finding("scan", g.src, g.dst,
            IF g.dst = NoHost THEN NoHost ELSE Scope(g.dst, {}), score)

ScoreScan ==
    LET g == Head(left) wide == Cardinality(g.targets) >= MinFanout IN
    /\ pass = "scans" /\ next > Len(flows) /\ left # <<>>
    /\ left' = Tail(left)
    /\ \/ /\ ~wide \/ Share(g) < 2 * Bound(g, threshold)
          /\ UNCHANGED findings
       \/ /\ wide
          /\ \E score \in Grades :
               /\ score >= threshold
               /\ Bound(g, score) <= Share(g) /\ Share(g) <= 2 * Bound(g, score)
               /\ findings' = Append(findings, Scan(g, score))
    /\ UNCHANGED <<flows, threshold, pass, next, conversations, vertical, horizontal>>

-----------------------------------------------------------------------------

After == [capture |-> "beacons", beacons |-> "scans", scans |-> "done"]

\* The capture has ended, or a detector has come to the end of its groups.
Ended ==
    /\ pass \in DOMAIN After
    /\ pass # "capture" => next > Len(flows) /\ left = <<>>
    /\ pass' = After[pass] /\ next' = 1
    /\ UNCHANGED <<flows, threshold, conversations, vertical, horizontal, left, findings>>

Next ==
    \/ \E f \in Flows : Complete(f)
    \/ Group \/ ScoreBeacon \/ Sweep \/ ScoreScan \/ Ended

Spec == Init /\ [][Next]_vars

-----------------------------------------------------------------------------

Positions == DOMAIN flows

\* The how manieth of mine i is.
Rank(i, mine) == Cardinality({j \in mine : j <= i})

\* The totals of g are those of the flows at mine.
Totals(g, mine, target(_)) ==
    LET many(test(_)) == Cardinality({i \in mine : test(flows[i])})
        aims == {target(flows[i]) : i \in mine}
    IN  /\ g.attempts = Cardinality(mine)
        /\ g.served = many(Served) /\ g.stealth = many(Stealthy) /\ g.quiet = many(Quiet)
        /\ g.targets \subseteq aims
        /\ Cardinality(g.targets) = Min({MaxTargets, Cardinality(aims)})
        /\ Len(g.starts) = Min({MaxStarts, Cardinality(mine)})
        /\ \A i \in mine : Rank(i, mine) <= MaxStarts =>
              g.starts[Rank(i, mine)] = flows[i].start

\* listed are the flows at mine, in their order.
Lists(listed, mine) ==
    /\ Len(listed) = Cardinality(mine)
    /\ \A i \in mine : listed[Rank(i, mine)] = flows[i]

\* The flows of the ith's source to the same port of the same host.
Alike(i) ==
    {j \in Positions : /\ flows[j].src = flows[i].src /\ flows[j].dst = flows[i].dst
                      /\ flows[j].dport = flows[i].dport /\ flows[j].proto = flows[i].proto}

(* TotalsAddUp: in whatever order flows complete and groups come into      *)
(* being, every flow is counted in exactly one conversation and in one     *)
(* group of each sweep axis.  A conversation has all flows of a host to a  *)
(* service, from whatever ports, and spans no more than the window of the  *)
(* capture; the totals of a group are those of all its flows, and the caps *)
(* cut off targets and starts and nothing else.                            *)
TotalsAddUp ==
    pass = "scans" /\ next > Len(flows) =>
        /\ \A i \in Positions :
              /\ Cardinality({k \in DOMAIN conversations :
                     Lists(conversations[k].flows, Alike(i))}) = 1
              /\ Cardinality(At(vertical, Down(flows[i]))) = 1
              /\ Cardinality(At(horizontal, Across(flows[i]))) = 1
        /\ \A g \in ToSet(conversations) : Span(g) <= Window
        /\ \A g \in ToSet(vertical) :
              Totals(g, {i \in Positions : Down(flows[i]) = g.key}, LAMBDA f : f.dport)
        /\ \A g \in ToSet(horizontal) :
              Totals(g, {i \in Positions : Across(flows[i]) = g.key}, LAMBDA f : f.dst)

Found(kind) == {f \in ToSet(findings) : f.kind = kind}

\* src tried targets enough among mine, and share of the attempts, in
\* hundredths, came to nothing.
Searching(mine, target(_), share) ==
    /\ Cardinality({target(flows[i]) : i \in mine}) >= MinFanout
    /\ 100 * Cardinality({i \in mine : ~Served(flows[i])}) >= share * Cardinality(mine)

ByHost(src, dst, proto) ==
    {i \in Positions : flows[i].src = src /\ flows[i].dst = dst /\ flows[i].proto = proto}
ByPort(src, dport, proto) ==
    {i \in Positions : flows[i].src = src /\ flows[i].dport = dport /\ flows[i].proto = proto}

(* FindingsHaveCause: a host is accused only on its own traffic, whatever  *)
(* else is in the capture.  One reported for a scan tried MIN_FANOUT ports *)
(* of the host named, or one port of that many hosts, in one protocol, and *)
(* the share of those attempts that reached no service is at least the     *)
(* score.  One reported as calling out made connections that started apart *)
(* to one port of the host named; and when networks are declared it is     *)
(* inside them, and the host named is private or external by them, not by  *)
(* the default ranges.                                                     *)
FindingsHaveCause ==
    /\ \A s \in Found("scan") : \E proto \in Protocols :
          IF s.dst # NoHost
          THEN Searching(ByHost(s.src, s.dst, proto), LAMBDA f : f.dport, s.score)
          ELSE \E dport \in {f.dport : f \in ToSet(flows)} :
                  Searching(ByPort(s.src, dport, proto), LAMBDA f : f.dst, s.score)
    /\ \A b \in Found("beacon") :
          /\ LocalNets # {} => b.src \in LocalNets
          /\ LocalNets # {} /\ Kind[b.dst] \in {"internal", "public"} =>
                b.scope = IF b.dst \in LocalNets THEN "private" ELSE "external"
          /\ \E proto \in Protocols, dport \in {f.dport : f \in ToSet(flows)} :
                Cardinality({flows[i].start :
                    i \in ByHost(b.src, b.dst, proto) \cap ByPort(b.src, dport, proto)})
                  >= MinConnections

(* SilentSweepFound: a host that tried MIN_FANOUT ports of one host, with  *)
(* no data sent and no answer to any, is reported at a threshold of a      *)
(* half, at whatever rate and among whatever other traffic.                *)
SilentSweepFound ==
    pass = "done" /\ threshold <= 50 =>
        \A i \in Positions :
            LET mine == ByHost(flows[i].src, flows[i].dst, flows[i].proto) IN
            /\ Cardinality({flows[j].dport : j \in mine}) >= MinFanout
            /\ \A j \in mine : flows[j].packets_in = 0 /\ flows[j].payload_out <= ProbePayload
            => \E s \in Found("scan") : s.src = flows[i].src /\ s.dst = flows[i].dst

(* OnlyScopeOutranks: a finding is ranked above one with a higher score    *)
(* only because it is about an external destination and the other is not:  *)
(* severity_for may lift a finding over others, and nothing else may.      *)
OnlyScopeOutranks ==
    pass = "done" =>
        LET order == Ranked IN \A i, j \in DOMAIN order :
            i < j /\ order[i].score < order[j].score =>
                External(order[i].scope) /\ ~External(order[j].scope)
=============================================================================
