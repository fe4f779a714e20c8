---------------------------- MODULE DnsHunt_proofs ----------------------------
(***************************************************************************)
(* Theorems about the three passes over the DNS events of a capture, for   *)
(* every set of names, hosts and generated domains and all three caps.     *)
(*                                                                         *)
(* Each pass builds a table of its own, and a pass is proved by saying     *)
(* what its table holds of the first k events: GroupInv, DgaInv and        *)
(* ClientInv.  The caps make this less than all: a parent that is not kept *)
(* may have been crowded out, but then the table is full and stays full,   *)
(* so a parent that is kept was kept from its first event on.              *)
(***************************************************************************)
EXTENDS DnsHunt, SequenceTheorems, FiniteSetTheorems, TLAPS

\* The events with parent p among the first k, and the queries among them.
Parents(p, evs, k) == {i \in 1..k : TunnelParent(evs[i].name) = p}
Queries(p, evs, k) == {i \in Parents(p, evs, k) : ~evs[i].is_response}
Negative(p, evs, k) == {i \in Parents(p, evs, k) : evs[i].nxdomain}

Totals == [queries : Nat, responses : Nat, nxdomain : Nat, records : Seq(Nat)]

FirstOf(recs, S) ==
    /\ ToSet(recs) \subseteq S
    /\ Len(recs) = Min({Cardinality(S), MaxRecords})
    /\ \A i \in ToSet(recs), j \in S \ ToSet(recs) : i < j
    /\ Len(recs) < MaxRecords => ToSet(recs) = S

Tallied(d, p, evs, k) ==
    /\ d.queries = Cardinality(Queries(p, evs, k))
    /\ d.responses = Cardinality(Parents(p, evs, k) \ Queries(p, evs, k))
    /\ d.nxdomain = Cardinality(Negative(p, evs, k))
    /\ FirstOf(d.records, Queries(p, evs, k))

\* What _group holds of the first k events.
GroupInv(doms, evs, k) ==
    /\ IsFiniteSet(DOMAIN doms)
    /\ \A p \in DOMAIN doms :
          p # <<>> /\ doms[p] \in Totals /\ Tallied(doms[p], p, evs, k)
    /\ \A i \in 1..k :
          \/ TunnelParent(evs[i].name) \in {<<>>} \cup DOMAIN doms
          \/ Cardinality(DOMAIN doms) >= MaxDomains

Domains(evs, k) == {Registrable(evs[i].name) : i \in 1..k} \ {<<>>}

\* What find_dga holds of the first k events.
DgaInv(scored, hits, evs, k) ==
    /\ IsFiniteSet(scored) /\ scored \subseteq Domains(evs, k)
    /\ Cardinality(scored) < MaxNames => scored = Domains(evs, k)
    /\ hits \in Seq(Generated) /\ ToSet(hits) = scored \cap Generated
    /\ \A i, j \in 1..Len(hits) : hits[i] = hits[j] => i = j

\* What _clients holds of the first k events.
ClientInv(who, evs, k) ==
    /\ \A i \in 1..k : Asked(evs[i]) \subseteq DOMAIN who
    /\ \A d \in DOMAIN who : \E i \in 1..k :
          d \in Asked(evs[i]) /\ who[d] = evs[i].client

Turn == [capture |-> 0, group |-> 1, dga |-> 2, clients |-> 3, report |-> 4, done |-> 5]

\* The number of events pass p has gone through.
Gone(p) ==
    IF Turn[pass] < Turn[p] THEN 0 ELSE IF pass = p THEN next - 1 ELSE Len(events)

Shape ==
    /\ events \in Seq(Event)
    /\ \A i \in 1..Len(events) : events[i].nxdomain => events[i].is_response
    /\ pass \in DOMAIN Turn /\ next \in 1..(Len(events) + 1)
    /\ pass = "capture" => next = 1

Reported ==
    {[src |-> ClientOf(d), domains |-> {x \in ToSet(found) : ClientOf(x) = ClientOf(d)}] :
       d \in ToSet(found)}

DInv ==
    /\ Shape
    /\ GroupInv(domains, events, Gone("group"))
    /\ DgaInv(seen, found, events, Gone("dga"))
    /\ ClientInv(clients, events, Gone("clients"))
    /\ findings = IF pass = "done" THEN Reported ELSE {}

-----------------------------------------------------------------------------
(* Sets and sequences *)

LEMMA MinOfTwo ==
    ASSUME NEW a \in Nat, NEW b \in Nat
    PROVE  Min({a, b}) = IF a <= b THEN a ELSE b
<1> DEFINE m == IF a <= b THEN a ELSE b
<1>1. m \in {a, b} /\ \A y \in {a, b} : m <= y
  OBVIOUS
<1>2. \A x \in {a, b} : (\A y \in {a, b} : x <= y) => x = m
  OBVIOUS
<1> HIDE DEF m
<1>3. (CHOOSE x \in {a, b} : \A y \in {a, b} : x <= y) = m
  BY <1>1, <1>2
<1> QED BY <1>3 DEF Min, m

LEMMA OneMoreEvent ==
    ASSUME NEW k \in Nat, NEW S \in SUBSET (1..k)
    PROVE  /\ IsFiniteSet(S) /\ Cardinality(S) \in Nat
           /\ IsFiniteSet(S \cup {k + 1})
           /\ Cardinality(S \cup {k + 1}) = Cardinality(S) + 1
<1>1. IsFiniteSet(1..k)
  BY FS_Interval
<1>2. IsFiniteSet(S)
  BY <1>1, FS_Subset
<1>3. k + 1 \notin S
  OBVIOUS
<1> QED BY <1>2, <1>3, FS_AddElement, FS_CardinalityType

LEMMA MembersAppended ==
    ASSUME NEW S, NEW s \in Seq(S), NEW x \in S
    PROVE  /\ Append(s, x) \in Seq(S) /\ Len(Append(s, x)) = Len(s) + 1
           /\ Len(s) \in Nat
           /\ \A i \in 1..Len(s) : Append(s, x)[i] = s[i]
           /\ Append(s, x)[Len(s) + 1] = x
           /\ ToSet(Append(s, x)) = ToSet(s) \cup {x}
<1>1. /\ Append(s, x) \in Seq(S) /\ Len(Append(s, x)) = Len(s) + 1
      /\ \A i \in 1..Len(s) : Append(s, x)[i] = s[i]
      /\ Append(s, x)[Len(s) + 1] = x
      /\ Len(s) \in Nat /\ DOMAIN s = 1..Len(s)
      /\ DOMAIN Append(s, x) = 1..(Len(s) + 1)
  BY AppendProperties, LenProperties
<1> DEFINE t == Append(s, x)
<1> HIDE DEF t
<1>2. {t[i] : i \in 1..(Len(s) + 1)} = {s[i] : i \in 1..Len(s)} \cup {x}
  <2>1. \A i \in 1..(Len(s) + 1) : i \in 1..Len(s) \/ i = Len(s) + 1
    BY <1>1
  <2>2. 1..Len(s) \subseteq 1..(Len(s) + 1) /\ Len(s) + 1 \in 1..(Len(s) + 1)
    BY <1>1
  <2> QED BY <1>1, <2>1, <2>2 DEF t
<1> QED BY <1>1, <1>2 DEF ToSet, t

\* The events lie in the capture, and each has the type of an event.
LEMMA EventFacts ==
    ASSUME Shape
    PROVE  /\ Len(events) \in Nat /\ next \in Nat
           /\ \A i \in 1..Len(events) :
                 /\ events[i].client \in Hosts /\ events[i].name \in Names
                 /\ events[i].is_response \in BOOLEAN /\ events[i].nxdomain \in BOOLEAN
                 /\ events[i].nxdomain => events[i].is_response
<1>1. Len(events) \in Nat /\ \A i \in 1..Len(events) : events[i] \in Event
  BY ElementOfSeq, LenProperties DEF Shape
<1>2. next \in Nat
  BY <1>1 DEF Shape
<1> QED BY <1>1, <1>2 DEF Shape, Event

-----------------------------------------------------------------------------
(* How far each pass has come *)

LEMMA GoneFacts ==
    ASSUME Shape, NEW q \in {"group", "dga", "clients"}
    PROVE  /\ Gone(q) \in 0..Len(events)
           /\ pass = q => Gone(q) = next - 1
           /\ pass = "capture" => Gone(q) = 0
           /\ pass \in {"report", "done"} => Gone(q) = Len(events)
<1>1. Len(events) \in Nat /\ next \in 1..(Len(events) + 1) /\ pass \in DOMAIN Turn
  BY EventFacts DEF Shape
<1> QED BY <1>1 DEF Gone, Turn

\* The end of a pass changes nothing of what has been gone through.
LEMMA EndedGone ==
    ASSUME Shape, Ended, NEW q \in {"group", "dga", "clients"}
    PROVE  Gone(q)' = Gone(q)
<1>1. /\ Len(events) \in Nat /\ next \in 1..(Len(events) + 1)
      /\ pass = "capture" => next = 1
      /\ events' = events /\ next' = 1
      /\ pass # "capture" => next = Len(events) + 1
  BY EventFacts DEF Shape, Ended
<1>2. /\ pass \in {"capture", "group", "dga", "clients"}
      /\ pass' = IF pass = "capture" THEN "group"
                 ELSE IF pass = "group" THEN "dga"
                 ELSE IF pass = "dga" THEN "clients" ELSE "report"
  BY DEF Ended, After
<1>3. Gone(q)' = IF Turn[pass'] < Turn[q] THEN 0
                 ELSE IF pass' = q THEN next' - 1 ELSE Len(events)
  BY <1>1 DEF Gone
<1> QED BY <1>1, <1>2, <1>3 DEF Gone, Turn

-----------------------------------------------------------------------------
(* _group *)

LEMMA RecordOne ==
    ASSUME NEW k \in Nat, NEW S \in SUBSET (1..k), NEW recs \in Seq(Nat), FirstOf(recs, S)
    PROVE  LET kept == IF Len(recs) < MaxRecords THEN Append(recs, k + 1) ELSE recs
           IN  kept \in Seq(Nat) /\ FirstOf(kept, S \cup {k + 1})
<1> DEFINE kept == IF Len(recs) < MaxRecords THEN Append(recs, k + 1) ELSE recs
           c == Cardinality(S)
           T == S \cup {k + 1}
<1>1. c \in Nat /\ Cardinality(T) = c + 1 /\ MaxRecords \in Nat /\ Len(recs) \in Nat
  BY OneMoreEvent, CapsAssumption, LenProperties
<1> HIDE DEF c
<1>2. Len(recs) = IF c <= MaxRecords THEN c ELSE MaxRecords
  BY <1>1, MinOfTwo DEF FirstOf, c
<1>3. Min({Cardinality(T), MaxRecords}) = IF c + 1 <= MaxRecords THEN c + 1 ELSE MaxRecords
  <2> HIDE DEF T
  <2>1. Cardinality(T) \in Nat
    BY <1>1
  <2> QED BY <1>1, <2>1, MinOfTwo
<1>4. CASE Len(recs) < MaxRecords
  <2>1. ToSet(recs) = S
    BY <1>4 DEF FirstOf
  <2>2. /\ kept \in Seq(Nat) /\ Len(kept) = c + 1 /\ ToSet(kept) = T
    BY <1>1, <1>2, <1>4, <2>1, MembersAppended
  <2> HIDE DEF kept, T
  <2>3. Min({Cardinality(T), MaxRecords}) = c + 1
    BY <1>1, <1>2, <1>3, <1>4
  <2>4. FirstOf(kept, T)
    BY <2>2, <2>3 DEF FirstOf
  <2> QED BY <2>2, <2>4 DEF kept, T
<1>5. CASE ~(Len(recs) < MaxRecords)
  <2>1. kept = recs /\ Len(kept) = MaxRecords
    BY <1>1, <1>2, <1>5
  <2>2. Min({Cardinality(T), MaxRecords}) = MaxRecords
    BY <1>1, <1>2, <1>3, <1>5
  <2> HIDE DEF kept
  <2>3. ToSet(kept) \subseteq S /\ \A i \in ToSet(kept), j \in S \ ToSet(kept) : i < j
    BY <2>1 DEF FirstOf
  <2>4. \A i \in S : i < k + 1
    OBVIOUS
  <2>5. ToSet(kept) \subseteq T /\ \A i \in ToSet(kept), j \in T \ ToSet(kept) : i < j
    BY <2>3, <2>4
  <2>6. ~(Len(kept) < MaxRecords)
    BY <1>1, <2>1
  <2> HIDE DEF T
  <2>7. FirstOf(kept, T)
    BY <2>1, <2>2, <2>5, <2>6 DEF FirstOf
  <2> QED BY <2>1, <2>7 DEF kept, T
<1> QED BY <1>4, <1>5

\* What one more event adds to the sets a parent is tallied over.
LEMMA MoreParents ==
    ASSUME NEW k \in Nat, NEW p, NEW evs
    PROVE  /\ Parents(p, evs, k) \subseteq 1..k
           /\ Queries(p, evs, k) \subseteq 1..k
           /\ Parents(p, evs, k) \ Queries(p, evs, k) \subseteq 1..k
           /\ Negative(p, evs, k) \subseteq 1..k
           /\ TunnelParent(evs[k + 1].name) # p =>
                 /\ Parents(p, evs, k + 1) = Parents(p, evs, k)
                 /\ Queries(p, evs, k + 1) = Queries(p, evs, k)
                 /\ Negative(p, evs, k + 1) = Negative(p, evs, k)
           /\ TunnelParent(evs[k + 1].name) = p =>
                 /\ Parents(p, evs, k + 1) = Parents(p, evs, k) \cup {k + 1}
                 /\ Queries(p, evs, k + 1)
                      = Queries(p, evs, k) \cup (IF evs[k + 1].is_response THEN {} ELSE {k + 1})
                 /\ Negative(p, evs, k + 1)
                      = Negative(p, evs, k) \cup (IF evs[k + 1].nxdomain THEN {k + 1} ELSE {})
<1>1. 1..(k + 1) = 1..k \cup {k + 1}
  OBVIOUS
<1> QED BY <1>1 DEF Parents, Queries, Negative

LEMMA TalliedOther ==
    ASSUME NEW k \in Nat, NEW p, NEW evs, TunnelParent(evs[k + 1].name) # p,
           NEW d, Tallied(d, p, evs, k)
    PROVE  Tallied(d, p, evs, k + 1)
BY MoreParents DEF Tallied

LEMMA TalliedNew ==
    ASSUME NEW k \in Nat, NEW p, NEW evs, \A i \in 1..k : TunnelParent(evs[i].name) # p
    PROVE  NewDomain \in Totals /\ Tallied(NewDomain, p, evs, k)
<1>1. Parents(p, evs, k) = {} /\ Queries(p, evs, k) = {} /\ Negative(p, evs, k) = {}
  BY DEF Parents, Queries, Negative
<1>2. NewDomain \in Totals
  BY EmptySeq DEF NewDomain, Totals
<1>3. FirstOf(<<>>, {})
  <2>1. Min({0, MaxRecords}) = 0
    BY MinOfTwo, CapsAssumption
  <2>2. ToSet(<<>>) = {} /\ Len(<<>>) = 0
    BY DEF ToSet
  <2> QED BY <2>1, <2>2, FS_EmptySet DEF FirstOf
<1> QED BY <1>1, <1>2, <1>3, FS_EmptySet DEF Tallied, NewDomain

LEMMA TalliedOne ==
    ASSUME Shape, NEW p, next <= Len(events), TunnelParent(E.name) = p,
           NEW d \in Totals, Tallied(d, p, events, next - 1)
    PROVE  TallyEvent(d) \in Totals /\ Tallied(TallyEvent(d), p, events, next)
<1> DEFINE k == next - 1
           P == Parents(p, events, k)
           Q == Queries(p, events, k)
           N == Negative(p, events, k)
           r == TallyEvent(d)
<1>1. k \in Nat /\ next = k + 1 /\ E = events[k + 1] /\ next \in 1..Len(events)
  BY EventFacts DEF Shape, E
<1>2. /\ E.is_response \in BOOLEAN /\ E.nxdomain \in BOOLEAN
      /\ E.nxdomain => E.is_response
  BY <1>1, EventFacts DEF E
<1>3. /\ d.queries = Cardinality(Q) /\ d.responses = Cardinality(P \ Q)
      /\ d.nxdomain = Cardinality(N) /\ FirstOf(d.records, Q)
      /\ d.queries \in Nat /\ d.responses \in Nat /\ d.nxdomain \in Nat
      /\ d.records \in Seq(Nat)
  BY DEF Tallied, Totals
<1> HIDE DEF k
<1>4. /\ Parents(p, events, k + 1) = P \cup {k + 1}
      /\ Queries(p, events, k + 1) = Q \cup (IF E.is_response THEN {} ELSE {k + 1})
      /\ Negative(p, events, k + 1) = N \cup (IF E.nxdomain THEN {k + 1} ELSE {})
      /\ P \in SUBSET (1..k) /\ Q \in SUBSET (1..k) /\ N \in SUBSET (1..k)
      /\ P \ Q \in SUBSET (1..k)
  BY <1>1, MoreParents
<1>5. k + 1 \notin P /\ k + 1 \notin Q
  BY <1>1, <1>4
<1> HIDE DEF P, Q, N
<1>6. CASE E.is_response
  <2> DEFINE x == IF E.nxdomain THEN 1 ELSE 0
             a == d.responses + 1
             b == d.nxdomain + x
  <2>0. r = [d EXCEPT !.responses = a, !.nxdomain = b] /\ a \in Nat /\ b \in Nat
    BY <1>3, <1>6 DEF TallyEvent
  <2> HIDE DEF r, a, b
  <2>1. /\ r.queries = d.queries /\ r.responses = d.responses + 1
        /\ r.nxdomain = d.nxdomain + x
        /\ r.records = d.records /\ r \in Totals
    BY <2>0 DEF Totals, a, b
  <2> HIDE DEF x
  <2>2. (P \cup {k + 1}) \ Q = (P \ Q) \cup {k + 1}
    BY <1>5
  <2>3. Cardinality((P \cup {k + 1}) \ Q) = d.responses + 1
    BY <1>1, <1>3, <1>4, <2>2, OneMoreEvent
  <2>4. Cardinality(Negative(p, events, k + 1)) = d.nxdomain + x
    <3>1. CASE E.nxdomain
      BY <1>1, <1>3, <1>4, <3>1, OneMoreEvent DEF x
    <3>2. CASE ~E.nxdomain
      BY <1>3, <1>4, <3>2 DEF x
    <3> QED BY <3>1, <3>2
  <2>5. Parents(p, events, k + 1) \ Queries(p, events, k + 1) = (P \cup {k + 1}) \ Q
    BY <1>4, <1>6
  <2>6. Queries(p, events, k + 1) = Q
    BY <1>4, <1>6
  <2>7. Tallied(r, p, events, k + 1)
    BY <1>3, <2>1, <2>3, <2>4, <2>5, <2>6 DEF Tallied
  <2> QED BY <1>1, <2>1, <2>7 DEF r
<1>7. CASE ~E.is_response
  <2> DEFINE kept == IF Len(d.records) < MaxRecords THEN Append(d.records, k + 1) ELSE d.records
  <2>1. kept \in Seq(Nat) /\ FirstOf(kept, Q \cup {k + 1})
    BY <1>1, <1>3, <1>4, RecordOne
  <2> DEFINE a == d.queries + 1
  <2>2. r = [d EXCEPT !.queries = a, !.records = kept] /\ a \in Nat
    BY <1>1, <1>3, <1>7 DEF TallyEvent
  <2> HIDE DEF kept, r, a
  <2>3. /\ r.queries = d.queries + 1 /\ r.responses = d.responses
        /\ r.nxdomain = d.nxdomain /\ r.records = kept /\ r \in Totals
    BY <2>1, <2>2 DEF Totals, a
  <2>4. /\ Queries(p, events, k + 1) = Q \cup {k + 1}
        /\ Cardinality(Q \cup {k + 1}) = d.queries + 1
    BY <1>1, <1>3, <1>4, <1>7, OneMoreEvent
  <2>5. Parents(p, events, k + 1) \ Queries(p, events, k + 1) = P \ Q
    BY <1>4, <1>5, <2>4
  <2>6. Negative(p, events, k + 1) = N
    BY <1>2, <1>4, <1>7
  <2>7. Tallied(r, p, events, k + 1)
    BY <1>3, <2>1, <2>3, <2>4, <2>5, <2>6 DEF Tallied
  <2> QED BY <1>1, <2>3, <2>7 DEF r
<1> QED BY <1>6, <1>7

LEMMA GroupOne ==
    ASSUME Shape, Group, GroupInv(domains, events, next - 1)
    PROVE  GroupInv(domains', events, next)
<1> DEFINE k == next - 1
           p == TunnelParent(E.name)
           base == IF p \in DOMAIN domains THEN domains[p] ELSE NewDomain
           one == TallyEvent(base)
<1>1. /\ k \in Nat /\ next = k + 1 /\ E = events[k + 1] /\ next <= Len(events)
      /\ 1..(k + 1) = 1..k \cup {k + 1}
  BY EventFacts DEF Shape, E, Group, At
<1>2. /\ IsFiniteSet(DOMAIN domains)
      /\ \A q \in DOMAIN domains :
            q # <<>> /\ domains[q] \in Totals /\ Tallied(domains[q], q, events, k)
      /\ \A i \in 1..k :
            \/ TunnelParent(events[i].name) \in {<<>>} \cup DOMAIN domains
            \/ Cardinality(DOMAIN domains) >= MaxDomains
  BY DEF GroupInv
<1>3. Cardinality(DOMAIN domains) \in Nat /\ MaxDomains \in Nat
  BY <1>2, FS_CardinalityType, CapsAssumption
<1>4. \A q \in DOMAIN domains : q # p => Tallied(domains[q], q, events, k + 1)
  BY <1>1, <1>2, TalliedOther
<1>5. CASE GroupSkips
  <2>1. domains' = domains
    BY <1>5 DEF Group
  <2>2. p = <<>> \/ (p \notin DOMAIN domains /\ Cardinality(DOMAIN domains) >= MaxDomains)
    BY <1>5 DEF GroupSkips
  <2> HIDE DEF k, p
  <2>3. \A q \in DOMAIN domains : q # p
    BY <1>2, <2>2
  <2>4. \A i \in 1..(k + 1) :
            \/ TunnelParent(events[i].name) \in {<<>>} \cup DOMAIN domains
            \/ Cardinality(DOMAIN domains) >= MaxDomains
    BY <1>1, <1>2, <2>2 DEF p
  <2> QED BY <1>1, <1>2, <1>4, <2>1, <2>3, <2>4 DEF GroupInv
<1>6. CASE ~GroupSkips
  <2>1. /\ p # <<>>
        /\ p \notin DOMAIN domains => Cardinality(DOMAIN domains) < MaxDomains
    BY <1>3, <1>6 DEF GroupSkips
  <2>2. domains' = [q \in DOMAIN domains \cup {p} |-> IF q # p THEN domains[q] ELSE one]
    BY <1>6 DEF Group
  <2>3. base \in Totals /\ Tallied(base, p, events, k)
    <3>1. CASE p \in DOMAIN domains
      BY <1>2, <3>1
    <3>2. CASE p \notin DOMAIN domains
      <4> HIDE DEF k, p
      <4>1. Cardinality(DOMAIN domains) < MaxDomains
        BY <2>1, <3>2
      <4>2. \A i \in 1..k : TunnelParent(events[i].name) # p
        BY <1>2, <1>3, <2>1, <3>2, <4>1
      <4> QED BY <1>1, <3>2, <4>2, TalliedNew
    <3> QED BY <3>1, <3>2
  <2> HIDE DEF base
  <2>4. one \in Totals /\ Tallied(one, p, events, next)
    BY <1>1, <2>3, TalliedOne
  <2> HIDE DEF one, p, k
  <2>5. /\ DOMAIN domains' = DOMAIN domains \cup {p}
        /\ \A q \in DOMAIN domains' : domains'[q] = IF q # p THEN domains[q] ELSE one
    BY <2>2
  <2>6. /\ IsFiniteSet(DOMAIN domains')
        /\ Cardinality(DOMAIN domains') >= Cardinality(DOMAIN domains)
    <3>1. CASE p \in DOMAIN domains
      <4>1. DOMAIN domains' = DOMAIN domains
        BY <2>5, <3>1
      <4> QED BY <1>2, <1>3, <4>1
    <3>2. CASE p \notin DOMAIN domains
      <4>1. /\ IsFiniteSet(DOMAIN domains \cup {p})
            /\ Cardinality(DOMAIN domains \cup {p}) = Cardinality(DOMAIN domains) + 1
        BY <1>2, <3>2, FS_AddElement
      <4> QED BY <1>3, <2>5, <4>1
    <3> QED BY <3>1, <3>2
  <2>7. \A q \in DOMAIN domains' :
            q # <<>> /\ domains'[q] \in Totals /\ Tallied(domains'[q], q, events, next)
    BY <1>1, <1>2, <1>4, <2>1, <2>4, <2>5
  <2>8. Cardinality(DOMAIN domains') \in Nat
    BY <2>6, FS_CardinalityType
  <2>9. \A i \in 1..(k + 1) :
            \/ TunnelParent(events[i].name) \in {<<>>} \cup DOMAIN domains'
            \/ Cardinality(DOMAIN domains') >= MaxDomains
    <3>1. TunnelParent(events[k + 1].name) = p
      BY <1>1 DEF p
    <3>2. Cardinality(DOMAIN domains) >= MaxDomains => Cardinality(DOMAIN domains') >= MaxDomains
      BY <1>3, <2>6, <2>8
    <3> QED BY <1>1, <1>2, <2>5, <3>1, <3>2
  <2> QED BY <1>1, <2>6, <2>7, <2>9 DEF GroupInv
<1> QED BY <1>5, <1>6

-----------------------------------------------------------------------------
(* find_dga *)

LEMMA MoreDomains ==
    ASSUME NEW k \in Nat, NEW evs
    PROVE  /\ Domains(evs, k + 1)
                = Domains(evs, k) \cup ({Registrable(evs[k + 1].name)} \ {<<>>})
           /\ \A n \in Nat : k <= n => Domains(evs, k) \subseteq Domains(evs, n)
<1>1. 1..(k + 1) = 1..k \cup {k + 1} /\ \A n \in Nat : k <= n => 1..k \subseteq 1..n
  OBVIOUS
<1> QED BY <1>1 DEF Domains

LEMMA ScoreOne ==
    ASSUME Shape, Score, DgaInv(seen, found, events, next - 1)
    PROVE  DgaInv(seen', found', events, next)
<1> DEFINE k == next - 1
           d == Registrable(E.name)
           old == Domains(events, k)
<1>1. k \in Nat /\ next = k + 1 /\ E = events[k + 1]
  BY EventFacts DEF Shape, E
<1>2. /\ d # <<>> /\ d \notin seen /\ Cardinality(seen) < MaxNames
      /\ seen' = seen \cup {d}
      /\ found' = IF d \in Generated THEN Append(found, d) ELSE found
  BY DEF Score
<1>3. /\ IsFiniteSet(seen) /\ seen = old
      /\ found \in Seq(Generated) /\ ToSet(found) = seen \cap Generated
      /\ \A i, j \in 1..Len(found) : found[i] = found[j] => i = j
  BY <1>2 DEF DgaInv
<1> HIDE DEF k
<1>4. Domains(events, next) = old \cup {d}
  <2>1. Domains(events, k + 1) = old \cup ({d} \ {<<>>})
    BY <1>1, MoreDomains
  <2> HIDE DEF d
  <2> QED BY <1>1, <1>2, <2>1
<1> HIDE DEF d, old
<1>5. IsFiniteSet(seen') /\ seen' = Domains(events, next)
  BY <1>2, <1>3, <1>4, FS_AddElement
<1>6. CASE d \in Generated
  <2>1. /\ found' \in Seq(Generated) /\ Len(found') = Len(found) + 1
        /\ Len(found) \in Nat
        /\ \A i \in 1..Len(found) : found'[i] = found[i]
        /\ found'[Len(found) + 1] = d
        /\ ToSet(found') = ToSet(found) \cup {d}
    BY <1>2, <1>3, <1>6, MembersAppended
  <2>2. ToSet(found') = seen' \cap Generated
    BY <1>2, <1>3, <1>6, <2>1
  <2>3. \A i \in 1..Len(found) : found[i] # d
    <3>1. DOMAIN found = 1..Len(found)
      BY <1>3, LenProperties
    <3> QED BY <1>2, <1>3, <3>1 DEF ToSet
  <2>4. \A i, j \in 1..Len(found') : found'[i] = found'[j] => i = j
    <3>1. \A i \in 1..Len(found') : i \in 1..Len(found) \/ i = Len(found) + 1
      BY <2>1
    <3> QED BY <1>3, <2>1, <2>3, <3>1
  <2> QED BY <1>5, <2>1, <2>2, <2>4 DEF DgaInv
<1>7. CASE d \notin Generated
  <2>1. found' = found /\ seen' \cap Generated = seen \cap Generated
    BY <1>2, <1>7
  <2> QED BY <1>3, <1>5, <2>1 DEF DgaInv
<1> QED BY <1>6, <1>7

LEMMA SeenOne ==
    ASSUME Shape, Seen, DgaInv(seen, found, events, next - 1)
    PROVE  DgaInv(seen', found', events, next)
<1> DEFINE k == next - 1
<1>1. k \in Nat /\ next = k + 1 /\ E = events[k + 1]
  BY EventFacts DEF Shape, E
<1>2. /\ Registrable(E.name) = <<>> \/ Registrable(E.name) \in seen
      /\ seen' = seen /\ found' = found
  BY DEF Seen
<1>3. seen \subseteq Domains(events, k)
  BY DEF DgaInv
<1> HIDE DEF k
<1>4. Domains(events, k + 1)
        = Domains(events, k) \cup ({Registrable(events[k + 1].name)} \ {<<>>})
  BY <1>1, MoreDomains
<1>5. Domains(events, next) = Domains(events, k)
  BY <1>1, <1>2, <1>3, <1>4
<1> QED BY <1>2, <1>5 DEF DgaInv, k

\* The cap on names was reached, and that is all the rest of the pass needs.
LEMMA FullOne ==
    ASSUME Shape, Full, DgaInv(seen, found, events, next - 1)
    PROVE  DgaInv(seen', found', events, Len(events))
<1>1. next - 1 \in Nat /\ Len(events) \in Nat /\ next - 1 <= Len(events)
  BY EventFacts DEF Shape
<1>2. Cardinality(seen) >= MaxNames /\ seen' = seen /\ found' = found
  BY DEF Full
<1>3. Cardinality(seen) \in Nat /\ MaxNames \in Nat
  BY FS_CardinalityType, CapsAssumption DEF DgaInv
<1>4. Domains(events, next - 1) \subseteq Domains(events, Len(events))
  BY <1>1, MoreDomains
<1>5. ~(Cardinality(seen) < MaxNames)
  BY <1>2, <1>3
<1> QED BY <1>2, <1>4, <1>5 DEF DgaInv

-----------------------------------------------------------------------------
(* _clients *)

LEMMA AttributeOne ==
    ASSUME Shape, Attribute, ClientInv(clients, events, next - 1)
    PROVE  ClientInv(clients', events, next)
<1> DEFINE k == next - 1
<1>1. k \in Nat /\ next = k + 1 /\ E = events[k + 1] /\ 1..(k + 1) = 1..k \cup {k + 1}
  BY EventFacts DEF Shape, E
<1>2. clients' = [d \in DOMAIN clients \cup Asked(E) |->
                    IF d \in DOMAIN clients THEN clients[d] ELSE E.client]
  BY DEF Attribute
<1>3. /\ \A i \in 1..k : Asked(events[i]) \subseteq DOMAIN clients
      /\ \A d \in DOMAIN clients : \E i \in 1..k :
            d \in Asked(events[i]) /\ clients[d] = events[i].client
  BY DEF ClientInv
<1> HIDE DEF k
<1>4. \A i \in 1..(k + 1) : Asked(events[i]) \subseteq DOMAIN clients'
  BY <1>1, <1>2, <1>3
<1>5. ASSUME NEW d \in DOMAIN clients'
      PROVE  \E i \in 1..(k + 1) : d \in Asked(events[i]) /\ clients'[d] = events[i].client
  <2>1. CASE d \in DOMAIN clients
    <3>1. PICK i \in 1..k : d \in Asked(events[i]) /\ clients[d] = events[i].client
      BY <1>3, <2>1
    <3>2. clients'[d] = clients[d] /\ i \in 1..(k + 1)
      BY <1>1, <1>2, <2>1
    <3> QED BY <3>1, <3>2
  <2>2. CASE d \notin DOMAIN clients
    <3>1. d \in Asked(events[k + 1]) /\ clients'[d] = events[k + 1].client
      BY <1>1, <1>2, <2>2
    <3> QED BY <1>1, <3>1
  <2> QED BY <2>1, <2>2
<1> QED BY <1>1, <1>4, <1>5 DEF ClientInv

-----------------------------------------------------------------------------
(* The steps *)

\* Of no events nothing is held, whatever the capture.
LEMMA NothingYet ==
    ASSUME NEW e1, NEW e2
    PROVE  /\ \A doms : GroupInv(doms, e1, 0) => GroupInv(doms, e2, 0)
           /\ \A s, h : DgaInv(s, h, e1, 0) => DgaInv(s, h, e2, 0)
           /\ \A c : ClientInv(c, e1, 0) => ClientInv(c, e2, 0)
<1>1. 1..0 = {}
  OBVIOUS
<1>2. \A p : /\ Parents(p, e1, 0) = Parents(p, e2, 0)
             /\ Queries(p, e1, 0) = Queries(p, e2, 0)
             /\ Negative(p, e1, 0) = Negative(p, e2, 0)
  BY <1>1 DEF Parents, Queries, Negative
<1>3. \A d, p : Tallied(d, p, e1, 0) => Tallied(d, p, e2, 0)
  BY <1>2 DEF Tallied
<1>4. Domains(e1, 0) = Domains(e2, 0)
  BY <1>1 DEF Domains
<1> QED BY <1>1, <1>3, <1>4 DEF GroupInv, DgaInv, ClientInv

LEMMA InitD ==
    ASSUME Init
    PROVE  DInv
<1>1. events = <<>> /\ Len(events) = 0 /\ next = 1 /\ pass = "capture" /\ 1..0 = {}
  BY DEF Init
<1>2. Shape
  BY <1>1, EmptySeq DEF Shape, Turn
<1>3. Gone("group") = 0 /\ Gone("dga") = 0 /\ Gone("clients") = 0
  BY <1>2, <1>1, GoneFacts
<1>4. IsFiniteSet({}) /\ Cardinality({}) = 0 /\ DOMAIN <<>> = {} /\ ToSet(<<>>) = {}
  BY FS_EmptySet DEF ToSet
<1>5. Domains(events, 0) = {}
  BY <1>1 DEF Domains
<1>6. GroupInv(domains, events, 0)
  BY <1>1, <1>4 DEF GroupInv, Init
<1>7. DgaInv(seen, found, events, 0)
  BY <1>1, <1>4, <1>5, EmptySeq DEF DgaInv, Init
<1>8. ClientInv(clients, events, 0)
  BY <1>1, <1>4 DEF ClientInv, Init
<1> QED BY <1>1, <1>2, <1>3, <1>6, <1>7, <1>8 DEF DInv, Init

LEMMA LiftD ==
    ASSUME DInv, NEW src \in Hosts, NEW dst \in Hosts, NEW name \in Names,
           NEW response \in BOOLEAN, NEW negative \in BOOLEAN,
           Lift(src, dst, name, response, negative)
    PROVE  DInv'
<1> DEFINE e == [client |-> Client(src, dst, response), name |-> name,
                 is_response |-> response, nxdomain |-> negative]
<1>1. /\ Shape /\ pass = "capture" /\ next = 1
      /\ pass' = pass /\ next' = next /\ domains' = domains /\ seen' = seen
      /\ found' = found /\ clients' = clients /\ findings' = findings
      /\ events' = Append(events, e) /\ (negative => response)
  BY DEF DInv, Shape, Lift
<1>2. e \in Event /\ (e.nxdomain => e.is_response)
  BY <1>1 DEF Event, Client
<1> HIDE DEF e
<1>3. events \in Seq(Event)
  BY <1>1 DEF Shape
<1>4. /\ events' \in Seq(Event) /\ Len(events') = Len(events) + 1 /\ Len(events) \in Nat
      /\ \A i \in 1..Len(events) : events'[i] = events[i]
      /\ events'[Len(events) + 1] = e
  BY <1>1, <1>2, <1>3, AppendProperties, LenProperties
<1>5. \A i \in 1..Len(events') : events'[i].nxdomain => events'[i].is_response
  <2>1. \A i \in 1..Len(events') : i \in 1..Len(events) \/ i = Len(events) + 1
    BY <1>4
  <2> QED BY <1>1, <1>2, <1>4, <2>1 DEF Shape
<1>6. Shape'
  BY <1>1, <1>4, <1>5 DEF Shape, Turn
<1>7. /\ Gone("group") = 0 /\ Gone("dga") = 0 /\ Gone("clients") = 0
      /\ Gone("group")' = 0 /\ Gone("dga")' = 0 /\ Gone("clients")' = 0
  <2>1. Gone("group") = 0 /\ Gone("dga") = 0 /\ Gone("clients") = 0
    BY <1>1, GoneFacts
  <2>2. Gone("group")' = 0 /\ Gone("dga")' = 0 /\ Gone("clients")' = 0
    BY <1>1 DEF Gone, Turn
  <2> QED BY <2>1, <2>2
<1>8. /\ GroupInv(domains, events, 0) /\ DgaInv(seen, found, events, 0)
      /\ ClientInv(clients, events, 0) /\ findings = {}
  BY <1>1, <1>7 DEF DInv
<1>9. /\ GroupInv(domains, events', 0) /\ DgaInv(seen, found, events', 0)
      /\ ClientInv(clients, events', 0)
  BY <1>8, NothingYet
<1> QED BY <1>1, <1>6, <1>7, <1>8, <1>9 DEF DInv

LEMMA EndedD ==
    ASSUME DInv, Ended
    PROVE  DInv'
<1>1. /\ Shape /\ events' = events /\ next' = 1 /\ pass' = After[pass]
      /\ pass \in DOMAIN After
      /\ domains' = domains /\ seen' = seen /\ found' = found
      /\ clients' = clients /\ findings' = findings
  BY DEF DInv, Ended
<1>2. pass' \in DOMAIN Turn /\ pass' # "capture" /\ pass' # "done" /\ pass # "done"
  BY <1>1 DEF After, Turn
<1>3. Shape'
  <2>1. Len(events) \in Nat
    BY <1>1, EventFacts
  <2> QED BY <1>1, <1>2, <2>1 DEF Shape
<1>4. /\ Gone("group")' = Gone("group") /\ Gone("dga")' = Gone("dga")
      /\ Gone("clients")' = Gone("clients")
  BY <1>1, EndedGone
<1> QED BY <1>1, <1>2, <1>3, <1>4 DEF DInv

\* A pass that has gone one event on, or to the end, leaves the others alone.
LEMMA PassOn ==
    ASSUME Shape, NEW q \in {"group", "dga", "clients"}, At(q),
           events' = events, pass' = pass, next' \in {next + 1, Len(events) + 1}
    PROVE  /\ Shape'
           /\ Gone(q) = next - 1 /\ Gone(q)' = next' - 1
           /\ \A r \in {"group", "dga", "clients"} : r # q => Gone(r)' = Gone(r)
<1>1. /\ Len(events) \in Nat /\ next \in Nat /\ next <= Len(events) /\ pass = q
      /\ next \in 1..(Len(events) + 1)
  BY EventFacts DEF Shape, At
<1>2. Shape'
  <2>1. next' \in 1..(Len(events') + 1) /\ next' # 1
    BY <1>1
  <2>2. pass # "capture"
    BY <1>1
  <2> QED BY <2>1, <2>2 DEF Shape
<1>3. \A r : Gone(r)' = IF Turn[pass] < Turn[r] THEN 0
                        ELSE IF pass = r THEN next' - 1 ELSE Len(events)
  BY DEF Gone
<1>4. \A r : Gone(r) = IF Turn[pass] < Turn[r] THEN 0
                       ELSE IF pass = r THEN next - 1 ELSE Len(events)
  BY DEF Gone
<1>5. ~(Turn[q] < Turn[q])
  BY DEF Turn
<1> QED BY <1>1, <1>2, <1>3, <1>4, <1>5

LEMMA PassD ==
    ASSUME DInv, Group \/ Score \/ Seen \/ Full \/ Attribute
    PROVE  DInv'
<1>1. /\ Shape /\ GroupInv(domains, events, Gone("group"))
      /\ DgaInv(seen, found, events, Gone("dga"))
      /\ ClientInv(clients, events, Gone("clients"))
      /\ findings = IF pass = "done" THEN Reported ELSE {}
  BY DEF DInv
<1>2. /\ Len(events) \in Nat /\ next \in Nat
      /\ (next + 1) - 1 = next /\ (Len(events) + 1) - 1 = Len(events)
  BY <1>1, EventFacts
<1>3. CASE Group
  <2>1. /\ At("group") /\ events' = events /\ pass' = pass /\ next' = next + 1
        /\ seen' = seen /\ found' = found /\ clients' = clients /\ findings' = findings
    BY <1>3 DEF Group
  <2>2. /\ Shape' /\ Gone("group") = next - 1 /\ Gone("group")' = next
        /\ Gone("dga")' = Gone("dga") /\ Gone("clients")' = Gone("clients")
    BY <1>1, <1>2, <2>1, PassOn
  <2>3. GroupInv(domains', events, next)
    BY <1>1, <1>3, <2>2, GroupOne
  <2>4. findings = {} /\ pass' # "done"
    BY <1>1, <2>1 DEF At
  <2> QED BY <1>1, <2>1, <2>2, <2>3, <2>4 DEF DInv
<1>4. CASE Score \/ Seen
  <2>1. /\ At("dga") /\ events' = events /\ pass' = pass /\ next' = next + 1
        /\ domains' = domains /\ clients' = clients /\ findings' = findings
    BY <1>4 DEF Score, Seen
  <2>2. /\ Shape' /\ Gone("dga") = next - 1 /\ Gone("dga")' = next
        /\ Gone("group")' = Gone("group") /\ Gone("clients")' = Gone("clients")
    BY <1>1, <1>2, <2>1, PassOn
  <2>3. DgaInv(seen', found', events, next)
    BY <1>1, <1>4, <2>2, ScoreOne, SeenOne
  <2>4. findings = {} /\ pass' # "done"
    BY <1>1, <2>1 DEF At
  <2> QED BY <1>1, <2>1, <2>2, <2>3, <2>4 DEF DInv
<1>5. CASE Full
  <2>1. /\ At("dga") /\ events' = events /\ pass' = pass /\ next' = Len(events) + 1
        /\ domains' = domains /\ clients' = clients /\ findings' = findings
    BY <1>5 DEF Full
  <2>2. /\ Shape' /\ Gone("dga") = next - 1 /\ Gone("dga")' = Len(events)
        /\ Gone("group")' = Gone("group") /\ Gone("clients")' = Gone("clients")
    BY <1>1, <1>2, <2>1, PassOn
  <2>3. DgaInv(seen', found', events, Len(events))
    BY <1>1, <1>5, <2>2, FullOne
  <2>4. findings = {} /\ pass' # "done"
    BY <1>1, <2>1 DEF At
  <2> QED BY <1>1, <2>1, <2>2, <2>3, <2>4 DEF DInv
<1>6. CASE Attribute
  <2>1. /\ At("clients") /\ events' = events /\ pass' = pass /\ next' = next + 1
        /\ domains' = domains /\ seen' = seen /\ found' = found /\ findings' = findings
    BY <1>6 DEF Attribute
  <2>2. /\ Shape' /\ Gone("clients") = next - 1 /\ Gone("clients")' = next
        /\ Gone("group")' = Gone("group") /\ Gone("dga")' = Gone("dga")
    BY <1>1, <1>2, <2>1, PassOn
  <2>3. ClientInv(clients', events, next)
    BY <1>1, <1>6, <2>2, AttributeOne
  <2>4. findings = {} /\ pass' # "done"
    BY <1>1, <2>1 DEF At
  <2> QED BY <1>1, <2>1, <2>2, <2>3, <2>4 DEF DInv
<1> QED BY <1>3, <1>4, <1>5, <1>6

LEMMA ReportD ==
    ASSUME DInv, Report
    PROVE  DInv'
<1>1. /\ Shape /\ pass = "report" /\ pass' = "done" /\ events' = events /\ next' = next
      /\ domains' = domains /\ seen' = seen /\ found' = found /\ clients' = clients
      /\ findings' = Reported
  BY DEF DInv, Report, Reported
<1>2. Shape'
  BY <1>1 DEF Shape, Turn
<1>3. Reported' = Reported
  BY <1>1 DEF Reported, ClientOf
<1>4. /\ Gone("group")' = Gone("group") /\ Gone("dga")' = Gone("dga")
      /\ Gone("clients")' = Gone("clients")
  <2>1. \A r \in {"group", "dga", "clients"} : Gone(r) = Len(events)
    BY <1>1, GoneFacts
  <2>2. \A r \in {"group", "dga", "clients"} : Gone(r)' = Len(events)
    BY <1>1 DEF Gone, Turn
  <2> QED BY <2>1, <2>2
<1> QED BY <1>1, <1>2, <1>3, <1>4 DEF DInv

LEMMA StutterD ==
    ASSUME DInv, UNCHANGED vars
    PROVE  DInv'
<1>1. /\ events' = events /\ pass' = pass /\ next' = next /\ domains' = domains
      /\ seen' = seen /\ found' = found /\ clients' = clients /\ findings' = findings
  BY DEF vars
<1>2. /\ Shape' = Shape /\ Reported' = Reported
      /\ \A q : Gone(q)' = Gone(q)
  BY <1>1 DEF Shape, Reported, ClientOf, Gone
<1> QED BY <1>1, <1>2 DEF DInv

(* What the three passes hold at any moment agrees with the events they    *)
(* have gone through (_group, find_dga, _clients).                         *)
THEOREM PassesAgree == Spec => []DInv
<1>1. DInv /\ [Next]_vars => DInv'
  <2> SUFFICES ASSUME DInv, [Next]_vars PROVE DInv'
    OBVIOUS
  <2>1. ASSUME NEW src \in Hosts, NEW dst \in Hosts, NEW name \in Names,
               NEW response \in BOOLEAN, NEW negative \in BOOLEAN,
               Lift(src, dst, name, response, negative)
        PROVE  DInv'
    BY <2>1, LiftD
  <2>2. CASE Ended
    BY <2>2, EndedD
  <2>3. CASE Group \/ Score \/ Seen \/ Full \/ Attribute
    BY <2>3, PassD
  <2>4. CASE Report
    BY <2>4, ReportD
  <2>5. CASE UNCHANGED vars
    BY <2>5, StutterD
  <2> QED BY <2>1, <2>2, <2>3, <2>4, <2>5 DEF Next
<1> QED BY <1>1, InitD, PTL DEF Spec

-----------------------------------------------------------------------------
(* Names below a domain *)

LEMMA Backwards ==
    ASSUME NEW S, NEW s \in Seq(S)
    PROVE  /\ Len(s) \in Nat /\ Reverse(s) \in Seq(S) /\ Len(Reverse(s)) = Len(s)
           /\ \A j \in 1..Len(s) : Reverse(s)[j] = s[Len(s) - j + 1]
<1>1. Len(s) \in Nat /\ \A j \in 1..Len(s) : s[j] \in S
  BY ElementOfSeq, LenProperties
<1> DEFINE n == Len(s)
           r == [j \in 1..n |-> s[(n - j) + 1]]
<1>2. Reverse(s) = r
  BY DEF Reverse
<1>3. r \in [1..n -> S]
  <2>1. \A j \in 1..n : (n - j) + 1 \in 1..n
    BY <1>1
  <2> QED BY <1>1, <2>1
<1>4. \A j \in 1..n : r[j] = s[n - j + 1]
  BY <1>1
<1> HIDE DEF n, r
<1>5. n \in Nat
  BY <1>1 DEF n
<1>6. r \in Seq(S)
  BY <1>3, <1>5, SeqDef
<1>7. Len(r) = n
  BY <1>3, <1>5, <1>6, LenProperties
<1> QED BY <1>1, <1>2, <1>4, <1>6, <1>7 DEF n

LEMMA TailOfName ==
    ASSUME NEW S, NEW s \in Seq(S), NEW m \in 0..Len(s)
    PROVE  /\ LastOf(s, m) \in Seq(S) /\ Len(LastOf(s, m)) = m /\ Len(s) \in Nat
           /\ \A j \in 1..m : LastOf(s, m)[j] = s[Len(s) - m + j]
<1>1. Len(s) \in Nat /\ \A j \in 1..Len(s) : s[j] \in S
  BY ElementOfSeq, LenProperties
<1> DEFINE a == Len(s) - m + 1
           b == Len(s)
<1>2. /\ a \in Nat \ {0} /\ b \in Nat /\ (a <= b => b - a + 1 = m) /\ (a > b => m = 0)
      /\ a \in 1..(b + 1)
  BY <1>1
<1>3. LastOf(s, m) = SubSeq(s, a, b)
  BY DEF LastOf
<1>4. \A j \in 1..m : a + j - 1 = Len(s) - m + j
  BY <1>1
<1>5. \A j \in a..b : s[j] \in S
  BY <1>1
<1> HIDE DEF a, b
<1>6. /\ SubSeq(s, a, b) \in Seq(S)
      /\ Len(SubSeq(s, a, b)) = IF a <= b THEN b - a + 1 ELSE 0
      /\ \A j \in 1..Len(SubSeq(s, a, b)) : SubSeq(s, a, b)[j] = s[a + j - 1]
  BY <1>2, <1>5, SubSeqProperties
<1>7. m \in Nat /\ (a <= b \/ a > b)
  BY <1>1, <1>2
<1>8. Len(SubSeq(s, a, b)) = m
  <2>1. CASE a <= b
    BY <1>2, <1>6, <2>1
  <2>2. CASE a > b
    <3>1. m = 0 /\ ~(a <= b)
      BY <1>2, <2>2
    <3> QED BY <1>6, <3>1
  <2> QED BY <1>7, <2>1, <2>2
<1>9. \A j \in 1..m : SubSeq(s, a, b)[j] = s[Len(s) - m + j]
  BY <1>4, <1>6, <1>8
<1> QED BY <1>1, <1>3, <1>6, <1>8, <1>9

LEMMA SuffixOfName ==
    ASSUME NEW S, NEW s \in Seq(S), NEW d \in Seq(S)
    PROVE  IsSuffix(d, s) <=> Len(d) <= Len(s) /\ d = LastOf(s, Len(d))
<1> DEFINE n == Len(s)
           m == Len(d)
           u == Reverse(d)
           v == Reverse(s)
<1>1. /\ n \in Nat /\ v \in Seq(S) /\ Len(v) = n /\ \A j \in 1..n : v[j] = s[n - j + 1]
      /\ m \in Nat /\ u \in Seq(S) /\ Len(u) = m /\ \A j \in 1..m : u[j] = d[m - j + 1]
  BY Backwards
<1>2. IsSuffix(d, s) <=> m <= n /\ SubSeq(u, 1, m) = SubSeq(v, 1, m)
  BY <1>1 DEF IsSuffix, IsPrefix
<1> HIDE DEF n, m, u, v
<1>3. ASSUME m <= n
      PROVE  (SubSeq(u, 1, m) = SubSeq(v, 1, m)) <=> d = LastOf(s, m)
  <2>1. /\ SubSeq(u, 1, m) \in Seq(S) /\ Len(SubSeq(u, 1, m)) = m
        /\ \A j \in 1..m : SubSeq(u, 1, m)[j] = u[j]
    <3>1. \A j \in 1..m : u[j] \in S /\ 1 + j - 1 = j
      BY <1>1, ElementOfSeq
    <3>2. m = (IF 1 <= m THEN m - 1 + 1 ELSE 0)
      BY <1>1
    <3> QED BY <1>1, <3>1, <3>2, SubSeqProperties
  <2>2. /\ SubSeq(v, 1, m) \in Seq(S) /\ Len(SubSeq(v, 1, m)) = m
        /\ \A j \in 1..m : SubSeq(v, 1, m)[j] = v[j]
    <3>1. \A j \in 1..m : v[j] \in S /\ 1 + j - 1 = j
      BY <1>1, <1>3, ElementOfSeq
    <3>2. m = (IF 1 <= m THEN m - 1 + 1 ELSE 0) /\ 1 \in 1..(n + 1) /\ m \in 0..n
      BY <1>1, <1>3
    <3> QED BY <1>1, <3>1, <3>2, SubSeqProperties
  <2>3. /\ LastOf(s, m) \in Seq(S) /\ Len(LastOf(s, m)) = m
        /\ \A j \in 1..m : LastOf(s, m)[j] = s[n - m + j]
    <3>1. m \in 0..Len(s)
      BY <1>1, <1>3 DEF n
    <3> QED BY <3>1, TailOfName DEF n
  <2>4. (SubSeq(u, 1, m) = SubSeq(v, 1, m)) <=> \A j \in 1..m : u[j] = v[j]
    BY <2>1, <2>2, SeqEqual
  <2>5. d = LastOf(s, m) <=> \A j \in 1..m : d[j] = s[n - m + j]
    BY <2>3, SeqEqual DEF m
  <2>6. (\A j \in 1..m : u[j] = v[j]) <=> \A j \in 1..m : d[j] = s[n - m + j]
    <3>1. \A j \in 1..m : /\ (m - j) + 1 \in 1..m /\ m - ((m - j) + 1) + 1 = j
                          /\ n - ((m - j) + 1) + 1 = n - m + j /\ j \in 1..n
                          /\ n - m + ((m - j) + 1) = n - j + 1
      BY <1>1, <1>3
    <3>2. ASSUME \A j \in 1..m : u[j] = v[j], NEW j \in 1..m PROVE d[j] = s[n - m + j]
      <4> DEFINE i == (m - j) + 1
      <4>1. i \in 1..m /\ i \in 1..n /\ m - i + 1 = j /\ n - i + 1 = n - m + j
        BY <1>1, <3>1
      <4> HIDE DEF i
      <4>2. u[i] = d[m - i + 1] /\ v[i] = s[n - i + 1] /\ u[i] = v[i]
        BY <1>1, <3>2, <4>1
      <4> QED BY <4>1, <4>2
    <3>3. ASSUME \A j \in 1..m : d[j] = s[n - m + j], NEW j \in 1..m PROVE u[j] = v[j]
      <4> DEFINE i == (m - j) + 1
      <4>1. i \in 1..m /\ j \in 1..n /\ i = m - j + 1 /\ n - m + i = n - j + 1
        BY <1>1, <3>1
      <4> HIDE DEF i
      <4>2. u[j] = d[i] /\ v[j] = s[n - j + 1] /\ d[i] = s[n - m + i]
        BY <1>1, <3>3, <4>1
      <4> QED BY <4>1, <4>2
    <3> QED BY <3>2, <3>3
  <2> QED BY <2>4, <2>5, <2>6
<1> QED BY <1>2, <1>3 DEF n, m

Labels == UNION {ToSet(n) : n \in Names}

LEMMA NameFacts ==
    ASSUME NEW name \in Names
    PROVE  /\ name \in Seq(Labels) /\ Len(name) \in Nat
           /\ Registrable(name) # <<>> =>
                 Registrable(name) \in Seq(Labels)
           /\ IsSuffix(name, name) /\ IsSuffix(Parent(name), name)
           /\ \A d \in Seq(Labels) : IsSuffix(d, name) /\ Len(d) = 2 => Parent(name) = d
<1>1. name \in Seq(Labels) /\ Len(name) \in Nat
  BY NamesAssumption, LenProperties DEF Labels
<1> HIDE DEF Labels
<1>2. \A m \in 0..Len(name) :
         LastOf(name, m) \in Seq(Labels) /\ Len(LastOf(name, m)) = m
  BY <1>1, TailOfName
<1>3. Registrable(name) # <<>> => Registrable(name) \in Seq(Labels)
  <2>1. CASE Registrable(name) = <<>>
    BY <2>1
  <2>2. CASE Registrable(name) # <<>>
    <3>1. PICK m \in {2, 3} : Len(name) >= m /\ Registrable(name) = LastOf(name, m)
      BY <1>1, <2>2 DEF Registrable
    <3> QED BY <1>1, <1>2, <3>1
  <2> QED BY <2>1, <2>2
<1>4. IsSuffix(name, name)
  BY <1>1, Backwards DEF IsSuffix, IsPrefix
<1>5. IsSuffix(Parent(name), name)
  <2>1. CASE Len(name) >= 2
    <3>1. 2 \in 0..Len(name) /\ Parent(name) = LastOf(name, 2)
      BY <1>1, <2>1 DEF Parent
    <3> QED BY <1>1, <1>2, <2>1, <3>1, SuffixOfName
  <2>2. CASE ~(Len(name) >= 2)
    BY <1>4, <2>2 DEF Parent
  <2> QED BY <2>1, <2>2
<1>6. ASSUME NEW d \in Seq(Labels), IsSuffix(d, name), Len(d) = 2 PROVE Parent(name) = d
  <2>1. Len(name) >= 2 /\ d = LastOf(name, 2)
    BY <1>1, <1>6, SuffixOfName
  <2> QED BY <2>1 DEF Parent
<1> QED BY <1>1, <1>3, <1>4, <1>5, <1>6

-----------------------------------------------------------------------------
(* What the passes promise when they have ended *)

LEMMA PassEnded ==
    ASSUME Shape
    PROVE  /\ pass = "dga" => Gone("group") = Len(events)
           /\ pass = "clients" => Gone("dga") = Len(events)
           /\ pass = "done" => Gone("dga") = Len(events) /\ Gone("clients") = Len(events)
BY GoneFacts DEF Shape, Gone, Turn

LEMMA GroupsFromInv ==
    ASSUME DInv
    PROVE  GroupsAddUp
<1> SUFFICES ASSUME pass = "dga", NEW p \in DOMAIN domains
             PROVE  LET d == domains[p]
                        queries == {i \in Grouped(p) : ~events[i].is_response}
                    IN  /\ d.queries = Cardinality(queries)
                        /\ d.responses = Cardinality(Grouped(p) \ queries)
                        /\ d.nxdomain = Cardinality({i \in Grouped(p) : events[i].nxdomain})
                        /\ ToSet(d.records) \subseteq queries
                        /\ Len(d.records) = Min({d.queries, MaxRecords})
                        /\ \A i \in ToSet(d.records), j \in queries \ ToSet(d.records) : i < j
  BY DEF GroupsAddUp
<1>1. Tallied(domains[p], p, events, Len(events))
  BY PassEnded DEF DInv, GroupInv
<1>2. Grouped(p) = Parents(p, events, Len(events))
  BY DEF Grouped, Parents
<1> QED BY <1>1, <1>2 DEF Tallied, FirstOf, Queries, Negative

LEMMA HitsFromInv ==
    ASSUME DInv
    PROVE  HitsOnce
<1> SUFFICES ASSUME pass = "clients"
             PROVE  /\ \A i, j \in 1..Len(found) : found[i] = found[j] => i = j
                    /\ Cardinality(seen) < MaxNames =>
                          ToSet(found) = {Registrable(events[i].name) : i \in 1..Len(events)}
                                            \cap Generated
  BY DEF HitsOnce
<1>1. DgaInv(seen, found, events, Len(events))
  BY PassEnded DEF DInv
<1>2. Domains(events, Len(events)) \cap Generated
        = {Registrable(events[i].name) : i \in 1..Len(events)} \cap Generated
  BY GeneratedAssumption DEF Domains
<1> QED BY <1>1, <1>2 DEF DgaInv

LEMMA HostsFromInv ==
    ASSUME DInv
    PROVE  RightHost
<1>1. CASE pass # "done"
  BY <1>1 DEF DInv, RightHost
<1>2. CASE pass = "done"
  <2> DEFINE n == Len(events)
             D == ToSet(found)
             F(d) == [src |-> ClientOf(d), domains |-> {x \in D : ClientOf(x) = ClientOf(d)}]
  <2>1. /\ findings = {F(d) : d \in D}
        /\ DgaInv(seen, found, events, n) /\ ClientInv(clients, events, n) /\ Shape
    BY <1>2, PassEnded DEF DInv, Reported
  <2>2. \A d \in D : d \in Seq(Labels)
    <3>1. D \subseteq Domains(events, n)
      BY <2>1 DEF DgaInv
    <3>2. \A i \in 1..n : Registrable(events[i].name) # <<>> =>
             Registrable(events[i].name) \in Seq(Labels)
      BY <2>1, EventFacts, NameFacts
    <3> QED BY <3>1, <3>2 DEF Domains
  <2>3. ASSUME NEW d \in D, ClientOf(d) # NoHost
        PROVE  \E i \in 1..n : events[i].client = ClientOf(d) /\ AsksFor(i, d)
    <3>1. d \in DOMAIN clients /\ ClientOf(d) = clients[d]
      BY <2>3 DEF ClientOf
    <3>2. PICK i \in 1..n : d \in Asked(events[i]) /\ clients[d] = events[i].client
      BY <2>1, <3>1 DEF ClientInv
    <3>3. ~events[i].is_response /\ d \in {events[i].name, Parent(events[i].name)}
      BY <3>2 DEF Asked
    <3>4. IsSuffix(d, events[i].name)
      BY <2>1, <3>3, EventFacts, NameFacts
    <3> QED BY <3>1, <3>2, <3>3, <3>4 DEF AsksFor
  <2>4. ASSUME NEW d \in D, ClientOf(d) = NoHost, NEW i \in 1..n, AsksFor(i, d)
        PROVE  Len(d) # 2 /\ events[i].name # d
    <3>1. d \notin DOMAIN clients
      <4>1. \A j \in 1..n : events[j].client # NoHost
        BY <2>1, EventFacts, HostsAssumption
      <4> QED BY <2>1, <2>4, <4>1 DEF ClientInv, ClientOf
    <3>2. ~events[i].is_response /\ IsSuffix(d, events[i].name) /\ events[i].name \in Names
      BY <2>1, <2>4, EventFacts DEF AsksFor
    <3>3. events[i].name # d /\ Parent(events[i].name) # d
      BY <2>1, <3>1, <3>2 DEF ClientInv, Asked
    <3> QED BY <2>2, <3>2, <3>3, NameFacts
  <2> HIDE DEF D, n
  <2>5. ASSUME NEW f \in findings, NEW g \in findings, f.src = g.src
        PROVE  f = g
    <3>1. PICK d \in D : f = F(d)
      BY <2>1
    <3>2. PICK e \in D : g = F(e)
      BY <2>1
    <3>3. ClientOf(d) = ClientOf(e)
      BY <2>5, <3>1, <3>2
    <3> QED BY <3>1, <3>2, <3>3
  <2>6. \A f \in findings : \A d \in f.domains :
           IF f.src # NoHost
           THEN \E i \in 1..n : events[i].client = f.src /\ AsksFor(i, d)
           ELSE \A i \in 1..n : AsksFor(i, d) => Len(d) # 2 /\ events[i].name # d
    <3>1. \A f \in findings : \A d \in f.domains : d \in D /\ f.src = ClientOf(d)
      BY <2>1
    <3> QED BY <2>3, <2>4, <3>1
  <2>7. ASSUME NEW d \in D
        PROVE  Cardinality({f \in findings : d \in f.domains}) = 1
    <3>1. F(d) \in findings /\ d \in F(d).domains
      BY <2>1
    <3>2. ASSUME NEW f \in findings, d \in f.domains PROVE f = F(d)
      <4>1. PICK e \in D : f = F(e)
        BY <2>1
      <4>2. ClientOf(d) = ClientOf(e)
        BY <3>2, <4>1
      <4> QED BY <4>1, <4>2
    <3> DEFINE f0 == F(d)
    <3> HIDE DEF f0
    <3>3. {f \in findings : d \in f.domains} = {f0}
      BY <3>1, <3>2 DEF f0
    <3> QED BY <3>3, FS_Singleton
  <2> QED BY <2>5, <2>6, <2>7 DEF RightHost, D, n
<1> QED BY <1>1, <1>2

(* Whatever the order of events and whichever parents the cap crowds out,  *)
(* the totals of a parent that was kept are those of all its events in the *)
(* capture, and its records are its first queries (_group).                *)
THEOREM KeptParentsComplete == Spec => []GroupsAddUp
BY PassesAgree, GroupsFromInv, PTL

(* find_dga reports each generated domain once, and misses one only when   *)
(* the cap on distinct names was reached.                                  *)
THEOREM HitsAreDistinct == Spec => []HitsOnce
BY PassesAgree, HitsFromInv, PTL

(* A DGA finding names a host that asked for each of its domains, each hit *)
(* is in one finding, and a hit that was asked for has a host, unless its  *)
(* domain is registered under a suffix of two labels (_clients and         *)
(* dga_findings).                                                          *)
THEOREM FindingsNameTheAsker == Spec => []RightHost
BY PassesAgree, HostsFromInv, PTL
=============================================================================
