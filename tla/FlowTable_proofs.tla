-------------------------- MODULE FlowTable_proofs --------------------------
(***************************************************************************)
(* Theorems about the flow table, for every set of packets and timestamps  *)
(* and every timeout, ceiling and skew.                                    *)
(*                                                                         *)
(* The first part is about the tables.  The inductive invariant is IInv:   *)
(* the table is well typed and holds no more than MaxFlows conversations,  *)
(* each table is in activity order up to the skew, and no state is idle by *)
(* the timeout and the skew.                                               *)
(*                                                                         *)
(* The second part is about the frames, of which none is lost and none is  *)
(* counted twice.  The argument counts.  Copies(no, flows) is how many of  *)
(* flows hold frame no; it adds up over concatenation, and every helper of *)
(* an operation takes a sequence of flows apart or puts one together.  So  *)
(* the number of copies of a frame, over the tables, the ready list and    *)
(* what was handed out, is the same before and after an operation, save    *)
(* for the one frame an add brings: that is Once, the invariant.           *)
(*                                                                         *)
(* The third part is the refinement: the table is the ledger, with the     *)
(* sets of frames of its flows as the conversations, and keeps what the    *)
(* ledger promises.                                                        *)
(*                                                                         *)
(* The fourth part is about the flows and what they say of their frames.   *)
(***************************************************************************)
EXTENDS FlowTable, SequenceTheorems, FiniteSetTheorems, WellFoundedInduction, TLAPS

IInv ==
    /\ TypeOK
    /\ ActivityOrder
    /\ CapHolds
    /\ DeferralBound

-----------------------------------------------------------------------------
(* Library facts in the form they are used here. *)

LEMMA MinOfNaturals ==
    ASSUME NEW S \in SUBSET Nat, S # {}
    PROVE  Min(S) \in S /\ \A y \in S : Min(S) <= y
<1>1. \E x \in S : \A y \in S : ~(<<y, x>> \in OpToRel(<, Nat))
  BY NatLessThanWellFounded, WFMin
<1>2. PICK x \in S : \A y \in S : x <= y
  <2>1. PICK x \in S : \A y \in S : ~(<<y, x>> \in OpToRel(<, Nat))
    BY <1>1
  <2>2. \A y \in S : ~(y < x)
    BY <2>1 DEF OpToRel
  <2>3. \A y \in S : x <= y
    BY <2>2
  <2> QED BY <2>3
<1> QED BY <1>2 DEF Min

LEMMA WithoutOne ==
    ASSUME NEW S, NEW t \in Seq(S), NEW i \in 1..Len(t)
    PROVE  /\ Without(t, i) \in Seq(S)
           /\ Len(Without(t, i)) = Len(t) - 1
           /\ \A j \in 1..(Len(t) - 1) :
                Without(t, i)[j] = IF j < i THEN t[j] ELSE t[j + 1]
<1> DEFINE a == SubSeq(t, 1, i - 1)
           b == SubSeq(t, i + 1, Len(t))
<1>1. /\ a \in Seq(S) /\ Len(a) = i - 1
      /\ \A j \in 1..(i - 1) : a[j] = t[j]
  BY SubSeqProperties, ElementOfSeq
<1>2. /\ b \in Seq(S) /\ Len(b) = Len(t) - i
      /\ \A j \in 1..(Len(t) - i) : b[j] = t[i + j]
  BY SubSeqProperties, ElementOfSeq
<1>3. /\ a \o b \in Seq(S)
      /\ Len(a \o b) = Len(a) + Len(b)
      /\ \A j \in 1..(Len(a) + Len(b)) :
            (a \o b)[j] = IF j <= Len(a) THEN a[j] ELSE b[j - Len(a)]
  BY <1>1, <1>2, ConcatProperties
<1> HIDE DEF a, b
<1>4. \A j \in 1..(Len(t) - 1) :
         (a \o b)[j] = IF j < i THEN t[j] ELSE t[j + 1]
  BY <1>1, <1>2, <1>3
<1>5. Len(a \o b) = Len(t) - 1
  BY <1>1, <1>2, <1>3
<1>6. Without(t, i) = a \o b
  BY DEF Without, a, b
<1> QED BY <1>3, <1>4, <1>5, <1>6

-----------------------------------------------------------------------------
(* One conversation: the operators on a state keep its type, and a state's *)
(* end is the latest timestamp counted.                                    *)

LEMMA PacketFacts ==
    ASSUME NEW p \in Packets
    PROVE  /\ p \in Packet
           /\ Class(p) \in Classes
           /\ Source(p) \in Endpoint /\ Target(p) \in Endpoint
           /\ Initiator(p) \in Endpoint /\ Responder(p) \in Endpoint
           /\ Canon(p) \in {"tcp", "udp", "icmp"} \X SUBSET Endpoint
<1>1. p \in Packet
  BY PacketsAssumption
<1>2. Source(p) \in Endpoint /\ Target(p) \in Endpoint
  BY <1>1 DEF Packet, Source, Target, Endpoint
<1> QED BY <1>1, <1>2 DEF Packet, Class, Classes, Initiator, Responder, Canon

LEMMA TimeoutFacts ==
    ASSUME NEW c \in Classes
    PROVE  Timeout(c) \in Nat /\ Timeout(c) > 0
BY TimeoutsAssumption DEF Timeout, Classes

LEMMA OpenFlowFacts ==
    ASSUME NEW p \in Packets, NEW ts \in Nat
    PROVE  OpenFlow(p, ts) \in State /\ OpenFlow(p, ts).flow.end = ts
<1> DEFINE f   == OpenFlow(p, ts).flow
           syn == IsSyn(p)
<1>1. f \in Flow /\ f.end = ts
  BY PacketFacts DEF OpenFlow, NewState, Flow, Packet
<1>2. syn \in BOOLEAN
  BY DEF IsSyn
<1>3. OpenFlow(p, ts) = [canon |-> Canon(p), flow |-> f, oriented |-> syn,
                         fin_out |-> FALSE, fin_in |-> FALSE, closing |-> FALSE]
  BY DEF OpenFlow, NewState
<1> HIDE DEF f, syn
<1>4. OpenFlow(p, ts) \in State
  BY <1>1, <1>2, <1>3, PacketFacts DEF State
<1>5. OpenFlow(p, ts).flow = f
  BY DEF f
<1> QED BY <1>1, <1>4, <1>5

LEMMA SwapFacts ==
    ASSUME NEW s \in State
    PROVE  Swap(s) \in State /\ Swap(s).flow.end = s.flow.end
<1> DEFINE f == s.flow
           answered == f.packets_out > 0
           g == [f EXCEPT !.src = f.dst, !.dst = f.src,
                          !.packets_out = f.packets_in,
                          !.packets_in  = f.packets_out,
                          !.payload_out = f.payload_in,
                          !.payload_in  = f.payload_out,
                          !.responded   = answered]
<1>1. f \in Flow /\ answered \in BOOLEAN
  BY DEF State
<1>2. g \in Flow /\ g.end = f.end
  <2> HIDE DEF answered
  <2> QED BY <1>1 DEF Flow
<1>3. Swap(s) = [s EXCEPT !.flow = g, !.fin_out = s.fin_in, !.fin_in = s.fin_out]
  BY DEF Swap, answered
<1> HIDE DEF g
<1> QED BY <1>2, <1>3 DEF State

LEMMA ReorientFacts ==
    ASSUME NEW s \in State, NEW p \in Packets
    PROVE  Reorient(s, p) \in State /\ Reorient(s, p).flow.end = s.flow.end
<1> DEFINE named == [s EXCEPT !.oriented = TRUE]
<1>1. named \in State /\ named.flow.end = s.flow.end
  BY DEF State
<1>2. Swap(named) \in State /\ Swap(named).flow.end = s.flow.end
  BY <1>1, SwapFacts
<1> QED BY <1>1, <1>2 DEF Reorient

LEMMA CountedFacts ==
    ASSUME NEW s \in State, NEW p \in Packets, NEW ts \in Nat, NEW no \in Nat
    PROVE  /\ Counted(s, p, ts, no) \in State
           /\ Counted(s, p, ts, no).flow.end = Later(s.flow.end, ts)
<1>1. p \in Packet
  BY PacketFacts
<1> DEFINE f    == s.flow
           seen == [f EXCEPT !.start = IF ts < f.start THEN ts ELSE f.start,
                             !.end   = Later(f.end, ts),
                             !.flags_seen = @ \cup p.flags,
                             !.frames = @ \cup {no}]
           out  == [seen EXCEPT !.packets_out = @ + 1,
                                !.payload_out = @ + p.payload]
           in   == [seen EXCEPT !.packets_in = @ + 1,
                                !.payload_in = @ + p.payload,
                                !.responded = TRUE]
<1>2. f \in Flow
  BY DEF State
<1>3. Later(f.end, ts) \in Nat /\ p.flags \in SUBSET Flags /\ p.payload \in Nat
  BY <1>1, <1>2 DEF Later, Flow, Packet
<1>4. seen \in Flow /\ seen.end = Later(f.end, ts)
  BY <1>2, <1>3 DEF Flow
<1>5. /\ Counted(s, p, ts, no) = [s EXCEPT !.flow = out]
      \/ Counted(s, p, ts, no) = [s EXCEPT !.flow = in]
  BY DEF Counted
<1> HIDE DEF seen
<1>6. /\ seen.packets_out + 1 \in Nat /\ seen.payload_out + p.payload \in Nat
      /\ seen.packets_in + 1 \in Nat /\ seen.payload_in + p.payload \in Nat
  BY <1>3, <1>4 DEF Flow
<1>7. out \in Flow /\ out.end = Later(f.end, ts)
  BY <1>4, <1>6 DEF Flow
<1>8. in \in Flow /\ in.end = Later(f.end, ts)
  BY <1>4, <1>6 DEF Flow
<1> HIDE DEF out, in
<1> QED BY <1>5, <1>7, <1>8 DEF State

LEMMA MarkedFacts ==
    ASSUME NEW s \in State, NEW p \in Packets
    PROVE  Marked(s, p) \in State /\ Marked(s, p).flow = s.flow
BY DEF Marked, Outbound, State

-----------------------------------------------------------------------------
(* The tables *)

LEMMA StateAt ==
    ASSUME NEW t \in Seq(State), NEW i \in 1..Len(t)
    PROVE  t[i] \in State /\ t[i].flow \in Flow /\ t[i].flow.end \in Nat
<1>1. t[i] \in State
  BY ElementOfSeq
<1>2. t[i].flow \in Flow
  BY <1>1 DEF State
<1> QED BY <1>1, <1>2 DEF Flow

LEMMA FlowsType ==
    ASSUME NEW t \in Seq(State)
    PROVE  Flows(t) \in Seq(Flow)
BY StateAt DEF Flows

LEMMA FreshFacts ==
    ASSUME NEW t \in Seq(State), NEW c \in Classes, NEW now \in Int
    PROVE  /\ Fresh(t, c, now) \in 1..(Len(t) + 1)
           /\ \A i \in 1..(Fresh(t, c, now) - 1) : Idle(t[i], c, now)
           /\ Fresh(t, c, now) <= Len(t) => ~Idle(t[Fresh(t, c, now)], c, now)
<1> DEFINE S == {i \in 1..Len(t) : ~Idle(t[i], c, now)} \cup {Len(t) + 1}
<1>1. S \in SUBSET Nat /\ S # {} /\ S \subseteq 1..(Len(t) + 1)
  OBVIOUS
<1>2. Min(S) \in S /\ \A y \in S : Min(S) <= y
  BY <1>1, MinOfNaturals
<1>3. Fresh(t, c, now) = Min(S)
  BY DEF Fresh
<1>4. Fresh(t, c, now) \in 1..(Len(t) + 1)
  BY <1>1, <1>2, <1>3
<1>5. ASSUME NEW i \in 1..(Fresh(t, c, now) - 1), ~Idle(t[i], c, now)
      PROVE  FALSE
  BY <1>2, <1>3, <1>4, <1>5
<1>6. Fresh(t, c, now) <= Len(t) => ~Idle(t[Fresh(t, c, now)], c, now)
  BY <1>2, <1>3
<1> QED BY <1>4, <1>5, <1>6

\* A run of a table that is in activity order is in activity order.
LEMMA OrderedRun ==
    ASSUME NEW t \in Seq(State), NEW now \in Int, Ordered(t, now),
           NEW k \in 1..(Len(t) + 1)
    PROVE  LET u == SubSeq(t, k, Len(t)) IN
           /\ u \in Seq(State) /\ Len(u) = Len(t) + 1 - k
           /\ \A i \in 1..Len(u) : u[i] = t[k + i - 1]
           /\ Ordered(u, now)
<1> DEFINE u == SubSeq(t, k, Len(t))
<1>1. u \in Seq(State) /\ Len(u) = Len(t) + 1 - k
      /\ \A i \in 1..Len(u) : u[i] = t[k + i - 1]
  BY SubSeqProperties, ElementOfSeq
<1> HIDE DEF u
<1>2. Ordered(u, now)
  <2>1. ASSUME NEW i \in 1..Len(u) PROVE k + i - 1 \in 1..Len(t)
    BY <1>1
  <2>2. \A i \in 1..Len(u) : u[i].flow.end <= now
    BY <1>1, <2>1 DEF Ordered
  <2>3. ASSUME NEW i \in 1..Len(u), NEW j \in 1..Len(u), i < j
        PROVE  u[j].flow.end >= u[i].flow.end - Skew
    <3>1. k + i - 1 \in 1..Len(t) /\ k + j - 1 \in 1..Len(t)
      BY <2>1
    <3>2. k + i - 1 < k + j - 1
      BY <2>3
    <3>3. t[k + j - 1].flow.end >= t[k + i - 1].flow.end - Skew
      BY <3>1, <3>2 DEF Ordered
    <3> QED BY <1>1, <3>3
  <2> QED BY <2>2, <2>3 DEF Ordered
<1> QED BY <1>1, <1>2 DEF u

LEMMA OrderedLater ==
    ASSUME NEW t \in Seq(State), NEW a \in Int, NEW b \in Int, a <= b, Ordered(t, a)
    PROVE  Ordered(t, b)
<1>1. ASSUME NEW i \in 1..Len(t) PROVE t[i].flow.end <= b
  <2>1. t[i].flow.end \in Nat
    BY StateAt
  <2> QED BY <2>1 DEF Ordered
<1> QED BY <1>1 DEF Ordered

LEMMA OrderedWithout ==
    ASSUME NEW t \in Seq(State), NEW now \in Int, Ordered(t, now),
           NEW i \in 1..Len(t)
    PROVE  Ordered(Without(t, i), now)
<1> DEFINE w == Without(t, i)
           at(j) == IF j < i THEN j ELSE j + 1
<1>1. /\ Len(w) = Len(t) - 1
      /\ \A j \in 1..Len(w) : w[j] = IF j < i THEN t[j] ELSE t[j + 1]
  BY WithoutOne
<1> HIDE DEF w
<1>2. \A j \in 1..Len(w) : at(j) \in 1..Len(t) /\ w[j] = t[at(j)]
  BY <1>1
<1>3. \A j, k \in 1..Len(w) : j < k => at(j) < at(k)
  BY <1>1
<1> HIDE DEF at
<1>4. \A j \in 1..Len(w) : w[j].flow.end <= now
  BY <1>2 DEF Ordered
<1>5. ASSUME NEW j \in 1..Len(w), NEW k \in 1..Len(w), j < k
      PROVE  w[k].flow.end >= w[j].flow.end - Skew
  <2>1. at(j) \in 1..Len(t) /\ at(k) \in 1..Len(t) /\ at(j) < at(k)
    BY <1>2, <1>3, <1>5
  <2>2. t[at(k)].flow.end >= t[at(j)].flow.end - Skew
    BY <2>1 DEF Ordered
  <2> QED BY <1>2, <2>2
<1> QED BY <1>4, <1>5 DEF Ordered, w

\* A state that was active within the skew of the clock may go to the end.
LEMMA OrderedAppend ==
    ASSUME NEW t \in Seq(State), NEW now \in Int, Ordered(t, now),
           NEW s \in State, s.flow.end <= now, s.flow.end >= now - Skew
    PROVE  Append(t, s) \in Seq(State) /\ Ordered(Append(t, s), now)
<1> DEFINE u == Append(t, s)
<1>1. /\ u \in Seq(State) /\ Len(u) = Len(t) + 1
      /\ \A i \in 1..Len(t) : u[i] = t[i]
      /\ u[Len(t) + 1] = s
  BY AppendProperties
<1> HIDE DEF u
<1>2. \A i \in 1..Len(u) : u[i].flow.end <= now
  BY <1>1 DEF Ordered
<1>3. ASSUME NEW i \in 1..Len(u), NEW j \in 1..Len(u), i < j
      PROVE  u[j].flow.end >= u[i].flow.end - Skew
  <2>1. i \in 1..Len(t) /\ u[i] = t[i] /\ t[i].flow.end <= now
    BY <1>1, <1>3 DEF Ordered
  <2>2. t[i].flow.end \in Int /\ s.flow.end \in Int /\ Skew \in Int
    <3>1. t[i].flow.end \in Nat
      BY <2>1, StateAt
    <3>2. s.flow.end \in Nat
      BY DEF State, Flow
    <3> QED BY <3>1, <3>2, BoundsAssumption
  <2>3. CASE j = Len(t) + 1
    BY <1>1, <2>1, <2>2, <2>3
  <2>4. CASE j # Len(t) + 1
    <3>1. j \in 1..Len(t) /\ u[j] = t[j]
      BY <1>1, <2>4
    <3> QED BY <1>3, <2>1, <3>1 DEF Ordered
  <2> QED BY <2>3, <2>4
<1> QED BY <1>1, <1>2, <1>3 DEF Ordered, u

-----------------------------------------------------------------------------
(* The sweep and the ceiling *)

Typed(tab) == tab \in [Classes -> Seq(State)]
InOrder(tab, now) == \A c \in Classes : Ordered(tab[c], now)
Bounded(tab, now) ==
    \A c \in Classes : \A i \in 1..Len(tab[c]) :
        now - tab[c][i].flow.end < Timeout(c) + Skew

LEMMA HeldType ==
    ASSUME NEW tab, Typed(tab)
    PROVE  Held(tab) \in Nat
BY DEF Held, Typed, Classes

\* What a sweep leaves is in order, and the front it stops at bounds the rest.
LEMMA SweptFacts ==
    ASSUME NEW tab, Typed(tab), NEW now \in Int, InOrder(tab, now)
    PROVE  /\ Typed(Swept(tab, now))
           /\ InOrder(Swept(tab, now), now)
           /\ Bounded(Swept(tab, now), now)
           /\ Held(Swept(tab, now)) <= Held(tab)
<1> DEFINE swept == Swept(tab, now)
<1>1. ASSUME NEW c \in Classes
      PROVE  /\ swept[c] \in Seq(State)
             /\ Len(swept[c]) <= Len(tab[c])
             /\ Ordered(swept[c], now)
             /\ \A i \in 1..Len(swept[c]) :
                   now - swept[c][i].flow.end < Timeout(c) + Skew
  <2> DEFINE t == tab[c]
             k == Fresh(t, c, now)
             u == SubSeq(t, k, Len(t))
  <2>1. t \in Seq(State) /\ Ordered(t, now)
    BY DEF Typed, InOrder
  <2>2. k \in 1..(Len(t) + 1) /\ (k <= Len(t) => ~Idle(t[k], c, now))
    BY <2>1, FreshFacts
  <2> HIDE DEF k
  <2>3. /\ u \in Seq(State) /\ Len(u) = Len(t) + 1 - k
        /\ \A i \in 1..Len(u) : u[i] = t[k + i - 1]
        /\ Ordered(u, now)
    BY <2>1, <2>2, OrderedRun
  <2>4. swept[c] = u
    BY DEF Swept, k
  <2> HIDE DEF u, t, swept
  <2>5. ASSUME NEW i \in 1..Len(u)
        PROVE  now - u[i].flow.end < Timeout(c) + Skew
    <3>1. 1 \in 1..Len(u) /\ k <= Len(t) /\ u[1] = t[k]
      BY <2>1, <2>2, <2>3
    <3>2. now - u[1].flow.end < Timeout(c)
      <4>1. u[1].flow.end \in Nat /\ Timeout(c) \in Nat
        BY <2>3, <3>1, StateAt, TimeoutFacts
      <4> QED BY <2>2, <3>1, <4>1 DEF Idle
    <3>3. u[i].flow.end >= u[1].flow.end - Skew
      <4>1. CASE i = 1
        <5>1. u[1].flow.end \in Nat
          BY <2>3, <3>1, StateAt
        <5> QED BY <4>1, <5>1, BoundsAssumption
      <4>2. CASE i # 1
        BY <2>3, <3>1, <4>2 DEF Ordered
      <4> QED BY <4>1, <4>2
    <3>4. u[i].flow.end \in Nat /\ u[1].flow.end \in Nat
      BY <2>3, <3>1, StateAt
    <3> QED BY <3>2, <3>3, <3>4, TimeoutFacts, BoundsAssumption
  <2>6. Len(u) <= Len(t)
    BY <2>1, <2>2, <2>3
  <2> QED BY <2>3, <2>4, <2>5, <2>6 DEF t
<1>2. swept = [c \in Classes |-> swept[c]]
  BY DEF Swept
<1>3. Typed(swept)
  BY <1>1, <1>2 DEF Typed
<1>4. Held(swept) <= Held(tab)
  <2>1. /\ Len(swept["tcp"]) <= Len(tab["tcp"])
        /\ Len(swept["other"]) <= Len(tab["other"])
    BY <1>1 DEF Classes
  <2> HIDE DEF swept
  <2> QED BY <1>3, <2>1 DEF Held, Typed, Classes
<1> HIDE DEF swept
<1>5. InOrder(swept, now) /\ Bounded(swept, now)
  BY <1>1 DEF InOrder, Bounded
<1> QED BY <1>3, <1>4, <1>5 DEF swept

LEMMA ExpiredType ==
    ASSUME NEW tab, Typed(tab), NEW now \in Int
    PROVE  Expired(tab, now) \in Seq(Flow)
<1> DEFINE gone(c) == SubSeq(tab[c], 1, Fresh(tab[c], c, now) - 1)
<1>1. ASSUME NEW c \in Classes PROVE Flows(gone(c)) \in Seq(Flow)
  <2>1. tab[c] \in Seq(State)
    BY DEF Typed
  <2>2. Fresh(tab[c], c, now) \in 1..(Len(tab[c]) + 1)
    BY <2>1, FreshFacts
  <2>3. gone(c) \in Seq(State)
    BY <2>1, <2>2, SubSeqProperties, ElementOfSeq
  <2> QED BY <2>3, FlowsType
<1>2. Expired(tab, now) = Flows(gone("tcp")) \o Flows(gone("other"))
  BY DEF Expired
<1> HIDE DEF gone
<1> QED BY <1>1, <1>2, ConcatProperties DEF Classes

\* Dropping one front is enough after an add, and disturbs nothing else.
LEMMA CappedFacts ==
    ASSUME NEW tab, Typed(tab), NEW now \in Int, InOrder(tab, now),
           Bounded(tab, now), Held(tab) <= MaxFlows + 1
    PROVE  /\ Typed(Capped(tab))
           /\ InOrder(Capped(tab), now)
           /\ Bounded(Capped(tab), now)
           /\ Held(Capped(tab)) <= MaxFlows
           /\ Evicted(tab) \in Seq(Flow)
<1>1. /\ "tcp" \in Classes /\ "other" \in Classes
      /\ tab["tcp"] \in Seq(State) /\ tab["other"] \in Seq(State)
      /\ Len(tab["tcp"]) \in Nat /\ Len(tab["other"]) \in Nat
  BY DEF Typed, Classes
<1>2. CASE ~Over(tab)
  <2>1. Capped(tab) = tab /\ Evicted(tab) = <<>>
    BY <1>2 DEF Capped, Evicted
  <2>2. Held(tab) <= MaxFlows
    BY <1>2, HeldType, MaxFlowsAssumption DEF Over
  <2> QED BY <2>1, <2>2, EmptySeq
<1>3. CASE Over(tab)
  <2> DEFINE v == Victim(tab)
             t == tab[v]
             u == Tail(t)
             capped == [tab EXCEPT ![v] = u]
  <2>1. v \in Classes /\ t # <<>>
    <3>1. tab["tcp"] # <<>> \/ tab["other"] # <<>>
      <4>1. ASSUME tab["tcp"] = <<>>, tab["other"] = <<>> PROVE Held(tab) = 0
        BY <4>1 DEF Held
      <4> QED BY <1>3, <4>1, MaxFlowsAssumption DEF Over
    <3> QED BY <1>1, <3>1 DEF Victim
  <2>2. Capped(tab) = capped /\ Evicted(tab) = <<t[1].flow>>
    BY <1>3 DEF Capped, Evicted
  <2> HIDE DEF v
  <2>3. t \in Seq(State) /\ Len(t) >= 1
    BY <2>1, EmptySeq DEF Typed
  <2>4. Evicted(tab) \in Seq(Flow)
    <3>1. t[1].flow \in Flow
      BY <2>3, StateAt
    <3> QED BY <2>2, <3>1
  <2>5. u = SubSeq(t, 2, Len(t))
    BY <2>1, <2>3, TailIsSubSeq
  <2>6. /\ u \in Seq(State) /\ Len(u) = Len(t) - 1
        /\ \A i \in 1..Len(u) : u[i] = t[i + 1]
        /\ Ordered(u, now)
    <3>1. Ordered(t, now) /\ 2 \in 1..(Len(t) + 1)
      BY <2>1, <2>3 DEF InOrder
    <3> HIDE DEF t
    <3>2. LET w == SubSeq(t, 2, Len(t)) IN
          /\ w \in Seq(State) /\ Len(w) = Len(t) + 1 - 2
          /\ \A i \in 1..Len(w) : w[i] = t[2 + i - 1]
          /\ Ordered(w, now)
      BY <2>3, <3>1, OrderedRun
    <3>3. \A i \in 1..Len(u) : 2 + i - 1 = i + 1
      BY <2>5, <3>2
    <3>4. \A i \in 1..Len(u) : u[i] = t[i + 1]
      BY <2>5, <3>2, <3>3
    <3>5. Len(t) + 1 - 2 = Len(t) - 1
      BY <2>3
    <3> QED BY <2>5, <3>2, <3>4, <3>5
  <2>7. \A i \in 1..Len(u) : now - u[i].flow.end < Timeout(v) + Skew
    BY <2>1, <2>6 DEF Bounded
  <2> HIDE DEF u
  <2>8. /\ Typed(capped)
        /\ \A c \in Classes : capped[c] = IF c = v THEN u ELSE tab[c]
    BY <2>1, <2>6 DEF Typed
  <2> HIDE DEF capped
  <2>9. InOrder(capped, now) /\ Bounded(capped, now)
    BY <2>6, <2>7, <2>8 DEF InOrder, Bounded
  <2>10. Held(capped) = Held(tab) - 1
    <3>1. CASE v = "tcp"
      <4>1. Len(capped["tcp"]) = Len(tab["tcp"]) - 1 /\ capped["other"] = tab["other"]
        BY <1>1, <2>6, <2>8, <3>1
      <4> QED BY <2>8, <4>1 DEF Held, Typed, Classes
    <3>2. CASE v = "other"
      <4>1. Len(capped["other"]) = Len(tab["other"]) - 1 /\ capped["tcp"] = tab["tcp"]
        BY <1>1, <2>6, <2>8, <3>2
      <4> QED BY <2>8, <4>1 DEF Held, Typed, Classes
    <3> QED BY <2>1, <3>1, <3>2 DEF Classes
  <2>11. Held(capped) <= MaxFlows
    BY <2>10, HeldType, MaxFlowsAssumption
  <2> QED BY <2>2, <2>4, <2>8, <2>9, <2>11
<1> QED BY <1>2, <1>3

-----------------------------------------------------------------------------
(* The operations.  SettleFacts is the heart: whichever state a frame goes *)
(* to, what is left of its table stays in order, the frame's state joins   *)
(* its end, and the sweep and the ceiling restore the bounds.              *)

LEMMA SettleFacts ==
    ASSUME TypeOK, NEW p \in Packets, NEW ts \in Times,
           NEW now \in Nat, ts <= now, ts >= now - Skew,
           InOrder(table, now), NEW s \in State, s.flow.end <= now,
           NEW rest \in Seq(State), Ordered(rest, now),
           Len(rest) <= Len(table[Class(p)]),
           Held(table) - Len(table[Class(p)]) + Len(rest) <= MaxFlows,
           NEW finished \in Seq(Flow), Settle(p, ts, now, rest, s, finished)
    PROVE  /\ Typed(table') /\ ready' \in Seq(Flow)
           /\ InOrder(table', now) /\ Bounded(table', now)
           /\ Held(table') <= MaxFlows
<1> DEFINE c       == Class(p)
           no      == Len(log) + 1
           counted == Counted(s, p, ts, no)
           marked  == Marked(counted, p)
           over    == Finishes(counted, p)
           own     == IF over THEN rest ELSE Append(rest, marked)
           touched == [table EXCEPT ![c] = own]
           swept   == Swept(touched, now)
           torn    == IF over THEN <<counted.flow>> ELSE <<>>
<1>1. /\ table' = Capped(swept)
      /\ ready' = ready \o finished \o torn \o Expired(touched, now) \o Evicted(swept)
  BY DEF Settle
<1>2. c \in Classes /\ Typed(table) /\ ts \in Nat /\ no \in Nat
  BY PacketFacts, TimesAssumption DEF TypeOK, Typed
<1>3. counted \in State /\ counted.flow.end = Later(s.flow.end, ts)
  BY <1>2, CountedFacts
<1>4. marked \in State /\ marked.flow = counted.flow
  BY <1>3, MarkedFacts
<1> HIDE DEF c, no, counted, marked, over
<1>5. marked.flow.end <= now /\ marked.flow.end >= now - Skew
  <2>1. s.flow.end \in Nat
    BY DEF State, Flow
  <2> QED BY <1>2, <1>3, <1>4, <2>1, BoundsAssumption DEF Later
<1>6. /\ own \in Seq(State) /\ Ordered(own, now)
      /\ Len(own) <= Len(rest) + 1
  <2>1. /\ Append(rest, marked) \in Seq(State)
        /\ Ordered(Append(rest, marked), now)
        /\ Len(Append(rest, marked)) = Len(rest) + 1
    BY <1>4, <1>5, OrderedAppend, AppendProperties
  <2> QED BY <2>1
<1>7. torn \in Seq(Flow)
  <2>1. counted.flow \in Flow
    BY <1>3 DEF State
  <2> QED BY <2>1, EmptySeq
<1> HIDE DEF own, torn
<1>8. /\ Typed(touched)
      /\ \A d \in Classes : touched[d] = IF d = c THEN own ELSE table[d]
  BY <1>2, <1>6 DEF Typed
<1> HIDE DEF touched
<1>9. InOrder(touched, now)
  BY <1>6, <1>8 DEF InOrder
<1>10. Held(touched) <= MaxFlows + 1
  <2>1. Held(touched) = Held(table) - Len(table[c]) + Len(own)
    <3>1. CASE c = "tcp"
      <4>1. touched["tcp"] = own /\ touched["other"] = table["other"]
        BY <1>8, <3>1 DEF Classes
      <4> QED BY <1>2, <1>6, <1>8, <3>1, <4>1 DEF Held, Typed, Classes
    <3>2. CASE c = "other"
      <4>1. touched["other"] = own /\ touched["tcp"] = table["tcp"]
        BY <1>8, <3>2 DEF Classes
      <4> QED BY <1>2, <1>6, <1>8, <3>2, <4>1 DEF Held, Typed, Classes
    <3> QED BY <1>2, <3>1, <3>2 DEF Classes
  <2>2. /\ Held(table) \in Nat /\ Len(table[c]) \in Nat
        /\ Len(rest) \in Nat /\ Len(own) \in Nat
    BY <1>2, <1>6, HeldType DEF Typed
  <2>3. Held(table) - Len(table[c]) + Len(rest) <= MaxFlows
    BY DEF c
  <2> QED BY <1>6, <2>1, <2>2, <2>3, MaxFlowsAssumption
<1>11. /\ Typed(swept) /\ InOrder(swept, now) /\ Bounded(swept, now)
       /\ Held(swept) <= Held(touched)
  BY <1>8, <1>9, SweptFacts
<1>12. Expired(touched, now) \in Seq(Flow)
  BY <1>8, ExpiredType
<1> HIDE DEF swept
<1>13. Held(swept) <= MaxFlows + 1
  BY <1>8, <1>10, <1>11, HeldType, MaxFlowsAssumption
<1>14. /\ Typed(Capped(swept)) /\ InOrder(Capped(swept), now)
       /\ Bounded(Capped(swept), now) /\ Held(Capped(swept)) <= MaxFlows
       /\ Evicted(swept) \in Seq(Flow)
  BY <1>11, <1>13, CappedFacts
<1>15. ready' \in Seq(Flow)
  <2>1. ready \in Seq(Flow)
    BY DEF TypeOK
  <2> QED BY <1>1, <1>7, <1>12, <1>14, <2>1, ConcatProperties
<1> QED BY <1>1, <1>14, <1>15

LEMMA InitInv == Init => IInv
<1> SUFFICES ASSUME Init PROVE IInv
  OBVIOUS
<1>1. TypeOK
  BY EmptySeq DEF Init, TypeOK
<1>2. ActivityOrder /\ DeferralBound
  BY DEF Init, ActivityOrder, DeferralBound, Ordered
<1>3. CapHolds
  BY MaxFlowsAssumption DEF Init, CapHolds, Held, Classes
<1> QED BY <1>1, <1>2, <1>3 DEF IInv

\* What an add does besides settling its frame.
LEMMA ArriveFacts ==
    ASSUME IInv, NEW p \in Packets, NEW ts \in Times, Arrive(p, ts)
    PROVE  LET now == Later(clock, ts) IN
           /\ now \in Nat /\ ts \in Nat /\ ts <= now /\ ts >= now - Skew
           /\ clock' = now /\ InOrder(table, now)
           /\ log' \in Seq([ts : Times, packet : Packets])
           /\ handed' \in SUBSET Nat
<1> DEFINE now == Later(clock, ts)
<1>1. /\ clock \in Nat \cup {NoTime} /\ ts \in Nat /\ Skew \in Nat
      /\ ts >= clock - Skew /\ clock' = now
  BY TimesAssumption, BoundsAssumption DEF IInv, TypeOK, Arrive
<1>2. now \in Nat /\ ts <= now /\ ts >= now - Skew /\ clock <= now /\ clock \in Int
  BY <1>1 DEF Later, NoTime
<1>3. InOrder(table, now)
  <2>1. ASSUME NEW c \in Classes PROVE Ordered(table[c], now)
    <3>1. table[c] \in Seq(State) /\ Ordered(table[c], clock)
      BY DEF IInv, TypeOK, ActivityOrder
    <3> QED BY <1>2, <3>1, OrderedLater
  <2> QED BY <2>1 DEF InOrder
<1>4. log' \in Seq([ts : Times, packet : Packets])
  <2>1. [ts |-> ts, packet |-> p] \in [ts : Times, packet : Packets]
    OBVIOUS
  <2> QED BY <2>1, AppendProperties DEF IInv, TypeOK, Arrive
<1>5. handed' \in SUBSET Nat
  BY DEF IInv, TypeOK, Arrive
<1> QED BY <1>1, <1>2, <1>3, <1>4, <1>5

LEMMA SettledInv ==
    ASSUME IInv, NEW p \in Packets, NEW ts \in Times, Arrive(p, ts),
           NEW s \in State, s.flow.end <= Later(clock, ts),
           NEW rest \in Seq(State), Ordered(rest, Later(clock, ts)),
           Len(rest) <= Len(table[Class(p)]),
           NEW finished \in Seq(Flow),
           Settle(p, ts, Later(clock, ts), rest, s, finished)
    PROVE  IInv'
<1> DEFINE now == Later(clock, ts)
<1>1. /\ now \in Nat /\ ts \in Nat /\ ts <= now /\ ts >= now - Skew
      /\ clock' = now /\ InOrder(table, now)
      /\ log' \in Seq([ts : Times, packet : Packets])
      /\ handed' \in SUBSET Nat
  BY ArriveFacts
<1> HIDE DEF now
<1>2. Held(table) - Len(table[Class(p)]) + Len(rest) <= MaxFlows
  <2>1. Typed(table) /\ Class(p) \in Classes
    BY PacketFacts DEF IInv, TypeOK, Typed
  <2>2. Held(table) \in Nat /\ Len(table[Class(p)]) \in Nat /\ Len(rest) \in Nat
    BY <2>1, HeldType DEF Typed
  <2> QED BY <2>2, MaxFlowsAssumption DEF IInv, CapHolds
<1>3. TypeOK
  BY DEF IInv
<1>4. /\ Typed(table') /\ ready' \in Seq(Flow)
      /\ InOrder(table', now) /\ Bounded(table', now)
      /\ Held(table') <= MaxFlows
  BY <1>1, <1>2, <1>3, SettleFacts DEF now
<1> QED BY <1>1, <1>4 DEF IInv, TypeOK, ActivityOrder, DeferralBound, CapHolds,
                          Typed, InOrder, Bounded, Held

LEMMA AddInv ==
    ASSUME IInv, NEW p \in Packets, NEW ts \in Times, Add(p, ts)
    PROVE  IInv'
<1> DEFINE c   == Class(p)
           t   == table[c]
           now == Later(clock, ts)
<1>1. Arrive(p, ts)
  BY DEF Add, AddFirst, AddNext, AddReuse
<1>2. /\ now \in Nat /\ ts \in Nat /\ ts <= now /\ InOrder(table, now)
  BY <1>1, ArriveFacts
<1>3. c \in Classes /\ t \in Seq(State) /\ Ordered(t, now) /\ Len(t) \in Nat
  BY <1>2, PacketFacts DEF IInv, TypeOK, InOrder
<1>4. OpenFlow(p, ts) \in State /\ OpenFlow(p, ts).flow.end <= now
  BY <1>2, OpenFlowFacts
<1>5. ASSUME NEW i \in 1..Len(t)
      PROVE  /\ Without(t, i) \in Seq(State) /\ Ordered(Without(t, i), now)
             /\ Len(Without(t, i)) <= Len(t)
             /\ t[i] \in State /\ t[i].flow \in Flow /\ t[i].flow.end <= now
  <2>1. Ordered(Without(t, i), now)
    BY <1>2, <1>3, OrderedWithout
  <2>2. Without(t, i) \in Seq(State) /\ Len(Without(t, i)) = Len(t) - 1
    BY <1>3, WithoutOne
  <2>3. Len(Without(t, i)) <= Len(t)
    BY <1>3, <2>2
  <2>4. t[i] \in State /\ t[i].flow \in Flow
    BY <1>3, StateAt
  <2>5. t[i].flow.end <= now
    BY <1>3 DEF Ordered
  <2> QED BY <2>1, <2>2, <2>3, <2>4, <2>5
<1>6. CASE AddFirst(p, ts)
  <2>1. Settle(p, ts, now, t, OpenFlow(p, ts), <<>>)
    BY <1>6 DEF AddFirst
  <2>2. <<>> \in Seq(Flow) /\ Len(t) <= Len(table[Class(p)])
    BY <1>3, EmptySeq
  <2> QED BY <1>1, <1>3, <1>4, <2>1, <2>2, SettledInv
<1>7. CASE AddNext(p, ts)
  <2>1. PICK i \in 1..Len(t) :
          Settle(p, ts, now, Without(t, i), Reorient(t[i], p), <<>>)
    BY <1>7 DEF AddNext, At
  <2>2. Reorient(t[i], p) \in State /\ Reorient(t[i], p).flow.end <= now
    BY <1>5, ReorientFacts
  <2> QED BY <1>1, <1>5, <2>1, <2>2, SettledInv, EmptySeq
<1>8. CASE AddReuse(p, ts)
  <2>1. PICK i \in 1..Len(t) :
          Settle(p, ts, now, Without(t, i), OpenFlow(p, ts), <<t[i].flow>>)
    BY <1>8 DEF AddReuse, At
  <2>2. <<t[i].flow>> \in Seq(Flow)
    BY <1>5
  <2> QED BY <1>1, <1>4, <1>5, <2>1, <2>2, SettledInv
<1> QED BY <1>6, <1>7, <1>8 DEF Add

LEMMA FramesType ==
    ASSUME NEW flows \in Seq(Flow)
    PROVE  FramesOf(flows) \in SUBSET Nat
<1>1. \A i \in 1..Len(flows) : flows[i].frames \in SUBSET Nat
  <2>1. \A i \in 1..Len(flows) : flows[i] \in Flow
    BY ElementOfSeq
  <2> QED BY <2>1 DEF Flow
<1> QED BY <1>1 DEF FramesOf

LEMMA ExpireInv ==
    ASSUME IInv, NEW time \in Times, Expire(time)
    PROVE  IInv'
<1> DEFINE now == Later(clock, time)
<1>1. /\ clock \in Nat \cup {NoTime} /\ time \in Nat
  BY TimesAssumption DEF IInv, TypeOK
<1>2. now \in Nat /\ clock \in Int /\ clock <= now
  BY <1>1 DEF Later, NoTime
<1>3. /\ clock' = now /\ table' = Swept(table, now) /\ ready' = <<>>
      /\ handed' = handed \cup FramesOf(ready \o Expired(table, now))
      /\ log' = log
  BY DEF Expire
<1> HIDE DEF now
<1>4. Typed(table) /\ InOrder(table, now)
  <2>1. ASSUME NEW c \in Classes PROVE Ordered(table[c], now)
    <3>1. table[c] \in Seq(State) /\ Ordered(table[c], clock)
      BY DEF IInv, TypeOK, ActivityOrder
    <3> QED BY <1>2, <3>1, OrderedLater
  <2> QED BY <2>1 DEF IInv, TypeOK, Typed, InOrder
<1>5. /\ Typed(table') /\ InOrder(table', now) /\ Bounded(table', now)
      /\ Held(table') <= Held(table)
  BY <1>2, <1>3, <1>4, SweptFacts
<1>6. Held(table') <= MaxFlows
  BY <1>4, <1>5, HeldType, MaxFlowsAssumption DEF IInv, CapHolds
<1>7. handed' \in SUBSET Nat
  <2>1. ready \in Seq(Flow) /\ Expired(table, now) \in Seq(Flow)
    BY <1>2, <1>4, ExpiredType DEF IInv, TypeOK
  <2>2. ready \o Expired(table, now) \in Seq(Flow)
    BY <2>1, ConcatProperties
  <2> QED BY <1>3, <2>2, FramesType DEF IInv, TypeOK
<1>8. ready' \in Seq(Flow) /\ log' \in Seq([ts : Times, packet : Packets])
  BY <1>3, EmptySeq DEF IInv, TypeOK
<1> QED BY <1>2, <1>3, <1>5, <1>6, <1>7, <1>8
        DEF IInv, TypeOK, ActivityOrder, DeferralBound, CapHolds,
            Typed, InOrder, Bounded, Held

LEMMA CloseInv ==
    ASSUME IInv, Close
    PROVE  IInv'
<1>1. /\ table' = [c \in Classes |-> <<>>] /\ ready' = <<>>
      /\ handed' = handed \cup
           FramesOf(ready \o Flows(table["tcp"]) \o Flows(table["other"]))
      /\ clock' = clock /\ log' = log
  BY DEF Close
<1>2. handed' \in SUBSET Nat
  <2>1. /\ ready \in Seq(Flow) /\ Flows(table["tcp"]) \in Seq(Flow)
        /\ Flows(table["other"]) \in Seq(Flow)
    BY FlowsType DEF IInv, TypeOK, Classes
  <2>2. ready \o Flows(table["tcp"]) \o Flows(table["other"]) \in Seq(Flow)
    BY <2>1, ConcatProperties
  <2> QED BY <1>1, <2>2, FramesType DEF IInv, TypeOK
<1>3. TypeOK'
  BY <1>1, <1>2, EmptySeq DEF IInv, TypeOK
<1>4. ActivityOrder' /\ DeferralBound'
  BY <1>1 DEF ActivityOrder, DeferralBound, Ordered
<1>5. CapHolds'
  BY <1>1, MaxFlowsAssumption DEF CapHolds, Held, Classes
<1> QED BY <1>3, <1>4, <1>5 DEF IInv

LEMMA StutterInv == IInv /\ UNCHANGED vars => IInv'
BY DEF IInv, vars, TypeOK, ActivityOrder, CapHolds, DeferralBound, Ordered,
       Held, Idle

(* IInv is an invariant of the flow table.                                 *)
THEOREM Invariance == Spec => []IInv
<1>1. IInv /\ [Next]_vars => IInv'
  <2> SUFFICES ASSUME IInv, [Next]_vars PROVE IInv'
    OBVIOUS
  <2>1. ASSUME NEW p \in Packets, NEW ts \in Times, Add(p, ts) PROVE IInv'
    BY <2>1, AddInv
  <2>2. ASSUME NEW now \in Times, Expire(now) PROVE IInv'
    BY <2>2, ExpireInv
  <2>3. CASE Close
    BY <2>3, CloseInv
  <2>4. CASE UNCHANGED vars
    BY <2>4, StutterInv
  <2> QED BY <2>1, <2>2, <2>3, <2>4 DEF Next
<1> QED BY <1>1, InitInv, PTL DEF Spec

(* The table, the flows waiting in ready and the histories keep their      *)
(* types through every operation of FlowTable.                             *)
THEOREM TypeCorrect == Spec => []TypeOK
BY Invariance, PTL DEF IInv

(* The ceiling is a memory guarantee: between two calls a table never      *)
(* holds more than max_flows conversations, whatever the capture.          *)
THEOREM CeilingGuarantee == Spec => []CapHolds
BY Invariance, PTL DEF IInv

(* The order _sweep and _enforce_cap rely on to look at the front of each  *)
(* table only is activity order, up to the skew of the capture.            *)
THEOREM TablesInActivityOrder == Spec => []ActivityOrder
BY Invariance, PTL DEF IInv

(* A fresh front defers the expiry of an idle conversation by no more than *)
(* the skew of the capture; on a monotonic one it never does.              *)
THEOREM DeferralIsBounded == Spec => []DeferralBound
BY Invariance, PTL DEF IInv

-----------------------------------------------------------------------------
(* Every frame once *)

Holding(no, flows) == {i \in 1..Len(flows) : no \in flows[i].frames}

Copies(no, flows) == Cardinality(Holding(no, flows))

One(no, frames) == IF no \in frames THEN 1 ELSE 0

-----------------------------------------------------------------------------
(* Copies in a sequence of flows *)

LEMMA HoldingFinite ==
    ASSUME NEW no, NEW flows \in Seq(Flow)
    PROVE  IsFiniteSet(Holding(no, flows)) /\ Copies(no, flows) \in Nat
<1>1. IsFiniteSet(1..Len(flows))
  BY FS_Interval, LenProperties
<1>2. Holding(no, flows) \in SUBSET (1..Len(flows))
  BY DEF Holding
<1> QED BY <1>1, <1>2, FS_Subset, FS_CardinalityType DEF Copies

LEMMA CopiesEmpty == ASSUME NEW no PROVE Copies(no, <<>>) = 0
<1>1. Holding(no, <<>>) = {}
  BY DEF Holding
<1> QED BY <1>1, FS_EmptySet DEF Copies

LEMMA CopiesOne ==
    ASSUME NEW no, NEW f \in Flow
    PROVE  Copies(no, <<f>>) = One(no, f.frames)
<1>1. Holding(no, <<f>>) = IF no \in f.frames THEN {1} ELSE {}
  BY DEF Holding
<1> QED BY <1>1, FS_EmptySet, FS_Singleton DEF Copies, One

LEMMA CopiesConcat ==
    ASSUME NEW no, NEW a \in Seq(Flow), NEW b \in Seq(Flow)
    PROVE  Copies(no, a \o b) = Copies(no, a) + Copies(no, b)
<1> DEFINE A == Holding(no, a)
           B == Holding(no, b)
           n == Len(a)
           shift == [j \in B |-> n + j]
           C == {n + j : j \in B}
<1>1. /\ n \in Nat /\ Len(b) \in Nat /\ Len(a \o b) = n + Len(b)
      /\ \A i \in 1..(n + Len(b)) : (a \o b)[i] = IF i <= n THEN a[i] ELSE b[i - n]
  BY ConcatProperties, LenProperties
<1>2. A \subseteq 1..n /\ B \subseteq 1..Len(b)
  BY DEF Holding
<1>3. Holding(no, a \o b) = A \cup C
  <2>1. ASSUME NEW i \in Holding(no, a \o b) PROVE i \in A \cup C
    <3>1. i \in 1..(n + Len(b)) /\ no \in (a \o b)[i].frames
      BY <1>1 DEF Holding
    <3>2. CASE i <= n
      BY <1>1, <3>1, <3>2 DEF Holding
    <3>3. CASE i > n
      <4>1. i - n \in B
        BY <1>1, <3>1, <3>3 DEF Holding
      <4>2. i = n + (i - n)
        BY <1>1, <3>1
      <4> QED BY <4>1, <4>2
    <3> QED BY <1>1, <3>1, <3>2, <3>3
  <2>2. ASSUME NEW i \in A PROVE i \in Holding(no, a \o b)
    BY <1>1 DEF Holding
  <2>3. ASSUME NEW j \in B PROVE n + j \in Holding(no, a \o b)
    <3>1. j \in 1..Len(b) /\ no \in b[j].frames
      BY DEF Holding
    <3>2. n + j \in 1..(n + Len(b)) /\ ~(n + j <= n) /\ (n + j) - n = j
      BY <1>1, <3>1
    <3> QED BY <1>1, <3>1, <3>2 DEF Holding
  <2> QED BY <2>1, <2>2, <2>3
<1>4. IsFiniteSet(A) /\ IsFiniteSet(B)
  BY HoldingFinite
<1> HIDE DEF A, B
<1>5. IsFiniteSet(C) /\ Cardinality(C) = Cardinality(B)
  <2>1. shift \in Bijection(B, C)
    <3>1. \A j, k \in B : n + j = n + k => j = k
      BY <1>1, <1>2
    <3> QED BY <3>1 DEF Bijection, Injection, Surjection, IsInjective
  <2> QED BY <1>4, <2>1, FS_Bijection DEF ExistsBijection
<1>6. A \cap C = {}
  BY <1>1, <1>2
<1>7. Cardinality(A \cup C) = Cardinality(A) + Cardinality(C) - Cardinality(A \cap C)
  BY <1>4, <1>5, FS_Union
<1>8. Cardinality(A \cap C) = 0 /\ Cardinality(A) \in Nat /\ Cardinality(B) \in Nat
  BY <1>4, <1>6, FS_EmptySet, FS_CardinalityType
<1> QED BY <1>3, <1>5, <1>7, <1>8 DEF Copies, A, B

-----------------------------------------------------------------------------
(* Copies in a table *)

LEMMA FlowsAt ==
    ASSUME NEW t \in Seq(State)
    PROVE  /\ Flows(t) \in Seq(Flow) /\ Len(Flows(t)) = Len(t)
           /\ \A i \in 1..Len(t) : Flows(t)[i] = t[i].flow
BY FlowsType, LenProperties DEF Flows

LEMMA FlowsConcat ==
    ASSUME NEW a \in Seq(State), NEW b \in Seq(State)
    PROVE  Flows(a \o b) = Flows(a) \o Flows(b)
<1> DEFINE fa == Flows(a)
           fb == Flows(b)
           fab == Flows(a \o b)
<1>1. /\ a \o b \in Seq(State) /\ Len(a \o b) = Len(a) + Len(b)
      /\ Len(a) \in Nat /\ Len(b) \in Nat
      /\ \A i \in 1..(Len(a) + Len(b)) :
            (a \o b)[i] = IF i <= Len(a) THEN a[i] ELSE b[i - Len(a)]
  BY ConcatProperties, LenProperties
<1>2. /\ fa \in Seq(Flow) /\ Len(fa) = Len(a) /\ \A i \in 1..Len(a) : fa[i] = a[i].flow
      /\ fb \in Seq(Flow) /\ Len(fb) = Len(b) /\ \A i \in 1..Len(b) : fb[i] = b[i].flow
      /\ fab \in Seq(Flow) /\ Len(fab) = Len(a) + Len(b)
      /\ \A i \in 1..(Len(a) + Len(b)) : fab[i] = (a \o b)[i].flow
  BY <1>1, FlowsAt
<1> HIDE DEF fa, fb, fab
<1>3. /\ fa \o fb \in Seq(Flow) /\ Len(fa \o fb) = Len(a) + Len(b)
      /\ \A i \in 1..(Len(a) + Len(b)) :
            (fa \o fb)[i] = IF i <= Len(a) THEN fa[i] ELSE fb[i - Len(a)]
  <2>1. /\ fa \o fb \in Seq(Flow) /\ Len(fa \o fb) = Len(fa) + Len(fb)
        /\ \A i \in 1..(Len(fa) + Len(fb)) :
              (fa \o fb)[i] = IF i <= Len(fa) THEN fa[i] ELSE fb[i - Len(fa)]
    <3>1. fa \in Seq(Flow) /\ fb \in Seq(Flow)
      BY <1>2
    <3> QED BY <3>1, ConcatProperties
  <2>2. Len(fa) = Len(a) /\ Len(fb) = Len(b)
    BY <1>2
  <2> QED BY <2>1, <2>2
<1>4. ASSUME NEW i \in 1..(Len(a) + Len(b)) PROVE fab[i] = (fa \o fb)[i]
  <2>0. fab[i] = (a \o b)[i].flow
    BY <1>2
  <2>1. CASE i <= Len(a)
    <3>1. i \in 1..Len(a) /\ (a \o b)[i] = a[i] /\ (fa \o fb)[i] = fa[i]
      BY <1>1, <1>3, <2>1
    <3> QED BY <1>2, <2>0, <3>1
  <2>2. CASE i > Len(a)
    <3>1. i - Len(a) \in 1..Len(b) /\ ~(i <= Len(a))
      BY <1>1, <2>2
    <3>2. (a \o b)[i] = b[i - Len(a)] /\ (fa \o fb)[i] = fb[i - Len(a)]
      BY <1>1, <1>3, <3>1
    <3>3. fb[i - Len(a)] = b[i - Len(a)].flow
      BY <1>2, <3>1
    <3> QED BY <2>0, <3>2, <3>3
  <2>3. i <= Len(a) \/ i > Len(a)
    BY <1>1
  <2> QED BY <2>1, <2>2, <2>3
<1>5. fab = fa \o fb
  BY <1>2, <1>3, <1>4, SeqEqual
<1> QED BY <1>5 DEF fa, fb, fab

InTable(no, t) == Copies(no, Flows(t))

LEMMA InTableConcat ==
    ASSUME NEW no, NEW a \in Seq(State), NEW b \in Seq(State)
    PROVE  InTable(no, a \o b) = InTable(no, a) + InTable(no, b)
BY FlowsConcat, FlowsType, CopiesConcat DEF InTable

LEMMA InTableType ==
    ASSUME NEW no, NEW t \in Seq(State)
    PROVE  InTable(no, t) \in Nat
BY FlowsType, HoldingFinite DEF InTable

LEMMA InTableEmpty == ASSUME NEW no PROVE InTable(no, <<>>) = 0
<1>1. Flows(<<>>) = <<>>
  BY DEF Flows
<1> QED BY <1>1, CopiesEmpty DEF InTable

LEMMA InTableOne ==
    ASSUME NEW no, NEW s \in State
    PROVE  InTable(no, <<s>>) = One(no, s.flow.frames)
<1> DEFINE one == <<s>>
           fs == <<s.flow>>
<1>1. one \in Seq(State) /\ Len(one) = 1 /\ one[1] = s
  OBVIOUS
<1>2. s.flow \in Flow
  BY DEF State
<1>3. fs \in Seq(Flow) /\ Len(fs) = 1 /\ fs[1] = s.flow
  BY <1>2
<1> HIDE DEF one, fs
<1>4. Flows(one) \in Seq(Flow) /\ Len(Flows(one)) = 1 /\ Flows(one)[1] = s.flow
  BY <1>1, FlowsAt
<1>5. Flows(one) = fs
  <2>1. \A i \in 1..1 : Flows(one)[i] = fs[i]
    BY <1>3, <1>4
  <2> QED BY <1>3, <1>4, <2>1, SeqEqual
<1> QED BY <1>2, <1>5, CopiesOne DEF InTable, one, fs

LEMMA InTableAppend ==
    ASSUME NEW no, NEW t \in Seq(State), NEW s \in State
    PROVE  InTable(no, Append(t, s)) = InTable(no, t) + One(no, s.flow.frames)
<1>1. Append(t, s) = t \o <<s>> /\ <<s>> \in Seq(State)
  BY AppendIsConcat
<1> QED BY <1>1, InTableConcat, InTableOne

LEMMA InTableSplit ==
    ASSUME NEW no, NEW t \in Seq(State), NEW k \in 1..(Len(t) + 1)
    PROVE  /\ SubSeq(t, 1, k - 1) \in Seq(State) /\ SubSeq(t, k, Len(t)) \in Seq(State)
           /\ InTable(no, t) = InTable(no, SubSeq(t, 1, k - 1))
                                 + InTable(no, SubSeq(t, k, Len(t)))
<1>1. SubSeq(t, 1, k - 1) \in Seq(State) /\ SubSeq(t, k, Len(t)) \in Seq(State)
  BY SubSeqProperties, ElementOfSeq, LenProperties
<1>2. SubSeq(t, 1, k - 1) \o SubSeq(t, k, Len(t)) = t
  <2>1. Len(t) \in Nat /\ 1 \in 1..(Len(t) + 1) /\ k - 1 \in (1 - 1)..Len(t)
        /\ Len(t) \in (k - 1)..Len(t) /\ (k - 1) + 1 = k
    BY LenProperties
  <2>2. SubSeq(t, 1, k - 1) \o SubSeq(t, (k - 1) + 1, Len(t)) = SubSeq(t, 1, Len(t))
    BY <2>1, ConcatAdjacentSubSeq
  <2> QED BY <2>1, <2>2, SubSeqFull
<1> QED BY <1>1, <1>2, InTableConcat

LEMMA InTableWithout ==
    ASSUME NEW no, NEW t \in Seq(State), NEW i \in 1..Len(t)
    PROVE  InTable(no, t) = InTable(no, Without(t, i)) + One(no, t[i].flow.frames)
<1> DEFINE a == SubSeq(t, 1, i - 1)
           b == SubSeq(t, i + 1, Len(t))
<1>1. Len(t) \in Nat /\ i \in 1..(Len(t) + 1) /\ t[i] \in State
  BY LenProperties, ElementOfSeq
<1>2. /\ a \in Seq(State) /\ SubSeq(t, i, Len(t)) \in Seq(State)
      /\ InTable(no, t) = InTable(no, a) + InTable(no, SubSeq(t, i, Len(t)))
  BY <1>1, InTableSplit
<1>3. SubSeq(t, i, Len(t)) = <<t[i]>> \o b
  BY <1>1, SubSeqRecursiveFirst
<1>4. b \in Seq(State) /\ <<t[i]>> \in Seq(State)
  BY <1>1, SubSeqProperties, ElementOfSeq
<1>5. Without(t, i) = a \o b
  BY DEF Without
<1> HIDE DEF a, b
<1>6. /\ InTable(no, SubSeq(t, i, Len(t))) = One(no, t[i].flow.frames) + InTable(no, b)
      /\ InTable(no, Without(t, i)) = InTable(no, a) + InTable(no, b)
  <2>1. InTable(no, <<t[i]>> \o b) = InTable(no, <<t[i]>>) + InTable(no, b)
    BY <1>4, InTableConcat
  <2>2. InTable(no, <<t[i]>>) = One(no, t[i].flow.frames)
    BY <1>1, InTableOne
  <2>3. InTable(no, a \o b) = InTable(no, a) + InTable(no, b)
    BY <1>2, <1>4, InTableConcat
  <2> QED BY <1>3, <1>5, <2>1, <2>2, <2>3
<1>7. /\ InTable(no, a) \in Nat /\ InTable(no, b) \in Nat
      /\ One(no, t[i].flow.frames) \in Nat
  BY <1>2, <1>4, InTableType DEF One
<1> QED BY <1>2, <1>6, <1>7

-----------------------------------------------------------------------------
(* Copies in both tables *)

InTables(no, tab) == InTable(no, tab["tcp"]) + InTable(no, tab["other"])

LEMMA InTablesType ==
    ASSUME NEW no, NEW tab, Typed(tab)
    PROVE  InTables(no, tab) \in Nat
BY InTableType DEF InTables, Typed, Classes

\* A sweep moves copies from a table to what has expired.
LEMMA SweptCopies ==
    ASSUME NEW no, NEW tab, Typed(tab), NEW now \in Int
    PROVE  InTables(no, tab) = InTables(no, Swept(tab, now)) + Copies(no, Expired(tab, now))
<1> DEFINE gone(c) == SubSeq(tab[c], 1, Fresh(tab[c], c, now) - 1)
           kept(c) == SubSeq(tab[c], Fresh(tab[c], c, now), Len(tab[c]))
<1>1. ASSUME NEW c \in Classes
      PROVE  /\ gone(c) \in Seq(State) /\ kept(c) \in Seq(State)
             /\ InTable(no, tab[c]) = InTable(no, gone(c)) + InTable(no, kept(c))
  <2>1. tab[c] \in Seq(State)
    BY DEF Typed
  <2>2. Fresh(tab[c], c, now) \in 1..(Len(tab[c]) + 1)
    BY <2>1, FreshFacts
  <2> QED BY <2>1, <2>2, InTableSplit
<1>2. /\ Swept(tab, now)["tcp"] = kept("tcp") /\ Swept(tab, now)["other"] = kept("other")
      /\ Expired(tab, now) = Flows(gone("tcp")) \o Flows(gone("other"))
  BY DEF Swept, Expired, Classes
<1> HIDE DEF gone, kept
<1>3. "tcp" \in Classes /\ "other" \in Classes
  BY DEF Classes
<1>4. Copies(no, Expired(tab, now)) = InTable(no, gone("tcp")) + InTable(no, gone("other"))
  BY <1>1, <1>2, <1>3, FlowsType, CopiesConcat DEF InTable
<1>5. /\ InTable(no, gone("tcp")) \in Nat /\ InTable(no, gone("other")) \in Nat
      /\ InTable(no, kept("tcp")) \in Nat /\ InTable(no, kept("other")) \in Nat
  BY <1>1, <1>3, InTableType
<1>6. /\ InTable(no, tab["tcp"]) = InTable(no, gone("tcp")) + InTable(no, kept("tcp"))
      /\ InTable(no, tab["other"]) = InTable(no, gone("other")) + InTable(no, kept("other"))
  BY <1>1, <1>3
<1> QED BY <1>2, <1>4, <1>5, <1>6 DEF InTables

\* Putting t in the place of one table.
LEMMA ExceptCopies ==
    ASSUME NEW no, NEW tab, Typed(tab), NEW c \in Classes, NEW t \in Seq(State)
    PROVE  /\ Typed([tab EXCEPT ![c] = t])
           /\ InTables(no, [tab EXCEPT ![c] = t]) + InTable(no, tab[c])
                = InTables(no, tab) + InTable(no, t)
<1> DEFINE new == [tab EXCEPT ![c] = t]
<1>1. Typed(new) /\ \A d \in Classes : new[d] = IF d = c THEN t ELSE tab[d]
  BY DEF Typed
<1>2. /\ InTable(no, tab["tcp"]) \in Nat /\ InTable(no, tab["other"]) \in Nat
      /\ InTable(no, t) \in Nat
  BY InTableType DEF Typed, Classes
<1> HIDE DEF new
<1>3. CASE c = "tcp"
  <2>1. new["tcp"] = t /\ new["other"] = tab["other"]
    BY <1>1, <1>3 DEF Classes
  <2> QED BY <1>1, <1>2, <1>3, <2>1 DEF InTables, new
<1>4. CASE c = "other"
  <2>1. new["other"] = t /\ new["tcp"] = tab["tcp"]
    BY <1>1, <1>4 DEF Classes
  <2> QED BY <1>1, <1>2, <1>4, <2>1 DEF InTables, new
<1> QED BY <1>3, <1>4 DEF Classes

\* The ceiling takes the front of one table.
LEMMA VictimFacts ==
    ASSUME NEW tab, Typed(tab), Over(tab)
    PROVE  LET v == Victim(tab)
               t == tab[v]
           IN  /\ v \in Classes /\ t \in Seq(State) /\ Tail(t) \in Seq(State)
               /\ t[1] \in State /\ t[1].flow \in Flow /\ t = <<t[1]>> \o Tail(t)
               /\ Capped(tab) = [tab EXCEPT ![v] = Tail(t)]
               /\ Evicted(tab) = <<t[1].flow>>
<1> DEFINE v == Victim(tab)
           t == tab[v]
<1>1. /\ "tcp" \in Classes /\ "other" \in Classes
      /\ tab["tcp"] \in Seq(State) /\ tab["other"] \in Seq(State)
  BY DEF Typed, Classes
<1>2. v \in Classes /\ t # <<>>
  <2>1. tab["tcp"] # <<>> \/ tab["other"] # <<>>
    <3>1. ASSUME tab["tcp"] = <<>>, tab["other"] = <<>> PROVE Held(tab) = 0
      BY <3>1 DEF Held
    <3> QED BY <3>1, MaxFlowsAssumption DEF Over
  <2> QED BY <1>1, <2>1 DEF Victim
<1>3. Capped(tab) = [tab EXCEPT ![v] = Tail(t)] /\ Evicted(tab) = <<t[1].flow>>
  BY DEF Capped, Evicted
<1> HIDE DEF v
<1>4. t \in Seq(State) /\ 1 \in 1..Len(t) /\ Len(t) \in 1..Len(t) /\ Len(t) \in Nat
  BY <1>2, EmptySeq, LenProperties DEF Typed
<1> HIDE DEF t
<1>5. t[1] \in State /\ t[1].flow \in Flow
  BY <1>4, StateAt
<1>6. Tail(t) \in Seq(State) /\ t = <<t[1]>> \o Tail(t)
  <2>1. Tail(t) = SubSeq(t, 2, Len(t)) /\ Tail(t) \in Seq(State)
    BY <1>2, <1>4, TailIsSubSeq, HeadTailProperties
  <2>2. SubSeq(t, 1, Len(t)) = <<t[1]>> \o SubSeq(t, 1 + 1, Len(t))
    BY <1>4, SubSeqRecursiveFirst
  <2> QED BY <1>4, <2>1, <2>2, SubSeqFull
<1> QED BY <1>2, <1>3, <1>4, <1>5, <1>6 DEF v, t

\* So does the ceiling.
LEMMA CappedCopies ==
    ASSUME NEW no, NEW tab, Typed(tab)
    PROVE  /\ Typed(Capped(tab)) /\ Evicted(tab) \in Seq(Flow)
           /\ InTables(no, tab) = InTables(no, Capped(tab)) + Copies(no, Evicted(tab))
<1>1. CASE ~Over(tab)
  <2>1. Capped(tab) = tab /\ Evicted(tab) = <<>>
    BY <1>1 DEF Capped, Evicted
  <2> QED BY <2>1, CopiesEmpty, EmptySeq, InTablesType
<1>2. CASE Over(tab)
  <2> DEFINE v == Victim(tab)
             t == tab[v]
  <2>1. /\ v \in Classes /\ t \in Seq(State) /\ Tail(t) \in Seq(State)
        /\ t[1] \in State /\ t[1].flow \in Flow /\ t = <<t[1]>> \o Tail(t)
    BY <1>2, VictimFacts
  <2>2. Capped(tab) = [tab EXCEPT ![v] = Tail(t)] /\ Evicted(tab) = <<t[1].flow>>
    BY <1>2, VictimFacts
  <2> HIDE DEF v, t
  <2>3. InTable(no, t) = One(no, t[1].flow.frames) + InTable(no, Tail(t))
    <3>1. <<t[1]>> \in Seq(State)
      BY <2>1
    <3>2. InTable(no, <<t[1]>> \o Tail(t)) = InTable(no, <<t[1]>>) + InTable(no, Tail(t))
      BY <2>1, <3>1, InTableConcat
    <3> QED BY <2>1, <3>2, InTableOne
  <2>4. /\ Typed(Capped(tab))
        /\ InTables(no, Capped(tab)) + InTable(no, t)
             = InTables(no, tab) + InTable(no, Tail(t))
    <3>1. /\ Typed([tab EXCEPT ![v] = Tail(t)])
          /\ InTables(no, [tab EXCEPT ![v] = Tail(t)]) + InTable(no, tab[v])
               = InTables(no, tab) + InTable(no, Tail(t))
      <4>1. v \in Classes /\ Tail(t) \in Seq(State)
        BY <2>1
      <4> QED BY <4>1, ExceptCopies
    <3> QED BY <2>2, <3>1 DEF t
  <2>5. Evicted(tab) \in Seq(Flow) /\ Copies(no, Evicted(tab)) = One(no, t[1].flow.frames)
    BY <2>1, <2>2, CopiesOne
  <2>6. /\ InTables(no, Capped(tab)) \in Nat /\ InTables(no, tab) \in Nat
        /\ InTable(no, Tail(t)) \in Nat /\ One(no, t[1].flow.frames) \in Nat
    BY <2>1, <2>4, InTablesType, InTableType DEF One
  <2> QED BY <2>3, <2>4, <2>5, <2>6
<1> QED BY <1>1, <1>2

-----------------------------------------------------------------------------
(* The frames of one conversation *)

LEMMA OpenFlowFrames ==
    ASSUME NEW p, NEW ts
    PROVE  OpenFlow(p, ts).flow.frames = {}
BY DEF OpenFlow, NewState

LEMMA ReorientFrames ==
    ASSUME NEW s \in State, NEW p \in Packets
    PROVE  Reorient(s, p).flow.frames = s.flow.frames
<1>1. ASSUME NEW r \in State PROVE Swap(r).flow.frames = r.flow.frames
  <2> DEFINE f == r.flow
             answered == f.packets_out > 0
             g == [f EXCEPT !.src = f.dst, !.dst = f.src,
                            !.packets_out = f.packets_in,
                            !.packets_in  = f.packets_out,
                            !.payload_out = f.payload_in,
                            !.payload_in  = f.payload_out,
                            !.responded   = answered]
  <2>1. f \in Flow
    BY DEF State
  <2>2. g.frames = f.frames
    <3> HIDE DEF answered, f
    <3> QED BY <2>1 DEF Flow
  <2>3. Swap(r) = [r EXCEPT !.flow = g, !.fin_out = r.fin_in, !.fin_in = r.fin_out]
    BY DEF Swap, answered
  <2> HIDE DEF g
  <2> QED BY <2>2, <2>3 DEF State
<1>2. [s EXCEPT !.oriented = TRUE] \in State
      /\ [s EXCEPT !.oriented = TRUE].flow.frames = s.flow.frames
  BY DEF State
<1> QED BY <1>1, <1>2 DEF Reorient

LEMMA CountedFrames ==
    ASSUME NEW s \in State, NEW p \in Packets, NEW ts \in Nat, NEW no \in Nat
    PROVE  Counted(s, p, ts, no).flow.frames = s.flow.frames \cup {no}
<1> DEFINE f    == s.flow
           seen == [f EXCEPT !.start = IF ts < f.start THEN ts ELSE f.start,
                             !.end   = Later(f.end, ts),
                             !.flags_seen = @ \cup p.flags,
                             !.frames = @ \cup {no}]
           out  == [seen EXCEPT !.packets_out = @ + 1,
                                !.payload_out = @ + p.payload]
           in   == [seen EXCEPT !.packets_in = @ + 1,
                                !.payload_in = @ + p.payload,
                                !.responded = TRUE]
<1>1. f \in Flow
  BY DEF State
<1>2. seen.frames = f.frames \cup {no} /\ DOMAIN seen = DOMAIN f
  BY <1>1 DEF Flow
<1>3. \/ Counted(s, p, ts, no) = [s EXCEPT !.flow = out]
      \/ Counted(s, p, ts, no) = [s EXCEPT !.flow = in]
  BY DEF Counted
<1> HIDE DEF seen
<1>4. out.frames = seen.frames /\ in.frames = seen.frames
  BY <1>1, <1>2 DEF Flow
<1> HIDE DEF out, in
<1> QED BY <1>2, <1>3, <1>4 DEF State

-----------------------------------------------------------------------------
(* The operations *)

Settled(no, p, rest, s, finished) ==
    InTables(no, table') + Copies(no, ready') + InTable(no, table[Class(p)])
      = InTables(no, table) + (Copies(no, ready) + Copies(no, finished))
          + (InTable(no, rest) + One(no, s.flow.frames \cup {Len(log) + 1}))

\* A settled frame is in the conversation it belongs to, and nothing else is
\* gained or lost.
LEMMA SettleCopies ==
    ASSUME TypeOK, NEW no \in Nat, NEW p \in Packets, NEW ts \in Times,
           NEW now \in Nat, NEW s \in State, NEW rest \in Seq(State),
           NEW finished \in Seq(Flow), Settle(p, ts, now, rest, s, finished)
    PROVE  /\ Typed(table') /\ ready' \in Seq(Flow)
           /\ Settled(no, p, rest, s, finished)
<1> DEFINE c       == Class(p)
           new     == Len(log) + 1
           counted == Counted(s, p, ts, new)
           marked  == Marked(counted, p)
           over    == Finishes(counted, p)
           own     == IF over THEN rest ELSE Append(rest, marked)
           torn    == IF over THEN <<counted.flow>> ELSE <<>>
           touched == [table EXCEPT ![c] = own]
           swept   == Swept(touched, now)
           late    == Expired(touched, now)
           out     == Evicted(swept)
           mine    == One(no, s.flow.frames \cup {new})
<1>1. /\ table' = Capped(swept)
      /\ ready' = ready \o finished \o torn \o late \o out
  BY DEF Settle
<1>2. c \in Classes /\ Typed(table) /\ ready \in Seq(Flow) /\ ts \in Nat /\ new \in Nat
  BY PacketFacts, TimesAssumption, LenProperties DEF TypeOK, Typed
<1>3. /\ counted \in State /\ counted.flow.frames = s.flow.frames \cup {new}
      /\ marked \in State /\ marked.flow = counted.flow /\ counted.flow \in Flow
  <2>1. counted \in State
    BY <1>2, CountedFacts
  <2>2. counted.flow.frames = s.flow.frames \cup {new}
    BY <1>2, CountedFrames
  <2>3. marked \in State /\ marked.flow = counted.flow
    BY <2>1, MarkedFacts
  <2> QED BY <2>1, <2>2, <2>3 DEF State
<1> HIDE DEF counted, marked, over
<1>4. own \in Seq(State) /\ torn \in Seq(Flow)
      /\ InTable(no, own) + Copies(no, torn) = InTable(no, rest) + mine
  <2>1. CASE over
    <3>0. counted.flow \in Flow /\ One(no, counted.flow.frames) = mine
      BY <1>3
    <3>1. <<counted.flow>> \in Seq(Flow)
      BY <3>0
    <3>2. Copies(no, <<counted.flow>>) = mine
      BY <3>0, CopiesOne
    <3>3. mine \in Nat /\ InTable(no, rest) \in Nat
      BY InTableType DEF One
    <3>4. own = rest /\ torn = <<counted.flow>>
      BY <2>1
    <3> QED BY <3>1, <3>2, <3>3, <3>4
  <2>2. CASE ~over
    <3>1. Append(rest, marked) \in Seq(State)
      BY <1>3, AppendProperties
    <3>2. InTable(no, Append(rest, marked)) = InTable(no, rest) + mine
      BY <1>3, InTableAppend
    <3>3. Copies(no, <<>>) = 0 /\ <<>> \in Seq(Flow)
      BY CopiesEmpty, EmptySeq
    <3>4. InTable(no, rest) \in Nat /\ mine \in Nat
      BY InTableType DEF One
    <3> QED BY <2>2, <3>1, <3>2, <3>3, <3>4
  <2> QED BY <2>1, <2>2
<1> HIDE DEF own, torn, new
<1>5. /\ Typed(touched)
      /\ InTables(no, touched) + InTable(no, table[c]) = InTables(no, table) + InTable(no, own)
  BY <1>2, <1>4, ExceptCopies
<1> HIDE DEF touched
<1>6. /\ late \in Seq(Flow) /\ Typed(swept)
      /\ InTables(no, touched) = InTables(no, swept) + Copies(no, late)
  <2>1. late \in Seq(Flow)
    BY <1>5, ExpiredType
  <2>2. InTables(no, touched) = InTables(no, swept) + Copies(no, late)
    BY <1>5, SweptCopies
  <2>3. Typed(swept)
    <3>1. ASSUME NEW d \in Classes
          PROVE  SubSeq(touched[d], Fresh(touched[d], d, now), Len(touched[d])) \in Seq(State)
      <4>1. touched[d] \in Seq(State)
        BY <1>5 DEF Typed
      <4>2. Fresh(touched[d], d, now) \in 1..(Len(touched[d]) + 1)
        <5>1. now \in Int
          OBVIOUS
        <5> QED BY <4>1, <5>1, FreshFacts
      <4> QED BY <4>1, <4>2, InTableSplit
    <3> QED BY <3>1 DEF Swept, Typed
  <2> QED BY <2>1, <2>2, <2>3
<1> HIDE DEF swept, late
<1>7. /\ Typed(Capped(swept)) /\ out \in Seq(Flow)
      /\ InTables(no, swept) = InTables(no, Capped(swept)) + Copies(no, out)
  BY <1>6, CappedCopies
<1> HIDE DEF out
<1>8. /\ ready' \in Seq(Flow)
      /\ Copies(no, ready') = Copies(no, ready) + Copies(no, finished) + Copies(no, torn)
                                + Copies(no, late) + Copies(no, out)
  <2>1. /\ ready \o finished \in Seq(Flow)
        /\ Copies(no, ready \o finished) = Copies(no, ready) + Copies(no, finished)
    BY <1>2, ConcatProperties, CopiesConcat
  <2>2. /\ ready \o finished \o torn \in Seq(Flow)
        /\ Copies(no, ready \o finished \o torn) = Copies(no, ready \o finished) + Copies(no, torn)
    BY <1>4, <2>1, ConcatProperties, CopiesConcat
  <2>3. /\ ready \o finished \o torn \o late \in Seq(Flow)
        /\ Copies(no, ready \o finished \o torn \o late)
             = Copies(no, ready \o finished \o torn) + Copies(no, late)
    BY <1>6, <2>2, ConcatProperties, CopiesConcat
  <2>4. /\ ready \o finished \o torn \o late \o out \in Seq(Flow)
        /\ Copies(no, ready \o finished \o torn \o late \o out)
             = Copies(no, ready \o finished \o torn \o late) + Copies(no, out)
    BY <1>7, <2>3, ConcatProperties, CopiesConcat
  <2> QED BY <1>1, <2>1, <2>2, <2>3, <2>4
<1>9. /\ InTables(no, table) \in Nat /\ InTables(no, touched) \in Nat
      /\ InTables(no, swept) \in Nat /\ InTables(no, Capped(swept)) \in Nat
      /\ InTable(no, table[c]) \in Nat /\ InTable(no, own) \in Nat
      /\ InTable(no, rest) \in Nat /\ mine \in Nat
  BY <1>2, <1>4, <1>5, <1>6, <1>7, InTablesType, InTableType DEF One, Typed
<1>10. /\ Copies(no, ready) \in Nat /\ Copies(no, finished) \in Nat /\ Copies(no, torn) \in Nat
       /\ Copies(no, late) \in Nat /\ Copies(no, out) \in Nat
  BY <1>2, <1>4, <1>6, <1>7, HoldingFinite
<1>11. InTables(no, table') = InTables(no, Capped(swept)) /\ Typed(table')
  BY <1>1, <1>7
<1> HIDE DEF mine, c
<1> DEFINE kept == Copies(no, ready) + Copies(no, finished)
           held == InTable(no, rest) + mine
<1>12. InTables(no, table') + Copies(no, ready') + InTable(no, table[c])
         = InTables(no, table) + kept + held
  <2>1. /\ InTable(no, own) + Copies(no, torn) = held
        /\ InTables(no, touched) + InTable(no, table[c]) = InTables(no, table) + InTable(no, own)
    BY <1>4, <1>5
  <2>2. kept \in Nat /\ held \in Nat
    <3>1. kept \in Nat
      BY <1>10
    <3>2. held \in Nat
      BY <1>9
    <3> QED BY <3>1, <3>2
  <2>3. Copies(no, ready') = kept + Copies(no, torn) + Copies(no, late) + Copies(no, out)
    BY <1>8
  <2> HIDE DEF kept, held
  <2>4. InTables(no, touched) = InTables(no, table') + Copies(no, out) + Copies(no, late)
    BY <1>6, <1>7, <1>9, <1>10, <1>11
  <2>5. /\ InTables(no, table') \in Nat /\ InTables(no, touched) \in Nat
        /\ InTables(no, table) \in Nat /\ InTable(no, table[c]) \in Nat
        /\ InTable(no, own) \in Nat
    BY <1>9, <1>11
  <2>6. Copies(no, torn) \in Nat /\ Copies(no, late) \in Nat /\ Copies(no, out) \in Nat
    BY <1>10
  <2>7. InTables(no, table') + Copies(no, ready')
          = InTables(no, touched) + (kept + Copies(no, torn))
    <3>1. kept + Copies(no, torn) \in Nat
      BY <2>2, <2>6
    <3> DEFINE k == kept + Copies(no, torn)
    <3>2. Copies(no, ready') = k + Copies(no, late) + Copies(no, out) /\ k \in Nat
      BY <2>3, <3>1
    <3> HIDE DEF k
    <3>3. InTables(no, table') + Copies(no, ready') = InTables(no, touched) + k
      BY <2>4, <2>5, <2>6, <3>2
    <3> QED BY <3>3 DEF k
  <2>8. InTables(no, touched) + (kept + Copies(no, torn)) + InTable(no, table[c])
          = (InTables(no, touched) + InTable(no, table[c])) + (kept + Copies(no, torn))
    BY <2>2, <2>5, <2>6
  <2>9. (InTables(no, table) + InTable(no, own)) + (kept + Copies(no, torn))
          = InTables(no, table) + kept + (InTable(no, own) + Copies(no, torn))
    BY <2>2, <2>5, <2>6
  <2> QED BY <2>1, <2>7, <2>8, <2>9
<1> QED BY <1>8, <1>11, <1>12 DEF Settled, mine, c, new

Total(no) == InTables(no, table) + Copies(no, ready) + One(no, handed)

\* Every frame added is in one place, and nothing else is anywhere.
Once == \A no \in Nat : Total(no) = One(no, 1..Len(log))

LEMMA TotalParts ==
    ASSUME TypeOK, NEW no
    PROVE  /\ InTables(no, table) \in Nat /\ Copies(no, ready) \in Nat
           /\ One(no, handed) \in Nat
BY InTablesType, HoldingFinite DEF TypeOK, Typed, One

\* The number of the frame an add brings is new to every conversation.
LEMMA NumberIsNew ==
    ASSUME TypeOK, Once, NEW c \in Classes, NEW i \in 1..Len(table[c])
    PROVE  Len(log) + 1 \in Nat /\ Len(log) + 1 \notin table[c][i].flow.frames
<1> DEFINE no == Len(log) + 1
           t == table[c]
<1>1. no \in Nat /\ no \notin 1..Len(log)
  BY LenProperties DEF TypeOK
<1>2. InTables(no, table) + Copies(no, ready) + One(no, handed) = 0
  BY <1>1 DEF Once, Total, One
<1>3. InTables(no, table) = 0
  BY <1>2, TotalParts
<1>4. /\ table["tcp"] \in Seq(State) /\ table["other"] \in Seq(State) /\ t \in Seq(State)
  BY DEF TypeOK, Classes
<1>5. InTable(no, t) = 0
  <2>1. InTable(no, table["tcp"]) \in Nat /\ InTable(no, table["other"]) \in Nat
    BY <1>4, InTableType
  <2> QED BY <1>3, <2>1 DEF InTables, Classes
<1>6. InTable(no, Without(t, i)) \in Nat /\ One(no, t[i].flow.frames) \in Nat
  BY <1>4, WithoutOne, InTableType DEF One
<1>7. One(no, t[i].flow.frames) = 0
  BY <1>4, <1>5, <1>6, InTableWithout
<1> QED BY <1>1, <1>7 DEF One

LEMMA AddOnce ==
    ASSUME IInv, Once, NEW p \in Packets, NEW ts \in Times, Add(p, ts)
    PROVE  Once'
<1> DEFINE c   == Class(p)
           t   == table[c]
           now == Later(clock, ts)
           new == Len(log) + 1
<1>1. Arrive(p, ts) /\ TypeOK
  BY DEF Add, AddFirst, AddNext, AddReuse, IInv
<1>2. now \in Nat /\ ts \in Nat /\ c \in Classes /\ t \in Seq(State)
  BY <1>1, ArriveFacts, PacketFacts DEF TypeOK
<1>3. handed' = handed /\ Len(log') = new /\ new \in Nat /\ Len(log) \in Nat
  BY <1>1, AppendProperties, LenProperties DEF Arrive, TypeOK
<1>4. OpenFlow(p, ts) \in State /\ OpenFlow(p, ts).flow.frames = {}
  BY <1>2, OpenFlowFacts, OpenFlowFrames
<1> SUFFICES ASSUME NEW no \in Nat PROVE Total(no)' = One(no, 1..Len(log'))
  BY DEF Once
<1>5. InTables(no, table') + Copies(no, ready')
         = InTables(no, table) + Copies(no, ready) + One(no, {new})
      /\ Typed(table') /\ ready' \in Seq(Flow)
  <2>0. TypeOK /\ now \in Nat /\ <<>> \in Seq(Flow) /\ Copies(no, <<>>) = 0
    BY <1>1, <1>2, CopiesEmpty, EmptySeq
  <2>1. /\ InTable(no, t) \in Nat /\ One(no, {new}) \in Nat
        /\ InTables(no, table) \in Nat /\ Copies(no, ready) \in Nat
    BY <1>1, <1>2, InTableType, TotalParts DEF One
  <2>2. ASSUME Typed(table'), ready' \in Seq(Flow)
        PROVE  InTables(no, table') \in Nat /\ Copies(no, ready') \in Nat
    BY <2>2, InTablesType, HoldingFinite
  <2>3. ASSUME NEW i \in 1..Len(t)
        PROVE  /\ Without(t, i) \in Seq(State) /\ t[i] \in State /\ t[i].flow \in Flow
               /\ InTable(no, t) = InTable(no, Without(t, i)) + One(no, t[i].flow.frames)
               /\ InTable(no, Without(t, i)) \in Nat /\ One(no, t[i].flow.frames) \in Nat
               /\ One(no, t[i].flow.frames \cup {new}) = One(no, t[i].flow.frames) + One(no, {new})
    <3>1. Without(t, i) \in Seq(State) /\ t[i] \in State /\ t[i].flow \in Flow
      BY <1>2, WithoutOne, StateAt
    <3>2. InTable(no, t) = InTable(no, Without(t, i)) + One(no, t[i].flow.frames)
      BY <1>2, InTableWithout
    <3>3. new \notin t[i].flow.frames
      BY <1>1, <1>2, NumberIsNew
    <3> QED BY <3>1, <3>2, <3>3, InTableType DEF One
  <2> DEFINE Gained ==
        /\ Typed(table') /\ ready' \in Seq(Flow)
        /\ InTables(no, table') + Copies(no, ready') + InTable(no, t)
             = InTables(no, table) + Copies(no, ready) + (InTable(no, t) + One(no, {new}))
  <2>4. ASSUME AddFirst(p, ts) PROVE Gained
    <3>1. Settle(p, ts, now, t, OpenFlow(p, ts), <<>>)
      BY <2>4 DEF AddFirst
    <3>2. Typed(table') /\ ready' \in Seq(Flow) /\ Settled(no, p, t, OpenFlow(p, ts), <<>>)
      <4> HIDE DEF t, now
      <4> QED BY <1>2, <1>4, <2>0, <3>1, SettleCopies
    <3>3. OpenFlow(p, ts).flow.frames \cup {new} = {new} /\ Copies(no, ready) + 0 = Copies(no, ready)
      BY <1>4, <2>1
    <3> QED BY <2>0, <3>2, <3>3 DEF Settled
  <2>5. ASSUME AddNext(p, ts) PROVE Gained
    <3>1. PICK i \in 1..Len(t) :
            Settle(p, ts, now, Without(t, i), Reorient(t[i], p), <<>>)
      BY <2>5 DEF AddNext, At
    <3>2. Reorient(t[i], p) \in State /\ Reorient(t[i], p).flow.frames = t[i].flow.frames
      BY <2>3, ReorientFacts, ReorientFrames
    <3>3. /\ Typed(table') /\ ready' \in Seq(Flow)
          /\ Settled(no, p, Without(t, i), Reorient(t[i], p), <<>>)
      <4>1. Without(t, i) \in Seq(State)
        BY <2>3
      <4> HIDE DEF t, now
      <4> QED BY <1>2, <2>0, <3>1, <3>2, <4>1, SettleCopies
    <3>4. InTable(no, Without(t, i)) + One(no, t[i].flow.frames \cup {new})
            = InTable(no, t) + One(no, {new})
      <4>1. /\ InTable(no, t) = InTable(no, Without(t, i)) + One(no, t[i].flow.frames)
            /\ One(no, t[i].flow.frames \cup {new}) = One(no, t[i].flow.frames) + One(no, {new})
            /\ InTable(no, Without(t, i)) \in Nat /\ One(no, t[i].flow.frames) \in Nat
            /\ One(no, {new}) \in Nat
        BY <2>1, <2>3
      <4> HIDE DEF t, new
      <4> QED BY <4>1
    <3>5. Copies(no, ready) + Copies(no, <<>>) = Copies(no, ready)
      BY <2>0, <2>1
    <3> QED BY <3>2, <3>3, <3>4, <3>5 DEF Settled
  <2>6. ASSUME AddReuse(p, ts) PROVE Gained
    <3>1. PICK i \in 1..Len(t) :
            Settle(p, ts, now, Without(t, i), OpenFlow(p, ts), <<t[i].flow>>)
      BY <2>6 DEF AddReuse, At
    <3> DEFINE old == <<t[i].flow>>
    <3>2. t[i].flow \in Flow
      BY <2>3
    <3>3. old \in Seq(Flow) /\ Copies(no, old) = One(no, t[i].flow.frames)
      BY <3>2, CopiesOne
    <3>4. /\ Typed(table') /\ ready' \in Seq(Flow)
          /\ Settled(no, p, Without(t, i), OpenFlow(p, ts), old)
      <4>1. Without(t, i) \in Seq(State) /\ Settle(p, ts, now, Without(t, i), OpenFlow(p, ts), old)
        BY <2>3, <3>1
      <4> HIDE DEF t, now, old
      <4> QED BY <1>2, <1>4, <2>0, <3>3, <4>1, SettleCopies
    <3>5. OpenFlow(p, ts).flow.frames \cup {new} = {new}
      BY <1>4
    <3>6. InTables(no, table) + (Copies(no, ready) + Copies(no, old))
              + (InTable(no, Without(t, i)) + One(no, {new}))
            = InTables(no, table) + Copies(no, ready) + (InTable(no, t) + One(no, {new}))
      <4>1. /\ InTable(no, t) = InTable(no, Without(t, i)) + Copies(no, old)
            /\ InTable(no, Without(t, i)) \in Nat /\ Copies(no, old) \in Nat
        BY <2>3, <3>3
      <4> HIDE DEF t, new, old
      <4> QED BY <2>1, <4>1
    <3> HIDE DEF old
    <3> QED BY <3>4, <3>5, <3>6 DEF Settled
  <2>7. Gained
    BY <2>4, <2>5, <2>6 DEF Add
  <2>8. InTables(no, table') \in Nat /\ Copies(no, ready') \in Nat
    BY <2>2, <2>7
  <2> DEFINE was == InTables(no, table) + Copies(no, ready)
             is  == InTables(no, table') + Copies(no, ready')
  <2>9. was \in Nat /\ is \in Nat
    BY <2>1, <2>8
  <2>10. is + InTable(no, t) = was + (InTable(no, t) + One(no, {new}))
    BY <2>7
  <2> HIDE DEF t, new, was, is
  <2>11. is = was + One(no, {new})
    BY <2>1, <2>9, <2>10
  <2> QED BY <2>7, <2>11 DEF was, is
<1>6. One(no, 1..Len(log')) = One(no, 1..Len(log)) + One(no, {new})
  BY <1>3 DEF One
<1>7. Total(no) = One(no, 1..Len(log))
  BY DEF Once
<1>8. /\ InTables(no, table') \in Nat /\ Copies(no, ready') \in Nat
      /\ InTables(no, table) \in Nat /\ Copies(no, ready) \in Nat
      /\ One(no, handed) \in Nat /\ One(no, {new}) \in Nat
  BY <1>1, <1>5, InTablesType, HoldingFinite, TotalParts DEF One
<1> HIDE DEF new
<1> QED BY <1>3, <1>5, <1>6, <1>7, <1>8 DEF Total

LEMMA HandedCopies ==
    ASSUME NEW no, NEW flows \in Seq(Flow), NEW have,
           One(no, have) + Copies(no, flows) <= 1
    PROVE  One(no, have \cup FramesOf(flows)) = One(no, have) + Copies(no, flows)
<1>1. no \in FramesOf(flows) <=> Holding(no, flows) # {}
  BY DEF FramesOf, Holding
<1>2. Holding(no, flows) = {} <=> Copies(no, flows) = 0
  BY HoldingFinite, FS_EmptySet DEF Copies
<1>3. Copies(no, flows) \in Nat
  BY HoldingFinite
<1> HIDE DEF Copies
<1>4. CASE no \in have
  <2>1. One(no, have) = 1 /\ One(no, have \cup FramesOf(flows)) = 1
    BY <1>4 DEF One
  <2> QED BY <1>3, <2>1
<1>5. CASE no \notin have
  <2>1. One(no, have) = 0
    BY <1>5 DEF One
  <2>2. CASE Copies(no, flows) = 0
    <3>1. One(no, have \cup FramesOf(flows)) = 0
      BY <1>1, <1>2, <1>5, <2>2 DEF One
    <3> QED BY <2>1, <2>2, <3>1
  <2>3. CASE Copies(no, flows) # 0
    <3>1. One(no, have \cup FramesOf(flows)) = 1
      BY <1>1, <1>2, <2>3 DEF One
    <3>2. Copies(no, flows) = 1
      BY <1>3, <2>1, <2>3
    <3> QED BY <2>1, <3>1, <3>2
  <2> QED BY <2>2, <2>3
<1> QED BY <1>4, <1>5

\* Handing out what is ready and what some tables lose.
LEMMA CollectOnce ==
    ASSUME TypeOK, Once, NEW no \in Nat, NEW lost \in Seq(Flow),
           Typed(table'), ready' = <<>>, log' = log,
           InTables(no, table) = InTables(no, table') + Copies(no, lost),
           handed' = handed \cup FramesOf(ready \o lost)
    PROVE  Total(no)' = One(no, 1..Len(log'))
<1>1. ready \in Seq(Flow)
  BY DEF TypeOK
<1>2. /\ ready \o lost \in Seq(Flow)
      /\ Copies(no, ready \o lost) = Copies(no, ready) + Copies(no, lost)
  BY <1>1, ConcatProperties, CopiesConcat
<1>3. /\ InTables(no, table') \in Nat /\ Copies(no, ready) \in Nat
      /\ Copies(no, lost) \in Nat /\ One(no, handed) \in Nat
  BY <1>1, InTablesType, HoldingFinite DEF One
<1>4. InTables(no, table) + Copies(no, ready) + One(no, handed) = One(no, 1..Len(log))
  BY DEF Once, Total
<1>5. One(no, 1..Len(log)) \in {0, 1}
  BY DEF One
<1>6. One(no, handed) + Copies(no, ready \o lost) <= 1
  BY <1>2, <1>3, <1>4, <1>5, SMTT(60)
<1>7. One(no, handed') = One(no, handed) + Copies(no, ready \o lost)
  BY <1>2, <1>6, HandedCopies
<1>8. Copies(no, ready') = 0
  BY CopiesEmpty
<1>9. InTables(no, table') + Copies(no, ready') + One(no, handed') = One(no, 1..Len(log))
  BY <1>2, <1>3, <1>4, <1>7, <1>8, SMTT(60)
<1> QED BY <1>9 DEF Total

LEMMA ExpireOnce ==
    ASSUME IInv, IInv', Once, NEW time \in Times, Expire(time)
    PROVE  Once'
<1> DEFINE now == Later(clock, time)
           lost == Expired(table, now)
<1>1. TypeOK /\ Typed(table) /\ Typed(table')
  BY DEF IInv, TypeOK, Typed
<1>2. now \in Int
  BY TimesAssumption DEF IInv, TypeOK, Later, NoTime
<1>3. /\ table' = Swept(table, now) /\ ready' = <<>> /\ log' = log
      /\ handed' = handed \cup FramesOf(ready \o lost)
  BY DEF Expire
<1>4. lost \in Seq(Flow)
  BY <1>1, <1>2, ExpiredType
<1> HIDE DEF now
<1>5. \A no \in Nat : InTables(no, table) = InTables(no, table') + Copies(no, lost)
  BY <1>1, <1>2, <1>3, SweptCopies
<1> HIDE DEF lost
<1>6. \A no \in Nat : Total(no)' = One(no, 1..Len(log'))
  BY <1>1, <1>3, <1>4, <1>5, CollectOnce
<1> QED BY <1>6 DEF Once

LEMMA CloseOnce ==
    ASSUME IInv, IInv', Once, Close
    PROVE  Once'
<1> DEFINE a == Flows(table["tcp"])
           b == Flows(table["other"])
           lost == a \o b
<1>1. TypeOK /\ Typed(table')
  BY DEF IInv, TypeOK, Typed
<1>2. a \in Seq(Flow) /\ b \in Seq(Flow) /\ ready \in Seq(Flow)
  BY <1>1, FlowsType DEF TypeOK, Classes
<1>3. /\ table'["tcp"] = <<>> /\ table'["other"] = <<>> /\ ready' = <<>> /\ log' = log
      /\ handed' = handed \cup FramesOf(ready \o a \o b)
  BY DEF Close, Classes
<1>4. ASSUME NEW no \in Nat
      PROVE  InTables(no, table) = InTables(no, table') + Copies(no, lost)
  <2>1. InTables(no, table') = 0
    BY <1>3, InTableEmpty DEF InTables
  <2>2. InTables(no, table) = Copies(no, a) + Copies(no, b)
    BY DEF InTables, InTable
  <2> HIDE DEF a, b
  <2>3. Copies(no, lost) = Copies(no, a) + Copies(no, b)
    BY <1>2, CopiesConcat
  <2>4. Copies(no, lost) \in Nat
    BY <1>2, <2>3, HoldingFinite
  <2> QED BY <2>1, <2>2, <2>3, <2>4
<1> HIDE DEF a, b
<1>5. lost \in Seq(Flow) /\ ready \o a \o b = ready \o lost
  BY <1>2, ConcatProperties, ConcatAssociative
<1> HIDE DEF lost
<1>6. \A no \in Nat : Total(no)' = One(no, 1..Len(log'))
  BY <1>1, <1>3, <1>4, <1>5, CollectOnce
<1> QED BY <1>6 DEF Once

LEMMA InitOnce == Init => Once
<1> SUFFICES ASSUME Init, NEW no \in Nat PROVE Total(no) = One(no, 1..Len(log))
  BY DEF Once
<1>1. /\ table["tcp"] = <<>> /\ table["other"] = <<>> /\ ready = <<>>
      /\ handed = {} /\ Len(log) = 0
  BY DEF Init, Classes
<1>2. InTables(no, table) = 0 /\ Copies(no, ready) = 0
  BY <1>1, InTableEmpty, CopiesEmpty DEF InTables
<1>3. One(no, handed) = 0 /\ One(no, 1..Len(log)) = 0
  BY <1>1 DEF One
<1> QED BY <1>2, <1>3 DEF Total

LEMMA TableStep ==
    ASSUME IInv, Once, [Next]_vars
    PROVE  IInv' /\ Once'
<1>1. ASSUME NEW p \in Packets, NEW ts \in Times, Add(p, ts) PROVE IInv' /\ Once'
  BY <1>1, AddInv, AddOnce
<1>2. ASSUME NEW now \in Times, Expire(now) PROVE IInv' /\ Once'
  <2>1. IInv'
    BY <1>2, ExpireInv
  <2> QED BY <1>2, <2>1, ExpireOnce
<1>3. CASE Close
  <2>1. IInv'
    BY <1>3, CloseInv
  <2> QED BY <1>3, <2>1, CloseOnce
<1>4. CASE UNCHANGED vars
  <2>1. IInv'
    BY <1>4, StutterInv
  <2>2. Once'
    BY <1>4 DEF Once, Total, vars
  <2> QED BY <2>1, <2>2
<1> QED BY <1>1, <1>2, <1>3, <1>4 DEF Next

(* Of every frame there is exactly one copy, over the two tables, the      *)
(* flows waiting in ready and what has been collected, and of a frame that *)
(* was never added there is none: add, expire and close of FlowTable keep  *)
(* the count.                                                              *)
THEOREM NothingLostOrDoubled == Spec => [](IInv /\ Once)
<1>1. (IInv /\ Once) /\ [Next]_vars => (IInv /\ Once)'
  BY TableStep
<1> QED BY <1>1, InitInv, InitOnce, PTL DEF Spec

-----------------------------------------------------------------------------
(* One copy is one place *)

InTableAt(no, c) ==
    {<<c, i>> : i \in {k \in 1..Len(table[c]) : no \in table[c][k].flow.frames}}

WaitingAt(no) == {<<"ready", i>> : i \in Holding(no, ready)}

OutAt(no) == IF no \in handed THEN {<<"handed", 0>>} ELSE {}

LEMMA InTableAtHolding ==
    ASSUME TypeOK, NEW no, NEW c \in Classes
    PROVE  InTableAt(no, c) = {<<c, i>> : i \in Holding(no, Flows(table[c]))}
<1>1. table[c] \in Seq(State)
  BY DEF TypeOK
<1>2. Holding(no, Flows(table[c]))
        = {k \in 1..Len(table[c]) : no \in table[c][k].flow.frames}
  BY <1>1, FlowsAt DEF Holding
<1> QED BY <1>2 DEF InTableAt

LEMMA PlacesAre ==
    ASSUME NEW no
    PROVE  Places(no) = InTableAt(no, "tcp") \cup InTableAt(no, "other")
                          \cup WaitingAt(no) \cup OutAt(no)
<1>1. Places(no) = (UNION {InTableAt(no, c) : c \in Classes})
                     \cup WaitingAt(no) \cup OutAt(no)
  BY DEF Places, InTableAt, WaitingAt, OutAt, Holding
<1>2. UNION {InTableAt(no, c) : c \in Classes}
        = InTableAt(no, "tcp") \cup InTableAt(no, "other")
  BY DEF Classes
<1> QED BY <1>1, <1>2

LEMMA OneCopy ==
    ASSUME NEW no, NEW flows \in Seq(Flow)
    PROVE  /\ Copies(no, flows) = 0 => Holding(no, flows) = {}
           /\ Copies(no, flows) = 1 => \E i : Holding(no, flows) = {i}
BY HoldingFinite, FS_EmptySet, FS_Singleton DEF Copies

LEMMA OnceIsExactly == IInv /\ Once => ExactlyOnce
<1> SUFFICES ASSUME IInv, Once, NEW no \in 1..Len(log)
             PROVE  \E x \in Places(no) : Places(no) = {x}
  BY DEF ExactlyOnce
<1> DEFINE T == Flows(table["tcp"])
           O == Flows(table["other"])
           at == InTableAt(no, "tcp")
           ao == InTableAt(no, "other")
           ar == WaitingAt(no)
           ah == OutAt(no)
<1>1. TypeOK
  BY DEF IInv
<1>2. Places(no) = at \cup ao \cup ar \cup ah
  BY PlacesAre
<1>3. T \in Seq(Flow) /\ O \in Seq(Flow) /\ ready \in Seq(Flow)
  BY <1>1, FlowsType DEF TypeOK, Classes
<1>4. Copies(no, T) + Copies(no, O) + Copies(no, ready) + One(no, handed) = 1
  <2>1. no \in Nat /\ One(no, 1..Len(log)) = 1
    BY <1>1, LenProperties DEF One, TypeOK
  <2> QED BY <2>1 DEF Once, Total, InTables, InTable
<1>5. /\ at = {<<"tcp", i>> : i \in Holding(no, T)}
      /\ ao = {<<"other", i>> : i \in Holding(no, O)}
  BY <1>1, InTableAtHolding DEF Classes
<1> HIDE DEF T, O
<1>6. /\ Copies(no, T) \in Nat /\ Copies(no, O) \in Nat /\ Copies(no, ready) \in Nat
      /\ One(no, handed) \in {0, 1}
  BY <1>3, HoldingFinite DEF One
<1>7. /\ Copies(no, T) = 0 => at = {}
      /\ Copies(no, O) = 0 => ao = {}
      /\ Copies(no, ready) = 0 => ar = {}
      /\ One(no, handed) = 0 => ah = {}
  BY <1>3, <1>5, OneCopy DEF One, WaitingAt, OutAt
<1>8. /\ Copies(no, T) = 1 => \E x : at = {x}
      /\ Copies(no, O) = 1 => \E x : ao = {x}
      /\ Copies(no, ready) = 1 => \E x : ar = {x}
      /\ One(no, handed) = 1 => \E x : ah = {x}
  <2>1. ASSUME Copies(no, T) = 1 PROVE \E x : at = {x}
    <3>1. PICK i : Holding(no, T) = {i}
      BY <1>3, <2>1, OneCopy
    <3>2. at = {<<"tcp", i>>}
      BY <1>5, <3>1
    <3> QED BY <3>2
  <2>2. ASSUME Copies(no, O) = 1 PROVE \E x : ao = {x}
    <3>1. PICK i : Holding(no, O) = {i}
      BY <1>3, <2>2, OneCopy
    <3>2. ao = {<<"other", i>>}
      BY <1>5, <3>1
    <3> QED BY <3>2
  <2>3. ASSUME Copies(no, ready) = 1 PROVE \E x : ar = {x}
    <3>1. PICK i : Holding(no, ready) = {i}
      BY <1>3, <2>3, OneCopy
    <3>2. ar = {<<"ready", i>>}
      BY <3>1 DEF WaitingAt
    <3> QED BY <3>2
  <2>4. One(no, handed) = 1 => ah = {<<"handed", 0>>}
    BY DEF One, OutAt
  <2> HIDE DEF at, ao, ar, ah
  <2> QED BY <2>1, <2>2, <2>3, <2>4
<1> HIDE DEF at, ao, ar, ah
<1>9. \/ Copies(no, T) = 1 /\ Copies(no, O) = 0 /\ Copies(no, ready) = 0 /\ One(no, handed) = 0
      \/ Copies(no, T) = 0 /\ Copies(no, O) = 1 /\ Copies(no, ready) = 0 /\ One(no, handed) = 0
      \/ Copies(no, T) = 0 /\ Copies(no, O) = 0 /\ Copies(no, ready) = 1 /\ One(no, handed) = 0
      \/ Copies(no, T) = 0 /\ Copies(no, O) = 0 /\ Copies(no, ready) = 0 /\ One(no, handed) = 1
  BY <1>4, <1>6, SMTT(60)
<1>10. \E x : Places(no) = {x}
  BY <1>2, <1>7, <1>8, <1>9
<1> QED BY <1>10

(* Every frame of the capture is in exactly one place, whatever flows are  *)
(* torn down, reopened, swept, evicted or drained on the way.              *)
THEOREM EveryFrameOnce == Spec => []ExactlyOnce
BY OnceIsExactly, NothingLostOrDoubled, PTL

-----------------------------------------------------------------------------
(***************************************************************************)
(* The flow table implements the ledger.                                   *)
(*                                                                         *)
(* A conversation of the ledger is the set of frames of a flow.  Taking a  *)
(* sequence of flows apart, or putting one together, does the same to the  *)
(* sets; that what an operation keeps and what it finishes are different   *)
(* conversations is Once, together with NoneEmpty: no conversation is      *)
(* without a frame.                                                        *)
(***************************************************************************)

Sets(flows) == {flows[i].frames : i \in 1..Len(flows)}

SetsIn(t) == Sets(Flows(t))

SetsOf(tab) == SetsIn(tab["tcp"]) \cup SetsIn(tab["other"])

-----------------------------------------------------------------------------
(* Sequences of flows and their sets *)

LEMMA SetsEmpty == Sets(<<>>) = {} /\ SetsIn(<<>>) = {}
<1>1. Sets(<<>>) = {}
  BY DEF Sets
<1>2. Flows(<<>>) = <<>>
  BY DEF Flows
<1> QED BY <1>1, <1>2 DEF SetsIn

LEMMA SetsOne ==
    ASSUME NEW f \in Flow
    PROVE  Sets(<<f>>) = {f.frames}
BY DEF Sets

LEMMA SetsConcat ==
    ASSUME NEW a \in Seq(Flow), NEW b \in Seq(Flow)
    PROVE  Sets(a \o b) = Sets(a) \cup Sets(b)
<1> DEFINE n == Len(a)
           m == Len(b)
<1>1. /\ n \in Nat /\ m \in Nat /\ Len(a \o b) = n + m
      /\ \A i \in 1..(n + m) : (a \o b)[i] = IF i <= n THEN a[i] ELSE b[i - n]
  BY ConcatProperties, LenProperties
<1> HIDE DEF n, m
<1>2. ASSUME NEW i \in 1..(n + m)
      PROVE  (a \o b)[i].frames \in Sets(a) \cup Sets(b)
  <2>1. CASE i <= n
    <3>1. i \in 1..n /\ (a \o b)[i] = a[i]
      BY <1>1, <2>1
    <3> QED BY <3>1 DEF Sets, n
  <2>2. CASE i > n
    <3>1. i - n \in 1..m /\ (a \o b)[i] = b[i - n]
      BY <1>1, <2>2
    <3> QED BY <3>1 DEF Sets, m
  <2> QED BY <1>1, <2>1, <2>2
<1>3. ASSUME NEW i \in 1..n PROVE a[i].frames \in Sets(a \o b)
  <2>1. i \in 1..(n + m) /\ (a \o b)[i] = a[i]
    BY <1>1
  <2> QED BY <1>1, <2>1 DEF Sets
<1>4. ASSUME NEW j \in 1..m PROVE b[j].frames \in Sets(a \o b)
  <2>1. n + j \in 1..(n + m) /\ ~(n + j <= n) /\ (n + j) - n = j
    BY <1>1
  <2>2. (a \o b)[n + j] = b[j]
    BY <1>1, <2>1
  <2> QED BY <1>1, <2>1, <2>2 DEF Sets
<1> QED BY <1>1, <1>2, <1>3, <1>4 DEF Sets, n, m

LEMMA SetsInConcat ==
    ASSUME NEW a \in Seq(State), NEW b \in Seq(State)
    PROVE  SetsIn(a \o b) = SetsIn(a) \cup SetsIn(b)
BY FlowsConcat, FlowsType, SetsConcat DEF SetsIn

LEMMA SetsInOne ==
    ASSUME NEW s \in State
    PROVE  <<s>> \in Seq(State) /\ SetsIn(<<s>>) = {s.flow.frames}
<1> DEFINE one == <<s>>
<1>1. one \in Seq(State) /\ Len(one) = 1 /\ one[1] = s
  OBVIOUS
<1> HIDE DEF one
<1>2. Flows(one) \in Seq(Flow) /\ Len(Flows(one)) = 1 /\ Flows(one)[1] = s.flow
  BY <1>1, FlowsAt
<1>3. Sets(Flows(one)) = {s.flow.frames}
  BY <1>2 DEF Sets
<1> QED BY <1>1, <1>3 DEF SetsIn, one

LEMMA SetsInAppend ==
    ASSUME NEW t \in Seq(State), NEW s \in State
    PROVE  SetsIn(Append(t, s)) = SetsIn(t) \cup {s.flow.frames}
<1>1. Append(t, s) = t \o <<s>>
  BY AppendIsConcat
<1> QED BY <1>1, SetsInOne, SetsInConcat

LEMMA SetsInSplit ==
    ASSUME NEW t \in Seq(State), NEW k \in 1..(Len(t) + 1)
    PROVE  /\ SubSeq(t, 1, k - 1) \in Seq(State) /\ SubSeq(t, k, Len(t)) \in Seq(State)
           /\ SetsIn(t) = SetsIn(SubSeq(t, 1, k - 1)) \cup SetsIn(SubSeq(t, k, Len(t)))
<1>1. SubSeq(t, 1, k - 1) \in Seq(State) /\ SubSeq(t, k, Len(t)) \in Seq(State)
  BY InTableSplit
<1>2. SubSeq(t, 1, k - 1) \o SubSeq(t, k, Len(t)) = t
  <2>1. Len(t) \in Nat /\ 1 \in 1..(Len(t) + 1) /\ k - 1 \in (1 - 1)..Len(t)
        /\ Len(t) \in (k - 1)..Len(t) /\ (k - 1) + 1 = k
    BY LenProperties
  <2>2. SubSeq(t, 1, k - 1) \o SubSeq(t, (k - 1) + 1, Len(t)) = SubSeq(t, 1, Len(t))
    BY <2>1, ConcatAdjacentSubSeq
  <2> QED BY <2>1, <2>2, SubSeqFull
<1> QED BY <1>1, <1>2, SetsInConcat

LEMMA SetsInWithout ==
    ASSUME NEW t \in Seq(State), NEW i \in 1..Len(t)
    PROVE  SetsIn(t) = SetsIn(Without(t, i)) \cup {t[i].flow.frames}
<1> DEFINE a == SubSeq(t, 1, i - 1)
           b == SubSeq(t, i + 1, Len(t))
<1>1. Len(t) \in Nat /\ i \in 1..(Len(t) + 1) /\ t[i] \in State
  BY LenProperties, ElementOfSeq
<1>2. a \in Seq(State) /\ SetsIn(t) = SetsIn(a) \cup SetsIn(SubSeq(t, i, Len(t)))
  BY <1>1, SetsInSplit
<1>3. SubSeq(t, i, Len(t)) = <<t[i]>> \o b
  BY <1>1, SubSeqRecursiveFirst
<1>4. b \in Seq(State)
  BY <1>1, SubSeqProperties, ElementOfSeq
<1>5. Without(t, i) = a \o b
  BY DEF Without
<1> HIDE DEF a, b
<1>6. SetsIn(<<t[i]>> \o b) = {t[i].flow.frames} \cup SetsIn(b)
  <2>1. <<t[i]>> \in Seq(State) /\ SetsIn(<<t[i]>>) = {t[i].flow.frames}
    BY <1>1, SetsInOne
  <2> QED BY <1>4, <2>1, SetsInConcat
<1>7. SetsIn(a \o b) = SetsIn(a) \cup SetsIn(b)
  BY <1>2, <1>4, SetsInConcat
<1> QED BY <1>2, <1>3, <1>5, <1>6, <1>7

\* A set of frames is a set of numbers, and a frame it holds is counted.
LEMMA SetsCounted ==
    ASSUME NEW flows \in Seq(Flow), NEW x \in Sets(flows), NEW no \in x
    PROVE  no \in Nat /\ Copies(no, flows) > 0
<1>1. PICK i \in 1..Len(flows) : x = flows[i].frames
  BY DEF Sets
<1>2. flows[i] \in Flow
  BY ElementOfSeq
<1>3. no \in Nat
  BY <1>1, <1>2 DEF Flow
<1>4. i \in Holding(no, flows)
  BY <1>1 DEF Holding
<1>5. Copies(no, flows) # 0 /\ Copies(no, flows) \in Nat
  BY <1>4, HoldingFinite, FS_EmptySet DEF Copies
<1> QED BY <1>3, <1>5

-----------------------------------------------------------------------------
(* Both tables *)

LEMMA SweptSets ==
    ASSUME NEW tab, Typed(tab), NEW now \in Int
    PROVE  Typed(Swept(tab, now)) /\ SetsOf(tab) = SetsOf(Swept(tab, now)) \cup Sets(Expired(tab, now))
<1> DEFINE gone(c) == SubSeq(tab[c], 1, Fresh(tab[c], c, now) - 1)
           kept(c) == SubSeq(tab[c], Fresh(tab[c], c, now), Len(tab[c]))
<1>1. ASSUME NEW c \in Classes
      PROVE  /\ gone(c) \in Seq(State) /\ kept(c) \in Seq(State)
             /\ SetsIn(tab[c]) = SetsIn(gone(c)) \cup SetsIn(kept(c))
  <2>1. tab[c] \in Seq(State)
    BY DEF Typed
  <2>2. Fresh(tab[c], c, now) \in 1..(Len(tab[c]) + 1)
    BY <2>1, FreshFacts
  <2> QED BY <2>1, <2>2, SetsInSplit
<1>2. /\ Swept(tab, now) = [c \in Classes |-> kept(c)]
      /\ Expired(tab, now) = Flows(gone("tcp")) \o Flows(gone("other"))
  BY DEF Swept, Expired
<1> HIDE DEF gone, kept
<1>3. "tcp" \in Classes /\ "other" \in Classes
  BY DEF Classes
<1>4. Sets(Expired(tab, now)) = SetsIn(gone("tcp")) \cup SetsIn(gone("other"))
  BY <1>1, <1>2, <1>3, FlowsType, SetsConcat DEF SetsIn
<1>5. Typed(Swept(tab, now))
  BY <1>1, <1>2 DEF Typed
<1>6. Swept(tab, now)["tcp"] = kept("tcp") /\ Swept(tab, now)["other"] = kept("other")
  BY <1>2, <1>3
<1> QED BY <1>1, <1>3, <1>4, <1>5, <1>6 DEF SetsOf

\* The sets of the table that is not c's.
Beside(tab, c) == SetsIn(IF c = "tcp" THEN tab["other"] ELSE tab["tcp"])

LEMMA ExceptSets ==
    ASSUME NEW tab, Typed(tab), NEW c \in Classes, NEW t \in Seq(State)
    PROVE  SetsOf([tab EXCEPT ![c] = t]) = Beside(tab, c) \cup SetsIn(t)
<1> DEFINE T == [tab EXCEPT ![c] = t]
<1>1. \A d \in Classes : T[d] = IF d = c THEN t ELSE tab[d]
  BY DEF Typed
<1>2. /\ T["tcp"] = (IF c = "tcp" THEN t ELSE tab["tcp"])
      /\ T["other"] = (IF c = "other" THEN t ELSE tab["other"])
  BY <1>1 DEF Classes
<1> HIDE DEF T
<1>3. SetsOf(T) = Beside(tab, c) \cup SetsIn(t)
  BY <1>2 DEF SetsOf, Beside, Classes
<1> QED BY <1>3 DEF T

LEMMA OwnSets ==
    ASSUME NEW tab, NEW c \in Classes
    PROVE  SetsOf(tab) = Beside(tab, c) \cup SetsIn(tab[c])
BY DEF SetsOf, Beside, Classes

LEMMA CappedSets ==
    ASSUME NEW tab, Typed(tab)
    PROVE  SetsOf(tab) = SetsOf(Capped(tab)) \cup Sets(Evicted(tab))
<1>1. CASE ~Over(tab)
  <2>1. Capped(tab) = tab /\ Evicted(tab) = <<>>
    BY <1>1 DEF Capped, Evicted
  <2> QED BY <2>1, SetsEmpty
<1>2. CASE Over(tab)
  <2> DEFINE v == Victim(tab)
             t == tab[v]
  <2>1. /\ v \in Classes /\ t \in Seq(State) /\ Tail(t) \in Seq(State)
        /\ t[1] \in State /\ t[1].flow \in Flow /\ t = <<t[1]>> \o Tail(t)
    BY <1>2, VictimFacts
  <2>2. Capped(tab) = [tab EXCEPT ![v] = Tail(t)] /\ Evicted(tab) = <<t[1].flow>>
    BY <1>2, VictimFacts
  <2>3. SetsOf(tab) = Beside(tab, v) \cup SetsIn(t)
    BY <2>1, OwnSets
  <2> HIDE DEF v, t
  <2>4. SetsIn(t) = {t[1].flow.frames} \cup SetsIn(Tail(t))
    <3>1. <<t[1]>> \in Seq(State) /\ SetsIn(<<t[1]>>) = {t[1].flow.frames}
      BY <2>1, SetsInOne
    <3>2. SetsIn(<<t[1]>> \o Tail(t)) = SetsIn(<<t[1]>>) \cup SetsIn(Tail(t))
      BY <2>1, <3>1, SetsInConcat
    <3> QED BY <2>1, <3>1, <3>2
  <2>5. SetsOf(Capped(tab)) = Beside(tab, v) \cup SetsIn(Tail(t))
    BY <2>1, <2>2, ExceptSets
  <2>6. Sets(Evicted(tab)) = {t[1].flow.frames}
    BY <2>1, <2>2, SetsOne
  <2> QED BY <2>3, <2>4, <2>5, <2>6
<1> QED BY <1>1, <1>2

-----------------------------------------------------------------------------
(* What an operation finishes, and what it keeps *)

SettledSets(p, rest, s, finished) ==
    \E gone :
       /\ SetsOf(table') \cup gone
            = Beside(table, Class(p)) \cup SetsIn(rest)
                \cup {s.flow.frames \cup {Len(log) + 1}}
       /\ Sets(ready') = Sets(ready) \cup Sets(finished) \cup gone

LEMMA SettleSets ==
    ASSUME TypeOK, NEW p \in Packets, NEW ts \in Times,
           NEW now \in Nat, NEW s \in State, NEW rest \in Seq(State),
           NEW finished \in Seq(Flow), Settle(p, ts, now, rest, s, finished)
    PROVE  SettledSets(p, rest, s, finished)
<1> DEFINE c       == Class(p)
           new     == Len(log) + 1
           counted == Counted(s, p, ts, new)
           marked  == Marked(counted, p)
           over    == Finishes(counted, p)
           own     == IF over THEN rest ELSE Append(rest, marked)
           torn    == IF over THEN <<counted.flow>> ELSE <<>>
           touched == [table EXCEPT ![c] = own]
           swept   == Swept(touched, now)
           late    == Expired(touched, now)
           out     == Evicted(swept)
           mine    == {s.flow.frames \cup {new}}
           beside  == Beside(table, c)
<1>1. /\ table' = Capped(swept)
      /\ ready' = ready \o finished \o torn \o late \o out
  BY DEF Settle
<1>2. c \in Classes /\ Typed(table) /\ ready \in Seq(Flow) /\ ts \in Nat /\ new \in Nat
  BY PacketFacts, TimesAssumption, LenProperties DEF TypeOK, Typed
<1>3. /\ counted \in State /\ {counted.flow.frames} = mine
      /\ marked \in State /\ marked.flow = counted.flow /\ counted.flow \in Flow
  <2>1. counted \in State
    BY <1>2, CountedFacts
  <2>2. counted.flow.frames = s.flow.frames \cup {new}
    BY <1>2, CountedFrames
  <2>3. marked \in State /\ marked.flow = counted.flow
    BY <2>1, MarkedFacts
  <2> QED BY <2>1, <2>2, <2>3 DEF State
<1> HIDE DEF counted, marked, over, mine
<1>4. /\ own \in Seq(State) /\ torn \in Seq(Flow)
      /\ SetsIn(own) \cup Sets(torn) = SetsIn(rest) \cup mine
  <2>1. CASE over
    <3>1. own = rest /\ torn = <<counted.flow>>
      BY <2>1
    <3>2. <<counted.flow>> \in Seq(Flow)
      BY <1>3
    <3>3. Sets(<<counted.flow>>) = mine
      BY <1>3, SetsOne
    <3> QED BY <3>1, <3>2, <3>3
  <2>2. CASE ~over
    <3>1. own = Append(rest, marked) /\ torn = <<>>
      BY <2>2
    <3>2. Append(rest, marked) \in Seq(State)
      BY <1>3, AppendProperties
    <3>3. SetsIn(Append(rest, marked)) = SetsIn(rest) \cup mine
      BY <1>3, SetsInAppend
    <3>4. Sets(<<>>) = {} /\ <<>> \in Seq(Flow)
      BY SetsEmpty, EmptySeq
    <3> QED BY <3>1, <3>2, <3>3, <3>4
  <2> QED BY <2>1, <2>2
<1> HIDE DEF own, torn, new
<1>5. Typed(touched) /\ SetsOf(touched) = beside \cup SetsIn(own)
  <2>1. Typed(touched)
    BY <1>2, <1>4 DEF Typed
  <2> QED BY <1>2, <1>4, <2>1, ExceptSets
<1> HIDE DEF touched
<1>6. /\ late \in Seq(Flow) /\ Typed(swept)
      /\ SetsOf(touched) = SetsOf(swept) \cup Sets(late)
  <2>1. now \in Int
    OBVIOUS
  <2> QED BY <1>5, <2>1, ExpiredType, SweptSets
<1> HIDE DEF swept, late
<1>7. out \in Seq(Flow) /\ SetsOf(swept) = SetsOf(Capped(swept)) \cup Sets(out)
  <2>1. out \in Seq(Flow)
    BY <1>6, CappedCopies
  <2> QED BY <1>6, <2>1, CappedSets
<1> HIDE DEF out
<1>8. Sets(ready') = Sets(ready) \cup Sets(finished) \cup Sets(torn) \cup Sets(late) \cup Sets(out)
  <2>1. /\ ready \o finished \in Seq(Flow)
        /\ Sets(ready \o finished) = Sets(ready) \cup Sets(finished)
    BY <1>2, ConcatProperties, SetsConcat
  <2>2. /\ ready \o finished \o torn \in Seq(Flow)
        /\ Sets(ready \o finished \o torn) = Sets(ready \o finished) \cup Sets(torn)
    BY <1>4, <2>1, ConcatProperties, SetsConcat
  <2>3. /\ ready \o finished \o torn \o late \in Seq(Flow)
        /\ Sets(ready \o finished \o torn \o late)
             = Sets(ready \o finished \o torn) \cup Sets(late)
    BY <1>6, <2>2, ConcatProperties, SetsConcat
  <2>4. Sets(ready \o finished \o torn \o late \o out)
          = Sets(ready \o finished \o torn \o late) \cup Sets(out)
    BY <1>7, <2>3, SetsConcat
  <2> QED BY <1>1, <2>1, <2>2, <2>3, <2>4
<1> DEFINE gone == Sets(torn) \cup Sets(late) \cup Sets(out)
<1>9. SetsOf(table') \cup gone = beside \cup SetsIn(rest) \cup mine
  <2>1. SetsOf(table') = SetsOf(Capped(swept))
    BY <1>1
  <2>2. SetsIn(own) \cup Sets(torn) = SetsIn(rest) \cup mine
    BY <1>4
  <2>3. SetsOf(touched) = beside \cup SetsIn(own)
    BY <1>5
  <2>4. SetsOf(touched) = SetsOf(table') \cup Sets(out) \cup Sets(late)
    BY <1>6, <1>7, <2>1
  <2> HIDE DEF beside
  <2> QED BY <2>2, <2>3, <2>4
<1>10. Sets(ready') = Sets(ready) \cup Sets(finished) \cup gone
  BY <1>8
<1> HIDE DEF gone
<1> QED BY <1>9, <1>10 DEF SettledSets, mine, new

NoneEmpty == {} \notin SetsOf(table) /\ {} \notin Sets(ready)

LEMMA FlowsIn ==
    ASSUME TypeOK, NEW c \in Classes
    PROVE  table[c] \in Seq(State) /\ Flows(table[c]) \in Seq(Flow) /\ ready \in Seq(Flow)
BY FlowsType DEF TypeOK

\* One copy of a frame at most, wherever it is.
LEMMA AtMostOne ==
    ASSUME TypeOK, Once, NEW no \in Nat
    PROVE  InTable(no, table["tcp"]) + InTable(no, table["other"]) + Copies(no, ready) <= 1
<1>1. One(no, 1..Len(log)) <= 1 /\ One(no, handed) \in Nat
  BY DEF One
<1>2. InTable(no, table["tcp"]) \in Nat /\ InTable(no, table["other"]) \in Nat
      /\ Copies(no, ready) \in Nat
  BY FlowsIn, InTableType, HoldingFinite DEF Classes
<1>3. InTable(no, table["tcp"]) + InTable(no, table["other"]) + Copies(no, ready)
        + One(no, handed) = One(no, 1..Len(log))
  BY DEF Once, Total, InTables
<1>4. One(no, 1..Len(log)) \in {0, 1}
  BY DEF One
<1> QED BY <1>1, <1>2, <1>3, <1>4, SMTT(60)

\* A conversation of the table is not one of those finished.
LEMMA Apart ==
    ASSUME TypeOK, Once
    PROVE  \A x \in SetsOf(table) : x \in Sets(ready) => x = {}
<1> SUFFICES ASSUME NEW x \in SetsOf(table), x \in Sets(ready), NEW no \in x
             PROVE  FALSE
  OBVIOUS
<1>1. no \in Nat /\ Copies(no, ready) > 0
  BY FlowsIn, SetsCounted DEF Classes
<1>2. /\ InTable(no, table["tcp"]) \in Nat /\ InTable(no, table["other"]) \in Nat
      /\ Copies(no, ready) \in Nat
  BY FlowsIn, InTableType, HoldingFinite DEF Classes
<1>3. InTable(no, table["tcp"]) > 0 \/ InTable(no, table["other"]) > 0
  <2>1. Flows(table["tcp"]) \in Seq(Flow) /\ Flows(table["other"]) \in Seq(Flow)
    BY FlowsIn DEF Classes
  <2>2. x \in Sets(Flows(table["tcp"])) \/ x \in Sets(Flows(table["other"]))
    BY DEF SetsOf, SetsIn
  <2> QED BY <2>1, <2>2, SetsCounted DEF InTable
<1> QED BY <1>1, <1>2, <1>3, AtMostOne

\* No other conversation of the tables has the frames of state i.
LEMMA Alone ==
    ASSUME TypeOK, Once, NoneEmpty, NEW c \in Classes, NEW i \in 1..Len(table[c])
    PROVE  LET x == table[c][i].flow.frames
               others == Beside(table, c) \cup SetsIn(Without(table[c], i))
           IN  x \notin others /\ SetsOf(table) = others \cup {x}
<1> DEFINE t == table[c]
           x == t[i].flow.frames
           d == IF c = "tcp" THEN "other" ELSE "tcp"
<1>1. t \in Seq(State) /\ Without(t, i) \in Seq(State) /\ d \in Classes /\ table[d] \in Seq(State)
  BY FlowsIn, WithoutOne DEF Classes
<1>2. SetsIn(t) = SetsIn(Without(t, i)) \cup {x}
  BY <1>1, SetsInWithout
<1>3. SetsOf(table) = Beside(table, c) \cup SetsIn(t)
  BY OwnSets
<1>4. x # {}
  BY <1>2, <1>3 DEF NoneEmpty
<1>5. PICK no : no \in x
  BY <1>4
<1>6. no \in Nat
  BY <1>1, <1>5, StateAt DEF Flow
<1>7. InTable(no, t) + InTable(no, table[d]) <= 1
  <2>1. InTable(no, table["tcp"]) \in Nat /\ InTable(no, table["other"]) \in Nat
        /\ Copies(no, ready) \in Nat
    BY FlowsIn, InTableType, HoldingFinite DEF Classes
  <2>2. InTable(no, table["tcp"]) + InTable(no, table["other"]) <= 1
    BY <1>6, <2>1, AtMostOne
  <2>3. (c = "tcp" /\ d = "other") \/ (c = "other" /\ d = "tcp")
    <3>1. c = "tcp" \/ c = "other"
      BY DEF Classes
    <3>2. CASE c = "tcp"
      BY <3>2
    <3>3. CASE c = "other"
      BY <3>3
    <3> QED BY <3>1, <3>2, <3>3
  <2> HIDE DEF d
  <2> QED BY <2>1, <2>2, <2>3
<1>8. /\ InTable(no, t) = InTable(no, Without(t, i)) + 1
      /\ InTable(no, Without(t, i)) \in Nat /\ InTable(no, table[d]) \in Nat
  <2>1. One(no, x) = 1
    BY <1>5 DEF One
  <2> QED BY <1>1, <2>1, InTableWithout, InTableType
<1>9. InTable(no, Without(t, i)) = 0 /\ InTable(no, table[d]) = 0
  <2> HIDE DEF d, t
  <2> QED BY <1>7, <1>8
<1>10. ASSUME NEW u \in Seq(State), InTable(no, u) = 0 PROVE x \notin SetsIn(u)
  BY <1>5, <1>10, FlowsType, SetsCounted DEF InTable, SetsIn
<1>11. Beside(table, c) = SetsIn(table[d])
  BY DEF Beside
<1>12. x \notin Beside(table, c) /\ x \notin SetsIn(Without(t, i))
  BY <1>1, <1>9, <1>10, <1>11
<1> QED BY <1>2, <1>3, <1>12

-----------------------------------------------------------------------------
(* One entry *)

\* The open conversations once frame n has joined c, or started one.
Entered(c) == (SetsOf(table) \ {c}) \cup {c \cup {Len(log) + 1}}

Enters ==
    \E c \in SetsOf(table) \cup {{}} : \E gone \in SUBSET Entered(c) :
        /\ SetsOf(table') = Entered(c) \ gone
        /\ Sets(ready') = Sets(ready) \cup gone

LEMMA EntryIs ==
    ASSUME TypeOK', Once', NoneEmpty, NEW c \in SetsOf(table) \cup {{}}, NEW gone,
           SetsOf(table') \cup gone = Entered(c),
           Sets(ready') = Sets(ready) \cup gone
    PROVE  Enters /\ NoneEmpty'
<1>1. {} \notin Entered(c)
  <2>1. c \cup {Len(log) + 1} # {}
    OBVIOUS
  <2> QED BY <2>1 DEF Entered, NoneEmpty
<1>2. \A x \in SetsOf(table') : x \in Sets(ready') => x = {}
  <2>1. (\A x \in SetsOf(table) : x \in Sets(ready) => x = {})'
    BY Apart, PTL
  <2> QED BY <2>1
<1>3. SetsOf(table') = Entered(c) \ gone /\ gone \in SUBSET Entered(c)
  BY <1>1, <1>2
<1>4. NoneEmpty'
  BY <1>1 DEF NoneEmpty
<1> QED BY <1>3, <1>4 DEF Enters

LEMMA AddEnters ==
    ASSUME IInv, IInv', Once, Once', NoneEmpty,
           NEW p \in Packets, NEW ts \in Times, Add(p, ts)
    PROVE  Enters /\ NoneEmpty'
<1> DEFINE c   == Class(p)
           t   == table[c]
           now == Later(clock, ts)
           new == Len(log) + 1
           beside == Beside(table, c)
<1>1. Arrive(p, ts) /\ TypeOK /\ TypeOK'
  BY DEF Add, AddFirst, AddNext, AddReuse, IInv
<1>2. now \in Nat /\ c \in Classes /\ t \in Seq(State) /\ <<>> \in Seq(Flow)
  BY <1>1, ArriveFacts, PacketFacts, EmptySeq DEF TypeOK
<1>3. OpenFlow(p, ts) \in State /\ OpenFlow(p, ts).flow.frames = {}
  BY <1>1, ArriveFacts, OpenFlowFacts, OpenFlowFrames
<1>4. Sets(<<>>) = {} /\ SetsOf(table) = beside \cup SetsIn(t)
  BY <1>2, SetsEmpty, OwnSets
<1>5. ASSUME NEW i \in 1..Len(t)
      PROVE  /\ Without(t, i) \in Seq(State) /\ t[i] \in State /\ t[i].flow \in Flow
             /\ t[i].flow.frames \notin beside \cup SetsIn(Without(t, i))
             /\ SetsOf(table) = beside \cup SetsIn(Without(t, i)) \cup {t[i].flow.frames}
  <2>1. Without(t, i) \in Seq(State) /\ t[i] \in State /\ t[i].flow \in Flow
    BY <1>2, WithoutOne, StateAt
  <2> QED BY <1>1, <1>2, <2>1, Alone
<1>6. {} \cup {new} = {new} /\ {} \in SetsOf(table) \cup {{}}
  OBVIOUS
<1>7. CASE AddFirst(p, ts)
  <2>1. Settle(p, ts, now, t, OpenFlow(p, ts), <<>>)
    BY <1>7 DEF AddFirst
  <2>2. PICK gone :
          /\ SetsOf(table') \cup gone
               = beside \cup SetsIn(t) \cup {OpenFlow(p, ts).flow.frames \cup {new}}
          /\ Sets(ready') = Sets(ready) \cup Sets(<<>>) \cup gone
    <3>1. SettledSets(p, t, OpenFlow(p, ts), <<>>)
      <4> HIDE DEF t, now
      <4> QED BY <1>1, <1>2, <1>3, <2>1, SettleSets
    <3> QED BY <3>1 DEF SettledSets
  <2>3. SetsOf(table') \cup gone = SetsOf(table) \cup {{new}}
    BY <1>3, <1>4, <2>2
  <2>4. SetsOf(table') \cup gone = Entered({})
    BY <2>3 DEF Entered, NoneEmpty
  <2>5. Sets(ready') = Sets(ready) \cup gone
    BY <1>4, <2>2
  <2> QED BY <1>1, <1>6, <2>4, <2>5, EntryIs
<1>8. CASE AddNext(p, ts)
  <2>1. PICK i \in 1..Len(t) :
          Settle(p, ts, now, Without(t, i), Reorient(t[i], p), <<>>)
    BY <1>8 DEF AddNext, At
  <2> DEFINE x == t[i].flow.frames
             rest == Without(t, i)
  <2>2. Reorient(t[i], p) \in State /\ Reorient(t[i], p).flow.frames = x
    BY <1>5, ReorientFacts, ReorientFrames
  <2>3. rest \in Seq(State)
    BY <1>5
  <2>4. PICK gone :
          /\ SetsOf(table') \cup gone
               = beside \cup SetsIn(rest) \cup {Reorient(t[i], p).flow.frames \cup {new}}
          /\ Sets(ready') = Sets(ready) \cup Sets(<<>>) \cup gone
    <3>1. Settle(p, ts, now, rest, Reorient(t[i], p), <<>>)
      BY <2>1
    <3>2. SettledSets(p, rest, Reorient(t[i], p), <<>>)
      <4> HIDE DEF t, now, rest
      <4> QED BY <1>1, <1>2, <2>2, <2>3, <3>1, SettleSets
    <3> QED BY <3>2 DEF SettledSets
  <2>5. SetsOf(table) = beside \cup SetsIn(rest) \cup {x} /\ x \notin beside \cup SetsIn(rest)
    BY <1>5
  <2>6. SetsOf(table') \cup gone = Entered(x)
    <3>1. SetsOf(table') \cup gone = beside \cup SetsIn(rest) \cup {x \cup {new}}
      BY <2>2, <2>4
    <3> HIDE DEF x, rest, beside
    <3>2. SetsOf(table) \ {x} = beside \cup SetsIn(rest)
      BY <2>5
    <3> QED BY <3>1, <3>2 DEF Entered
  <2>7. Sets(ready') = Sets(ready) \cup gone /\ x \in SetsOf(table) \cup {{}}
    BY <1>4, <2>4, <2>5
  <2> HIDE DEF x
  <2> QED BY <1>1, <2>6, <2>7, EntryIs
<1>9. CASE AddReuse(p, ts)
  <2>1. PICK i \in 1..Len(t) :
          Settle(p, ts, now, Without(t, i), OpenFlow(p, ts), <<t[i].flow>>)
    BY <1>9 DEF AddReuse, At
  <2> DEFINE x == t[i].flow.frames
             rest == Without(t, i)
             old == <<t[i].flow>>
  <2>2. t[i].flow \in Flow /\ rest \in Seq(State)
    BY <1>5
  <2>3. old \in Seq(Flow) /\ Sets(old) = {x}
    BY <2>2, SetsOne
  <2>4. PICK gone :
          /\ SetsOf(table') \cup gone
               = beside \cup SetsIn(rest) \cup {OpenFlow(p, ts).flow.frames \cup {new}}
          /\ Sets(ready') = Sets(ready) \cup Sets(old) \cup gone
    <3>1. Settle(p, ts, now, rest, OpenFlow(p, ts), old)
      BY <2>1
    <3>2. SettledSets(p, rest, OpenFlow(p, ts), old)
      <4> HIDE DEF t, now, rest, old
      <4> QED BY <1>1, <1>2, <1>3, <2>2, <2>3, <3>1, SettleSets
    <3> QED BY <3>2 DEF SettledSets
  <2>5. SetsOf(table) = beside \cup SetsIn(rest) \cup {x}
    BY <1>5
  <2>6. SetsOf(table') \cup (gone \cup {x}) = Entered({})
    <3>1. SetsOf(table') \cup gone = beside \cup SetsIn(rest) \cup {{new}}
      BY <1>3, <2>4
    <3> HIDE DEF x, rest, beside
    <3>2. SetsOf(table') \cup (gone \cup {x}) = SetsOf(table) \cup {{new}}
      BY <2>5, <3>1
    <3> QED BY <3>2 DEF Entered, NoneEmpty
  <2>7. Sets(ready') = Sets(ready) \cup (gone \cup {x})
    BY <2>3, <2>4
  <2> HIDE DEF x
  <2> QED BY <1>1, <1>6, <2>6, <2>7, EntryIs
<1> QED BY <1>7, <1>8, <1>9 DEF Add

-----------------------------------------------------------------------------
(* One collection *)

LEMMA FramesOfSets ==
    ASSUME NEW flows
    PROVE  FramesOf(flows) = UNION Sets(flows)
BY DEF FramesOf, Sets

Collects ==
    /\ \E gone \in SUBSET SetsOf(table) :
         /\ SetsOf(table') = SetsOf(table) \ gone
         /\ handed' = handed \cup UNION (Sets(ready) \cup gone)
    /\ Sets(ready') = {}

LEMMA ExpireCollects ==
    ASSUME IInv, IInv', Once, NoneEmpty, NEW time \in Times, Expire(time)
    PROVE  Collects /\ NoneEmpty'
<1> DEFINE now == Later(clock, time)
           lost == Expired(table, now)
           gone == Sets(lost)
<1>1. TypeOK /\ Typed(table) /\ Typed(table') /\ ready \in Seq(Flow)
  BY DEF IInv, TypeOK, Typed
<1>2. now \in Int
  BY TimesAssumption DEF IInv, TypeOK, Later, NoTime
<1>3. /\ table' = Swept(table, now) /\ ready' = <<>>
      /\ handed' = handed \cup FramesOf(ready \o lost)
  BY DEF Expire
<1> HIDE DEF now
<1>4. lost \in Seq(Flow)
  BY <1>1, <1>2, ExpiredType
<1>5. SetsOf(table) = SetsOf(table') \cup gone
  BY <1>1, <1>2, <1>3, SweptSets
<1>6. \A no \in Nat : InTables(no, table) = InTables(no, table') + Copies(no, lost)
  BY <1>1, <1>2, <1>3, SweptCopies
<1> HIDE DEF lost
<1>7. SetsOf(table') \cap gone = {}
  <2> SUFFICES ASSUME NEW x \in SetsOf(table'), x \in gone PROVE FALSE
    OBVIOUS
  <2>1. PICK no : no \in x
    BY <1>5 DEF NoneEmpty
  <2>2. no \in Nat /\ Copies(no, lost) > 0 /\ Copies(no, lost) \in Nat
    BY <1>4, <2>1, SetsCounted, HoldingFinite
  <2>3. /\ InTable(no, table'["tcp"]) \in Nat /\ InTable(no, table'["other"]) \in Nat
        /\ InTable(no, table["tcp"]) \in Nat /\ InTable(no, table["other"]) \in Nat
        /\ Flows(table'["tcp"]) \in Seq(Flow) /\ Flows(table'["other"]) \in Seq(Flow)
    BY <1>1, FlowsType, InTableType DEF Typed, Classes
  <2>4. InTable(no, table'["tcp"]) > 0 \/ InTable(no, table'["other"]) > 0
    <3>1. x \in Sets(Flows(table'["tcp"])) \/ x \in Sets(Flows(table'["other"]))
      BY DEF SetsOf, SetsIn
    <3> QED BY <2>1, <2>3, <3>1, SetsCounted DEF InTable
  <2>5. InTable(no, table["tcp"]) + InTable(no, table["other"])
          = InTable(no, table'["tcp"]) + InTable(no, table'["other"]) + Copies(no, lost)
    BY <1>6, <2>2 DEF InTables
  <2>6. InTable(no, table["tcp"]) + InTable(no, table["other"]) <= 1
    <3>1. Copies(no, ready) \in Nat
      BY <1>1, HoldingFinite
    <3> QED BY <1>1, <2>2, <2>3, <3>1, AtMostOne
  <2> QED BY <2>2, <2>3, <2>4, <2>5, <2>6, SMTT(60)
<1>8. handed' = handed \cup UNION (Sets(ready) \cup gone)
  BY <1>1, <1>3, <1>4, FramesOfSets, SetsConcat
<1>9. Sets(ready') = {}
  BY <1>3, SetsEmpty
<1> HIDE DEF gone
<1>10. SetsOf(table') = SetsOf(table) \ gone /\ gone \in SUBSET SetsOf(table)
  BY <1>5, <1>7
<1>11. NoneEmpty'
  BY <1>5, <1>9 DEF NoneEmpty
<1> QED BY <1>8, <1>9, <1>10, <1>11 DEF Collects

LEMMA CloseCollects ==
    ASSUME IInv, Close
    PROVE  Collects /\ NoneEmpty'
<1> DEFINE a == Flows(table["tcp"])
           b == Flows(table["other"])
<1>1. a \in Seq(Flow) /\ b \in Seq(Flow) /\ ready \in Seq(Flow)
  BY FlowsType DEF IInv, TypeOK, Classes
<1>2. /\ table'["tcp"] = <<>> /\ table'["other"] = <<>> /\ ready' = <<>>
      /\ handed' = handed \cup FramesOf(ready \o a \o b)
  BY DEF Close, Classes
<1>3. SetsOf(table) = Sets(a) \cup Sets(b)
  BY DEF SetsOf, SetsIn
<1> HIDE DEF a, b
<1>4. SetsOf(table') = {} /\ Sets(ready') = {}
  BY <1>2, SetsEmpty DEF SetsOf
<1>5. Sets(ready \o a \o b) = Sets(ready) \cup SetsOf(table)
  <2>1. ready \o a \in Seq(Flow) /\ Sets(ready \o a) = Sets(ready) \cup Sets(a)
    BY <1>1, ConcatProperties, SetsConcat
  <2>2. Sets(ready \o a \o b) = Sets(ready \o a) \cup Sets(b)
    BY <1>1, <2>1, SetsConcat
  <2> QED BY <1>3, <2>1, <2>2
<1>6. handed' = handed \cup UNION (Sets(ready) \cup SetsOf(table))
  BY <1>2, <1>5, FramesOfSets
<1>7. SetsOf(table') = SetsOf(table) \ SetsOf(table)
  BY <1>4
<1>8. NoneEmpty'
  BY <1>4 DEF NoneEmpty
<1> QED BY <1>4, <1>6, <1>7, <1>8 DEF Collects

-----------------------------------------------------------------------------
(* The refinement *)

LEMMA LiveSets ==
    ASSUME TypeOK
    PROVE  /\ {f.frames : f \in LiveFlows} = SetsOf(table)
           /\ {f.frames : f \in ReadyFlows} = Sets(ready)
<1>1. \A c \in Classes : SetsIn(table[c]) = {table[c][i].flow.frames : i \in 1..Len(table[c])}
  BY FlowsIn, FlowsAt DEF SetsIn, Sets
<1>2. \A x : x \in SetsOf(table) <=>
        \E c \in Classes : \E i \in 1..Len(table[c]) : x = table[c][i].flow.frames
  BY <1>1 DEF SetsOf, Classes
<1>3. \A f : f \in LiveFlows <=>
        \E c \in Classes : \E i \in 1..Len(table[c]) : f = table[c][i].flow
  BY DEF LiveFlows
<1>4. {f.frames : f \in LiveFlows} = SetsOf(table)
  BY <1>2, <1>3
<1>5. {f.frames : f \in ReadyFlows} = Sets(ready)
  BY DEF ReadyFlows, Sets
<1> QED BY <1>4, <1>5

LEMMA InitLedger == Init => Ledger!Init /\ NoneEmpty
<1> SUFFICES ASSUME Init PROVE Ledger!Init /\ NoneEmpty
  OBVIOUS
<1>1. /\ table["tcp"] = <<>> /\ table["other"] = <<>> /\ ready = <<>>
      /\ handed = {} /\ Len(log) = 0
  BY DEF Init, Classes
<1>2. SetsOf(table) = {} /\ Sets(ready) = {}
  BY <1>1, SetsEmpty DEF SetsOf
<1>3. TypeOK
  BY InitInv DEF IInv
<1>4. Ledger!Init
  BY <1>1, <1>2, <1>3, LiveSets DEF Ledger!Init
<1> QED BY <1>2, <1>4 DEF NoneEmpty

LEMMA AddLedger ==
    ASSUME IInv, IInv', Once, Once', NoneEmpty,
           NEW p \in Packets, NEW ts \in Times, Add(p, ts)
    PROVE  Ledger!Next /\ NoneEmpty'
<1>1. Enters /\ NoneEmpty'
  BY AddEnters
<1>2. /\ {f.frames : f \in LiveFlows} = SetsOf(table)
      /\ {f.frames : f \in ReadyFlows} = Sets(ready)
  BY LiveSets DEF IInv
<1>3. /\ {f.frames : f \in LiveFlows}' = SetsOf(table')
      /\ {f.frames : f \in ReadyFlows}' = Sets(ready')
  <2>1. TypeOK'
    BY DEF IInv
  <2>2. ({f.frames : f \in LiveFlows} = SetsOf(table)
           /\ {f.frames : f \in ReadyFlows} = Sets(ready))'
    BY <2>1, LiveSets, PTL
  <2> QED BY <2>2
<1>4. Len(log') = Len(log) + 1 /\ handed' = handed
  <2>1. Arrive(p, ts)
    BY DEF Add, AddFirst, AddNext, AddReuse
  <2> QED BY <2>1, AppendProperties DEF Arrive, IInv, TypeOK
<1>5. Ledger!Enter
  BY <1>1, <1>2, <1>3, <1>4 DEF Ledger!Enter, Enters, Entered
<1> QED BY <1>1, <1>5 DEF Ledger!Next

LEMMA CollectLedger ==
    ASSUME IInv, IInv', Collects, log' = log
    PROVE  Ledger!Next
<1>1. /\ {f.frames : f \in LiveFlows} = SetsOf(table)
      /\ {f.frames : f \in ReadyFlows} = Sets(ready)
  BY LiveSets DEF IInv
<1>2. /\ {f.frames : f \in LiveFlows}' = SetsOf(table')
      /\ {f.frames : f \in ReadyFlows}' = Sets(ready')
  <2>1. TypeOK'
    BY DEF IInv
  <2>2. ({f.frames : f \in LiveFlows} = SetsOf(table)
           /\ {f.frames : f \in ReadyFlows} = Sets(ready))'
    BY <2>1, LiveSets, PTL
  <2> QED BY <2>2
<1>3. Ledger!Collect
  BY <1>1, <1>2 DEF Ledger!Collect, Collects
<1> QED BY <1>3 DEF Ledger!Next

(* The flow table implements the ledger: to its caller an add enters one   *)
(* frame into one conversation, or starts one, and finishes some of them   *)
(* for good; expire and close hand over everything finished, once.         *)
THEOREM ImplementsLedger == Spec => KeepsLedger
<1> DEFINE Inv == IInv /\ Once
<1>1. Init => Ledger!Init /\ NoneEmpty
  BY InitLedger
<1>2. Inv /\ Inv' /\ NoneEmpty /\ [Next]_vars
        => NoneEmpty' /\ [Ledger!Next]_(Ledger!ledger)
  <2> SUFFICES ASSUME Inv, Inv', NoneEmpty, [Next]_vars
               PROVE  NoneEmpty' /\ [Ledger!Next]_(Ledger!ledger)
    OBVIOUS
  <2>1. ASSUME NEW p \in Packets, NEW ts \in Times, Add(p, ts)
        PROVE  NoneEmpty' /\ Ledger!Next
    BY <2>1, AddLedger
  <2>2. ASSUME NEW now \in Times, Expire(now)
        PROVE  NoneEmpty' /\ Ledger!Next
    <3>1. Collects /\ NoneEmpty'
      BY <2>2, ExpireCollects
    <3>2. log' = log
      BY <2>2 DEF Expire
    <3> QED BY <3>1, <3>2, CollectLedger
  <2>3. CASE Close
    <3>1. Collects /\ NoneEmpty'
      BY <2>3, CloseCollects
    <3>2. log' = log
      BY <2>3 DEF Close
    <3> QED BY <3>1, <3>2, CollectLedger
  <2>4. CASE UNCHANGED vars
    <3>1. NoneEmpty'
      BY <2>4 DEF NoneEmpty, vars
    <3>2. UNCHANGED Ledger!ledger
      BY <2>4 DEF vars, Ledger!ledger, LiveFlows, ReadyFlows
    <3> QED BY <3>1, <3>2
  <2> QED BY <2>1, <2>2, <2>3, <2>4 DEF Next
<1> QED BY <1>1, <1>2, NothingLostOrDoubled, PTL DEF Spec, KeepsLedger, Ledger!Spec


-----------------------------------------------------------------------------
(* What the ledger promises, and with it the table: the conversations kept *)
(* partition the frames that were not collected yet.                       *)

Partitioned(n, open, done, collected) ==
    /\ n \in Nat
    /\ \A a, b \in open \cup done : a # b => a \cap b = {}
    /\ open \cap done = {}
    /\ \A a \in open \cup done : a # {} /\ a \cap collected = {}
    /\ \A no \in 1..n : no \in collected \/ \E a \in open \cup done : no \in a
    /\ collected \subseteq 1..n /\ \A a \in open \cup done : a \subseteq 1..n

LEMMA PartitionNone == Partitioned(0, {}, {}, {})
BY DEF Partitioned

LEMMA PartitionEntered ==
    ASSUME NEW count, NEW open, NEW done, NEW collected,
           Partitioned(count, open, done, collected), NEW c \in open \cup {{}},
           NEW gone \in SUBSET ((open \ {c}) \cup {c \cup {count + 1}})
    PROVE  Partitioned(count + 1, ((open \ {c}) \cup {c \cup {count + 1}}) \ gone,
                       done \cup gone, collected)
<1> DEFINE n     == count + 1
           own   == c \cup {n}
           Kept  == open \cup done
           rest  == Kept \ {c}
           open2 == ((open \ {c}) \cup {own}) \ gone
           done2 == done \cup gone
           Now   == open2 \cup done2
<1>1. n \in Nat /\ 1..n = (1..count) \cup {n} /\ n \notin 1..count
  BY DEF Partitioned
<1> HIDE DEF n
<1>2. n \notin collected /\ \A a \in Kept : n \notin a
  <2>1. collected \subseteq 1..count /\ \A a \in Kept : a \subseteq 1..count
    BY DEF Partitioned
  <2> QED BY <1>1, <2>1
<1>3. c \notin done
  BY DEF Partitioned
<1>4. Now = rest \cup {own}
  BY <1>3 DEF n
<1>5. own \notin Kept
  BY <1>2
<1>6. open2 \cap done2 = {}
  <2>1. open \cap done = {}
    BY DEF Partitioned
  <2>2. own \notin done
    BY <1>5
  <2> QED BY <2>1, <2>2 DEF n
<1>7. \A a \in rest : a \cap own = {}
  BY <1>2 DEF Partitioned
<1>8. \A a, b \in Now : a # b => a \cap b = {}
  BY <1>4, <1>7 DEF Partitioned
<1>9. \A a \in Now : a # {} /\ a \cap collected = {}
  <2>1. own \cap collected = {}
    BY <1>2 DEF Partitioned
  <2> QED BY <1>4, <2>1 DEF Partitioned
<1>10. ASSUME NEW no \in 1..n
       PROVE  no \in collected \/ \E a \in Now : no \in a
  <2>1. own \in Now
    BY <1>4
  <2>2. CASE no = n
    BY <2>1, <2>2
  <2>3. CASE no # n
    <3>1. no \in collected \/ \E a \in Kept : no \in a
      BY <1>1, <2>3 DEF Partitioned
    <3>2. ASSUME NEW a \in Kept, no \in a PROVE \E b \in Now : no \in b
      <4>1. CASE a = c
        BY <2>1, <3>2, <4>1
      <4>2. CASE a # c
        BY <1>4, <3>2, <4>2
      <4> QED BY <4>1, <4>2
    <3> QED BY <3>1, <3>2
  <2> QED BY <2>2, <2>3
<1>11. collected \subseteq 1..n /\ \A a \in Now : a \subseteq 1..n
  <2>1. collected \subseteq 1..count /\ \A a \in Kept : a \subseteq 1..count
    BY DEF Partitioned
  <2>2. c \subseteq 1..count
    BY <2>1
  <2> QED BY <1>1, <1>4, <2>1, <2>2
<1>12. Partitioned(n, open2, done2, collected)
  BY <1>1, <1>6, <1>8, <1>9, <1>10, <1>11 DEF Partitioned
<1> QED BY <1>12 DEF n

LEMMA PartitionCollected ==
    ASSUME NEW count, NEW open, NEW done, NEW collected,
           Partitioned(count, open, done, collected), NEW gone \in SUBSET open
    PROVE  Partitioned(count, open \ gone, {}, collected \cup UNION (done \cup gone))
<1> DEFINE Kept == open \cup done
           now  == collected \cup UNION (done \cup gone)
           Now  == (open \ gone) \cup {}
<1>1. count \in Nat /\ \A a, b \in Now : a # b => a \cap b = {}
  BY DEF Partitioned
<1>2. \A a \in open \ gone : \A b \in done \cup gone : a # b
  BY DEF Partitioned
<1>3. \A a \in Now : a # {} /\ a \cap now = {}
  BY <1>2 DEF Partitioned
<1>4. \A no : (no \in now \/ \E a \in Now : no \in a)
                <=> (no \in collected \/ \E a \in Kept : no \in a)
  OBVIOUS
<1>5. \A no \in 1..count : no \in now \/ \E a \in Now : no \in a
  BY <1>4 DEF Partitioned
<1>6. now \subseteq 1..count /\ \A a \in Now : a \subseteq 1..count
  BY DEF Partitioned
<1> QED BY <1>1, <1>3, <1>5, <1>6 DEF Partitioned

(* Partition of the ledger, for the table: the frames that were counted    *)
(* and not yet handed out are each in exactly one conversation, open or    *)
(* finished, and no conversation is both.                                  *)
THEOREM LedgerPartition == Spec => []Ledger!Partition
<1> DEFINE open == {f.frames : f \in LiveFlows}
           done == {f.frames : f \in ReadyFlows}
           L == Partitioned(Len(log), open, done, handed)
<1>1. L => Ledger!Partition
  BY DEF Partitioned, Ledger!Partition, Ledger!Kept
<1>2. Ledger!Init => L
  BY PartitionNone DEF Ledger!Init
<1>3. L /\ [Ledger!Next]_(Ledger!ledger) => L'
  <2> SUFFICES ASSUME L, [Ledger!Next]_(Ledger!ledger) PROVE L'
    OBVIOUS
  <2>1. CASE Ledger!Enter
    <3> HIDE DEF open, done
    <3>1. PICK c \in open \cup {{}} :
             \E gone \in SUBSET ((open \ {c}) \cup {c \cup {Len(log) + 1}}) :
                /\ open' = ((open \ {c}) \cup {c \cup {Len(log) + 1}}) \ gone
                /\ done' = done \cup gone
      BY <2>1 DEF Ledger!Enter, open, done
    <3>2. PICK gone \in SUBSET ((open \ {c}) \cup {c \cup {Len(log) + 1}}) :
             /\ open' = ((open \ {c}) \cup {c \cup {Len(log) + 1}}) \ gone
             /\ done' = done \cup gone
      BY <3>1
    <3>3. Len(log)' = Len(log) + 1 /\ handed' = handed
      BY <2>1 DEF Ledger!Enter
    <3>4. Partitioned(Len(log) + 1, ((open \ {c}) \cup {c \cup {Len(log) + 1}}) \ gone,
                      done \cup gone, handed)
      <4> DEFINE n == Len(log)
      <4>1. Partitioned(n, open, done, handed)
        OBVIOUS
      <4> HIDE DEF n
      <4>2. gone \in SUBSET ((open \ {c}) \cup {c \cup {n + 1}})
        BY DEF n
      <4>3. Partitioned(n + 1, ((open \ {c}) \cup {c \cup {n + 1}}) \ gone,
                        done \cup gone, handed)
        BY <4>1, <4>2, PartitionEntered, Zenon
      <4> QED BY <4>3 DEF n
    <3> QED BY <3>2, <3>3, <3>4
  <2>2. CASE Ledger!Collect
    <3> HIDE DEF open, done
    <3>1. PICK gone \in SUBSET open :
             /\ open' = open \ gone
             /\ handed' = handed \cup UNION (done \cup gone)
      BY <2>2 DEF Ledger!Collect, open, done
    <3>2. done' = {} /\ Len(log)' = Len(log)
      BY <2>2 DEF Ledger!Collect, done
    <3> QED BY <3>1, <3>2, PartitionCollected
  <2>3. CASE UNCHANGED Ledger!ledger
    <3>1. Len(log)' = Len(log) /\ open' = open /\ done' = done /\ handed' = handed
      BY <2>3 DEF Ledger!ledger
    <3> HIDE DEF open, done
    <3> QED BY <3>1 DEF Partitioned
  <2> QED BY <2>1, <2>2, <2>3 DEF Ledger!Next
<1> QED BY <1>1, <1>2, <1>3, ImplementsLedger, PTL DEF KeepsLedger, Ledger!Spec

-----------------------------------------------------------------------------
(* What a flow of the table says about its frames.                         *)
(*                                                                         *)
(* The argument has two halves.  The first follows an add through its      *)
(* helpers and says where the states of the next table and the flows it    *)
(* finishes come from: SettleSources.  The second says what a state keeps  *)
(* true of the frames it was folded from, and that folding one more frame  *)
(* keeps it true.                                                          *)

LEMMA Fewer ==
    ASSUME NEW a \in Nat, NEW b \in Nat, NEW m \in Nat, a + b > m, a + b <= m + 1
    PROVE  (a - 1) + b = m /\ a + (b - 1) = m
OBVIOUS

LEMMA OneMore ==
    ASSUME NEW a \in Nat, NEW b \in Nat, NEW m \in Nat, NEW n \in Nat, a + b <= m
    PROVE  /\ n <= a + 1 => n + b <= m + 1
           /\ n <= b + 1 => a + n <= m + 1
OBVIOUS

-----------------------------------------------------------------------------
(* Where the states and the flows after an add come from.  k is the state  *)
(* of the frame that arrived, with the frame counted.                      *)

\* A state the sweep and the ceiling find in table c.
Survives(st, c, p, k) ==
    \/ \E j \in 1..Len(table[c]) : st = table[c][j]
    \/ c = Class(p) /\ ~Finishes(k, p) /\ st = Marked(k, p)

Continues(x, p, now) == x.canon = Canon(p) /\ ~ReusesTuple(x, p, now)
Reopened(x, p, now)  == x.canon = Canon(p) /\ ReusesTuple(x, p, now)

Replaced(f, p, now) ==
    \E j \in 1..Len(table[Class(p)]) :
        Reopened(table[Class(p)][j], p, now) /\ f = table[Class(p)][j].flow

Timed(f, p, now, k) ==
    \E c \in Classes : \E st \in State :
        Survives(st, c, p, k) /\ Idle(st, c, now) /\ f = st.flow

Crowded(f, p, k) ==
    /\ Held(table') = MaxFlows
    /\ \E c \in Classes : \E st \in State : Survives(st, c, p, k) /\ f = st.flow
    /\ \A c \in Classes : \A i \in 1..Len(table'[c]) :
          f.end <= table'[c][i].flow.end + Skew

Left(f, p, now, k) ==
    \/ Replaced(f, p, now)
    \/ Finishes(k, p) /\ f = k.flow
    \/ Timed(f, p, now, k)
    \/ Crowded(f, p, k)

Origins(p, now, k) ==
    /\ \A c \in Classes : \A i \in 1..Len(table'[c]) : Survives(table'[c][i], c, p, k)
    /\ \A i \in 1..Len(ready) : ready'[i] = ready[i]
    /\ \A i \in (Len(ready) + 1)..Len(ready') : Left(ready'[i], p, now, k)

LEMMA ConcatBeyond ==
    ASSUME NEW S, NEW a \in Seq(S), NEW b \in Seq(S), NEW n \in Nat, n <= Len(a)
    PROVE  /\ a \o b \in Seq(S) /\ n <= Len(a \o b)
           /\ \A i \in 1..n : (a \o b)[i] = a[i]
           /\ \A i \in (n + 1)..Len(a \o b) :
                 \/ i \in (n + 1)..Len(a) /\ (a \o b)[i] = a[i]
                 \/ \E j \in 1..Len(b) : (a \o b)[i] = b[j]
<1>1. /\ a \o b \in Seq(S) /\ Len(a \o b) = Len(a) + Len(b)
      /\ Len(a) \in Nat /\ Len(b) \in Nat
      /\ \A i \in 1..(Len(a) + Len(b)) :
            (a \o b)[i] = IF i <= Len(a) THEN a[i] ELSE b[i - Len(a)]
  BY ConcatProperties, LenProperties
<1>2. \A i \in 1..n : (a \o b)[i] = a[i]
  BY <1>1
<1>3. ASSUME NEW i \in (n + 1)..Len(a \o b)
      PROVE  \/ i \in (n + 1)..Len(a) /\ (a \o b)[i] = a[i]
             \/ \E j \in 1..Len(b) : (a \o b)[i] = b[j]
  <2>1. CASE i <= Len(a)
    BY <1>1, <2>1
  <2>2. CASE i > Len(a)
    <3>1. i - Len(a) \in 1..Len(b) /\ (a \o b)[i] = b[i - Len(a)]
      BY <1>1, <2>2
    <3> QED BY <3>1
  <2> QED BY <1>1, <2>1, <2>2
<1> QED BY <1>1, <1>2, <1>3

LEMMA ConcatParts ==
    ASSUME NEW S, NEW a \in Seq(S), NEW b \in Seq(S)
    PROVE  /\ a \o b \in Seq(S)
           /\ \A i \in 1..Len(a \o b) :
                 \/ i \in 1..Len(a) /\ (a \o b)[i] = a[i]
                 \/ \E j \in 1..Len(b) : (a \o b)[i] = b[j]
<1> DEFINE n == 0
<1>1. n \in Nat /\ n <= Len(a) /\ n + 1 = 1
  BY LenProperties
<1> HIDE DEF n
<1>2. /\ a \o b \in Seq(S)
      /\ \A i \in (n + 1)..Len(a \o b) :
            \/ i \in (n + 1)..Len(a) /\ (a \o b)[i] = a[i]
            \/ \E j \in 1..Len(b) : (a \o b)[i] = b[j]
  BY <1>1, ConcatBeyond
<1> QED BY <1>1, <1>2

\* What the sweep keeps and what it expires were in the table.
LEMMA SweptSources ==
    ASSUME NEW tab, Typed(tab), NEW now \in Int, NEW c \in Classes
    PROVE  LET k == Fresh(tab[c], c, now)
               gone == SubSeq(tab[c], 1, k - 1)
               kept == SubSeq(tab[c], k, Len(tab[c]))
           IN  /\ gone \in Seq(State)
               /\ \A i \in 1..Len(Flows(gone)) : \E j \in 1..Len(tab[c]) :
                     Idle(tab[c][j], c, now) /\ Flows(gone)[i] = tab[c][j].flow
               /\ Swept(tab, now)[c] = kept
               /\ \A i \in 1..Len(kept) : \E j \in 1..Len(tab[c]) : kept[i] = tab[c][j]
<1> DEFINE t == tab[c]
           k == Fresh(t, c, now)
           gone == SubSeq(t, 1, k - 1)
           kept == SubSeq(t, k, Len(t))
<1>1. t \in Seq(State) /\ Len(t) \in Nat
  BY LenProperties DEF Typed
<1>2. /\ k \in 1..(Len(t) + 1)
      /\ \A i \in 1..(k - 1) : Idle(t[i], c, now)
  BY <1>1, FreshFacts
<1>3. Swept(tab, now)[c] = kept
  BY DEF Swept
<1> HIDE DEF k, t
<1>4. /\ gone \in Seq(State) /\ Len(gone) = k - 1
      /\ \A i \in 1..(k - 1) : gone[i] = t[i]
  BY <1>1, <1>2, SubSeqProperties, ElementOfSeq
<1>5. Len(kept) = Len(t) + 1 - k /\ \A i \in 1..Len(kept) : kept[i] = t[k + i - 1]
  BY <1>1, <1>2, SubSeqProperties, ElementOfSeq
<1> HIDE DEF gone, kept
<1>6. ASSUME NEW i \in 1..Len(Flows(gone))
      PROVE  \E j \in 1..Len(t) : Idle(t[j], c, now) /\ Flows(gone)[i] = t[j].flow
  <2>1. i \in 1..(k - 1) /\ Flows(gone)[i] = gone[i].flow
    BY <1>4, FlowsAt
  <2>2. i \in 1..Len(t) /\ gone[i] = t[i] /\ Idle(t[i], c, now)
    BY <1>1, <1>2, <1>4, <2>1
  <2> QED BY <2>1, <2>2
<1>7. ASSUME NEW i \in 1..Len(kept)
      PROVE  \E j \in 1..Len(t) : kept[i] = t[j]
  <2>1. k + i - 1 \in 1..Len(t) /\ kept[i] = t[k + i - 1]
    BY <1>1, <1>2, <1>5
  <2> QED BY <2>1
<1> QED BY <1>3, <1>4, <1>6, <1>7 DEF gone, kept, k, t

LEMMA ExpiredSources ==
    ASSUME NEW tab, Typed(tab), NEW now \in Int
    PROVE  /\ Expired(tab, now) \in Seq(Flow)
           /\ \A i \in 1..Len(Expired(tab, now)) :
                 \E c \in Classes : \E j \in 1..Len(tab[c]) :
                     Idle(tab[c][j], c, now) /\ Expired(tab, now)[i] = tab[c][j].flow
<1> DEFINE gone(c) == Flows(SubSeq(tab[c], 1, Fresh(tab[c], c, now) - 1))
<1>1. Expired(tab, now) = gone("tcp") \o gone("other")
  BY DEF Expired
<1>2. ASSUME NEW c \in Classes
      PROVE  /\ gone(c) \in Seq(Flow)
             /\ \A i \in 1..Len(gone(c)) : \E j \in 1..Len(tab[c]) :
                   Idle(tab[c][j], c, now) /\ gone(c)[i] = tab[c][j].flow
  <2> DEFINE g == SubSeq(tab[c], 1, Fresh(tab[c], c, now) - 1)
  <2>1. /\ g \in Seq(State)
        /\ \A i \in 1..Len(Flows(g)) : \E j \in 1..Len(tab[c]) :
              Idle(tab[c][j], c, now) /\ Flows(g)[i] = tab[c][j].flow
    BY SweptSources
  <2>2. gone(c) = Flows(g)
    OBVIOUS
  <2> HIDE DEF g, gone
  <2> QED BY <2>1, <2>2, FlowsType
<1>3. "tcp" \in Classes /\ "other" \in Classes
  BY DEF Classes
<1> HIDE DEF gone
<1> DEFINE a == gone("tcp")
           b == gone("other")
<1>4. a \in Seq(Flow) /\ b \in Seq(Flow) /\ 0 \in Nat /\ 0 <= Len(a)
  BY <1>2, <1>3, LenProperties
<1> HIDE DEF a, b
<1>5. /\ a \o b \in Seq(Flow)
      /\ \A i \in 1..Len(a \o b) :
            \/ i \in 1..Len(a) /\ (a \o b)[i] = a[i]
            \/ \E j \in 1..Len(b) : (a \o b)[i] = b[j]
  BY <1>4, ConcatParts
<1>6. ASSUME NEW i \in 1..Len(a \o b)
      PROVE  \E c \in Classes : \E j \in 1..Len(tab[c]) :
                Idle(tab[c][j], c, now) /\ (a \o b)[i] = tab[c][j].flow
  <2>1. \/ i \in 1..Len(a) /\ (a \o b)[i] = a[i]
        \/ \E j \in 1..Len(b) : (a \o b)[i] = b[j]
    BY <1>5
  <2> QED BY <1>2, <1>3, <2>1 DEF a, b
<1>7. Expired(tab, now) = a \o b
  BY <1>1 DEF a, b
<1> QED BY <1>5, <1>6, <1>7

EvictsOldest(tab, capped, out) ==
    /\ out \in Seq(Flow)
    /\ \A c \in Classes : \A i \in 1..Len(capped[c]) :
          \E j \in 1..Len(tab[c]) : capped[c][i] = tab[c][j]
    /\ \A i \in 1..Len(out) :
          /\ Held(capped) = MaxFlows
          /\ \E c \in Classes : \E j \in 1..Len(tab[c]) : out[i] = tab[c][j].flow
          /\ \A c \in Classes : \A j \in 1..Len(capped[c]) :
                out[i].end <= capped[c][j].flow.end + Skew

\* The front the ceiling evicts was active no later than all that stay, up
\* to the skew.
LEMMA CappedSources ==
    ASSUME NEW tab, Typed(tab), NEW now \in Int, InOrder(tab, now),
           Held(tab) <= MaxFlows + 1
    PROVE  EvictsOldest(tab, Capped(tab), Evicted(tab))
<1>1. CASE ~Over(tab)
  <2>1. Capped(tab) = tab /\ Evicted(tab) = <<>>
    BY <1>1 DEF Capped, Evicted
  <2> QED BY <2>1, EmptySeq DEF EvictsOldest
<1>2. CASE Over(tab)
  <2> DEFINE v == Victim(tab)
             t == tab[v]
             u == Tail(t)
             front == t[1].flow
             capped == [tab EXCEPT ![v] = u]
  <2>1. /\ v \in Classes /\ t \in Seq(State) /\ u \in Seq(State)
        /\ front \in Flow /\ t = <<t[1]>> \o u
        /\ Capped(tab) = capped /\ Evicted(tab) = <<front>>
    BY <1>2, VictimFacts
  <2>2. \A d \in Classes : tab[d] # <<>> => front.end <= tab[d][1].flow.end
    <3>1. \A d \in Classes : tab[d] # <<>> => tab[d][1].flow.end \in Nat
      <4> SUFFICES ASSUME NEW d \in Classes, tab[d] # <<>> PROVE tab[d][1].flow.end \in Nat
        OBVIOUS
      <4>1. tab[d] \in Seq(State) /\ 1 \in 1..Len(tab[d])
        BY EmptySeq, LenProperties DEF Typed
      <4> QED BY <4>1, StateAt
    <3>2. CASE tab["tcp"] # <<>> /\ (tab["other"] # <<>> =>
                 tab["tcp"][1].flow.end <= tab["other"][1].flow.end)
      <4>1. v = "tcp"
        BY <3>2 DEF Victim
      <4> HIDE DEF v
      <4> QED BY <3>1, <3>2, <4>1 DEF Classes
    <3>3. CASE ~(tab["tcp"] # <<>> /\ (tab["other"] # <<>> =>
                 tab["tcp"][1].flow.end <= tab["other"][1].flow.end))
      <4>1. v = "other"
        BY <3>3 DEF Victim
      <4>2. tab["tcp"] # <<>> =>
              tab["other"] # <<>> /\ ~(tab["tcp"][1].flow.end <= tab["other"][1].flow.end)
        BY <3>3
      <4>3. tab["tcp"] # <<>> => tab["other"][1].flow.end <= tab["tcp"][1].flow.end
        BY <3>1, <4>2 DEF Classes
      <4>4. tab["other"] # <<>> => tab["other"][1].flow.end <= tab["other"][1].flow.end
        BY <3>1 DEF Classes
      <4> HIDE DEF v
      <4> QED BY <4>1, <4>3, <4>4 DEF Classes
    <3> QED BY <3>2, <3>3
  <2> HIDE DEF v
  <2>3. /\ Len(t) \in Nat \ {0} /\ Len(u) = Len(t) - 1
        /\ \A i \in 1..Len(u) : u[i] = t[i + 1]
    <3>1. t # <<>>
      <4>1. Len(t) = 1 + Len(u) /\ Len(u) \in Nat
        BY <2>1, ConcatProperties, LenProperties
      <4> QED BY <4>1
    <3> HIDE DEF t
    <3> QED BY <2>1, <3>1, HeadTailProperties, LenProperties, EmptySeq
  <2>4. /\ Typed(capped)
        /\ \A d \in Classes : capped[d] = IF d = v THEN u ELSE tab[d]
    BY <2>1 DEF Typed
  <2>5. Held(capped) = MaxFlows
    <3>1. Held(tab) \in Nat /\ Held(tab) > MaxFlows /\ MaxFlows \in Nat
      BY <1>2, HeldType, MaxFlowsAssumption DEF Over
    <3>2. /\ Len(tab["tcp"]) \in Nat /\ Len(tab["other"]) \in Nat
      BY LenProperties DEF Typed, Classes
    <3>3. CASE v = "tcp"
      <4>1. capped["tcp"] = u /\ capped["other"] = tab["other"] /\ Len(u) = Len(tab["tcp"]) - 1
        BY <2>3, <2>4, <3>3 DEF Classes
      <4>2. Len(capped["tcp"]) = Len(tab["tcp"]) - 1 /\ Len(capped["other"]) = Len(tab["other"])
        BY <4>1
      <4> QED BY <3>1, <3>2, <4>2, Fewer DEF Held
    <3>4. CASE v = "other"
      <4>1. capped["other"] = u /\ capped["tcp"] = tab["tcp"] /\ Len(u) = Len(tab["other"]) - 1
        BY <2>3, <2>4, <3>4 DEF Classes
      <4>2. Len(capped["other"]) = Len(tab["other"]) - 1 /\ Len(capped["tcp"]) = Len(tab["tcp"])
        BY <4>1
      <4> QED BY <3>1, <3>2, <4>2, Fewer DEF Held
    <3> QED BY <2>1, <3>3, <3>4 DEF Classes
  <2> HIDE DEF capped, u
  <2>6. ASSUME NEW d \in Classes, NEW i \in 1..Len(capped[d])
        PROVE  \E j \in 1..Len(tab[d]) : /\ capped[d][i] = tab[d][j]
                                         /\ front.end <= tab[d][j].flow.end + Skew
    <3>1. tab[d] \in Seq(State) /\ Ordered(tab[d], now) /\ Len(tab[d]) \in Nat
      BY LenProperties DEF Typed, InOrder
    <3>2. ASSUME NEW j \in 1..Len(tab[d])
          PROVE  front.end <= tab[d][j].flow.end + Skew
      <4>1. /\ tab[d] # <<>> /\ 1 \in 1..Len(tab[d])
            /\ tab[d][1].flow.end \in Nat /\ tab[d][j].flow.end \in Nat
        BY <3>1, <3>2, StateAt, EmptySeq
      <4>2. front.end <= tab[d][1].flow.end /\ front.end \in Nat
        BY <2>1, <2>2, <4>1 DEF Flow
      <4>3. tab[d][j].flow.end >= tab[d][1].flow.end - Skew
        <5>1. CASE j = 1
          BY <4>1, <5>1, BoundsAssumption
        <5>2. CASE j # 1
          <6>1. 1 < j
            BY <3>1, <5>2
          <6> QED BY <3>1, <4>1, <6>1 DEF Ordered
        <5> QED BY <5>1, <5>2
      <4> DEFINE a == front.end
                 b == tab[d][1].flow.end
                 e == tab[d][j].flow.end
      <4>4. a \in Nat /\ b \in Nat /\ e \in Nat /\ a <= b /\ e >= b - Skew
        BY <4>1, <4>2, <4>3
      <4> HIDE DEF a, b, e
      <4>5. a <= e + Skew
        BY <4>4, BoundsAssumption
      <4> QED BY <4>5 DEF a, e
    <3>3. \E j \in 1..Len(tab[d]) : capped[d][i] = tab[d][j]
      <4>1. CASE d = v
        <5>1. capped[d] = u /\ i \in 1..Len(u)
          BY <2>4, <4>1
        <5>2. i + 1 \in 1..Len(t) /\ u[i] = t[i + 1]
          BY <2>3, <5>1
        <5> QED BY <4>1, <5>1, <5>2
      <4>2. CASE d # v
        BY <2>4, <4>2
      <4> QED BY <4>1, <4>2
    <3> QED BY <3>2, <3>3
  <2>7. \A i \in 1..Len(<<front>>) : <<front>>[i] = front
    OBVIOUS
  <2>8. <<front>> \in Seq(Flow)
    BY <2>1
  <2>9. \E c \in Classes : \E j \in 1..Len(tab[c]) : front = tab[c][j].flow
    BY <2>1, <2>3
  <2> HIDE DEF front
  <2>10. \A c \in Classes : \A i \in 1..Len(capped[c]) :
            /\ \E j \in 1..Len(tab[c]) : capped[c][i] = tab[c][j]
            /\ front.end <= capped[c][i].flow.end + Skew
    BY <2>6
  <2>11. Capped(tab) = capped /\ Evicted(tab) = <<front>>
    BY <2>1
  <2> QED BY <2>5, <2>7, <2>8, <2>9, <2>10, <2>11 DEF EvictsOldest
<1> QED BY <1>1, <1>2

\* The operations of add that touch a table, whatever state the frame goes to.
LEMMA SettleSources ==
    ASSUME TypeOK, CapHolds, NEW p \in Packets, NEW ts \in Times,
           NEW now \in Nat, ts <= now, ts >= now - Skew,
           InOrder(table, now), NEW s \in State, s.flow.end <= now,
           NEW rest \in Seq(State), Ordered(rest, now),
           Len(rest) <= Len(table[Class(p)]),
           \A i \in 1..Len(rest) : \E j \in 1..Len(table[Class(p)]) :
               rest[i] = table[Class(p)][j],
           NEW finished \in Seq(Flow),
           \A i \in 1..Len(finished) : Replaced(finished[i], p, now),
           Settle(p, ts, now, rest, s, finished)
    PROVE  Origins(p, now, Counted(s, p, ts, Len(log) + 1))
<1> DEFINE c       == Class(p)
           no      == Len(log) + 1
           counted == Counted(s, p, ts, no)
           marked  == Marked(counted, p)
           over    == Finishes(counted, p)
           own     == IF over THEN rest ELSE Append(rest, marked)
           touched == [table EXCEPT ![c] = own]
           swept   == Swept(touched, now)
           torn    == IF over THEN <<counted.flow>> ELSE <<>>
           late    == Expired(touched, now)
           out     == Evicted(swept)
<1>1. /\ table' = Capped(swept)
      /\ ready' = ready \o finished \o torn \o late \o out
  BY DEF Settle
<1>2. c \in Classes /\ Typed(table) /\ ts \in Nat /\ no \in Nat /\ ready \in Seq(Flow)
  BY PacketFacts, TimesAssumption, LenProperties DEF TypeOK, Typed
<1>3. /\ counted \in State /\ counted.flow.end = Later(s.flow.end, ts)
      /\ marked \in State /\ marked.flow = counted.flow /\ counted.flow \in Flow
  <2>1. counted \in State /\ counted.flow.end = Later(s.flow.end, ts)
    BY <1>2, CountedFacts
  <2> QED BY <2>1, MarkedFacts DEF State
<1>4. marked.flow.end <= now /\ marked.flow.end >= now - Skew
  <2>1. s.flow.end \in Nat
    BY DEF State, Flow
  <2> QED BY <1>2, <1>3, <2>1, BoundsAssumption DEF Later
<1> HIDE DEF counted, marked, over, no
<1>5. /\ own \in Seq(State) /\ Ordered(own, now) /\ Len(own) <= Len(rest) + 1
      /\ \A i \in 1..Len(own) : (own[i] = marked /\ ~over) \/ \E j \in 1..Len(rest) : own[i] = rest[j]
  <2>1. /\ Append(rest, marked) \in Seq(State)
        /\ Ordered(Append(rest, marked), now)
        /\ Len(Append(rest, marked)) = Len(rest) + 1
        /\ \A i \in 1..Len(rest) : Append(rest, marked)[i] = rest[i]
        /\ Append(rest, marked)[Len(rest) + 1] = marked
        /\ Len(rest) \in Nat
    BY <1>3, <1>4, OrderedAppend, AppendProperties, LenProperties
  <2>2. CASE over
    BY <2>1, <2>2
  <2>3. CASE ~over
    BY <2>1, <2>3
  <2> QED BY <2>2, <2>3
<1>6. /\ torn \in Seq(Flow)
      /\ \A i \in 1..Len(torn) : over /\ torn[i] = counted.flow
  <2>1. CASE over
    BY <1>3, <2>1
  <2>2. CASE ~over
    BY <2>2, EmptySeq
  <2> QED BY <2>1, <2>2
<1> HIDE DEF own, torn
<1>7. /\ Typed(touched)
      /\ \A d \in Classes : touched[d] = IF d = c THEN own ELSE table[d]
  BY <1>2, <1>5 DEF Typed
<1> HIDE DEF touched
<1>8. InOrder(touched, now)
  BY <1>5, <1>7 DEF InOrder
<1>9. ASSUME NEW d \in Classes, NEW i \in 1..Len(touched[d])
      PROVE  touched[d][i] \in State /\ Survives(touched[d][i], d, p, counted)
  <2>1. touched[d][i] \in State
    BY <1>7, StateAt DEF Typed
  <2>2. CASE d = c
    BY <1>5, <1>7, <2>2 DEF Survives, c, marked, over
  <2>3. CASE d # c
    <3>1. touched[d] = table[d]
      BY <1>7, <2>3
    <3> QED BY <2>1, <3>1 DEF Survives
  <2> QED BY <2>1, <2>2, <2>3
<1>10. Held(touched) <= MaxFlows + 1
  <2>1. /\ Len(table["tcp"]) \in Nat /\ Len(table["other"]) \in Nat
        /\ Len(own) \in Nat /\ Len(rest) \in Nat /\ MaxFlows \in Nat
        /\ Len(table["tcp"]) + Len(table["other"]) <= MaxFlows
        /\ Len(rest) <= Len(table[c])
    BY <1>2, <1>5, LenProperties, MaxFlowsAssumption DEF Typed, Classes, CapHolds, Held, c
  <2>2. CASE c = "tcp"
    <3>1. touched["tcp"] = own /\ touched["other"] = table["other"]
      BY <1>7, <2>2 DEF Classes
    <3>2. Len(touched["tcp"]) = Len(own) /\ Len(touched["other"]) = Len(table["other"])
      BY <3>1
    <3>3. Len(own) <= Len(table["tcp"]) + 1
      BY <1>5, <2>1, <2>2
    <3> QED BY <2>1, <3>2, <3>3, OneMore DEF Held
  <2>3. CASE c = "other"
    <3>1. touched["other"] = own /\ touched["tcp"] = table["tcp"]
      BY <1>7, <2>3 DEF Classes
    <3>2. Len(touched["other"]) = Len(own) /\ Len(touched["tcp"]) = Len(table["tcp"])
      BY <3>1
    <3>3. Len(own) <= Len(table["other"]) + 1
      BY <1>5, <2>1, <2>3
    <3> QED BY <2>1, <3>2, <3>3, OneMore DEF Held
  <2> QED BY <1>2, <2>2, <2>3 DEF Classes
<1>11. /\ late \in Seq(Flow)
       /\ \A i \in 1..Len(late) : \E d \in Classes : \E j \in 1..Len(touched[d]) :
             Idle(touched[d][j], d, now) /\ late[i] = touched[d][j].flow
  BY <1>7, ExpiredSources
<1>12. /\ Typed(swept) /\ InOrder(swept, now) /\ Held(swept) <= Held(touched)
  BY <1>7, <1>8, SweptFacts
<1>13. \A d \in Classes : \A i \in 1..Len(swept[d]) :
          \E j \in 1..Len(touched[d]) : swept[d][i] = touched[d][j]
  <2> SUFFICES ASSUME NEW d \in Classes
               PROVE  \A i \in 1..Len(swept[d]) :
                         \E j \in 1..Len(touched[d]) : swept[d][i] = touched[d][j]
    OBVIOUS
  <2> DEFINE u == SubSeq(touched[d], Fresh(touched[d], d, now), Len(touched[d]))
  <2>0. Typed(touched) /\ now \in Int
    BY <1>7
  <2>1. /\ swept[d] = u
        /\ \A i \in 1..Len(u) : \E j \in 1..Len(touched[d]) : u[i] = touched[d][j]
    BY <2>0, SweptSources
  <2> HIDE DEF u, swept
  <2> QED BY <2>1
<1> HIDE DEF swept, late
<1>14. Held(swept) <= MaxFlows + 1
  BY <1>7, <1>10, <1>12, HeldType, MaxFlowsAssumption
<1>15. /\ out \in Seq(Flow)
       /\ \A d \in Classes : \A i \in 1..Len(table'[d]) :
             \E j \in 1..Len(swept[d]) : table'[d][i] = swept[d][j]
       /\ \A i \in 1..Len(out) :
             /\ Held(table') = MaxFlows
             /\ \E d \in Classes : \E j \in 1..Len(swept[d]) : out[i] = swept[d][j].flow
             /\ \A d \in Classes : \A j \in 1..Len(table'[d]) :
                   out[i].end <= table'[d][j].flow.end + Skew
  <2>1. EvictsOldest(swept, Capped(swept), out)
    BY <1>12, <1>14, now \in Int, CappedSources
  <2>2. EvictsOldest(swept, table', out)
    BY <1>1, <2>1
  <2> HIDE DEF out
  <2> QED BY <2>2 DEF EvictsOldest
<1> HIDE DEF out
<1>16. \A d \in Classes : \A i \in 1..Len(table'[d]) : Survives(table'[d][i], d, p, counted)
  <2> SUFFICES ASSUME NEW d \in Classes, NEW i \in 1..Len(table'[d])
               PROVE  Survives(table'[d][i], d, p, counted)
    OBVIOUS
  <2>1. PICK j \in 1..Len(swept[d]) : table'[d][i] = swept[d][j]
    BY <1>15
  <2>2. PICK k \in 1..Len(touched[d]) : swept[d][j] = touched[d][k]
    BY <1>13
  <2> QED BY <1>9, <2>1, <2>2
<1>17. ASSUME NEW i \in 1..Len(late) PROVE Left(late[i], p, now, counted)
  BY <1>9, <1>11 DEF Left, Timed
<1>18. ASSUME NEW i \in 1..Len(out) PROVE Left(out[i], p, now, counted)
  <2>0. PICK d \in Classes : \E j \in 1..Len(swept[d]) : out[i] = swept[d][j].flow
    BY <1>15
  <2>1. PICK j \in 1..Len(swept[d]) : out[i] = swept[d][j].flow
    BY <2>0
  <2>2. PICK k \in 1..Len(touched[d]) : swept[d][j] = touched[d][k]
    BY <1>13
  <2>3. touched[d][k] \in State /\ Survives(touched[d][k], d, p, counted)
    BY <1>9
  <2> QED BY <1>15, <2>1, <2>2, <2>3 DEF Left, Crowded
<1>19. ASSUME NEW i \in 1..Len(torn) PROVE Left(torn[i], p, now, counted)
  BY <1>6 DEF Left, over
<1>20. ASSUME NEW i \in 1..Len(finished) PROVE Left(finished[i], p, now, counted)
  BY DEF Left
<1>21. /\ \A i \in 1..Len(ready) : ready'[i] = ready[i]
       /\ \A i \in (Len(ready) + 1)..Len(ready') : Left(ready'[i], p, now, counted)
  <2> DEFINE n == Len(ready)
             GoodTail(r) == /\ r \in Seq(Flow) /\ n <= Len(r)
                            /\ \A i \in 1..n : r[i] = ready[i]
                            /\ \A i \in (n + 1)..Len(r) : Left(r[i], p, now, counted)
  <2>1. n \in Nat /\ GoodTail(ready)
    BY <1>2, LenProperties
  <2>2. ASSUME NEW a, GoodTail(a), NEW b \in Seq(Flow),
               \A i \in 1..Len(b) : Left(b[i], p, now, counted)
        PROVE  GoodTail(a \o b)
    <3> HIDE DEF n
    <3>1. /\ a \o b \in Seq(Flow) /\ n <= Len(a \o b)
          /\ \A i \in 1..n : (a \o b)[i] = a[i]
          /\ \A i \in (n + 1)..Len(a \o b) :
                \/ i \in (n + 1)..Len(a) /\ (a \o b)[i] = a[i]
                \/ \E j \in 1..Len(b) : (a \o b)[i] = b[j]
      BY <2>1, <2>2, ConcatBeyond
    <3> QED BY <2>2, <3>1
  <2> HIDE DEF GoodTail
  <2>3. GoodTail(ready \o finished)
    BY <1>20, <2>1, <2>2
  <2>4. GoodTail(ready \o finished \o torn)
    BY <1>6, <1>19, <2>2, <2>3
  <2>5. GoodTail(ready \o finished \o torn \o late)
    BY <1>11, <1>17, <2>2, <2>4
  <2>6. GoodTail(ready \o finished \o torn \o late \o out)
    BY <1>15, <1>18, <2>2, <2>5
  <2> QED BY <1>1, <2>6 DEF GoodTail
<1> QED BY <1>16, <1>21 DEF Origins, counted, no

\* The state an add folds its frame into, before it is counted.
Gets(s, p, ts, now) ==
    \/ s = OpenFlow(p, ts)
    \/ \E j \in 1..Len(table[Class(p)]) :
          Continues(table[Class(p)][j], p, now) /\ s = Reorient(table[Class(p)][j], p)

LEMMA AddSources ==
    ASSUME IInv, NEW p \in Packets, NEW ts \in Times, Add(p, ts)
    PROVE  /\ Arrive(p, ts)
           /\ \E s \in State :
                 /\ Gets(s, p, ts, Later(clock, ts))
                 /\ Origins(p, Later(clock, ts), Counted(s, p, ts, Len(log) + 1))
<1> DEFINE c   == Class(p)
           t   == table[c]
           now == Later(clock, ts)
           From(s) == Gets(s, p, ts, now) /\ Origins(p, now, Counted(s, p, ts, Len(log) + 1))
<1>1. Arrive(p, ts)
  BY DEF Add, AddFirst, AddNext, AddReuse
<1>2. /\ now \in Nat /\ ts \in Nat /\ ts <= now /\ ts >= now - Skew
      /\ InOrder(table, now) /\ TypeOK /\ CapHolds
  BY <1>1, ArriveFacts DEF IInv
<1>3. c \in Classes /\ t \in Seq(State) /\ Ordered(t, now) /\ Len(t) \in Nat
  BY <1>2, PacketFacts DEF TypeOK, InOrder
<1>4. OpenFlow(p, ts) \in State /\ OpenFlow(p, ts).flow.end <= now
  BY <1>2, OpenFlowFacts
<1>5. ASSUME NEW i \in 1..Len(t)
      PROVE  /\ Without(t, i) \in Seq(State) /\ Ordered(Without(t, i), now)
             /\ Len(Without(t, i)) <= Len(t)
             /\ \A k \in 1..Len(Without(t, i)) : \E j \in 1..Len(t) : Without(t, i)[k] = t[j]
             /\ t[i] \in State /\ t[i].flow \in Flow /\ t[i].flow.end <= now
  <2>1. Ordered(Without(t, i), now)
    BY <1>2, <1>3, OrderedWithout
  <2>2. /\ Without(t, i) \in Seq(State) /\ Len(Without(t, i)) = Len(t) - 1
        /\ \A j \in 1..(Len(t) - 1) : Without(t, i)[j] = IF j < i THEN t[j] ELSE t[j + 1]
    BY <1>3, WithoutOne
  <2>3. Len(Without(t, i)) <= Len(t)
    BY <1>3, <2>2
  <2>4. t[i] \in State /\ t[i].flow \in Flow
    BY <1>3, StateAt
  <2>5. t[i].flow.end <= now
    BY <1>3 DEF Ordered
  <2>6. ASSUME NEW k \in 1..Len(Without(t, i))
        PROVE  \E j \in 1..Len(t) : Without(t, i)[k] = t[j]
    <3>1. k \in 1..(Len(t) - 1) /\ k \in 1..Len(t) /\ k + 1 \in 1..Len(t)
      BY <1>3, <2>2
    <3>2. Without(t, i)[k] = t[k] \/ Without(t, i)[k] = t[k + 1]
      BY <2>2, <3>1
    <3> QED BY <3>1, <3>2
  <2> QED BY <2>1, <2>2, <2>3, <2>4, <2>5, <2>6
<1>6. ASSUME AddFirst(p, ts) PROVE \E s \in State : From(s)
  <2>1. Settle(p, ts, now, t, OpenFlow(p, ts), <<>>)
    BY <1>6 DEF AddFirst
  <2>2. /\ <<>> \in Seq(Flow) /\ \A i \in 1..Len(<<>>) : Replaced(<<>>[i], p, now)
        /\ Len(t) <= Len(table[Class(p)])
        /\ \A i \in 1..Len(t) : \E j \in 1..Len(table[Class(p)]) : t[i] = table[Class(p)][j]
    BY <1>3, EmptySeq
  <2>3. From(OpenFlow(p, ts))
    BY <1>2, <1>3, <1>4, <2>1, <2>2, SettleSources DEF Gets
  <2> QED BY <1>4, <2>3
<1>7. ASSUME AddNext(p, ts) PROVE \E s \in State : From(s)
  <2>1. PICK i \in 1..Len(t) :
          /\ Continues(t[i], p, now)
          /\ Settle(p, ts, now, Without(t, i), Reorient(t[i], p), <<>>)
    BY <1>7 DEF AddNext, At, Continues
  <2>2. Reorient(t[i], p) \in State /\ Reorient(t[i], p).flow.end <= now
    BY <1>5, ReorientFacts
  <2>3. <<>> \in Seq(Flow) /\ \A k \in 1..Len(<<>>) : Replaced(<<>>[k], p, now)
    BY EmptySeq
  <2>4. Origins(p, now, Counted(Reorient(t[i], p), p, ts, Len(log) + 1))
    BY <1>2, <1>5, <2>1, <2>2, <2>3, SettleSources
  <2>5. Gets(Reorient(t[i], p), p, ts, now)
    BY <2>1 DEF Gets
  <2> QED BY <2>2, <2>4, <2>5
<1>8. ASSUME AddReuse(p, ts) PROVE \E s \in State : From(s)
  <2>1. PICK i \in 1..Len(t) :
          /\ Reopened(t[i], p, now)
          /\ Settle(p, ts, now, Without(t, i), OpenFlow(p, ts), <<t[i].flow>>)
    BY <1>8 DEF AddReuse, At, Reopened
  <2> DEFINE old == <<t[i].flow>>
  <2>2. old \in Seq(Flow) /\ \A k \in 1..Len(old) : Replaced(old[k], p, now)
    BY <1>5, <2>1 DEF Replaced
  <2> HIDE DEF old
  <2>3. Settle(p, ts, now, Without(t, i), OpenFlow(p, ts), old)
    BY <2>1 DEF old
  <2>4. Origins(p, now, Counted(OpenFlow(p, ts), p, ts, Len(log) + 1))
    BY <1>2, <1>4, <1>5, <2>2, <2>3, SettleSources
  <2>5. Gets(OpenFlow(p, ts), p, ts, now)
    BY DEF Gets
  <2> QED BY <1>4, <2>4, <2>5
<1> QED BY <1>1, <1>6, <1>7, <1>8 DEF Add

-----------------------------------------------------------------------------
(* What is true of a flow and the frames it was folded from; l is the log. *)

OnTuple(f, l) ==
    /\ f.frames \subseteq 1..Len(l)
    /\ \A no \in f.frames : Canon(l[no].packet) = <<f.proto, {f.src, f.dst}>>

Spanned(f, l) ==
    /\ \A no \in f.frames : f.start <= l[no].ts /\ l[no].ts <= f.end
    /\ \E a, b \in f.frames : l[a].ts = f.start /\ l[b].ts = f.end

Steady(f, l) ==
    \A no \in f.frames : (\E b \in f.frames : b < no) =>
        \E b \in f.frames : b < no /\ l[no].ts - l[b].ts < Timeout(Class(f))

Syns(f, l) == {no \in f.frames : IsSyn(l[no].packet)}

NamedBy(f, by, l) ==
    /\ f.src = Initiator(l[by].packet) /\ f.dst = Responder(l[by].packet)
    /\ Syns(f, l) = {} => \A no \in f.frames : by <= no
    /\ Syns(f, l) # {} => by \in Syns(f, l) /\ \A no \in Syns(f, l) : by <= no

Named(f, l) == \E by \in f.frames : NamedBy(f, by, l)

HasFlag(flag, no, l) == flag \in l[no].packet.flags

FinFrom(f, l) == \E no \in f.frames : HasFlag("FIN", no, l) /\ Source(l[no].packet) = f.src
FinTo(f, l)   == \E no \in f.frames : HasFlag("FIN", no, l) /\ Source(l[no].packet) # f.src

BothBy(f, no, l) ==
    \E a, b \in f.frames :
        /\ a <= no /\ b <= no
        /\ HasFlag("FIN", a, l) /\ HasFlag("FIN", b, l)
        /\ Source(l[a].packet) # Source(l[b].packet)

OneConnection(f, l) ==
    \A a, b \in f.frames : a < b =>
        /\ ~HasFlag("RST", a, l)
        /\ HasFlag("FIN", a, l) => ~IsSyn(l[b].packet)
        /\ BothBy(f, a, l) => HasFlag("FIN", a, l)

Out(f, l) == {no \in f.frames : Source(l[no].packet) = f.src}
In(f, l)  == {no \in f.frames : Source(l[no].packet) # f.src}

\* The bytes of payload of the frames of S.
Carried(S, l) == UNION {{no} \X (1..l[no].packet.payload) : no \in S}

Counters(f, l) ==
    /\ f.packets_out = Cardinality(Out(f, l))
    /\ f.packets_in = Cardinality(In(f, l))
    /\ IsFiniteSet(Carried(Out(f, l), l)) /\ IsFiniteSet(Carried(In(f, l), l))
    /\ f.payload_out = Cardinality(Carried(Out(f, l), l))
    /\ f.payload_in = Cardinality(Carried(In(f, l), l))
    /\ f.responded <=> In(f, l) # {}
    /\ f.flags_seen = UNION {l[no].packet.flags : no \in f.frames}

FlowInv(f, l) ==
    /\ OnTuple(f, l) /\ Spanned(f, l) /\ Steady(f, l) /\ Named(f, l)
    /\ OneConnection(f, l) /\ Counters(f, l)

\* What a state adds, of a conversation that is not over.
Marks(s, l) ==
    /\ s.oriented <=> Syns(s.flow, l) # {}
    /\ s.fin_out <=> FinFrom(s.flow, l)
    /\ s.fin_in <=> FinTo(s.flow, l)
    /\ s.closing <=> s.fin_out /\ s.fin_in

Running(f, l) ==
    \A no \in f.frames : /\ ~HasFlag("RST", no, l)
                         /\ BothBy(f, no, l) => HasFlag("FIN", no, l)

StateInv(s, c, l) ==
    /\ FlowInv(s.flow, l)
    /\ s.canon = <<s.flow.proto, {s.flow.src, s.flow.dst}>> /\ Class(s.flow) = c
    /\ Marks(s, l) /\ Running(s.flow, l)

HInv ==
    /\ \A c \in Classes : \A i \in 1..Len(table[c]) : StateInv(table[c][i], c, log)
    /\ \A i \in 1..Len(ready) : FlowInv(ready[i], log)

-----------------------------------------------------------------------------
(* The operators on a state, field by field *)

Turned(g, f) ==
    /\ g.proto = f.proto /\ g.src = f.dst /\ g.dst = f.src
    /\ g.start = f.start /\ g.end = f.end
    /\ g.packets_out = f.packets_in /\ g.packets_in = f.packets_out
    /\ g.payload_out = f.payload_in /\ g.payload_in = f.payload_out
    /\ g.flags_seen = f.flags_seen /\ g.frames = f.frames
    /\ g.responded <=> f.packets_out > 0

\* What an add may do to the orientation of a state.
Same(r, s) == r.flow = s.flow /\ r.fin_out = s.fin_out /\ r.fin_in = s.fin_in

Swapped(r, s) == Turned(r.flow, s.flow) /\ r.fin_out = s.fin_in /\ r.fin_in = s.fin_out

Grown(g, f, p, ts, no) ==
    /\ g.proto = f.proto /\ g.src = f.src /\ g.dst = f.dst
    /\ g.start = (IF ts < f.start THEN ts ELSE f.start) /\ g.end = Later(f.end, ts)
    /\ g.flags_seen = f.flags_seen \cup p.flags /\ g.frames = f.frames \cup {no}

GrownOut(g, f, p) ==
    /\ g.packets_out = f.packets_out + 1 /\ g.packets_in = f.packets_in
    /\ g.payload_out = f.payload_out + p.payload /\ g.payload_in = f.payload_in
    /\ g.responded = f.responded

GrownIn(g, f, p) ==
    /\ g.packets_out = f.packets_out /\ g.packets_in = f.packets_in + 1
    /\ g.payload_out = f.payload_out /\ g.payload_in = f.payload_in + p.payload
    /\ g.responded = TRUE

LEMMA SwapFields ==
    ASSUME NEW s \in State
    PROVE  /\ Swapped(Swap(s), s) /\ Swap(s).canon = s.canon
           /\ Swap(s).oriented = s.oriented /\ Swap(s).closing = s.closing
<1> DEFINE f == s.flow
           answered == f.packets_out > 0
           g == [f EXCEPT !.src = f.dst, !.dst = f.src,
                          !.packets_out = f.packets_in,
                          !.packets_in  = f.packets_out,
                          !.payload_out = f.payload_in,
                          !.payload_in  = f.payload_out,
                          !.responded   = answered]
<1>1. f \in Flow
  BY DEF State
<1>2. Turned(g, f)
  <2>1. /\ g.proto = f.proto /\ g.src = f.dst /\ g.dst = f.src
        /\ g.start = f.start /\ g.end = f.end
        /\ g.packets_out = f.packets_in /\ g.packets_in = f.packets_out
        /\ g.payload_out = f.payload_in /\ g.payload_in = f.payload_out
        /\ g.flags_seen = f.flags_seen /\ g.frames = f.frames
        /\ g.responded = answered
    <3> HIDE DEF answered, f
    <3> QED BY <1>1 DEF Flow
  <2> QED BY <2>1 DEF Turned
<1>3. Swap(s) = [s EXCEPT !.flow = g, !.fin_out = s.fin_in, !.fin_in = s.fin_out]
  BY DEF Swap
<1> HIDE DEF g
<1>4. /\ Swap(s).flow = g /\ Swap(s).fin_out = s.fin_in /\ Swap(s).fin_in = s.fin_out
      /\ Swap(s).canon = s.canon
      /\ Swap(s).oriented = s.oriented /\ Swap(s).closing = s.closing
  BY <1>3 DEF State
<1> QED BY <1>2, <1>4 DEF Swapped

LEMMA ReorientFields ==
    ASSUME NEW s \in State, NEW p \in Packets
    PROVE  LET r == Reorient(s, p) IN
           /\ r.canon = s.canon /\ r.closing = s.closing
           /\ r.oriented <=> s.oriented \/ IsSyn(p)
           /\ \/ Same(r, s) /\ (s.oriented \/ ~IsSyn(p) \/ Initiator(p) = s.flow.src)
              \/ Swapped(r, s) /\ ~s.oriented /\ IsSyn(p) /\ Initiator(p) # s.flow.src
<1> DEFINE named == [s EXCEPT !.oriented = TRUE]
           r == Reorient(s, p)
<1>1. /\ named \in State /\ named.canon = s.canon /\ named.flow = s.flow
      /\ named.fin_out = s.fin_out /\ named.fin_in = s.fin_in
      /\ named.closing = s.closing /\ named.oriented = TRUE
  BY DEF State
<1>2. /\ Swapped(Swap(named), named) /\ Swap(named).canon = named.canon
      /\ Swap(named).oriented = named.oriented /\ Swap(named).closing = named.closing
  BY <1>1, SwapFields
<1>3. Swapped(Swap(named), s)
  BY <1>1, <1>2 DEF Swapped
<1>4. r = IF s.oriented \/ ~IsSyn(p) THEN s
          ELSE IF Initiator(p) = s.flow.src THEN named ELSE Swap(named)
  BY <1>1 DEF Reorient
<1> HIDE DEF named, r
<1>5. CASE s.oriented \/ ~IsSyn(p)
  BY <1>4, <1>5 DEF Same, r
<1>6. CASE ~(s.oriented \/ ~IsSyn(p)) /\ Initiator(p) = s.flow.src
  BY <1>1, <1>4, <1>6 DEF Same, r
<1>7. CASE ~(s.oriented \/ ~IsSyn(p)) /\ Initiator(p) # s.flow.src
  BY <1>1, <1>2, <1>3, <1>4, <1>7 DEF r
<1> QED BY <1>5, <1>6, <1>7

LEMMA CountedFields ==
    ASSUME NEW s \in State, NEW p \in Packets, NEW ts \in Nat, NEW no \in Nat
    PROVE  LET k == Counted(s, p, ts, no) IN
           /\ k.canon = s.canon /\ k.oriented = s.oriented /\ k.closing = s.closing
           /\ k.fin_out = s.fin_out /\ k.fin_in = s.fin_in
           /\ Grown(k.flow, s.flow, p, ts, no)
           /\ Outbound(s, p) => GrownOut(k.flow, s.flow, p)
           /\ ~Outbound(s, p) => GrownIn(k.flow, s.flow, p)
<1> DEFINE f    == s.flow
           k    == Counted(s, p, ts, no)
           seen == [f EXCEPT !.start = IF ts < f.start THEN ts ELSE f.start,
                             !.end   = Later(f.end, ts),
                             !.flags_seen = @ \cup p.flags,
                             !.frames = @ \cup {no}]
           out  == [seen EXCEPT !.packets_out = @ + 1,
                                !.payload_out = @ + p.payload]
           in   == [seen EXCEPT !.packets_in = @ + 1,
                                !.payload_in = @ + p.payload,
                                !.responded = TRUE]
<1>1. f \in Flow
  BY DEF State
<1>2. /\ DOMAIN seen = DOMAIN f /\ Grown(seen, f, p, ts, no)
      /\ seen.packets_out = f.packets_out /\ seen.packets_in = f.packets_in
      /\ seen.payload_out = f.payload_out /\ seen.payload_in = f.payload_in
      /\ seen.responded = f.responded
  BY <1>1 DEF Flow, Grown
<1>3. k = [s EXCEPT !.flow = IF Outbound(s, p) THEN out ELSE in]
  BY DEF Counted
<1> HIDE DEF seen
<1>4. GrownOut(out, f, p) /\ Grown(out, f, p, ts, no)
  BY <1>1, <1>2 DEF Flow, Grown, GrownOut
<1>5. GrownIn(in, f, p) /\ Grown(in, f, p, ts, no)
  BY <1>1, <1>2 DEF Flow, Grown, GrownIn
<1> DEFINE new == IF Outbound(s, p) THEN out ELSE in
<1>6. /\ Grown(new, f, p, ts, no)
      /\ Outbound(s, p) => GrownOut(new, f, p)
      /\ ~Outbound(s, p) => GrownIn(new, f, p)
  BY <1>4, <1>5
<1>7. k = [s EXCEPT !.flow = new]
  BY <1>3
<1> HIDE DEF out, in, new, k
<1>8. /\ k.flow = new /\ k.canon = s.canon /\ k.oriented = s.oriented
      /\ k.closing = s.closing /\ k.fin_out = s.fin_out /\ k.fin_in = s.fin_in
  BY <1>7 DEF State
<1> QED BY <1>6, <1>8 DEF k

LEMMA MarkedFields ==
    ASSUME NEW s \in State, NEW p \in Packets
    PROVE  LET m == Marked(s, p)
               fin == p.proto = "tcp" /\ "FIN" \in p.flags /\ "RST" \notin p.flags
           IN  /\ m.flow = s.flow /\ m.canon = s.canon /\ m.oriented = s.oriented
               /\ m.fin_out <=> s.fin_out \/ (fin /\ Outbound(s, p))
               /\ m.fin_in <=> s.fin_in \/ (fin /\ ~Outbound(s, p))
               /\ (s.closing <=> s.fin_out /\ s.fin_in) => (m.closing <=> m.fin_out /\ m.fin_in)
<1> DEFINE fin == p.proto = "tcp" /\ "FIN" \in p.flags /\ "RST" \notin p.flags
           o == s.fin_out \/ Outbound(s, p)
           i == s.fin_in \/ ~Outbound(s, p)
<1>1. CASE fin
  <2>1. Marked(s, p) = [s EXCEPT !.fin_out = o, !.fin_in = i, !.closing = o /\ i]
    BY <1>1 DEF Marked
  <2> DEFINE both == o /\ i
  <2>2. Marked(s, p) = [s EXCEPT !.fin_out = o, !.fin_in = i, !.closing = both]
    BY <2>1
  <2>3. o <=> s.fin_out \/ Outbound(s, p)
    OBVIOUS
  <2>4. i <=> s.fin_in \/ ~Outbound(s, p)
    OBVIOUS
  <2>5. both <=> o /\ i
    OBVIOUS
  <2> HIDE DEF o, i, both
  <2>6. /\ Marked(s, p).flow = s.flow /\ Marked(s, p).canon = s.canon
        /\ Marked(s, p).oriented = s.oriented /\ Marked(s, p).fin_out = o
        /\ Marked(s, p).fin_in = i /\ Marked(s, p).closing = both
    BY <2>2 DEF State
  <2> HIDE DEF fin
  <2>7. Marked(s, p).fin_out <=> s.fin_out \/ (fin /\ Outbound(s, p))
    BY <1>1, <2>3, <2>6, Zenon
  <2>8. Marked(s, p).fin_in <=> s.fin_in \/ (fin /\ ~Outbound(s, p))
    BY <1>1, <2>4, <2>6, Zenon
  <2>9. Marked(s, p).closing <=> Marked(s, p).fin_out /\ Marked(s, p).fin_in
    BY <2>5, <2>6, Zenon
  <2> QED BY <2>6, <2>7, <2>8, <2>9, Zenon DEF fin
<1>2. CASE ~fin
  <2>1. Marked(s, p) = s
    BY <1>2 DEF Marked
  <2> HIDE DEF fin
  <2>2. /\ s.fin_out <=> s.fin_out \/ (fin /\ Outbound(s, p))
        /\ s.fin_in <=> s.fin_in \/ (fin /\ ~Outbound(s, p))
    BY <1>2, Zenon
  <2> QED BY <2>1, <2>2, Zenon DEF fin
<1> QED BY <1>1, <1>2, Zenon

-----------------------------------------------------------------------------
(* The log only grows, and what was said of a flow stays true *)

Extends(m, l, ts, p) ==
    /\ Len(l) \in Nat /\ Len(m) = Len(l) + 1
    /\ \A no \in 1..Len(l) : m[no] = l[no]
    /\ m[Len(m)].ts = ts /\ m[Len(m)].packet = p
    /\ \A no \in 1..Len(m) : m[no].ts \in Nat /\ m[no].packet \in Packets

LEMMA LogGrows ==
    ASSUME TypeOK, NEW p \in Packets, NEW ts \in Times, Arrive(p, ts)
    PROVE  Extends(log', log, ts, p)
<1> DEFINE entry == [ts |-> ts, packet |-> p]
<1>1. log \in Seq([ts : Times, packet : Packets]) /\ entry \in [ts : Times, packet : Packets]
  BY DEF TypeOK
<1>2. log' = Append(log, entry) /\ entry.ts = ts /\ entry.packet = p
  BY DEF Arrive
<1> HIDE DEF entry
<1>3. /\ Len(log') = Len(log) + 1 /\ Len(log) \in Nat
      /\ \A no \in 1..Len(log) : log'[no] = log[no]
      /\ log'[Len(log) + 1] = entry
  BY <1>1, <1>2, AppendProperties, LenProperties
<1>4. \A no \in 1..Len(log') : log'[no].ts \in Nat /\ log'[no].packet \in Packets
  <2>1. log' \in Seq([ts : Times, packet : Packets])
    BY <1>1, <1>2, AppendProperties
  <2>2. \A no \in 1..Len(log') : log'[no] \in [ts : Times, packet : Packets]
    BY <2>1, ElementOfSeq
  <2> QED BY <2>2, TimesAssumption
<1> QED BY <1>2, <1>3, <1>4 DEF Extends

LEMMA OldFrames ==
    ASSUME NEW l, NEW m, NEW ts, NEW p, Extends(m, l, ts, p),
           NEW f, OnTuple(f, l)
    PROVE  /\ \A no \in f.frames : /\ no \in 1..Len(l) /\ no \in Nat
                                   /\ m[no] = l[no] /\ no < Len(m)
                                   /\ l[no].ts \in Nat /\ l[no].packet \in Packets
           /\ Len(m) \in Nat /\ Len(m) \notin f.frames
BY DEF Extends, OnTuple

LEMMA CarriedSame ==
    ASSUME NEW l, NEW m, NEW S, \A no \in S : m[no] = l[no]
    PROVE  Carried(S, m) = Carried(S, l)
BY DEF Carried

LEMMA CarriedMore ==
    ASSUME NEW l, NEW m, NEW S, \A no \in S : m[no] = l[no],
           NEW n, n \notin S, NEW k \in Nat, m[n].packet.payload = k,
           IsFiniteSet(Carried(S, l))
    PROVE  /\ IsFiniteSet(Carried(S \cup {n}, m))
           /\ Cardinality(Carried(S \cup {n}, m)) = Cardinality(Carried(S, l)) + k
<1> DEFINE old == Carried(S, l)
           new == {n} \X (1..k)
<1>1. Carried(S \cup {n}, m) = old \cup new
  <2>1. Carried(S \cup {n}, m) = Carried(S, m) \cup ({n} \X (1..m[n].packet.payload))
    BY DEF Carried
  <2> QED BY <2>1, CarriedSame
<1>2. old \cap new = {}
  BY DEF Carried
<1>3. IsFiniteSet(1..k) /\ Cardinality(1..k) = k
  BY FS_Interval
<1>4. IsFiniteSet(new) /\ Cardinality(new) = k
  <2>1. IsFiniteSet({n}) /\ Cardinality({n}) = 1
    BY FS_Singleton
  <2>2. IsFiniteSet(new) /\ Cardinality(new) = Cardinality({n}) * Cardinality(1..k)
    BY <1>3, <2>1, FS_Product
  <2> HIDE DEF new
  <2> QED BY <1>3, <2>1, <2>2
<1> HIDE DEF old, new
<1>5. /\ IsFiniteSet(old \cup new)
      /\ Cardinality(old \cup new)
           = Cardinality(old) + Cardinality(new) - Cardinality(old \cap new)
  BY <1>4, FS_Union DEF old
<1>6. Cardinality(old \cap new) = 0
  BY <1>2, FS_EmptySet
<1>7. Cardinality(old) \in Nat
  BY FS_CardinalityType DEF old
<1>8. Cardinality(old \cup new) = Cardinality(old) + k
  BY <1>4, <1>5, <1>6, <1>7
<1> QED BY <1>1, <1>5, <1>8 DEF old

LEMMA FlowStable ==
    ASSUME NEW l, NEW m, NEW ts, NEW p, Extends(m, l, ts, p),
           NEW f, FlowInv(f, l)
    PROVE  FlowInv(f, m)
<1>1. /\ \A no \in f.frames : no \in 1..Len(l) /\ m[no] = l[no]
      /\ OnTuple(f, l)
  BY OldFrames DEF FlowInv
<1>2. /\ Syns(f, m) = Syns(f, l) /\ Out(f, m) = Out(f, l) /\ In(f, m) = In(f, l)
      /\ {m[no].packet.flags : no \in f.frames} = {l[no].packet.flags : no \in f.frames}
  BY <1>1 DEF Syns, Out, In
<1>3. \A no \in f.frames : BothBy(f, no, m) <=> BothBy(f, no, l)
  BY <1>1 DEF BothBy, HasFlag
<1>4. OnTuple(f, m)
  <2>1. f.frames \subseteq 1..Len(m)
    BY <1>1 DEF Extends
  <2> QED BY <1>1, <2>1 DEF OnTuple
<1>5. Spanned(f, m)
  BY <1>1 DEF FlowInv, Spanned
<1>6. Steady(f, m)
  BY <1>1 DEF FlowInv, Steady
<1>7. Named(f, m)
  <2>1. PICK by \in f.frames : NamedBy(f, by, l)
    BY DEF FlowInv, Named
  <2>2. NamedBy(f, by, m)
    BY <1>1, <1>2, <2>1 DEF NamedBy
  <2> QED BY <2>2 DEF Named
<1>8. OneConnection(f, m)
  BY <1>1, <1>3 DEF FlowInv, OneConnection, HasFlag
<1>9. Counters(f, m)
  <2>1. /\ \A no \in Out(f, l) : m[no] = l[no]
        /\ \A no \in In(f, l) : m[no] = l[no]
    BY <1>1 DEF Out, In
  <2>2. /\ Carried(Out(f, l), m) = Carried(Out(f, l), l)
        /\ Carried(In(f, l), m) = Carried(In(f, l), l)
    BY <2>1, CarriedSame
  <2> QED BY <1>2, <2>2 DEF FlowInv, Counters
<1> QED BY <1>4, <1>5, <1>6, <1>7, <1>8, <1>9 DEF FlowInv

LEMMA StateStable ==
    ASSUME NEW l, NEW m, NEW ts, NEW p, Extends(m, l, ts, p),
           NEW s, NEW c, StateInv(s, c, l)
    PROVE  StateInv(s, c, m)
<1> DEFINE f == s.flow
<1>1. FlowInv(f, l) /\ OnTuple(f, l)
  BY DEF StateInv, FlowInv
<1> HIDE DEF f
<1>2. FlowInv(f, m)
  BY <1>1, FlowStable
<1>3. \A no \in f.frames : no \in 1..Len(l) /\ m[no] = l[no]
  BY <1>1, OldFrames
<1>4. /\ Syns(f, m) = Syns(f, l)
      /\ FinFrom(f, m) <=> FinFrom(f, l)
      /\ FinTo(f, m) <=> FinTo(f, l)
      /\ \A no \in f.frames : BothBy(f, no, m) <=> BothBy(f, no, l)
  BY <1>3 DEF Syns, FinFrom, FinTo, BothBy, HasFlag
<1>5. Running(f, m)
  BY <1>3, <1>4 DEF StateInv, Running, HasFlag, f
<1>6. Marks(s, m)
  BY <1>4 DEF StateInv, Marks, f
<1> QED BY <1>2, <1>5, <1>6 DEF StateInv, f

-----------------------------------------------------------------------------
(* Before the frame is counted: the state s that frame p is folded into    *)

Fits(s, p, l) ==
    /\ s.canon = Canon(p) /\ s.canon = <<s.flow.proto, {s.flow.src, s.flow.dst}>>
    /\ OnTuple(s.flow, l)

Timely(f, ts, now, l) ==
    /\ f.frames = {} => f.start = ts /\ f.end = ts
    /\ f.frames # {} => Spanned(f, l) /\ now - f.end < Timeout(Class(f))
    /\ Steady(f, l)

\* Either the orientation is that of the frames so far, or p decides it.
Facing(f, p, l) ==
    \/ Named(f, l) /\ (IsSyn(p) => Syns(f, l) # {})
    \/ /\ f.src = Initiator(p) /\ f.dst = Responder(p) /\ Syns(f, l) = {}
       /\ f.frames = {} \/ IsSyn(p)

Undecided(s, p, l) ==
    /\ s.oriented <=> Syns(s.flow, l) # {} \/ IsSyn(p)
    /\ s.fin_out <=> FinFrom(s.flow, l)
    /\ s.fin_in <=> FinTo(s.flow, l)
    /\ s.closing <=> s.fin_out /\ s.fin_in
    /\ IsSyn(p) => ~FinFrom(s.flow, l) /\ ~FinTo(s.flow, l)
    /\ OneConnection(s.flow, l) /\ Running(s.flow, l)

Joined(s, p, ts, now, l) ==
    /\ Fits(s, p, l) /\ Timely(s.flow, ts, now, l) /\ Facing(s.flow, p, l)
    /\ Undecided(s, p, l) /\ Counters(s.flow, l)

LEMMA OpenJoins ==
    ASSUME NEW p \in Packets, NEW ts \in Nat, NEW now, NEW l
    PROVE  Joined(OpenFlow(p, ts), p, ts, now, l)
<1> DEFINE s == OpenFlow(p, ts)
           f == s.flow
<1>1. /\ s.canon = Canon(p) /\ f.proto = p.proto
      /\ f.src = Initiator(p) /\ f.dst = Responder(p)
      /\ f.start = ts /\ f.end = ts /\ f.packets_out = 0 /\ f.packets_in = 0
      /\ f.payload_out = 0 /\ f.payload_in = 0
      /\ f.flags_seen = {} /\ f.responded = FALSE /\ f.frames = {}
      /\ s.oriented = IsSyn(p) /\ s.fin_out = FALSE /\ s.fin_in = FALSE
      /\ s.closing = FALSE
  BY DEF OpenFlow, NewState
<1> HIDE DEF s
<1>2. /\ Syns(f, l) = {} /\ Out(f, l) = {} /\ In(f, l) = {}
      /\ ~FinFrom(f, l) /\ ~FinTo(f, l)
      /\ UNION {l[no].packet.flags : no \in f.frames} = {}
  BY <1>1 DEF Syns, Out, In, FinFrom, FinTo
<1>3. Fits(s, p, l)
  <2>1. {Initiator(p), Responder(p)} = {Source(p), Target(p)}
    BY DEF Initiator, Responder
  <2> QED BY <1>1, <2>1 DEF Fits, OnTuple, Canon
<1>4. Timely(f, ts, now, l) /\ Facing(f, p, l)
  BY <1>1, <1>2 DEF Timely, Facing, Steady
<1>5. OneConnection(f, l) /\ Running(f, l)
  BY <1>1 DEF OneConnection, Running
<1>6. Undecided(s, p, l)
  BY <1>1, <1>2, <1>5 DEF Undecided
<1>7. Counters(f, l)
  <2>1. Carried({}, l) = {}
    BY DEF Carried
  <2> QED BY <1>1, <1>2, <2>1, FS_EmptySet DEF Counters
<1> QED BY <1>3, <1>4, <1>6, <1>7 DEF Joined, s

LEMMA SourceOf ==
    ASSUME NEW f, NEW l, OnTuple(f, l), NEW no \in f.frames
    PROVE  Source(l[no].packet) \in {f.src, f.dst}
BY DEF OnTuple, Canon

LEMMA ViewsFinite ==
    ASSUME NEW f, NEW l, Len(l) \in Nat, OnTuple(f, l)
    PROVE  IsFiniteSet(Out(f, l)) /\ IsFiniteSet(In(f, l))
<1>1. IsFiniteSet(1..Len(l))
  BY FS_Interval
<1>2. Out(f, l) \in SUBSET (1..Len(l)) /\ In(f, l) \in SUBSET (1..Len(l))
  BY DEF Out, In, OnTuple
<1> QED BY <1>1, <1>2, FS_Subset

LEMMA TurnedViews ==
    ASSUME NEW f, NEW g, NEW l, OnTuple(f, l), Turned(g, f), f.src # f.dst
    PROVE  /\ Out(g, l) = In(f, l) /\ In(g, l) = Out(f, l)
           /\ FinFrom(g, l) <=> FinTo(f, l)
           /\ FinTo(g, l) <=> FinFrom(f, l)
           /\ Syns(g, l) = Syns(f, l)
           /\ \A no \in f.frames : BothBy(g, no, l) <=> BothBy(f, no, l)
<1>1. /\ g.frames = f.frames /\ g.src = f.dst /\ g.dst = f.src
  BY DEF Turned
<1>2. \A no \in f.frames : Source(l[no].packet) = g.src <=> Source(l[no].packet) # f.src
  BY <1>1, SourceOf
<1>3. Out(g, l) = In(f, l) /\ In(g, l) = Out(f, l)
  BY <1>1, <1>2 DEF Out, In
<1>4. (FinFrom(g, l) <=> FinTo(f, l)) /\ (FinTo(g, l) <=> FinFrom(f, l))
  BY <1>1, <1>2 DEF FinFrom, FinTo
<1>5. Syns(g, l) = Syns(f, l) /\ \A no \in f.frames : BothBy(g, no, l) <=> BothBy(f, no, l)
  BY <1>1 DEF Syns, BothBy
<1> QED BY <1>3, <1>4, <1>5

LEMMA TurnedCounters ==
    ASSUME NEW f \in Flow, NEW g, NEW l, Len(l) \in Nat, OnTuple(f, l), Turned(g, f),
           f.src # f.dst, Counters(f, l)
    PROVE  Counters(g, l)
<1>1. Out(g, l) = In(f, l) /\ In(g, l) = Out(f, l)
  BY TurnedViews
<1>2. /\ g.frames = f.frames /\ g.flags_seen = f.flags_seen
      /\ g.packets_out = f.packets_in /\ g.packets_in = f.packets_out
      /\ g.payload_out = f.payload_in /\ g.payload_in = f.payload_out
      /\ g.responded <=> f.packets_out > 0
  BY DEF Turned
<1>3. /\ f.packets_out = Cardinality(Out(f, l)) /\ f.packets_in = Cardinality(In(f, l))
      /\ f.payload_out = Cardinality(Carried(Out(f, l), l))
      /\ f.payload_in = Cardinality(Carried(In(f, l), l))
      /\ IsFiniteSet(Carried(Out(f, l), l)) /\ IsFiniteSet(Carried(In(f, l), l))
      /\ f.flags_seen = UNION {l[no].packet.flags : no \in f.frames}
  BY DEF Counters
<1>4. f.packets_out > 0 <=> Out(f, l) # {}
  <2>1. IsFiniteSet(Out(f, l))
    BY ViewsFinite
  <2>2. f.packets_out \in Nat /\ (f.packets_out = 0 <=> Out(f, l) = {})
    BY <1>3, <2>1, FS_EmptySet, FS_CardinalityType
  <2> QED BY <2>2
<1> QED BY <1>1, <1>2, <1>3, <1>4 DEF Counters

\* Two pairs with the same members.
LEMMA SamePair ==
    ASSUME NEW a, NEW b, NEW c, NEW d, {a, b} = {c, d}
    PROVE  (a = c /\ b = d) \/ (a = d /\ b = c)
OBVIOUS

LEMMA NextJoins ==
    ASSUME NEW l, Len(l) \in Nat, NEW p \in Packets, NEW ts, NEW now \in Nat,
           NEW x \in State, StateInv(x, Class(p), l), Continues(x, p, now)
    PROVE  Joined(Reorient(x, p), p, ts, now, l)
<1> DEFINE f == x.flow
           r == Reorient(x, p)
           g == r.flow
<1>1. /\ r.canon = x.canon /\ r.closing = x.closing
      /\ r.oriented <=> x.oriented \/ IsSyn(p)
      /\ \/ Same(r, x) /\ (x.oriented \/ ~IsSyn(p) \/ Initiator(p) = f.src)
         \/ Swapped(r, x) /\ ~x.oriented /\ IsSyn(p) /\ Initiator(p) # f.src
  BY ReorientFields
<1>2. /\ OnTuple(f, l) /\ Spanned(f, l) /\ Steady(f, l) /\ Named(f, l)
      /\ OneConnection(f, l) /\ Counters(f, l) /\ Marks(x, l) /\ Running(f, l)
      /\ x.canon = <<f.proto, {f.src, f.dst}>> /\ Class(f) = Class(p) /\ f \in Flow
  BY DEF StateInv, FlowInv, State
<1>3. /\ x.canon = Canon(p)
      /\ now - f.end < Timeout(Class(p))
      /\ IsSyn(p) => ~x.fin_out /\ ~x.fin_in
  <2>1. f.end \in Nat /\ Timeout(Class(p)) \in Nat
    BY <1>2, PacketFacts, TimeoutFacts DEF Flow
  <2> QED BY <2>1 DEF Continues, ReusesTuple, Idle
<1>4. f.frames # {}
  BY <1>2 DEF Named
<1>5. \/ Initiator(p) = f.src /\ Responder(p) = f.dst
      \/ Initiator(p) = f.dst /\ Responder(p) = f.src
  <2>1. Canon(p)[2] = {Source(p), Target(p)}
    BY DEF Canon
  <2>2. Canon(p)[2] = {f.src, f.dst}
    BY <1>2, <1>3
  <2>3. \/ Source(p) = f.src /\ Target(p) = f.dst
        \/ Source(p) = f.dst /\ Target(p) = f.src
    <3> DEFINE a == Source(p)
               b == Target(p)
               c == f.src
               d == f.dst
    <3>1. {a, b} = {c, d}
      BY <2>1, <2>2
    <3> HIDE DEF a, b, c, d
    <3>2. (a = c /\ b = d) \/ (a = d /\ b = c)
      BY <3>1, SamePair
    <3> QED BY <3>2 DEF a, b, c, d
  <2> QED BY <2>3 DEF Initiator, Responder
<1> HIDE DEF r
<1>6. CASE Same(r, x) /\ (x.oriented \/ ~IsSyn(p) \/ Initiator(p) = f.src)
  <2>1. g = f /\ r.fin_out = x.fin_out /\ r.fin_in = x.fin_in
    BY <1>6 DEF Same
  <2> HIDE DEF f, g
  <2>2. Fits(r, p, l)
    BY <1>1, <1>2, <1>3, <2>1 DEF Fits, g
  <2>3. Timely(g, ts, now, l)
    BY <1>2, <1>3, <1>4, <2>1 DEF Timely
  <2>4. Facing(g, p, l)
    <3>1. CASE IsSyn(p) /\ Syns(f, l) = {}
      <4>1. Initiator(p) = f.src
        BY <1>2, <1>6, <3>1 DEF Marks, f
      <4>2. Responder(p) = f.dst
        BY <1>5, <4>1
      <4> QED BY <2>1, <3>1, <4>1, <4>2 DEF Facing
    <3>2. CASE ~(IsSyn(p) /\ Syns(f, l) = {})
      BY <1>2, <2>1, <3>2 DEF Facing
    <3> QED BY <3>1, <3>2
  <2>5. Undecided(r, p, l)
    BY <1>1, <1>2, <1>3, <2>1 DEF Undecided, Marks, f, g
  <2> QED BY <1>2, <2>1, <2>2, <2>3, <2>4, <2>5 DEF Joined, f, g, r
<1>7. CASE Swapped(r, x) /\ ~x.oriented /\ IsSyn(p) /\ Initiator(p) # f.src
  <2>1. /\ Turned(g, f) /\ r.fin_out = x.fin_in /\ r.fin_in = x.fin_out
        /\ Syns(f, l) = {}
    BY <1>2, <1>7 DEF Swapped, Marks
  <2>2. Initiator(p) = f.dst /\ Responder(p) = f.src /\ f.src # f.dst
    BY <1>5, <1>7
  <2> HIDE DEF f, g
  <2>3. /\ FinFrom(g, l) <=> FinTo(f, l)
        /\ FinTo(g, l) <=> FinFrom(f, l)
        /\ Syns(g, l) = {}
        /\ \A no \in f.frames : BothBy(g, no, l) <=> BothBy(f, no, l)
    BY <1>2, <2>1, <2>2, TurnedViews
  <2>4. /\ g.frames = f.frames /\ g.proto = f.proto /\ g.src = f.dst /\ g.dst = f.src
        /\ g.start = f.start /\ g.end = f.end
    BY <2>1 DEF Turned
  <2>5. OnTuple(g, l) /\ Fits(r, p, l)
    <3>1. {g.src, g.dst} = {f.src, f.dst}
      BY <2>4
    <3> QED BY <1>1, <1>2, <1>3, <2>4, <3>1 DEF Fits, OnTuple, g
  <2>6. Timely(g, ts, now, l)
    <3>1. Class(g) = Class(f)
      BY <2>4 DEF Class
    <3>2. Spanned(g, l)
      BY <1>2, <2>4 DEF Spanned
    <3>3. Steady(g, l)
      BY <1>2, <2>4, <3>1 DEF Steady
    <3> QED BY <1>2, <1>3, <1>4, <2>4, <3>1, <3>2, <3>3 DEF Timely
  <2>7. Facing(g, p, l)
    BY <1>7, <2>2, <2>3, <2>4 DEF Facing
  <2>8. OneConnection(g, l) /\ Running(g, l)
    BY <1>2, <2>3, <2>4 DEF OneConnection, Running
  <2>9. Undecided(r, p, l)
    BY <1>1, <1>2, <1>3, <1>7, <2>1, <2>3, <2>8 DEF Undecided, Marks, f, g
  <2>10. Counters(g, l)
    BY <1>2, <2>1, <2>2, TurnedCounters
  <2> QED BY <2>5, <2>6, <2>7, <2>9, <2>10 DEF Joined, g, r
<1> QED BY <1>1, <1>6, <1>7

-----------------------------------------------------------------------------
(* Counting the frame *)

LEMMA GrownViews ==
    ASSUME NEW l, NEW m, NEW ts, NEW p, Extends(m, l, ts, p),
           NEW f, NEW g, OnTuple(f, l), Grown(g, f, p, ts, Len(m))
    PROVE  LET n == Len(m) IN
           /\ Syns(g, m) = Syns(f, l) \cup (IF IsSyn(p) THEN {n} ELSE {})
           /\ Out(g, m) = Out(f, l) \cup (IF Source(p) = f.src THEN {n} ELSE {})
           /\ In(g, m) = In(f, l) \cup (IF Source(p) # f.src THEN {n} ELSE {})
           /\ FinFrom(g, m) <=> FinFrom(f, l) \/ ("FIN" \in p.flags /\ Source(p) = f.src)
           /\ FinTo(g, m) <=> FinTo(f, l) \/ ("FIN" \in p.flags /\ Source(p) # f.src)
           /\ \A no \in f.frames : BothBy(g, no, m) <=> BothBy(f, no, l)
           /\ FinFrom(f, l) /\ FinTo(f, l) => BothBy(g, n, m)
           /\ BothBy(g, n, m) /\ "FIN" \notin p.flags => FinFrom(f, l) /\ FinTo(f, l)
<1> DEFINE n == Len(m)
<1>1. /\ \A no \in f.frames : /\ no \in Nat /\ m[no] = l[no] /\ no < n
      /\ n \in Nat /\ n \notin f.frames /\ m[n].packet = p /\ m[n].ts = ts
      /\ g.frames = f.frames \cup {n} /\ g.src = f.src
  <2>1. /\ \A no \in f.frames : no \in Nat /\ m[no] = l[no] /\ no < n
        /\ n \in Nat /\ n \notin f.frames
    BY OldFrames
  <2>2. m[n].packet = p /\ m[n].ts = ts
    BY DEF Extends
  <2>3. g.frames = f.frames \cup {n} /\ g.src = f.src
    BY DEF Grown
  <2> QED BY <2>1, <2>2, <2>3
<1> HIDE DEF n
<1>2. /\ Syns(g, m) = Syns(f, l) \cup (IF IsSyn(p) THEN {n} ELSE {})
      /\ Out(g, m) = Out(f, l) \cup (IF Source(p) = f.src THEN {n} ELSE {})
      /\ In(g, m) = In(f, l) \cup (IF Source(p) # f.src THEN {n} ELSE {})
  BY <1>1 DEF Syns, Out, In
<1>3. /\ FinFrom(g, m) <=> FinFrom(f, l) \/ ("FIN" \in p.flags /\ Source(p) = f.src)
      /\ FinTo(g, m) <=> FinTo(f, l) \/ ("FIN" \in p.flags /\ Source(p) # f.src)
  BY <1>1 DEF FinFrom, FinTo, HasFlag
<1>4. ASSUME NEW no \in f.frames PROVE BothBy(g, no, m) <=> BothBy(f, no, l)
  <2>1. \A a \in g.frames : a <= no => a \in f.frames
    BY <1>1
  <2>2. f.frames \subseteq g.frames
    BY <1>1
  <2> QED BY <1>1, <2>1, <2>2 DEF BothBy, HasFlag
<1>5. ASSUME FinFrom(f, l), FinTo(f, l) PROVE BothBy(g, n, m)
  <2>1. PICK a \in f.frames : HasFlag("FIN", a, l) /\ Source(l[a].packet) = f.src
    BY <1>5 DEF FinFrom
  <2>2. PICK b \in f.frames : HasFlag("FIN", b, l) /\ Source(l[b].packet) # f.src
    BY <1>5 DEF FinTo
  <2>3. a \in g.frames /\ b \in g.frames /\ a <= n /\ b <= n
    BY <1>1
  <2> QED BY <1>1, <2>1, <2>2, <2>3 DEF BothBy, HasFlag
<1>6. ASSUME BothBy(g, n, m), "FIN" \notin p.flags PROVE FinFrom(f, l) /\ FinTo(f, l)
  <2>1. PICK a \in g.frames, b \in g.frames :
          /\ HasFlag("FIN", a, m) /\ HasFlag("FIN", b, m)
          /\ Source(m[a].packet) # Source(m[b].packet)
    BY <1>6 DEF BothBy
  <2>2. /\ a \in f.frames /\ b \in f.frames /\ m[a] = l[a] /\ m[b] = l[b]
    BY <1>1, <1>6, <2>1 DEF HasFlag
  <2>3. /\ HasFlag("FIN", a, l) /\ HasFlag("FIN", b, l)
        /\ Source(l[a].packet) # Source(l[b].packet)
    BY <2>1, <2>2 DEF HasFlag
  <2>4. Source(l[a].packet) \in {f.src, f.dst} /\ Source(l[b].packet) \in {f.src, f.dst}
    BY <2>2, SourceOf
  <2>5. CASE Source(l[a].packet) = f.src
    BY <2>2, <2>3, <2>5 DEF FinFrom, FinTo
  <2>6. CASE Source(l[a].packet) # f.src
    BY <2>2, <2>3, <2>4, <2>6 DEF FinFrom, FinTo
  <2> QED BY <2>5, <2>6
<1> QED BY <1>2, <1>3, <1>4, <1>5, <1>6 DEF n

LEMMA GrownOnTuple ==
    ASSUME NEW l, NEW m, NEW ts, NEW p, Extends(m, l, ts, p),
           NEW f, NEW g, OnTuple(f, l), Grown(g, f, p, ts, Len(m)),
           Canon(p) = <<f.proto, {f.src, f.dst}>>
    PROVE  OnTuple(g, m)
<1>1. /\ \A no \in f.frames : no \in 1..Len(l) /\ m[no] = l[no]
      /\ Len(l) \in Nat /\ Len(m) = Len(l) + 1 /\ m[Len(m)].packet = p
  BY OldFrames DEF Extends
<1>2. /\ g.frames = f.frames \cup {Len(m)}
      /\ g.proto = f.proto /\ g.src = f.src /\ g.dst = f.dst
  BY DEF Grown
<1>3. g.frames \subseteq 1..Len(m)
  BY <1>1, <1>2
<1>4. \A no \in f.frames : Canon(m[no].packet) = <<g.proto, {g.src, g.dst}>>
  BY <1>1, <1>2 DEF OnTuple
<1> QED BY <1>1, <1>2, <1>3, <1>4 DEF OnTuple

LEMMA GrownSpanned ==
    ASSUME NEW l, NEW m, NEW ts \in Nat, NEW p, Extends(m, l, ts, p), NEW now,
           NEW f \in Flow, NEW g, OnTuple(f, l), Grown(g, f, p, ts, Len(m)),
           Timely(f, ts, now, l)
    PROVE  Spanned(g, m)
<1> DEFINE n == Len(m)
<1>1. /\ \A no \in f.frames : m[no] = l[no] /\ l[no].ts \in Nat
      /\ f.start \in Nat /\ f.end \in Nat /\ m[n].ts = ts
  BY OldFrames DEF Extends, Flow
<1>2. /\ g.frames = f.frames \cup {n}
      /\ g.start = (IF ts < f.start THEN ts ELSE f.start) /\ g.end = Later(f.end, ts)
  BY DEF Grown
<1> HIDE DEF n
<1>3. /\ g.start \in Nat /\ g.end \in Nat /\ g.start <= ts /\ ts <= g.end
      /\ g.start <= f.start /\ f.end <= g.end
      /\ g.start = ts \/ g.start = f.start
      /\ g.end = ts \/ g.end = f.end
  BY <1>1, <1>2 DEF Later
<1>4. CASE f.frames = {}
  <2>1. f.start = ts /\ f.end = ts
    BY <1>4 DEF Timely
  <2>2. g.start = ts /\ g.end = ts
    BY <1>3, <2>1
  <2> QED BY <1>1, <1>2, <1>4, <2>2 DEF Spanned
<1>5. CASE f.frames # {}
  <2>1. Spanned(f, l)
    BY <1>5 DEF Timely
  <2>2. PICK a \in f.frames, b \in f.frames : l[a].ts = f.start /\ l[b].ts = f.end
    BY <2>1 DEF Spanned
  <2>3. ASSUME NEW no \in f.frames PROVE g.start <= m[no].ts /\ m[no].ts <= g.end
    <3>1. f.start <= l[no].ts /\ l[no].ts <= f.end
      BY <2>1 DEF Spanned
    <3>2. l[no].ts \in Nat /\ m[no] = l[no]
      BY <1>1
    <3> QED BY <1>1, <1>3, <3>1, <3>2
  <2>4. \A no \in g.frames : g.start <= m[no].ts /\ m[no].ts <= g.end
    BY <1>1, <1>2, <1>3, <2>3
  <2>5. \E x \in g.frames : m[x].ts = g.start
    BY <1>1, <1>2, <1>3, <2>2
  <2>6. \E x \in g.frames : m[x].ts = g.end
    BY <1>1, <1>2, <1>3, <2>2
  <2> QED BY <2>4, <2>5, <2>6 DEF Spanned
<1> QED BY <1>4, <1>5

LEMMA GrownSteady ==
    ASSUME NEW l, NEW m, NEW ts \in Nat, NEW p, Extends(m, l, ts, p),
           NEW now \in Nat, ts <= now,
           NEW f \in Flow, NEW g, OnTuple(f, l), Grown(g, f, p, ts, Len(m)),
           Timely(f, ts, now, l)
    PROVE  Steady(g, m)
<1> DEFINE n == Len(m)
<1>1. /\ \A no \in f.frames : /\ m[no] = l[no] /\ l[no].ts \in Nat
                              /\ no < n /\ no \in Nat
      /\ n \in Nat /\ n \notin f.frames /\ f.end \in Nat /\ m[n].ts = ts
  BY OldFrames DEF Extends, Flow
<1>2. g.frames = f.frames \cup {n} /\ Class(g) = Class(f)
  BY DEF Grown, Class
<1> HIDE DEF n
<1>3. ASSUME NEW no \in f.frames, \E b \in g.frames : b < no
      PROVE  \E b \in g.frames : b < no /\ m[no].ts - m[b].ts < Timeout(Class(g))
  <2>1. \E b \in f.frames : b < no
    BY <1>1, <1>2, <1>3
  <2>2. PICK b \in f.frames : b < no /\ l[no].ts - l[b].ts < Timeout(Class(f))
    BY <2>1 DEF Timely, Steady
  <2> QED BY <1>1, <1>2, <2>2
<1>4. ASSUME \E b \in g.frames : b < n
      PROVE  \E b \in g.frames : b < n /\ m[n].ts - m[b].ts < Timeout(Class(g))
  <2>1. f.frames # {}
    BY <1>1, <1>2, <1>4
  <2>2. Spanned(f, l) /\ now - f.end < Timeout(Class(f))
    BY <2>1 DEF Timely
  <2>3. PICK b \in f.frames : l[b].ts = f.end
    BY <2>2 DEF Spanned
  <2>4. Timeout(Class(f)) \in Nat
    BY TimeoutFacts DEF Class, Classes
  <2>5. ts - f.end < Timeout(Class(f))
    BY <1>1, <2>2, <2>4
  <2> QED BY <1>1, <1>2, <2>3, <2>5
<1> QED BY <1>2, <1>3, <1>4 DEF Steady

LEMMA GrownNamed ==
    ASSUME NEW l, NEW m, NEW ts, NEW p, Extends(m, l, ts, p),
           NEW f, NEW g, OnTuple(f, l), Grown(g, f, p, ts, Len(m)),
           Facing(f, p, l)
    PROVE  Named(g, m)
<1> DEFINE n == Len(m)
<1>1. /\ \A no \in f.frames : m[no] = l[no] /\ no < n /\ no \in Nat
      /\ n \in Nat /\ m[n].packet = p
  BY OldFrames DEF Extends
<1>2. /\ g.frames = f.frames \cup {n} /\ g.src = f.src /\ g.dst = f.dst
  BY DEF Grown
<1>3. Syns(g, m) = Syns(f, l) \cup (IF IsSyn(p) THEN {n} ELSE {})
  BY GrownViews
<1>4. Syns(f, l) \subseteq f.frames
  BY DEF Syns
<1> HIDE DEF n
<1>5. CASE Named(f, l) /\ (IsSyn(p) => Syns(f, l) # {})
  <2>1. PICK by \in f.frames : NamedBy(f, by, l)
    BY <1>5 DEF Named
  <2>2. by < n /\ by \in Nat /\ m[by] = l[by]
    BY <1>1
  <2>3. CASE Syns(f, l) = {}
    <3>1. Syns(g, m) = {}
      BY <1>3, <1>5, <2>3
    <3>2. \A no \in g.frames : by <= no
      BY <1>1, <1>2, <2>1, <2>2, <2>3 DEF NamedBy
    <3>3. NamedBy(g, by, m)
      BY <1>2, <2>1, <2>2, <3>1, <3>2 DEF NamedBy
    <3> QED BY <1>2, <3>3 DEF Named
  <2>4. CASE Syns(f, l) # {}
    <3>1. by \in Syns(g, m)
      BY <1>3, <2>1, <2>4 DEF NamedBy
    <3>2. \A no \in Syns(g, m) : by <= no
      BY <1>1, <1>3, <2>1, <2>2, <2>4 DEF NamedBy
    <3>3. NamedBy(g, by, m)
      BY <1>2, <2>1, <2>2, <3>1, <3>2 DEF NamedBy
    <3> QED BY <1>2, <3>3 DEF Named
  <2> QED BY <2>3, <2>4
<1>6. CASE /\ f.src = Initiator(p) /\ f.dst = Responder(p) /\ Syns(f, l) = {}
           /\ f.frames = {} \/ IsSyn(p)
  <2>1. CASE IsSyn(p)
    <3>1. Syns(g, m) = {n}
      BY <1>3, <1>6, <2>1
    <3>2. NamedBy(g, n, m)
      BY <1>1, <1>2, <1>6, <3>1 DEF NamedBy
    <3> QED BY <1>2, <3>2 DEF Named
  <2>2. CASE ~IsSyn(p)
    <3>1. Syns(g, m) = {} /\ g.frames = {n}
      BY <1>2, <1>3, <1>6, <2>2
    <3>2. NamedBy(g, n, m)
      BY <1>1, <1>2, <1>6, <3>1 DEF NamedBy
    <3> QED BY <1>2, <3>2 DEF Named
  <2> QED BY <2>1, <2>2
<1> QED BY <1>5, <1>6 DEF Facing

LEMMA GrownOne ==
    ASSUME NEW l, NEW m, NEW ts, NEW p, Extends(m, l, ts, p),
           NEW f, NEW g, OnTuple(f, l), Grown(g, f, p, ts, Len(m)),
           OneConnection(f, l), Running(f, l),
           IsSyn(p) => ~FinFrom(f, l) /\ ~FinTo(f, l)
    PROVE  OneConnection(g, m)
<1> DEFINE n == Len(m)
<1>1. /\ \A no \in f.frames : m[no] = l[no] /\ no < n /\ no \in Nat
      /\ n \in Nat /\ m[n].packet = p
  BY OldFrames DEF Extends
<1>2. g.frames = f.frames \cup {n}
  BY DEF Grown
<1>3. \A no \in f.frames : BothBy(g, no, m) <=> BothBy(f, no, l)
  BY GrownViews
<1> HIDE DEF n
<1>4. ASSUME NEW a \in f.frames, NEW b \in f.frames, a < b
      PROVE  /\ ~HasFlag("RST", a, m)
             /\ HasFlag("FIN", a, m) => ~IsSyn(m[b].packet)
             /\ BothBy(g, a, m) => HasFlag("FIN", a, m)
  BY <1>1, <1>3, <1>4 DEF OneConnection, HasFlag
<1>5. ASSUME NEW a \in f.frames
      PROVE  /\ ~HasFlag("RST", a, m)
             /\ HasFlag("FIN", a, m) => ~IsSyn(p)
             /\ BothBy(g, a, m) => HasFlag("FIN", a, m)
  <2>1. HasFlag("FIN", a, l) => FinFrom(f, l) \/ FinTo(f, l)
    BY DEF FinFrom, FinTo
  <2> QED BY <1>1, <1>3, <2>1 DEF Running, HasFlag
<1> SUFFICES ASSUME NEW a \in g.frames, NEW b \in g.frames, a < b
             PROVE  /\ ~HasFlag("RST", a, m)
                    /\ HasFlag("FIN", a, m) => ~IsSyn(m[b].packet)
                    /\ BothBy(g, a, m) => HasFlag("FIN", a, m)
  BY DEF OneConnection
<1>6. a \in f.frames
  BY <1>1, <1>2
<1>7. CASE b = n
  BY <1>1, <1>5, <1>6, <1>7
<1>8. CASE b \in f.frames
  BY <1>4, <1>6, <1>8
<1> QED BY <1>2, <1>7, <1>8

LEMMA GrownCounters ==
    ASSUME NEW l, NEW m, NEW ts, NEW p \in Packets, Extends(m, l, ts, p),
           NEW f, NEW g, OnTuple(f, l), Grown(g, f, p, ts, Len(m)),
           Counters(f, l),
           Source(p) = f.src => GrownOut(g, f, p),
           Source(p) # f.src => GrownIn(g, f, p)
    PROVE  Counters(g, m)
<1> DEFINE n == Len(m)
           seen == {l[no].packet.flags : no \in f.frames}
<1>1. /\ \A no \in f.frames : m[no] = l[no] /\ no < n /\ no \in Nat
      /\ n \in Nat /\ m[n].packet = p /\ n \notin f.frames
  BY OldFrames DEF Extends
<1>2. /\ g.frames = f.frames \cup {n} /\ g.src = f.src
      /\ g.flags_seen = f.flags_seen \cup p.flags
  BY DEF Grown
<1>3. /\ Out(g, m) = Out(f, l) \cup (IF Source(p) = f.src THEN {n} ELSE {})
      /\ In(g, m) = In(f, l) \cup (IF Source(p) # f.src THEN {n} ELSE {})
  BY GrownViews
<1>4. IsFiniteSet(Out(f, l)) /\ IsFiniteSet(In(f, l))
  BY ViewsFinite DEF Extends
<1> HIDE DEF n
<1>5. n \notin Out(f, l) /\ n \notin In(f, l)
  BY <1>1 DEF Out, In
<1>6. /\ Cardinality(Out(f, l) \cup {n}) = Cardinality(Out(f, l)) + 1
      /\ Cardinality(In(f, l) \cup {n}) = Cardinality(In(f, l)) + 1
  BY <1>4, <1>5, FS_AddElement
<1>7. /\ p.payload \in Nat /\ m[n].packet.payload = p.payload
      /\ \A no \in Out(f, l) : m[no] = l[no]
      /\ \A no \in In(f, l) : m[no] = l[no]
  <2>1. p \in Packet
    BY PacketsAssumption
  <2> QED BY <1>1, <2>1 DEF Packet, Out, In
<1>8. /\ Carried(Out(f, l), m) = Carried(Out(f, l), l)
      /\ Carried(In(f, l), m) = Carried(In(f, l), l)
      /\ IsFiniteSet(Carried(Out(f, l), l)) /\ IsFiniteSet(Carried(In(f, l), l))
  <2>1. Carried(Out(f, l), m) = Carried(Out(f, l), l)
    BY <1>7, CarriedSame
  <2>2. Carried(In(f, l), m) = Carried(In(f, l), l)
    BY <1>7, CarriedSame
  <2> QED BY <2>1, <2>2 DEF Counters
<1>9. /\ IsFiniteSet(Carried(Out(f, l) \cup {n}, m))
      /\ Cardinality(Carried(Out(f, l) \cup {n}, m))
           = Cardinality(Carried(Out(f, l), l)) + p.payload
  BY <1>5, <1>7, <1>8, CarriedMore
<1>10. /\ IsFiniteSet(Carried(In(f, l) \cup {n}, m))
       /\ Cardinality(Carried(In(f, l) \cup {n}, m))
            = Cardinality(Carried(In(f, l), l)) + p.payload
  BY <1>5, <1>7, <1>8, CarriedMore
<1>11. {m[no].packet.flags : no \in g.frames} = seen \cup {p.flags}
  BY <1>1, <1>2
<1>12. g.flags_seen = UNION {m[no].packet.flags : no \in g.frames}
  <2>1. UNION (seen \cup {p.flags}) = (UNION seen) \cup p.flags
    OBVIOUS
  <2> QED BY <1>2, <1>11, <2>1 DEF Counters
<1>13. CASE Source(p) = f.src
  <2>1. Out(g, m) = Out(f, l) \cup {n} /\ In(g, m) = In(f, l)
    BY <1>3, <1>13
  <2> QED BY <1>6, <1>12, <1>13, <1>8, <1>9, <2>1 DEF Counters, GrownOut
<1>14. CASE Source(p) # f.src
  <2>1. In(g, m) = In(f, l) \cup {n} /\ Out(g, m) = Out(f, l)
    BY <1>3, <1>14
  <2> QED BY <1>6, <1>12, <1>14, <1>8, <1>10, <2>1 DEF Counters, GrownIn
<1> QED BY <1>13, <1>14

\* k is s with the frame counted.
Folded(k, s, p, ts, m) ==
    /\ FlowInv(k.flow, m) /\ Grown(k.flow, s.flow, p, ts, Len(m))
    /\ k.canon = Canon(p) /\ Class(k.flow) = Class(p)
    /\ k.canon = <<k.flow.proto, {k.flow.src, k.flow.dst}>>

LEMMA FoldedFlow ==
    ASSUME NEW l, NEW m, NEW ts \in Nat, NEW p \in Packets, Extends(m, l, ts, p),
           NEW now \in Nat, ts <= now, NEW s \in State, Joined(s, p, ts, now, l)
    PROVE  Folded(Counted(s, p, ts, Len(m)), s, p, ts, m)
<1> DEFINE k == Counted(s, p, ts, Len(m))
           f == s.flow
           g == k.flow
<1>1. Len(m) \in Nat
  BY DEF Extends
<1>2. /\ k.canon = s.canon /\ Grown(g, f, p, ts, Len(m))
      /\ Outbound(s, p) => GrownOut(g, f, p)
      /\ ~Outbound(s, p) => GrownIn(g, f, p)
  BY <1>1, CountedFields
<1>3. /\ s.canon = Canon(p) /\ s.canon = <<f.proto, {f.src, f.dst}>>
      /\ OnTuple(f, l) /\ Timely(f, ts, now, l) /\ Facing(f, p, l) /\ Counters(f, l)
      /\ IsSyn(p) => ~FinFrom(f, l) /\ ~FinTo(f, l)
      /\ OneConnection(f, l) /\ Running(f, l) /\ f \in Flow
  BY DEF Joined, Fits, Undecided, State
<1>4. /\ Source(p) = f.src => GrownOut(g, f, p)
      /\ Source(p) # f.src => GrownIn(g, f, p)
  BY <1>2 DEF Outbound
<1> HIDE DEF f, g, k
<1>5. OnTuple(g, m)
  BY <1>2, <1>3, GrownOnTuple
<1>6. Spanned(g, m) /\ Steady(g, m)
  BY <1>2, <1>3, GrownSpanned, GrownSteady
<1>7. Named(g, m) /\ OneConnection(g, m)
  BY <1>2, <1>3, GrownNamed, GrownOne
<1>8. Counters(g, m)
  BY <1>2, <1>3, <1>4, GrownCounters
<1>9. g.proto = f.proto /\ g.src = f.src /\ g.dst = f.dst
  BY <1>2 DEF Grown
<1>10. Class(g) = Class(p)
  <2>1. f.proto = p.proto
    <3>1. Canon(p)[1] = p.proto
      BY DEF Canon
    <3>2. Canon(p)[1] = f.proto
      BY <1>3
    <3> QED BY <3>1, <3>2
  <2> QED BY <1>9, <2>1 DEF Class
<1>11. FlowInv(g, m)
  BY <1>5, <1>6, <1>7, <1>8 DEF FlowInv
<1> QED BY <1>2, <1>3, <1>9, <1>10, <1>11 DEF Folded, f, g, k

\* A FIN is a FIN of TCP.
LEMMA FinIsTcp ==
    ASSUME NEW l, NEW m, NEW ts, NEW p \in Packets, Extends(m, l, ts, p),
           NEW s, Fits(s, p, l), FinFrom(s.flow, l)
    PROVE  p.proto = "tcp"
<1> DEFINE f == s.flow
<1>1. PICK no \in f.frames : HasFlag("FIN", no, l)
  BY DEF FinFrom
<1>2. /\ OnTuple(f, l) /\ Canon(p) = <<f.proto, {f.src, f.dst}>>
  BY DEF Fits
<1> HIDE DEF f
<1>3. l[no].packet \in Packets /\ Canon(l[no].packet) = Canon(p)
  BY <1>2, OldFrames DEF OnTuple
<1>4. l[no].packet.proto = "tcp"
  BY <1>1, <1>3, PacketsAssumption DEF HasFlag
<1>5. Canon(l[no].packet)[1] = l[no].packet.proto /\ Canon(p)[1] = p.proto
  BY DEF Canon
<1> QED BY <1>3, <1>4, <1>5

LEMMA FoldedState ==
    ASSUME NEW l, NEW m, NEW ts \in Nat, NEW p \in Packets, Extends(m, l, ts, p),
           NEW now \in Nat, ts <= now, NEW s \in State, Joined(s, p, ts, now, l),
           ~Finishes(Counted(s, p, ts, Len(m)), p)
    PROVE  StateInv(Marked(Counted(s, p, ts, Len(m)), p), Class(p), m)
<1> DEFINE n == Len(m)
           k == Counted(s, p, ts, n)
           d == Marked(k, p)
           f == s.flow
           g == k.flow
           fin == p.proto = "tcp" /\ "FIN" \in p.flags /\ "RST" \notin p.flags
<1>1. n \in Nat
  BY DEF Extends
<1>2. /\ FlowInv(g, m) /\ Grown(g, f, p, ts, n) /\ k.canon = Canon(p) /\ Class(g) = Class(p)
      /\ k.canon = <<g.proto, {g.src, g.dst}>>
  <2>1. Folded(k, s, p, ts, m)
    BY FoldedFlow
  <2> HIDE DEF k
  <2> QED BY <2>1 DEF Folded
<1>3. /\ k \in State /\ k.oriented = s.oriented /\ k.closing = s.closing
      /\ k.fin_out = s.fin_out /\ k.fin_in = s.fin_in
  BY <1>1, CountedFacts, CountedFields
<1>4. /\ d.flow = g /\ d.canon = k.canon /\ d.oriented = k.oriented
      /\ d.fin_out <=> k.fin_out \/ (fin /\ Outbound(k, p))
      /\ d.fin_in <=> k.fin_in \/ (fin /\ ~Outbound(k, p))
      /\ (k.closing <=> k.fin_out /\ k.fin_in) => (d.closing <=> d.fin_out /\ d.fin_in)
  <2> HIDE DEF k
  <2> QED BY <1>3, MarkedFields
<1>5. /\ OnTuple(f, l) /\ Fits(s, p, l)
      /\ s.oriented <=> Syns(f, l) # {} \/ IsSyn(p)
      /\ s.fin_out <=> FinFrom(f, l)
      /\ s.fin_in <=> FinTo(f, l)
      /\ s.closing <=> s.fin_out /\ s.fin_in
      /\ Running(f, l)
  BY DEF Joined, Fits, Undecided
<1>6. Outbound(k, p) <=> Source(p) = f.src
  BY <1>2 DEF Outbound, Grown
<1>7. fin <=> "FIN" \in p.flags
  BY PacketsAssumption DEF Finishes
<1>8. "RST" \notin p.flags
  BY PacketsAssumption DEF Finishes
<1>9. k.closing => "FIN" \in p.flags
  <2>1. ASSUME k.closing PROVE p.proto = "tcp"
    <3>1. FinFrom(f, l)
      BY <1>3, <1>5, <2>1
    <3> QED BY <1>5, <3>1, FinIsTcp
  <2> QED BY <2>1 DEF Finishes
<1>10. /\ Syns(g, m) = Syns(f, l) \cup (IF IsSyn(p) THEN {n} ELSE {})
       /\ FinFrom(g, m) <=> FinFrom(f, l) \/ ("FIN" \in p.flags /\ Source(p) = f.src)
       /\ FinTo(g, m) <=> FinTo(f, l) \/ ("FIN" \in p.flags /\ Source(p) # f.src)
       /\ \A no \in f.frames : BothBy(g, no, m) <=> BothBy(f, no, l)
       /\ BothBy(g, n, m) /\ "FIN" \notin p.flags => FinFrom(f, l) /\ FinTo(f, l)
  <2> HIDE DEF g, f
  <2> QED BY <1>2, <1>5, GrownViews
<1> HIDE DEF fin, d, k, f, g
<1>11. Marks(d, m)
  <2>1. d.oriented <=> Syns(g, m) # {}
    BY <1>3, <1>4, <1>5, <1>10
  <2>2. d.fin_out <=> FinFrom(g, m)
    BY <1>3, <1>4, <1>5, <1>6, <1>7, <1>10
  <2>3. d.fin_in <=> FinTo(g, m)
    BY <1>3, <1>4, <1>5, <1>6, <1>7, <1>10
  <2>4. d.closing <=> d.fin_out /\ d.fin_in
    BY <1>3, <1>4, <1>5
  <2> QED BY <1>4, <2>1, <2>2, <2>3, <2>4 DEF Marks
<1>12. Running(g, m)
  <2>1. /\ g.frames = f.frames \cup {n} /\ m[n].packet = p
        /\ \A no \in f.frames : m[no] = l[no]
    BY <1>2, <1>5, OldFrames DEF Grown, Extends
  <2>2. BothBy(g, n, m) => "FIN" \in p.flags
    BY <1>3, <1>5, <1>9, <1>10
  <2> HIDE DEF n
  <2>3. \A no \in f.frames : ~HasFlag("RST", no, m) /\ (BothBy(g, no, m) => HasFlag("FIN", no, m))
    BY <1>5, <1>10, <2>1 DEF Running, HasFlag
  <2>4. ~HasFlag("RST", n, m) /\ (BothBy(g, n, m) => HasFlag("FIN", n, m))
    BY <1>8, <2>1, <2>2 DEF HasFlag
  <2> QED BY <2>1, <2>3, <2>4 DEF Running
<1> QED BY <1>2, <1>4, <1>11, <1>12 DEF StateInv, d, k

LEMMA FoldedEnd ==
    ASSUME NEW l, NEW m, NEW ts \in Nat, NEW p \in Packets, Extends(m, l, ts, p),
           NEW now \in Nat, ts <= now, NEW s \in State, Joined(s, p, ts, now, l),
           Finishes(Counted(s, p, ts, Len(m)), p)
    PROVE  \/ "RST" \in p.flags
           \/ ("FIN" \notin p.flags /\ BothBy(Counted(s, p, ts, Len(m)).flow, Len(m), m))
<1> DEFINE n == Len(m)
           k == Counted(s, p, ts, n)
           f == s.flow
<1>1. n \in Nat
  BY DEF Extends
<1>2. k.closing = s.closing
  BY <1>1, CountedFields
<1>3. Grown(k.flow, f, p, ts, n)
  BY FoldedFlow DEF Folded
<1>4. s.closing => FinFrom(f, l) /\ FinTo(f, l)
  BY DEF Joined, Undecided
<1>5. OnTuple(f, l)
  BY DEF Joined, Fits
<1>6. FinFrom(f, l) /\ FinTo(f, l) => BothBy(k.flow, n, m)
  <2> HIDE DEF k, f
  <2> QED BY <1>3, <1>5, GrownViews
<1> HIDE DEF k
<1>7. "RST" \in p.flags \/ ("FIN" \notin p.flags /\ k.closing)
  BY DEF Finishes, k
<1>8. k.closing => BothBy(k.flow, n, m)
  BY <1>2, <1>4, <1>6
<1>9. "RST" \in p.flags \/ ("FIN" \notin p.flags /\ BothBy(k.flow, n, m))
  BY <1>7, <1>8
<1> QED BY <1>9 DEF k

-----------------------------------------------------------------------------
(* The steps of the table *)

LEMMA GetsJoined ==
    ASSUME TypeOK, HInv, NEW p \in Packets, NEW ts \in Nat, NEW now \in Nat,
           NEW s, Gets(s, p, ts, now)
    PROVE  Joined(s, p, ts, now, log)
<1>1. Len(log) \in Nat /\ Class(p) \in Classes /\ table[Class(p)] \in Seq(State)
  BY PacketFacts, LenProperties DEF TypeOK
<1>2. CASE s = OpenFlow(p, ts)
  BY <1>2, OpenJoins
<1>3. ASSUME NEW j \in 1..Len(table[Class(p)]),
             Continues(table[Class(p)][j], p, now), s = Reorient(table[Class(p)][j], p)
      PROVE  Joined(s, p, ts, now, log)
  <2> DEFINE x == table[Class(p)][j]
             l == log
  <2>1. x \in State /\ StateInv(x, Class(p), l) /\ Continues(x, p, now)
    BY <1>1, <1>3, StateAt DEF HInv
  <2>2. s = Reorient(x, p) /\ Len(l) \in Nat
    BY <1>1, <1>3
  <2> HIDE DEF x, l
  <2>3. Joined(Reorient(x, p), p, ts, now, l)
    BY <2>1, <2>2, NextJoins
  <2> QED BY <2>2, <2>3 DEF l
<1> QED BY <1>2, <1>3 DEF Gets

\* k is the state of the frame an add has just counted.
Outcome(k, p) ==
    /\ FlowInv(k.flow, log') /\ Class(k.flow) = Class(p)
    /\ Len(log') \in k.flow.frames
    /\ ~Finishes(k, p) => StateInv(Marked(k, p), Class(p), log')
    /\ Finishes(k, p) => \/ "RST" \in p.flags
                         \/ ("FIN" \notin p.flags /\ BothBy(k.flow, Len(log'), log'))

LEMMA OutcomeOf ==
    ASSUME IInv, HInv, NEW p \in Packets, NEW ts \in Times, Arrive(p, ts),
           NEW s \in State, Gets(s, p, ts, Later(clock, ts))
    PROVE  Outcome(Counted(s, p, ts, Len(log) + 1), p)
<1> DEFINE now == Later(clock, ts)
<1>1. Extends(log', log, ts, p)
  BY LogGrows DEF IInv
<1>2. now \in Nat /\ ts \in Nat /\ ts <= now
  BY ArriveFacts
<1>3. Gets(s, p, ts, now) /\ TypeOK
  BY DEF IInv
<1> HIDE DEF now
<1> DEFINE l == log
           m == log'
           k == Counted(s, p, ts, Len(m))
<1>4. Joined(s, p, ts, now, l)
  BY <1>2, <1>3, GetsJoined
<1>5. Extends(m, l, ts, p) /\ Len(m) = Len(log) + 1
  BY <1>1 DEF Extends
<1> HIDE DEF l, m
<1>6. Folded(k, s, p, ts, m)
  BY <1>2, <1>4, <1>5, FoldedFlow
<1>7. ~Finishes(k, p) => StateInv(Marked(k, p), Class(p), m)
  BY <1>2, <1>4, <1>5, FoldedState
<1>8. Finishes(k, p) => \/ "RST" \in p.flags
                        \/ ("FIN" \notin p.flags /\ BothBy(k.flow, Len(m), m))
  BY <1>2, <1>4, <1>5, FoldedEnd
<1> HIDE DEF k
<1>9. Outcome(k, p)
  BY <1>6, <1>7, <1>8 DEF Folded, Grown, Outcome, m
<1> QED BY <1>5, <1>9 DEF k

LEMMA AddOutcome ==
    ASSUME IInv, HInv, NEW p \in Packets, NEW ts \in Times, Add(p, ts)
    PROVE  /\ Extends(log', log, ts, p) /\ clock' = Later(clock, ts)
           /\ \E k : Outcome(k, p) /\ Origins(p, clock', k)
<1> DEFINE now == Later(clock, ts)
<1>1. PICK s \in State : /\ Gets(s, p, ts, now)
                         /\ Origins(p, now, Counted(s, p, ts, Len(log) + 1))
  BY AddSources
<1>2. Arrive(p, ts)
  BY AddSources
<1>3. Extends(log', log, ts, p) /\ clock' = now
  BY <1>2, LogGrows DEF IInv, Arrive
<1>4. Outcome(Counted(s, p, ts, Len(log) + 1), p)
  BY <1>1, <1>2, OutcomeOf
<1> QED BY <1>1, <1>3, <1>4

LEMMA SurvivorInv ==
    ASSUME HInv, NEW p, NEW ts, Extends(log', log, ts, p), NEW k, Outcome(k, p),
           NEW c \in Classes, NEW st, Survives(st, c, p, k)
    PROVE  StateInv(st, c, log')
<1>1. CASE \E j \in 1..Len(table[c]) : st = table[c][j]
  <2> DEFINE l == log
             m == log'
  <2>1. StateInv(st, c, l)
    BY <1>1 DEF HInv
  <2>2. Extends(m, l, ts, p)
    OBVIOUS
  <2> HIDE DEF l, m
  <2>3. StateInv(st, c, m)
    BY <2>1, <2>2, StateStable
  <2> QED BY <2>3 DEF m
<1>2. CASE c = Class(p) /\ ~Finishes(k, p) /\ st = Marked(k, p)
  BY <1>2 DEF Outcome
<1> QED BY <1>1, <1>2 DEF Survives

LEMMA OlderFlow ==
    ASSUME NEW p, NEW ts, Extends(log', log, ts, p), NEW f, FlowInv(f, log)
    PROVE  FlowInv(f, log')
<1> DEFINE l == log
           m == log'
<1>1. FlowInv(f, l) /\ Extends(m, l, ts, p)
  OBVIOUS
<1> HIDE DEF l, m
<1>2. FlowInv(f, m)
  BY <1>1, FlowStable
<1> QED BY <1>2 DEF m

LEMMA AddH ==
    ASSUME IInv, HInv, NEW p \in Packets, NEW ts \in Times, Add(p, ts)
    PROVE  HInv'
<1>1. Extends(log', log, ts, p)
  BY AddOutcome
<1>2. PICK k : Outcome(k, p) /\ Origins(p, clock', k)
  BY AddOutcome
<1>3. ready \in Seq(Flow) /\ ready' \in Seq(Flow)
  <2>1. IInv'
    BY AddInv
  <2> QED BY <2>1 DEF IInv, TypeOK
<1>4. ASSUME NEW c \in Classes, NEW i \in 1..Len(table'[c])
      PROVE  StateInv(table'[c][i], c, log')
  BY <1>1, <1>2, SurvivorInv DEF Origins
<1>5. ASSUME NEW f, Left(f, p, clock', k) PROVE FlowInv(f, log')
  <2>1. CASE Replaced(f, p, clock')
    <3>1. PICK j \in 1..Len(table[Class(p)]) : f = table[Class(p)][j].flow
      BY <2>1 DEF Replaced
    <3>2. FlowInv(f, log)
      BY <3>1, PacketFacts DEF HInv, StateInv
    <3> QED BY <1>1, <3>2, OlderFlow
  <2>2. CASE Finishes(k, p) /\ f = k.flow
    BY <1>2, <2>2 DEF Outcome
  <2>3. CASE \E c \in Classes : \E st \in State : Survives(st, c, p, k) /\ f = st.flow
    BY <1>1, <1>2, <2>3, SurvivorInv DEF StateInv
  <2> QED BY <1>5, <2>1, <2>2, <2>3 DEF Left, Timed, Crowded
<1>6. ASSUME NEW i \in 1..Len(ready') PROVE FlowInv(ready'[i], log')
  <2>1. CASE i \in 1..Len(ready)
    <3>1. ready'[i] = ready[i] /\ FlowInv(ready[i], log)
      BY <1>2, <2>1 DEF Origins, HInv
    <3> QED BY <1>1, <3>1, OlderFlow
  <2>2. CASE i \notin 1..Len(ready)
    <3>1. i \in (Len(ready) + 1)..Len(ready')
      BY <1>3, <2>2, LenProperties
    <3> QED BY <1>2, <1>5, <3>1 DEF Origins
  <2> QED BY <2>1, <2>2
<1> QED BY <1>4, <1>6 DEF HInv

LEMMA ExpireH ==
    ASSUME IInv, HInv, NEW now \in Times, Expire(now)
    PROVE  HInv'
<1> DEFINE t == Later(clock, now)
<1>1. table' = Swept(table, t) /\ ready' = <<>> /\ log' = log
  BY DEF Expire
<1>2. t \in Int /\ Typed(table)
  BY TimesAssumption DEF IInv, TypeOK, Typed, Later, NoTime
<1> HIDE DEF t
<1>3. ASSUME NEW c \in Classes, NEW i \in 1..Len(table'[c])
      PROVE  StateInv(table'[c][i], c, log')
  <2> DEFINE kept == SubSeq(table[c], Fresh(table[c], c, t), Len(table[c]))
  <2>1. /\ Swept(table, t)[c] = kept
        /\ \A k \in 1..Len(kept) : \E j \in 1..Len(table[c]) : kept[k] = table[c][j]
    BY <1>2, SweptSources
  <2> HIDE DEF kept
  <2>2. PICK j \in 1..Len(table[c]) : table'[c][i] = table[c][j]
    BY <1>1, <2>1
  <2> QED BY <1>1, <2>2 DEF HInv
<1>4. ASSUME NEW i \in 1..Len(ready') PROVE FlowInv(ready'[i], log')
  BY <1>1, EmptySeq
<1> QED BY <1>3, <1>4 DEF HInv

LEMMA CloseH ==
    ASSUME HInv, Close
    PROVE  HInv'
BY EmptySeq DEF HInv, Close

LEMMA InitH ==
    ASSUME Init
    PROVE  HInv
BY EmptySeq DEF HInv, Init

LEMMA StutterH ==
    ASSUME HInv, UNCHANGED vars
    PROVE  HInv'
BY DEF HInv, vars

LEMMA HStep ==
    ASSUME IInv, HInv, [Next]_vars
    PROVE  HInv'
<1>1. ASSUME NEW p \in Packets, NEW ts \in Times, Add(p, ts) PROVE HInv'
  BY <1>1, AddH
<1>2. ASSUME NEW now \in Times, Expire(now) PROVE HInv'
  BY <1>2, ExpireH
<1>3. CASE Close
  BY <1>3, CloseH
<1>4. CASE UNCHANGED vars
  BY <1>4, StutterH
<1> QED BY <1>1, <1>2, <1>3, <1>4 DEF Next

(* What the table says of its frames is an invariant: a state says of the  *)
(* frames folded into it what add, _swap and _finish have read off them,   *)
(* and a flow keeps saying it when it has left the table.                  *)
THEOREM FlowsDescribeFrames == Spec => [](IInv /\ HInv)
<1>1. IInv /\ HInv /\ [Next]_vars => HInv'
  BY HStep
<1>2. Init => HInv
  BY InitH
<1> QED BY <1>1, <1>2, Invariance, PTL DEF Spec

-----------------------------------------------------------------------------
(* What follows for the flows the table knows of *)

LEMMA KnownInv ==
    ASSUME TypeOK, HInv, NEW f \in KnownFlows
    PROVE  FlowInv(f, log) /\ f.frames \in SUBSET Nat
<1>1. FlowInv(f, log)
  BY DEF HInv, StateInv, KnownFlows, LiveFlows, ReadyFlows
<1>2. Len(log) \in Nat
  BY LenProperties DEF TypeOK
<1> QED BY <1>1, <1>2 DEF FlowInv, OnTuple

LEMMA TallyOfInv == IInv /\ HInv => Tally
<1> SUFFICES ASSUME IInv, HInv, NEW f \in KnownFlows
             PROVE  /\ f.packets_out = Cardinality(Sent(f))
                    /\ f.packets_in = Cardinality(Received(f))
                    /\ f.responded <=> Received(f) # {}
                    /\ f.payload_out = Payload(Sent(f))
                    /\ f.payload_in = Payload(Received(f))
                    /\ f.flags_seen = UNION {Pkt(no).flags : no \in f.frames}
                    /\ \A no \in f.frames : f.start <= log[no].ts /\ log[no].ts <= f.end
                    /\ \E a, b \in f.frames : log[a].ts = f.start /\ log[b].ts = f.end
  BY DEF Tally
<1>1. Counters(f, log) /\ Spanned(f, log)
  BY KnownInv DEF IInv, FlowInv
<1>2. Sent(f) = Out(f, log) /\ Received(f) = In(f, log)
  BY DEF Sent, Received, Out, In, Pkt
<1>3. /\ Payload(Sent(f)) = Cardinality(Carried(Out(f, log), log))
      /\ Payload(Received(f)) = Cardinality(Carried(In(f, log), log))
  BY <1>2 DEF Payload, Carried, Pkt
<1>4. UNION {Pkt(no).flags : no \in f.frames} = UNION {log[no].packet.flags : no \in f.frames}
  BY DEF Pkt
<1>5. /\ \A no \in f.frames : f.start <= log[no].ts /\ log[no].ts <= f.end
      /\ \E a, b \in f.frames : log[a].ts = f.start /\ log[b].ts = f.end
  BY <1>1 DEF Spanned
<1> QED BY <1>1, <1>2, <1>3, <1>4, <1>5 DEF Counters

(* The counters of a flow agree with its frames, and its start and end are *)
(* their first and last timestamps, whatever was swapped on the way.       *)
THEOREM FlowsTally == Spec => []Tally
BY TallyOfInv, FlowsDescribeFrames, PTL

LEMMA InitiatorOfInv == IInv /\ HInv => InitiatorFirst
<1> SUFFICES ASSUME IInv, HInv, NEW f \in KnownFlows
             PROVE  LET syns == {no \in f.frames : IsSyn(Pkt(no))}
                        by   == Pkt(Min(IF syns = {} THEN f.frames ELSE syns))
                    IN  f.src = Initiator(by) /\ f.dst = Responder(by)
  BY DEF InitiatorFirst
<1> DEFINE S == {no \in f.frames : IsSyn(Pkt(no))}
           T == IF S = {} THEN f.frames ELSE S
<1>1. PICK by \in f.frames : NamedBy(f, by, log)
  BY KnownInv DEF IInv, FlowInv, Named
<1>2. f.frames \in SUBSET Nat
  BY KnownInv DEF IInv
<1>3. S = Syns(f, log) /\ S \subseteq f.frames
  BY DEF Syns, Pkt
<1>4. by \in T /\ \A no \in T : by <= no
  BY <1>1, <1>3 DEF NamedBy
<1>5. T \in SUBSET Nat /\ T # {}
  BY <1>2, <1>3, <1>4
<1> HIDE DEF T
<1>6. Min(T) \in T /\ \A no \in T : Min(T) <= no
  BY <1>5, MinOfNaturals
<1>7. Min(T) = by
  BY <1>4, <1>5, <1>6
<1>8. f.src = Initiator(Pkt(Min(T))) /\ f.dst = Responder(Pkt(Min(T)))
  BY <1>1, <1>7 DEF NamedBy, Pkt
<1> QED BY <1>8 DEF T

(* A flow names as its initiator the one its first SYN or SYN-ACK names,   *)
(* and the sender of its first frame when it has seen neither.             *)
THEOREM OrientedByFirst == Spec => []InitiatorFirst
BY InitiatorOfInv, FlowsDescribeFrames, PTL

LEMMA BothOfBoth ==
    ASSUME NEW f, NEW no
    PROVE  BothFins(f, no) <=> BothBy(f, no, log)
BY DEF BothFins, BothBy, HasFlag, Pkt

LEMMA ApartOfInv == IInv /\ HInv => ConnectionsApart
<1> SUFFICES ASSUME IInv, HInv, NEW f \in KnownFlows,
                    NEW a \in f.frames, NEW b \in f.frames, a < b
             PROVE  /\ "RST" \notin Pkt(a).flags
                    /\ "FIN" \in Pkt(a).flags => ~IsSyn(Pkt(b))
                    /\ BothFins(f, a) => "FIN" \in Pkt(a).flags
  BY DEF ConnectionsApart
<1>1. OneConnection(f, log)
  BY KnownInv DEF IInv, FlowInv
<1> QED BY <1>1, BothOfBoth DEF OneConnection, HasFlag, Pkt

(* Two TCP connections on one tuple are never merged into a flow: nothing  *)
(* follows a reset, no SYN a FIN, and two FINs are followed by one frame.  *)
THEOREM ConnectionsKeptApart == Spec => []ConnectionsApart
BY ApartOfInv, FlowsDescribeFrames, PTL

(* An idle gap splits a conversation: no frame of a flow comes a timeout   *)
(* or more after every frame of the flow before it.                        *)
THEOREM IdleGapsSplit == Spec => []NoGapInside
<1>1. IInv /\ HInv => NoGapInside
  <2> SUFFICES ASSUME IInv, HInv, NEW f \in KnownFlows PROVE Steady(f, log)
    BY DEF NoGapInside, Steady
  <2> QED BY KnownInv DEF IInv, FlowInv
<1> QED BY <1>1, FlowsDescribeFrames, PTL

-----------------------------------------------------------------------------
(* Why a flow leaves the table *)

Reason(f) ==
    \/ TornDown(f)
    \/ SupersededBy(f, log'[Len(log')].packet)
    \/ clock' - f.end >= Timeout(Class(f))
    \/ /\ Held(table') = MaxFlows
       /\ \A g \in LiveFlows' : f.end <= g.end + Skew

LEMMA LeftForAReason ==
    ASSUME IInv, HInv, NEW p \in Packets, NEW ts \in Times,
           Extends(log', log, ts, p), NEW k, Outcome(k, p),
           NEW f, Left(f, p, clock', k)
    PROVE  Reason(f)
<1>1. log'[Len(log')].packet = p
  BY DEF Extends
<1>2. CASE Replaced(f, p, clock')
  <2>1. PICK j \in 1..Len(table[Class(p)]) :
          /\ Reopened(table[Class(p)][j], p, clock') /\ f = table[Class(p)][j].flow
    BY <1>2 DEF Replaced
  <2> DEFINE x == table[Class(p)][j]
  <2>2. StateInv(x, Class(p), log)
    BY PacketFacts DEF HInv
  <2>3. f = x.flow /\ Reopened(x, p, clock')
    BY <2>1
  <2> HIDE DEF x
  <2>4. CASE Idle(x, Class(p), clock')
    BY <2>2, <2>3, <2>4 DEF StateInv, Idle, Reason
  <2>5. CASE IsSyn(p) /\ (x.fin_out \/ x.fin_in)
    <3>1. OnTuple(f, log)
      BY <2>2, <2>3 DEF StateInv, FlowInv
    <3>2. FinFrom(f, log) \/ FinTo(f, log)
      BY <2>2, <2>3, <2>5 DEF StateInv, Marks
    <3>3. PICK no \in f.frames : HasFlag("FIN", no, log)
      BY <3>2 DEF FinFrom, FinTo
    <3>4. log'[no] = log[no]
      BY <3>1 DEF Extends, OnTuple
    <3>5. "FIN" \in Pkt(no)'.flags
      BY <3>3, <3>4 DEF HasFlag, Pkt
    <3>6. Canon(p) = <<f.proto, {f.src, f.dst}>>
      BY <2>2, <2>3 DEF StateInv, Reopened
    <3>7. SupersededBy(f, p)
      BY <2>5, <3>5, <3>6 DEF SupersededBy
    <3> QED BY <1>1, <3>7 DEF Reason
  <2> QED BY <2>3, <2>4, <2>5 DEF Reopened, ReusesTuple
<1>3. CASE Finishes(k, p) /\ f = k.flow
  <2>1. PICK n : n = Len(log')
    OBVIOUS
  <2>2. n \in f.frames /\ OnTuple(f, log')
    BY <1>3, <2>1 DEF Outcome, FlowInv
  <2>3. Pkt(n)' = p
    BY <1>1, <2>1 DEF Pkt
  <2>4. \A x \in f.frames : x <= n
    BY <2>1, <2>2 DEF OnTuple
  <2>5. "RST" \in p.flags \/ ("FIN" \notin p.flags /\ BothBy(f, n, log'))
    BY <1>3, <2>1 DEF Outcome
  <2>6. BothBy(f, n, log') => BothFins(f, n)'
    BY DEF BothBy, BothFins, HasFlag, Pkt
  <2>7. TornDown(f)
    BY <2>2, <2>3, <2>4, <2>5, <2>6 DEF TornDown
  <2> QED BY <2>7 DEF Reason
<1>4. CASE Timed(f, p, clock', k)
  <2>1. PICK c \in Classes, st \in State :
          Survives(st, c, p, k) /\ Idle(st, c, clock') /\ f = st.flow
    BY <1>4 DEF Timed
  <2>2. Class(f) = c
    BY <2>1, SurvivorInv DEF StateInv
  <2> QED BY <2>1, <2>2 DEF Idle, Reason
<1>5. CASE Crowded(f, p, k)
  <2>1. \A g \in LiveFlows' : f.end <= g.end + Skew
    BY <1>5 DEF Crowded, LiveFlows
  <2> QED BY <1>5, <2>1 DEF Crowded, Reason
<1> QED BY <1>2, <1>3, <1>4, <1>5 DEF Left

LEMMA StepReason ==
    ASSUME IInv, HInv, Next, Len(log') > Len(log), NEW f \in Emitted
    PROVE  Reason(f)
<1>1. Len(log) \in Nat
  BY LenProperties DEF IInv, TypeOK
<1>2. ASSUME NEW p \in Packets, NEW ts \in Times, Add(p, ts) PROVE Reason(f)
  <2>1. Extends(log', log, ts, p)
    BY <1>2, AddOutcome
  <2>2. PICK k : Outcome(k, p) /\ Origins(p, clock', k)
    BY <1>2, AddOutcome
  <2>3. Left(f, p, clock', k)
    BY <2>2 DEF Emitted, Origins
  <2> QED BY <2>1, <2>2, <2>3, LeftForAReason
<1>3. ASSUME NEW now \in Times, Expire(now) PROVE FALSE
  BY <1>1, <1>3 DEF Expire
<1>4. ASSUME Close PROVE FALSE
  BY <1>1, <1>4 DEF Close
<1> QED BY <1>2, <1>3, <1>4 DEF Next

(* An add finishes a flow only for one of the four reasons _finish is      *)
(* called: it was torn down, a SYN reopened its tuple after a FIN, it was  *)
(* idle for its timeout, or the table was full and no conversation kept    *)
(* was quiet for longer, up to the skew.                                   *)
THEOREM NoFlowLeavesWithoutCause == Spec => FinishedForAReason
<1>1. IInv /\ HInv /\ [Next]_vars =>
        [Len(log') > Len(log) => \A f \in Emitted : Reason(f)]_vars
  BY StepReason
<1>2. (\A f \in Emitted : Reason(f)) =>
        \A f \in Emitted :
           \/ TornDown(f)
           \/ SupersededBy(f, log'[Len(log')].packet)
           \/ clock' - f.end >= Timeout(Class(f))
           \/ /\ Held(table') = MaxFlows
              /\ \A g \in LiveFlows' : f.end <= g.end + Skew
  BY DEF Reason
<1> QED BY <1>1, <1>2, FlowsDescribeFrames, PTL DEF Spec, FinishedForAReason
=============================================================================
