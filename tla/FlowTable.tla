----------------------------- MODULE FlowTable -----------------------------
(***************************************************************************)
(* The flow table of src/pcapinator/flows.py: frames are folded into flows *)
(* keyed on the conversation, and a flow is handed out when it is torn     *)
(* down, idle, evicted to hold the table under its ceiling, or drained at  *)
(* the end of the capture.                                                 *)
(*                                                                         *)
(* The unit of time is the resolution of the capture's timestamps.  A      *)
(* frame may lag the capture clock by at most Skew units: captures merged  *)
(* from several interfaces are not monotonic.  Skew = 0 is a capture whose *)
(* timestamps never decrease.                                              *)
(*                                                                         *)
(* bytes_out and bytes_in move in lock-step with payload_out and           *)
(* payload_in and are left out.                                            *)
(***************************************************************************)
EXTENDS Integers, Sequences, FiniteSetsExt

CONSTANTS
    Hosts,        \* addresses
    Packets,      \* what the frames of a capture carry, apart from their time
    Times,        \* the timestamps frames and calls of expire may carry
    TcpTimeout,   \* FlowTable.tcp_timeout
    UdpTimeout,   \* FlowTable.udp_timeout, for everything that is not TCP
    MaxFlows,     \* FlowTable.max_flows
    Skew,         \* how far a frame may lag the clock
    MaxFrames     \* bound of the model: frames in the capture

Flags == {"SYN", "ACK", "FIN", "RST"}

Packet == [proto : {"tcp", "udp", "icmp"}, src : Hosts, sport : Nat,
           dst : Hosts, dport : Nat, flags : SUBSET Flags, payload : Nat,
           fragmented : BOOLEAN]

\* The parsers set flags on TCP frames only (layers/inet.py, _transport).
ASSUME PacketsAssumption ==
    /\ Packets \subseteq Packet
    /\ \A p \in Packets : p.proto # "tcp" => p.flags = {}

ASSUME TimesAssumption == Times \subseteq Nat /\ Times # {}

\* The two ValueErrors of the constructor.
ASSUME TimeoutsAssumption == TcpTimeout \in Nat \ {0} /\ UdpTimeout \in Nat \ {0}
ASSUME MaxFlowsAssumption == MaxFlows \in Nat \ {0}

ASSUME BoundsAssumption == Skew \in Nat /\ MaxFrames \in Nat

VARIABLES
    table,    \* _tcp and _other: each a sequence of states in activity order
    ready,    \* _ready: finished flows waiting to be collected
    clock,    \* _clock, with -1 for -inf
    log,      \* history: every frame added, in order
    handed    \* history: the numbers of the frames of all collected flows

vars == <<table, ready, clock, log, handed>>

Classes == {"tcp", "other"}

NoTime == -1

-----------------------------------------------------------------------------
(* Frames and keys *)

Class(p) == IF p.proto = "tcp" THEN "tcp" ELSE "other"

Timeout(c) == IF c = "tcp" THEN TcpTimeout ELSE UdpTimeout

\* _endpoints: a fragment is keyed on its addresses alone.
Source(p) == <<p.src, IF p.fragmented THEN 0 ELSE p.sport>>
Target(p) == <<p.dst, IF p.fragmented THEN 0 ELSE p.dport>>

\* _canon: the sorted pair is the pair without its order.
Canon(p) == <<p.proto, {Source(p), Target(p)}>>

IsSyn(p)    == "SYN" \in p.flags
IsSynAck(p) == {"SYN", "ACK"} \subseteq p.flags

\* Who a SYN or SYN-ACK names as the initiator; otherwise the sender.
Initiator(p) == IF IsSynAck(p) THEN Target(p) ELSE Source(p)
Responder(p) == IF IsSynAck(p) THEN Source(p) ELSE Target(p)

Later(a, b) == IF a < b THEN b ELSE a

-----------------------------------------------------------------------------
(* One conversation.  A flow also keeps, as history, the numbers of the    *)
(* frames it was folded from.                                              *)

Endpoint == Hosts \X Nat

Flow == [proto : {"tcp", "udp", "icmp"}, src : Endpoint, dst : Endpoint,
         start : Nat, end : Nat, packets_out : Nat, packets_in : Nat,
         payload_out : Nat, payload_in : Nat, flags_seen : SUBSET Flags,
         responded : BOOLEAN, frames : SUBSET Nat]

State == [canon : {"tcp", "udp", "icmp"} \X SUBSET Endpoint, flow : Flow,
          oriented : BOOLEAN, fin_out : BOOLEAN, fin_in : BOOLEAN,
          closing : BOOLEAN]

NewState(p, start, end) ==
    [canon |-> Canon(p),
     flow  |-> [proto |-> p.proto, src |-> Initiator(p), dst |-> Responder(p),
                start |-> start, end |-> end, packets_out |-> 0, packets_in |-> 0,
                payload_out |-> 0, payload_in |-> 0, flags_seen |-> {},
                responded |-> FALSE, frames |-> {}],
     oriented |-> IsSyn(p), fin_out |-> FALSE, fin_in |-> FALSE,
     closing  |-> FALSE]

\* Mutant: the times of a new flow start from a sentinel.
OpenFlowUnset(p, ts) == NewState(p, NoTime, ts)

OpenFlow(p, ts) == NewState(p, ts, ts)

\* Mutant: the endpoints are swapped and the counters are not.
SwapKeyOnly(s) ==
    [s EXCEPT !.flow.src = s.flow.dst, !.flow.dst = s.flow.src]

Swap(s) ==
    LET f == s.flow IN
    [s EXCEPT !.flow = [f EXCEPT !.src = f.dst, !.dst = f.src,
                                 !.packets_out = f.packets_in,
                                 !.packets_in  = f.packets_out,
                                 !.payload_out = f.payload_in,
                                 !.payload_in  = f.payload_out,
                                 !.responded   = f.packets_out > 0],
              !.fin_out = s.fin_in,
              !.fin_in  = s.fin_out]

\* Mutant: the sender of a SYN-ACK is taken for the initiator.
ReorientToSender(s, p) ==
    IF s.oriented \/ ~IsSyn(p) THEN s
    ELSE LET named == [s EXCEPT !.oriented = TRUE]
         IN  IF Source(p) = s.flow.src THEN named ELSE Swap(named)

\* An assumed orientation is corrected once, by the first SYN.
Reorient(s, p) ==
    IF s.oriented \/ ~IsSyn(p) THEN s
    ELSE LET named == [s EXCEPT !.oriented = TRUE]
         IN  IF Initiator(p) = s.flow.src THEN named ELSE Swap(named)

Outbound(s, p) == Source(p) = s.flow.src

\* The counters of add; no is the number of the frame.
Counted(s, p, ts, no) ==
    LET f   == s.flow
        seen == [f EXCEPT !.start = IF ts < f.start THEN ts ELSE f.start,
                          !.end   = Later(f.end, ts),
                          !.flags_seen = @ \cup p.flags,
                          !.frames = @ \cup {no}]
    IN  [s EXCEPT !.flow =
           IF Outbound(s, p)
           THEN [seen EXCEPT !.packets_out = @ + 1, !.payload_out = @ + p.payload]
           ELSE [seen EXCEPT !.packets_in = @ + 1, !.payload_in = @ + p.payload,
                             !.responded = TRUE]]

\* A FIN marks its direction, and both together start the closing.
Marked(s, p) ==
    IF p.proto = "tcp" /\ "FIN" \in p.flags /\ "RST" \notin p.flags
    THEN LET out == s.fin_out \/ Outbound(s, p)
             in  == s.fin_in \/ ~Outbound(s, p)
         IN  [s EXCEPT !.fin_out = out, !.fin_in = in, !.closing = out /\ in]
    ELSE s

\* Mutant: one FIN is taken for a completed teardown.
FinishesHalfClosed(s, p) ==
    /\ p.proto = "tcp"
    /\ \/ "RST" \in p.flags
       \/ "FIN" \notin p.flags /\ (s.fin_out \/ s.fin_in)

\* A reset, or the first frame without a FIN once both sides have sent one.
Finishes(s, p) ==
    /\ p.proto = "tcp"
    /\ \/ "RST" \in p.flags
       \/ "FIN" \notin p.flags /\ s.closing

Idle(s, c, now) == now - s.flow.end >= Timeout(c)

\* Mutants: each of the two reasons dropped.
ReusesIdleOnly(s, p, now) == Idle(s, Class(p), now)
ReusesSynOnly(s, p, now)  == IsSyn(p) /\ (s.fin_out \/ s.fin_in)

ReusesTuple(s, p, now) ==
    \/ Idle(s, Class(p), now)
    \/ IsSyn(p) /\ (s.fin_out \/ s.fin_in)

-----------------------------------------------------------------------------
(* The table *)

Flows(t) == [i \in 1..Len(t) |-> t[i].flow]

Held(tab) == Len(tab["tcp"]) + Len(tab["other"])

At(t, canon) == {i \in 1..Len(t) : t[i].canon = canon}

Without(t, i) == SubSeq(t, 1, i - 1) \o SubSeq(t, i + 1, Len(t))

\* _sweep stops at the first state of a table that is not idle.
Fresh(t, c, now) ==
    Min({i \in 1..Len(t) : ~Idle(t[i], c, now)} \cup {Len(t) + 1})

\* Mutant: the sweep forgets the second table.
SweptTcpOnly(tab, now) ==
    [tab EXCEPT !["tcp"] = SubSeq(@, Fresh(@, "tcp", now), Len(@))]

Swept(tab, now) ==
    [c \in Classes |-> SubSeq(tab[c], Fresh(tab[c], c, now), Len(tab[c]))]

Expired(tab, now) ==
    LET gone(c) == Flows(SubSeq(tab[c], 1, Fresh(tab[c], c, now) - 1))
    IN  gone("tcp") \o gone("other")

\* Mutant: the comparison of the two fronts the wrong way round.
VictimNewer(tab) ==
    IF /\ tab["tcp"] # <<>>
       /\ tab["other"] # <<>> =>
            tab["tcp"][1].flow.end >= tab["other"][1].flow.end
    THEN "tcp" ELSE "other"

\* The table _enforce_cap takes its victim from: the one with the older front.
Victim(tab) ==
    IF /\ tab["tcp"] # <<>>
       /\ tab["other"] # <<>> =>
            tab["tcp"][1].flow.end <= tab["other"][1].flow.end
    THEN "tcp" ELSE "other"

\* Mutant: the ceiling is exceeded by one.
OverByOne(tab) == Held(tab) > MaxFlows + 1

\* One turn of the loop of _enforce_cap is enough: a frame adds one state.
Over(tab) == Held(tab) > MaxFlows

Capped(tab) ==
    IF Over(tab) THEN [tab EXCEPT ![Victim(tab)] = Tail(@)] ELSE tab

Evicted(tab) ==
    IF Over(tab) THEN <<tab[Victim(tab)][1].flow>> ELSE <<>>

FramesOf(flows) == UNION {flows[i].frames : i \in 1..Len(flows)}

-----------------------------------------------------------------------------
(* Operations *)

Init ==
    /\ table = [c \in Classes |-> <<>>]
    /\ ready = <<>>
    /\ clock = NoTime
    /\ log = <<>>
    /\ handed = {}

\* The rest of add, once it is settled which state s the frame belongs to,
\* which states rest of its table remain, and which flows it has finished.
Settle(p, ts, now, rest, s, finished) ==
    LET counted == Counted(s, p, ts, Len(log) + 1)
        over    == Finishes(counted, p)
        touched == [table EXCEPT ![Class(p)] =
                      IF over THEN rest ELSE Append(rest, Marked(counted, p))]
        swept   == Swept(touched, now)
    IN  /\ table' = Capped(swept)
        /\ ready' = ready \o finished
                          \o (IF over THEN <<counted.flow>> ELSE <<>>)
                          \o Expired(touched, now) \o Evicted(swept)

Arrive(p, ts) ==
    /\ Len(log) < MaxFrames
    /\ ts >= clock - Skew
    /\ clock' = Later(clock, ts)
    /\ log' = Append(log, [ts |-> ts, packet |-> p])
    /\ UNCHANGED handed

\* add, for a tuple that has no state
AddFirst(p, ts) ==
    LET c == Class(p) IN
    /\ Arrive(p, ts)
    /\ At(table[c], Canon(p)) = {}
    /\ Settle(p, ts, Later(clock, ts), table[c], OpenFlow(p, ts), <<>>)

\* add, for a tuple whose conversation the frame continues
AddNext(p, ts) ==
    LET c == Class(p) IN
    /\ Arrive(p, ts)
    /\ \E i \in At(table[c], Canon(p)) :
         /\ ~ReusesTuple(table[c][i], p, Later(clock, ts))
         /\ Settle(p, ts, Later(clock, ts), Without(table[c], i),
                   Reorient(table[c][i], p), <<>>)

\* Mutant: the conversation the tuple had is overwritten, not finished.
AddReuseOverwrites(p, ts) ==
    LET c == Class(p) IN
    /\ Arrive(p, ts)
    /\ \E i \in At(table[c], Canon(p)) :
         /\ ReusesTuple(table[c][i], p, Later(clock, ts))
         /\ Settle(p, ts, Later(clock, ts), Without(table[c], i),
                   OpenFlow(p, ts), <<>>)

\* add, for a tuple whose conversation has ended without being finished
AddReuse(p, ts) ==
    LET c == Class(p) IN
    /\ Arrive(p, ts)
    /\ \E i \in At(table[c], Canon(p)) :
         /\ ReusesTuple(table[c][i], p, Later(clock, ts))
         /\ Settle(p, ts, Later(clock, ts), Without(table[c], i),
                   OpenFlow(p, ts), <<table[c][i].flow>>)

Add(p, ts) == AddFirst(p, ts) \/ AddNext(p, ts) \/ AddReuse(p, ts)

Expire(now) ==
    LET t == Later(clock, now) IN
    /\ clock' = t
    /\ table' = Swept(table, t)
    /\ handed' = handed \cup FramesOf(ready \o Expired(table, t))
    /\ ready' = <<>>
    /\ UNCHANGED log

Close ==
    /\ handed' = handed \cup
         FramesOf(ready \o Flows(table["tcp"]) \o Flows(table["other"]))
    /\ table' = [c \in Classes |-> <<>>]
    /\ ready' = <<>>
    /\ UNCHANGED <<clock, log>>

Next ==
    \/ \E p \in Packets, ts \in Times : Add(p, ts)
    \/ \E now \in Times : Expire(now)
    \/ Close

Spec == Init /\ [][Next]_vars

-----------------------------------------------------------------------------
(* Properties *)

TypeOK ==
    /\ table \in [Classes -> Seq(State)]
    /\ ready \in Seq(Flow)
    /\ clock \in Nat \cup {NoTime}
    /\ log \in Seq([ts : Times, packet : Packets])
    /\ handed \in SUBSET Nat

\* The flows the table knows of: those it holds and those waiting in ready.
LiveFlows == UNION {{table[c][i].flow : i \in 1..Len(table[c])} : c \in Classes}
ReadyFlows == {ready[i] : i \in 1..Len(ready)}
KnownFlows == LiveFlows \cup ReadyFlows

Pkt(i) == log[i].packet

\* Where frame no is: a position of a table or of ready, or collected.
Places(no) ==
    (UNION {{<<c, i>> : i \in {k \in 1..Len(table[c]) :
                                no \in table[c][k].flow.frames}} : c \in Classes})
    \cup {<<"ready", i>> : i \in {k \in 1..Len(ready) : no \in ready[k].frames}}
    \cup (IF no \in handed THEN {<<"handed", 0>>} ELSE {})

(* ExactlyOnce: every frame of the capture is in exactly one place: in one *)
(* state of the table, in one flow waiting in ready, or in flows already   *)
(* collected.  add, _finish, _sweep, _enforce_cap and close lose nothing   *)
(* and count nothing twice, and a tuple never has two states.              *)
ExactlyOnce ==
    \A no \in 1..Len(log) : \E x \in Places(no) : Places(no) = {x}

\* Sent and received, with respect to the initiator a flow names.
Sent(f)     == {no \in f.frames : Source(Pkt(no)) = f.src}
Received(f) == {no \in f.frames : Source(Pkt(no)) # f.src}

\* The bytes of payload the frames of S carry, each a number in its frame.
Payload(S) == Cardinality(UNION {{no} \X (1..Pkt(no).payload) : no \in S})

(* Tally: whatever swaps of orientation happened on the way, the counters  *)
(* of a flow agree with its frames, read against the orientation it names, *)
(* and it spans exactly their timestamps (add and _swap).                  *)
Tally ==
    \A f \in KnownFlows :
        /\ f.packets_out = Cardinality(Sent(f))
        /\ f.packets_in = Cardinality(Received(f))
        /\ f.responded <=> Received(f) # {}
        /\ f.payload_out = Payload(Sent(f))
        /\ f.payload_in = Payload(Received(f))
        /\ f.flags_seen = UNION {Pkt(no).flags : no \in f.frames}
        /\ \A no \in f.frames : f.start <= log[no].ts /\ log[no].ts <= f.end
        /\ \E a, b \in f.frames : log[a].ts = f.start /\ log[b].ts = f.end

(* InitiatorFirst: a flow is oriented by its first SYN or SYN-ACK, however *)
(* many frames came before it, and by its first frame when there is none.  *)
InitiatorFirst ==
    \A f \in KnownFlows :
        LET syns == {no \in f.frames : IsSyn(Pkt(no))}
            by   == Pkt(Min(IF syns = {} THEN f.frames ELSE syns))
        IN  f.src = Initiator(by) /\ f.dst = Responder(by)

\* f saw a FIN from each of its endpoints no later than frame no.
BothFins(f, no) ==
    \E a, b \in f.frames :
        /\ a <= no /\ b <= no
        /\ "FIN" \in Pkt(a).flags \cap Pkt(b).flags
        /\ Source(Pkt(a)) # Source(Pkt(b))

(* ConnectionsApart: two TCP connections on one tuple are never merged.    *)
(* Nothing follows a reset in its flow, no SYN follows a FIN, and once     *)
(* both sides have sent a FIN one more frame completes the teardown.       *)
ConnectionsApart ==
    \A f \in KnownFlows : \A a, b \in f.frames : a < b =>
        /\ "RST" \notin Pkt(a).flags
        /\ "FIN" \in Pkt(a).flags => ~IsSyn(Pkt(b))
        /\ BothFins(f, a) => "FIN" \in Pkt(a).flags

(* NoGapInside: an idle gap splits a conversation.  No frame of a flow     *)
(* comes a timeout or more after the last activity before it, which is     *)
(* what keeps a beacon's callbacks on one tuple apart (_reuses_tuple).     *)
NoGapInside ==
    \A f \in KnownFlows : \A no \in f.frames :
        (\E b \in f.frames : b < no) =>
            \E b \in f.frames :
                b < no /\ log[no].ts - log[b].ts < Timeout(Class(f))

(* CapHolds: the ceiling is a guarantee: between two calls the table never *)
(* holds more than max_flows conversations.                                *)
CapHolds == Held(table) <= MaxFlows

\* Activity order, up to the skew of the capture, none ahead of the clock.
Ordered(t, now) ==
    /\ \A i \in 1..Len(t) : t[i].flow.end <= now
    /\ \A i, j \in 1..Len(t) : i < j => t[j].flow.end >= t[i].flow.end - Skew

(* ActivityOrder: the order of each table, which _sweep and _enforce_cap   *)
(* rely on to look at its front only, is the order of last activity up to  *)
(* the skew of the capture.                                                *)
ActivityOrder == \A c \in Classes : Ordered(table[c], clock)

(* DeferralBound: _sweep looks at the front of each table only, so a fresh *)
(* front may defer the expiry of an idle state behind it: never for longer *)
(* than the skew of the capture, and not at all when timestamps never      *)
(* decrease.                                                               *)
DeferralBound ==
    \A c \in Classes : \A i \in 1..Len(table[c]) :
        clock - table[c][i].flow.end < Timeout(c) + Skew

\* The flows an add has finished, and the frame it added.
Emitted == {ready'[i] : i \in (Len(ready) + 1)..Len(ready')}

TornDown(f) ==
    \E no \in f.frames :
        \/ "RST" \in Pkt(no)'.flags
        \/ /\ \A x \in f.frames : x <= no
           /\ "FIN" \notin Pkt(no)'.flags
           /\ BothFins(f, no)'

SupersededBy(f, p) ==
    /\ IsSyn(p)
    /\ Canon(p) = <<f.proto, {f.src, f.dst}>>
    /\ \E no \in f.frames : "FIN" \in Pkt(no)'.flags

(* FinishedForAReason: a flow leaves the table in an add only because it   *)
(* was torn down, a SYN reopened its tuple after a FIN, it was idle, or    *)
(* the table was full and every conversation kept was active no earlier    *)
(* than it, up to the skew (_finish and its four callers).                 *)
FinishedForAReason ==
    [][Len(log') > Len(log) =>
         \A f \in Emitted :
            \/ TornDown(f)
            \/ SupersededBy(f, log'[Len(log')].packet)
            \/ clock' - f.end >= Timeout(Class(f))
            \/ /\ Held(table') = MaxFlows
               /\ \A g \in LiveFlows' : f.end <= g.end + Skew]_vars

Ledger == INSTANCE FlowLedger
          WITH count <- Len(log), collected <- handed,
               open <- {f.frames : f \in LiveFlows},
               done <- {f.frames : f \in ReadyFlows}

(* KeepsLedger: the flow table implements the ledger.  Whatever an         *)
(* operation finishes, evicts or expires along the way, to its caller it   *)
(* is one entry or one collection.                                         *)
KeepsLedger == Ledger!Spec
=============================================================================
