----------------------------- MODULE TcpCapture -----------------------------
(***************************************************************************)
(* The flow table of src/pcapinator/flows.py and the scan detector's       *)
(* reading of a flow, on captures of real TCP: a client and a server hold  *)
(* one connection after the other on one tuple, segments are lost and sent *)
(* again, and a tap between them feeds FlowTable.                          *)
(*                                                                         *)
(* The endpoints stand for the outside world: TCP as every host speaks it, *)
(* without sequence numbers.  A segment is captured as it is sent, and     *)
(* delayed or lost only from there on.  No connection starts before the    *)
(* segments of the one before it are gone, which is what TIME_WAIT is for. *)
(* Everything happens within the timeout of a flow, so time stands still.  *)
(***************************************************************************)
EXTENDS FlowTable, ScanGroups

CONSTANTS
    MaxConnections,   \* bound of the model: connections on the tuple
    MaxExtras         \* bound of the model: segments with data, or sent again

VARIABLES
    st,         \* the TCP state of each endpoint
    wire,       \* segments on their way from each endpoint to its peer
    conn,       \* the number of connections begun
    extras,     \* segments with data, and segments sent again, so far
    tap,        \* whether the capture has started
    of,         \* history: the connection each captured frame is of
    accepted,   \* history: connections whose handshake the server completed
    parted      \* history: connections both sides have closed with a FIN

tvars == <<vars, st, wire, conn, extras, tap, of, accepted,
           parted>>

Ends == {"client", "server"}
Peer(e) == IF e = "client" THEN "server" ELSE "client"

Client == <<"C", 1>>
Server == <<"S", 2>>

\* No connection: nothing is remembered, or only for late segments.
Rest(e) == IF e = "client" THEN "closed" ELSE "listen"
Done(e) == st[e] \in {Rest(e), "time_wait"}

\* ackfin says that the sender has received the FIN of its peer.
Segment(flags, payload, ackfin) ==
    [flags |-> flags, payload |-> payload, ackfin |-> ackfin]

SYN        == Segment({"SYN"}, 0, FALSE)
SYNACK     == Segment({"SYN", "ACK"}, 0, FALSE)
RST        == Segment({"RST", "ACK"}, 0, FALSE)
ACK(fin)   == Segment({"ACK"}, 0, fin)
DATA(fin)  == Segment({"ACK"}, 1, fin)
FIN(fin)   == Segment({"FIN", "ACK"}, 0, fin)

Segments == {SYN, SYNACK, RST} \cup {ACK(b) : b \in BOOLEAN}
              \cup {DATA(b) : b \in BOOLEAN} \cup {FIN(b) : b \in BOOLEAN}

\* In these states an endpoint has received the FIN of its peer.
HasFin(state) == state \in {"close_wait", "closing", "last_ack", "time_wait"}

PacketFrom(e, s) ==
    [proto |-> "tcp", flags |-> s.flags, payload |-> s.payload, fragmented |-> FALSE,
     src   |-> IF e = "client" THEN "C" ELSE "S", sport |-> IF e = "client" THEN 1 ELSE 2,
     dst   |-> IF e = "client" THEN "S" ELSE "C", dport |-> IF e = "client" THEN 2 ELSE 1]

\* The capture can hold whatever the endpoints send.
ASSUME CaptureAssumption ==
    /\ {PacketFrom(e, s) : e \in Ends, s \in Segments} \subseteq Packets
    /\ 0 \in Times

ASSUME TcpBoundsAssumption == MaxConnections \in Nat /\ MaxExtras \in Nat

Extra == extras < MaxExtras /\ extras' = extras + 1

\* e sends what is in sent, none or one segment, past the tap.  The wire to
\* e has become inbound.
Transmit(e, sent, inbound, k) ==
    /\ wire' = [w \in Ends |-> IF w = e THEN wire[e] \o sent ELSE inbound]
    /\ IF tap /\ sent # <<>>
       THEN Add(PacketFrom(e, sent[1]), 0) /\ of' = Append(of, k)
       ELSE UNCHANGED <<vars, of>>
    /\ UNCHANGED tap

TInit ==
    /\ Init
    /\ st = [e \in Ends |-> Rest(e)]
    /\ wire = [e \in Ends |-> <<>>]
    /\ conn = 0
    /\ extras = 0
    /\ tap \in BOOLEAN
    /\ of = <<>> /\ accepted = {} /\ parted = {}

\* A client connects; or a scanner sends a SYN of its own making, of which
\* the TCP of its host knows nothing.
Begin(state) ==
    /\ conn < MaxConnections
    /\ \A e \in Ends : Done(e) /\ wire[e] = <<>>
    /\ conn' = conn + 1
    /\ st' = [client |-> state, server |-> "listen"]
    /\ Transmit("client", <<SYN>>, <<>>, conn + 1)
    /\ UNCHANGED <<extras, accepted, parted>>

Connect == Begin("syn_sent")
Probe   == Begin("closed")

\* What e may do about a segment: its next state and what it answers.
Reaction(state, sent) == [state |-> state, sent |-> sent]

\* A host may stay silent to what is for no connection of its own, or refuse.
Unexpected(state, s) ==
    {Reaction(state, <<>>)}
      \cup (IF "RST" \in s.flags THEN {} ELSE {Reaction(state, <<RST>>)})

\* The state after the acknowledgements in s, then after its FIN.
Acked(e, state, s) ==
    CASE state = "syn_rcvd" -> "established"
      [] s.ackfin /\ state = "fin_wait_1" -> "fin_wait_2"
      [] s.ackfin /\ state = "closing" -> "time_wait"
      [] s.ackfin /\ state = "last_ack" -> Rest(e)
      [] OTHER -> state

Finned(state, s) ==
    IF "FIN" \notin s.flags THEN state
    ELSE CASE state = "established" -> "close_wait"
           [] state = "fin_wait_1" -> "closing"
           [] state = "fin_wait_2" -> "time_wait"
           [] OTHER -> state

OnSyn(state) ==
    CASE state = "listen" -> {Reaction("syn_rcvd", <<SYNACK>>)} \cup Unexpected(state, SYN)
      [] state = "syn_rcvd" -> {Reaction(state, <<SYNACK>>)}
      [] OTHER -> Unexpected(state, SYN)

OnSynAck(state) ==
    CASE state = "syn_sent" -> {Reaction("established", <<ACK(FALSE)>>)}
      [] state = "closed" -> Unexpected(state, SYNACK)
      [] OTHER -> {Reaction(state, <<ACK(HasFin(state))>>)}

\* What comes once a connection is open; data and a FIN are acknowledged.
OnTalk(e, state, s) ==
    IF state = Rest(e) THEN Unexpected(state, s)
    ELSE LET next == Finned(Acked(e, state, s), s)
         IN  {Reaction(next, IF "FIN" \in s.flags \/ s.payload > 0
                             THEN <<ACK(HasFin(next))>> ELSE <<>>)}

Reactions(e, s) ==
    CASE "RST" \in s.flags -> {Reaction(Rest(e), <<>>)}
      [] s = SYN -> OnSyn(st[e])
      [] s = SYNACK -> OnSynAck(st[e])
      [] OTHER -> OnTalk(e, st[e], s)

\* e receives the next segment from its peer.
Receive(e) ==
    LET from == wire[Peer(e)] IN
    /\ from # <<>>
    /\ \E r \in Reactions(e, Head(from)) :
         /\ st' = [st EXCEPT ![e] = r.state]
         /\ Transmit(e, r.sent, Tail(from), conn)
    /\ accepted' = IF st[e] = "syn_rcvd" /\ st'[e] \in {"established", "close_wait"}
                   THEN accepted \cup {conn} ELSE accepted
    /\ UNCHANGED <<conn, extras, parted>>

\* e speaks of its own accord.
Speak(e, state, s) ==
    /\ st' = [st EXCEPT ![e] = state]
    /\ Transmit(e, <<s>>, wire[Peer(e)], conn)
    /\ UNCHANGED <<conn, accepted>>

Say(e) ==
    /\ st[e] \in {"established", "close_wait"}
    /\ Extra
    /\ Speak(e, st[e], DATA(HasFin(st[e])))
    /\ UNCHANGED parted

Hangup(e) ==
    /\ st[e] \in {"established", "close_wait"}
    /\ Speak(e, IF st[e] = "established" THEN "fin_wait_1" ELSE "last_ack",
             FIN(HasFin(st[e])))
    /\ parted' = IF st[Peer(e)] \in {"fin_wait_1", "fin_wait_2"}
                 THEN parted \cup {conn} ELSE parted
    /\ UNCHANGED extras

Abort(e) ==
    /\ st[e] \in {"established", "close_wait", "fin_wait_1", "fin_wait_2"}
    /\ Speak(e, Rest(e), RST)
    /\ UNCHANGED <<extras, parted>>

Unanswered == [syn_sent |-> SYN, syn_rcvd |-> SYNACK, fin_wait_1 |-> FIN(FALSE),
               closing |-> FIN(TRUE), last_ack |-> FIN(TRUE)]

\* A segment that was not acknowledged is sent again.
Resend(e) ==
    /\ st[e] \in DOMAIN Unanswered
    /\ Extra
    /\ Speak(e, st[e], Unanswered[st[e]])
    /\ UNCHANGED parted

\* Nothing comes any more, and e forgets the connection.
GiveUp(e) ==
    /\ ~Done(e) /\ \A w \in Ends : wire[w] = <<>>
    /\ st' = [st EXCEPT ![e] = Rest(e)]
    /\ UNCHANGED <<vars, wire, conn, extras, tap, of, accepted, parted>>

\* The capture starts in the middle of whatever is going on.
StartCapture ==
    /\ ~tap /\ tap' = TRUE
    /\ UNCHANGED <<vars, st, wire, conn, extras, of, accepted, parted>>

TNext ==
    \/ Connect \/ Probe \/ StartCapture
    \/ \E e \in Ends : \/ Receive(e) \/ Say(e) \/ Hangup(e)
                       \/ Abort(e) \/ Resend(e) \/ GiveUp(e)

TSpec == TInit /\ [][TNext]_tvars

-----------------------------------------------------------------------------

Of(f) == {of[no] : no \in f.frames}

\* The capture shows the end of connection k no later than frame no: a reset,
\* or a FIN from each side and the segment after them.
Shown(k, no) ==
    LET seen == {x \in 1..no : of[x] = k} IN
    \/ \E x \in seen : "RST" \in Pkt(x).flags
    \/ \E a, b, x \in seen :
          /\ a <= x /\ b <= x /\ "FIN" \in Pkt(a).flags \cap Pkt(b).flags
          /\ Pkt(a).src # Pkt(b).src /\ "FIN" \notin Pkt(x).flags

\* A segment of a connection whose end the capture has already shown.
Straggler(no) == no > 1 /\ Shown(of[no], no - 1)

\* Frames a and b of one connection are in different flows before its end.
Split(f, g, a, b) ==
    f # g /\ a < b /\ of[a] = of[b] /\ ~Straggler(b)

(* OneFlowPerConnection: what one connection sends is one flow, however    *)
(* its segments are lost and sent again, until the capture has shown its   *)
(* end; only what is sent after that opens another, as the second final    *)
(* ACK of a simultaneous close does.  One thing breaks it: a SYN-ACK sent  *)
(* again when the client has already closed.                               *)
OneFlowPerConnection ==
    \A f, g \in KnownFlows : \A a \in f.frames, b \in g.frames :
        Split(f, g, a, b) =>
            /\ IsSynAck(Pkt(Min(g.frames)))
            /\ \E x \in 1..Min(g.frames) :
                  of[x] = of[b] /\ "FIN" \in Pkt(x).flags /\ Source(Pkt(x)) = Client

(* NeverMixed: a flow holds segments of two connections only when nothing  *)
(* in it tells that the earlier one is over: neither side had sent a FIN   *)
(* or a reset.                                                             *)
NeverMixed ==
    \A f \in KnownFlows : \A a, b \in f.frames :
        of[a] < of[b] =>
            \A x \in f.frames :
                of[x] = of[a] => Pkt(x).flags \cap {"FIN", "RST"} = {}

\* How often the server has answered a SYN in f.
SynAcks(f) == Cardinality({no \in f.frames : IsSynAck(Pkt(no))})

(* ServedMeansAccepted: an attempt counts as served only when a server     *)
(* completed a handshake in it.  A probe of an open port draws a SYN-ACK   *)
(* and a closed port a reset, and neither is a service, whatever else of   *)
(* the tuple the flow has picked up.  Two premises: one SYN-ACK, for a     *)
(* server that hears nothing sends it again, and two count as served; and  *)
(* no more from the client than SESSION_PAYLOAD, for more counts by        *)
(* itself, and is sent as soon as the client has its answer.               *)
ServedMeansAccepted ==
    \A f \in KnownFlows :
        Served(f) /\ SynAcks(f) <= 1 /\ f.payload_out <= SessionPayload
            => Of(f) \cap accepted # {}

(* SessionServed: a connection that completed and was closed by both sides *)
(* counts as served even if no data was returned, in the flow that has its *)
(* handshake, whatever came before it on the tuple.                        *)
SessionServed ==
    \A f \in KnownFlows : \A no \in f.frames :
        /\ of[no] \in parted /\ IsSynAck(Pkt(no))
        /\ \A x \in 1..Len(log) : of[x] = of[no] =>
              x \in f.frames /\ "RST" \notin Pkt(x).flags
        => Served(f)

(* ClientAttempts: an attempt is held against the host that made it.  A    *)
(* flow that names the server as the one who opened it has no handshake in *)
(* it, begins with a segment of the server, and is either of a connection  *)
(* from before the capture or of stragglers.                               *)
ClientAttempts ==
    \A f \in KnownFlows :
        f.src = Server =>
            /\ \A no \in f.frames : ~IsSyn(Pkt(no))
            /\ LET first == Min(f.frames) IN
                  /\ Source(Pkt(first)) = Server
                  /\ Straggler(first)
                       \/ \A x \in 1..first : of[x] = of[first] => ~IsSyn(Pkt(x))

(* StealthUnanswered: what is counted as a stealth attempt drew no answer  *)
(* that the capture has, unless the answer came before the SYN was sent    *)
(* once more.                                                              *)
StealthUnanswered ==
    \A f \in KnownFlows :
        Stealthy(f) => \A x \in 1..Len(log) :
            of[x] \in Of(f) /\ Source(Pkt(x)) = Server => x < Min(f.frames)
=============================================================================
