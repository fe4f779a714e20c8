-------------------------- MODULE FlowUsers_proofs --------------------------
(***************************************************************************)
(* Theorems about what is built on the flow table, for every value of the  *)
(* constants.  Each step of the modules above it is one operation of the   *)
(* flow table or leaves it alone, so what is invariant there is invariant  *)
(* here.                                                                   *)
(*                                                                         *)
(* First cli.analyse and the two ways into it: a summary is complete, and  *)
(* an exit status of 0 can be believed.  AInv follows a capture through    *)
(* the program counter: nothing is held once the flows are listed, and     *)
(* Once then leaves a frame only one place to be, the flows that were      *)
(* handed out.                                                             *)
(*                                                                         *)
(* Then captures of real TCP: what the flows of one tuple tell of the      *)
(* connections that were on it.  TcpInv says in TableInv that the flows    *)
(* are runs of the capture, each ended where the capture shows why; in     *)
(* EndInv what the hosts and the wire can be in at once; and in LogInv     *)
(* what that leaves in the capture.                                        *)
(***************************************************************************)
EXTENDS Cli, TcpCapture, FlowTable_proofs

Emptied == table["tcp"] = <<>> /\ table["other"] = <<>> /\ ready = <<>>

AInv ==
    /\ IInv /\ Once
    /\ decoded = Len(log)
    /\ pc = "yield" => Len(log) > 0
    /\ pc = "listed" => Emptied
    /\ outcome = "summary" => pc = "done" /\ Emptied

-----------------------------------------------------------------------------
(* The pipeline *)

\* With nothing held and nothing waiting, every frame has been handed out.
LEMMA AllHanded ==
    ASSUME IInv, Once, Emptied
    PROVE  handed = 1..Len(log) /\ Held(table) = 0
<1>1. ASSUME NEW no \in Nat PROVE no \in handed <=> no \in 1..Len(log)
  <2>1. InTables(no, table) = 0 /\ Copies(no, ready) = 0
    BY InTableEmpty, CopiesEmpty DEF InTables, Emptied
  <2>2. One(no, handed) \in Nat
    BY DEF One
  <2>3. One(no, handed) = One(no, 1..Len(log))
    BY <2>1, <2>2 DEF Once, Total
  <2> QED BY <2>3 DEF One
<1>2. handed \in SUBSET Nat /\ Len(log) \in Nat
  BY LenProperties DEF IInv, TypeOK
<1>3. 1..Len(log) \in SUBSET Nat
  BY <1>2
<1>4. handed = 1..Len(log)
  <2> DEFINE all == 1..Len(log)
  <2> HIDE DEF all
  <2> QED BY <1>1, <1>2, <1>3 DEF all
<1>5. Held(table) = 0
  BY DEF Held, Emptied
<1> QED BY <1>4, <1>5

LEMMA AInitInv == AInit => AInv
<1> SUFFICES ASSUME AInit PROVE AInv
  OBVIOUS
<1>1. IInv /\ Once
  BY InitInv, InitOnce DEF AInit
<1>2. decoded = Len(log) /\ pc = "pull" /\ outcome = "none"
  BY DEF AInit, Init
<1> QED BY <1>1, <1>2 DEF AInv

LEMMA AStepInv ==
    ASSUME AInv, ANext
    PROVE  AInv'
<1>1. CASE Skip
  BY <1>1, TableStep DEF Skip, AInv, Emptied, vars
<1>2. ASSUME NEW p \in Packets, NEW ts \in Times, Pull(p, ts) PROVE AInv'
  <2>1. Add(p, ts) /\ decoded' = decoded + 1 /\ pc' \in {"pull", "yield"}
        /\ outcome' = outcome /\ pc = "pull"
    BY <1>2 DEF Pull
  <2>2. IInv' /\ Once'
    BY <2>1, AddInv, AddOnce, AddInv DEF AInv
  <2>3. Len(log') = Len(log) + 1 /\ Len(log) \in Nat
    <3>1. Arrive(p, ts)
      BY <2>1 DEF Add, AddFirst, AddNext, AddReuse
    <3> QED BY <3>1, AppendProperties, LenProperties DEF Arrive, AInv, IInv, TypeOK
  <2> QED BY <2>1, <2>2, <2>3 DEF AInv
<1>3. CASE Yield
  <2>1. Expire(log[Len(log)].ts) /\ pc = "yield" /\ pc' = "pull"
        /\ UNCHANGED <<decoded, outcome>>
    BY <1>3 DEF Yield
  <2>2. log[Len(log)].ts \in Times
    <3>1. log \in Seq([ts : Times, packet : Packets]) /\ Len(log) \in Nat /\ Len(log) > 0
      BY <2>1, LenProperties DEF AInv, IInv, TypeOK
    <3> DEFINE Entries == [ts : Times, packet : Packets]
    <3>2. Len(log) \in 1..Len(log)
      BY <3>1
    <3>3. log[Len(log)] \in Entries
      <4> HIDE DEF Entries
      <4> QED BY <3>1, <3>2, ElementOfSeq DEF Entries
    <3> QED BY <3>3
  <2>3. IInv' /\ Once'
    <3>1. [Next]_vars
      BY <2>1, <2>2 DEF Next
    <3> QED BY <3>1, TableStep DEF AInv
  <2>4. log' = log
    BY <2>1 DEF Expire
  <2> QED BY <2>1, <2>3, <2>4 DEF AInv
<1>4. CASE Exhaust
  <2>1. Close /\ pc = "pull" /\ pc' = "listed" /\ UNCHANGED <<decoded, outcome>>
    BY <1>4 DEF Exhaust
  <2>2. IInv' /\ Once'
    <3>1. [Next]_vars
      BY <2>1 DEF Next
    <3> QED BY <3>1, TableStep DEF AInv
  <2>3. Emptied' /\ log' = log
    BY <2>1 DEF Close, Emptied, Classes
  <2> QED BY <2>1, <2>2, <2>3 DEF AInv
<1>5. CASE Raise
  <2>1. /\ outcome' \in Exceptions /\ pc' = "done" /\ UNCHANGED <<vars, decoded>>
    BY <1>5 DEF Raise
  <2>2. outcome' # "summary"
    BY <2>1 DEF Exceptions
  <2>3. IInv' /\ Once'
    BY <2>1, TableStep DEF AInv
  <2> QED BY <2>1, <2>2, <2>3 DEF AInv, vars
<1>6. CASE Detect
  <2>1. /\ outcome' = "summary" /\ pc = "listed" /\ pc' = "done" /\ UNCHANGED <<vars, decoded>>
    BY <1>6 DEF Detect
  <2>2. IInv' /\ Once'
    BY <2>1, TableStep DEF AInv
  <2>3. Emptied'
    BY <2>1 DEF AInv, Emptied, vars
  <2> QED BY <2>1, <2>2, <2>3 DEF AInv, vars
<1> QED BY <1>1, <1>2, <1>3, <1>4, <1>5, <1>6 DEF ANext

LEMMA AStutterInv == AInv /\ UNCHANGED avars => AInv'
<1> SUFFICES ASSUME AInv, UNCHANGED avars PROVE AInv'
  OBVIOUS
<1>1. UNCHANGED vars
  BY DEF avars
<1>2. IInv' /\ Once'
  BY <1>1, TableStep DEF AInv
<1> QED BY <1>1, <1>2 DEF AInv, avars, vars, Emptied

LEMMA AInvComplete == AInv => CompleteSummary
BY AllHanded DEF AInv, CompleteSummary, Emptied

(* A summary covers the whole capture: whatever was read, every decoded    *)
(* frame is in a flow the detectors were given.                            *)
THEOREM SummaryIsComplete == ASpec => []CompleteSummary
<1>1. AInv /\ [ANext]_avars => AInv'
  BY AStepInv, AStutterInv
<1> QED BY <1>1, AInitInv, AInvComplete, PTL DEF ASpec

-----------------------------------------------------------------------------
(* The two ways in *)

\* What the exit status rests on: the flags analyse once, so what they
\* rendered came of the analysis they exit with.
ExitsHonestly ==
    /\ entry \in {"flags", "menu", "help"}
    /\ at = "menu" => entry = "menu"
    /\ entry = "help" => at = "exited"
    /\ entry = "flags" /\ at \in {"start", "analysing"} => rendered = "nothing"
    /\ entry = "flags" /\ at = "exited" =>
          /\ status = EXIT_CLEAN => outcome = "summary" /\ rendered = "clean"
          /\ rendered = "findings" => status = EXIT_FINDINGS

CInv == AInv /\ ExitsHonestly

\* A restart is a fresh pipeline, whatever the last one left behind.
LEMMA RestartInv ==
    ASSUME Restart
    PROVE  AInv'
<1>1. (/\ table = [c \in Classes |-> <<>>] /\ ready = <<>> /\ clock = NoTime
       /\ log = <<>> /\ handed = {})'
  BY DEF Restart
<1>2. Init'
  BY <1>1 DEF Init
<1>3. (IInv /\ Once)'
  <2>1. (Init => IInv /\ Once)'
    BY InitInv, InitOnce, PTL
  <2> QED BY <1>2, <2>1
<1>4. decoded' = 0 /\ Len(log') = 0 /\ pc' = "pull" /\ outcome' = "none"
  BY <1>1 DEF Restart
<1> QED BY <1>3, <1>4 DEF AInv

LEMMA CInitInv == CliInit => CInv
BY AInitInv DEF CliInit, CInv, ExitsHonestly

LEMMA CStepInv ==
    ASSUME CInv, [CliNext]_<<avars, cvars>>
    PROVE  CInv'
<1> USE DEF CInv, ExitsHonestly
<1>1. CASE Refuse
  BY <1>1, AStutterInv DEF Refuse, Exit, EXIT_ERROR, EXIT_CLEAN
<1>2. CASE OpenMenu
  BY <1>2, AStutterInv DEF OpenMenu
<1>3. CASE DemoFails
  BY <1>3, AStutterInv DEF DemoFails, Exit, Crash, EXIT_CLEAN
<1>4. CASE Start
  BY <1>4, RestartInv DEF Start
<1>5. CASE Analysing
  BY <1>5, AStepInv DEF Analysing, cvars
<1>6. ASSUME NEW findings \in BOOLEAN, Report(findings) PROVE CInv'
  <2>1. AInv' /\ outcome' = outcome
    BY <1>6, AStutterInv DEF Report, avars
  <2>2. CASE entry = "menu"
    BY <1>6, <2>1, <2>2 DEF Report
  <2>3. CASE entry = "flags"
    BY <1>6, <2>1, <2>3 DEF Report, Exit, Rendering, EXIT_CLEAN, EXIT_FINDINGS
  <2>4. entry # "help"
    BY <1>6 DEF Report
  <2> QED BY <2>2, <2>3, <2>4
<1>7. CASE Recover
  BY <1>7, AStutterInv DEF Recover, Exit, EXIT_ERROR, EXIT_CLEAN
<1>8. CASE Uncaught
  BY <1>8, AStutterInv DEF Uncaught, Exit, Crash, EXIT_CLEAN
<1>9. CASE Quit
  BY <1>9, AStutterInv DEF Quit, Exit
<1>10. CASE BadDigit
  BY <1>10, AStutterInv DEF BadDigit, Exit
<1>11. CASE Inform
  BY <1>11, AStutterInv DEF Inform, Exit
<1>12. CASE UNCHANGED <<avars, cvars>>
  BY <1>12, AStutterInv DEF avars, cvars
<1> QED BY <1>1, <1>2, <1>3, <1>4, <1>5, <1>6, <1>7, <1>8, <1>9, <1>10, <1>11, <1>12
        DEF CliNext

LEMMA CInvClean == CInv => CleanExit
<1> SUFFICES ASSUME CInv, at = "exited", entry = "flags" PROVE CleanExit
  BY DEF CleanExit
<1>1. outcome = "summary" => handed = 1..Len(log)
  BY AllHanded DEF CInv, AInv
<1> QED BY <1>1 DEF CInv, ExitsHonestly, CleanExit

(* An exit status of 0 can be believed: the capture was read to its end,   *)
(* all of it reached the detectors, and they found nothing; and what was   *)
(* found is never hidden behind another status.                            *)
THEOREM ExitStatusBelieved == CliSpec => []CleanExit
<1>1. CInv /\ [CliNext]_<<avars, cvars>> => CInv'
  BY CStepInv
<1> QED BY <1>1, CInitInv, CInvClean, PTL DEF CliSpec

(* However often the menu analyses, and whatever it abandoned before, each *)
(* summary is of the whole of its own capture.                             *)
THEOREM EverySummaryComplete == CliSpec => []CompleteSummary
<1>1. CInv /\ [CliNext]_<<avars, cvars>> => CInv'
  BY CStepInv
<1>2. CInv => CompleteSummary
  BY AInvComplete DEF CInv
<1> QED BY <1>1, <1>2, CInitInv, PTL DEF CliSpec

-----------------------------------------------------------------------------
(* A capture of one tuple *)

\* The segments of the one connection, as the table keys them.
Link == <<"tcp", {Client, Server}>>

SynAt(no) == IsSyn(Pkt(no))
FinAt(no) == "FIN" \in Pkt(no).flags
RstAt(no) == "RST" \in Pkt(no).flags

FromServer(no) == Source(Pkt(no)) = Server

LEMMA PacketOf ==
    ASSUME NEW e \in Ends, NEW s \in Segments
    PROVE  LET p == PacketFrom(e, s) IN
           /\ p \in Packets /\ 0 \in Times
           /\ p.proto = "tcp" /\ p.flags = s.flags /\ p.payload = s.payload
           /\ Source(p) = (IF e = "client" THEN Client ELSE Server)
           /\ Target(p) = (IF e = "client" THEN Server ELSE Client)
           /\ Canon(p) = Link /\ Class(p) = "tcp"
<1> DEFINE p == PacketFrom(e, s)
<1>1. p \in Packets /\ 0 \in Times
  BY CaptureAssumption
<1>2. /\ p.proto = "tcp" /\ p.flags = s.flags /\ p.payload = s.payload /\ ~p.fragmented
      /\ p.src = (IF e = "client" THEN "C" ELSE "S")
      /\ p.sport = (IF e = "client" THEN 1 ELSE 2)
      /\ p.dst = (IF e = "client" THEN "S" ELSE "C")
      /\ p.dport = (IF e = "client" THEN 2 ELSE 1)
  BY DEF PacketFrom
<1>3. /\ Source(p) = (IF e = "client" THEN Client ELSE Server)
      /\ Target(p) = (IF e = "client" THEN Server ELSE Client)
  BY <1>2 DEF Source, Target, Client, Server
<1>4. Canon(p) = Link
  BY <1>2, <1>3 DEF Canon, Link
<1>5. Class(p) = "tcp"
  BY <1>2 DEF Class
<1> QED BY <1>1, <1>2, <1>3, <1>4, <1>5

\* The ends of the one tuple are two.
LEMMA TwoEnds == Client # Server /\ Ends = {"client", "server"}
BY DEF Client, Server, Ends

LEMMA FreshOfOne ==
    ASSUME NEW x \in State, NEW c, ~Idle(x, c, 0)
    PROVE  Fresh(<<x>>, c, 0) = 1
<1> DEFINE S == {i \in 1..Len(<<x>>) : ~Idle(<<x>>[i], c, 0)} \cup {Len(<<x>>) + 1}
<1>1. Len(<<x>>) = 1 /\ <<x>>[1] = x
  OBVIOUS
<1>2. S = {1, 2}
  BY <1>1
<1>3. Min(S) \in S /\ \A y \in S : Min(S) <= y
  <2> HIDE DEF S
  <2> QED BY <1>2, MinOfNaturals
<1>4. Min(S) = 1
  <2> HIDE DEF S
  <2> QED BY <1>2, <1>3
<1> QED BY <1>4 DEF Fresh

LEMMA FreshOfNone ==
    ASSUME NEW c
    PROVE  Fresh(<<>>, c, 0) = 1
<1> DEFINE S == {i \in 1..Len(<<>>) : ~Idle(<<>>[i], c, 0)} \cup {Len(<<>>) + 1}
<1>1. S = {1}
  OBVIOUS
<1>2. Min(S) \in S
  <2> HIDE DEF S
  <2> QED BY <1>1, MinOfNaturals
<1>3. Min(S) = 1
  BY <1>1, <1>2
<1> QED BY <1>3 DEF Fresh

\* With no time passing, and room for one state, what is added stays.
LEMMA NothingPushedOut ==
    ASSUME NEW tab, tab \in [Classes -> Seq(State)], tab["other"] = <<>>,
           tab["tcp"] = <<>> \/ \E x \in State : tab["tcp"] = <<x>> /\ x.flow.end = 0
    PROVE  Swept(tab, 0) = tab /\ Expired(tab, 0) = <<>>
           /\ Capped(tab) = tab /\ Evicted(tab) = <<>>
<1>1. ASSUME NEW c \in Classes
      PROVE  Fresh(tab[c], c, 0) = 1 /\ SubSeq(tab[c], 1, Len(tab[c])) = tab[c]
             /\ SubSeq(tab[c], 1, 0) = <<>> /\ Len(tab[c]) \in {0, 1}
  <2>1. CASE tab[c] = <<>>
    BY <2>1, FreshOfNone
  <2>2. ASSUME NEW x \in State, tab[c] = <<x>>, x.flow.end = 0
        PROVE  Fresh(tab[c], c, 0) = 1 /\ SubSeq(tab[c], 1, Len(tab[c])) = tab[c]
               /\ SubSeq(tab[c], 1, 0) = <<>> /\ Len(tab[c]) \in {0, 1}
    <3>1. ~Idle(x, c, 0)
      BY <2>2, TimeoutFacts DEF Idle
    <3>2. Fresh(tab[c], c, 0) = 1
      BY <2>2, <3>1, FreshOfOne
    <3>3. Len(<<x>>) = 1 /\ SubSeq(<<x>>, 1, 1) = <<x>> /\ SubSeq(<<x>>, 1, 0) = <<>>
      <4>1. <<x>> \in Seq(State) /\ Len(<<x>>) = 1
        OBVIOUS
      <4>2. SubSeq(<<x>>, 1, Len(<<x>>)) = <<x>>
        BY <4>1, SubSeqFull
      <4>3. SubSeq(<<x>>, 1, 0) = <<>>
        BY SubSeqEmpty
      <4> QED BY <4>1, <4>2, <4>3
    <3> QED BY <2>2, <3>2, <3>3
  <2> QED BY <2>1, <2>2 DEF Classes
<1>2. Swept(tab, 0) = tab
  BY <1>1 DEF Swept
<1>3. Expired(tab, 0) = <<>>
  BY <1>1 DEF Expired, Flows, Classes
<1>4. ~Over(tab)
  <2>1. Len(tab["tcp"]) \in {0, 1} /\ Len(tab["other"]) = 0
    BY <1>1 DEF Classes
  <2>2. MaxFlows >= 1 /\ MaxFlows \in Nat
    BY MaxFlowsAssumption
  <2>3. Held(tab) \in {0, 1}
    BY <2>1 DEF Held
  <2> QED BY <2>2, <2>3 DEF Over
<1> QED BY <1>2, <1>3, <1>4 DEF Capped, Evicted

\* Counting a frame while no time passes.
LEMMA CountedNow ==
    ASSUME NEW s \in State, s.flow.end = 0, NEW p \in Packets, NEW no \in Nat
    PROVE  Counted(s, p, 0, no) \in State /\ Counted(s, p, 0, no).flow.end = 0
<1>1. PICK c : c = Counted(s, p, 0, no)
  OBVIOUS
<1>2. c \in State /\ c.flow.end = Later(s.flow.end, 0)
  BY <1>1, CountedFacts
<1>3. Later(s.flow.end, 0) = 0
  BY DEF Later
<1> QED BY <1>1, <1>2, <1>3

\* What an add does to a table that is empty but for the state it takes out.
LEMMA SettleSingle ==
    ASSUME TypeOK, NEW p \in Packets, Class(p) = "tcp", NEW s \in State,
           s.flow.end = 0, NEW finished \in Seq(Flow), table["other"] = <<>>,
           Settle(p, 0, 0, <<>>, s, finished)
    PROVE  LET k == Counted(s, p, 0, Len(log) + 1) IN
           /\ k \in State /\ k.flow.end = 0 /\ Marked(k, p) \in State /\ Marked(k, p).flow = k.flow
           /\ k.flow.frames = s.flow.frames \cup {Len(log) + 1}
           /\ table'["other"] = <<>>
           /\ Finishes(k, p) => /\ table'["tcp"] = <<>>
                                /\ ready' = ready \o finished \o <<k.flow>>
           /\ ~Finishes(k, p) => /\ table'["tcp"] = <<Marked(k, p)>>
                                 /\ ready' = ready \o finished
<1> DEFINE k == Counted(s, p, 0, Len(log) + 1)
           added == IF Finishes(k, p) THEN <<>> ELSE Append(<<>>, Marked(k, p))
           touched == [table EXCEPT !["tcp"] = added]
           last == IF Finishes(k, p) THEN <<k.flow>> ELSE <<>>
<1>1. Len(log) + 1 \in Nat /\ Len(log) \in Nat
  BY LenProperties DEF TypeOK
<1>2. k \in State /\ k.flow.end = 0
  <2>1. PICK no \in Nat : no = Len(log) + 1
    BY <1>1
  <2>2. Counted(s, p, 0, no) \in State /\ Counted(s, p, 0, no).flow.end = 0
    BY CountedNow
  <2> QED BY <2>1, <2>2
<1>3. k.flow.frames = s.flow.frames \cup {Len(log) + 1}
  BY <1>1, CountedFrames
<1>4. Marked(k, p) \in State /\ Marked(k, p).flow = k.flow
  BY <1>2, MarkedFacts
<1>5. /\ table' = Capped(Swept(touched, 0))
      /\ ready' = ready \o finished \o last \o Expired(touched, 0) \o Evicted(Swept(touched, 0))
  BY DEF Settle
<1> HIDE DEF k
<1>6. added \in Seq(State)
  BY <1>4
<1>7. added = <<>> \/ \E x \in State : added = <<x>> /\ x.flow.end = 0
  BY <1>2, <1>4
<1>8. Finishes(k, p) => added = <<>> /\ last = <<k.flow>>
  OBVIOUS
<1>9. ~Finishes(k, p) => added = <<Marked(k, p)>> /\ last = <<>>
  BY <1>4
<1>10. last \in Seq(Flow)
  BY <1>2 DEF State
<1> HIDE DEF added, last
<1>11. touched \in [Classes -> Seq(State)] /\ touched["other"] = <<>> /\ touched["tcp"] = added
  BY <1>6 DEF TypeOK, Classes
<1> HIDE DEF touched
<1>12. /\ Swept(touched, 0) = touched /\ Expired(touched, 0) = <<>>
       /\ Capped(touched) = touched /\ Evicted(touched) = <<>>
  BY <1>7, <1>11, NothingPushedOut
<1>13. table' = touched /\ ready' = ready \o finished \o last \o <<>> \o <<>>
  BY <1>5, <1>12
<1>14. ready \o finished \in Seq(Flow) /\ ready \o finished \o last \in Seq(Flow)
  BY <1>10, ConcatProperties DEF TypeOK
<1>15. ready' = ready \o finished \o last
  BY <1>13, <1>14, ConcatEmptySeq
<1>16. last = <<>> => ready' = ready \o finished
  BY <1>14, <1>15, ConcatEmptySeq
<1> QED BY <1>2, <1>3, <1>4, <1>8, <1>9, <1>11, <1>13, <1>15, <1>16 DEF k

-----------------------------------------------------------------------------
(* While no time passes, the one tuple has at most one state, which holds  *)
(* every frame since its first; and what has left the table has ended.     *)

Convex(S) == \A a, b \in S : \A x \in a..b : x \in S

\* Why a flow left: a reset, the frame after a FIN from each side, or a SYN
\* behind it and a FIN in it.
EndedAt(f, hi) ==
    \/ RstAt(hi)
    \/ ~FinAt(hi) /\ BothFins(f, hi)
    \/ hi < Len(log) /\ SynAt(hi + 1) /\ \E x \in f.frames : FinAt(x)

Ended(f) ==
    \E hi \in f.frames : (\A x \in f.frames : x <= hi) /\ EndedAt(f, hi)

\* The flows that may have left the table.
Gone == {f \in Flow : Convex(f.frames) /\ Ended(f)}

Current(x) ==
    /\ x.canon = Link /\ x.flow.end = 0
    /\ Len(log) \in x.flow.frames /\ Convex(x.flow.frames)

Single ==
    /\ handed = {} /\ clock \in {NoTime, 0}
    /\ table["other"] = <<>>
    /\ table["tcp"] = <<>> \/ \E x \in State : table["tcp"] = <<x>> /\ Current(x)
    /\ ready \in Seq(Gone)

\* A longer log shows no less of the end of a flow.
LEMMA EndedStays ==
    ASSUME NEW p, NEW ts, Extends(log', log, ts, p), NEW f, Ended(f),
           f.frames \subseteq 1..Len(log), Len(log) \in Nat
    PROVE  Ended(f)'
<1>1. PICK hi \in f.frames : (\A x \in f.frames : x <= hi) /\ EndedAt(f, hi)
  BY DEF Ended
<1>2. \A x \in 1..Len(log) : log'[x] = log[x]
  BY DEF Extends
<1>3. Len(log') = Len(log) + 1
  BY DEF Extends
<1>4. \A x \in f.frames : Pkt(x)' = Pkt(x)
  BY <1>2 DEF Pkt
<1>5. RstAt(hi) => RstAt(hi)'
  BY <1>4 DEF RstAt
<1>6. ~FinAt(hi) /\ BothFins(f, hi) => ~FinAt(hi)' /\ BothFins(f, hi)'
  BY <1>4 DEF FinAt, BothFins
<1>7. ASSUME hi < Len(log), SynAt(hi + 1), NEW x \in f.frames, FinAt(x)
      PROVE  hi < Len(log') /\ SynAt(hi + 1)' /\ FinAt(x)'
  <2>1. hi + 1 \in 1..Len(log) /\ hi < Len(log')
    BY <1>3, <1>7
  <2>2. Pkt(hi + 1)' = Pkt(hi + 1)
    BY <1>2, <2>1 DEF Pkt
  <2> QED BY <1>4, <1>7, <2>1, <2>2 DEF FinAt, SynAt
<1>8. EndedAt(f, hi)'
  BY <1>1, <1>5, <1>6, <1>7 DEF EndedAt
<1> QED BY <1>1, <1>8 DEF Ended

\* One more frame at the end leaves no gap.
LEMMA ConvexGrows ==
    ASSUME NEW n \in Nat, NEW S, S \subseteq 1..n, Convex(S), S = {} \/ n \in S
    PROVE  Convex(S \cup {n + 1})
BY DEF Convex

\* The state a new frame has been counted in is the current one.
LEMMA CountedIsCurrent ==
    ASSUME TypeOK, NEW p \in Packets, Canon(p) = Link, Class(p) = "tcp",
           Extends(log', log, 0, p),
           NEW k \in State, k.flow.end = 0, Outcome(k, p), Marked(k, p) \in State,
           Marked(k, p).flow = k.flow, NEW S, k.flow.frames = S \cup {Len(log) + 1},
           S \subseteq 1..Len(log), Convex(S), S = {} \/ Len(log) \in S
    PROVE  /\ Convex(k.flow.frames)
           /\ Finishes(k, p) => Ended(k.flow)'
           /\ ~Finishes(k, p) => Current(Marked(k, p))'
<1>1. Len(log) \in Nat /\ Len(log') = Len(log) + 1 /\ log'[Len(log')].packet = p
  BY LenProperties DEF Extends, TypeOK
<1>2. Convex(k.flow.frames)
  BY <1>1, ConvexGrows
<1>3. Len(log') \in k.flow.frames /\ \A x \in k.flow.frames : x <= Len(log')
  <2>1. Len(log') \in k.flow.frames
    BY <1>1
  <2>2. \A x \in S : x <= Len(log) + 1
    BY <1>1
  <2> QED BY <1>1, <2>1, <2>2
<1>4. ASSUME Finishes(k, p) PROVE Ended(k.flow)'
  <2>1. \/ "RST" \in p.flags
        \/ "FIN" \notin p.flags /\ BothBy(k.flow, Len(log'), log')
    BY <1>4 DEF Outcome
  <2>2. PICK n : n = Len(log')
    OBVIOUS
  <2>3. Pkt(n)' = p
    BY <1>1, <2>2 DEF Pkt
  <2>4. BothBy(k.flow, n, log') => BothFins(k.flow, n)'
    BY DEF BothBy, BothFins, HasFlag, Pkt
  <2>5. EndedAt(k.flow, n)'
    BY <2>1, <2>2, <2>3, <2>4 DEF EndedAt, RstAt, FinAt
  <2> QED BY <1>3, <2>2, <2>5 DEF Ended
<1>5. ASSUME ~Finishes(k, p) PROVE Current(Marked(k, p))'
  <2> DEFINE m == Marked(k, p)
  <2>1. StateInv(m, Class(p), log') /\ m.flow = k.flow
    BY <1>5 DEF Outcome
  <2> HIDE DEF m
  <2>2. m.canon = <<m.flow.proto, {m.flow.src, m.flow.dst}>>
    BY <2>1 DEF StateInv
  <2>3. Canon(log'[Len(log')].packet) = <<m.flow.proto, {m.flow.src, m.flow.dst}>>
    BY <1>3, <2>1 DEF StateInv, FlowInv, OnTuple
  <2>4. m.canon = Link
    BY <1>1, <2>2, <2>3
  <2>5. Len(log') \in m.flow.frames /\ Convex(m.flow.frames) /\ m.flow.end = 0
    BY <1>2, <1>3, <2>1
  <2> QED BY <2>4, <2>5 DEF Current, m
<1> QED BY <1>2, <1>4, <1>5

LEMMA SeqInto ==
    ASSUME NEW S, NEW a \in Seq(S), NEW T, \A i \in 1..Len(a) : a[i] \in T
    PROVE  a \in Seq(T)
<1>1. Len(a) \in Nat /\ a \in [1..Len(a) -> S]
  BY LenProperties
<1>2. a \in [1..Len(a) -> T]
  BY <1>1
<1> QED BY <1>1, <1>2, SeqDef

LEMMA SettledSingle ==
    ASSUME IInv, HInv, Single, NEW p \in Packets, 0 \in Times, Canon(p) = Link,
           Class(p) = "tcp", Arrive(p, 0),
           NEW s \in State, s.flow.end = 0, Gets(s, p, 0, 0),
           s.flow.frames \subseteq 1..Len(log), Convex(s.flow.frames),
           s.flow.frames = {} \/ Len(log) \in s.flow.frames,
           NEW finished \in Seq(Gone'), Settle(p, 0, 0, <<>>, s, finished)
    PROVE  Single'
<1>1. TypeOK /\ Len(log) \in Nat
  BY LenProperties DEF IInv, TypeOK
<1>2. Extends(log', log, 0, p)
  BY <1>1, LogGrows
<1>3. handed' = {} /\ Later(clock, 0) = 0 /\ clock' = 0
  BY DEF Arrive, Single, Later, NoTime
<1>4. PICK k : k = Counted(s, p, 0, Len(log) + 1)
  OBVIOUS
<1>5. Outcome(k, p)
  BY <1>3, <1>4, OutcomeOf
<1>6. finished \in Seq(Flow)
  <2>1. Gone' \subseteq Flow
    BY DEF Gone
  <2> QED BY <2>1, SeqMonotonic
<1>7. /\ k \in State /\ k.flow.end = 0 /\ Marked(k, p) \in State /\ Marked(k, p).flow = k.flow
      /\ k.flow.frames = s.flow.frames \cup {Len(log) + 1}
      /\ table'["other"] = <<>>
      /\ Finishes(k, p) => /\ table'["tcp"] = <<>>
                           /\ ready' = ready \o finished \o <<k.flow>>
      /\ ~Finishes(k, p) => /\ table'["tcp"] = <<Marked(k, p)>>
                            /\ ready' = ready \o finished
  BY <1>1, <1>4, <1>6, SettleSingle DEF Single
<1>8. PICK f : f = k.flow
  OBVIOUS
<1>9. PICK x : x = Marked(k, p)
  OBVIOUS
<1>10. /\ Convex(f.frames)
       /\ Finishes(k, p) => Ended(f)'
       /\ ~Finishes(k, p) => Current(x)'
  BY <1>1, <1>2, <1>5, <1>7, <1>8, <1>9, CountedIsCurrent
<1>11. ready \in Seq(Gone')
  <2>1. ready \in Seq(Gone) /\ ready \in Seq(Flow)
    BY <1>1 DEF TypeOK, Single
  <2>2. ASSUME NEW i \in 1..Len(ready) PROVE ready[i] \in Gone'
    <3>1. PICK g : g = ready[i]
      OBVIOUS
    <3>2. g \in Gone
      BY <2>1, <3>1, ElementOfSeq
    <3>3. g.frames \subseteq 1..Len(log)
      BY <3>1 DEF HInv, FlowInv, OnTuple
    <3>4. Ended(g)'
      BY <1>1, <1>2, <3>2, <3>3, EndedStays DEF Gone
    <3> QED BY <3>1, <3>2, <3>4 DEF Gone
  <2> QED BY <2>1, <2>2, SeqInto
<1>12. ready' \in Seq(Gone')
  <2>1. ready \o finished \in Seq(Gone')
    BY <1>11, ConcatProperties
  <2>2. CASE Finishes(k, p)
    <3>1. f \in Gone'
      BY <1>7, <1>8, <1>10, <2>2 DEF Gone, State
    <3>2. <<f>> \in Seq(Gone')
      BY <3>1
    <3>3. ready \o finished \o <<f>> \in Seq(Gone')
      BY <2>1, <3>2, ConcatProperties
    <3> QED BY <1>7, <1>8, <2>2, <3>3
  <2> QED BY <1>7, <2>1, <2>2
<1>13. table'["tcp"] = <<>> \/ \E y \in State : table'["tcp"] = <<y>> /\ Current(y)'
  BY <1>7, <1>9, <1>10
<1> QED BY <1>3, <1>7, <1>12, <1>13 DEF Single

\* Taking the one state out of a table leaves none.
LEMMA WithoutOnly ==
    ASSUME NEW x \in State, NEW i \in 1..Len(<<x>>)
    PROVE  i = 1 /\ Without(<<x>>, i) = <<>>
<1>1. i = 1 /\ Len(<<x>>) = 1
  OBVIOUS
<1>2. SubSeq(<<x>>, 1, 0) = <<>> /\ SubSeq(<<x>>, 2, 1) = <<>>
  BY SubSeqEmpty
<1> QED BY <1>1, <1>2 DEF Without

LEMMA CurrentFrames ==
    ASSUME IInv, HInv, NEW x \in State, table["tcp"] = <<x>>
    PROVE  /\ x.flow.frames \subseteq 1..Len(log) /\ x.flow \in Flow
           /\ StateInv(x, "tcp", log)
<1>1. StateInv(table["tcp"][1], "tcp", log)
  BY DEF HInv, Classes
<1>2. StateInv(x, "tcp", log)
  BY <1>1
<1> QED BY <1>2 DEF StateInv, FlowInv, OnTuple, State

LEMMA AddSingle ==
    ASSUME IInv, HInv, Single, NEW p \in Packets, 0 \in Times, Canon(p) = Link,
           Class(p) = "tcp", Add(p, 0)
    PROVE  Single'
<1> DEFINE t == table["tcp"]
<1>1. Arrive(p, 0) /\ Later(clock, 0) = 0
  BY DEF Add, AddFirst, AddNext, AddReuse, Single, Later, NoTime
<1>2. OpenFlow(p, 0) \in State /\ OpenFlow(p, 0).flow.end = 0
      /\ OpenFlow(p, 0).flow.frames = {}
  BY OpenFlowFacts, OpenFlowFrames
<1>3. OpenFlow(p, 0).flow.frames \subseteq 1..Len(log) /\ Convex(OpenFlow(p, 0).flow.frames)
      /\ Gets(OpenFlow(p, 0), p, 0, 0)
  BY <1>2 DEF Convex, Gets
<1>4. <<>> \in Seq(Gone')
  OBVIOUS
<1>5. CASE AddFirst(p, 0)
  <2>1. At(t, Link) = {} /\ Settle(p, 0, 0, t, OpenFlow(p, 0), <<>>)
    BY <1>1, <1>5 DEF AddFirst
  <2>2. t = <<>>
    <3> SUFFICES ASSUME t # <<>> PROVE FALSE
      OBVIOUS
    <3>1. PICK x \in State : t = <<x>> /\ Current(x)
      BY DEF Single
    <3>2. Len(t) = 1 /\ t[1].canon = Link
      BY <3>1 DEF Current
    <3>3. 1 \in At(t, Link)
      BY <3>2 DEF At
    <3> QED BY <2>1, <3>3
  <2> QED BY <1>1, <1>2, <1>3, <1>4, <2>1, <2>2, SettledSingle
<1>6. ASSUME NEW i \in At(t, Link)
      PROVE  \E x \in State : /\ t = <<x>> /\ Current(x) /\ i = 1 /\ t[i] = x
                              /\ Without(t, i) = <<>>
  <2>1. i \in 1..Len(t)
    BY DEF At
  <2>2. t # <<>>
    BY <2>1
  <2>3. PICK x \in State : t = <<x>> /\ Current(x)
    BY <2>2 DEF Single
  <2>4. i = 1 /\ Without(t, i) = <<>>
    BY <2>1, <2>3, WithoutOnly
  <2> QED BY <2>3, <2>4
<1>7. CASE AddNext(p, 0)
  <2>1. PICK i \in At(t, Link) : /\ ~ReusesTuple(t[i], p, 0)
                                 /\ Settle(p, 0, 0, Without(t, i), Reorient(t[i], p), <<>>)
    BY <1>1, <1>7 DEF AddNext
  <2>2. PICK x \in State : /\ t = <<x>> /\ Current(x) /\ i = 1 /\ t[i] = x
                           /\ Without(t, i) = <<>>
    BY <1>6
  <2>3. PICK s : s = Reorient(x, p)
    OBVIOUS
  <2>4. s \in State /\ s.flow.end = 0 /\ s.flow.frames = x.flow.frames
    BY <2>2, <2>3, ReorientFacts, ReorientFrames DEF Current
  <2>5. Gets(s, p, 0, 0)
    <3>1. x.canon = Canon(p)
      BY <2>2 DEF Current
    <3>2. Continues(t[i], p, 0) /\ i \in 1..Len(t) /\ s = Reorient(t[i], p)
      BY <2>1, <2>2, <2>3, <3>1 DEF Continues
    <3> QED BY <3>2 DEF Gets
  <2>6. /\ s.flow.frames \subseteq 1..Len(log) /\ Convex(s.flow.frames)
        /\ Len(log) \in s.flow.frames
    BY <2>2, <2>4, CurrentFrames DEF Current
  <2>7. Settle(p, 0, 0, <<>>, s, <<>>)
    BY <2>1, <2>2, <2>3
  <2> QED BY <1>1, <1>4, <2>4, <2>5, <2>6, <2>7, SettledSingle
<1>8. CASE AddReuse(p, 0)
  <2>1. PICK i \in At(t, Link) : /\ ReusesTuple(t[i], p, 0)
                                 /\ Settle(p, 0, 0, Without(t, i), OpenFlow(p, 0), <<t[i].flow>>)
    BY <1>1, <1>8 DEF AddReuse
  <2>2. PICK x \in State : /\ t = <<x>> /\ Current(x) /\ i = 1 /\ t[i] = x
                           /\ Without(t, i) = <<>>
    BY <1>6
  <2>3. PICK f : f = x.flow
    OBVIOUS
  <2>4. StateInv(x, "tcp", log) /\ f \in Flow /\ f.frames \subseteq 1..Len(log)
    BY <2>2, <2>3, CurrentFrames
  <2>5. IsSyn(p) /\ (x.fin_out \/ x.fin_in)
    <3>1. ~Idle(x, "tcp", 0)
      BY <2>2, TimeoutFacts DEF Idle, Current, Classes
    <3> QED BY <2>1, <2>2, <3>1 DEF ReusesTuple
  <2>6. Extends(log', log, 0, p) /\ Len(log) \in Nat
    BY <1>1, LogGrows, LenProperties DEF IInv, TypeOK
  <2>7. Ended(f)'
    <3>1. FinFrom(f, log) \/ FinTo(f, log)
      BY <2>3, <2>4, <2>5 DEF StateInv, Marks
    <3>2. PICK no \in f.frames : HasFlag("FIN", no, log)
      BY <3>1 DEF FinFrom, FinTo
    <3>3. FinAt(no)'
      BY <2>4, <2>6, <3>2 DEF FinAt, Pkt, HasFlag, Extends
    <3>4. PICK n : n = Len(log)
      OBVIOUS
    <3>5. n \in f.frames /\ \A y \in f.frames : y <= n
      BY <2>2, <2>3, <2>4, <2>6, <3>4 DEF Current
    <3>6. n < Len(log') /\ SynAt(n + 1)'
      BY <2>5, <2>6, <3>4 DEF Extends, SynAt, Pkt
    <3>7. EndedAt(f, n)'
      BY <3>2, <3>3, <3>6 DEF EndedAt
    <3> QED BY <3>5, <3>7 DEF Ended
  <2>8. f \in Gone'
    BY <2>2, <2>3, <2>4, <2>7 DEF Gone, Current
  <2>9. <<f>> \in Seq(Gone')
    BY <2>8
  <2>10. Settle(p, 0, 0, <<>>, OpenFlow(p, 0), <<f>>)
    BY <2>1, <2>2, <2>3
  <2> QED BY <1>1, <1>2, <1>3, <2>9, <2>10, SettledSingle
<1> QED BY <1>5, <1>7, <1>8 DEF Add

-----------------------------------------------------------------------------
(* What that makes of the flows the table knows of: they are runs of       *)
(* frames, one behind the other, and each but the last has ended.          *)

TableInv == IInv /\ HInv /\ Once /\ Single

LEMMA FrameInOne ==
    ASSUME TableInv, NEW no \in 1..Len(log)
    PROVE  /\ \E f \in KnownFlows : no \in f.frames
           /\ \A f, g \in KnownFlows : no \in f.frames /\ no \in g.frames => f = g
<1>1. PICK x \in Places(no) : Places(no) = {x}
  BY OnceIsExactly DEF TableInv, ExactlyOnce
<1>2. handed = {}
  BY DEF TableInv, Single
<1>3. ASSUME NEW c \in Classes, NEW i \in 1..Len(table[c]), no \in table[c][i].flow.frames
      PROVE  <<c, i>> \in Places(no)
  BY <1>3 DEF Places
<1>4. ASSUME NEW i \in 1..Len(ready), no \in ready[i].frames
      PROVE  <<"ready", i>> \in Places(no)
  BY <1>4 DEF Places
<1>5. \A f \in KnownFlows :
        \/ \E c \in Classes : \E i \in 1..Len(table[c]) : f = table[c][i].flow
        \/ \E i \in 1..Len(ready) : f = ready[i]
  BY DEF KnownFlows, LiveFlows, ReadyFlows
<1>6. \E f \in KnownFlows : no \in f.frames
  <2>1. \/ \E c \in Classes : \E i \in 1..Len(table[c]) : no \in table[c][i].flow.frames
        \/ \E i \in 1..Len(ready) : no \in ready[i].frames
    BY <1>1, <1>2 DEF Places
  <2> QED BY <2>1 DEF KnownFlows, LiveFlows, ReadyFlows
<1>7. ASSUME NEW f \in KnownFlows, NEW g \in KnownFlows, no \in f.frames, no \in g.frames
      PROVE  f = g
  <2>1. "ready" \notin Classes
    BY DEF Classes
  <2>2. ASSUME NEW c \in Classes, NEW i \in 1..Len(table[c]), f = table[c][i].flow
        PROVE  f = g
    <3>1. x = <<c, i>>
      BY <1>1, <1>3, <1>7, <2>2
    <3>2. ASSUME NEW d \in Classes, NEW j \in 1..Len(table[d]), g = table[d][j].flow
          PROVE  f = g
      <4>1. x = <<d, j>>
        BY <1>1, <1>3, <1>7, <3>2
      <4> QED BY <2>2, <3>1, <3>2, <4>1
    <3>3. ASSUME NEW j \in 1..Len(ready), g = ready[j] PROVE FALSE
      <4>1. x = <<"ready", j>>
        BY <1>1, <1>4, <1>7, <3>3
      <4> QED BY <2>1, <3>1, <4>1
    <3> QED BY <1>5, <3>2, <3>3
  <2>3. ASSUME NEW i \in 1..Len(ready), f = ready[i]
        PROVE  f = g
    <3>1. x = <<"ready", i>>
      BY <1>1, <1>4, <1>7, <2>3
    <3>2. ASSUME NEW d \in Classes, NEW j \in 1..Len(table[d]), g = table[d][j].flow
          PROVE  FALSE
      <4>1. x = <<d, j>>
        BY <1>1, <1>3, <1>7, <3>2
      <4> QED BY <2>1, <3>1, <4>1
    <3>3. ASSUME NEW j \in 1..Len(ready), g = ready[j] PROVE f = g
      <4>1. x = <<"ready", j>>
        BY <1>1, <1>4, <1>7, <3>3
      <4> QED BY <2>3, <3>1, <3>3, <4>1
    <3> QED BY <1>5, <3>2, <3>3
  <2> QED BY <1>5, <2>2, <2>3
<1> QED BY <1>6, <1>7

LEMMA KnownRun ==
    ASSUME TableInv, NEW f \in KnownFlows
    PROVE  /\ f.frames \subseteq 1..Len(log) /\ f.frames # {} /\ Convex(f.frames)
           /\ Len(log) \in Nat
           /\ Len(log) \in f.frames \/ Ended(f)
           /\ Min(f.frames) \in f.frames /\ \A x \in f.frames : Min(f.frames) <= x
<1>1. FlowInv(f, log) /\ f.frames \in SUBSET Nat
  BY KnownInv DEF TableInv, IInv
<1>2. f.frames \subseteq 1..Len(log) /\ f.frames # {}
  BY <1>1 DEF FlowInv, OnTuple, Named
<1>3. Len(log) \in Nat
  BY LenProperties DEF TableInv, IInv, TypeOK
<1>4. ASSUME NEW c \in Classes, NEW i \in 1..Len(table[c]), f = table[c][i].flow
      PROVE  Convex(f.frames) /\ Len(log) \in f.frames
  <2>1. c = "tcp"
    BY <1>4 DEF Classes, TableInv, Single
  <2>2. PICK x \in State : table["tcp"] = <<x>> /\ Current(x)
    BY <1>4, <2>1 DEF TableInv, Single
  <2>3. i = 1 /\ f = x.flow
    BY <1>4, <2>1, <2>2
  <2> QED BY <2>2, <2>3 DEF Current
<1>5. ASSUME NEW i \in 1..Len(ready), f = ready[i]
      PROVE  Convex(f.frames) /\ Ended(f)
  <2>1. ready[i] \in Gone
    BY ElementOfSeq DEF TableInv, Single
  <2> QED BY <1>5, <2>1 DEF Gone
<1>6. Min(f.frames) \in f.frames /\ \A x \in f.frames : Min(f.frames) <= x
  BY <1>1, <1>2, MinOfNaturals
<1> QED BY <1>2, <1>3, <1>4, <1>5, <1>6 DEF KnownFlows, LiveFlows, ReadyFlows

\* The flow before the first frame of g ends there.
LEMMA Predecessor ==
    ASSUME TableInv, NEW g \in KnownFlows, Min(g.frames) > 1
    PROVE  \E h \in KnownFlows :
              /\ Min(g.frames) - 1 \in h.frames
              /\ \A x \in h.frames : x <= Min(g.frames) - 1
              /\ EndedAt(h, Min(g.frames) - 1)
<1> DEFINE m == Min(g.frames)
<1>1. /\ m \in g.frames /\ g.frames \subseteq 1..Len(log) /\ Len(log) \in Nat
      /\ \A x \in g.frames : m <= x
  BY KnownRun
<1>2. m - 1 \in 1..Len(log) /\ m - 1 \notin g.frames /\ m \in 1..Len(log)
  BY <1>1
<1>3. PICK h \in KnownFlows : m - 1 \in h.frames
  BY <1>2, FrameInOne
<1>4. h.frames \subseteq 1..Len(log) /\ Convex(h.frames) /\ (Len(log) \in h.frames \/ Ended(h))
  BY KnownRun
<1> HIDE DEF m
<1>5. m \notin h.frames
  BY <1>1, <1>2, <1>3, FrameInOne
<1>6. ASSUME NEW x \in h.frames, x > m - 1 PROVE FALSE
  <2>1. m \in (m - 1)..x
    BY <1>2, <1>4, <1>6
  <2> QED BY <1>3, <1>4, <1>5, <2>1 DEF Convex
<1>7. \A x \in h.frames : x <= m - 1
  BY <1>2, <1>4, <1>6
<1>8. Len(log) \notin h.frames
  BY <1>1, <1>2, <1>7
<1>9. PICK hi \in h.frames : (\A x \in h.frames : x <= hi) /\ EndedAt(h, hi)
  BY <1>4, <1>8 DEF Ended
<1>10. hi = m - 1
  BY <1>2, <1>3, <1>4, <1>7, <1>9
<1> QED BY <1>3, <1>7, <1>9, <1>10 DEF m

\* A frame before a run is before all of it.
LEMMA RunsInOrder ==
    ASSUME TableInv, NEW f \in KnownFlows, NEW g \in KnownFlows, f # g,
           NEW a \in f.frames, NEW b \in g.frames, a < b
    PROVE  a < Min(g.frames)
<1>1. /\ g.frames \subseteq 1..Len(log) /\ Convex(g.frames) /\ Min(g.frames) \in g.frames
      /\ f.frames \subseteq 1..Len(log) /\ Len(log) \in Nat
  BY KnownRun
<1>2. a \notin g.frames
  BY <1>1, FrameInOne
<1> QED BY <1>1, <1>2 DEF Convex

-----------------------------------------------------------------------------
(* The endpoints: what they send, and what is on the wire *)

\* The segments of a connection that has been opened.
Talk == {ACK(b) : b \in BOOLEAN} \cup {DATA(b) : b \in BOOLEAN} \cup {FIN(b) : b \in BOOLEAN}

Sends(e) == Talk \cup {RST} \cup (IF e = "client" THEN {SYN} ELSE {SYNACK})

Opened == {"established", "fin_wait_1", "fin_wait_2", "close_wait", "closing",
             "last_ack", "time_wait"}

States(e) == Opened \cup (IF e = "client" THEN {"closed", "syn_sent"}
                                            ELSE {"listen", "syn_rcvd"})

Unopened == {"listen", "syn_rcvd"}

LEMMA SegmentFacts ==
    /\ SYN.flags = {"SYN"} /\ SYN.payload = 0
    /\ SYNACK.flags = {"SYN", "ACK"} /\ SYNACK.payload = 0
    /\ RST.flags = {"RST", "ACK"} /\ RST.payload = 0
    /\ SYN # SYNACK /\ SYN # RST /\ SYNACK # RST
    /\ \A s \in Talk : /\ "SYN" \notin s.flags /\ "RST" \notin s.flags /\ "ACK" \in s.flags
                       /\ s.payload \in {0, 1}
                       /\ s # SYN /\ s # SYNACK /\ s # RST
<1>1. /\ SYN.flags = {"SYN"} /\ SYN.payload = 0
      /\ SYNACK.flags = {"SYN", "ACK"} /\ SYNACK.payload = 0
      /\ RST.flags = {"RST", "ACK"} /\ RST.payload = 0
  BY DEF SYN, SYNACK, RST, Segment
<1>2. \A s \in Talk : /\ "SYN" \notin s.flags /\ "RST" \notin s.flags /\ "ACK" \in s.flags
                      /\ s.payload \in {0, 1}
  BY DEF Talk, ACK, DATA, FIN, Segment
<1>3. SYN # SYNACK /\ SYN # RST /\ SYNACK # RST
  <2>1. "ACK" \notin SYN.flags /\ "ACK" \in SYNACK.flags /\ "ACK" \in RST.flags
        /\ "RST" \notin SYNACK.flags /\ "RST" \in RST.flags
    BY <1>1
  <2> QED BY <2>1
<1>4. \A s \in Talk : s # SYN /\ s # SYNACK /\ s # RST
  <2>1. "SYN" \in SYN.flags /\ "SYN" \in SYNACK.flags /\ "RST" \in RST.flags
    BY <1>1
  <2> QED BY <1>2, <2>1
<1> QED BY <1>1, <1>2, <1>3, <1>4

LEMMA SendsFacts ==
    /\ \A e \in Ends : Sends(e) \subseteq Segments /\ Talk \subseteq Sends(e) /\ RST \in Sends(e)
    /\ SYN \in Sends("client") /\ SYNACK \in Sends("server")
    /\ SYNACK \notin Sends("client") /\ SYN \notin Sends("server")
<1>1. \A e \in Ends : Sends(e) \subseteq Segments /\ Talk \subseteq Sends(e) /\ RST \in Sends(e)
  BY DEF Sends, Segments, Talk
<1>2. SYN \in Sends("client") /\ SYNACK \in Sends("server")
  BY DEF Sends
<1>3. SYNACK \notin Sends("client") /\ SYN \notin Sends("server")
  BY SegmentFacts DEF Sends
<1> QED BY <1>1, <1>2, <1>3

HasSyn(w)    == \E i \in 1..Len(w) : w[i] = SYN
OnlySyns(w)  == \A i \in 1..Len(w) : w[i] = SYN
SynsFirst(w) == \A i, j \in 1..Len(w) : i < j /\ w[j] = SYN => w[i] = SYN
Replies(w)   == \A i \in 1..Len(w) : w[i] \in {SYNACK, RST}

LEMMA EmptyWire == ~HasSyn(<<>>) /\ OnlySyns(<<>>) /\ SynsFirst(<<>>) /\ Replies(<<>>)
BY DEF HasSyn, OnlySyns, SynsFirst, Replies

LEMMA WireGrows ==
    ASSUME NEW T, NEW w \in Seq(T), NEW s \in T
    PROVE  /\ w \o <<s>> \in Seq(T)
           /\ HasSyn(w \o <<s>>) => HasSyn(w) \/ s = SYN
           /\ OnlySyns(w) /\ s = SYN => OnlySyns(w \o <<s>>)
           /\ SynsFirst(w) /\ (s = SYN => OnlySyns(w)) => SynsFirst(w \o <<s>>)
           /\ Replies(w) /\ s \in {SYNACK, RST} => Replies(w \o <<s>>)
<1> DEFINE v == w \o <<s>>
<1>1. /\ v \in Seq(T) /\ Len(v) = Len(w) + 1 /\ Len(w) \in Nat
      /\ \A i \in 1..Len(w) : v[i] = w[i]
      /\ v[Len(w) + 1] = s
  <2>1. <<s>> \in Seq(T) /\ Len(<<s>>) = 1 /\ <<s>>[1] = s
    OBVIOUS
  <2>2. /\ v \in Seq(T) /\ Len(v) = Len(w) + Len(<<s>>)
        /\ \A i \in 1..(Len(w) + Len(<<s>>)) :
              v[i] = IF i <= Len(w) THEN w[i] ELSE <<s>>[i - Len(w)]
    BY <2>1, ConcatProperties
  <2>3. Len(w) \in Nat
    BY LenProperties
  <2> QED BY <2>1, <2>2, <2>3
<1> HIDE DEF v
<1>2. HasSyn(v) => HasSyn(w) \/ s = SYN
  BY <1>1 DEF HasSyn
<1>3. OnlySyns(w) /\ s = SYN => OnlySyns(v)
  BY <1>1 DEF OnlySyns
<1>4. SynsFirst(w) /\ (s = SYN => OnlySyns(w)) => SynsFirst(v)
  BY <1>1 DEF SynsFirst, OnlySyns
<1>5. Replies(w) /\ s \in {SYNACK, RST} => Replies(v)
  BY <1>1 DEF Replies
<1> QED BY <1>1, <1>2, <1>3, <1>4, <1>5 DEF v

LEMMA WireShrinks ==
    ASSUME NEW T, NEW w \in Seq(T), w # <<>>
    PROVE  /\ Tail(w) \in Seq(T) /\ Head(w) \in T
           /\ HasSyn(Tail(w)) => HasSyn(w)
           /\ HasSyn(Tail(w)) /\ SynsFirst(w) => Head(w) = SYN
           /\ Head(w) = SYN => HasSyn(w)
           /\ OnlySyns(w) => OnlySyns(Tail(w)) /\ Head(w) = SYN
           /\ SynsFirst(w) => SynsFirst(Tail(w))
           /\ Replies(w) => Replies(Tail(w)) /\ Head(w) \in {SYNACK, RST}
<1> DEFINE v == Tail(w)
<1>1. /\ v \in Seq(T) /\ Len(v) = Len(w) - 1 /\ Len(w) \in Nat \ {0}
      /\ \A i \in 1..Len(v) : v[i] = w[i + 1]
      /\ Head(w) = w[1] /\ Head(w) \in T
  BY HeadTailProperties, EmptySeq
<1> HIDE DEF v
<1>2. HasSyn(v) => HasSyn(w)
  BY <1>1 DEF HasSyn
<1>3. HasSyn(v) /\ SynsFirst(w) => Head(w) = SYN
  <2> SUFFICES ASSUME NEW i \in 1..Len(v), v[i] = SYN, SynsFirst(w) PROVE w[1] = SYN
    BY <1>1 DEF HasSyn
  <2>1. i + 1 \in 1..Len(w) /\ 1 \in 1..Len(w) /\ 1 < i + 1 /\ w[i + 1] = SYN
    BY <1>1
  <2> QED BY <2>1 DEF SynsFirst
<1>4. Head(w) = SYN => HasSyn(w)
  BY <1>1 DEF HasSyn
<1>5. OnlySyns(w) => OnlySyns(v) /\ Head(w) = SYN
  BY <1>1 DEF OnlySyns
<1>6. SynsFirst(w) => SynsFirst(v)
  <2> SUFFICES ASSUME SynsFirst(w), NEW i \in 1..Len(v), NEW j \in 1..Len(v), i < j, v[j] = SYN
               PROVE  v[i] = SYN
    BY DEF SynsFirst
  <2>1. i + 1 \in 1..Len(w) /\ j + 1 \in 1..Len(w) /\ i + 1 < j + 1 /\ w[j + 1] = SYN
    BY <1>1
  <2>2. w[i + 1] = SYN
    BY <2>1 DEF SynsFirst
  <2> QED BY <1>1, <2>2
<1>7. Replies(w) => Replies(v) /\ Head(w) \in {SYNACK, RST}
  BY <1>1 DEF Replies
<1> QED BY <1>1, <1>2, <1>3, <1>4, <1>5, <1>6, <1>7 DEF v

-----------------------------------------------------------------------------
(* What an endpoint does about a segment *)

TcpState ==
    /\ st \in [Ends -> States("client") \cup States("server")]
    /\ st["client"] \in States("client") /\ st["server"] \in States("server")
    /\ wire \in [Ends -> Seq(Segments)]
    /\ wire["client"] \in Seq(Sends("client")) /\ wire["server"] \in Seq(Sends("server"))
    /\ conn \in Nat /\ tap \in BOOLEAN
    /\ \A k \in parted : k \in Nat /\ k <= conn

LEMMA TalkReacts ==
    ASSUME NEW e \in Ends, st[e] \in States(e), NEW s \in Talk, NEW r \in Reactions(e, s)
    PROVE  \/ /\ st[e] = Rest(e) /\ r.state = st[e]
              /\ r.sent \in {<<>>, <<RST>>}
           \/ /\ st[e] # Rest(e) /\ r.state = Finned(Acked(e, st[e], s), s)
              /\ r.sent = <<>> \/ \E b \in BOOLEAN : r.sent = <<ACK(b)>>
<1> DEFINE state == st[e]
           next  == Finned(Acked(e, state, s), s)
<1>1. "RST" \notin s.flags /\ s # SYN /\ s # SYNACK
  BY SegmentFacts
<1>2. CASE state = Rest(e)
  <2>1. Reactions(e, s) = Unexpected(state, s)
    BY <1>1, <1>2 DEF Reactions, OnTalk
  <2> QED BY <1>2, <2>1 DEF Unexpected, Reaction
<1>3. CASE state # Rest(e)
  <2> DEFINE sent == IF "FIN" \in s.flags \/ s.payload > 0 THEN <<ACK(HasFin(next))>> ELSE <<>>
  <2>1. Reactions(e, s) = {Reaction(next, sent)}
    BY <1>1, <1>3 DEF Reactions, OnTalk
  <2>2. HasFin(next) \in BOOLEAN
    BY DEF HasFin
  <2>3. sent = <<>> \/ \E b \in BOOLEAN : sent = <<ACK(b)>>
    BY <2>2
  <2> HIDE DEF sent, next
  <2>4. r.state = next /\ r.sent = sent
    BY <2>1 DEF Reaction
  <2> QED BY <1>3, <2>3, <2>4 DEF next
<1> QED BY <1>2, <1>3

LEMMA AckedFinned ==
    ASSUME NEW e \in Ends, NEW state \in States(e), NEW s
    PROVE  LET next == Finned(Acked(e, state, s), s) IN
           /\ next \in States(e)
           /\ next = "syn_sent" => state = "syn_sent"
           /\ next # "syn_rcvd"
           /\ next \in {"fin_wait_1", "fin_wait_2"} => state \in {"fin_wait_1", "fin_wait_2"}
           /\ state = "syn_rcvd" => next \in {"established", "close_wait"}
           /\ state = Rest(e) => next = Rest(e)
<1>1. e = "client" \/ e = "server"
  BY TwoEnds
<1>2. /\ Acked(e, state, s) \in States(e)
      /\ Acked(e, state, s) = "syn_sent" => state = "syn_sent"
      /\ Acked(e, state, s) # "syn_rcvd"
      /\ Acked(e, state, s) \in {"fin_wait_1", "fin_wait_2"}
            => state \in {"fin_wait_1", "fin_wait_2"}
      /\ state = "syn_rcvd" => Acked(e, state, s) = "established"
      /\ state = Rest(e) => Acked(e, state, s) = Rest(e)
  BY <1>1 DEF Acked, States, Opened, Rest
<1>3. ASSUME NEW a \in States(e)
      PROVE  /\ Finned(a, s) \in States(e)
             /\ Finned(a, s) = "syn_sent" => a = "syn_sent"
             /\ Finned(a, s) = "syn_rcvd" => a = "syn_rcvd"
             /\ Finned(a, s) \in {"fin_wait_1", "fin_wait_2"} => a \in {"fin_wait_1", "fin_wait_2"}
             /\ a = "established" => Finned(a, s) \in {"established", "close_wait"}
             /\ a = Rest(e) => Finned(a, s) = Rest(e)
  BY <1>1 DEF Finned, States, Opened, Rest
<1> QED BY <1>2, <1>3

LEMMA ClientReacts ==
    ASSUME TcpState, NEW s \in Sends("server"), NEW r \in Reactions("client", s)
    PROVE  /\ r.state \in States("client")
           /\ r.sent = <<>> \/ \E x \in Talk \cup {RST} : r.sent = <<x>> /\ x.payload = 0
           /\ r.state = "syn_sent" => st["client"] = "syn_sent" /\ s \notin {SYNACK, RST}
<1> DEFINE state == st["client"]
<1>1. state \in States("client") /\ Rest("client") = "closed" /\ "client" \in Ends
  BY TwoEnds DEF TcpState, Rest
<1>2. \A b \in BOOLEAN : ACK(b) \in Talk /\ ACK(b).payload = 0
  BY DEF Talk, ACK, Segment
<1>3. RST.payload = 0
  BY SegmentFacts
<1>4. CASE s = RST
  <2>1. Reactions("client", s) = {Reaction("closed", <<>>)}
    BY <1>1, <1>4, SegmentFacts DEF Reactions
  <2> QED BY <1>1, <2>1 DEF Reaction, States
<1>5. CASE s = SYNACK /\ state = "syn_sent"
  <2>1. "RST" \notin s.flags /\ s # SYN
    BY <1>5, SegmentFacts
  <2>2. PICK ack : ack = ACK(FALSE)
    OBVIOUS
  <2>3. ack \in Talk /\ ack.payload = 0
    BY <1>2, <2>2
  <2>4. Reactions("client", s) = {Reaction("established", <<ack>>)}
    BY <1>1, <1>5, <2>1, <2>2 DEF Reactions, OnSynAck
  <2>5. r.state = "established" /\ r.sent = <<ack>>
    BY <2>4 DEF Reaction
  <2>6. "established" \in States("client")
    BY DEF States, Opened
  <2> QED BY <2>3, <2>5, <2>6
<1>6. CASE s = SYNACK /\ state \notin {"syn_sent", "closed"}
  <2>1. "RST" \notin s.flags /\ s # SYN
    BY <1>6, SegmentFacts
  <2>2. Reactions("client", s) = {Reaction(state, <<ACK(HasFin(state))>>)}
    BY <1>1, <1>6, <2>1 DEF Reactions, OnSynAck
  <2>3. HasFin(state) \in BOOLEAN
    BY DEF HasFin
  <2> QED BY <1>1, <1>2, <1>6, <2>2, <2>3 DEF Reaction
<1>7. CASE s = SYNACK /\ state = "closed"
  <2>1. "RST" \notin s.flags /\ s # SYN
    BY <1>7, SegmentFacts
  <2>2. Reactions("client", s) = Unexpected(state, SYNACK)
    BY <1>1, <1>7, <2>1 DEF Reactions, OnSynAck
  <2> QED BY <1>1, <1>3, <1>7, <2>2, SegmentFacts DEF Unexpected, Reaction
<1>8. CASE s \in Talk
  <2>1. \/ /\ state = "closed" /\ r.state = state /\ r.sent \in {<<>>, <<RST>>}
        \/ /\ state # "closed" /\ r.state = Finned(Acked("client", state, s), s)
           /\ r.sent = <<>> \/ \E b \in BOOLEAN : r.sent = <<ACK(b)>>
    BY <1>1, <1>8, TalkReacts
  <2>2. s \notin {SYNACK, RST}
    BY <1>8, SegmentFacts
  <2>3. r.state \in States("client") /\ (r.state = "syn_sent" => state = "syn_sent")
    BY <1>1, <2>1, AckedFinned
  <2> QED BY <1>2, <1>3, <2>1, <2>2, <2>3
<1> QED BY <1>4, <1>5, <1>6, <1>7, <1>8 DEF Sends

LEMMA ServerReacts ==
    ASSUME TcpState, NEW s \in Sends("client"), NEW r \in Reactions("server", s)
    PROVE  LET state == st["server"]
               opens == /\ state = "syn_rcvd" /\ s \in Talk
                        /\ r.state \in {"established", "close_wait"}
           IN
           /\ r.state \in States("server")
           /\ r.sent = <<>> \/ \E x \in Talk \cup {RST, SYNACK} :
                                  r.sent = <<x>> /\ x.payload = 0 /\ "FIN" \notin x.flags
           /\ r.sent = <<SYNACK>> => s = SYN
           /\ r.state = "syn_rcvd" => state = "syn_rcvd" \/ s = SYN
           /\ r.state \notin Unopened => state \notin Unopened \/ opens
           /\ \A x \in Talk : r.sent = <<x>> => state \notin Unopened \/ opens
           /\ r.state \in {"fin_wait_1", "fin_wait_2"} => state \in {"fin_wait_1", "fin_wait_2"}
<1> DEFINE state == st["server"]
<1>1. state \in States("server") /\ Rest("server") = "listen" /\ "server" \in Ends
  BY TwoEnds DEF TcpState, Rest
<1>2. \A b \in BOOLEAN : ACK(b) \in Talk /\ ACK(b).payload = 0 /\ "FIN" \notin ACK(b).flags
  BY DEF Talk, ACK, Segment
<1>3. /\ RST.payload = 0 /\ "FIN" \notin RST.flags
      /\ SYNACK.payload = 0 /\ "FIN" \notin SYNACK.flags
      /\ SYNACK \notin Talk /\ RST \notin Talk /\ SYN \notin Talk /\ SYNACK # RST
  BY SegmentFacts
<1>4. CASE s = RST
  <2>1. Reactions("server", s) = {Reaction("listen", <<>>)}
    BY <1>1, <1>4, SegmentFacts DEF Reactions
  <2> QED BY <1>1, <2>1 DEF Reaction, States, Unopened
<1>5. CASE s = SYN /\ state = "listen"
  <2>1. "RST" \notin s.flags /\ s # SYNACK
    BY <1>5, SegmentFacts
  <2>2. Reactions("server", s) = {Reaction("syn_rcvd", <<SYNACK>>)} \cup Unexpected(state, SYN)
    BY <1>1, <1>5, <2>1 DEF Reactions, OnSyn
  <2>3. r \in {Reaction("syn_rcvd", <<SYNACK>>), Reaction("listen", <<>>),
              Reaction("listen", <<RST>>)}
    BY <1>5, <2>2 DEF Unexpected
  <2> QED BY <1>1, <1>3, <1>5, <2>3 DEF Reaction, States, Unopened
<1>6. CASE s = SYN /\ state = "syn_rcvd"
  <2>1. "RST" \notin s.flags /\ s # SYNACK
    BY <1>6, SegmentFacts
  <2>2. Reactions("server", s) = {Reaction(state, <<SYNACK>>)}
    BY <1>1, <1>6, <2>1 DEF Reactions, OnSyn
  <2> QED BY <1>1, <1>3, <1>6, <2>2 DEF Reaction, States, Unopened
<1>7. CASE s = SYN /\ state \notin {"listen", "syn_rcvd"}
  <2>1. "RST" \notin s.flags /\ s # SYNACK
    BY <1>7, SegmentFacts
  <2>2. Reactions("server", s) = Unexpected(state, SYN)
    BY <1>1, <1>7, <2>1 DEF Reactions, OnSyn
  <2>3. r \in {Reaction(state, <<>>), Reaction(state, <<RST>>)}
    BY <2>2 DEF Unexpected
  <2> QED BY <1>1, <1>3, <1>7, <2>3 DEF Reaction, Unopened
<1>8. CASE s \in Talk
  <2>1. \/ /\ state = "listen" /\ r.state = state /\ r.sent \in {<<>>, <<RST>>}
        \/ /\ state # "listen" /\ r.state = Finned(Acked("server", state, s), s)
           /\ r.sent = <<>> \/ \E b \in BOOLEAN : r.sent = <<ACK(b)>>
    BY <1>1, <1>8, TalkReacts
  <2>2. CASE state = "listen"
    BY <1>1, <1>3, <2>1, <2>2 DEF Unopened
  <2>3. CASE state # "listen"
    <3>1. /\ r.state \in States("server") /\ r.state # "syn_rcvd"
          /\ r.state \in {"fin_wait_1", "fin_wait_2"} => state \in {"fin_wait_1", "fin_wait_2"}
          /\ state = "syn_rcvd" => r.state \in {"established", "close_wait"}
      BY <1>1, <2>1, <2>3, AckedFinned
    <3>2. r.sent = <<>> \/ \E b \in BOOLEAN : r.sent = <<ACK(b)>>
      BY <2>1, <2>3
    <3>3. r.sent # <<SYNACK>>
      BY <1>2, <1>3, <3>2
    <3>4. state \notin Unopened \/ state = "syn_rcvd"
      BY <2>3 DEF Unopened
    <3> QED BY <1>2, <1>8, <3>1, <3>2, <3>3, <3>4
  <2> QED BY <2>2, <2>3
<1> QED BY <1>4, <1>5, <1>6, <1>7, <1>8 DEF Sends

-----------------------------------------------------------------------------
(* A step of one endpoint, in terms of what the properties turn on *)

Asking == st["client"] = "syn_sent" \/ HasSyn(wire["client"])
Early  == Asking \/ st["server"] = "syn_rcvd"

\* Until the client has its answer, nothing but SYNs and their answers is on
\* the wire; and until the server has opened, nothing is closed.
EndInv ==
    /\ TcpState
    /\ st["client"] = "syn_sent" => OnlySyns(wire["client"]) /\ Replies(wire["server"])
    /\ Asking => st["server"] \in Unopened
    /\ SynsFirst(wire["client"])
    /\ st["server"] \notin Unopened => conn \in accepted
    /\ Early => conn \notin parted

Captured(e, out, k) ==
    IF tap /\ out # <<>> THEN Add(PacketFrom(e, out[1]), 0) /\ of' = Append(of, k)
    ELSE UNCHANGED <<vars, of>>

\* e sends out and takes at most one segment off its own wire.
Wires(e, out) ==
    /\ out = <<>> \/ \E s \in Sends(e) : out = <<s>>
    /\ wire' \in [Ends -> Seq(Segments)]
    /\ wire'[e] = wire[e] \o out
    /\ \/ wire'[Peer(e)] = wire[Peer(e)]
       \/ wire[Peer(e)] # <<>> /\ wire'[Peer(e)] = Tail(wire[Peer(e)])

Turn(e, out) ==
    /\ Wires(e, out) /\ Captured(e, out, conn)
    /\ st' \in [Ends -> States("client") \cup States("server")]
    /\ st'[e] \in States(e) /\ st'[Peer(e)] = st[Peer(e)]
    /\ conn' = conn /\ tap' = tap

Closing == {"fin_wait_1", "fin_wait_2"}

ClientMove(out) ==
    /\ Turn("client", out)
    /\ st'["client"] = "syn_sent" => st["client"] = "syn_sent" /\ out \in {<<>>, <<SYN>>}
    /\ out = <<SYN>> => st["client"] = "syn_sent" /\ st'["client"] = "syn_sent"
    /\ accepted' = accepted
    /\ \/ parted' = parted
       \/ parted' = parted \cup {conn} /\ st["server"] \in Closing

Heard(S) ==
    /\ wire["client"] # <<>> /\ Head(wire["client"]) \in S
    /\ wire'["client"] = Tail(wire["client"])

\* The server has opened, or does so now.
Opening == st["server"] \notin Unopened \/ (Heard(Talk) /\ conn \in accepted')

ServerMove(out) ==
    /\ Turn("server", out)
    /\ st'["server"] \notin Unopened => Opening
    /\ \A s \in Talk : out = <<s>> => Opening
    /\ st'["server"] = "syn_rcvd" => st["server"] = "syn_rcvd" \/ Heard({SYN})
    /\ out = <<SYNACK>> => st["server"] = "syn_rcvd" \/ Heard({SYN})
    /\ \A s \in Talk : out = <<s>> /\ "FIN" \in s.flags =>
          st["server"] \notin Unopened /\ st'["server"] \notin Unopened
    /\ st'["server"] \in Closing =>
          st["server"] \in Closing \/ \E s \in Talk : out = <<s>> /\ "FIN" \in s.flags
    /\ accepted' \in {accepted, accepted \cup {conn}}
    /\ \/ parted' = parted
       \/ /\ parted' = parted \cup {conn}
          /\ st["server"] \notin Unopened /\ st'["server"] \notin Unopened
          /\ \E s \in Talk : out = <<s>> /\ "FIN" \in s.flags

LEMMA Peers == Peer("client") = "server" /\ Peer("server") = "client"
BY DEF Peer

LEMMA OneSegment ==
    ASSUME NEW a, NEW b
    PROVE  (<<a>> = <<b>> <=> a = b) /\ <<a>> # <<>> /\ <<a>>[1] = a
OBVIOUS

LEMMA TransmitTurn ==
    ASSUME TcpState, NEW e \in Ends, NEW out, NEW inbound, NEW k,
           out = <<>> \/ \E s \in Sends(e) : out = <<s>>,
           \/ inbound = wire[Peer(e)]
           \/ wire[Peer(e)] # <<>> /\ inbound = Tail(wire[Peer(e)]),
           Transmit(e, out, inbound, k)
    PROVE  Wires(e, out) /\ Captured(e, out, k) /\ tap' = tap /\ wire'[Peer(e)] = inbound
<1>1. Peer(e) \in Ends /\ Peer(e) # e
  BY TwoEnds DEF Peer
<1>2. wire' = [w \in Ends |-> IF w = e THEN wire[e] \o out ELSE inbound]
  BY DEF Transmit
<1>3. wire'[e] = wire[e] \o out /\ wire'[Peer(e)] = inbound
  BY <1>1, <1>2
<1>4. out \in Seq(Segments)
  <2>1. ASSUME NEW s \in Sends(e), out = <<s>> PROVE out \in Seq(Segments)
    <3>1. s \in Segments
      BY SendsFacts
    <3> QED BY <2>1, <3>1
  <2>2. out = <<>> => out \in Seq(Segments)
    OBVIOUS
  <2> QED BY <2>1, <2>2
<1>5. wire[e] \o out \in Seq(Segments)
  BY <1>4, ConcatProperties DEF TcpState
<1>6. inbound \in Seq(Segments)
  BY <1>1, HeadTailProperties DEF TcpState
<1>7. \A w \in Ends : w = e \/ w = Peer(e)
  BY TwoEnds DEF Peer
<1>8. wire' \in [Ends -> Seq(Segments)]
  BY <1>2, <1>5, <1>6
<1>9. Captured(e, out, k) /\ tap' = tap
  BY DEF Transmit, Captured
<1> QED BY <1>3, <1>8, <1>9 DEF Wires

\* What an endpoint says of its own accord.
LEMMA SpeakTurn ==
    ASSUME TcpState, NEW e \in Ends, NEW state \in States(e), NEW s \in Sends(e),
           Speak(e, state, s)
    PROVE  /\ Wires(e, <<s>>) /\ Captured(e, <<s>>, conn)
           /\ st' \in [Ends -> States("client") \cup States("server")]
           /\ st'[e] = state /\ st'[Peer(e)] = st[Peer(e)]
           /\ conn' = conn /\ tap' = tap /\ accepted' = accepted
<1>1. Peer(e) \in Ends /\ Peer(e) # e
  BY TwoEnds DEF Peer
<1>2. /\ st' = [st EXCEPT ![e] = state]
      /\ conn' = conn /\ accepted' = accepted
      /\ Transmit(e, <<s>>, wire[Peer(e)], conn)
  BY DEF Speak
<1>3. Wires(e, <<s>>) /\ Captured(e, <<s>>, conn) /\ tap' = tap
  BY <1>2, TransmitTurn
<1>4. st[Peer(e)] \in States("client") \cup States("server")
      /\ States(e) \subseteq States("client") \cup States("server")
  BY <1>1, TwoEnds DEF TcpState
<1>5. st' \in [Ends -> States("client") \cup States("server")]
      /\ st'[e] = state /\ st'[Peer(e)] = st[Peer(e)]
  BY <1>1, <1>2, <1>4 DEF TcpState
<1> QED BY <1>2, <1>3, <1>5

LEMMA TalkFacts ==
    /\ \A b \in BOOLEAN : /\ ACK(b) \in Talk /\ DATA(b) \in Talk /\ FIN(b) \in Talk
                          /\ "FIN" \notin DATA(b).flags
                          /\ FIN(b).payload = 0 /\ "FIN" \in FIN(b).flags
    /\ \A state : HasFin(state) \in BOOLEAN
<1>1. \A b \in BOOLEAN : ACK(b) \in Talk /\ DATA(b) \in Talk /\ FIN(b) \in Talk
  BY DEF Talk
<1>2. \A b \in BOOLEAN : /\ "FIN" \notin DATA(b).flags
                         /\ FIN(b).payload = 0 /\ "FIN" \in FIN(b).flags
  BY DEF DATA, FIN, Segment
<1>3. \A state : HasFin(state) \in BOOLEAN
  BY DEF HasFin
<1> QED BY <1>1, <1>2, <1>3

LEMMA SentAgain ==
    ASSUME NEW e \in Ends, NEW state \in States(e), state \in DOMAIN Unanswered
    PROVE  /\ state = "syn_sent" => e = "client" /\ Unanswered[state] = SYN
           /\ state = "syn_rcvd" => e = "server" /\ Unanswered[state] = SYNACK
           /\ state \notin {"syn_sent", "syn_rcvd"} =>
                 state \notin Unopened /\ \E b \in BOOLEAN : Unanswered[state] = FIN(b)
           /\ Unanswered[state] \in Sends(e)
<1>1. DOMAIN Unanswered = {"syn_sent", "syn_rcvd", "fin_wait_1", "closing", "last_ack"}
  BY DEF Unanswered
<1>2. e = "client" \/ e = "server"
  BY TwoEnds
<1>3. /\ state = "syn_sent" => e = "client" /\ Unanswered[state] = SYN
      /\ state = "syn_rcvd" => e = "server" /\ Unanswered[state] = SYNACK
  BY <1>1, <1>2 DEF Unanswered, States, Opened
<1>4. ASSUME state \notin {"syn_sent", "syn_rcvd"}
      PROVE  state \notin Unopened /\ \E b \in BOOLEAN : Unanswered[state] = FIN(b)
  <2>1. state = "fin_wait_1" => Unanswered[state] = FIN(FALSE)
    BY DEF Unanswered
  <2>2. PICK b \in BOOLEAN : b = TRUE
    OBVIOUS
  <2>4. state \in {"closing", "last_ack"} => Unanswered[state] = FIN(b)
    <3>1. FIN(b) = FIN(TRUE)
      BY <2>2, Zenon
    <3>2. Unanswered["closing"] = FIN(TRUE) /\ Unanswered["last_ack"] = FIN(TRUE)
      BY DEF Unanswered
    <3> QED BY <3>1, <3>2, Zenon
  <2>3. state \in {"fin_wait_1", "closing", "last_ack"}
    BY <1>1, <1>4
  <2> QED BY <2>1, <2>3, <2>4 DEF Unopened
<1>5. Unanswered[state] \in Sends(e)
  BY <1>2, <1>3, <1>4, TalkFacts, SendsFacts
<1> QED BY <1>3, <1>4, <1>5

LEMMA ClientMoves ==
    ASSUME EndInv,
           \/ Receive("client") \/ Say("client") \/ Hangup("client")
           \/ Abort("client") \/ Resend("client") \/ GiveUp("client")
    PROVE  \E out : ClientMove(out)
<1> DEFINE state == st["client"]
<1> USE Peers
<1>1. TcpState /\ "client" \in Ends /\ state \in States("client")
  BY TwoEnds DEF EndInv, TcpState
<1>2. /\ \A s \in Talk : s \in Sends("client") /\ s # SYN
      /\ RST \in Sends("client") /\ SYN \in Sends("client") /\ RST # SYN
      /\ RST.payload = 0 /\ SYN.payload = 0
  BY <1>1, SendsFacts, SegmentFacts
<1>3. CASE Receive("client")
  <2> DEFINE from == wire["server"]
  <2>1. from # <<>> /\ from \in Seq(Sends("server"))
    BY <1>1, <1>3 DEF Receive, TcpState
  <2>2. PICK s : s = Head(from)
    OBVIOUS
  <2>3. PICK r \in Reactions("client", s) :
           /\ st' = [st EXCEPT !["client"] = r.state]
           /\ Transmit("client", r.sent, Tail(from), conn)
    BY <1>3, <2>2 DEF Receive
  <2>4. s \in Sends("server")
    BY <2>1, <2>2, HeadTailProperties
  <2>5. /\ r.state \in States("client")
        /\ r.sent = <<>> \/ \E x \in Talk \cup {RST} : r.sent = <<x>> /\ x.payload = 0
        /\ r.state = "syn_sent" => state = "syn_sent" /\ s \notin {SYNACK, RST}
    BY <1>1, <2>4, ClientReacts
  <2>6. r.state # "syn_sent"
    <3>1. state = "syn_sent" => Replies(from)
      BY DEF EndInv
    <3>2. Replies(from) => s \in {SYNACK, RST}
      BY <2>1, <2>2, WireShrinks
    <3> QED BY <2>5, <3>1, <3>2
  <2>7. r.sent # <<SYN>>
    BY <1>2, <2>5, OneSegment
  <2>8. r.sent = <<>> \/ \E x \in Sends("client") : r.sent = <<x>>
    BY <1>2, <2>5
  <2>9. Wires("client", r.sent) /\ Captured("client", r.sent, conn) /\ tap' = tap
    BY <1>1, <2>1, <2>3, <2>8, TransmitTurn
  <2>10. /\ st' \in [Ends -> States("client") \cup States("server")]
         /\ st'["client"] = r.state /\ st'["server"] = st["server"]
    BY <1>1, <2>3, <2>5, TwoEnds DEF TcpState
  <2>11. /\ accepted' = accepted /\ conn' = conn /\ parted' = parted
    <3>1. state # "syn_rcvd"
      BY <1>1 DEF States, Opened
    <3> QED BY <1>3, <3>1 DEF Receive
  <2>12. Turn("client", r.sent)
    BY <2>5, <2>9, <2>10, <2>11 DEF Turn
  <2> QED BY <2>6, <2>7, <2>10, <2>11, <2>12 DEF ClientMove
<1>4. CASE Say("client")
  <2>1. PICK s : s = DATA(HasFin(state))
    OBVIOUS
  <2>2. s \in Talk
    BY <2>1, TalkFacts
  <2>3. Speak("client", state, s) /\ parted' = parted
        /\ state # "syn_sent"
    BY <1>4, <2>1 DEF Say
  <2>4. /\ Wires("client", <<s>>) /\ Captured("client", <<s>>, conn)
        /\ st' \in [Ends -> States("client") \cup States("server")]
        /\ st'["client"] = state /\ st'["server"] = st["server"]
        /\ conn' = conn /\ tap' = tap /\ accepted' = accepted
    BY <1>1, <1>2, <2>2, <2>3, SpeakTurn
  <2>5. Turn("client", <<s>>)
    BY <1>1, <2>3, <2>4 DEF Turn
  <2> QED BY <1>2, <2>2, <2>3, <2>4, <2>5, OneSegment DEF ClientMove
<1>5. CASE Hangup("client")
  <2>1. PICK s : s = FIN(HasFin(state))
    OBVIOUS
  <2>2. s \in Talk /\ s.payload = 0
    BY <2>1, TalkFacts
  <2>3. PICK next : next = IF state = "established" THEN "fin_wait_1" ELSE "last_ack"
    OBVIOUS
  <2>4. next \in States("client") /\ next # "syn_sent"
    BY <2>3 DEF States, Opened
  <2>5. /\ Speak("client", next, s)
        /\ parted' = IF st["server"] \in {"fin_wait_1", "fin_wait_2"}
                     THEN parted \cup {conn} ELSE parted
    BY <1>5, <2>1, <2>3 DEF Hangup
  <2>6. /\ Wires("client", <<s>>) /\ Captured("client", <<s>>, conn)
        /\ st' \in [Ends -> States("client") \cup States("server")]
        /\ st'["client"] = next /\ st'["server"] = st["server"]
        /\ conn' = conn /\ tap' = tap /\ accepted' = accepted
    BY <1>1, <1>2, <2>2, <2>4, <2>5, SpeakTurn
  <2>7. Turn("client", <<s>>)
    BY <1>1, <2>2, <2>4, <2>5, <2>6 DEF Turn
  <2> QED BY <1>2, <2>2, <2>4, <2>5, <2>6, <2>7, OneSegment DEF ClientMove, Closing
<1>6. CASE Abort("client")
  <2>1. Speak("client", "closed", RST) /\ parted' = parted
    BY <1>6 DEF Abort, Rest
  <2>2. "closed" \in States("client")
    BY DEF States
  <2>3. /\ Wires("client", <<RST>>) /\ Captured("client", <<RST>>, conn)
        /\ st' \in [Ends -> States("client") \cup States("server")]
        /\ st'["client"] = "closed" /\ st'["server"] = st["server"]
        /\ conn' = conn /\ tap' = tap /\ accepted' = accepted
    BY <1>1, <1>2, <2>1, <2>2, SpeakTurn
  <2>4. Turn("client", <<RST>>)
    BY <1>1, <1>2, <2>1, <2>2, <2>3 DEF Turn
  <2> QED BY <1>2, <2>1, <2>3, <2>4, OneSegment DEF ClientMove
<1>7. CASE Resend("client")
  <2>1. PICK s : s = Unanswered[state]
    OBVIOUS
  <2>2. state \in DOMAIN Unanswered /\ Speak("client", state, s) /\ parted' = parted
    BY <1>7, <2>1 DEF Resend
  <2>3. s \in Sends("client") /\ (s = SYN => state = "syn_sent")
        /\ (state = "syn_sent" => s = SYN)
    <3>1. state # "syn_rcvd"
      BY <1>1 DEF States, Opened
    <3> QED BY <1>1, <1>2, <2>1, <2>2, <3>1, SentAgain, TalkFacts
  <2>4. /\ Wires("client", <<s>>) /\ Captured("client", <<s>>, conn)
        /\ st' \in [Ends -> States("client") \cup States("server")]
        /\ st'["client"] = state /\ st'["server"] = st["server"]
        /\ conn' = conn /\ tap' = tap /\ accepted' = accepted
    BY <1>1, <2>2, <2>3, SpeakTurn
  <2>5. Turn("client", <<s>>)
    BY <1>1, <2>2, <2>4 DEF Turn
  <2> QED BY <2>2, <2>3, <2>4, <2>5, OneSegment DEF ClientMove
<1>8. CASE GiveUp("client")
  <2>1. /\ st' = [st EXCEPT !["client"] = "closed"]
        /\ UNCHANGED <<vars, wire, conn, extras, tap, of, accepted, parted>>
    BY <1>8 DEF GiveUp, Rest
  <2>2. "closed" \in States("client")
    BY DEF States
  <2>3. /\ st' \in [Ends -> States("client") \cup States("server")]
        /\ st'["client"] = "closed" /\ st'["server"] = st["server"]
    BY <1>1, <2>1, <2>2, TwoEnds DEF TcpState
  <2>4. wire["client"] \o <<>> = wire["client"]
    BY <1>1, ConcatEmptySeq DEF TcpState
  <2>5. Wires("client", <<>>) /\ Captured("client", <<>>, conn)
    BY <1>1, <2>1, <2>4 DEF Wires, Captured, TcpState
  <2>6. Turn("client", <<>>)
    BY <2>1, <2>2, <2>3, <2>5 DEF Turn
  <2>7. <<>> # <<SYN>>
    BY OneSegment
  <2> QED BY <2>1, <2>3, <2>6, <2>7 DEF ClientMove
<1> QED BY <1>3, <1>4, <1>5, <1>6, <1>7, <1>8

LEMMA ServerMoves ==
    ASSUME EndInv,
           \/ Receive("server") \/ Say("server") \/ Hangup("server")
           \/ Abort("server") \/ Resend("server") \/ GiveUp("server")
    PROVE  \E out : ServerMove(out)
<1> DEFINE state == st["server"]
<1> USE Peers
<1>1. TcpState /\ "server" \in Ends /\ state \in States("server")
  BY TwoEnds DEF EndInv, TcpState
<1>2. /\ \A s \in Talk : s \in Sends("server") /\ s # SYNACK /\ s # RST
      /\ RST \in Sends("server") /\ SYNACK \in Sends("server") /\ RST # SYNACK
      /\ RST \notin Talk /\ SYNACK \notin Talk
      /\ RST.payload = 0 /\ SYNACK.payload = 0
  BY <1>1, SendsFacts, SegmentFacts
<1>3. CASE Receive("server")
  <2> DEFINE from == wire["client"]
  <2>1. from # <<>> /\ from \in Seq(Sends("client"))
    BY <1>1, <1>3 DEF Receive, TcpState
  <2>2. PICK s : s = Head(from)
    OBVIOUS
  <2>3. PICK r \in Reactions("server", s) :
           /\ st' = [st EXCEPT !["server"] = r.state]
           /\ Transmit("server", r.sent, Tail(from), conn)
    BY <1>3, <2>2 DEF Receive
  <2>4. s \in Sends("client")
    BY <2>1, <2>2, HeadTailProperties
  <2> DEFINE opens == state = "syn_rcvd" /\ s \in Talk /\ r.state \in {"established", "close_wait"}
  <2>5. /\ r.state \in States("server")
        /\ r.sent = <<>> \/ \E x \in Talk \cup {RST, SYNACK} :
                               r.sent = <<x>> /\ x.payload = 0 /\ "FIN" \notin x.flags
        /\ r.sent = <<SYNACK>> => s = SYN
        /\ r.state = "syn_rcvd" => state = "syn_rcvd" \/ s = SYN
        /\ r.state \notin Unopened => state \notin Unopened \/ opens
        /\ \A x \in Talk : r.sent = <<x>> => state \notin Unopened \/ opens
        /\ r.state \in {"fin_wait_1", "fin_wait_2"} => state \in {"fin_wait_1", "fin_wait_2"}
    BY <1>1, <2>4, ServerReacts
  <2>6. r.sent = <<>> \/ \E x \in Sends("server") : r.sent = <<x>>
    BY <1>2, <2>5
  <2>7. /\ Wires("server", r.sent) /\ Captured("server", r.sent, conn) /\ tap' = tap
        /\ wire'["client"] = Tail(from)
    <3>1. PICK inbound : inbound = Tail(from)
      OBVIOUS
    <3>2. /\ Transmit("server", r.sent, inbound, conn)
          /\ wire["client"] # <<>> /\ inbound = Tail(wire["client"])
      BY <2>1, <2>3, <3>1
    <3>3. wire[Peer("server")] # <<>> /\ inbound = Tail(wire[Peer("server")])
      BY <3>2
    <3>4. /\ Wires("server", r.sent) /\ Captured("server", r.sent, conn) /\ tap' = tap
          /\ wire'[Peer("server")] = inbound
      BY <1>1, <2>6, <3>2, <3>3, TransmitTurn
    <3> QED BY <3>1, <3>4
  <2>8. /\ st' \in [Ends -> States("client") \cup States("server")]
        /\ st'["server"] = r.state /\ st'["client"] = st["client"]
    BY <1>1, <2>3, <2>5, TwoEnds DEF TcpState
  <2>9. conn' = conn /\ parted' = parted
    BY <1>3 DEF Receive
  <2>10. /\ accepted' \in {accepted, accepted \cup {conn}}
         /\ opens => conn \in accepted'
    BY <1>3, <2>8 DEF Receive
  <2>11. /\ s = SYN => Heard({SYN})
         /\ s \in Talk => Heard(Talk)
    BY <2>1, <2>2, <2>7 DEF Heard
  <2>12. opens => Opening
    BY <2>10, <2>11 DEF Opening
  <2> HIDE DEF opens
  <2>13. \A x \in Talk : r.sent = <<x>> => "FIN" \notin x.flags
    BY <2>5, OneSegment
  <2>14. Turn("server", r.sent)
    BY <2>5, <2>7, <2>8, <2>9 DEF Turn
  <2>15. /\ r.state \notin Unopened => Opening
         /\ \A x \in Talk : r.sent = <<x>> => Opening
    BY <2>5, <2>12 DEF Opening
  <2> QED BY <2>5, <2>8, <2>9, <2>10, <2>11, <2>13, <2>14, <2>15 DEF ServerMove, Closing
<1>4. CASE Say("server")
  <2>1. PICK s : s = DATA(HasFin(state))
    OBVIOUS
  <2>2. s \in Talk /\ "FIN" \notin s.flags
    BY <2>1, TalkFacts
  <2>3. Speak("server", state, s) /\ parted' = parted
        /\ state \in {"established", "close_wait"}
    BY <1>4, <2>1 DEF Say
  <2>4. /\ Wires("server", <<s>>) /\ Captured("server", <<s>>, conn)
        /\ st' \in [Ends -> States("client") \cup States("server")]
        /\ st'["server"] = state /\ st'["client"] = st["client"]
        /\ conn' = conn /\ tap' = tap /\ accepted' = accepted
    BY <1>1, <1>2, <2>2, <2>3, SpeakTurn
  <2>5. Turn("server", <<s>>)
    BY <1>1, <2>3, <2>4 DEF Turn
  <2>6. Opening /\ state \notin Unopened
    BY <2>3 DEF Opening, Unopened
  <2>7. \A x : <<s>> = <<x>> => x = s
    BY OneSegment
  <2> QED BY <1>2, <2>2, <2>3, <2>4, <2>5, <2>6, <2>7 DEF ServerMove, Closing
<1>5. CASE Hangup("server")
  <2>1. PICK s : s = FIN(HasFin(state))
    OBVIOUS
  <2>2. s \in Talk /\ s.payload = 0 /\ "FIN" \in s.flags
    BY <2>1, TalkFacts
  <2>3. PICK next : next = IF state = "established" THEN "fin_wait_1" ELSE "last_ack"
    OBVIOUS
  <2>4. next \in States("server") /\ next \notin Unopened
    BY <2>3 DEF States, Opened, Unopened
  <2>5. /\ Speak("server", next, s)
        /\ parted' \in {parted, parted \cup {conn}}
        /\ state \in {"established", "close_wait"}
    BY <1>5, <2>1, <2>3 DEF Hangup
  <2>6. /\ Wires("server", <<s>>) /\ Captured("server", <<s>>, conn)
        /\ st' \in [Ends -> States("client") \cup States("server")]
        /\ st'["server"] = next /\ st'["client"] = st["client"]
        /\ conn' = conn /\ tap' = tap /\ accepted' = accepted
    BY <1>1, <1>2, <2>2, <2>4, <2>5, SpeakTurn
  <2>7. Turn("server", <<s>>)
    BY <1>1, <2>2, <2>4, <2>5, <2>6 DEF Turn
  <2>8. Opening /\ state \notin Unopened
    BY <2>5 DEF Opening, Unopened
  <2>9. \A x : <<s>> = <<x>> => x = s
    BY OneSegment
  <2>10. "syn_rcvd" \in Unopened
    BY DEF Unopened
  <2> QED BY <1>2, <2>2, <2>4, <2>5, <2>6, <2>7, <2>8, <2>9, <2>10 DEF ServerMove
<1>6. CASE Abort("server")
  <2>1. Speak("server", "listen", RST) /\ parted' = parted
    BY <1>6 DEF Abort, Rest
  <2>2. "listen" \in States("server") /\ "listen" \in Unopened
    BY DEF States, Unopened
  <2>3. /\ Wires("server", <<RST>>) /\ Captured("server", <<RST>>, conn)
        /\ st' \in [Ends -> States("client") \cup States("server")]
        /\ st'["server"] = "listen" /\ st'["client"] = st["client"]
        /\ conn' = conn /\ tap' = tap /\ accepted' = accepted
    BY <1>1, <1>2, <2>1, <2>2, SpeakTurn
  <2>4. Turn("server", <<RST>>)
    BY <1>1, <1>2, <2>1, <2>2, <2>3 DEF Turn
  <2>5. \A x : <<RST>> = <<x>> => x = RST
    BY OneSegment
  <2> QED BY <1>2, <2>1, <2>2, <2>3, <2>4, <2>5 DEF ServerMove, Closing
<1>7. CASE Resend("server")
  <2>1. PICK s : s = Unanswered[state]
    OBVIOUS
  <2>2. state \in DOMAIN Unanswered /\ Speak("server", state, s) /\ parted' = parted
    BY <1>7, <2>1 DEF Resend
  <2>3. /\ s \in Sends("server") /\ (s = SYNACK => state = "syn_rcvd")
        /\ s \in Talk => state \notin Unopened
    <3>1. state # "syn_sent"
      BY <1>1 DEF States, Opened
    <3> QED BY <1>1, <1>2, <2>1, <2>2, <3>1, SentAgain, TalkFacts
  <2>4. /\ Wires("server", <<s>>) /\ Captured("server", <<s>>, conn)
        /\ st' \in [Ends -> States("client") \cup States("server")]
        /\ st'["server"] = state /\ st'["client"] = st["client"]
        /\ conn' = conn /\ tap' = tap /\ accepted' = accepted
    BY <1>1, <2>2, <2>3, SpeakTurn
  <2>5. Turn("server", <<s>>)
    BY <1>1, <2>2, <2>4 DEF Turn
  <2>6. \A x : <<s>> = <<x>> => x = s
    BY OneSegment
  <2>7. state \notin Unopened => Opening
    BY DEF Opening
  <2> QED BY <2>2, <2>3, <2>4, <2>5, <2>6, <2>7 DEF ServerMove
<1>8. CASE GiveUp("server")
  <2>1. /\ st' = [st EXCEPT !["server"] = "listen"]
        /\ UNCHANGED <<vars, wire, conn, extras, tap, of, accepted, parted>>
    BY <1>8 DEF GiveUp, Rest
  <2>2. "listen" \in States("server") /\ "listen" \in Unopened
    BY DEF States, Unopened
  <2>3. /\ st' \in [Ends -> States("client") \cup States("server")]
        /\ st'["server"] = "listen" /\ st'["client"] = st["client"]
    BY <1>1, <2>1, <2>2, TwoEnds DEF TcpState
  <2>4. wire["server"] \o <<>> = wire["server"]
    BY <1>1, ConcatEmptySeq DEF TcpState
  <2>5. Wires("server", <<>>) /\ Captured("server", <<>>, conn)
    BY <1>1, <2>1, <2>4 DEF Wires, Captured, TcpState
  <2>6. Turn("server", <<>>)
    BY <2>1, <2>2, <2>3, <2>5 DEF Turn
  <2>7. \A x : <<>> # <<x>>
    BY OneSegment
  <2> QED BY <2>1, <2>2, <2>3, <2>6, <2>7 DEF ServerMove, Closing
<1> QED BY <1>3, <1>4, <1>5, <1>6, <1>7, <1>8

-----------------------------------------------------------------------------
(* EndInv is an invariant *)

\* What becomes of a wire that is sent on, and of one that is read.
LEMMA SentOn ==
    ASSUME NEW T, NEW w \in Seq(T), NEW out, out = <<>> \/ \E s \in T : out = <<s>>
    PROVE  /\ w \o out \in Seq(T)
           /\ HasSyn(w \o out) => HasSyn(w) \/ out = <<SYN>>
           /\ OnlySyns(w) /\ out \in {<<>>, <<SYN>>} => OnlySyns(w \o out)
           /\ SynsFirst(w) /\ (out = <<SYN>> => OnlySyns(w)) => SynsFirst(w \o out)
           /\ Replies(w) /\ out \in {<<>>, <<SYNACK>>, <<RST>>} => Replies(w \o out)
<1>1. CASE out = <<>>
  <2>1. w \o out = w
    BY <1>1, ConcatEmptySeq
  <2> QED BY <2>1
<1>2. ASSUME NEW s \in T, out = <<s>>
      PROVE  /\ w \o out \in Seq(T)
             /\ HasSyn(w \o out) => HasSyn(w) \/ out = <<SYN>>
             /\ OnlySyns(w) /\ out \in {<<>>, <<SYN>>} => OnlySyns(w \o out)
             /\ SynsFirst(w) /\ (out = <<SYN>> => OnlySyns(w)) => SynsFirst(w \o out)
             /\ Replies(w) /\ out \in {<<>>, <<SYNACK>>, <<RST>>} => Replies(w \o out)
  <2>1. /\ w \o <<s>> \in Seq(T)
        /\ HasSyn(w \o <<s>>) => HasSyn(w) \/ s = SYN
        /\ OnlySyns(w) /\ s = SYN => OnlySyns(w \o <<s>>)
        /\ SynsFirst(w) /\ (s = SYN => OnlySyns(w)) => SynsFirst(w \o <<s>>)
        /\ Replies(w) /\ s \in {SYNACK, RST} => Replies(w \o <<s>>)
    BY WireGrows
  <2>2. out # <<>> /\ \A x : out = <<x>> <=> x = s
    BY <1>2, OneSegment
  <2> QED BY <1>2, <2>1, <2>2
<1> QED BY <1>1, <1>2

LEMMA ReadFrom ==
    ASSUME NEW T, NEW w \in Seq(T), NEW v, v = w \/ (w # <<>> /\ v = Tail(w))
    PROVE  /\ v \in Seq(T)
           /\ HasSyn(v) => HasSyn(w)
           /\ OnlySyns(w) => OnlySyns(v)
           /\ SynsFirst(w) => SynsFirst(v)
           /\ Replies(w) => Replies(v)
BY WireShrinks

LEMMA SendsAreSegments ==
    ASSUME NEW e \in Ends
    PROVE  Seq(Sends(e)) \subseteq Seq(Segments)
BY SendsFacts, SeqMonotonic

LEMMA ClientEnds ==
    ASSUME EndInv, NEW out, ClientMove(out)
    PROVE  EndInv'
<1> USE Peers
<1>1. PICK w, v, w2, v2 : w = wire["client"] /\ v = wire["server"]
                          /\ w2 = wire'["client"] /\ v2 = wire'["server"]
  OBVIOUS
<1>2. Turn("client", out) /\ Wires("client", out)
  BY DEF ClientMove, Turn
<1>3. /\ w \in Seq(Sends("client")) /\ v \in Seq(Sends("server"))
      /\ out = <<>> \/ \E s \in Sends("client") : out = <<s>>
      /\ w2 = w \o out
      /\ v2 = v \/ (v # <<>> /\ v2 = Tail(v))
  BY <1>1, <1>2 DEF EndInv, TcpState, Wires
<1>4. /\ w2 \in Seq(Sends("client"))
      /\ HasSyn(w2) => HasSyn(w) \/ out = <<SYN>>
      /\ OnlySyns(w) /\ out \in {<<>>, <<SYN>>} => OnlySyns(w2)
      /\ SynsFirst(w) /\ (out = <<SYN>> => OnlySyns(w)) => SynsFirst(w2)
  BY <1>3, SentOn
<1>5. v2 \in Seq(Sends("server")) /\ (Replies(v) => Replies(v2))
  BY <1>3, ReadFrom
<1>6. /\ st' \in [Ends -> States("client") \cup States("server")]
      /\ st'["client"] \in States("client") /\ st'["server"] = st["server"]
      /\ wire' \in [Ends -> Seq(Segments)]
      /\ conn' = conn /\ tap' = tap
      /\ accepted' = accepted
  BY <1>2 DEF Turn, Wires, ClientMove
<1>7. st'["client"] = "syn_sent" => st["client"] = "syn_sent" /\ out \in {<<>>, <<SYN>>}
  BY DEF ClientMove
<1>8. out = <<SYN>> => st["client"] = "syn_sent" /\ st'["client"] = "syn_sent"
  BY DEF ClientMove
<1>9. \/ parted' = parted
      \/ parted' = parted \cup {conn} /\ st["server"] \in Closing
  BY DEF ClientMove
<1>10. Asking' => Asking
  BY <1>1, <1>4, <1>7, <1>8 DEF Asking
<1>11. TcpState'
  <2>1. \A k \in parted' : k \in Nat /\ k <= conn'
    BY <1>6, <1>9 DEF EndInv, TcpState
  <2> QED BY <1>1, <1>4, <1>5, <1>6, <2>1 DEF EndInv, TcpState
<1>12. st'["client"] = "syn_sent" => OnlySyns(w2) /\ Replies(v2)
  BY <1>1, <1>4, <1>5, <1>7 DEF EndInv
<1>13. Asking' => st'["server"] \in Unopened
  BY <1>6, <1>10 DEF EndInv
<1>14. SynsFirst(w2)
  BY <1>1, <1>4, <1>8 DEF EndInv
<1>15. st'["server"] \notin Unopened => conn' \in accepted'
  BY <1>6 DEF EndInv
<1>16. Early' => conn' \notin parted'
  <2>1. Early' => Early
    BY <1>6, <1>10 DEF Early
  <2>2. Early => st["server"] \notin Closing
    BY DEF EndInv, Early, Unopened, Closing
  <2> QED BY <1>6, <1>9, <2>1, <2>2 DEF EndInv
<1> QED BY <1>1, <1>11, <1>12, <1>13, <1>14, <1>15, <1>16 DEF EndInv

\* What the server has just heard, when nothing but SYNs can be on the wire.
LEMMA HeardFacts ==
    ASSUME EndInv
    PROVE  /\ Heard({SYN}) => Asking
           /\ Heard(Talk) => st["client"] # "syn_sent" /\ ~HasSyn(wire'["client"])
<1>1. PICK w : w = wire["client"]
  OBVIOUS
<1>2. w \in Seq(Sends("client"))
  BY <1>1 DEF EndInv, TcpState
<1>3. w # <<>> => /\ HasSyn(Tail(w)) /\ SynsFirst(w) => Head(w) = SYN
                  /\ Head(w) = SYN => HasSyn(w)
                  /\ OnlySyns(w) => Head(w) = SYN
  BY <1>2, WireShrinks
<1>4. SYN \notin Talk
  BY SegmentFacts
<1>5. Heard({SYN}) => Asking
  BY <1>1, <1>3 DEF Heard, Asking
<1>6. ASSUME Heard(Talk)
      PROVE  st["client"] # "syn_sent" /\ ~HasSyn(wire'["client"])
  <2>1. w # <<>> /\ Head(w) # SYN /\ wire'["client"] = Tail(w)
    BY <1>1, <1>4, <1>6 DEF Heard
  <2>2. SynsFirst(w) /\ (st["client"] = "syn_sent" => OnlySyns(w))
    BY <1>1 DEF EndInv
  <2> QED BY <1>3, <2>1, <2>2
<1> QED BY <1>5, <1>6

LEMMA ServerEnds ==
    ASSUME EndInv, NEW out, ServerMove(out)
    PROVE  EndInv'
<1> USE Peers
<1>1. PICK w, v, w2, v2 : w = wire["client"] /\ v = wire["server"]
                          /\ w2 = wire'["client"] /\ v2 = wire'["server"]
  OBVIOUS
<1>2. Turn("server", out) /\ Wires("server", out)
  BY DEF ServerMove, Turn
<1>3. /\ w \in Seq(Sends("client")) /\ v \in Seq(Sends("server"))
      /\ out = <<>> \/ \E s \in Sends("server") : out = <<s>>
      /\ v2 = v \o out
      /\ w2 = w \/ (w # <<>> /\ w2 = Tail(w))
  BY <1>1, <1>2 DEF EndInv, TcpState, Wires
<1>4. /\ v2 \in Seq(Sends("server"))
      /\ Replies(v) /\ out \in {<<>>, <<SYNACK>>, <<RST>>} => Replies(v2)
  BY <1>3, SentOn
<1>5. /\ w2 \in Seq(Sends("client"))
      /\ HasSyn(w2) => HasSyn(w)
      /\ OnlySyns(w) => OnlySyns(w2)
      /\ SynsFirst(w) => SynsFirst(w2)
  BY <1>3, ReadFrom
<1>6. /\ st' \in [Ends -> States("client") \cup States("server")]
      /\ st'["server"] \in States("server") /\ st'["client"] = st["client"]
      /\ wire' \in [Ends -> Seq(Segments)]
      /\ conn' = conn /\ tap' = tap
  BY <1>2 DEF Turn, Wires
<1>7. Asking' => Asking
  BY <1>1, <1>5, <1>6 DEF Asking
<1>8. ASSUME Asking', Opening PROVE FALSE
  <2>1. st["server"] \in Unopened
    BY <1>7, <1>8 DEF EndInv
  <2>2. Heard(Talk)
    BY <1>8, <2>1 DEF Opening
  <2>3. st'["client"] # "syn_sent" /\ ~HasSyn(wire'["client"])
    BY <1>6, <2>2, HeardFacts
  <2> QED BY <1>8, <2>3 DEF Asking
<1>9. /\ accepted \subseteq accepted'
      /\ \/ parted' = parted
         \/ /\ parted' = parted \cup {conn}
            /\ st["server"] \notin Unopened /\ st'["server"] \notin Unopened
  BY DEF ServerMove
<1>10. TcpState'
  <2>1. \A k \in parted' : k \in Nat /\ k <= conn'
    BY <1>6, <1>9 DEF EndInv, TcpState
  <2> QED BY <1>1, <1>4, <1>5, <1>6, <2>1 DEF EndInv, TcpState
<1>11. st'["client"] = "syn_sent" => OnlySyns(w2) /\ Replies(v2)
  <2> SUFFICES ASSUME st'["client"] = "syn_sent" PROVE OnlySyns(w2) /\ Replies(v2)
    OBVIOUS
  <2>1. Asking'
    BY DEF Asking
  <2>2. \A s \in Talk : out # <<s>>
    BY <1>8, <2>1 DEF ServerMove
  <2>3. out \in {<<>>, <<SYNACK>>, <<RST>>}
    BY <1>3, <2>2 DEF Sends
  <2> QED BY <1>1, <1>4, <1>5, <1>6, <2>3 DEF EndInv
<1>12. Asking' => st'["server"] \in Unopened
  BY <1>8 DEF ServerMove
<1>13. SynsFirst(w2)
  BY <1>1, <1>5 DEF EndInv
<1>14. st'["server"] \notin Unopened => conn' \in accepted'
  <2>1. st'["server"] \notin Unopened => Opening
    BY DEF ServerMove
  <2> QED BY <1>6, <1>9, <2>1 DEF EndInv, Opening
<1>15. Early' => conn' \notin parted'
  <2>1. Early' => Early
    <3>1. st'["server"] = "syn_rcvd" => st["server"] = "syn_rcvd" \/ Asking
      BY HeardFacts DEF ServerMove
    <3> QED BY <1>7, <3>1 DEF Early
  <2>2. Early => st["server"] \in Unopened
    BY DEF EndInv, Early, Unopened
  <2> QED BY <1>6, <1>9, <2>1, <2>2 DEF EndInv
<1> QED BY <1>1, <1>10, <1>11, <1>12, <1>13, <1>14, <1>15 DEF EndInv

LEMMA BeginEnds ==
    ASSUME EndInv, NEW state \in {"syn_sent", "closed"}, Begin(state)
    PROVE  /\ EndInv'
           /\ Captured("client", <<SYN>>, conn + 1) /\ tap' = tap /\ conn' = conn + 1
           /\ accepted' = accepted /\ parted' = parted
           /\ st'["client"] = state /\ st'["server"] = "listen"
<1> USE Peers
<1>1. TcpState /\ Ends = {"client", "server"} /\ conn \in Nat
  BY TwoEnds DEF EndInv, TcpState
<1>2. /\ wire["client"] = <<>> /\ wire["server"] = <<>>
      /\ st' = [client |-> state, server |-> "listen"]
      /\ Transmit("client", <<SYN>>, <<>>, conn + 1)
      /\ conn' = conn + 1 /\ accepted' = accepted /\ parted' = parted
  BY <1>1 DEF Begin
<1>3. SYN \in Sends("client") /\ SYN \in Segments
  BY <1>1, SendsFacts
<1>4. Captured("client", <<SYN>>, conn + 1) /\ tap' = tap
  BY <1>2 DEF Transmit, Captured
<1>5. PICK syn : syn = <<SYN>>
  OBVIOUS
<1>6. /\ syn \in Seq(Sends("client")) /\ syn \in Seq(Segments) /\ <<>> \o syn = syn
      /\ SynsFirst(syn) /\ OnlySyns(syn)
  <2>1. Len(<<SYN>>) = 1 /\ <<SYN>>[1] = SYN /\ <<>> \o <<SYN>> = <<SYN>>
    OBVIOUS
  <2> QED BY <1>3, <1>5, <2>1 DEF SynsFirst, OnlySyns
<1>7. wire' = [x \in Ends |-> IF x = "client" THEN syn ELSE <<>>]
  <2>1. wire' = [x \in Ends |-> IF x = "client" THEN wire["client"] \o <<SYN>> ELSE <<>>]
    BY <1>2 DEF Transmit
  <2> QED BY <1>2, <1>5, <1>6, <2>1
<1>8. /\ wire' \in [Ends -> Seq(Segments)] /\ wire'["client"] = syn /\ wire'["server"] = <<>>
      /\ wire'["server"] \in Seq(Sends("server"))
  BY <1>1, <1>6, <1>7
<1>9. /\ st'["client"] = state /\ st'["server"] = "listen"
      /\ st' \in [Ends -> States("client") \cup States("server")]
      /\ state \in States("client") /\ "listen" \in States("server") /\ "listen" \in Unopened
  <2>1. state \in States("client") /\ "listen" \in States("server") /\ "listen" \in Unopened
    BY DEF States, Unopened
  <2> QED BY <1>1, <1>2, <2>1
<1>10. conn + 1 \notin parted
  BY <1>1 DEF TcpState
<1>11. TcpState'
  BY <1>1, <1>2, <1>4, <1>6, <1>8, <1>9 DEF TcpState
<1>12. Replies(wire'["server"])
  BY <1>8, EmptyWire
<1>13. EndInv'
  BY <1>2, <1>6, <1>8, <1>9, <1>10, <1>11, <1>12 DEF EndInv
<1> QED BY <1>2, <1>4, <1>9, <1>13

LEMMA StartEnds ==
    ASSUME EndInv, StartCapture
    PROVE  EndInv'
BY DEF EndInv, StartCapture, TcpState, Asking, Early

LEMMA InitEnds ==
    ASSUME TInit
    PROVE  EndInv
<1>1. /\ st = [e \in Ends |-> Rest(e)] /\ wire = [e \in Ends |-> <<>>]
      /\ conn = 0 /\ tap \in BOOLEAN /\ parted = {}
  BY DEF TInit
<1>2. /\ st["client"] = "closed" /\ st["server"] = "listen"
      /\ wire["client"] = <<>> /\ wire["server"] = <<>>
  BY <1>1, TwoEnds DEF Rest
<1>3. "closed" \in States("client") /\ "listen" \in States("server") /\ "listen" \in Unopened
  BY DEF States, Unopened
<1>4. st \in [Ends -> States("client") \cup States("server")]
  BY <1>1, <1>2, <1>3, TwoEnds
<1>5. TcpState
  <2>1. \A S : <<>> \in Seq(S)
    OBVIOUS
  <2>2. wire \in [Ends -> Seq(Segments)]
    BY <1>1, <2>1
  <2> QED BY <1>1, <1>2, <1>3, <1>4, <2>1, <2>2 DEF TcpState
<1>6. ~Asking /\ SynsFirst(wire["client"])
  BY <1>2, EmptyWire DEF Asking
<1> QED BY <1>1, <1>2, <1>3, <1>5, <1>6 DEF EndInv

-----------------------------------------------------------------------------
(* What the capture shows *)

Recorded ==
    /\ of \in Seq(Nat) /\ Len(of) = Len(log)
    /\ Len(log) > 0 => tap /\ of[Len(log)] = conn
    /\ \A x \in 1..Len(log) :
          of[x] <= conn /\ \E e \in Ends : \E s \in Sends(e) : Pkt(x) = PacketFrom(e, s)

InTurn == \A x, y \in 1..Len(log) : x < y => of[x] <= of[y]

\* Between the frames of two connections there is the SYN of the later one.
Begun ==
    \A x, y \in 1..Len(log) : of[x] < of[y] =>
        \E z \in 1..Len(log) : x < z /\ z <= y /\ of[z] = of[y] /\ SynAt(z)

\* A FIN before a handshake is that of a client the server has not heard.
NoReopen ==
    \A x, y \in 1..Len(log) :
        x < y /\ of[x] = of[y] /\ FinAt(x) /\ SynAt(y) => IsSynAck(Pkt(y)) /\ ~FromServer(x)

\* What a server says but for handshakes and resets, it says when it has accepted.
Accepting ==
    \A x \in 1..Len(log) : FromServer(x) /\ ~SynAt(x) /\ ~RstAt(x) => of[x] \in accepted

\* While it is being opened no side has closed it that could not have.
Unclosed ==
    /\ st["client"] = "syn_sent" =>
          \A x \in 1..Len(log) : of[x] = conn => ~FinAt(x)
    /\ Early => \A x \in 1..Len(log) : of[x] = conn /\ FinAt(x) => ~FromServer(x)

\* A server whose handshake is in the capture has its FIN there.
Answered(k) ==
    (\E x \in 1..Len(log) : of[x] = k /\ IsSynAck(Pkt(x))) =>
        \E y \in 1..Len(log) : of[y] = k /\ FinAt(y) /\ FromServer(y)

Parting ==
    /\ st["server"] \in Closing => Answered(conn)
    /\ \A k \in parted : Answered(k)

LogInv ==
    /\ Recorded /\ InTurn /\ Begun /\ NoReopen
    /\ Accepting /\ Unclosed /\ Parting

\* A frame of connection k comes to the log.
Logged(p, k) ==
    /\ Len(log) \in Nat /\ Len(log') = Len(log) + 1
    /\ of' \in Seq(Nat) /\ Len(of') = Len(log')
    /\ \A x \in 1..Len(log) : log'[x].packet = log[x].packet /\ of'[x] = of[x]
    /\ log'[Len(log) + 1].packet = p /\ of'[Len(log) + 1] = k

LEMMA CapturedIs ==
    ASSUME IInv, Recorded, Single, NEW e \in Ends, NEW out,
           out = <<>> \/ \E s \in Sends(e) : out = <<s>>,
           NEW k \in Nat, Captured(e, out, k)
    PROVE  \/ /\ UNCHANGED <<vars, of>>
              /\ out = <<>> \/ Len(log) = 0
           \/ /\ \E s \in Sends(e) : out = <<s>> /\ Logged(PacketFrom(e, s), k)
              /\ tap /\ \E p \in Packets : Add(p, 0) /\ Canon(p) = Link /\ Class(p) = "tcp"
<1>1. CASE ~tap \/ out = <<>>
  <2>1. UNCHANGED <<vars, of>>
    BY <1>1 DEF Captured
  <2>2. ~tap => Len(log) = 0
    <3>1. Len(log) \in Nat
      BY LenProperties DEF IInv, TypeOK
    <3> QED BY <3>1 DEF Recorded
  <2> QED BY <1>1, <2>1, <2>2
<1>2. CASE tap /\ out # <<>>
  <2>1. PICK s \in Sends(e) : out = <<s>>
    BY <1>2
  <2>2. out[1] = s
    BY <2>1, OneSegment
  <2>3. PICK p : p = PacketFrom(e, s)
    OBVIOUS
  <2>4. Add(p, 0) /\ of' = Append(of, k)
    BY <1>2, <2>2, <2>3 DEF Captured
  <2>5. s \in Segments
    BY SendsFacts
  <2>6. p \in Packets /\ 0 \in Times /\ Canon(p) = Link /\ Class(p) = "tcp"
    BY <2>3, <2>5, PacketOf
  <2>7. Arrive(p, 0)
    BY <2>4 DEF Add, AddFirst, AddNext, AddReuse
  <2>8. Extends(log', log, 0, p)
    BY <2>6, <2>7, LogGrows DEF IInv
  <2>9. /\ of' \in Seq(Nat) /\ Len(of') = Len(of) + 1
        /\ \A x \in 1..Len(of) : of'[x] = of[x]
        /\ of'[Len(of) + 1] = k
    BY <2>4, AppendProperties DEF Recorded
  <2>10. Logged(p, k)
    BY <2>8, <2>9 DEF Logged, Extends, Recorded
  <2> QED BY <1>2, <2>1, <2>3, <2>4, <2>6, <2>10
<1> QED BY <1>1, <1>2

-----------------------------------------------------------------------------
(* What one more frame does to that *)

LEMMA RecordedStep ==
    ASSUME Recorded, NEW e \in Ends, NEW s \in Sends(e), Logged(PacketFrom(e, s), conn'),
           conn \in Nat, conn' \in Nat, conn <= conn', tap'
    PROVE  Recorded'
<1>1. PICK p : p = PacketFrom(e, s)
  OBVIOUS
<1>2. /\ Len(log) \in Nat /\ Len(log') = Len(log) + 1
      /\ of' \in Seq(Nat) /\ Len(of') = Len(log')
      /\ \A x \in 1..Len(log) : log'[x].packet = log[x].packet /\ of'[x] = of[x]
      /\ log'[Len(log) + 1].packet = p /\ of'[Len(log) + 1] = conn'
  BY <1>1 DEF Logged
<1>3. \A x \in 1..Len(log) : of[x] \in Nat
  BY ElementOfSeq DEF Recorded
<1>4. ASSUME NEW x \in 1..Len(log')
      PROVE  of'[x] <= conn' /\ \E d \in Ends : \E t \in Sends(d) : Pkt(x)' = PacketFrom(d, t)
  <2>1. CASE x \in 1..Len(log)
    <3>1. of[x] <= conn /\ \E d \in Ends : \E t \in Sends(d) : log[x].packet = PacketFrom(d, t)
      BY <2>1 DEF Recorded, Pkt
    <3>2. of'[x] <= conn'
      BY <1>2, <1>3, <2>1, <3>1
    <3> QED BY <1>2, <2>1, <3>1, <3>2 DEF Pkt
  <2>2. CASE x = Len(log) + 1
    BY <1>1, <1>2, <2>2 DEF Pkt
  <2> QED BY <1>2, <2>1, <2>2
<1> QED BY <1>2, <1>4 DEF Recorded

LEMMA OldType ==
    ASSUME Recorded
    PROVE  \A x \in 1..Len(log) : of[x] \in Nat
BY ElementOfSeq DEF Recorded

LEMMA InTurnStep ==
    ASSUME Recorded, InTurn, NEW p, NEW k \in Nat, Logged(p, k), conn \in Nat, conn <= k
    PROVE  InTurn'
<1> SUFFICES ASSUME NEW x \in 1..Len(log'), NEW y \in 1..Len(log'), x < y
             PROVE  of'[x] <= of'[y]
  BY DEF InTurn
<1>1. CASE y \in 1..Len(log)
  BY <1>1 DEF InTurn, Logged
<1>2. CASE y = Len(log) + 1
  <2>1. x \in 1..Len(log) /\ of'[x] = of[x] /\ of'[y] = k
    BY <1>2 DEF Logged
  <2>2. of[x] <= conn /\ of[x] \in Nat
    BY <2>1, OldType DEF Recorded
  <2> QED BY <2>1, <2>2
<1> QED BY <1>1, <1>2 DEF Logged

LEMMA BegunStep ==
    ASSUME Recorded, Begun, NEW p, NEW k \in Nat, Logged(p, k), conn \in Nat, conn <= k,
           k = conn \/ IsSyn(p)
    PROVE  Begun'
<1>1. /\ Len(log) \in Nat /\ Len(log') = Len(log) + 1
      /\ \A x \in 1..Len(log) : Pkt(x)' = Pkt(x) /\ of'[x] = of[x]
      /\ \A x : x = Len(log) + 1 => Pkt(x)' = p /\ of'[x] = k
  BY DEF Logged, Pkt
<1> SUFFICES ASSUME NEW x \in 1..Len(log'), NEW y \in 1..Len(log'), of'[x] < of'[y]
             PROVE  \E z \in 1..Len(log') : x < z /\ z <= y /\ of'[z] = of'[y] /\ SynAt(z)'
  BY DEF Begun
<1>2. ASSUME NEW b \in 1..Len(log), x \in 1..Len(log), of[x] < of[b], b <= y, of[b] = of'[y]
      PROVE  \E z \in 1..Len(log') : x < z /\ z <= y /\ of'[z] = of'[y] /\ SynAt(z)'
  <2>1. PICK z \in 1..Len(log) : x < z /\ z <= b /\ of[z] = of[b] /\ SynAt(z)
    BY <1>2 DEF Begun
  <2>2. of'[z] = of'[y] /\ SynAt(z)' /\ z \in 1..Len(log') /\ z <= y
    BY <1>1, <1>2, <2>1 DEF SynAt
  <2> QED BY <2>1, <2>2
<1>3. CASE x \in 1..Len(log) /\ y \in 1..Len(log)
  BY <1>1, <1>2, <1>3
<1>4. CASE x \in 1..Len(log) /\ y = Len(log) + 1
  <2>1. CASE IsSyn(p)
    <3>1. SynAt(y)' /\ x < y
      BY <1>1, <1>4, <2>1 DEF SynAt
    <3> QED BY <3>1
  <2>2. CASE k = conn
    <3>1. PICK n : n = Len(log)
      OBVIOUS
    <3>2. n \in 1..Len(log) /\ n <= y /\ of[n] = of'[y]
      BY <1>1, <1>4, <2>2, <3>1 DEF Recorded
    <3>3. of[x] < of[n]
      BY <1>1, <1>4, <3>2
    <3> QED BY <1>2, <1>4, <3>2, <3>3
  <2> QED BY <2>1, <2>2
<1>5. CASE x = Len(log) + 1
  <2>1. CASE y \in 1..Len(log)
    <3>1. of[y] <= conn /\ of[y] \in Nat /\ k \in Nat
      BY <2>1, OldType DEF Recorded
    <3>2. k < of[y]
      BY <1>1, <1>5, <2>1
    <3> QED BY <3>1, <3>2
  <2>2. CASE y = Len(log) + 1
    BY <1>1, <1>5, <2>2
  <2> QED BY <1>1, <2>1, <2>2
<1> QED BY <1>1, <1>3, <1>4, <1>5

LEMMA NoReopenStep ==
    ASSUME NoReopen, NEW p, NEW k, Logged(p, k),
           IsSyn(p) => \A x \in 1..Len(log) :
               of[x] = k /\ FinAt(x) => IsSynAck(p) /\ ~FromServer(x)
    PROVE  NoReopen'
<1>1. /\ Len(log) \in Nat /\ Len(log') = Len(log) + 1
      /\ \A x \in 1..Len(log) : Pkt(x)' = Pkt(x) /\ of'[x] = of[x]
      /\ \A x : x = Len(log) + 1 => Pkt(x)' = p /\ of'[x] = k
  BY DEF Logged, Pkt
<1> SUFFICES ASSUME NEW x \in 1..Len(log'), NEW y \in 1..Len(log'),
                    x < y, of'[x] = of'[y], FinAt(x)', SynAt(y)'
             PROVE  IsSynAck(Pkt(y)') /\ ~FromServer(x)'
  BY DEF NoReopen, IsSynAck
<1>2. x \in 1..Len(log) /\ FinAt(x) /\ (FromServer(x)' <=> FromServer(x))
  BY <1>1 DEF FinAt, FromServer
<1>3. CASE y \in 1..Len(log)
  <2>1. SynAt(y) /\ of[x] = of[y]
    BY <1>1, <1>2, <1>3 DEF SynAt
  <2>2. IsSynAck(Pkt(y)) /\ ~FromServer(x)
    BY <1>2, <1>3, <2>1 DEF NoReopen
  <2> QED BY <1>1, <1>2, <1>3, <2>2
<1>4. CASE y = Len(log) + 1
  <2>1. IsSyn(p) /\ of[x] = k /\ Pkt(y)' = p
    BY <1>1, <1>2, <1>4 DEF SynAt
  <2> QED BY <1>2, <2>1
<1> QED BY <1>1, <1>3, <1>4

LEMMA AcceptingStep ==
    ASSUME Accepting, NEW p, NEW k, Logged(p, k), accepted \subseteq accepted',
           Source(p) = Server /\ ~IsSyn(p) /\ "RST" \notin p.flags => k \in accepted'
    PROVE  Accepting'
<1>1. /\ Len(log) \in Nat /\ Len(log') = Len(log) + 1
      /\ \A x \in 1..Len(log) : Pkt(x)' = Pkt(x) /\ of'[x] = of[x]
      /\ \A x : x = Len(log) + 1 => Pkt(x)' = p /\ of'[x] = k
  BY DEF Logged, Pkt
<1> SUFFICES ASSUME NEW x \in 1..Len(log'), FromServer(x)', ~SynAt(x)', ~RstAt(x)'
             PROVE  of'[x] \in accepted'
  BY DEF Accepting
<1>2. CASE x \in 1..Len(log)
  <2>1. FromServer(x) /\ ~SynAt(x) /\ ~RstAt(x)
    BY <1>1, <1>2 DEF FromServer, SynAt, RstAt
  <2> QED BY <1>1, <1>2, <2>1 DEF Accepting
<1>3. CASE x = Len(log) + 1
  <2>1. Source(p) = Server /\ ~IsSyn(p) /\ "RST" \notin p.flags /\ of'[x] = k
    BY <1>1, <1>3 DEF FromServer, SynAt, RstAt
  <2> QED BY <2>1
<1> QED BY <1>1, <1>2, <1>3

LEMMA AnsweredStep ==
    ASSUME NEW j, Answered(j), NEW p, NEW k, Logged(p, k), j = k => ~IsSynAck(p)
    PROVE  Answered(j)'
<1>1. /\ Len(log) \in Nat /\ Len(log') = Len(log) + 1
      /\ \A x \in 1..Len(log) : Pkt(x)' = Pkt(x) /\ of'[x] = of[x]
      /\ \A x : x = Len(log) + 1 => Pkt(x)' = p /\ of'[x] = k
  BY DEF Logged, Pkt
<1> SUFFICES ASSUME NEW x \in 1..Len(log'), of'[x] = j, IsSynAck(Pkt(x)')
             PROVE  \E y \in 1..Len(log') : of'[y] = j /\ FinAt(y)' /\ FromServer(y)'
  BY DEF Answered, IsSynAck
<1>2. x \in 1..Len(log)
  BY <1>1
<1>3. of[x] = j /\ IsSynAck(Pkt(x))
  BY <1>1, <1>2
<1>4. PICK y \in 1..Len(log) : of[y] = j /\ FinAt(y) /\ FromServer(y)
  BY <1>2, <1>3 DEF Answered
<1>5. y \in 1..Len(log') /\ of'[y] = j /\ FinAt(y)' /\ FromServer(y)'
  BY <1>1, <1>4 DEF FinAt, FromServer
<1> QED BY <1>5

LEMMA AnsweredNow ==
    ASSUME NEW p, NEW k, Logged(p, k), "FIN" \in p.flags, Source(p) = Server
    PROVE  Answered(k)'
<1>1. PICK y : y = Len(log) + 1
  OBVIOUS
<1>2. y \in 1..Len(log') /\ of'[y] = k /\ Pkt(y)' = p
  BY <1>1 DEF Logged, Pkt
<1>3. FinAt(y)' /\ FromServer(y)'
  BY <1>2 DEF FinAt, FromServer
<1> QED BY <1>2, <1>3 DEF Answered

\* Frames that are there already are not told apart by what comes after.
LEMMA FinsKept ==
    ASSUME NEW p, NEW k, Logged(p, k), NEW x \in 1..Len(log'), of'[x] = k, FinAt(x)'
    PROVE  \/ x \in 1..Len(log) /\ of[x] = k /\ FinAt(x) /\ (FromServer(x)' <=> FromServer(x))
           \/ "FIN" \in p.flags /\ (FromServer(x)' <=> Source(p) = Server)
<1>1. /\ Len(log) \in Nat /\ Len(log') = Len(log) + 1
      /\ \A y \in 1..Len(log) : Pkt(y)' = Pkt(y) /\ of'[y] = of[y]
      /\ \A y : y = Len(log) + 1 => Pkt(y)' = p /\ of'[y] = k
  BY DEF Logged, Pkt
<1>2. CASE x \in 1..Len(log)
  BY <1>1, <1>2 DEF FinAt, FromServer
<1>3. CASE x = Len(log) + 1
  BY <1>1, <1>3 DEF FinAt, FromServer
<1> QED BY <1>1, <1>2, <1>3

LEMMA FrameFacts ==
    ASSUME NEW e \in Ends, NEW s \in Sends(e), NEW p, p = PacketFrom(e, s)
    PROVE  /\ p.payload \in Nat /\ p.payload = s.payload /\ s \in Segments
           /\ Source(p) = Server <=> e = "server"
           /\ "FIN" \in p.flags => s \in Talk /\ "FIN" \in s.flags
           /\ IsSyn(p) => s \in {SYN, SYNACK}
           /\ IsSynAck(p) <=> s = SYNACK
           /\ ~IsSyn(p) /\ "RST" \notin p.flags => s \in Talk
<1>1. s \in Segments
  BY SendsFacts
<1>2. /\ p.flags = s.flags /\ p.payload = s.payload
      /\ Source(p) = (IF e = "client" THEN Client ELSE Server)
  BY <1>1, PacketOf
<1>3. Source(p) = Server <=> e = "server"
  BY <1>2, TwoEnds
<1>4. s \in Talk \cup {SYN, SYNACK, RST}
  BY DEF Sends
<1>5. s.payload \in Nat
  BY <1>4, SegmentFacts
<1>6. /\ "FIN" \in s.flags => s \in Talk
      /\ "SYN" \in s.flags => s \in {SYN, SYNACK}
      /\ {"SYN", "ACK"} \subseteq s.flags <=> s = SYNACK
      /\ "SYN" \notin s.flags /\ "RST" \notin s.flags => s \in Talk
  <2>1. CASE s \in Talk
    BY <2>1, SegmentFacts
  <2>2. CASE s = SYN
    BY <2>2, SegmentFacts
  <2>3. CASE s = SYNACK
    BY <2>3, SegmentFacts
  <2>4. CASE s = RST
    BY <2>4, SegmentFacts
  <2> QED BY <1>4, <2>1, <2>2, <2>3, <2>4
<1> QED BY <1>1, <1>2, <1>3, <1>5, <1>6 DEF IsSyn, IsSynAck

LEMMA NoLog == log = <<>> /\ of = <<>> => LogInv
<1> SUFFICES ASSUME log = <<>>, of = <<>> PROVE LogInv
  OBVIOUS
<1>1. Len(log) = 0 /\ 1..Len(log) = {}
  OBVIOUS
<1>2. Recorded
  BY <1>1 DEF Recorded
<1>3. InTurn /\ Begun /\ NoReopen
  BY <1>1 DEF InTurn, Begun, NoReopen
<1>4. Accepting /\ Unclosed /\ Parting
  BY <1>1 DEF Accepting, Unclosed, Parting, Answered
<1> QED BY <1>2, <1>3, <1>4 DEF LogInv

LEMMA NoLogYet ==
    ASSUME IInv, Recorded, Len(log) = 0, UNCHANGED <<vars, of>>
    PROVE  LogInv'
<1>1. log' = <<>> /\ of' = <<>>
  BY EmptySeq DEF IInv, TypeOK, Recorded, vars
<1>2. (log = <<>> /\ of = <<>> => LogInv)'
  BY NoLog, PTL
<1> QED BY <1>1, <1>2

LEMMA QuietLog ==
    ASSUME LogInv, UNCHANGED <<vars, of>>, conn' = conn, tap' = tap,
           accepted \subseteq accepted',
           st'["client"] = "syn_sent" => st["client"] = "syn_sent",
           Early' => Early,
           st'["server"] \in Closing => Answered(conn),
           \A k \in parted' : Answered(k)
    PROVE  LogInv'
<1>1. log' = log /\ of' = of
  BY DEF vars
<1>2. \A x : Pkt(x)' = Pkt(x)
  BY <1>1 DEF Pkt
<1>3. Recorded'
  BY <1>1, <1>2 DEF LogInv, Recorded
<1>4. InTurn' /\ Begun' /\ NoReopen'
  BY <1>1, <1>2 DEF LogInv, InTurn, Begun, NoReopen, SynAt, FinAt, FromServer
<1>5. Accepting'
  BY <1>1, <1>2 DEF LogInv, Accepting, SynAt, RstAt, FromServer
<1>6. Unclosed'
  BY <1>1, <1>2 DEF LogInv, Unclosed, FinAt, FromServer
<1>7. \A k : Answered(k) => Answered(k)'
  BY <1>1, <1>2 DEF Answered, FinAt, FromServer
<1>8. Parting'
  BY <1>7 DEF LogInv, Parting
<1> QED BY <1>3, <1>4, <1>5, <1>6, <1>8 DEF LogInv

LEMMA ClientLog ==
    ASSUME IInv, Single, EndInv, LogInv, NEW out, ClientMove(out)
    PROVE  LogInv'
<1>1. /\ Turn("client", out) /\ Wires("client", out) /\ Captured("client", out, conn)
      /\ conn' = conn /\ tap' = tap /\ st'["server"] = st["server"]
      /\ out = <<>> \/ \E s \in Sends("client") : out = <<s>>
  BY Peers DEF ClientMove, Turn, Wires
<1>2. conn \in Nat /\ "client" \in Ends
  BY <1>1, TwoEnds DEF EndInv, TcpState
<1>3. Early' => Early
  <2>1. PICK w, w2 : w = wire["client"] /\ w2 = wire'["client"]
    OBVIOUS
  <2>2. w \in Seq(Sends("client")) /\ w2 = w \o out
    BY <1>1, <2>1 DEF EndInv, TcpState, Wires
  <2>3. HasSyn(w2) => HasSyn(w) \/ out = <<SYN>>
    BY <1>1, <2>2, SentOn
  <2> QED BY <1>1, <2>1, <2>3 DEF Early, Asking, ClientMove
<1>4. Recorded /\ accepted' = accepted
  BY DEF LogInv, ClientMove
<1>5. st'["server"] \in Closing => Answered(conn)
  BY <1>1 DEF LogInv, Parting
<1>6. \A k \in parted' : Answered(k)
  BY <1>1 DEF LogInv, Parting, ClientMove
<1>7. CASE UNCHANGED <<vars, of>> /\ (out = <<>> \/ Len(log) = 0)
  <2>1. CASE Len(log) = 0
    BY <1>2, <1>4, <1>7, <2>1, NoLogYet
  <2>2. CASE out = <<>>
    <3>1. st'["client"] = "syn_sent" => st["client"] = "syn_sent"
      BY DEF ClientMove
    <3> QED BY <1>1, <1>2, <1>3, <1>4, <1>5, <1>6, <1>7, <3>1, QuietLog
  <2> QED BY <1>7, <2>1, <2>2
<1>8. ASSUME NEW s \in Sends("client"), out = <<s>>, tap, Logged(PacketFrom("client", s), conn)
      PROVE  LogInv'
  <2>1. PICK p : p = PacketFrom("client", s)
    OBVIOUS
  <2>2. Logged(p, conn)
    BY <1>8, <2>1
  <2>3. /\ p.payload \in Nat /\ p.payload = s.payload /\ s \in Segments
        /\ Source(p) = Server <=> "client" = "server"
        /\ "FIN" \in p.flags => s \in Talk /\ "FIN" \in s.flags
        /\ IsSyn(p) => s \in {SYN, SYNACK}
        /\ IsSynAck(p) <=> s = SYNACK
        /\ ~IsSyn(p) /\ "RST" \notin p.flags => s \in Talk
    BY <1>2, <2>1, FrameFacts
  <2>4. s # SYNACK /\ SYN \notin Talk /\ Source(p) # Server /\ ~IsSynAck(p)
    BY <2>3, SendsFacts, SegmentFacts
  <2>5. \A x : out = <<x>> <=> x = s
    BY <1>8, OneSegment
  <2>6. Recorded'
    BY <1>1, <1>2, <1>4, <1>8, RecordedStep
  <2>7. InTurn' /\ Begun'
    BY <1>2, <2>2, InTurnStep, BegunStep DEF LogInv
  <2>8. NoReopen'
    <3>1. IsSyn(p) => st["client"] = "syn_sent"
      BY <2>3, <2>4, <2>5 DEF ClientMove
    <3>2. IsSyn(p) => \A x \in 1..Len(log) : of[x] = conn => ~FinAt(x)
      BY <3>1 DEF LogInv, Unclosed
    <3> QED BY <2>2, <3>2, NoReopenStep DEF LogInv
  <2>9. Accepting'
    BY <1>4, <2>2, <2>4, AcceptingStep DEF LogInv
  <2>10. Unclosed'
    <3>1. ASSUME st'["client"] = "syn_sent", NEW x \in 1..Len(log'), of'[x] = conn', FinAt(x)'
          PROVE  FALSE
      <4>1. st["client"] = "syn_sent" /\ s = SYN
        BY <1>8, <2>5, <3>1, OneSegment DEF ClientMove
      <4>2. x \in 1..Len(log) /\ of[x] = conn /\ FinAt(x)
        BY <1>1, <2>2, <2>3, <2>4, <3>1, <4>1, FinsKept
      <4> QED BY <4>1, <4>2 DEF LogInv, Unclosed
    <3>2. ASSUME Early', NEW x \in 1..Len(log'), of'[x] = conn', FinAt(x)', FromServer(x)'
          PROVE  FALSE
      <4>1. x \in 1..Len(log) /\ of[x] = conn /\ FinAt(x) /\ FromServer(x)
        BY <1>1, <2>2, <2>4, <3>2, FinsKept
      <4> QED BY <1>3, <3>2, <4>1 DEF LogInv, Unclosed
    <3> QED BY <3>1, <3>2 DEF Unclosed
  <2>11. Parting'
    <3>1. \A k : Answered(k) => Answered(k)'
      BY <2>2, <2>4, AnsweredStep
    <3>2. PICK k : k = conn
      OBVIOUS
    <3>3. st'["server"] \in Closing => Answered(k)'
      BY <1>5, <3>1, <3>2
    <3>4. k = conn'
      BY <1>1, <3>2
    <3> QED BY <1>6, <3>1, <3>3, <3>4 DEF Parting
  <2> QED BY <2>6, <2>7, <2>8, <2>9, <2>10, <2>11 DEF LogInv
<1> QED BY <1>1, <1>2, <1>4, <1>7, <1>8, CapturedIs

LEMMA ServerLog ==
    ASSUME IInv, Single, EndInv, LogInv, NEW out, ServerMove(out)
    PROVE  LogInv'
<1>1. /\ Turn("server", out) /\ Wires("server", out) /\ Captured("server", out, conn)
      /\ conn' = conn /\ tap' = tap /\ st'["client"] = st["client"]
      /\ out = <<>> \/ \E s \in Sends("server") : out = <<s>>
  BY Peers DEF ServerMove, Turn, Wires
<1>2. conn \in Nat /\ "server" \in Ends
  BY <1>1, TwoEnds DEF EndInv, TcpState
<1>3. Early' => Early
  <2>1. PICK w, w2 : w = wire["client"] /\ w2 = wire'["client"]
    OBVIOUS
  <2>2. w \in Seq(Sends("client")) /\ (w2 = w \/ (w # <<>> /\ w2 = Tail(w)))
    BY <1>1, <2>1, Peers DEF EndInv, TcpState, Wires
  <2>3. HasSyn(w2) => HasSyn(w)
    BY <2>2, ReadFrom
  <2>4. st'["server"] = "syn_rcvd" => st["server"] = "syn_rcvd" \/ Asking
    BY HeardFacts DEF ServerMove
  <2> QED BY <1>1, <2>1, <2>3, <2>4 DEF Early, Asking
<1>4. Recorded /\ accepted \subseteq accepted'
  BY DEF LogInv, ServerMove
<1>5. Early => st["server"] \in Unopened /\ conn \notin parted
  BY DEF EndInv, Early, Unopened
<1>6. out = <<SYNACK>> => Early
  BY HeardFacts DEF ServerMove, Early
<1>7. CASE UNCHANGED <<vars, of>> /\ (out = <<>> \/ Len(log) = 0)
  <2>1. CASE Len(log) = 0
    BY <1>2, <1>4, <1>7, <2>1, NoLogYet
  <2>2. CASE out = <<>>
    <3>1. \A x : out # <<x>>
      BY <2>2, OneSegment
    <3>2. st'["server"] \in Closing => Answered(conn)
      BY <3>1 DEF ServerMove, LogInv, Parting
    <3>3. \A k \in parted' : Answered(k)
      BY <3>1 DEF ServerMove, LogInv, Parting
    <3> QED BY <1>1, <1>2, <1>3, <1>4, <1>7, <3>2, <3>3, QuietLog
  <2> QED BY <1>7, <2>1, <2>2
<1>8. ASSUME NEW s \in Sends("server"), out = <<s>>, tap, Logged(PacketFrom("server", s), conn)
      PROVE  LogInv'
  <2>1. PICK p : p = PacketFrom("server", s)
    OBVIOUS
  <2>2. Logged(p, conn)
    BY <1>8, <2>1
  <2>3. /\ p.payload \in Nat /\ p.payload = s.payload /\ s \in Segments
        /\ Source(p) = Server <=> "server" = "server"
        /\ "FIN" \in p.flags => s \in Talk /\ "FIN" \in s.flags
        /\ IsSyn(p) => s \in {SYN, SYNACK}
        /\ IsSynAck(p) <=> s = SYNACK
        /\ ~IsSyn(p) /\ "RST" \notin p.flags => s \in Talk
    BY <1>2, <2>1, FrameFacts
  <2>4. s # SYN /\ Source(p) = Server /\ (IsSyn(p) => IsSynAck(p))
    BY <2>3, SendsFacts
  <2>5. \A x : out = <<x>> <=> x = s
    BY <1>8, OneSegment
  <2>6. IsSynAck(p) => Early
    BY <1>6, <1>8, <2>3
  <2>7. "FIN" \in p.flags => st["server"] \notin Unopened
    BY <1>8, <2>3 DEF ServerMove
  <2>8. Recorded'
    BY <1>1, <1>2, <1>4, <1>8, RecordedStep
  <2>9. InTurn' /\ Begun'
    BY <1>2, <2>2, InTurnStep, BegunStep DEF LogInv
  <2>10. NoReopen'
    <3>1. IsSyn(p) => \A x \in 1..Len(log) :
             of[x] = conn /\ FinAt(x) => IsSynAck(p) /\ ~FromServer(x)
      BY <2>4, <2>6 DEF LogInv, Unclosed
    <3> QED BY <2>2, <3>1, NoReopenStep DEF LogInv
  <2>11. Accepting'
    <3>1. s \in Talk => Opening
      BY <1>8 DEF ServerMove
    <3>2. Opening => conn \in accepted'
      BY <1>4 DEF Opening, EndInv
    <3> QED BY <1>4, <2>2, <2>3, <3>1, <3>2, AcceptingStep DEF LogInv
  <2>12. Unclosed'
    <3>1. ASSUME st'["client"] = "syn_sent", NEW x \in 1..Len(log'), of'[x] = conn', FinAt(x)'
          PROVE  FALSE
      <4>1. "FIN" \notin p.flags
        BY <1>1, <2>7, <3>1 DEF EndInv, Asking
      <4>2. x \in 1..Len(log) /\ of[x] = conn /\ FinAt(x)
        BY <1>1, <2>2, <3>1, <4>1, FinsKept
      <4> QED BY <1>1, <3>1, <4>2 DEF LogInv, Unclosed
    <3>2. ASSUME Early', NEW x \in 1..Len(log'), of'[x] = conn', FinAt(x)', FromServer(x)'
          PROVE  FALSE
      <4>1. "FIN" \notin p.flags
        BY <1>3, <1>5, <2>7, <3>2
      <4>2. x \in 1..Len(log) /\ of[x] = conn /\ FinAt(x) /\ FromServer(x)
        BY <1>1, <2>2, <3>2, <4>1, FinsKept
      <4> QED BY <1>3, <3>2, <4>2 DEF LogInv, Unclosed
    <3> QED BY <3>1, <3>2 DEF Unclosed
  <2>13. Parting'
    <3>1. PICK k : k = conn /\ k = conn'
      BY <1>1
    <3>2. "FIN" \in p.flags => Answered(k)'
      BY <2>2, <2>4, <3>1, AnsweredNow
    <3>3. \A j : Answered(j) /\ ~Early => Answered(j)'
      BY <2>2, <2>6, AnsweredStep
    <3>4. \A j : Answered(j) /\ j # conn => Answered(j)'
      BY <2>2, AnsweredStep
    <3>5. (\E x \in Talk : out = <<x>> /\ "FIN" \in x.flags) => "FIN" \in p.flags
      <4>1. s.flags = p.flags
        BY <1>2, <2>1, <2>3, PacketOf
      <4> QED BY <2>5, <4>1
    <3>6. st'["server"] \in Closing => Answered(k)'
      <4>1. st["server"] \in Closing => Answered(k) /\ ~Early
        BY <1>5, <3>1 DEF LogInv, Parting, Closing, Unopened
      <4> QED BY <3>2, <3>3, <3>5, <4>1 DEF ServerMove
    <3>7. \A j \in parted' : Answered(j)'
      <4>1. \A j \in parted : Answered(j)'
        BY <1>5, <3>3, <3>4 DEF LogInv, Parting
      <4> QED BY <3>1, <3>2, <3>5, <4>1 DEF ServerMove
    <3> QED BY <3>1, <3>6, <3>7 DEF Parting
  <2> QED BY <2>8, <2>9, <2>10, <2>11, <2>12, <2>13 DEF LogInv
<1> QED BY <1>1, <1>2, <1>4, <1>7, <1>8, CapturedIs

LEMMA BeginLog ==
    ASSUME IInv, Single, EndInv, LogInv, NEW state \in {"syn_sent", "closed"}, Begin(state)
    PROVE  LogInv'
<1>1. /\ EndInv' /\ Captured("client", <<SYN>>, conn + 1) /\ tap' = tap /\ conn' = conn + 1
      /\ accepted' = accepted /\ parted' = parted
      /\ st'["client"] = state /\ st'["server"] = "listen"
  BY BeginEnds
<1>2. /\ conn \in Nat /\ conn + 1 \in Nat /\ conn' \in Nat /\ "client" \in Ends
      /\ SYN \in Sends("client")
      /\ \A k \in parted : k # conn + 1
  BY <1>1, TwoEnds, SendsFacts DEF EndInv, TcpState
<1>3. Recorded
  BY DEF LogInv
<1>4. CASE UNCHANGED <<vars, of>> /\ (<<SYN>> = <<>> \/ Len(log) = 0)
  BY <1>1, <1>2, <1>3, <1>4, OneSegment, NoLogYet
<1>5. ASSUME NEW s \in Sends("client"), <<SYN>> = <<s>>, tap,
             Logged(PacketFrom("client", s), conn + 1)
      PROVE  LogInv'
  <2>1. PICK p : p = PacketFrom("client", SYN)
    OBVIOUS
  <2>2. SYN = s
    BY <1>5, OneSegment
  <2>3. PICK k : k = conn + 1
    OBVIOUS
  <2>4. Logged(p, k) /\ k \in Nat /\ conn' = k /\ conn <= k /\ k # conn
    BY <1>1, <1>2, <1>5, <2>1, <2>2, <2>3
  <2>5. /\ p.payload = 0 /\ Source(p) # Server /\ IsSyn(p) /\ ~IsSynAck(p)
        /\ "FIN" \notin p.flags
    <3>1. /\ p.payload = SYN.payload
          /\ Source(p) = Server <=> "client" = "server"
          /\ "FIN" \in p.flags => SYN \in Talk
          /\ IsSynAck(p) <=> SYN = SYNACK
          /\ ~IsSyn(p) /\ "RST" \notin p.flags => SYN \in Talk
      BY <1>2, <2>1, FrameFacts
    <3>2. p.flags = SYN.flags
      BY <1>2, <2>1, SendsFacts, PacketOf
    <3> QED BY <3>1, <3>2, SegmentFacts
  <2>6. \A x \in 1..Len(log) : of[x] # k
    <3>1. \A x \in 1..Len(log) : of[x] <= conn /\ of[x] \in Nat
      BY <1>3, OldType DEF Recorded
    <3> QED BY <1>2, <2>3, <3>1
  <2>7. Recorded'
    <3>1. Logged(PacketFrom("client", SYN), conn')
      BY <2>1, <2>4
    <3>2. tap' /\ conn <= conn'
      BY <1>1, <1>2, <1>5
    <3> QED BY <1>2, <1>3, <3>1, <3>2, RecordedStep
  <2>8. InTurn' /\ Begun'
    BY <1>2, <2>4, <2>5, InTurnStep, BegunStep DEF LogInv
  <2>9. NoReopen'
    BY <2>4, <2>6, NoReopenStep DEF LogInv
  <2>10. Accepting'
    BY <1>1, <2>4, <2>5, AcceptingStep DEF LogInv
  <2>11. Unclosed'
    <3>1. ASSUME NEW x \in 1..Len(log'), of'[x] = conn', FinAt(x)' PROVE FALSE
      BY <2>4, <2>5, <2>6, <3>1, FinsKept
    <3> QED BY <3>1 DEF Unclosed
  <2>12. Parting'
    <3>1. st'["server"] \notin Closing
      BY <1>1 DEF Closing
    <3>2. \A j \in parted : Answered(j)'
      BY <2>4, <2>5, AnsweredStep DEF LogInv, Parting
    <3> QED BY <1>1, <3>1, <3>2 DEF Parting
  <2> QED BY <2>7, <2>8, <2>9, <2>10, <2>11, <2>12 DEF LogInv
<1> QED BY <1>1, <1>2, <1>3, <1>4, <1>5, CapturedIs

-----------------------------------------------------------------------------
(* The invariant of a capture of TCP *)

TcpInv == TableInv /\ EndInv /\ LogInv

LEMMA StutterTable ==
    ASSUME TableInv, UNCHANGED vars
    PROVE  TableInv'
<1>1. IInv' /\ HInv' /\ Once'
  BY TableStep, HStep DEF TableInv
<1>2. \A x : Current(x) => Current(x)'
  BY DEF Current, vars
<1>3. ready \in Seq(Gone')
  <2>1. \A x : Pkt(x)' = Pkt(x)
    BY DEF Pkt, vars
  <2>2. \A f : Ended(f)' <=> Ended(f)
    BY <2>1 DEF Ended, EndedAt, RstAt, FinAt, SynAt, BothFins, vars
  <2>3. Gone' = Gone
    BY <2>2 DEF Gone
  <2> QED BY <2>3 DEF TableInv, Single
<1>4. Single'
  BY <1>2, <1>3 DEF TableInv, Single, vars
<1> QED BY <1>1, <1>4 DEF TableInv

LEMMA CapturedTable ==
    ASSUME TableInv, Recorded, NEW e \in Ends, NEW out,
           out = <<>> \/ \E s \in Sends(e) : out = <<s>>,
           NEW k \in Nat, Captured(e, out, k)
    PROVE  TableInv'
<1>1. CASE UNCHANGED vars
  BY <1>1, StutterTable
<1>2. ASSUME NEW p \in Packets, Add(p, 0), Canon(p) = Link, Class(p) = "tcp"
      PROVE  TableInv'
  <2>1. 0 \in Times
    BY CaptureAssumption
  <2>2. [Next]_vars
    BY <1>2, <2>1 DEF Next
  <2>3. IInv' /\ HInv' /\ Once'
    BY <2>2, TableStep, HStep DEF TableInv
  <2>4. Single'
    BY <1>2, <2>1, AddSingle DEF TableInv
  <2> QED BY <2>3, <2>4 DEF TableInv
<1>3. \/ UNCHANGED <<vars, of>>
      \/ \E p \in Packets : Add(p, 0) /\ Canon(p) = Link /\ Class(p) = "tcp"
  BY CapturedIs DEF TableInv
<1> QED BY <1>1, <1>2, <1>3

LEMMA InitTable ==
    ASSUME TInit
    PROVE  TcpInv
<1>1. Init /\ log = <<>> /\ of = <<>>
  BY DEF TInit, Init
<1>2. EndInv
  BY InitEnds
<1>3. LogInv
  BY <1>1, NoLog
<1>4. Single
  <2>1. ready \in Seq(Gone)
    BY <1>1 DEF Init
  <2> QED BY <1>1, <2>1 DEF Single, Init, Classes
<1> QED BY <1>1, <1>2, <1>3, <1>4, InitInv, InitH, InitOnce DEF TcpInv, TableInv

LEMMA StartLog ==
    ASSUME TableInv, EndInv, LogInv, StartCapture
    PROVE  TableInv' /\ LogInv'
<1>1. /\ ~tap /\ UNCHANGED <<vars, of>>
  BY DEF StartCapture
<1>2. Len(log) = 0
  <2>1. Len(log) \in Nat
    BY LenProperties DEF TableInv, IInv, TypeOK
  <2> QED BY <1>1, <2>1 DEF LogInv, Recorded
<1> QED BY <1>1, <1>2, NoLogYet, StutterTable DEF TableInv, LogInv

LEMMA TurnTable ==
    ASSUME TcpInv, NEW e \in Ends, NEW out, Turn(e, out)
    PROVE  TableInv'
<1>1. conn \in Nat /\ Recorded /\ TableInv
  BY DEF TcpInv, EndInv, TcpState, LogInv
<1>2. /\ out = <<>> \/ \E s \in Sends(e) : out = <<s>>
      /\ Captured(e, out, conn)
  BY DEF Turn, Wires
<1> QED BY <1>1, <1>2, CapturedTable

LEMMA BeginTcp ==
    ASSUME TcpInv, NEW state \in {"syn_sent", "closed"}, Begin(state)
    PROVE  TcpInv'
<1>1. EndInv' /\ Captured("client", <<SYN>>, conn + 1)
  BY BeginEnds DEF TcpInv
<1>2. PICK k : k = conn + 1
  OBVIOUS
<1>3. k \in Nat /\ "client" \in Ends /\ SYN \in Sends("client") /\ Recorded /\ TableInv
  BY <1>2, TwoEnds, SendsFacts DEF TcpInv, EndInv, TcpState, LogInv
<1>4. TableInv'
  BY <1>1, <1>2, <1>3, CapturedTable
<1>5. LogInv'
  BY BeginLog DEF TcpInv, TableInv
<1> QED BY <1>1, <1>4, <1>5 DEF TcpInv

LEMMA TcpStep ==
    ASSUME TcpInv, [TNext]_tvars
    PROVE  TcpInv'
<1> USE DEF TcpInv
<1>1. CASE Connect \/ Probe
  BY <1>1, BeginTcp DEF Connect, Probe
<1>2. CASE StartCapture
  BY <1>2, StartEnds, StartLog
<1>3. ASSUME NEW out, ClientMove(out) PROVE TcpInv'
  <2>1. TableInv'
    BY <1>3, TurnTable, TwoEnds DEF ClientMove
  <2> QED BY <1>3, <2>1, ClientEnds, ClientLog DEF TableInv
<1>4. ASSUME NEW out, ServerMove(out) PROVE TcpInv'
  <2>1. TableInv'
    BY <1>4, TurnTable, TwoEnds DEF ServerMove
  <2> QED BY <1>4, <2>1, ServerEnds, ServerLog DEF TableInv
<1>5. ASSUME NEW e \in Ends,
             Receive(e) \/ Say(e) \/ Hangup(e) \/ Abort(e) \/ Resend(e) \/ GiveUp(e)
      PROVE  TcpInv'
  <2>1. CASE e = "client"
    BY <1>3, <1>5, <2>1, ClientMoves
  <2>2. CASE e = "server"
    BY <1>4, <1>5, <2>2, ServerMoves
  <2> QED BY <2>1, <2>2, TwoEnds
<1>6. CASE UNCHANGED tvars
  <2>1. /\ UNCHANGED <<vars, of>> /\ conn' = conn /\ tap' = tap /\ accepted' = accepted
        /\ st' = st /\ parted' = parted /\ wire' = wire
    BY <1>6 DEF tvars
  <2>2. TableInv'
    BY <2>1, StutterTable
  <2>3. EndInv'
    BY <2>1 DEF EndInv, TcpState, Asking, Early
  <2>4. LogInv'
    <3>1. Early' => Early
      BY <2>1 DEF Early, Asking
    <3> QED BY <2>1, <3>1, QuietLog DEF LogInv, Parting
  <2> QED BY <2>2, <2>3, <2>4
<1> QED BY <1>1, <1>2, <1>5, <1>6 DEF TNext

(* The endpoints of a connection, what is on the wire between them, what   *)
(* the capture has of it and what the flow table of flows.py has made of   *)
(* the capture stay in step: the flows the table knows of are runs of the  *)
(* capture, each but the last has ended, and what a side says tells in     *)
(* which state of the connection it was.                                   *)
THEOREM CaptureInvariant == TSpec => []TcpInv
<1>1. TInit => TcpInv
  BY InitTable
<1>2. TcpInv /\ [TNext]_tvars => TcpInv'
  BY TcpStep
<1> QED BY <1>1, <1>2, PTL DEF TSpec

-----------------------------------------------------------------------------
(* What that makes of the properties *)

LEMMA FrameKinds ==
    ASSUME TcpInv, NEW x \in 1..Len(log)
    PROVE  /\ Pkt(x).proto = "tcp" /\ Pkt(x).payload \in {0, 1}
           /\ Source(Pkt(x)) \in {Client, Server}
           /\ FromServer(x) /\ SynAt(x) => IsSynAck(Pkt(x))
           /\ SynAt(x) => Initiator(Pkt(x)) = Client /\ ~RstAt(x) /\ ~FinAt(x)
           /\ IsSynAck(Pkt(x)) => FromServer(x) /\ SynAt(x)
           /\ Pkt(x).payload > 0 => ~SynAt(x) /\ ~RstAt(x)
           /\ "ACK" \notin Pkt(x).flags => ~FinAt(x) /\ ~RstAt(x) /\ ~FromServer(x)
<1>1. PICK e \in Ends : \E s \in Sends(e) : Pkt(x) = PacketFrom(e, s)
  BY DEF TcpInv, LogInv, Recorded
<1>2. PICK s \in Sends(e) : Pkt(x) = PacketFrom(e, s)
  BY <1>1
<1>3. PICK p : p = Pkt(x)
  OBVIOUS
<1>4. s \in Segments /\ s \in Talk \cup {SYN, SYNACK, RST}
      /\ (e = "client" => s # SYNACK) /\ (e # "client" => s # SYN)
  BY TwoEnds, SendsFacts DEF Sends
<1>5. /\ p.proto = "tcp" /\ p.flags = s.flags /\ p.payload = s.payload
      /\ Source(p) = (IF e = "client" THEN Client ELSE Server)
      /\ Target(p) = (IF e = "client" THEN Server ELSE Client)
  BY <1>2, <1>3, <1>4, PacketOf
<1>6. Client # Server
  BY TwoEnds
<1>7. CASE s \in Talk
  <2>1. "SYN" \notin s.flags /\ "RST" \notin s.flags /\ "ACK" \in s.flags /\ s.payload \in {0, 1}
    BY <1>7, SegmentFacts
  <2> QED BY <1>3, <1>5, <2>1 DEF FromServer, SynAt, RstAt, FinAt, IsSyn, IsSynAck
<1>8. CASE s = SYN
  <2>1. s.flags = {"SYN"} /\ s.payload = 0 /\ e = "client"
    BY <1>4, <1>8, SegmentFacts
  <2> QED BY <1>3, <1>5, <1>6, <2>1 DEF FromServer, SynAt, RstAt, FinAt, IsSyn, IsSynAck, Initiator
<1>9. CASE s = SYNACK
  <2>1. s.flags = {"SYN", "ACK"} /\ s.payload = 0 /\ e # "client"
    BY <1>4, <1>9, SegmentFacts
  <2> QED BY <1>3, <1>5, <1>6, <2>1 DEF FromServer, SynAt, RstAt, FinAt, IsSyn, IsSynAck, Initiator
<1>10. CASE s = RST
  <2>1. s.flags = {"RST", "ACK"} /\ s.payload = 0
    BY <1>10, SegmentFacts
  <2> QED BY <1>3, <1>5, <1>6, <2>1 DEF FromServer, SynAt, RstAt, FinAt, IsSyn, IsSynAck
<1> QED BY <1>4, <1>7, <1>8, <1>9, <1>10

LEMMA MixedOf == TcpInv => NeverMixed
<1> SUFFICES ASSUME TcpInv, NEW f \in KnownFlows, NEW a \in f.frames, NEW b \in f.frames,
                    of[a] < of[b], NEW x \in f.frames, of[x] = of[a]
             PROVE  Pkt(x).flags \cap {"FIN", "RST"} = {}
  BY DEF NeverMixed
<1>1. /\ f.frames \subseteq 1..Len(log) /\ Convex(f.frames) /\ Len(log) \in Nat
  BY KnownRun DEF TcpInv
<1>2. \A y \in 1..Len(log) : of[y] \in Nat
  BY OldType DEF TcpInv, LogInv
<1>3. x < b
  <2> SUFFICES ASSUME b < x PROVE FALSE
    BY <1>1, <1>2
  <2>1. of[b] <= of[x]
    BY <1>1 DEF TcpInv, LogInv, InTurn
  <2> QED BY <1>1, <1>2, <2>1
<1>4. PICK z \in 1..Len(log) : x < z /\ z <= b /\ SynAt(z)
  BY <1>1 DEF TcpInv, LogInv, Begun
<1>5. z \in f.frames
  <2>1. z \in x..b
    BY <1>1, <1>4
  <2> QED BY <1>1, <2>1 DEF Convex
<1>6. /\ "RST" \notin Pkt(x).flags
      /\ "FIN" \in Pkt(x).flags => ~IsSyn(Pkt(z))
  BY <1>4, <1>5, ApartOfInv DEF TcpInv, TableInv, ConnectionsApart
<1> QED BY <1>4, <1>6 DEF SynAt

\* A flow that ended where its connection went on shows the end of it, or has
\* a FIN and then a handshake behind it.
LEMMA EndShown ==
    ASSUME TcpInv, NEW h \in KnownFlows, NEW n \in h.frames, \A x \in h.frames : x <= n,
           EndedAt(h, n)
    PROVE  \/ Shown(of[n], n)
           \/ /\ SynAt(n + 1) /\ n < Len(log)
              /\ \E x \in h.frames : FinAt(x) /\ of[x] = of[n]
<1>1. h.frames \subseteq 1..Len(log) /\ Len(log) \in Nat
  BY KnownRun DEF TcpInv
<1>2. \A y \in 1..Len(log) : of[y] \in Nat
  BY OldType DEF TcpInv, LogInv
<1>3. ASSUME NEW x \in h.frames, FinAt(x) PROVE of[x] = of[n]
  <2>1. x = n \/ of[x] <= of[n]
    BY <1>1 DEF TcpInv, LogInv, InTurn
  <2>2. ~(of[x] < of[n])
    BY <1>3, MixedOf DEF NeverMixed, FinAt
  <2> QED BY <1>1, <1>2, <2>1, <2>2
<1>4. n \in 1..n /\ h.frames \subseteq 1..n
  BY <1>1
<1>5. CASE RstAt(n)
  BY <1>4, <1>5 DEF Shown, RstAt
<1>6. CASE ~FinAt(n) /\ BothFins(h, n)
  <2>1. PICK a, b \in h.frames : /\ a <= n /\ b <= n
                                 /\ "FIN" \in Pkt(a).flags \cap Pkt(b).flags
                                 /\ Source(Pkt(a)) # Source(Pkt(b))
    BY <1>6 DEF BothFins
  <2>2. of[a] = of[n] /\ of[b] = of[n]
    BY <1>3, <2>1 DEF FinAt
  <2>3. Pkt(a).src # Pkt(b).src
    <3>1. PICK p, q : p = Pkt(a) /\ q = Pkt(b)
      OBVIOUS
    <3>2. \E d \in Ends : \E s \in Sends(d) : p = PacketFrom(d, s)
      BY <1>1, <3>1 DEF TcpInv, LogInv, Recorded
    <3>3. \E d \in Ends : \E s \in Sends(d) : q = PacketFrom(d, s)
      BY <1>1, <3>1 DEF TcpInv, LogInv, Recorded
    <3>4. \A d, s : /\ PacketFrom(d, s).src = (IF d = "client" THEN "C" ELSE "S")
                   /\ PacketFrom(d, s).sport = (IF d = "client" THEN 1 ELSE 2)
                   /\ PacketFrom(d, s).fragmented = FALSE
      BY DEF PacketFrom
    <3>5. /\ p.src = "C" => Source(p) = Client
          /\ p.src # "C" => Source(p) = Server
          /\ q.src = "C" => Source(q) = Client
          /\ q.src # "C" => Source(q) = Server
      BY <3>2, <3>3, <3>4 DEF Source, Client, Server
    <3> QED BY <2>1, <3>1, <3>5
  <2> QED BY <1>4, <1>6, <2>1, <2>2, <2>3 DEF Shown, FinAt
<1>7. CASE n < Len(log) /\ SynAt(n + 1) /\ \E x \in h.frames : FinAt(x)
  BY <1>3, <1>7
<1> QED BY <1>5, <1>6, <1>7 DEF EndedAt

\* Where a flow begins with a connection that was there before, it has ended
\* there: for the table only, or for the capture as well.
LEMMA BeginsAfter ==
    ASSUME TcpInv, NEW g \in KnownFlows, NEW a \in 1..Len(log), a < Min(g.frames),
           of[a] = of[Min(g.frames)]
    PROVE  /\ Min(g.frames) > 1 /\ of[Min(g.frames) - 1] = of[a]
           /\ \/ Shown(of[a], Min(g.frames) - 1)
              \/ /\ SynAt(Min(g.frames))
                 /\ \E x \in 1..(Min(g.frames) - 1) : FinAt(x) /\ of[x] = of[a]
<1>1. /\ g.frames \subseteq 1..Len(log) /\ Len(log) \in Nat /\ Min(g.frames) \in g.frames
  BY KnownRun DEF TcpInv
<1>2. PICK m \in 1..Len(log) : m = Min(g.frames)
  BY <1>1
<1>3. m > 1 /\ m - 1 \in 1..Len(log)
  BY <1>1, <1>2
<1>4. of[m - 1] = of[a]
  <2>1. of[a] <= of[m - 1] \/ a = m - 1
    BY <1>2, <1>3 DEF TcpInv, LogInv, InTurn
  <2>2. of[m - 1] <= of[m]
    BY <1>3 DEF TcpInv, LogInv, InTurn
  <2>3. of[a] \in Nat /\ of[m] \in Nat /\ of[m - 1] \in Nat
    BY <1>3, OldType DEF TcpInv, LogInv
  <2> QED BY <1>2, <2>1, <2>2, <2>3
<1>5. PICK h \in KnownFlows : /\ m - 1 \in h.frames
                              /\ \A x \in h.frames : x <= m - 1
                              /\ EndedAt(h, m - 1)
  BY <1>2, <1>3, Predecessor DEF TcpInv
<1>6. PICK n : n = m - 1
  OBVIOUS
<1>7. \/ Shown(of[n], n)
      \/ /\ SynAt(n + 1) /\ n < Len(log)
         /\ \E x \in h.frames : FinAt(x) /\ of[x] = of[n]
  BY <1>5, <1>6, EndShown
<1>8. n + 1 = m /\ h.frames \subseteq 1..n
  <2>1. h.frames \subseteq 1..Len(log)
    BY KnownRun DEF TcpInv
  <2> QED BY <1>3, <1>5, <1>6, <2>1
<1> QED BY <1>2, <1>3, <1>4, <1>6, <1>7, <1>8

LEMMA LaterStraggler ==
    ASSUME TcpInv, NEW b \in 1..Len(log), NEW n \in Nat, n < b, b > 1, Shown(of[b], n)
    PROVE  Straggler(b)
<1>1. 1..n \subseteq 1..(b - 1)
  OBVIOUS
<1> QED BY <1>1 DEF Straggler, Shown

LEMMA OneFlowOf == TcpInv => OneFlowPerConnection
<1> SUFFICES ASSUME TcpInv, NEW f \in KnownFlows, NEW g \in KnownFlows,
                    NEW a \in f.frames, NEW b \in g.frames, Split(f, g, a, b)
             PROVE  /\ IsSynAck(Pkt(Min(g.frames)))
                    /\ \E x \in 1..Min(g.frames) :
                          of[x] = of[b] /\ "FIN" \in Pkt(x).flags /\ Source(Pkt(x)) = Client
  BY DEF OneFlowPerConnection
<1>1. f # g /\ a < b /\ of[a] = of[b] /\ ~Straggler(b)
  BY DEF Split
<1>2. /\ f.frames \subseteq 1..Len(log) /\ g.frames \subseteq 1..Len(log) /\ Len(log) \in Nat
      /\ Min(g.frames) \in g.frames /\ \A x \in g.frames : Min(g.frames) <= x
  BY KnownRun DEF TcpInv
<1>3. a < Min(g.frames)
  BY <1>1, RunsInOrder DEF TcpInv
<1>4. PICK m \in 1..Len(log) : m = Min(g.frames)
  BY <1>2
<1>5. a \in 1..Len(log) /\ b \in 1..Len(log) /\ m <= b /\ a < m
  BY <1>2, <1>3, <1>4
<1>6. of[m] = of[a]
  <2>1. of[a] <= of[m] /\ (of[m] <= of[b] \/ m = b)
    BY <1>5 DEF TcpInv, LogInv, InTurn
  <2>2. of[a] \in Nat /\ of[m] \in Nat
    BY <1>5, OldType DEF TcpInv, LogInv
  <2> QED BY <1>1, <2>1, <2>2
<1>7. /\ m > 1
      /\ \/ Shown(of[a], m - 1)
         \/ SynAt(m) /\ \E x \in 1..(m - 1) : FinAt(x) /\ of[x] = of[a]
  BY <1>4, <1>5, <1>6, BeginsAfter
<1>8. ~Shown(of[a], m - 1)
  <2> SUFFICES ASSUME Shown(of[a], m - 1) PROVE Straggler(b)
    BY <1>1
  <2>1. m - 1 \in Nat /\ m - 1 < b /\ b > 1
    BY <1>5, <1>7
  <2> QED BY <1>1, <1>5, <2>1, LaterStraggler
<1>9. PICK x \in 1..(m - 1) : FinAt(x) /\ of[x] = of[a] /\ SynAt(m)
  BY <1>7, <1>8
<1>10. x \in 1..Len(log) /\ x \in 1..m /\ x < m
  BY <1>5, <1>7
<1>11. IsSynAck(Pkt(m)) /\ ~FromServer(x)
  BY <1>6, <1>9, <1>10 DEF TcpInv, LogInv, NoReopen
<1>12. Source(Pkt(x)) = Client
  BY <1>10, <1>11, FrameKinds DEF FromServer
<1> QED BY <1>1, <1>4, <1>9, <1>10, <1>11, <1>12 DEF FinAt

\* A flow with a handshake in it names the client; without one, whoever sent
\* its first frame.
LEMMA NamedClient ==
    ASSUME TcpInv, NEW f \in KnownFlows
    PROVE  /\ (\E no \in f.frames : SynAt(no)) => f.src = Client
           /\ (\A no \in f.frames : ~SynAt(no)) => f.src = Source(Pkt(Min(f.frames)))
<1> DEFINE syns == {no \in f.frames : IsSyn(Pkt(no))}
           first == Min(IF syns = {} THEN f.frames ELSE syns)
<1>1. f.frames \subseteq 1..Len(log) /\ f.frames # {} /\ Min(f.frames) \in f.frames
  BY KnownRun DEF TcpInv
<1>2. f.src = Initiator(Pkt(first))
  BY InitiatorOfInv DEF TcpInv, TableInv, InitiatorFirst
<1>3. ASSUME NEW no \in f.frames, SynAt(no) PROVE f.src = Client
  <2>1. no \in syns
    BY <1>3 DEF SynAt
  <2>2. syns \in SUBSET Nat /\ syns # {}
    BY <1>1, <2>1
  <2>3. Min(syns) \in syns
    <3> HIDE DEF syns
    <3> QED BY <2>2, MinOfNaturals
  <2>4. first \in f.frames /\ SynAt(first)
    BY <2>2, <2>3 DEF SynAt
  <2>5. first \in 1..Len(log)
    BY <1>1, <2>4
  <2> HIDE DEF first
  <2> QED BY <1>2, <2>4, <2>5, FrameKinds
<1>4. ASSUME \A no \in f.frames : ~SynAt(no) PROVE f.src = Source(Pkt(Min(f.frames)))
  <2>1. syns = {}
    BY <1>4 DEF SynAt
  <2>2. ~IsSyn(Pkt(Min(f.frames)))
    BY <1>1, <1>4 DEF SynAt
  <2>3. ~IsSynAck(Pkt(Min(f.frames)))
    BY <2>2 DEF IsSyn, IsSynAck
  <2> QED BY <1>2, <2>1, <2>3 DEF Initiator
<1> QED BY <1>3, <1>4

LEMMA AttemptsOf == TcpInv => ClientAttempts
<1> SUFFICES ASSUME TcpInv, NEW f \in KnownFlows, f.src = Server
             PROVE  /\ \A no \in f.frames : ~IsSyn(Pkt(no))
                    /\ LET first == Min(f.frames) IN
                          /\ Source(Pkt(first)) = Server
                          /\ \/ Straggler(first)
                             \/ \A x \in 1..first : of[x] = of[first] => ~IsSyn(Pkt(x))
  BY DEF ClientAttempts
<1>1. /\ f.frames \subseteq 1..Len(log) /\ Len(log) \in Nat
      /\ Min(f.frames) \in f.frames /\ \A x \in f.frames : Min(f.frames) <= x
  BY KnownRun DEF TcpInv
<1>2. \A no \in f.frames : ~SynAt(no)
  BY NamedClient, TwoEnds
<1>3. PICK m \in 1..Len(log) : m = Min(f.frames)
  BY <1>1
<1>4. Source(Pkt(m)) = Server
  BY <1>2, <1>3, NamedClient
<1>5. ASSUME NEW x \in 1..m, of[x] = of[m], IsSyn(Pkt(x)) PROVE Straggler(m)
  <2>1. x \in 1..Len(log) /\ x < m
    <3>1. x # m
      BY <1>1, <1>2, <1>3, <1>5 DEF SynAt
    <3> QED BY <3>1
  <2>2. /\ m > 1
        /\ Shown(of[x], m - 1) \/ SynAt(m)
    BY <1>3, <1>5, <2>1, BeginsAfter
  <2>3. Shown(of[m], m - 1)
    BY <1>1, <1>2, <1>3, <1>5, <2>2
  <2>4. m - 1 \in Nat /\ m - 1 < m
    BY <2>2
  <2> QED BY <2>2, <2>3, <2>4, LaterStraggler
<1> QED BY <1>2, <1>3, <1>4, <1>5 DEF SynAt

LEMMA StealthOf == TcpInv => StealthUnanswered
<1> SUFFICES ASSUME TcpInv, NEW f \in KnownFlows, Stealthy(f), NEW x \in 1..Len(log),
                    Source(Pkt(x)) = Server
             PROVE  x < Min(f.frames)
  BY DEF StealthUnanswered
<1>1. /\ f.frames \subseteq 1..Len(log) /\ Len(log) \in Nat /\ Convex(f.frames)
      /\ Min(f.frames) \in f.frames /\ (Len(log) \in f.frames \/ Ended(f))
  BY KnownRun DEF TcpInv
<1>2. f.flags_seen = UNION {Pkt(no).flags : no \in f.frames}
  BY TallyOfInv DEF TcpInv, TableInv, Tally
<1>3. "ACK" \notin f.flags_seen
  BY DEF Stealthy, IsBareSyn
<1>4. ASSUME NEW no \in f.frames PROVE ~FinAt(no) /\ ~RstAt(no) /\ ~FromServer(no)
  <2>1. "ACK" \notin Pkt(no).flags
    BY <1>2, <1>3
  <2>2. no \in 1..Len(log)
    BY <1>1
  <2> QED BY <2>1, <2>2, FrameKinds
<1>5. ~Ended(f)
  <2> SUFFICES ASSUME NEW hi \in f.frames, EndedAt(f, hi) PROVE FALSE
    BY DEF Ended
  <2>1. ~BothFins(f, hi)
    BY <1>4 DEF BothFins, FinAt
  <2> QED BY <1>4, <2>1 DEF EndedAt
<1>6. x \notin f.frames
  BY <1>4 DEF FromServer
<1>7. ~(x >= Min(f.frames))
  <2> SUFFICES ASSUME x >= Min(f.frames) PROVE x \in f.frames
    BY <1>6
  <2>1. x \in Min(f.frames)..Len(log)
    BY <1>1
  <2> QED BY <1>1, <1>5, <2>1 DEF Convex
<1> QED BY <1>1, <1>7

\* What both of a flow's ends say of it, in terms of its frames.
LEMMA FlowCounts ==
    ASSUME TcpInv, NEW f \in KnownFlows
    PROVE  /\ f.frames \subseteq 1..Len(log) /\ IsFiniteSet(f.frames) /\ f.frames # {}
           /\ f.proto = "tcp"
           /\ f.packets_in = Cardinality(Received(f))
           /\ f.payload_out = Payload(Sent(f)) /\ f.payload_in = Payload(Received(f))
           /\ f.flags_seen = UNION {Pkt(no).flags : no \in f.frames}
           /\ Received(f) \subseteq f.frames /\ Sent(f) \subseteq f.frames
<1>1. f.frames \subseteq 1..Len(log) /\ Len(log) \in Nat /\ f.frames # {}
  BY KnownRun DEF TcpInv
<1>2. IsFiniteSet(f.frames)
  <2>1. IsFiniteSet(1..Len(log))
    BY <1>1, FS_Interval
  <2> QED BY <1>1, <2>1, FS_Subset
<1>3. f.proto = "tcp"
  <2>1. PICK no \in f.frames : TRUE
    BY <1>1
  <2>2. FlowInv(f, log)
    BY KnownInv DEF TcpInv, TableInv, IInv
  <2>3. Canon(Pkt(no)) = <<f.proto, {f.src, f.dst}>>
    BY <2>1, <2>2 DEF FlowInv, OnTuple, Pkt
  <2>4. Pkt(no).proto = "tcp"
    BY <1>1, <2>1, FrameKinds
  <2> QED BY <2>3, <2>4 DEF Canon
<1>4. /\ f.packets_in = Cardinality(Received(f))
      /\ f.payload_out = Payload(Sent(f)) /\ f.payload_in = Payload(Received(f))
      /\ f.flags_seen = UNION {Pkt(no).flags : no \in f.frames}
  BY TallyOfInv DEF TcpInv, TableInv, Tally
<1> QED BY <1>1, <1>2, <1>3, <1>4 DEF Received, Sent

\* A FIN of the server and its handshake are two of its frames.
LEMMA TwoAreMore ==
    ASSUME NEW S, IsFiniteSet(S), NEW a \in S, NEW b \in S, a # b
    PROVE  Cardinality(S) >= 2
<1>1. {a, b} \subseteq S /\ IsFiniteSet({a, b}) /\ Cardinality({a, b}) = 2
  <2>1. IsFiniteSet({a}) /\ Cardinality({a}) = 1
    BY FS_Singleton
  <2>2. {a} \cup {b} = {a, b} /\ b \notin {a}
    OBVIOUS
  <2>3. IsFiniteSet({a} \cup {b}) /\ Cardinality({a} \cup {b}) = Cardinality({a}) + 1
    BY <2>1, <2>2, FS_AddElement
  <2> QED BY <2>1, <2>2, <2>3
<1>2. Cardinality({a, b}) <= Cardinality(S)
  BY <1>1, FS_Subset
<1>3. Cardinality(S) \in Nat
  BY FS_CardinalityType
<1> QED BY <1>1, <1>2, <1>3

LEMMA SessionOf == TcpInv => SessionServed
<1> SUFFICES ASSUME TcpInv, NEW f \in KnownFlows, NEW no \in f.frames,
                    of[no] \in parted, IsSynAck(Pkt(no)),
                    \A x \in 1..Len(log) : of[x] = of[no] =>
                       x \in f.frames /\ "RST" \notin Pkt(x).flags
             PROVE  Served(f)
  BY DEF SessionServed
<1>1. /\ f.frames \subseteq 1..Len(log) /\ IsFiniteSet(f.frames)
      /\ f.proto = "tcp" /\ f.packets_in = Cardinality(Received(f))
      /\ f.flags_seen = UNION {Pkt(z).flags : z \in f.frames}
  BY FlowCounts
<1>2. FromServer(no) /\ SynAt(no) /\ ~FinAt(no)
  BY <1>1, FrameKinds
<1>3. PICK y \in 1..Len(log) : of[y] = of[no] /\ FinAt(y) /\ FromServer(y)
  <2>1. Answered(of[no])
    BY DEF TcpInv, LogInv, Parting
  <2> QED BY <1>1, <2>1 DEF Answered
<1>4. y \in f.frames /\ y # no
  BY <1>2, <1>3
<1>5. f.src = Client
  BY <1>2, NamedClient
<1>6. no \in Received(f) /\ y \in Received(f)
  BY <1>2, <1>3, <1>4, <1>5, TwoEnds DEF Received, FromServer
<1>7. Cardinality(Received(f)) >= 2
  <2>1. IsFiniteSet(Received(f))
    BY <1>1, FS_Subset DEF Received
  <2> QED BY <1>4, <1>6, <2>1, TwoAreMore
<1>8. ASSUME NEW z \in f.frames PROVE "RST" \notin Pkt(z).flags
  <2>1. of[z] \in Nat /\ of[no] \in Nat /\ z \in 1..Len(log)
    BY <1>1, OldType DEF TcpInv, LogInv
  <2>2. CASE of[z] = of[no]
    BY <2>1, <2>2
  <2>3. CASE of[z] < of[no]
    <3>1. Pkt(z).flags \cap {"FIN", "RST"} = {}
      BY <2>3, MixedOf DEF NeverMixed
    <3> QED BY <3>1
  <2>4. CASE of[no] < of[z]
    <3>1. Pkt(y).flags \cap {"FIN", "RST"} = {}
      BY <1>3, <1>4, <2>4, MixedOf DEF NeverMixed
    <3> QED BY <1>3, <3>1 DEF FinAt
  <2> QED BY <2>1, <2>2, <2>3, <2>4
<1>9. "RST" \notin f.flags_seen /\ "SYN" \in f.flags_seen /\ "ACK" \in f.flags_seen
  BY <1>1, <1>8 DEF IsSynAck
<1>10. f.flags_seen \cap {"SYN", "ACK", "RST"} = {"SYN", "ACK"}
  BY <1>9
<1> QED BY <1>1, <1>7, <1>10 DEF Served

\* Payload is carried by frames.
LEMMA PayloadSome ==
    ASSUME NEW S, Payload(S) > 0
    PROVE  \E no \in S : Pkt(no).payload # 0
<1> DEFINE U == UNION {{no} \X (1..Pkt(no).payload) : no \in S}
<1>1. Payload(S) = Cardinality(U)
  BY DEF Payload
<1>2. U # {}
  <2> HIDE DEF U
  <2> QED BY <1>1, FS_EmptySet
<1>3. PICK no \in S : 1..Pkt(no).payload # {}
  BY <1>2
<1>4. Pkt(no).payload # 0
  BY <1>3
<1> QED BY <1>4

\* A frame the server sends that is neither handshake nor reset is a service.
LEMMA ServiceIn ==
    ASSUME TcpInv, NEW f \in KnownFlows, NEW x \in f.frames,
           FromServer(x), ~SynAt(x), ~RstAt(x)
    PROVE  Of(f) \cap accepted # {}
<1>1. x \in 1..Len(log)
  BY FlowCounts
<1>2. of[x] \in accepted
  BY <1>1 DEF TcpInv, LogInv, Accepting
<1> QED BY <1>2 DEF Of

\* A flow that is known is one.
LEMMA KnownTyped ==
    ASSUME TypeOK, NEW f \in KnownFlows
    PROVE  f \in Flow /\ f.payload_out \in Nat
<1>1. ASSUME NEW c \in Classes, NEW i \in 1..Len(table[c])
      PROVE  table[c][i].flow \in Flow
  <2>1. table[c] \in Seq(State)
    BY DEF TypeOK
  <2>2. table[c][i] \in State
    BY <2>1, ElementOfSeq
  <2> QED BY <2>2 DEF State
<1>2. \A i \in 1..Len(ready) : ready[i] \in Flow
  BY DEF TypeOK
<1>3. f \in Flow
  BY <1>1, <1>2 DEF KnownFlows, LiveFlows, ReadyFlows
<1> QED BY <1>3 DEF Flow

LEMMA ServedOf ==
    ASSUME TcpInv
    PROVE  ServedMeansAccepted
<1> SUFFICES ASSUME NEW f \in KnownFlows,
                    Served(f), SynAcks(f) <= 1, f.payload_out <= SessionPayload
             PROVE  Of(f) \cap accepted # {}
  BY DEF ServedMeansAccepted
<1>1. /\ f.frames \subseteq 1..Len(log) /\ IsFiniteSet(f.frames)
      /\ f.packets_in = Cardinality(Received(f))
      /\ f.payload_out = Payload(Sent(f)) /\ f.payload_in = Payload(Received(f))
      /\ f.flags_seen = UNION {Pkt(z).flags : z \in f.frames}
      /\ Received(f) \subseteq f.frames /\ Sent(f) \subseteq f.frames
  BY FlowCounts
<1>2. /\ Min(f.frames) \in f.frames /\ \A x \in f.frames : Min(f.frames) <= x
      /\ Len(log) \in Nat
  BY KnownRun DEF TcpInv
<1>3. \A x \in f.frames : Source(Pkt(x)) \in {Client, Server}
  BY <1>1, FrameKinds
<1>4. f.src = Client => \A x \in Received(f) : FromServer(x)
  BY <1>3 DEF Received, FromServer
<1>5. CASE f.payload_in > 0
  <2>1. PICK x \in Received(f) : Pkt(x).payload # 0
    BY <1>1, <1>5, PayloadSome
  <2>2. x \in f.frames /\ x \in 1..Len(log) /\ ~SynAt(x) /\ ~RstAt(x)
    BY <1>1, <2>1, FrameKinds
  <2>3. CASE f.src = Client
    BY <1>4, <2>1, <2>2, <2>3, ServiceIn
  <2>4. CASE f.src # Client
    <3>1. PICK m \in f.frames : m = Min(f.frames)
      BY <1>2
    <3>2. (\A z \in f.frames : ~SynAt(z)) /\ f.src = Source(Pkt(m))
      BY <2>4, <3>1, NamedClient
    <3>3. FromServer(m)
      BY <1>3, <2>4, <3>2 DEF FromServer
    <3>4. m < x
      <4>1. Source(Pkt(x)) # f.src
        BY <2>1 DEF Received
      <4> QED BY <1>1, <1>2, <2>2, <3>1, <3>2, <4>1
    <3>5. ~RstAt(m)
      BY <2>2, <3>4, ApartOfInv DEF TcpInv, TableInv, ConnectionsApart, RstAt
    <3> QED BY <3>2, <3>3, <3>5, ServiceIn
  <2> QED BY <2>3, <2>4
<1>6. ~(f.payload_out > SessionPayload)
  <2>1. f.payload_out \in Nat
    BY KnownTyped DEF TcpInv, TableInv, IInv
  <2> QED BY <2>1, ScanCapsAssumption
<1>7. CASE f.packets_in >= 2 /\ f.flags_seen \cap {"SYN", "ACK", "RST"} = {"SYN", "ACK"}
  <2>1. "SYN" \in f.flags_seen /\ "RST" \notin f.flags_seen
    BY <1>7
  <2>2. PICK no \in f.frames : SynAt(no)
    BY <1>1, <2>1 DEF SynAt, IsSyn
  <2>3. f.src = Client
    BY <2>2, NamedClient
  <2>4. \A x \in f.frames : ~RstAt(x)
    BY <1>1, <2>1 DEF RstAt
  <2>5. PICK x \in Received(f) : ~IsSynAck(Pkt(x))
    <3> SUFFICES ASSUME \A x \in Received(f) : IsSynAck(Pkt(x)) PROVE FALSE
      OBVIOUS
    <3> DEFINE T == {no1 \in f.frames : IsSynAck(Pkt(no1))}
    <3>1. Received(f) \subseteq T /\ T \subseteq f.frames
      BY <1>1
    <3>2. SynAcks(f) = Cardinality(T)
      BY DEF SynAcks
    <3> HIDE DEF T
    <3>3. IsFiniteSet(T)
      BY <1>1, <3>1, FS_Subset
    <3>4. Cardinality(Received(f)) <= Cardinality(T) /\ IsFiniteSet(Received(f))
      BY <3>1, <3>3, FS_Subset
    <3>5. Cardinality(T) \in Nat /\ Cardinality(Received(f)) \in Nat
      BY <3>3, <3>4, FS_CardinalityType
    <3> QED BY <1>1, <1>7, <3>2, <3>4, <3>5
  <2>6. x \in f.frames /\ FromServer(x) /\ x \in 1..Len(log)
    BY <1>1, <1>4, <2>3, <2>5
  <2>7. ~SynAt(x)
    BY <2>5, <2>6, FrameKinds
  <2> QED BY <2>4, <2>6, <2>7, ServiceIn
<1> QED BY <1>5, <1>6, <1>7 DEF Served

(* What one connection sends is one flow until the capture has shown its   *)
(* end; only a SYN-ACK sent again to a client that has closed breaks it    *)
(* (_reuses_tuple and the two teardowns of add).                           *)
THEOREM OneFlowEach == TSpec => []OneFlowPerConnection
BY OneFlowOf, CaptureInvariant, PTL

(* A flow holds segments of two connections only when neither side of the  *)
(* earlier one had sent a FIN or a reset.                                  *)
THEOREM ConnectionsNotMixed == TSpec => []NeverMixed
BY MixedOf, CaptureInvariant, PTL

(* An attempt is held against the host that made it: a flow that names the *)
(* server has no handshake and begins with a segment of the server, of a   *)
(* connection whose end was seen or whose beginning was not (_open_flow    *)
(* and _reorient).                                                         *)
THEOREM AttemptsOfClients == TSpec => []ClientAttempts
BY AttemptsOf, CaptureInvariant, PTL

(* A stealth attempt drew no answer that the capture has from its first    *)
(* SYN on: a flow without ACK cannot have ended, so it holds all that      *)
(* came since.                                                             *)
THEOREM StealthIsSilent == TSpec => []StealthUnanswered
BY StealthOf, CaptureInvariant, PTL

(* A connection that both sides closed counts as served in the flow that   *)
(* has its handshake, with no data at all (_served).                       *)
THEOREM SessionsServed == TSpec => []SessionServed
BY SessionOf, CaptureInvariant, PTL

(* An attempt counts as served only when the server completed a handshake  *)
(* in it: what it says but for handshakes and resets, it says after that   *)
(* (_served).                                                              *)
THEOREM ServedAreAccepted == TSpec => []ServedMeansAccepted
BY ServedOf, CaptureInvariant, PTL
=============================================================================
