------------------------------ MODULE Analyse ------------------------------
(***************************************************************************)
(* cli.analyse of src/pcapinator: two generators and a list.  frames()     *)
(* decodes each packet of the capture and counts it on the way past;       *)
(* assemble pulls one frame at a time into the flow table, yields what is  *)
(* finished before it pulls the next, and drains the table at the end; and *)
(* analyse lists what comes out before any detector runs.                  *)
(***************************************************************************)
EXTENDS FlowTable, Sources

CONSTANT MaxSkipped    \* bound of the model: packets that do not decode

VARIABLES
    source,     \* the capture, as the reader will find it
    strict,     \* --strict
    packets,    \* summary.packets
    decoded,    \* summary.decoded
    pc,         \* where the pipeline is
    outcome     \* "none" until analyse returns a summary or raises

avars == <<vars, source, strict, packets, decoded, pc, outcome>>

AInit ==
    /\ Init
    /\ source \in Sources /\ strict \in BOOLEAN
    /\ packets = 0 /\ decoded = 0
    /\ pc = "pull" /\ outcome = "none"

\* decode(packet) is None: counted, and the loop of frames() goes on.
Skip ==
    /\ pc = "pull" /\ source # "unreadable"
    /\ packets - decoded < MaxSkipped
    /\ packets' = packets + 1
    /\ UNCHANGED <<vars, source, strict, decoded, pc, outcome>>

\* A frame goes from frames() into table.add, and table.ready is tested.
Pull(p, ts) ==
    /\ pc = "pull" /\ source # "unreadable"
    /\ packets' = packets + 1
    /\ decoded' = decoded + 1
    /\ Add(p, ts)
    /\ pc' = IF ready' = <<>> THEN "pull" ELSE "yield"
    /\ UNCHANGED <<source, strict, outcome>>

\* Mutant: the generator does not go back to its frames.
YieldStays ==
    /\ pc = "yield"
    /\ Expire(log[Len(log)].ts)
    /\ UNCHANGED <<source, strict, packets, decoded, pc, outcome>>

\* yield from table.expire(frame.ts)
Yield ==
    /\ pc = "yield"
    /\ Expire(log[Len(log)].ts)
    /\ pc' = "pull"
    /\ UNCHANGED <<source, strict, packets, decoded, outcome>>

\* The frames have run out: yield from table.close().
Exhaust ==
    /\ pc = "pull" /\ Ending(source, strict) = "exhausted"
    /\ Close
    /\ pc' = "listed"
    /\ UNCHANGED <<source, strict, packets, decoded, outcome>>

\* The reader raises: assemble is abandoned with its table, and no summary
\* of what was read so far survives.
Raise ==
    /\ pc = "pull" /\ Ending(source, strict) \in Exceptions
    /\ outcome' = Ending(source, strict)
    /\ pc' = "done"
    /\ UNCHANGED <<vars, source, strict, packets, decoded>>

\* The detectors run on the complete list.
Detect ==
    /\ pc = "listed"
    /\ outcome' = "summary"
    /\ pc' = "done"
    /\ UNCHANGED <<vars, source, strict, packets, decoded>>

ANext ==
    \/ Skip
    \/ \E p \in Packets, ts \in Times : Pull(p, ts)
    \/ Yield
    \/ Exhaust
    \/ Raise
    \/ Detect

ASpec == AInit /\ [][ANext]_avars

-----------------------------------------------------------------------------

(* CompleteSummary: a summary covers the whole capture.  When the          *)
(* detectors have run, every decoded frame is in a flow they were given,   *)
(* and nothing is left behind in the table or in its ready list.           *)
CompleteSummary ==
    outcome = "summary" =>
        /\ handed = 1..decoded
        /\ Held(table) = 0 /\ ready = <<>>

(* TruncationIsClean: read_packets says that a capture cut short is read   *)
(* up to the cut by default.                                               *)
TruncationIsClean ==
    ~strict /\ source \in {"cut", "gzip cut"} => outcome \notin Exceptions
=============================================================================
