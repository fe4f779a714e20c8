# pcapinator in TLA+

This directory specifies and verifies the core of pcapinator: what it does to a
capture between the first byte of the file and the exit status. The modules are
written from the code under `src/src/pcapinator` (paths below are relative to
it); TLC checks each of them on small instances, and TLAPS proves, for every
instance, every safety property of the flow table and that it implements its
ledger, what its flows tell of real TCP connections, that summaries are complete
and exit statuses true, what a cut or strict mode changes of a file, what a cut
changes of a packet and of a DNS message, the passes over flows and over DNS events,
the ranking of the report, the period a beacon is given, and what is stripped of a
tunnel's names: every invariant the runs check.

Run from this directory:

    tlc -config flow_lifecycle.cfg MCFlowTable     # any run of PROJECT.json
    tlapm FlowTable_proofs.tla                     # the proofs

## 1. The system

pcapinator is one process and one thread. A run is a pipeline of generators:
packets are pulled out of the file, decoded, folded into flows; flows and DNS
events are collected in lists; when the capture has ended the detectors go
through the lists, and a report is rendered. Nothing is concurrent and nothing
persists. What is hard here is order: a capture is an arbitrary sequence of
frames, truncated, reordered, with false lengths, and a handful of bounded
tables has to come out right whatever it holds. The interactions that matter
are between the steps of one call (an `add` can finish four flows for four
reasons), between calls (a frame long ago decides what a frame now means),
between generators (what is pulled before what is yielded), and between the
analyses of one sitting in the menu.

| component | code | state it keeps | operations | what is hard | what makes it correct |
|---|---|---|---|---|---|
| flow table | `flows.py` | two ordered dictionaries of open flows, the ready list, a clock | `add`, `expire`, `close`, `len`, `ready` | reordered frames, tuple reuse, half-closed connections, ceiling, clock skew | every frame in one flow, once; connections not merged, gaps not bridged; orientation; the ceiling |
| analysis pipeline | `cli.py` analyse, `flows.py` assemble | counters, two suspended generators | pull, yield, drain | a reader that raises in mid-pipeline | a summary is of the whole capture or there is none |
| command line, menu | `cli.py` main, `menu.py` | exit status; nothing between analyses | run from the flags; analyse again and again | errors that nobody catches | an error is never a clean exit; analyses do not mix |
| capture readers | `pcap.py` | offset, byte order, interfaces of the section | one block or record at a time | files cut at any byte, false lengths | a cut loses packets off the end only; strict notices it |
| packet decoding | `layers/link.py`, `inet.py` | none (one packet at a time) | strip link, IP, extensions, transport | snaplen cuts, padding, fragments, offload | a cut packet is described as the whole one, or not at all; the fragments of a datagram share a key |
| DNS messages | `layers/dns.py` | offset, labels, pointers followed | question, record, label, pointer | compression loops, cut messages | terminates; resumes in place |
| DNS view | `dnsview.py` | none | lift a frame to an event | answers travel the other way | the client is the one who asks |
| DNS tunnel detector | `detect/dnstunnel.py` | a dictionary of parents | group, strip the routing, score | caps; names of different depth | totals of each parent are exact; what carries the data is not stripped |
| DGA detector | `detect/dga.py` | names seen, hits | score each name once | caps, suffixes | each generated domain a hit, once |
| beacon detector | `detect/beacon.py` | conversations, gaps, best fit so far | group, fit, score | missed callbacks, stragglers, ties, sampling, ports that change | conversations are whole; the period of a schedule is found |
| scan detector | `detect/scan.py` | totals per source and sweep axis | group, score | caps, completion order, what a flow says of an attempt | totals; served means accepted; no accusation without its cause |
| report | `report.py` | summary | severity, ranking, merging | domains to hosts, scope that lifts a score | one finding per host, the right host; only scope outranks a score |
| synthetic traffic, tools | `synth.py`, `tools/` | none | generate, evaluate, install | | |

How they interact: `read_packets` yields to `cli.analyse.frames`, which decodes,
lifts DNS events into a list as a side effect, and yields frames to
`flows.assemble`, which owns the flow table; `analyse` lists the flows, then
calls the detectors on both lists and the report on their results; `main` and
`menu.run` call `analyse` and translate what it returns or raises.

## 2. The modules

Abstract to detailed, and who uses whom (an arrow points at what is extended):

    FlowLedger <==implements== FlowTable <-- Analyse <-- Cli       Sources <-- Analyse
                               FlowTable <-- TcpCapture --> ScanGroups <-- FlowHunt

    CaptureReader     DnsMessage     Layers     BeaconFit     TunnelShape
    DnsNames <-- DnsHunt

    FlowTable <-- FlowTable_proofs
    Cli, TcpCapture, FlowTable_proofs <-- FlowUsers_proofs
    CaptureReader <-- CaptureReader_proofs
    Layers <-- Layers_proofs
    DnsMessage <-- DnsMessage_proofs
    FlowHunt <-- FlowHunt_proofs
    DnsHunt <-- DnsHunt_proofs
    TunnelShape, BeaconFit <-- FitAndShape_proofs

Each `MC*` module extends one of them with the values of its constants; mutated
definitions, which the mutation tests of the project substitute for the real
ones, stand directly before what they mutate and are marked `Mutant`.

**FlowTable** is the core. `table` is `_tcp` and `_other`, each a sequence of
states from the least to the most recently touched (an `OrderedDict` with
`move_to_end`); `ready` is `_ready`; `clock` is `_clock`. `log` and `handed` are
history: which frames were added, and which were handed out. An action is one
call: `Add` is `FlowTable.add` up to and including the sweep and the eviction at
its end, in three disjuncts for the first frame of a conversation, the next one,
and one that reuses the tuple of a finished or idle one; `Expire` and `Close` are
the other two. The helpers keep their names (`ReusesTuple`, `Reorient`, `Swap`,
`Swept`, `Capped`, `OpenFlow`). A frame carries protocol, endpoints, flags,
payload length, whether it is a fragment, and its time.

**FlowLedger** is what `FlowTable` promises: frames are entered into
conversations, conversations are finished whole, and collected once. It has no
times, tuples or ceilings. `FlowTable!KeepsLedger` instantiates it with the frame
sets of the open flows and of the ready ones.

**Analyse** composes the flow table with the two generators of `cli.analyse`.
`pc` says where the pipeline is suspended; a frame is pulled and added in one
action (`Pull`), because nothing observes the state in between, while the yield
of what became ready is another (`Yield`). **Sources** says what a capture can
be and how reading it ends, which exception included.

**TcpCapture** drives `FlowTable` with what real hosts send: a client and a
server with the states of TCP, a wire that loses segments, retransmission, resets,
closes in every order, a scanner whose host knows nothing of its SYNs, and a tap
that may start in the middle. The endpoints are not code of pcapinator; they are
there because what the flow table and the scan detector infer is only meaningful
against what the hosts did, which the history variables `of`, `accepted` and
`parted` keep. It ends where the scan detector begins: **ScanGroups** holds
`_served`, `_is_bare_syn` and the tests of `_Group.add` on one flow.

**FlowHunt** is the flow side of `analyse` after the capture: `find_beacons`
groups conversations, `find_scans` keeps totals along both axes, one flow per
step, then groups are scored and findings ranked. Scores are floating point: a
score is any grade within the bounds the shares set. The detectors sort their own
results, which `ranked` sorts again by the same key, so only `Ranked` is modelled.

**Cli** composes `Analyse` with `main` and the menu: exit statuses, which
exceptions are caught where, and repeated analyses in one process.

**CaptureReader** is `_iter_pcap` and `_iter_pcapng`: a file is the list of
blocks its length fields delimit and a number of bytes that are there. One file
is read three times (cut and strict, cut, whole), so a property can compare.

**Layers** is `decode`: link header, VLAN tags, IP header and its trimming,
extension headers, transport header, on lengths that may be false. A packet is
decoded cut, whole, and as the later fragment of the same datagram. Where a
fragment header stands in front of options, `FragmentsTogether` leaves the datagram
out: see below.

**DnsMessage** is `parse_dns` and `read_name` on real bytes, one label or pointer
per step, each message read cut and whole.

**DnsNames** and **DnsHunt** are the DNS side of `analyse`: events lifted from
frames, and the three passes over them (`_group`, `find_dga`, `_clients`), one
event per step, then `dga_findings`. A name is the sequence of its labels; which
domains look generated is a constant.

**TunnelShape** is the part of `score_domain` that decides what of a name
carries data: `_constant_depth` walks from the parent outwards, one place per
step, over labels nearly every query shares, and `_encoded` strips them.

**BeaconFit** is `score_group` up to the fit, and `_best_fit`, one candidate
period per step, the longest first. Gaps are multiples of 60, so that dividing by
each multiple up to `MAX_FOLD` is exact, and qualities are compared as fractions.
Nothing depends on the order of the gaps, so they are not sorted: `Kth` is the value
at a place in their order, by how many are below it and how many up to it, and the
check-ins missed are counted as the set of them.

## 3. What is checked

Safety properties are stated next to the code they are about, with a comment in
words. In each module the deepest are:

* FlowTable: `ExactlyOnce` (no frame lost or counted twice through reuse,
  teardown, sweep and eviction in one call), `ConnectionsApart` and `NoGapInside`
  (what may never share a flow), `InitiatorFirst` and `Tally` (orientation
  corrected late, with all counters and FIN flags moved), `DeferralBound` (what
  looking at the front only costs), `FinishedForAReason` (why a flow may leave the
  table), `KeepsLedger` (refinement).
* TcpCapture: `OneFlowPerConnection` and `NeverMixed` (what the table makes of a
  tuple against the connections that were really on it), `ServedMeansAccepted`,
  `SessionServed` and `StealthUnanswered` (what the scan detector infers against
  what the server did), `ClientAttempts` (an attempt is held against who made it).
* Analyse, Cli: `CompleteSummary`, which in `Cli` also says that an abandoned
  analysis leaves nothing to the next, `CleanExit`, and the liveness property
  `ComesBack`.
* CaptureReader, Layers, DnsMessage: what is read of a cut input is a prefix of,
  or the same as, what is read of the whole; `HonestDecoded` (as many headers as the
  limits allow are read, and padding is not data); `FragmentsTogether`; `Terminates`.
* FlowHunt: `TotalsAddUp`, `FindingsHaveCause`, `SilentSweepFound`,
  `OnlyScopeOutranks`.
* DnsHunt: `GroupsAddUp`, `HitsOnce`, `RightHost`. TunnelShape: `PayloadKept`,
  `OneRouting`, `RoutingAddsNothing`.
* BeaconFit: `MissesFolded` (a schedule kept more often than not is found with all
  its misses) and `StragglersForgiven` (a period looks perfect exactly when more than
  half of the folded gaps are on it, whatever schedules are mixed, and a few gaps off
  it are no skew).

Where a property has a premise or an exception, the exception is the code's: TLC
refutes the property without it, and its comment says what happens.

| run | what it shows | bounds, and why they are enough |
|---|---|---|
| `flow_lifecycle` | one TCP tuple, any order of its segments: counters, orientation, connection boundaries; refinement of the ledger | seven kinds of segment, five frames: handshake, FINs both ways and a frame more need five, as does a connection, a FIN and a reopening SYN out of order |
| `flow_capacity` | competing conversations, skewed timestamps: exactly once, the ceiling, deferral | two places for five conversations of both tables, one of which can be closed from both ends, reset and reopened; four frames, which hold two FINs, the frame after them and one more; times 0 to 2 with timeouts 2 and 1 and a skew of 1, so that timeouts fall, are met exactly and are missed by one, and a datagram can be late by its timeout |
| `tcp_capture` | two real endpoints, captured from any point on: connections against flows, and the scan detector's reading of them | two connections on one tuple, since a tuple is reused at least once; one segment with data or sent again; eight captured frames, which hold a connection from SYN to its last ACK and the start of the next |
| `cli` | the generator pipeline on eight kinds of source (whole, cut, malformed, a gzip stream cut, garbled or of a false checksum, a disk that fails, unreadable), run from the flags or again and again from the menu: summaries, exit statuses | a ceiling of one and three frames: eviction while something waits to be yielded; one undecodable packet; two analyses, since one is enough to leave something behind |
| `capture_reader` | readers, cut anywhere | four blocks: a section, its interface, a packet, and one that starts over; lengths are the real ones, limits scaled to 50 |
| `dns_message` | parser on all messages | five bytes behind a header of one, over root, labels, pointers backwards, to themselves and out of the message, reserved; caps scaled to 5 bytes and 2 pointers |
| `layers` | decoder | packets of true lengths with no header, as many as allowed and one more, of tags and of extension headers: the limits of the code, 4 and 8; payload and padding of 30 bytes, lengths below, at and above the truth |
| `flow_hunt` | grouping, scans, ranking over every completion order | four flows of eleven kinds among three hosts, of which a public one is declared local and an internal one is not: refused, silent, served, from changing ports, on both axes; caps of two targets and two starts are exceeded; two thresholds and six grades fall on every side of the bands of a severity, two of them within the band in which scope lifts one over the other |
| `dns_hunt` | detectors' passes | three events, three hosts, six names of different depth; caps of 2 parents, 1 record and 2 names are all exceeded |
| `tunnel_shape` | what is stripped of the names under one parent | six queries of eight names of one to four labels, four labels: with a share of 75 in 100, one of six may differ and two may not; a limit on depth of two is reached and passed |
| `beacon_fit` | fit | up to six gaps of 0 to 6 units: every multiple up to `MAX_FOLD` of a period that most gaps have, and as many gaps on a period as off it; a sample of 3 of them; `MIN_CONNECTIONS` scaled to 4 |

Deadlock is not checked where the system may stop: a capture ends, the program
exits, and the bounds of the model end every behaviour.

### Where the code and its documents disagree

One run, `gzip_cut`, checks a statement of a document that TLC refutes:
`pcap.py:69-72` says of `read_packets` that it reads captures "optionally gzipped"
and that "iteration stops cleanly at a truncation by default", but a gzip stream
cut short raises `EOFError` out of `pcap.py:91`, which nothing catches
(`TruncationIsClean`).

The others were met while modelling and have no run. The models contain the
behaviours, but for the estimate of the upload, and a property that one of them
touches names it as its premise or exception.

* `flows.py:235-237`: every fragment is keyed on addresses alone, so "Fragments
  therefore form their own flow". An IPv6 datagram with an options header behind
  the fragment header gives its fragments different protocols, so two keys.
* `flows.py:156`: a SYN-ACK is a SYN to the test on reuse. One sent again after
  the client has already sent its FIN splits a connection in two.
* `detect/scan.py:296`: a half-open probe whose SYN-ACK the server sends again has
  two packets in and SYN and ACK seen, and counts as served.
* `cli.py:89`: "so a DGA hit names a machine to go look at". A domain under a
  suffix of two labels is looked up under a key `_clients` never sets.
* `detect/beacon.py:185`: "Choose the period that best explains the observed gaps".
  Gaps of 60, 180, 180 are given the period 90: the median forgives the minority it
  does not explain, and the tie goes to the larger.
* `report.py:217`: the scope of a scan is found without the networks of
  `--local-net`, the scope of a beacon with them.
* `detect/dnstunnel.py:403`: names shorter than the routing are sliced with a
  negative end and keep labels of the routing.
* `detect/dnstunnel.py:39-41`: the estimate of the upload "stays a lower bound". It
  multiplies the distinct names by a mean length over all queries, which a long name
  asked again and again raises, so it can exceed what the names hold.
* `flows.py:197-199`: the sweep "never emits a live flow". A frame that lags the
  clock by its timeout is swept with its conversation by its own `add`
  (`FinishedForAReason` counts it as idle).
* `flows.py:9-10`: on equal timestamps the ceiling takes the TCP front even when it
  is the newest of all, where the comment says "least recently active".
* `cli.py:160`: an exception that `main` does not catch, as from a demo file that
  cannot be written, ends the program with status 1, which the help reserves for
  findings.

### Fairness

Only `Cli` and `DnsMessage` state liveness. The program has one thread
and `list()` pulls the generators until they are exhausted, so a step of the
analysis that can be taken is taken: weak fairness, in `Cli`, on the pipeline once
`analyse` was called (a file is finite, and so are the frames of the model), on
rendering its summary and on the two ways an exception goes. What a person picks
in the menu is not assumed to happen. In `DnsMessage` the
loop of the parser itself runs: weak fairness of `Next`.

## 4. What is proved

The theorems about the flow table hold for all `Packets`, `Times`, timeouts,
`MaxFlows`, `Skew` and `MaxFrames` that satisfy the assumptions of `FlowTable`, and
those about the pipeline for every `MaxSkipped` and `MaxRuns` besides. Those about
captures of TCP hold for any number of connections on the tuple and of segments
sent again, any ceiling and any `SESSION_PAYLOAD`, under `CaptureAssumption` (the
packets of the flow table include those the endpoints send, and time 0). The other
assumptions are those of the code: positive timeouts and ceiling (the two
`ValueError`s of the constructor), flags on TCP frames only (the parsers set no
others), natural times, and a skew that bounds how far a frame lags the clock.
Those about the readers hold for every set of blocks and records and both limits
(`BlocksAssumption`, `LimitsAssumption`: a record is 16 bytes longer than what it
captures, and only libpcap files have records). Those about the decoder hold for
every set of packets and both limits (`PacketsAssumption`, `LimitsAssumption` of
`Layers`), those about the DNS parser for all messages and headers and every length
of the format, under `MessagesAssumption`, `HeadersAssumption` and
`LengthsAssumption` (bytes are bytes, counts are naturals, and a record has room for
its `rdlength`). Those about the passes over flows
hold for every set of flows, kind of each address, declared networks, threshold and
all limits, under `FlowsAssumption` (no flow ends before it starts, and there is no
payload without a packet: `FlowTable.add` moves `start` down and `end` up from the
time of the first frame, and counts a packet with its payload) and `HuntAssumption`. Two parts of that one order constants
of the code, and both are needed: `MIN_FANOUT <= MAX_TARGETS` (10 against 65536), or
the cap would keep every sweep below the gate, and `PROBE_PAYLOAD <= SESSION_PAYLOAD`
(64 against 1024), or a silent probe could count as served. Those about DNS events
hold for every set of names, hosts and generated domains and all three caps
(`NamesAssumption`, `GeneratedAssumption`: a name is a sequence of labels, and the
empty one was not generated); those about tunnels for every set of names and labels,
share and limit that satisfy `ShapeAssumption`; those about the period of a beacon
for every set of gaps, any number of candidates sampled and any number of flows
(`GapsAssumption`: gaps are naturals, at least one is sampled, and `MIN_CONNECTIONS`
is two or more). The multiples up to `MAX_FOLD` and the tolerance are those of the
code.

| module | theorem | statement |
|---|---|---|
| `FlowTable_proofs` | `TypeCorrect` | `Spec => []TypeOK` |
| | `CeilingGuarantee` | `Spec => []CapHolds` |
| | `TablesInActivityOrder` | `Spec => []ActivityOrder` |
| | `DeferralIsBounded` | `Spec => []DeferralBound` |
| | `NothingLostOrDoubled` | `Spec => [](IInv /\ Once)` |
| | `EveryFrameOnce` | `Spec => []ExactlyOnce` |
| | `ImplementsLedger` | `Spec => KeepsLedger` |
| | `LedgerPartition` | `Spec => []Ledger!Partition` |
| | `FlowsDescribeFrames` | `Spec => [](IInv /\ HInv)` |
| | `FlowsTally` | `Spec => []Tally` |
| | `OrientedByFirst` | `Spec => []InitiatorFirst` |
| | `ConnectionsKeptApart` | `Spec => []ConnectionsApart` |
| | `IdleGapsSplit` | `Spec => []NoGapInside` |
| | `NoFlowLeavesWithoutCause` | `Spec => FinishedForAReason` |
| `FlowUsers_proofs` | `SummaryIsComplete` | `ASpec => []CompleteSummary` |
| | `EverySummaryComplete` | `CliSpec => []CompleteSummary` |
| | `ExitStatusBelieved` | `CliSpec => []CleanExit` |
| | `CaptureInvariant` | `TSpec => []TcpInv` |
| | `OneFlowEach` | `TSpec => []OneFlowPerConnection` |
| | `ConnectionsNotMixed` | `TSpec => []NeverMixed` |
| | `AttemptsOfClients` | `TSpec => []ClientAttempts` |
| | `StealthIsSilent` | `TSpec => []StealthUnanswered` |
| | `SessionsServed` | `TSpec => []SessionServed` |
| | `ServedAreAccepted` | `TSpec => []ServedMeansAccepted` |
| `CaptureReader_proofs` | `ReadingsDescribed` | `Spec => []CInv` |
| | `CutLosesTheEnd` | `Spec => []CutKeepsPrefix` |
| | `StrictReadsTheSame` | `Spec => []StrictAgrees` |
| | `PacketsOfTheirSection` | `Spec => []OwnInterface` |
| `Layers_proofs` | `WalkDecodes` | `Spec => []WalkIsOutcome` |
| | `CutIsDescribedSame` | `Spec => []CutDescribesSame` |
| | `HonestIsDecoded` | `Spec => []HonestDecoded` |
| | `FragmentsAreTogether` | `Spec => []FragmentsTogether` |
| `DnsMessage_proofs` | `NamesResume` | `Spec => []ResumesInPlace` |
| | `CutInventsNothing` | `Spec => []CutKeepsPrefix` |
| `FlowHunt_proofs` | `HuntInvariant` | `Spec => []HInv` |
| | `EveryFlowCounted` | `Spec => []TotalsAddUp` |
| | `AccusedOnOwnTraffic` | `Spec => []FindingsHaveCause` |
| | `SilentSweepsReported` | `Spec => []SilentSweepFound` |
| | `RankedByScoreAndScope` | `Spec => []OnlyScopeOutranks` |
| `DnsHunt_proofs` | `PassesAgree` | `Spec => []DInv` |
| | `KeptParentsComplete` | `Spec => []GroupsAddUp` |
| | `HitsAreDistinct` | `Spec => []HitsOnce` |
| | `FindingsNameTheAsker` | `Spec => []RightHost` |
| `FitAndShape_proofs` | `PayloadSurvives` | `Spec => []PayloadKept` |
| | `RoutingIsOneName` | `Spec => []OneRouting` |
| | `PrefixGainsNothing` | `Spec => []RoutingAddsNothing` |
| | `MissesAreFolded` | `FitSpec => []MissesFolded` |
| | `StragglersAreForgiven` | `FitSpec => []StragglersForgiven` |

**The table.** The first four follow from `Invariance`, `Spec => []IInv`, where
`IInv` is the conjunction of the four. None but the type invariant is inductive
alone. `DeferralBound` says that nothing has been idle by its timeout and the skew;
a sweep stops at the first fresh state, so that needs the states behind the front
to be no older than it by more than the skew, which is `ActivityOrder` (stated for
the proof, and checked by no run). `ActivityOrder` in turn survives an `add`
because a touched state moves to the end with an end no earlier than the clock less
the skew. `CapHolds` needs one more fact, that an `add` brings at most one state and
that eviction then takes exactly one away (`CappedFacts`). The proof follows the
code: lemmas on the helpers (`OpenFlowFacts`, `SwapFacts`, `ReorientFacts`,
`CountedFacts`, `SweptFacts`, `CappedFacts`), then one lemma per action (`AddInv`,
`ExpireInv`, `CloseInv`). `Swept` drops the longest run of idle states; the only
induction needed is that a nonempty set of naturals has a least element
(`MinOfNaturals`), from the library's well-foundedness of the naturals.

**Exactly once.** `ExactlyOnce` is not inductive: it says that the flows known are
disjoint and hold every frame, and a step that moves a state twice may break
neither at once. `Once` counts instead: for every number, the states of either
table that have it, the flows that are ready and have it, and whether it was handed
out add up to one for a frame of the capture and to nothing for any other. Each
helper has a lemma on how it moves the count (a sweep or an eviction moves what it
takes from the tables to the ready list, `Without` takes one state away), and an
`add` is the sum of what its parts do: the count of the frame that arrives goes from
nothing to one and no other changes.

**What a flow says of its frames.** `Tally` and the three properties after it are
about a flow and its frames, so the invariant is about one state and the log:
`HInv` says `StateInv` of every state of either table and `FlowInv` of every flow
that is ready. The frames of a state are no longer in the step that adds one to it,
only what the state recorded, so `StateInv` also holds what the record leaves
implicit: which of its frames set the FIN marks and the orientation (`Marks`), that
no frame of an open flow carries a reset (`Running`), that none comes a timeout or
more after all those before it (`Steady`).
`SettleSources` says where the states of the next table come from (a state that was
there, or the one the frame was counted into) and why a flow became ready; the
second half says that opening, turning round, counting and marking keep `StateInv`.
The ready flows are in `HInv` because nothing changes them. `FinishedForAReason` is
`SettleSources` again, read as an action property. The bytes a set of frames carries
are the cardinality of a set of numbered bytes, not a sum over the frames: it says
the same, and what one more frame adds follows from the disjoint union.

**The ledger.** `ImplementsLedger` maps every `add` to the entry of its frame and
the finishing of what `add` finishes, `Expire` and `Close` to a collection. It rests
on `Once`, since the ledger keeps sets where the table keeps sequences, and on no
known flow being empty. `LedgerPartition` then says what a caller can rely on.

**The pipeline and the exit status.** `AInv` adds to the above that the counter of
decoded frames is the length of the log and that nothing is held once the flows are
listed; with the tables and the ready list empty, `Once` leaves a frame no place
but among what was handed out (`AllHanded`). Over the command line, `ExitsHonestly`
says of each state of `main` what may have been rendered and with which status the
flags can have exited. A restart re-establishes `AInv` from any state
(`RestartInv`), which is why nothing of an abandoned analysis shows in the next.

**Captures of TCP.** The six properties of `TcpCapture` relate a flow, which is some
frames of one tuple, to the connections those frames are of. `TcpInv` has three
parts, one for each thing that lies between. `TableInv` adds `Single` to what is
proved of the table: with one tuple and no time passing there is at most one state,
it holds every frame since its first (`Current`), and each flow that has left ended
where the capture shows it (`Ended`: a reset, the frame after a FIN from each side,
or a SYN behind it with a FIN in it). So flows are runs of the capture, one after
the other (`RunsInOrder`). `EndInv` is about the hosts: while the client waits
for its answer, nothing but SYNs is on the wire from it; a SYN on the wire stands
before all else; in both cases the server has not opened; and a server that has
opened has accepted. Each of its
conjuncts is there because another needs it when a segment arrives late or twice.
`LogInv` is what that leaves in the capture, in which a step is a frame at its end:
connections come in turn and each begins with a SYN, no SYN follows a FIN but a
SYN-ACK sent again to a client that closed (`NoReopen`), what a server says besides
handshakes and resets it says when it has accepted (`Accepting`), and who closed
has its FIN there (`Parting`). Its `Unclosed` carries from the hosts to `NoReopen`:
who is still opening has not closed. A step of either end is put in one form
(`ClientMove`, `ServerMove`: what it sends, what it takes off the wire, when it may
open), so that each part of the invariant is shown once for both ends and not once
for each action. The properties are then about runs of such a capture: a SYN in a
flow names the client (`NamedClient`), what starts a flow in the middle of a
connection stands behind an end the capture has shown (`BeginsAfter`), and a flow
with data or a second packet from the server has a frame that only a server which
accepted sends (`ServiceIn`).

**The readers.** Neither `CutKeepsPrefix` nor `StrictAgrees` says anything while a
reading is under way, so neither is inductive, and no step of one reading knows of
another. `CInv` relates each reading to the file instead. What a block that is
there leaves in a reader does not depend on the mode (`Described`, `Yielded`, and
`TakesBeyond`, which goes through the seven actions that take a block); so a reader
has a `History`, the states at each block that file alone determines. Two readings
with histories agree up to the block where the first of them stopped (`SameStates`,
by a least counterexample), and the packets of the one that stopped there start
those of the other (`OutsAgree`). Which of the two that is, `Further` says: the
reading that has more of the file and is not strict cannot have stopped at a block
the other went past, by `Passed` (what a reading found of the blocks behind it)
against `Ceased` (why a reading stops). `OwnInterface` follows from `InSection`: the
interfaces a reader holds are, one by one and by their number, those described since
the last section header. An offset is the number of bytes before it, the cardinality
of a set of numbered bytes, for the same reason as above.

**The decoder.** The properties of `Layers` compare decodings that have ended, so
the invariant says of each decoding how far it is. `Outcome` is what a packet as a
whole says of its first n bytes, written without the walk: the layers it is read
through, each a condition on lengths. `Progress` says that a decoding under way has
passed the layers before its own and is at the offset their lengths add up to, and
that one that has ended has come to the outcome; a tag or an extension header is one
step of it, so nothing has to be summed over a chain. The three properties are then
about `Outcome` alone: a cut leaves less of the packet for the same conditions, what
is honest meets them all, and two fragments differ in what follows the header that
says so. The length of a chain up to a header is the cardinality of a set of numbered
bytes.

**The DNS parser.** `ResumesInPlace` is about where items lie, and an item is
appended only when its name is complete. While a name is read, the end of its own
place is that of the place the parser is at, until the first pointer fixes it
(`InName`); `EndFacts` is the step of one label. `EndInPlace` is a recursive function,
and that its equation has a solution is shown from the last byte of the message
backwards (`SolvedBackwards`, with a greatest counterexample for the induction).
`CutKeepsPrefix` compares two readings. The state a step goes on to does not depend
on how much of the message is there (`After`), and more of it never gives less to go
on to (`GoesMore`), so the invariant keeps the states the cut reading went through
(`Walk`) and says that the whole one is at one of them or has got beyond the last
(`Beyond`), which no later step takes back.

**The passes over flows.** The three dictionaries grow in the same way, so what one
holds after k flows is said once: `Keyed` (the keys of those flows, each once),
`Orders` (a conversation lists the flows of its key in their order, which is by rank)
and `Counted` (the totals of a sweep, its targets up to the cap, its first starts).
Keys and aims are functions on the positions of the flows; `TalkGrows` and
`SweepGrows` are the step of one more flow. The rest of `HInv` carries this to the
findings. Once the groups are scored they are no longer in step with anything, so
`LeftInv` says that what is left to score are groups of that pass, `CauseInv` that
the cause of each finding is in the flows, and `Pending` that a group no score can
pass over (`Due`: fan-out enough, nothing served, all quiet) is still to be scored
or was reported. The last is what makes `SilentSweepFound` an invariant. From the
totals to the score it is arithmetic: a score within the bounds of the two shares is
at most the share of attempts in vain (`ShareOfAttempts`), and a group that is due
cannot score below a half (`DueIsScored`). `SpanInWindow` needs the greatest and the least of finitely many times, by a least counterexample.
`OnlyScopeOutranks` is about the list after sorting: every place of `Ranked` is
taken once because `Before` is a total order on the positions (`RankedInOrder`), and
a higher score with a worse severity leaves only the scope.

**The DNS passes.** `DInv` says what the table of each pass holds of the first k
events, for `k` the events gone through, and keeps saying it of all of them once the
pass is over. The caps are the difficulty: a table that is not full holds everything
it should, one that is full may have turned anything away, and a parent or name that
is in it was in it from its first event, since nothing leaves. `HitsOnce` and
`GroupsAddUp` read off the pass at its end. `RightHost` combines the last two
passes: a hit was asked for under a key the client table has, and the table gives
for it the client of one event.

**The shape of a tunnel.** That the last place stripped was `Routing` is all
`PayloadKept` needs: the queries that made it so all go on beyond it. `OneRouting`
needs the places taken together. `Together` says that the queries with the same
labels in every place so far are all but the share that may miss each of them; one
place more intersects two sets of queries, which costs at most what the second
misses (`TogetherDeeper`). `RoutingAddsNothing` compares two walks over different
names: with a label hung under the parent, place 0 is routing because all share it,
and each place after it is what the place before was without the label.

**The period of a beacon.** That the k-th value in the order exists (`KthIs`) and
grows with k (`KthGrows`) follows from counting what is below it, with a least
natural. `KthCommon` then says what robustness means: a value that all but few of
the gaps have stands at every place that is not among the last few at either end;
medians and quartiles are such places (`MedianCommon`, `QuantileCommon`), and a
median is above zero as soon as half of its values are (`MedianAbove`). That gives
`StragglersForgiven`, since whatever fit is best is the fit of some candidate
(`Found`). `MissesFolded` needs the whole run of `_best_fit`. A period that most
gaps have and all are multiples of is the shortest gap, so it is sampled
whatever the sample (`OwnCandidate`); it explains every gap without deviation
(`OwnFit`), a longer one leaves a gap out or deviates at more than half of them and
so explains strictly less (`LongerIsWorse`), and none explains more (`FitExplains`).
`Chosen` is the invariant: while it is not tried the best fit is one that a full one
beats, from then on it is the best. The order of the candidates is part of it: half
the period can explain as much, and what is tried later does not win a tie.

Only model-checked: liveness under fairness (`ComesBack`, `Terminates`) and ENABLED,
which are out of the prover's reach, as is induction over data. Every invariant and
every other action property the runs check is proved.

## 5. What is not modelled

* Floating-point scores: of a beacon (coverage, size and payload consistency), of a
  scan (rate and uniformity of its starts, the logarithm of its fan-out), of a
  tunnel (entropy, capacity), of a generated name. TLC has no reals. `FlowHunt` lets
  a score be anything within the bounds that the exact shares set; `BeaconFit`
  compares fits as fractions; elsewhere no property depends on a threshold.
* The samples a tunnel finding shows and the cut of a payload at
  `MAX_ENCODED_CHARS`; the label `HALF_OPEN` of a scan.
* The bigram table (`detect/bigrams.py`): generated data.
* Timestamps and interface options of the readers (`_parse_options`, `_ts_units`),
  and so the time 0.0 of a simple packet block (`pcap.py:252`): the modules behind
  the readers take frames at any time, zero included.
* Decompression itself; rendering, prompts, path clean-up, colours: layout and pure
  input/output.
* `synth.py`, `tools/`: a generator of test data and offline scripts, which keep no
  state and which nothing in an analysis depends on.
* `bytes_out` and `bytes_in` of a flow, which move with the payload counters.
* A label that holds a literal dot or white space (`registrable` strips a name at
  `dga.py:316`), and names past 255 characters, in DnsNames: no property compares
  such a name with another.
* Sequence numbers in TcpCapture: a delayed segment of an old connection cannot meet
  a new one, which TIME_WAIT is there to prevent; what the flow table does with such
  a capture is in `flow_lifecycle`, where segments come in any order.

## 6. Plan

Written first, because the rest of the program stands on it: FlowTable, its
ledger and its proofs; then the pipeline and the command line that drive it; the
parsers; the passes over flows and DNS events; the fit and the shape of a tunnel;
the composition with real TCP endpoints; the refinement, the
pipeline, all of the flow table and what it makes of real TCP, the readers, the
decoder, the DNS parser, the passes over flows and DNS events, the period of a
beacon and the shape of a tunnel proved. Next: the readers' timestamps, options and
resolution.
