--------------------------- MODULE CaptureReader ---------------------------
(***************************************************************************)
(* The readers of src/pcapinator/pcap.py.  A file is the sequence of       *)
(* blocks its own length fields delimit: after the 24 bytes of a libpcap   *)
(* header, records; in pcapng, section headers (SHB), interface            *)
(* descriptions (IDB), enhanced, obsolete and simple packet blocks (EPB,   *)
(* PB, SPB) and others.  It may be cut short after any byte.               *)
(*                                                                         *)
(* The same file is read three times, one reading after the other: cut, in *)
(* strict mode; cut, by default; and whole, by default.  The readings      *)
(* share nothing, so their order does not matter; together they let a      *)
(* property compare what a cut or the mode changes.                        *)
(***************************************************************************)
EXTENDS Integers, SequencesExt

CONSTANTS
    Blocks,           \* the blocks pcapng files are made of
    Records,          \* the records libpcap files are made of
    MaxBlocks,        \* bound of the model: blocks or records in a file
    MaxPacketBytes,   \* MAX_PACKET_BYTES
    MaxBlockBytes     \* MAX_BLOCK_BYTES

\* total is the length a block declares, or 16 and the captured length of a
\* record; bom says whether an SHB holds a byte-order magic.
Block == [kind : {"REC", "SHB", "IDB", "EPB", "PB", "SPB", "other"},
          total : Nat, bom : BOOLEAN, linktype : Nat, snaplen : Nat,
          iface : Nat, caplen : Nat]

ASSUME BlocksAssumption ==
    /\ Blocks \subseteq Block /\ \A b \in Blocks : b.kind # "REC"
    /\ Records \subseteq Block
    /\ \A b \in Records : b.kind = "REC" /\ b.total = 16 + b.caplen

ASSUME LimitsAssumption ==
    MaxBlocks \in Nat /\ MaxPacketBytes \in Nat /\ MaxBlockBytes \in Nat \ (0..27)

VARIABLES
    format,   \* what the magic says: "pcap" or "pcapng"
    file,     \* its blocks
    size,     \* the bytes of it that are there
    reader    \* the state of each reading

vars == <<format, file, size, reader>>

Readings == <<"strict", "default", "whole">>

HeaderBytes == IF format = "pcap" THEN 24 ELSE 0

\* The offset at which n blocks have gone by: the header, and every byte of
\* theirs, numbered in its block.
Offset(n) == HeaderBytes + Cardinality(UNION {{i} \X (1..file[i].total) : i \in 1..n})

Whole == Offset(Len(file))

Present(m) == IF m = "whole" THEN Whole ELSE size

\* The magic of a pcapng file is the type of its first section header, so
\* there is always a byte order by the time another block is read.
Init ==
    /\ \/ format = "pcap"   /\ file \in SeqOf(Records, MaxBlocks)
       \/ format = "pcapng" /\ file \in SeqOf(Blocks, MaxBlocks)
                            /\ file # <<>> /\ file[1].kind = "SHB"
    /\ size \in 0..Whole
    /\ reader = [m \in ToSet(Readings) |->
                   [block |-> 1, pos |-> HeaderBytes, interfaces |-> <<>>,
                    out |-> <<>>, status |-> "new"]]

-----------------------------------------------------------------------------

Finished(m) == reader[m].status \in {"ended", "error"}

\* The readings take turns in their order.
Turn(m) ==
    /\ ~Finished(m)
    /\ \A i, j \in 1..Len(Readings) :
          i < j /\ Readings[j] = m => Finished(Readings[i])

Stop(m, status) ==
    /\ reader' = [reader EXCEPT ![m].status = status]
    /\ UNCHANGED <<format, file, size>>

\* A read that came back short: an error only in strict mode.
StopShort(m) == Stop(m, IF m = "strict" THEN "error" ELSE "ended")

\* read_packets: the magic, and for libpcap the rest of the file header.
Open(m) ==
    /\ Turn(m) /\ reader[m].status = "new"
    /\ Stop(m, IF Present(m) < 4 \/ Present(m) < HeaderBytes
               THEN "error" ELSE "reading")

At(m)    == file[reader[m].block]
Avail(m) == Present(m) - reader[m].pos

Reading(m) == Turn(m) /\ reader[m].status = "reading"

EndOfFile(m) ==
    /\ Reading(m) /\ Avail(m) = 0
    /\ Stop(m, "ended")

\* What is read of a block before its length is looked at.
LengthBytes(b) ==
    CASE b.kind = "REC" -> 16
      [] b.kind = "SHB" -> 12
      [] OTHER -> 8

Plausible(b) ==
    CASE b.kind = "REC" -> b.caplen <= MaxPacketBytes
      [] b.kind = "SHB" -> b.bom /\ b.total \in 28..MaxBlockBytes
      [] OTHER -> b.total \in 12..MaxBlockBytes

\* The file ends before what is checked next could be read.
Short(m) ==
    \/ Avail(m) < LengthBytes(At(m))
    \/ Plausible(At(m)) /\ Avail(m) < At(m).total

\* Mutant: a cut yields half a packet.
CutYieldsRest(m) ==
    /\ Reading(m) /\ Avail(m) > 0 /\ Short(m)
    /\ reader' = [reader EXCEPT ![m].status = "ended",
                                ![m].out = Append(@, [block |-> reader[m].block,
                                     linktype |-> 0, caplen |-> Avail(m)])]
    /\ UNCHANGED <<format, file, size>>

Cut(m) ==
    /\ Reading(m) /\ Avail(m) > 0 /\ Short(m)
    /\ StopShort(m)

\* A bad byte-order magic or a length out of bounds.
Refuse(m) ==
    /\ Reading(m) /\ Avail(m) > 0 /\ ~Short(m) /\ ~Plausible(At(m))
    /\ Stop(m, "error")

Complete(m, kinds) ==
    /\ Reading(m) /\ Avail(m) > 0 /\ ~Short(m)
    /\ Plausible(At(m)) /\ At(m).kind \in kinds

\* Goes on behind the block, with what it leaves in the reader.
Take(m, interfaces, packets) ==
    /\ reader' = [reader EXCEPT ![m].block = @ + 1,
                                ![m].pos = @ + At(m).total,
                                ![m].interfaces = interfaces,
                                ![m].out = @ \o packets]
    /\ UNCHANGED <<format, file, size>>

Body(b) == b.total - 12

Packet(m, linktype, caplen) ==
    <<[block |-> reader[m].block, linktype |-> linktype, caplen |-> caplen]>>

Record(m) ==
    /\ Complete(m, {"REC"})
    /\ Take(m, <<>>, Packet(m, 0, At(m).caplen))

\* Mutant: a new section keeps the interfaces of the one before.
SectionKeeps(m) ==
    /\ Complete(m, {"SHB"})
    /\ Take(m, reader[m].interfaces, <<>>)

Section(m) ==
    /\ Complete(m, {"SHB"})
    /\ Take(m, <<>>, <<>>)

\* A description too short for its fixed fields is skipped.
Interface(m) ==
    /\ Complete(m, {"IDB"})
    /\ Take(m, IF Body(At(m)) < 8 THEN reader[m].interfaces
               ELSE Append(reader[m].interfaces,
                           [linktype |-> At(m).linktype, snaplen |-> At(m).snaplen]),
            <<>>)

Declared(m) == At(m).iface < Len(reader[m].interfaces)

\* Mutant: strict mode skips what it should refuse.
EnhancedLax(m) ==
    LET b == At(m) IN
    /\ Complete(m, {"EPB", "PB"})
    /\ Body(b) >= 20 => Declared(m)
    /\ IF Body(b) < 20 THEN Take(m, reader[m].interfaces, <<>>)
       ELSE Take(m, reader[m].interfaces,
                 Packet(m, reader[m].interfaces[b.iface + 1].linktype,
                        IF m = "strict" THEN b.caplen
                        ELSE Min({b.caplen, Body(b) - 20})))

\* A packet whose interface and length its section and block bear out; by
\* default a length beyond the block is clipped to it.
Enhanced(m) ==
    LET b == At(m) IN
    /\ Complete(m, {"EPB", "PB"})
    /\ Body(b) >= 20 /\ Declared(m)
    /\ b.caplen > Body(b) - 20 => m # "strict"
    /\ Take(m, reader[m].interfaces,
            Packet(m, reader[m].interfaces[b.iface + 1].linktype,
                   Min({b.caplen, Body(b) - 20})))

\* Too short for its fixed fields, or of an interface no one declared.
EnhancedSkipped(m) ==
    /\ Complete(m, {"EPB", "PB"})
    /\ Body(At(m)) < 20 \/ (~Declared(m) /\ m # "strict")
    /\ Take(m, reader[m].interfaces, <<>>)

EnhancedRefused(m) ==
    /\ Complete(m, {"EPB", "PB"}) /\ m = "strict"
    /\ Body(At(m)) >= 20
    /\ ~Declared(m) \/ At(m).caplen > Body(At(m)) - 20
    /\ Stop(m, "error")

\* A simple packet belongs to interface 0 and is bounded by its block and
\* by the snaplen; caplen stands for the wire length it states.
Simple(m) ==
    LET b == At(m)
        i == reader[m].interfaces
    IN
    /\ Complete(m, {"SPB"})
    /\ Take(m, i,
            IF Body(b) < 4 \/ i = <<>> THEN <<>>
            ELSE Packet(m, i[1].linktype,
                        Min({b.caplen, Body(b) - 4}
                            \cup (IF i[1].snaplen = 0 THEN {} ELSE {i[1].snaplen}))))

Other(m) ==
    /\ Complete(m, {"other"})
    /\ Take(m, reader[m].interfaces, <<>>)

Step(m) ==
    \/ Open(m) \/ EndOfFile(m) \/ Cut(m) \/ Refuse(m)
    \/ Record(m) \/ Section(m) \/ Interface(m)
    \/ Enhanced(m) \/ EnhancedSkipped(m) \/ EnhancedRefused(m)
    \/ Simple(m) \/ Other(m)

Next == \E m \in ToSet(Readings) : Step(m)

Spec == Init /\ [][Next]_vars

-----------------------------------------------------------------------------

Out(m)    == reader[m].out
Status(m) == reader[m].status

\* Where a cut leaves only whole blocks.
Boundaries == {Offset(n) : n \in 0..Len(file)}

(* CutKeepsPrefix: cutting a capture short loses packets off its end only: *)
(* what is read up to the cut is what the whole capture starts with, and   *)
(* the cut is no error unless not even the file header is left.            *)
CutKeepsPrefix ==
    Finished("whole") =>
        /\ IsPrefix(Out("default"), Out("whole"))
        /\ Status("default") = "error" =>
              Status("whole") = "error" \/ size < 4 \/ size < HeaderBytes

(* StrictAgrees: strict mode changes no packet.  It may stop earlier, with *)
(* an error; when it does not, both modes have read the same, and the      *)
(* capture was not cut inside a block.                                     *)
StrictAgrees ==
    Finished("default") =>
        /\ IsPrefix(Out("strict"), Out("default"))
        /\ Status("strict") = "ended" =>
              /\ Out("strict") = Out("default") /\ Status("default") = "ended"
              /\ size \in Boundaries
        /\ Status("default") = "error" => Status("strict") = "error"

\* The section block k is in starts at the last SHB before it.
SectionOf(k) == Max({j \in 1..k : file[j].kind = "SHB"})

\* The interfaces described in that section up to block k.
DescribedBefore(k) ==
    {j \in SectionOf(k)..k : file[j].kind = "IDB" /\ Body(file[j]) >= 8}

\* Block j describes the nth interface of the section, as of block k.
Describes(j, n, k) ==
    j \in DescribedBefore(k) /\ Cardinality({i \in DescribedBefore(k) : i <= j}) = n

(* OwnInterface: a packet is decoded by the link type of the interface its *)
(* number means in its own section, however many sections the file has.    *)
OwnInterface ==
    format = "pcapng" => \A m \in ToSet(Readings) : \A i \in 1..Len(Out(m)) :
        LET k == Out(m)[i].block
            n == IF file[k].kind = "SPB" THEN 1 ELSE file[k].iface + 1
        IN  \E j \in 1..k : Describes(j, n, k) /\ Out(m)[i].linktype = file[j].linktype
=============================================================================
