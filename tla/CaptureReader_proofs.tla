------------------------- MODULE CaptureReader_proofs -------------------------
(***************************************************************************)
(* Theorems about the readers, for every file of every length, cut after   *)
(* any of its bytes: what a cut and strict mode change, and whose          *)
(* interface a packet is decoded by.                                       *)
(*                                                                         *)
(* Two readings are compared through the file.  What a block that is there *)
(* leaves in a reader does not depend on the mode (Described, Yielded), so *)
(* two readings have gone through the same states up to the block where    *)
(* the first of them stopped (SameStates).  Which of them that is follows  *)
(* from why a reading stops (Ceased) and from what it has found of the     *)
(* blocks behind it (Passed).                                              *)
(***************************************************************************)
EXTENDS CaptureReader, SequenceTheorems, FiniteSetTheorems, TLAPS

Modes == {"strict", "default", "whole"}

Declaration == [linktype : Nat, snaplen : Nat]
Read        == [block : Nat, linktype : Nat, caplen : Int]

ReaderState == [block : Nat \ {0}, pos : Nat, interfaces : Seq(Declaration),
                out : Seq(Read), status : {"new", "reading", "ended", "error"}]

\* The interfaces of the section when b has gone by.
Described(i, b) ==
    IF b.kind \in {"REC", "SHB"} THEN <<>>
    ELSE IF b.kind = "IDB" /\ Body(b) >= 8
    THEN Append(i, [linktype |-> b.linktype, snaplen |-> b.snaplen]) ELSE i

\* The bytes taken from b, the block of a packet of interface d.
Captured(b, d) ==
    CASE b.kind = "REC" -> b.caplen
      [] b.kind = "SPB" -> Min({b.caplen, Body(b) - 4}
                               \cup (IF d.snaplen = 0 THEN {} ELSE {d.snaplen}))
      [] OTHER -> Min({b.caplen, Body(b) - 20})

\* The place in the section of the interface a packet names.
Named(b) == IF b.kind = "SPB" THEN 1 ELSE b.iface + 1

HoldsPacket(b, i) ==
    \/ b.kind \in {"EPB", "PB"} /\ Body(b) >= 20 /\ b.iface < Len(i)
    \/ b.kind = "SPB" /\ Body(b) >= 4 /\ i # <<>>

\* The packets block k yields.
Yielded(k, i) ==
    LET b == file[k] IN
    IF b.kind = "REC"
    THEN <<[block |-> k, linktype |-> 0, caplen |-> b.caplen]>>
    ELSE IF HoldsPacket(b, i)
    THEN <<[block |-> k, linktype |-> i[Named(b)].linktype,
            caplen |-> Captured(b, i[Named(b)])]>>
    ELSE <<>>

\* t are the states a reader goes through up to block k, where it holds
\* interfaces i and has yielded out.
History(t, k, i, out) ==
    /\ t \in [1..k -> [interfaces : Seq(Declaration), out : Seq(Read)]]
    /\ t[1] = [interfaces |-> <<>>, out |-> <<>>]
    /\ \A n \in 1..k - 1 :
          t[n + 1] = [interfaces |-> Described(t[n].interfaces, file[n]),
                      out |-> t[n].out \o Yielded(n, t[n].interfaces)]
    /\ t[k] = [interfaces |-> i, out |-> out]

Opens(m) == Present(m) >= 4 /\ Present(m) >= HeaderBytes

\* What reading m found of the blocks it has gone past.
Passed(m) ==
    \A n \in 1..reader[m].block - 1 :
        /\ Plausible(file[n])
        /\ Present(m) >= Offset(n - 1) + LengthBytes(file[n])
        /\ Present(m) >= Offset(n)

\* Why reading m has stopped.
Ceased(m) ==
    /\ reader[m].status = "ended" =>
          Avail(m) = 0 \/ (m # "strict" /\ Avail(m) > 0 /\ Short(m))
    /\ reader[m].status = "error" =>
          \/ m = "strict"
          \/ ~Opens(m) /\ reader[m].block = 1
          \/ Opens(m) /\ Avail(m) > 0 /\ ~Short(m) /\ ~Plausible(At(m))

Place(m) ==
    /\ reader[m].block \in 1..Len(file) + 1
    /\ reader[m].pos = Offset(reader[m].block - 1)
    /\ reader[m].status = "new" => reader[m].block = 1
    /\ reader[m].status \in {"reading", "ended"} \/ reader[m].block > 1 => Opens(m)

\* The interfaces a reader holds are those of the section it is in.
InSection(r) ==
    format = "pcapng" =>
        IF r.block = 1 THEN r.interfaces = <<>>
        ELSE /\ Len(r.interfaces) = Cardinality(DescribedBefore(r.block - 1))
             /\ \A n \in 1..Len(r.interfaces) : \E j \in 1..r.block - 1 :
                   /\ Describes(j, n, r.block - 1)
                   /\ r.interfaces[n].linktype = file[j].linktype

\* A packet is decoded by the interface it names in its section.
Attributed(p) ==
    /\ p.block \in 1..Len(file)
    /\ format = "pcapng" =>
          \E j \in 1..p.block :
              Describes(j, Named(file[p.block]), p.block) /\ p.linktype = file[j].linktype

FileInv ==
    /\ format \in {"pcap", "pcapng"} /\ file \in Seq(Block)
    /\ format = "pcap" => \A n \in 1..Len(file) : file[n].kind = "REC"
    /\ format = "pcapng" => /\ file # <<>> /\ file[1].kind = "SHB"
                            /\ \A n \in 1..Len(file) : file[n].kind # "REC"
    /\ \A n \in 1..Len(file) : file[n].kind = "REC" => file[n].total = 16 + file[n].caplen
    /\ size \in 0..Whole

ReaderInv(m) ==
    /\ Place(m) /\ Passed(m) /\ Ceased(m) /\ InSection(reader[m])
    /\ \A i \in 1..Len(Out(m)) : Attributed(Out(m)[i])
    /\ \E t : History(t, reader[m].block, reader[m].interfaces, Out(m))

\* The readings take turns in their order.
InTurn ==
    /\ Status("default") # "new" => Finished("strict")
    /\ Status("whole") # "new" => Finished("default")

CInv ==
    /\ FileInv /\ reader \in [Modes -> ReaderState]
    /\ \A m \in Modes : ReaderInv(m)
    /\ InTurn

-----------------------------------------------------------------------------
(* Offsets *)

LEMMA BlockFacts ==
    ASSUME FileInv, NEW n \in 1..Len(file)
    PROVE  /\ Len(file) \in Nat /\ file[n] \in Block
           /\ file[n].total \in Nat /\ file[n].caplen \in Nat /\ file[n].iface \in Nat
           /\ file[n].linktype \in Nat /\ file[n].snaplen \in Nat
           /\ LengthBytes(file[n]) \in Nat \ {0}
           /\ format = "pcap" <=> file[n].kind = "REC"
<1>1. file[n] \in Block /\ Len(file) \in Nat
  BY ElementOfSeq, LenProperties DEF FileInv
<1>2. format = "pcap" <=> file[n].kind = "REC"
  BY DEF FileInv
<1> QED BY <1>1, <1>2 DEF Block, LengthBytes

Bytes(n) == UNION {{i} \X (1..file[i].total) : i \in 1..n}

\* The bytes of one block.
LEMMA BlockBytes ==
    ASSUME NEW n, NEW k \in Nat
    PROVE  IsFiniteSet({n} \X (1..k)) /\ Cardinality({n} \X (1..k)) = k
<1>1. IsFiniteSet({n}) /\ Cardinality({n}) = 1
  BY FS_Singleton
<1>2. IsFiniteSet(1..k) /\ Cardinality(1..k) = k
  BY FS_Interval
<1> DEFINE new == {n} \X (1..k)
<1>3. IsFiniteSet(new) /\ Cardinality(new) = Cardinality({n}) * Cardinality(1..k)
  BY <1>1, <1>2, FS_Product
<1> HIDE DEF new
<1>4. IsFiniteSet(new) /\ Cardinality(new) = k
  BY <1>1, <1>2, <1>3
<1> QED BY <1>4 DEF new

LEMMA FiniteBytes ==
    ASSUME FileInv, NEW n \in 0..Len(file)
    PROVE  IsFiniteSet(Bytes(n)) /\ Cardinality(Bytes(n)) \in Nat
<1> DEFINE of == [i \in 1..n |-> {i} \X (1..file[i].total)]
           T == {{i} \X (1..file[i].total) : i \in 1..n}
<1>1. \A i \in 1..n : file[i].total \in Nat
  BY BlockFacts
<1>2. \A i \in 1..n : IsFiniteSet({i} \X (1..file[i].total))
  BY <1>1, BlockBytes
<1>3. of \in Surjection(1..n, T)
  BY DEF Surjection
<1>4. IsFiniteSet(1..n)
  BY FS_Interval
<1>5. \A s \in T : IsFiniteSet(s)
  BY <1>2
<1> HIDE DEF of, T
<1>6. IsFiniteSet(UNION T)
  BY <1>3, <1>4, <1>5, FS_Surjection, FS_UNION
<1> QED BY <1>6, FS_CardinalityType DEF Bytes, T

LEMMA OffsetFacts ==
    ASSUME FileInv
    PROVE  /\ Len(file) \in Nat /\ HeaderBytes \in Nat /\ Whole \in Nat /\ size \in Nat
           /\ size <= Whole /\ Whole = Offset(Len(file)) /\ Offset(0) = HeaderBytes
           /\ \A n \in 0..Len(file) : Offset(n) \in Nat
           /\ \A n \in 1..Len(file) : Offset(n) = Offset(n - 1) + file[n].total
<1>1. Len(file) \in Nat /\ HeaderBytes \in Nat
  BY LenProperties DEF FileInv, HeaderBytes
<1>2. \A n \in 0..Len(file) : Offset(n) \in Nat /\ Offset(n) = HeaderBytes + Cardinality(Bytes(n))
  <2> SUFFICES ASSUME NEW n \in 0..Len(file)
               PROVE  Offset(n) \in Nat /\ Offset(n) = HeaderBytes + Cardinality(Bytes(n))
    OBVIOUS
  <2>1. Cardinality(Bytes(n)) \in Nat
    BY FiniteBytes
  <2>2. Offset(n) = HeaderBytes + Cardinality(Bytes(n))
    BY DEF Offset, Bytes
  <2> QED BY <1>1, <2>1, <2>2
<1>3. Offset(0) = HeaderBytes
  <2>1. Bytes(0) = {}
    BY DEF Bytes
  <2>2. Cardinality(Bytes(0)) = 0
    BY <2>1, FS_EmptySet
  <2>3. Offset(0) = HeaderBytes + Cardinality(Bytes(0))
    BY <1>1, <1>2
  <2> QED BY <1>1, <2>2, <2>3
<1>4. ASSUME NEW n \in 1..Len(file)
      PROVE  Offset(n) = Offset(n - 1) + file[n].total
  <2> DEFINE old == Bytes(n - 1)
             k == file[n].total
             new == {n} \X (1..k)
  <2>1. k \in Nat /\ n - 1 \in 0..Len(file) /\ n \in 0..Len(file)
    BY <1>1, BlockFacts
  <2>2. Bytes(n) = old \cup new
    <3>1. 1..n = (1..n - 1) \cup {n}
      OBVIOUS
    <3> QED BY <3>1 DEF Bytes
  <2>3. old \cap new = {}
    BY DEF Bytes
  <2> HIDE DEF k
  <2>4. IsFiniteSet(new) /\ Cardinality(new) = k
    BY <2>1, BlockBytes
  <2> HIDE DEF old, new
  <2>5. IsFiniteSet(old) /\ Cardinality(old) \in Nat
    BY <2>1, FiniteBytes DEF old
  <2>6. Cardinality(old \cup new) = Cardinality(old) + Cardinality(new) - Cardinality(old \cap new)
    BY <2>4, <2>5, FS_Union
  <2>7. Cardinality(old \cap new) = 0
    BY <2>3, FS_EmptySet
  <2>8. Cardinality(Bytes(n)) = Cardinality(Bytes(n - 1)) + k
    BY <2>1, <2>2, <2>4, <2>5, <2>6, <2>7 DEF old
  <2> QED BY <1>1, <1>2, <2>1, <2>5, <2>8 DEF k, old
<1> QED BY <1>1, <1>2, <1>3, <1>4 DEF Whole, FileInv

-----------------------------------------------------------------------------
(* Whose turn it is *)

LEMMA TurnFacts ==
    /\ ToSet(Readings) = Modes
    /\ \A m \in Modes : Turn(m) =>
          /\ ~Finished(m)
          /\ m # "strict" => Finished("strict")
          /\ m = "whole" => Finished("default")
<1>1. Len(Readings) = 3 /\ DOMAIN Readings = 1..3
      /\ Readings[1] = "strict" /\ Readings[2] = "default" /\ Readings[3] = "whole"
  BY DEF Readings
<1>2. 1..3 = {1, 2, 3}
  OBVIOUS
<1>3. ToSet(Readings) = Modes
  BY <1>1, <1>2 DEF ToSet, Modes
<1>4. ASSUME NEW m \in Modes, Turn(m)
      PROVE  /\ ~Finished(m) /\ (m # "strict" => Finished("strict"))
             /\ (m = "whole" => Finished("default"))
  <2>1. \A i, j \in 1..3 : i < j /\ Readings[j] = m => Finished(Readings[i])
    BY <1>1, <1>4 DEF Turn
  <2>2. Readings[2] = m => Finished(Readings[1])
    BY <2>1
  <2>3. Readings[3] = m => Finished(Readings[1]) /\ Finished(Readings[2])
    BY <2>1
  <2> QED BY <1>1, <1>4, <2>2, <2>3 DEF Turn, Modes
<1> QED BY <1>3, <1>4

-----------------------------------------------------------------------------
(* Sections *)

LEMMA MaxOfRange ==
    ASSUME NEW S, NEW x \in S, S \subseteq Int, \A y \in S : y <= x
    PROVE  Max(S) = x
<1>1. \A y \in S : x >= y
  OBVIOUS
<1>2. \A z \in S : (\A y \in S : z >= y) => z = x
  OBVIOUS
<1> QED BY <1>1, <1>2 DEF Max

\* A set of the first n naturals has a greatest element.
LEMMA Greatest ==
    ASSUME NEW n \in Nat, NEW S \in SUBSET (1..n), S # {}
    PROVE  \E x \in S : \A y \in S : y <= x
<1> DEFINE T == {n - y : y \in S}
<1>1. T \in SUBSET Nat /\ T # {}
  <2>1. \A y \in S : n - y \in Nat
    OBVIOUS
  <2>2. PICK y \in S : TRUE
    OBVIOUS
  <2>3. n - y \in T
    BY <2>2
  <2> QED BY <2>1, <2>3
<1>2. \E t \in T : \A u \in T : ~(<<u, t>> \in OpToRel(<, Nat))
  BY <1>1, NatLessThanWellFounded, WFMin
<1>3. PICK t \in T : \A u \in T : ~(u < t)
  BY <1>1, <1>2 DEF OpToRel
<1>4. PICK x \in S : t = n - x
  BY <1>3
<1>5. \A y \in S : y <= x
  BY <1>3, <1>4
<1> QED BY <1>5

LEMMA SectionFacts ==
    ASSUME FileInv, format = "pcapng", NEW k \in 1..Len(file)
    PROVE  /\ SectionOf(k) \in 1..k /\ file[SectionOf(k)].kind = "SHB"
           /\ file[k].kind = "SHB" => SectionOf(k) = k
           /\ file[k].kind # "SHB" => k > 1 /\ SectionOf(k) = SectionOf(k - 1)
<1> DEFINE S(n) == {j \in 1..n : file[j].kind = "SHB"}
<1>1. Len(file) \in Nat /\ file[1].kind = "SHB"
  BY OffsetFacts DEF FileInv
<1>2. \A n \in 1..k : S(n) \in SUBSET (1..n) /\ 1 \in S(n) /\ n \in Nat /\ S(n) \subseteq Int
  BY <1>1
<1>3. \A n \in 1..k : SectionOf(n) \in S(n)
  <2> SUFFICES ASSUME NEW n \in 1..k PROVE SectionOf(n) \in S(n)
    OBVIOUS
  <2> DEFINE T == S(n)
  <2>1. T \in SUBSET (1..n) /\ T # {} /\ n \in Nat /\ T \subseteq Int
    BY <1>2
  <2> HIDE DEF T
  <2>2. PICK x \in T : \A y \in T : y <= x
    BY <2>1, Greatest
  <2>3. Max(T) = x
    BY <2>1, <2>2, MaxOfRange
  <2> QED BY <2>3 DEF SectionOf, T
<1>4. CASE file[k].kind = "SHB"
  <2> DEFINE T == S(k)
  <2>1. k \in T /\ T \subseteq Int /\ \A y \in T : y <= k
    BY <1>4
  <2> HIDE DEF T
  <2>2. Max(T) = k
    BY <2>1, MaxOfRange
  <2> QED BY <1>3, <1>4, <2>2 DEF SectionOf, T
<1>5. CASE file[k].kind # "SHB"
  <2>1. k > 1 /\ k - 1 \in 1..k
    BY <1>1, <1>5
  <2>2. S(k) = S(k - 1)
    BY <1>5
  <2> QED BY <1>3, <1>5, <2>1, <2>2 DEF SectionOf
<1> QED BY <1>4, <1>5

\* What one more block adds to the interfaces of its section.
LEMMA DescribedFacts ==
    ASSUME FileInv, format = "pcapng", NEW k \in 1..Len(file)
    PROVE  /\ DescribedBefore(k) \in SUBSET (1..k)
           /\ file[k].kind = "SHB" => DescribedBefore(k) = {}
           /\ file[k].kind # "SHB" => k > 1 /\
                 DescribedBefore(k) = DescribedBefore(k - 1) \cup
                   (IF file[k].kind = "IDB" /\ Body(file[k]) >= 8 THEN {k} ELSE {})
<1>1. /\ SectionOf(k) \in 1..k
      /\ file[k].kind = "SHB" => SectionOf(k) = k
      /\ file[k].kind # "SHB" => k > 1 /\ SectionOf(k) = SectionOf(k - 1)
  BY SectionFacts
<1>2. k \in Nat
  OBVIOUS
<1>3. CASE file[k].kind = "SHB"
  BY <1>1, <1>2, <1>3 DEF DescribedBefore
<1>4. CASE file[k].kind # "SHB"
  <2>1. SectionOf(k)..k = (SectionOf(k)..k - 1) \cup {k}
    BY <1>1, <1>2
  <2> QED BY <1>1, <1>2, <1>4, <2>1 DEF DescribedBefore
<1> QED BY <1>3, <1>4

-----------------------------------------------------------------------------
(* What no step changes *)

LEMMA SameFile ==
    ASSUME UNCHANGED <<format, file, size>>
    PROVE  /\ FileInv' <=> FileInv
           /\ HeaderBytes' = HeaderBytes /\ Whole' = Whole
           /\ \A n : Offset(n)' = Offset(n)
           /\ \A m : Present(m)' = Present(m) /\ (Opens(m)' <=> Opens(m))
           /\ \A k : DescribedBefore(k)' = DescribedBefore(k)
           /\ \A j, n, k : Describes(j, n, k)' <=> Describes(j, n, k)
           /\ \A p : Attributed(p)' <=> Attributed(p)
           /\ \A k, i : Yielded(k, i)' = Yielded(k, i)
           /\ \A t, k, i, out : History(t, k, i, out)' <=> History(t, k, i, out)
<1>1. format' = format /\ file' = file /\ size' = size
  OBVIOUS
<1>2. HeaderBytes' = HeaderBytes
  BY <1>1 DEF HeaderBytes
<1>3. \A n : Offset(n)' = Offset(n)
  BY <1>1, <1>2 DEF Offset
<1>4. Whole' = Whole
  BY <1>1, <1>2 DEF Whole, Offset
<1>5. \A m : Present(m)' = Present(m)
  BY <1>1, <1>4 DEF Present
<1>6. \A m : Opens(m)' <=> Opens(m)
  BY <1>2, <1>5 DEF Opens
<1>7. FileInv' <=> FileInv
  BY <1>1, <1>4 DEF FileInv
<1>8. \A k : DescribedBefore(k)' = DescribedBefore(k)
  BY <1>1 DEF DescribedBefore, SectionOf
<1>9. \A j, n, k : Describes(j, n, k)' <=> Describes(j, n, k)
  BY <1>8 DEF Describes
<1>10. \A p : Attributed(p)' <=> Attributed(p)
  BY <1>1, <1>9 DEF Attributed
<1>11. \A k, i : Yielded(k, i)' = Yielded(k, i)
  BY <1>1 DEF Yielded
<1>12. \A t, k, i, out : History(t, k, i, out)' <=> History(t, k, i, out)
  BY <1>1, <1>11 DEF History
<1> QED BY <1>2, <1>3, <1>4, <1>5, <1>6, <1>7, <1>8, <1>9, <1>10, <1>11, <1>12

LEMMA ReaderKept ==
    ASSUME UNCHANGED <<format, file, size>>, NEW m, reader'[m] = reader[m], ReaderInv(m)
    PROVE  ReaderInv(m)'
<1>1. format' = format /\ file' = file /\ size' = size
  OBVIOUS
<1>2. /\ Avail(m)' = Avail(m) /\ At(m)' = At(m) /\ Out(m)' = Out(m)
  BY <1>1, SameFile DEF Avail, At, Out
<1>3. Short(m)' <=> Short(m)
  BY <1>2 DEF Short
<1>4. Place(m)' /\ Passed(m)' /\ Ceased(m)'
  BY <1>1, <1>2, <1>3, SameFile DEF ReaderInv, Place, Passed, Ceased
<1>5. InSection(reader[m])'
  BY <1>1, SameFile DEF ReaderInv, InSection
<1> QED BY <1>1, <1>2, <1>4, <1>5, SameFile DEF ReaderInv

-----------------------------------------------------------------------------
(* A reading begins or stops *)

LEMMA StoppedInv ==
    ASSUME CInv, NEW m \in Modes, Turn(m), NEW st \in {"reading", "ended", "error"},
           Stop(m, st),
           st \in {"reading", "ended"} => Opens(m),
           st = "ended" => Avail(m) = 0 \/ (m # "strict" /\ Avail(m) > 0 /\ Short(m)),
           st = "error" =>
              \/ m = "strict"
              \/ ~Opens(m) /\ reader[m].block = 1
              \/ Opens(m) /\ Avail(m) > 0 /\ ~Short(m) /\ ~Plausible(At(m))
    PROVE  CInv'
<1>1. /\ UNCHANGED <<format, file, size>>
      /\ reader' = [reader EXCEPT ![m].status = st]
      /\ reader \in [Modes -> ReaderState]
      /\ FileInv /\ ReaderInv(m) /\ InTurn
  BY DEF Stop, CInv
<1>2. /\ reader' \in [Modes -> ReaderState]
      /\ reader'[m].block = reader[m].block /\ reader'[m].pos = reader[m].pos
      /\ reader'[m].interfaces = reader[m].interfaces
      /\ reader'[m].out = reader[m].out /\ reader'[m].status = st
      /\ \A n \in Modes \ {m} : reader'[n] = reader[n]
  BY <1>1 DEF ReaderState
<1>3. /\ Avail(m)' = Avail(m) /\ At(m)' = At(m) /\ Out(m)' = Out(m)
  BY <1>1, <1>2, SameFile DEF Avail, At, Out
<1>4. Short(m)' <=> Short(m)
  BY <1>3 DEF Short
<1>5. Place(m)' /\ Passed(m)' /\ Ceased(m)'
  <2>1. Place(m)'
    BY <1>1, <1>2, SameFile DEF ReaderInv, Place
  <2>2. Passed(m)'
    BY <1>1, <1>2, SameFile DEF ReaderInv, Passed
  <2>3. Ceased(m)'
    BY <1>1, <1>2, <1>3, <1>4, SameFile DEF Ceased
  <2> QED BY <2>1, <2>2, <2>3
<1>6. InSection(reader[m])'
  BY <1>1, <1>2, SameFile DEF ReaderInv, InSection
<1>7. ReaderInv(m)'
  BY <1>1, <1>2, <1>3, <1>5, <1>6, SameFile DEF ReaderInv
<1>8. \A n \in Modes \ {m} : ReaderInv(n)'
  BY <1>1, <1>2, ReaderKept DEF CInv
<1>9. InTurn'
  BY <1>1, <1>2, TurnFacts DEF InTurn, Status, Finished, Modes
<1> QED BY <1>1, <1>2, <1>7, <1>8, <1>9, SameFile DEF CInv

-----------------------------------------------------------------------------
(* A block is taken *)

Beyond(m) ==
    LET r == reader[m] IN
    [block |-> r.block + 1, pos |-> r.pos + At(m).total,
     interfaces |-> Described(r.interfaces, At(m)),
     out |-> r.out \o Yielded(r.block, r.interfaces), status |-> r.status]

LEMMA MinTwo ==
    ASSUME NEW a \in Int, NEW b \in Int
    PROVE  Min({a, b}) \in Int
<1> DEFINE m == IF a <= b THEN a ELSE b
<1>1. m \in {a, b} /\ \A y \in {a, b} : m <= y
  OBVIOUS
<1> HIDE DEF m
<1> QED BY <1>1 DEF Min

LEMMA MinThree ==
    ASSUME NEW a \in Int, NEW b \in Int, NEW c \in Int
    PROVE  Min({a, b, c}) \in Int
<1>1. \E m \in {a, b, c} : \A y \in {a, b, c} : m <= y
  OBVIOUS
<1> QED BY <1>1 DEF Min

LEMMA CapturedType ==
    ASSUME NEW b \in Block, NEW d \in Declaration
    PROVE  Captured(b, d) \in Int
<1>1. b.caplen \in Nat /\ Body(b) - 4 \in Int /\ Body(b) - 20 \in Int /\ d.snaplen \in Nat
  BY DEF Block, Body, Declaration
<1>2. CASE b.kind = "SPB"
  <2>1. CASE d.snaplen = 0
    <3>1. {b.caplen, Body(b) - 4} \cup {} = {b.caplen, Body(b) - 4}
      OBVIOUS
    <3> QED BY <1>1, <1>2, <2>1, <3>1, MinTwo DEF Captured
  <2>2. CASE d.snaplen # 0
    <3>1. {b.caplen, Body(b) - 4} \cup {d.snaplen} = {b.caplen, Body(b) - 4, d.snaplen}
      OBVIOUS
    <3> QED BY <1>1, <1>2, <2>2, <3>1, MinThree DEF Captured
  <2> QED BY <2>1, <2>2
<1>3. CASE b.kind # "SPB"
  BY <1>1, <1>3, MinTwo DEF Captured
<1> QED BY <1>2, <1>3

\* What a block leaves has the types of what a reader holds, and a packet
\* that names an interface is yielded only of one that was described.
LEMMA BlockLeaves ==
    ASSUME FileInv, NEW k \in 1..Len(file), NEW i \in Seq(Declaration)
    PROVE  /\ Described(i, file[k]) \in Seq(Declaration)
           /\ Yielded(k, i) \in Seq(Read)
           /\ \A n \in 1..Len(Yielded(k, i)) :
                 /\ Yielded(k, i)[n].block = k
                 /\ file[k].kind # "REC" =>
                       /\ HoldsPacket(file[k], i) /\ Named(file[k]) \in 1..Len(i)
                       /\ Yielded(k, i)[n].linktype = i[Named(file[k])].linktype
<1> DEFINE b == file[k]
<1>1. /\ b \in Block /\ b.linktype \in Nat /\ b.snaplen \in Nat /\ b.caplen \in Nat
      /\ b.iface \in Nat /\ k \in Nat /\ Len(i) \in Nat
  BY BlockFacts, LenProperties
<1> HIDE DEF b
<1>2. Described(i, b) \in Seq(Declaration)
  <2>1. [linktype |-> b.linktype, snaplen |-> b.snaplen] \in Declaration
    BY <1>1 DEF Declaration
  <2> QED BY <2>1, EmptySeq, AppendProperties DEF Described
<1>3. HoldsPacket(b, i) =>
         /\ Named(b) \in 1..Len(i) /\ i[Named(b)] \in Declaration
         /\ i[Named(b)].linktype \in Nat /\ Captured(b, i[Named(b)]) \in Int
  <2> SUFFICES ASSUME HoldsPacket(b, i)
               PROVE  /\ Named(b) \in 1..Len(i) /\ i[Named(b)] \in Declaration
                      /\ i[Named(b)].linktype \in Nat /\ Captured(b, i[Named(b)]) \in Int
    OBVIOUS
  <2>1. Named(b) \in 1..Len(i)
    BY <1>1, EmptySeq DEF HoldsPacket, Named
  <2>2. i[Named(b)] \in Declaration
    BY <2>1, ElementOfSeq
  <2> QED BY <1>1, <2>1, <2>2, CapturedType DEF Declaration
<1> DEFINE y == Yielded(k, i)
           p == IF b.kind = "REC"
                THEN [block |-> k, linktype |-> 0, caplen |-> b.caplen]
                ELSE [block |-> k, linktype |-> i[Named(b)].linktype,
                      caplen |-> Captured(b, i[Named(b)])]
<1>4. y = IF b.kind = "REC" \/ HoldsPacket(b, i) THEN <<p>> ELSE <<>>
  BY DEF Yielded, b
<1>5. b.kind = "REC" \/ HoldsPacket(b, i) => p \in Read
  BY <1>1, <1>3 DEF Read
<1>6. /\ p.block = k
      /\ b.kind # "REC" => p.linktype = i[Named(b)].linktype
  OBVIOUS
<1> HIDE DEF y, p
<1>7. CASE b.kind = "REC" \/ HoldsPacket(b, i)
  <2>1. y = <<p>> /\ p \in Read
    BY <1>4, <1>5, <1>7
  <2>2. y \in Seq(Read) /\ Len(y) = 1 /\ y[1] = p
    BY <2>1
  <2> QED BY <1>2, <1>3, <1>6, <1>7, <2>2 DEF y, b
<1>8. CASE ~(b.kind = "REC" \/ HoldsPacket(b, i))
  <2>1. y = <<>>
    BY <1>4, <1>8
  <2>2. y \in Seq(Read) /\ Len(y) = 0
    BY <2>1, EmptySeq
  <2> QED BY <1>2, <2>2 DEF y, b
<1> QED BY <1>7, <1>8

\* What is left to read lies in the file.
LEMMA InFile ==
    ASSUME CInv, NEW m \in Modes, Avail(m) > 0
    PROVE  /\ reader[m].block \in 1..Len(file)
           /\ reader[m].pos = Offset(reader[m].block - 1)
           /\ Present(m) \in Nat /\ Present(m) <= Whole
           /\ At(m) = file[reader[m].block]
<1>1. /\ Len(file) \in Nat /\ Whole \in Nat /\ size \in Nat /\ size <= Whole
      /\ Whole = Offset(Len(file))
  BY OffsetFacts DEF CInv
<1>2. Present(m) \in Nat /\ Present(m) <= Whole
  BY <1>1 DEF Present
<1>3. /\ reader[m].block \in 1..Len(file) + 1
      /\ reader[m].pos = Offset(reader[m].block - 1)
  BY DEF CInv, ReaderInv, Place
<1>4. reader[m].block # Len(file) + 1
  <2> SUFFICES ASSUME reader[m].block = Len(file) + 1 PROVE FALSE
    OBVIOUS
  <2>1. reader[m].pos = Whole
    BY <1>1, <1>3
  <2> QED BY <1>1, <1>2, <2>1 DEF Avail
<1> QED BY <1>1, <1>2, <1>3, <1>4 DEF At

LEMMA SectionGrows ==
    ASSUME FileInv, NEW k \in 1..Len(file), NEW r, r.block = k,
           r.interfaces \in Seq(Declaration), InSection(r),
           NEW s, s.block = k + 1, s.interfaces = Described(r.interfaces, file[k])
    PROVE  InSection(s)
<1> SUFFICES ASSUME format = "pcapng"
             PROVE  /\ Len(s.interfaces) = Cardinality(DescribedBefore(k))
                    /\ \A n \in 1..Len(s.interfaces) : \E j \in 1..k :
                          /\ Describes(j, n, k)
                          /\ s.interfaces[n].linktype = file[j].linktype
  <2>1. k \in Nat /\ k + 1 # 1 /\ (k + 1) - 1 = k
    BY OffsetFacts
  <2> QED BY <2>1 DEF InSection
<1> DEFINE b == file[k]
           i == r.interfaces
           D == DescribedBefore(k)
           C == DescribedBefore(k - 1)
<1>1. /\ k \in Nat \ {0} /\ b.kind # "REC" /\ D \in SUBSET (1..k)
      /\ b.kind = "SHB" => D = {}
      /\ b.kind # "SHB" => k > 1 /\
            D = C \cup (IF b.kind = "IDB" /\ Body(b) >= 8 THEN {k} ELSE {})
  BY OffsetFacts, BlockFacts, DescribedFacts
<1>2. k > 1 => /\ C \in SUBSET (1..k - 1) /\ Len(i) = Cardinality(C)
               /\ \A n \in 1..Len(i) : \E j \in 1..k - 1 :
                     Describes(j, n, k - 1) /\ i[n].linktype = file[j].linktype
  <2>1. k > 1 => k - 1 \in 1..Len(file)
    BY <1>1
  <2> QED BY <1>1, <2>1, DescribedFacts DEF InSection
<1>3. s.interfaces = Described(i, b)
  OBVIOUS
<1> HIDE DEF b, i
<1>4. CASE b.kind = "SHB"
  <2>1. s.interfaces = <<>> /\ D = {}
    BY <1>1, <1>3, <1>4 DEF Described
  <2> QED BY <2>1, EmptySeq, FS_EmptySet
<1>5. CASE b.kind = "IDB" /\ Body(b) >= 8
  <2> DEFINE d == [linktype |-> b.linktype, snaplen |-> b.snaplen]
  <2>1. d \in Declaration /\ d.linktype = b.linktype
    BY BlockFacts DEF Declaration, b
  <2>2. s.interfaces = Append(i, d) /\ D = C \cup {k} /\ k > 1
    BY <1>1, <1>3, <1>5 DEF Described
  <2> HIDE DEF d, D, C
  <2>3. /\ Len(s.interfaces) = Len(i) + 1 /\ Len(i) \in Nat
        /\ \A n \in 1..Len(i) : s.interfaces[n] = i[n]
        /\ s.interfaces[Len(i) + 1] = d
    BY <2>1, <2>2, AppendProperties, LenProperties DEF i
  <2>4. IsFiniteSet(C) /\ k \notin C
    <3>1. IsFiniteSet(1..k - 1)
      BY <1>1, FS_Interval
    <3>2. C \in SUBSET (1..k - 1)
      BY <1>2, <2>2
    <3>3. k \notin C
      BY <1>1, <3>2
    <3> QED BY <3>1, <3>2, <3>3, FS_Subset
  <2>5. Cardinality(D) = Len(i) + 1
    BY <1>2, <2>2, <2>4, FS_AddElement
  <2>6. ASSUME NEW n \in 1..Len(i)
        PROVE  \E j \in 1..k : Describes(j, n, k) /\ s.interfaces[n].linktype = file[j].linktype
    <3>1. PICK j \in 1..k - 1 : Describes(j, n, k - 1) /\ i[n].linktype = file[j].linktype
      BY <1>2, <2>2
    <3>2. {e \in D : e <= j} = {e \in C : e <= j}
      BY <1>1, <2>2, <3>1
    <3>3. Describes(j, n, k)
      BY <2>2, <3>1, <3>2 DEF Describes, D, C
    <3>4. j \in 1..k
      BY <1>1, <3>1
    <3>5. s.interfaces[n].linktype = file[j].linktype
      BY <2>3, <3>1
    <3> QED BY <3>3, <3>4, <3>5
  <2>7. Describes(k, Len(i) + 1, k) /\ d.linktype = file[k].linktype
    <3>0. D \in SUBSET (1..k) /\ k \in D
      BY <1>1, <2>2
    <3>1. {e \in D : e <= k} = D /\ k \in D
      <4>1. \A e \in D : e <= k
        BY <1>1, <3>0
      <4> QED BY <3>0, <4>1
    <3> QED BY <2>1, <2>5, <3>1 DEF Describes, D, b
  <2>8. \A n \in 1..Len(s.interfaces) : n \in 1..Len(i) \/ n = Len(i) + 1
    BY <2>3
  <2>9. k \in 1..k
    BY <1>1
  <2> QED BY <2>3, <2>5, <2>6, <2>7, <2>8, <2>9 DEF D
<1>6. CASE b.kind # "SHB" /\ ~(b.kind = "IDB" /\ Body(b) >= 8)
  <2>1. s.interfaces = i /\ D = C /\ k > 1
    BY <1>1, <1>3, <1>6 DEF Described
  <2> HIDE DEF D, C
  <2>2. \A j, n : Describes(j, n, k - 1) => Describes(j, n, k)
    BY <2>1 DEF Describes, D, C
  <2>3. \A j \in 1..k - 1 : j \in 1..k
    BY <1>1
  <2>4. Len(s.interfaces) = Cardinality(D)
    BY <1>2, <2>1
  <2>5. \A n \in 1..Len(s.interfaces) : \E j \in 1..k :
           Describes(j, n, k) /\ s.interfaces[n].linktype = file[j].linktype
    BY <1>2, <2>1, <2>2, <2>3
  <2> QED BY <2>4, <2>5 DEF D
<1> QED BY <1>4, <1>5, <1>6

\* A packet block leaves the interfaces of its section as they are.
LEMMA YieldedAttributed ==
    ASSUME FileInv, NEW k \in 1..Len(file), NEW r, r.block = k,
           r.interfaces \in Seq(Declaration), InSection(r),
           NEW n \in 1..Len(Yielded(k, r.interfaces))
    PROVE  Attributed(Yielded(k, r.interfaces)[n])
<1> DEFINE b == file[k]
           i == r.interfaces
           p == Yielded(k, i)[n]
<1>1. p.block = k /\ k \in 1..Len(file)
  BY BlockLeaves
<1>2. ASSUME format = "pcapng"
      PROVE  \E j \in 1..k : Describes(j, Named(b), k) /\ p.linktype = file[j].linktype
  <2>1. b.kind # "REC"
    BY <1>2, BlockFacts
  <2>2. HoldsPacket(b, i) /\ Named(b) \in 1..Len(i) /\ p.linktype = i[Named(b)].linktype
    <3>1. \A e \in 1..Len(Yielded(k, i)) :
             file[k].kind # "REC" =>
                /\ HoldsPacket(file[k], i) /\ Named(file[k]) \in 1..Len(i)
                /\ Yielded(k, i)[e].linktype = i[Named(file[k])].linktype
      BY BlockLeaves
    <3> QED BY <2>1, <3>1
  <2>3. Described(i, b) = i
    BY <2>2 DEF HoldsPacket, Described
  <2> DEFINE s == [block |-> k + 1, interfaces |-> i]
  <2>4. s.block = k + 1 /\ s.interfaces = Described(r.interfaces, file[k])
    BY <2>3
  <2> HIDE DEF s
  <2>5. InSection(s)
    BY <2>4, SectionGrows
  <2>6. k + 1 # 1 /\ (k + 1) - 1 = k
    BY OffsetFacts
  <2>7. \A e \in 1..Len(i) : \E j \in 1..k : Describes(j, e, k) /\ i[e].linktype = file[j].linktype
    BY <1>2, <2>3, <2>4, <2>5, <2>6 DEF InSection
  <2> QED BY <2>2, <2>7
<1> QED BY <1>1, <1>2 DEF Attributed

LEMMA HistoryGrows ==
    ASSUME FileInv, NEW k \in 1..Len(file), NEW i \in Seq(Declaration), NEW out \in Seq(Read),
           NEW t, History(t, k, i, out)
    PROVE  \E u : History(u, k + 1, Described(i, file[k]), out \o Yielded(k, i))
<1> DEFINE H == [interfaces : Seq(Declaration), out : Seq(Read)]
           new == [interfaces |-> Described(i, file[k]), out |-> out \o Yielded(k, i)]
           u == [n \in 1..k + 1 |-> IF n = k + 1 THEN new ELSE t[n]]
<1>1. k \in Nat \ {0}
  BY OffsetFacts
<1>2. new \in H
  BY BlockLeaves, ConcatProperties
<1>3. /\ t \in [1..k -> H] /\ t[1] = [interfaces |-> <<>>, out |-> <<>>]
      /\ \A n \in 1..k - 1 :
            t[n + 1] = [interfaces |-> Described(t[n].interfaces, file[n]),
                        out |-> t[n].out \o Yielded(n, t[n].interfaces)]
      /\ t[k] = [interfaces |-> i, out |-> out]
  BY DEF History
<1>4. new = [interfaces |-> Described(t[k].interfaces, file[k]),
             out |-> t[k].out \o Yielded(k, t[k].interfaces)]
  BY <1>3
<1> HIDE DEF new, H
<1>5. /\ u \in [1..k + 1 -> H] /\ u[k + 1] = new
      /\ \A n \in 1..k : u[n] = t[n]
  BY <1>1, <1>2, <1>3
<1> HIDE DEF u
<1>6. ASSUME NEW n \in 1..(k + 1) - 1
      PROVE  u[n + 1] = [interfaces |-> Described(u[n].interfaces, file[n]),
                         out |-> u[n].out \o Yielded(n, u[n].interfaces)]
  <2>1. CASE n = k
    <3>1. u[n] = t[k] /\ u[n + 1] = new
      BY <1>1, <1>5, <2>1
    <3> QED BY <1>4, <2>1, <3>1
  <2>2. CASE n # k
    <3>1. n \in 1..k - 1 /\ n \in 1..k /\ n + 1 \in 1..k
      BY <1>1, <2>2
    <3>2. u[n] = t[n] /\ u[n + 1] = t[n + 1]
      BY <1>5, <3>1
    <3> QED BY <1>3, <3>1, <3>2
  <2> QED BY <2>1, <2>2
<1>7. u[1] = [interfaces |-> <<>>, out |-> <<>>]
  BY <1>1, <1>3, <1>5
<1>8. u[k + 1] = [interfaces |-> Described(i, file[k]), out |-> out \o Yielded(k, i)]
  BY <1>5 DEF new
<1> QED BY <1>5, <1>6, <1>7, <1>8 DEF History, H

LEMMA TakenInv ==
    ASSUME CInv, NEW m \in Modes, Reading(m), Avail(m) > 0, ~Short(m), Plausible(At(m)),
           UNCHANGED <<format, file, size>>, reader' = [reader EXCEPT ![m] = Beyond(m)]
    PROVE  CInv'
<1> DEFINE r == reader[m]
           k == r.block
           b == file[k]
           out == r.out \o Yielded(k, r.interfaces)
<1>1. /\ FileInv /\ reader \in [Modes -> ReaderState] /\ ReaderInv(m) /\ InTurn
      /\ \A n \in Modes : ReaderInv(n)
  BY DEF CInv
<1>2. /\ k \in 1..Len(file) /\ r.pos = Offset(k - 1) /\ At(m) = b
      /\ Present(m) \in Nat /\ Present(m) <= Whole
  BY InFile
<1>3. /\ r.interfaces \in Seq(Declaration) /\ r.out \in Seq(Read) /\ r.status = "reading"
      /\ r.block \in Nat \ {0} /\ Out(m) = r.out
  BY <1>1 DEF ReaderState, Reading, Out
<1>4. /\ Len(file) \in Nat /\ b.total \in Nat /\ LengthBytes(b) \in Nat
      /\ Offset(k - 1) \in Nat /\ Offset(k) = Offset(k - 1) + b.total
      /\ (k + 1) - 1 = k /\ k + 1 \in 1..Len(file) + 1 /\ k + 1 > 1
  <2>1. k - 1 \in 0..Len(file) /\ Len(file) \in Nat
    BY <1>1, <1>2, OffsetFacts
  <2>2. b.total \in Nat /\ LengthBytes(b) \in Nat
    BY <1>1, <1>2, BlockFacts
  <2>3. Offset(k - 1) \in Nat /\ Offset(k) = Offset(k - 1) + b.total
    BY <1>1, <1>2, <2>1, OffsetFacts
  <2> HIDE DEF k
  <2> QED BY <1>2, <2>1, <2>2, <2>3
<1>5. Present(m) >= Offset(k - 1) + LengthBytes(b) /\ Present(m) >= Offset(k) /\ Plausible(b)
  <2>1. Avail(m) >= LengthBytes(b) /\ Avail(m) >= b.total
    BY <1>2, <1>4 DEF Short, Avail
  <2> QED BY <1>2, <1>4, <2>1 DEF Avail
<1>6. /\ Described(r.interfaces, b) \in Seq(Declaration)
      /\ Yielded(k, r.interfaces) \in Seq(Read) /\ out \in Seq(Read)
  BY <1>1, <1>2, <1>3, BlockLeaves, ConcatProperties
<1>7. /\ reader'[m] = Beyond(m) /\ \A n \in Modes \ {m} : reader'[n] = reader[n]
      /\ reader'[m].block = k + 1 /\ reader'[m].pos = Offset(k)
      /\ reader'[m].interfaces = Described(r.interfaces, b)
      /\ reader'[m].out = out /\ reader'[m].status = "reading"
  BY <1>1, <1>2, <1>3, <1>4 DEF Beyond
<1>8. reader' \in [Modes -> ReaderState]
  <2>1. Beyond(m) \in ReaderState
    <3> DEFINE kk == k + 1
               pp == r.pos + At(m).total
               dd == Described(r.interfaces, At(m))
    <3>1. kk \in Nat \ {0} /\ pp \in Nat /\ dd \in Seq(Declaration)
      <4>1. kk \in Nat \ {0}
        BY <1>3
      <4>2. pp = Offset(k - 1) + b.total
        BY <1>2
      <4>3. dd = Described(r.interfaces, b)
        BY <1>2
      <4> QED BY <1>4, <1>6, <4>1, <4>2, <4>3
    <3>2. Beyond(m) = [block |-> kk, pos |-> pp, interfaces |-> dd, out |-> out,
                       status |-> "reading"]
      BY <1>3 DEF Beyond
    <3> HIDE DEF kk, pp, dd, out
    <3> QED BY <1>6, <3>1, <3>2 DEF ReaderState
  <2> QED BY <1>1, <2>1
<1> HIDE DEF r, k, b, out
<1>9. Place(m)'
  BY <1>1, <1>3, <1>4, <1>7, SameFile DEF ReaderInv, Place, r
<1>10. Passed(m)'
  <2>1. ASSUME NEW n \in 1..(k + 1) - 1
        PROVE  /\ Plausible(file[n]) /\ Present(m) >= Offset(n - 1) + LengthBytes(file[n])
               /\ Present(m) >= Offset(n)
    <3>1. n \in 1..k - 1 \/ n = k
      BY <1>2, <1>4
    <3>2. CASE n = k
      BY <1>5, <3>2 DEF b
    <3>3. CASE n \in 1..k - 1
      BY <1>1, <3>3 DEF ReaderInv, Passed, r, k
    <3> QED BY <3>1, <3>2, <3>3
  <2> QED BY <1>7, <2>1, SameFile DEF Passed
<1>11. Ceased(m)'
  BY <1>7 DEF Ceased
<1>12. InSection(reader[m])'
  <2>1. InSection(r) /\ r.block = k
    BY <1>1 DEF ReaderInv, r, k
  <2> DEFINE s == reader'[m]
  <2>2. s.block = k + 1 /\ s.interfaces = Described(r.interfaces, file[k])
    BY <1>7 DEF b
  <2> HIDE DEF s
  <2>3. InSection(s)
    BY <1>1, <1>2, <1>3, <2>1, <2>2, SectionGrows
  <2> QED BY <2>3, SameFile DEF InSection, s
<1>13. \A i \in 1..Len(Out(m)') : Attributed(Out(m)'[i])
  <2> DEFINE y == Yielded(k, r.interfaces)
  <2>1. InSection(r) /\ r.block = k /\ \A i \in 1..Len(r.out) : Attributed(r.out[i])
    BY <1>1, <1>3 DEF ReaderInv, r, k
  <2>2. \A n \in 1..Len(y) : Attributed(y[n])
    BY <1>1, <1>2, <1>3, <2>1, YieldedAttributed
  <2> HIDE DEF y
  <2>3. /\ Len(out) = Len(r.out) + Len(y) /\ Len(r.out) \in Nat /\ Len(y) \in Nat
        /\ \A i \in 1..Len(r.out) + Len(y) :
              out[i] = IF i <= Len(r.out) THEN r.out[i] ELSE y[i - Len(r.out)]
    BY <1>3, <1>6, ConcatProperties, LenProperties DEF out, y
  <2>4. ASSUME NEW i \in 1..Len(out) PROVE Attributed(out[i])
    <3>1. CASE i <= Len(r.out)
      BY <2>1, <2>3, <3>1
    <3>2. CASE i > Len(r.out)
      <4>1. i - Len(r.out) \in 1..Len(y) /\ out[i] = y[i - Len(r.out)]
        BY <2>3, <3>2
      <4> QED BY <2>2, <4>1
    <3> QED BY <2>3, <3>1, <3>2
  <2> QED BY <1>7, <2>4 DEF Out
<1>14. \E t : History(t, reader'[m].block, reader'[m].interfaces, Out(m)')
  <2>1. PICK t : History(t, k, r.interfaces, r.out)
    BY <1>1, <1>3 DEF ReaderInv, r, k
  <2>2. \E u : History(u, k + 1, Described(r.interfaces, file[k]),
                       r.out \o Yielded(k, r.interfaces))
    BY <1>1, <1>2, <1>3, <2>1, HistoryGrows
  <2> QED BY <1>7, <2>2 DEF Out, out, b
<1>15. ReaderInv(m)'
  BY <1>9, <1>10, <1>11, <1>12, <1>13, <1>14, SameFile DEF ReaderInv
<1>16. \A n \in Modes \ {m} : ReaderInv(n)'
  BY <1>1, <1>7, ReaderKept
<1>17. InTurn'
  BY <1>1, <1>7, TurnFacts DEF InTurn, Status, Finished, Modes, Reading
<1> QED BY <1>1, <1>8, <1>15, <1>16, <1>17, SameFile DEF CInv

Rewrite(r, k, pos, i, out) ==
    [r EXCEPT !.block = k, !.pos = pos, !.interfaces = i, !.out = out]

LEMMA Rewritten ==
    ASSUME NEW r \in ReaderState, NEW k, NEW pos, NEW i, NEW out
    PROVE  Rewrite(r, k, pos, i, out)
             = [block |-> k, pos |-> pos, interfaces |-> i, out |-> out, status |-> r.status]
<1> DEFINE R(a, b, c, d, e) ==
             [block |-> a, pos |-> b, interfaces |-> c, out |-> d, status |-> e]
<1>1. \A a, b, c, d, e :
         /\ [R(a, b, c, d, e) EXCEPT !.block = k] = R(k, b, c, d, e)
         /\ [R(a, b, c, d, e) EXCEPT !.pos = pos] = R(a, pos, c, d, e)
         /\ [R(a, b, c, d, e) EXCEPT !.interfaces = i] = R(a, b, i, d, e)
         /\ [R(a, b, c, d, e) EXCEPT !.out = out] = R(a, b, c, out, e)
  OBVIOUS
<1>2. r = R(r.block, r.pos, r.interfaces, r.out, r.status)
  BY DEF ReaderState
<1> DEFINE b == r.block
           p == r.pos
           c == r.interfaces
           o == r.out
           e == r.status
<1> HIDE DEF R, b, p, c, o, e
<1>3. r = R(b, p, c, o, e)
  BY <1>2 DEF b, p, c, o, e
<1> DEFINE r1 == [r EXCEPT !.block = k]
           r2 == [r1 EXCEPT !.pos = pos]
           r3 == [r2 EXCEPT !.interfaces = i]
           r4 == [r3 EXCEPT !.out = out]
<1>4. r1 = R(k, p, c, o, e)
  BY <1>1, <1>3
<1> HIDE DEF r1
<1>5. r2 = R(k, pos, c, o, e)
  BY <1>1, <1>4
<1> HIDE DEF r2
<1>6. r3 = R(k, pos, i, o, e)
  BY <1>1, <1>5
<1> HIDE DEF r3
<1>7. r4 = R(k, pos, i, out, e)
  BY <1>1, <1>6
<1> HIDE DEF r4
<1>8. r4 = Rewrite(r, k, pos, i, out)
  BY DEF r1, r2, r3, r4, Rewrite
<1> QED BY <1>7, <1>8 DEF R, e

LEMMA TakeBeyond ==
    ASSUME CInv, NEW m \in Modes, NEW i, NEW p, Take(m, i, p),
           i = Described(reader[m].interfaces, At(m)),
           p = Yielded(reader[m].block, reader[m].interfaces)
    PROVE  reader' = [reader EXCEPT ![m] = Beyond(m)] /\ UNCHANGED <<format, file, size>>
<1> DEFINE r == reader[m]
           s == [r EXCEPT !.block = @ + 1, !.pos = @ + At(m).total,
                          !.interfaces = i, !.out = @ \o p]
<1>1. reader \in [Modes -> ReaderState] /\ r \in ReaderState
  BY DEF CInv
<1>2. reader' = [reader EXCEPT ![m] = s]
  BY <1>1 DEF Take
<1>3. s = Beyond(m)
  <2> DEFINE kk == r.block + 1
             pp == r.pos + At(m).total
             oo == r.out \o p
  <2>1. s = Rewrite(r, kk, pp, i, oo)
    BY DEF Rewrite
  <2>2. Beyond(m) = [block |-> kk, pos |-> pp, interfaces |-> i, out |-> oo,
                     status |-> r.status]
    BY DEF Beyond
  <2> HIDE DEF s, r, kk, pp, oo
  <2>3. Rewrite(r, kk, pp, i, oo)
          = [block |-> kk, pos |-> pp, interfaces |-> i, out |-> oo, status |-> r.status]
    BY <1>1, Rewritten
  <2> QED BY <2>1, <2>2, <2>3
<1> QED BY <1>2, <1>3 DEF Take

LEMMA CompleteFacts ==
    ASSUME CInv, NEW m \in Modes, NEW kinds, Complete(m, kinds)
    PROVE  /\ Reading(m) /\ Avail(m) > 0 /\ ~Short(m) /\ Plausible(At(m))
           /\ At(m).kind \in kinds /\ At(m) = file[reader[m].block]
           /\ Body(At(m)) \in Int /\ At(m).iface \in Nat
           /\ reader[m].interfaces \in Seq(Declaration) /\ Len(reader[m].interfaces) \in Nat
<1>1. Avail(m) > 0 /\ reader[m] \in ReaderState /\ FileInv
  BY DEF Complete, CInv
<1>2. reader[m].block \in 1..Len(file) /\ At(m) = file[reader[m].block]
  BY <1>1, InFile
<1>3. At(m).total \in Nat /\ At(m).iface \in Nat
  BY <1>1, <1>2, BlockFacts
<1>4. reader[m].interfaces \in Seq(Declaration) /\ Len(reader[m].interfaces) \in Nat
  BY <1>1, LenProperties DEF ReaderState
<1> QED BY <1>1, <1>2, <1>3, <1>4 DEF Complete, Body

\* Every step that takes a block does to the reader what the block says,
\* in whatever mode it is read.
LEMMA TakesBeyond ==
    ASSUME CInv, NEW m \in Modes,
           \/ Record(m) \/ Section(m) \/ Interface(m) \/ Enhanced(m)
           \/ EnhancedSkipped(m) \/ Simple(m) \/ Other(m)
    PROVE  /\ Reading(m) /\ Avail(m) > 0 /\ ~Short(m) /\ Plausible(At(m))
           /\ reader' = [reader EXCEPT ![m] = Beyond(m)] /\ UNCHANGED <<format, file, size>>
<1> DEFINE r == reader[m]
           b == At(m)
           i == r.interfaces
           d == Described(i, b)
           y == Yielded(r.block, i)
<1>1. SUFFICES \E kinds : Complete(m, kinds) /\ Take(m, d, y)
  BY CompleteFacts, TakeBeyond
<1>2. CASE Record(m)
  <2>1. Complete(m, {"REC"}) /\ Take(m, <<>>, Packet(m, 0, b.caplen))
    BY <1>2 DEF Record
  <2>2. b.kind = "REC" /\ b = file[r.block]
    BY <2>1, CompleteFacts
  <2>3. d = <<>> /\ y = Packet(m, 0, b.caplen)
    BY <2>2 DEF Described, Yielded, Packet
  <2> QED BY <2>1, <2>3
<1>3. CASE Section(m)
  <2>1. Complete(m, {"SHB"}) /\ Take(m, <<>>, <<>>)
    BY <1>3 DEF Section
  <2>2. b.kind = "SHB" /\ b = file[r.block]
    BY <2>1, CompleteFacts
  <2>3. d = <<>> /\ y = <<>>
    BY <2>2 DEF Described, Yielded, HoldsPacket
  <2> QED BY <2>1, <2>3
<1>4. CASE Interface(m)
  <2> DEFINE described == IF Body(b) < 8 THEN i
                          ELSE Append(i, [linktype |-> b.linktype, snaplen |-> b.snaplen])
  <2>1. Complete(m, {"IDB"}) /\ Take(m, described, <<>>)
    BY <1>4 DEF Interface
  <2>2. b.kind = "IDB" /\ b = file[r.block] /\ Body(b) \in Int
    BY <2>1, CompleteFacts
  <2>3. y = <<>>
    BY <2>2 DEF Yielded, HoldsPacket
  <2>4. d = described
    BY <2>2 DEF Described
  <2> QED BY <2>1, <2>3, <2>4
<1>5. CASE Enhanced(m)
  <2> DEFINE packet == Packet(m, i[b.iface + 1].linktype, Min({b.caplen, Body(b) - 20}))
  <2>1. Complete(m, {"EPB", "PB"}) /\ Body(b) >= 20 /\ Declared(m) /\ Take(m, i, packet)
    BY <1>5 DEF Enhanced
  <2>2. b.kind \in {"EPB", "PB"} /\ b = file[r.block]
    BY <2>1, CompleteFacts
  <2>3. d = i
    BY <2>2 DEF Described
  <2>4. HoldsPacket(b, i)
    BY <2>1, <2>2 DEF HoldsPacket, Declared
  <2>5. Named(b) = b.iface + 1 /\ Captured(b, i[Named(b)]) = Min({b.caplen, Body(b) - 20})
    BY <2>2 DEF Named, Captured
  <2>6. y = packet
    BY <2>2, <2>4, <2>5 DEF Yielded, Packet
  <2> QED BY <2>1, <2>3, <2>6
<1>6. CASE EnhancedSkipped(m)
  <2>1. /\ Complete(m, {"EPB", "PB"}) /\ Take(m, i, <<>>)
        /\ Body(b) < 20 \/ ~Declared(m)
    BY <1>6 DEF EnhancedSkipped
  <2>2. b.kind \in {"EPB", "PB"} /\ b = file[r.block] /\ Body(b) \in Int
    BY <2>1, CompleteFacts
  <2>3. d = i
    BY <2>2 DEF Described
  <2>4. ~HoldsPacket(b, i)
    BY <2>1, <2>2 DEF HoldsPacket, Declared
  <2>5. y = <<>>
    BY <2>2, <2>4 DEF Yielded
  <2> QED BY <2>1, <2>3, <2>5
<1>7. CASE Simple(m)
  <2> DEFINE n == Min({b.caplen, Body(b) - 4}
                      \cup (IF i[1].snaplen = 0 THEN {} ELSE {i[1].snaplen}))
             packets == IF Body(b) < 4 \/ i = <<>> THEN <<>> ELSE Packet(m, i[1].linktype, n)
  <2>1. Complete(m, {"SPB"}) /\ Take(m, i, packets)
    BY <1>7 DEF Simple
  <2>2. b.kind = "SPB" /\ b = file[r.block] /\ Body(b) \in Int
    BY <2>1, CompleteFacts
  <2>3. d = i
    BY <2>2 DEF Described
  <2>4. Named(b) = 1 /\ Captured(b, i[Named(b)]) = n
    BY <2>2 DEF Named, Captured
  <2>5. HoldsPacket(b, i) <=> ~(Body(b) < 4 \/ i = <<>>)
    BY <2>2 DEF HoldsPacket
  <2> HIDE DEF n
  <2>6. y = packets
    BY <2>2, <2>4, <2>5 DEF Yielded, Packet
  <2> QED BY <2>1, <2>3, <2>6
<1>8. CASE Other(m)
  <2>1. Complete(m, {"other"}) /\ Take(m, i, <<>>)
    BY <1>8 DEF Other
  <2>2. b.kind = "other" /\ b = file[r.block]
    BY <2>1, CompleteFacts
  <2>3. d = i /\ y = <<>>
    BY <2>2 DEF Described, Yielded, HoldsPacket
  <2> QED BY <2>1, <2>3
<1> QED BY <1>2, <1>3, <1>4, <1>5, <1>6, <1>7, <1>8

-----------------------------------------------------------------------------
(* The invariant *)

LEMMA CInitInv == Init => CInv
<1> SUFFICES ASSUME Init PROVE CInv
  OBVIOUS
<1>1. FileInv
  <2>1. ASSUME NEW S, S \subseteq Block, file \in SeqOf(S, MaxBlocks)
        PROVE  file \in Seq(Block) /\ \A n \in 1..Len(file) : file[n] \in S
    <3>1. PICK n \in 0..MaxBlocks : file \in [1..n -> S]
      BY <2>1 DEF SeqOf
    <3>2. n \in Nat /\ file \in Seq(S)
      BY <3>1, SeqDef, LimitsAssumption
    <3>3. file \in Seq(Block)
      BY <2>1, <3>2, SeqMonotonic
    <3> QED BY <3>2, <3>3, ElementOfSeq
  <2>2. CASE format = "pcap"
    <3>1. file \in SeqOf(Records, MaxBlocks)
      BY <2>2 DEF Init
    <3> QED BY <2>1, <2>2, <3>1, BlocksAssumption DEF Init, FileInv
  <2>3. CASE format = "pcapng"
    <3>1. file \in SeqOf(Blocks, MaxBlocks) /\ file # <<>> /\ file[1].kind = "SHB"
      BY <2>3 DEF Init
    <3> QED BY <2>1, <2>3, <3>1, BlocksAssumption DEF Init, FileInv
  <2> QED BY <2>2, <2>3 DEF Init
<1> DEFINE r0 == [block |-> 1, pos |-> HeaderBytes, interfaces |-> <<>>,
                  out |-> <<>>, status |-> "new"]
<1>2. /\ HeaderBytes \in Nat /\ Offset(0) = HeaderBytes /\ Len(file) \in Nat
  BY <1>1, OffsetFacts
<1>3. reader = [m \in Modes |-> r0]
  BY TurnFacts DEF Init
<1>4. r0 \in ReaderState
  BY <1>2, EmptySeq DEF ReaderState
<1>5. ASSUME NEW m \in Modes PROVE ReaderInv(m)
  <2>1. reader[m] = r0 /\ Out(m) = <<>>
    BY <1>3 DEF Out
  <2>2. Place(m)
    <3>1. 1 \in 1..Len(file) + 1 /\ 1 - 1 = 0 /\ ~(1 > 1)
      BY <1>2
    <3> QED BY <1>2, <2>1, <3>1 DEF Place
  <2>3. Passed(m)
    BY <2>1 DEF Passed
  <2>4. Ceased(m) /\ InSection(reader[m])
    BY <2>1 DEF Ceased, InSection
  <2>5. \A i \in 1..Len(Out(m)) : FALSE
    BY <2>1, EmptySeq
  <2>6. \E t : History(t, 1, <<>>, <<>>)
    <3> DEFINE h == [interfaces |-> <<>>, out |-> <<>>]
               t == [n \in 1..1 |-> h]
    <3>1. h \in [interfaces : Seq(Declaration), out : Seq(Read)]
      BY EmptySeq
    <3>2. t \in [1..1 -> [interfaces : Seq(Declaration), out : Seq(Read)]] /\ t[1] = h
      BY <3>1
    <3>3. \A n \in 1..1 - 1 : FALSE
      OBVIOUS
    <3> HIDE DEF t
    <3>4. History(t, 1, <<>>, <<>>)
      BY <3>2, <3>3 DEF History
    <3> QED BY <3>4
  <2> QED BY <2>1, <2>2, <2>3, <2>4, <2>5, <2>6 DEF ReaderInv
<1>6. InTurn
  BY <1>3 DEF InTurn, Status, Modes
<1> QED BY <1>1, <1>3, <1>4, <1>5, <1>6 DEF CInv

LEMMA CStepInv ==
    ASSUME CInv, NEW m \in Modes, Step(m)
    PROVE  CInv'
<1>1. CASE Open(m)
  <2> DEFINE st == IF Present(m) < 4 \/ Present(m) < HeaderBytes THEN "error" ELSE "reading"
  <2>1. Turn(m) /\ Stop(m, st) /\ reader[m].status = "new"
    BY <1>1 DEF Open
  <2>2. Present(m) \in Nat /\ HeaderBytes \in Nat /\ reader[m].block = 1
    BY <2>1, OffsetFacts DEF CInv, ReaderInv, Place, Present
  <2>3. /\ st \in {"reading", "ended", "error"} /\ st # "ended"
        /\ st = "reading" => Opens(m)
        /\ st = "error" => ~Opens(m)
    BY <2>2 DEF Opens
  <2> HIDE DEF st
  <2> QED BY <2>1, <2>2, <2>3, StoppedInv
<1>2. CASE EndOfFile(m)
  <2>1. Turn(m) /\ Stop(m, "ended") /\ Avail(m) = 0 /\ reader[m].status = "reading"
    BY <1>2 DEF EndOfFile, Reading
  <2>2. Opens(m)
    BY <2>1 DEF CInv, ReaderInv, Place
  <2> QED BY <2>1, <2>2, StoppedInv
<1>3. CASE Cut(m)
  <2> DEFINE st == IF m = "strict" THEN "error" ELSE "ended"
  <2>1. /\ Turn(m) /\ Stop(m, st) /\ Avail(m) > 0 /\ Short(m) /\ reader[m].status = "reading"
    BY <1>3 DEF Cut, Reading, StopShort
  <2>2. Opens(m)
    BY <2>1 DEF CInv, ReaderInv, Place
  <2>3. /\ st \in {"reading", "ended", "error"}
        /\ st = "ended" => m # "strict"
        /\ st = "error" => m = "strict"
    OBVIOUS
  <2> HIDE DEF st
  <2> QED BY <2>1, <2>2, <2>3, StoppedInv
<1>4. CASE Refuse(m)
  <2>1. /\ Turn(m) /\ Stop(m, "error") /\ Avail(m) > 0 /\ ~Short(m) /\ ~Plausible(At(m))
        /\ reader[m].status = "reading"
    BY <1>4 DEF Refuse, Reading
  <2>2. Opens(m)
    BY <2>1 DEF CInv, ReaderInv, Place
  <2> QED BY <2>1, <2>2, StoppedInv
<1>5. CASE EnhancedRefused(m)
  <2>1. Turn(m) /\ Stop(m, "error") /\ m = "strict"
    BY <1>5 DEF EnhancedRefused, Complete, Reading
  <2> QED BY <2>1, StoppedInv
<1>6. CASE \/ Record(m) \/ Section(m) \/ Interface(m) \/ Enhanced(m)
           \/ EnhancedSkipped(m) \/ Simple(m) \/ Other(m)
  BY <1>6, TakesBeyond, TakenInv
<1> QED BY <1>1, <1>2, <1>3, <1>4, <1>5, <1>6 DEF Step

LEMMA CStutterInv ==
    ASSUME CInv, UNCHANGED vars
    PROVE  CInv'
<1>1. UNCHANGED <<format, file, size>> /\ reader' = reader
  BY DEF vars
<1>2. \A m \in Modes : ReaderInv(m)'
  BY <1>1, ReaderKept DEF CInv
<1>3. InTurn' <=> InTurn
  BY <1>1 DEF InTurn, Status, Finished
<1> QED BY <1>1, <1>2, <1>3, SameFile DEF CInv

(* What each reading has found of the blocks behind it, what it holds and  *)
(* why it stopped, if it has, follows from the file and the cut.           *)
THEOREM ReadingsDescribed == Spec => []CInv
<1>1. CInv /\ [Next]_vars => CInv'
  BY CStepInv, CStutterInv, TurnFacts DEF Next
<1> QED BY <1>1, CInitInv, PTL DEF Spec

-----------------------------------------------------------------------------
(* Two readings go through the same states *)

LEMMA Least ==
    ASSUME NEW n \in Nat, NEW S \in SUBSET (1..n), S # {}
    PROVE  \E x \in S : \A y \in S : x <= y
<1>1. S \in SUBSET Nat
  OBVIOUS
<1>2. \E x \in S : \A y \in S : ~(<<y, x>> \in OpToRel(<, Nat))
  BY <1>1, NatLessThanWellFounded, WFMin
<1>3. PICK x \in S : \A y \in S : ~(y < x)
  BY <1>1, <1>2 DEF OpToRel
<1> QED BY <1>3

LEMMA SameStates ==
    ASSUME NEW k \in Nat \ {0}, NEW l \in Nat, k <= l, NEW t, NEW u,
           NEW i, NEW o, NEW j, NEW p, History(t, k, i, o), History(u, l, j, p)
    PROVE  \A n \in 1..k : t[n] = u[n]
<1> DEFINE S == {n \in 1..k : t[n] # u[n]}
<1>1. SUFFICES ASSUME S # {} PROVE FALSE
  OBVIOUS
<1>2. S \in SUBSET (1..k)
  OBVIOUS
<1> HIDE DEF S
<1>3. PICK x \in S : \A y \in S : x <= y
  BY <1>1, <1>2, Least
<1>4. x \in 1..k /\ t[x] # u[x]
  BY <1>3 DEF S
<1>5. x # 1
  BY <1>4 DEF History
<1>6. x - 1 \in 1..k - 1 /\ x - 1 \in 1..l - 1 /\ (x - 1) + 1 = x /\ x - 1 \in 1..k
  BY <1>4, <1>5
<1>7. t[x - 1] = u[x - 1]
  <2>1. x - 1 \notin S
    BY <1>3, <1>4
  <2> QED BY <1>6, <2>1 DEF S
<1>8. /\ t[x] = [interfaces |-> Described(t[x - 1].interfaces, file[x - 1]),
                 out |-> t[x - 1].out \o Yielded(x - 1, t[x - 1].interfaces)]
      /\ u[x] = [interfaces |-> Described(u[x - 1].interfaces, file[x - 1]),
                 out |-> u[x - 1].out \o Yielded(x - 1, u[x - 1].interfaces)]
  <2>1. \A n \in 1..k - 1 :
          t[n + 1] = [interfaces |-> Described(t[n].interfaces, file[n]),
                      out |-> t[n].out \o Yielded(n, t[n].interfaces)]
    BY DEF History
  <2>2. \A n \in 1..l - 1 :
          u[n + 1] = [interfaces |-> Described(u[n].interfaces, file[n]),
                      out |-> u[n].out \o Yielded(n, u[n].interfaces)]
    BY DEF History
  <2> DEFINE y == x - 1
  <2>3. y \in 1..k - 1 /\ y \in 1..l - 1 /\ y + 1 = x
    BY <1>6
  <2> HIDE DEF y
  <2>4. /\ t[x] = [interfaces |-> Described(t[y].interfaces, file[y]),
                   out |-> t[y].out \o Yielded(y, t[y].interfaces)]
        /\ u[x] = [interfaces |-> Described(u[y].interfaces, file[y]),
                   out |-> u[y].out \o Yielded(y, u[y].interfaces)]
    BY <2>1, <2>2, <2>3
  <2> QED BY <2>4 DEF y
<1> QED BY <1>4, <1>7, <1>8

\* What extends a sequence has the prefixes of the sequence.
LEMMA PrefixGrows ==
    ASSUME NEW T, NEW a \in Seq(T), NEW b \in Seq(T), NEW c \in Seq(T), IsPrefix(a, b)
    PROVE  IsPrefix(a, b \o c)
<1> DEFINE n == Len(a)
           d == b \o c
<1>1. /\ n \in Nat /\ Len(b) \in Nat /\ Len(c) \in Nat /\ n <= Len(b)
      /\ SubSeq(a, 1, n) = SubSeq(b, 1, n)
  BY LenProperties DEF IsPrefix
<1>2. d \in Seq(T) /\ Len(d) = Len(b) + Len(c)
      /\ \A e \in 1..Len(b) + Len(c) : d[e] = IF e <= Len(b) THEN b[e] ELSE c[e - Len(b)]
  BY ConcatProperties
<1> HIDE DEF d
<1>3. SubSeq(d, 1, n) = SubSeq(b, 1, n)
  <2>1. \A e \in 1..n : e \in 1..Len(b) /\ d[e] = b[e]
    BY <1>1, <1>2
  <2>2. \A e \in 1..n : e \in 1..Len(d)
    BY <1>1, <1>2
  <2>3. /\ SubSeq(d, 1, n) \in Seq(T) /\ SubSeq(b, 1, n) \in Seq(T)
        /\ Len(SubSeq(d, 1, n)) = n /\ Len(SubSeq(b, 1, n)) = n
        /\ \A e \in 1..n : SubSeq(d, 1, n)[e] = d[e] /\ SubSeq(b, 1, n)[e] = b[e]
    BY <1>1, <1>2, <2>1, <2>2
  <2> QED BY <2>1, <2>3, SeqEqual
<1> QED BY <1>1, <1>2, <1>3 DEF IsPrefix, d

LEMMA OutGrows ==
    ASSUME FileInv, NEW k \in 1..Len(file) + 1, NEW t, NEW i, NEW o, History(t, k, i, o),
           NEW n \in 1..k
    PROVE  IsPrefix(t[n].out, o)
<1> DEFINE S == {x \in 1..k : x >= n /\ ~IsPrefix(t[n].out, t[x].out)}
<1>1. k \in Nat /\ n \in Nat /\ Len(file) \in Nat
  BY OffsetFacts
<1>2. /\ \A x \in 1..k : t[x].interfaces \in Seq(Declaration) /\ t[x].out \in Seq(Read)
      /\ t[k].out = o
  BY DEF History
<1>3. S = {}
  <2>1. SUFFICES ASSUME S # {} PROVE FALSE
    OBVIOUS
  <2>2. S \in SUBSET (1..k)
    OBVIOUS
  <2> HIDE DEF S
  <2>3. PICK x \in S : \A y \in S : x <= y
    BY <1>1, <2>1, <2>2, Least
  <2>4. x \in 1..k /\ x >= n /\ ~IsPrefix(t[n].out, t[x].out)
    BY <2>3 DEF S
  <2>5. x # n
    <3>1. IsPrefix(t[n].out, t[n].out)
      BY <1>2, LenProperties DEF IsPrefix
    <3> QED BY <2>4, <3>1
  <2> DEFINE w == x - 1
  <2>6. w \in 1..k - 1 /\ w \in 1..k /\ w >= n /\ w \in 1..Len(file) /\ w + 1 = x /\ ~(x <= w)
    BY <1>1, <2>4, <2>5
  <2> HIDE DEF w
  <2>7. IsPrefix(t[n].out, t[w].out)
    BY <2>3, <2>6 DEF S
  <2>8. t[x].out = t[w].out \o Yielded(w, t[w].interfaces)
    <3> DEFINE left == Described(t[w].interfaces, file[w])
               read == t[w].out \o Yielded(w, t[w].interfaces)
    <3>1. t[w + 1] = [interfaces |-> left, out |-> read]
      BY <2>6 DEF History
    <3> HIDE DEF left, read
    <3>2. t[x] = [interfaces |-> left, out |-> read]
      BY <2>6, <3>1
    <3>3. t[x].out = read
      BY <3>2
    <3> QED BY <3>3 DEF read
  <2>9. Yielded(w, t[w].interfaces) \in Seq(Read)
    BY <1>2, <2>6, BlockLeaves
  <2> QED BY <1>2, <2>4, <2>6, <2>7, <2>8, <2>9, PrefixGrows
<1>4. k \in 1..k /\ k >= n
  BY <1>1
<1> QED BY <1>2, <1>3, <1>4

LEMMA OutsAgree ==
    ASSUME CInv, NEW a \in Modes, NEW b \in Modes, reader[a].block <= reader[b].block
    PROVE  /\ IsPrefix(Out(a), Out(b))
           /\ reader[a].block = reader[b].block => Out(a) = Out(b)
<1> DEFINE k == reader[a].block
           l == reader[b].block
<1>1. /\ FileInv /\ k \in 1..Len(file) + 1 /\ l \in 1..Len(file) + 1 /\ Len(file) \in Nat
  BY OffsetFacts DEF CInv, ReaderInv, Place
<1>2. PICK t : History(t, k, reader[a].interfaces, Out(a))
  BY DEF CInv, ReaderInv
<1>3. PICK u : History(u, l, reader[b].interfaces, Out(b))
  BY DEF CInv, ReaderInv
<1> HIDE DEF k, l
<1>4. k <= l /\ k \in Nat \ {0} /\ l \in Nat /\ k \in 1..k /\ k \in 1..l
  BY <1>1 DEF k, l
<1>5. \A n \in 1..k : t[n] = u[n]
  BY <1>2, <1>3, <1>4, SameStates
<1>6. u[k].out = Out(a)
  BY <1>2, <1>4, <1>5 DEF History
<1>7. IsPrefix(Out(a), Out(b))
  <2>1. IsPrefix(u[k].out, Out(b))
    BY <1>1, <1>3, <1>4, OutGrows
  <2> QED BY <1>6, <2>1
<1>8. k = l => Out(a) = Out(b)
  BY <1>3, <1>6 DEF History
<1> QED BY <1>7, <1>8 DEF k, l

\* A reading that has more of the file, and that only the end of the file
\* or a block no one can read stops, gets at least as far.
LEMMA Further ==
    ASSUME CInv, NEW a \in Modes, NEW b \in Modes \ {"strict"},
           Present(a) <= Present(b), Finished(b)
    PROVE  reader[a].block <= reader[b].block
<1> DEFINE k == reader[b].block
<1>1. /\ FileInv /\ k \in 1..Len(file) + 1 /\ reader[a].block \in 1..Len(file) + 1
      /\ Len(file) \in Nat /\ Passed(a) /\ Ceased(b) /\ Place(a)
      /\ reader[b].pos = Offset(k - 1)
  BY OffsetFacts DEF CInv, ReaderInv, Place
<1>2. SUFFICES ASSUME k < reader[a].block PROVE FALSE
  BY <1>1
<1>3. k \in 1..reader[a].block - 1 /\ k \in 1..Len(file) /\ k - 1 \in 0..Len(file)
      /\ reader[a].block > 1
  BY <1>1, <1>2
<1>4. /\ Plausible(file[k]) /\ Present(a) >= Offset(k - 1) + LengthBytes(file[k])
      /\ Present(a) >= Offset(k)
  BY <1>1, <1>3 DEF Passed
<1>5. /\ LengthBytes(file[k]) \in Nat \ {0} /\ file[k].total \in Nat
      /\ Offset(k - 1) \in Nat /\ Offset(k) = Offset(k - 1) + file[k].total
  BY <1>1, <1>3, BlockFacts, OffsetFacts
<1>6. Present(a) \in Nat /\ Present(b) \in Nat /\ HeaderBytes \in Nat
  BY <1>1, OffsetFacts DEF Present
<1>7. At(b) = file[k] /\ Avail(b) = Present(b) - Offset(k - 1)
  BY <1>1 DEF At, Avail
<1>8. Opens(b)
  BY <1>1, <1>3, <1>6 DEF Place, Opens
<1> HIDE DEF k
<1>9. Avail(b) > 0 /\ Avail(b) >= LengthBytes(file[k]) /\ Avail(b) >= file[k].total
      /\ Avail(b) \in Int
  BY <1>4, <1>5, <1>6, <1>7
<1>10. ~Short(b)
  BY <1>5, <1>7, <1>9 DEF Short
<1>11. Plausible(At(b)) /\ Avail(b) # 0
  BY <1>4, <1>7, <1>9
<1> QED BY <1>1, <1>8, <1>10, <1>11 DEF Ceased, Finished

-----------------------------------------------------------------------------
(* What a cut and the mode change *)

LEMMA PrefixKept ==
    ASSUME CInv
    PROVE  CutKeepsPrefix
<1> SUFFICES ASSUME Finished("whole")
             PROVE  /\ IsPrefix(Out("default"), Out("whole"))
                    /\ Status("default") = "error" =>
                          Status("whole") = "error" \/ size < 4 \/ size < HeaderBytes
  BY DEF CutKeepsPrefix
<1> DEFINE k == reader["default"].block
<1>1. FileInv /\ size \in Nat /\ Whole \in Nat /\ size <= Whole /\ HeaderBytes \in Nat
      /\ Present("default") = size /\ Present("whole") = Whole
  BY OffsetFacts DEF CInv, Present
<1>2. k <= reader["whole"].block
  BY <1>1, Further DEF Modes
<1>3. IsPrefix(Out("default"), Out("whole"))
  BY <1>2, OutsAgree DEF Modes
<1>4. ASSUME Status("default") = "error", ~(size < 4), ~(size < HeaderBytes),
             Status("whole") # "error"
      PROVE  FALSE
  <2>1. Avail("default") > 0 /\ ~Short("default") /\ ~Plausible(At("default"))
    <3>1. Ceased("default") /\ Opens("default")
      BY <1>1, <1>4 DEF CInv, ReaderInv, Modes, Opens
    <3> QED BY <1>4, <3>1 DEF Ceased, Status
  <2>2. /\ k \in 1..Len(file) /\ At("default") = file[k]
        /\ Avail("default") = size - Offset(k - 1)
    BY <1>1, <2>1, InFile DEF Modes, Avail
  <2>3. /\ reader["whole"].block \in 1..Len(file) + 1 /\ Passed("whole") /\ Ceased("whole")
        /\ reader["whole"].pos = Offset(reader["whole"].block - 1) /\ Len(file) \in Nat
    BY OffsetFacts DEF CInv, ReaderInv, Place, Modes
  <2>4. reader["whole"].block = k
    <3>1. k < reader["whole"].block => k \in 1..reader["whole"].block - 1
      BY <2>2, <2>3
    <3>2. ~(k < reader["whole"].block)
      BY <2>1, <2>2, <2>3, <3>1 DEF Passed
    <3> HIDE DEF k
    <3> QED BY <1>2, <2>2, <2>3, <3>2
  <2>5. At("whole") = file[k] /\ Avail("whole") = Whole - Offset(k - 1)
    BY <1>1, <2>3, <2>4 DEF At, Avail
  <2>6. Offset(k - 1) \in Nat /\ LengthBytes(file[k]) \in Nat
    <3>1. k - 1 \in 0..Len(file)
      BY <2>2, <2>3
    <3> QED BY <1>1, <2>2, <3>1, OffsetFacts, BlockFacts
  <2> HIDE DEF k
  <2>7. Avail("whole") > 0 /\ ~Short("whole")
    BY <1>1, <2>1, <2>2, <2>5, <2>6 DEF Short
  <2>8. Status("whole") = "ended" /\ Avail("whole") # 0
    BY <1>4, <2>7 DEF Finished, Status
  <2> QED BY <2>3, <2>7, <2>8 DEF Ceased, Status
<1> QED BY <1>3, <1>4

LEMMA ModesAgree ==
    ASSUME CInv
    PROVE  StrictAgrees
<1> SUFFICES ASSUME Finished("default")
             PROVE  /\ IsPrefix(Out("strict"), Out("default"))
                    /\ Status("strict") = "ended" =>
                          /\ Out("strict") = Out("default") /\ Status("default") = "ended"
                          /\ size \in Boundaries
                    /\ Status("default") = "error" => Status("strict") = "error"
  BY DEF StrictAgrees
<1> DEFINE k == reader["strict"].block
           l == reader["default"].block
<1>1. FileInv /\ size \in Nat /\ HeaderBytes \in Nat /\ Len(file) \in Nat
      /\ Present("strict") = size /\ Present("default") = size
  BY OffsetFacts DEF CInv, Present
<1>2. k <= l
  BY <1>1, Further DEF Modes
<1>3. IsPrefix(Out("strict"), Out("default"))
  BY <1>2, OutsAgree DEF Modes
<1>4. Finished("strict")
  BY DEF CInv, InTurn, Finished, Status
<1>5. ASSUME Status("strict") = "ended"
      PROVE  /\ Out("strict") = Out("default") /\ Status("default") = "ended"
             /\ size \in Boundaries
  <2>1. /\ k \in 1..Len(file) + 1 /\ l \in 1..Len(file) + 1
        /\ reader["strict"].pos = Offset(k - 1) /\ reader["default"].pos = Offset(l - 1)
        /\ Passed("default") /\ Ceased("default") /\ Ceased("strict") /\ Opens("strict")
    BY <1>5 DEF CInv, ReaderInv, Place, Modes, Status
  <2>2. k - 1 \in 0..Len(file) /\ Offset(k - 1) \in Nat
    <3>1. k - 1 \in 0..Len(file)
      BY <1>1, <2>1
    <3> QED BY <1>1, <3>1, OffsetFacts
  <2>3. size = Offset(k - 1)
    <3>1. Avail("strict") = size - Offset(k - 1) /\ Avail("strict") = 0
      BY <1>1, <1>5, <2>1 DEF Ceased, Status, Avail
    <3> HIDE DEF k
    <3> QED BY <1>1, <2>2, <3>1
  <2>4. k = l
    <3>1. SUFFICES ASSUME k < l PROVE FALSE
      BY <1>2, <2>1
    <3>2. k \in 1..l - 1 /\ k \in 1..Len(file)
      BY <1>1, <2>1, <3>1
    <3>3. size >= Offset(k - 1) + LengthBytes(file[k]) /\ LengthBytes(file[k]) \in Nat \ {0}
      BY <1>1, <2>1, <3>2, BlockFacts DEF Passed
    <3> HIDE DEF k
    <3> QED BY <2>2, <2>3, <3>3
  <2>5. Out("strict") = Out("default")
    BY <1>2, <2>4, OutsAgree DEF Modes
  <2>6. Opens("default") /\ Avail("default") = 0
    <3>1. Avail("default") = size - Offset(k - 1)
      BY <1>1, <2>1, <2>4 DEF Avail
    <3> HIDE DEF k
    <3> QED BY <1>1, <2>1, <2>2, <2>3, <3>1 DEF Opens
  <2>7. Status("default") # "error"
    BY <2>1, <2>6 DEF Ceased, Status
  <2>8. Status("default") = "ended"
    BY <2>7 DEF Finished, Status
  <2> QED BY <2>2, <2>3, <2>5, <2>8 DEF Boundaries
<1>6. Status("default") = "error" => Status("strict") = "error"
  BY <1>4, <1>5 DEF Finished, Status
<1> QED BY <1>3, <1>5, <1>6

(* Of every file, cut after any of its bytes, what is read by default is   *)
(* what the whole file starts with, and a cut turns into an error only     *)
(* where not even the file header is left.                                 *)
THEOREM CutLosesTheEnd == Spec => []CutKeepsPrefix
  BY ReadingsDescribed, PrefixKept, PTL

(* Of every file, strict mode reads what the default reads or stops with   *)
(* an error before that, and it ends without one only where the file was   *)
(* not cut inside a block.                                                 *)
THEOREM StrictReadsTheSame == Spec => []StrictAgrees
  BY ReadingsDescribed, ModesAgree, PTL

(* However many sections a file has and however many interfaces each of    *)
(* them describes, a packet has the link type of the interface its number  *)
(* means in its own section, in either mode and after any cut.             *)
THEOREM PacketsOfTheirSection == Spec => []OwnInterface
<1>1. CInv => OwnInterface
  <2> SUFFICES ASSUME CInv, format = "pcapng", NEW m \in Modes, NEW i \in 1..Len(Out(m))
               PROVE  \E j \in 1..Out(m)[i].block :
                         /\ Describes(j, IF file[Out(m)[i].block].kind = "SPB" THEN 1
                                         ELSE file[Out(m)[i].block].iface + 1,
                                      Out(m)[i].block)
                         /\ Out(m)[i].linktype = file[j].linktype
    BY TurnFacts DEF OwnInterface
  <2>1. Attributed(Out(m)[i])
    BY DEF CInv, ReaderInv
  <2> QED BY <2>1 DEF Attributed, Named
<1> QED BY <1>1, ReadingsDescribed, PTL
=============================================================================
