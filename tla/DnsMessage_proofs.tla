-------------------------- MODULE DnsMessage_proofs --------------------------
(***************************************************************************)
(* Theorems about the DNS parser, for every message, cut after any byte,   *)
(* and every length of the format.                                         *)
(*                                                                         *)
(* The first part is about one reading.  While a name is read, its own     *)
(* place ends where the place the parser is at ends; from the first        *)
(* pointer on, the parser holds that end (InName).                         *)
(*                                                                         *)
(* The second part compares the readings of a message.  What a step that   *)
(* goes on leaves in a reading does not depend on how much of the message  *)
(* is there (After), and with more of it there is no less to go on to      *)
(* (GoesMore); so the whole message is read through the states the cut one *)
(* went through (Walk), and from the last of them on.                      *)
(***************************************************************************)
EXTENDS DnsMessage, SequenceTheorems, WellFoundedInduction, TLAPS

NameState ==
    [at : Nat, pos : Nat, labels : Seq(Seq(0..255)), wire_len : Nat, jumps : Nat,
     end : Nat \cup {NoEnd}]

ItemRead == [at : Nat, name : Seq(Seq(0..255)), end : Nat, next : Nat]

ReaderState ==
    [stage : {"header", "questions", "answers", "message", "not DNS"},
     name : NameState, questions : Seq(ItemRead), answers : Seq(ItemRead)]

MessageOK ==
    /\ buf \in Seq(0..255) /\ size \in 0..Len(buf)
    /\ header \in [qdcount : Nat, ancount : Nat, assigned : BOOLEAN]

-----------------------------------------------------------------------------
(* Where a name ends in its place *)

LEMMA ByteRange == \A b \in 0..255 : b \in Nat /\ b <= 255
OBVIOUS

LEMMA MessageFacts ==
    ASSUME MessageOK
    PROVE  /\ Len(buf) \in Nat
           /\ \A m \in Readings : Present(m) \in 0..Len(buf) /\ Present(m) \in Nat
           /\ \A p \in 0..Len(buf) - 1 : Byte(p) \in Nat /\ Byte(p) <= 255
<1>1. Len(buf) \in Nat
  BY LenProperties DEF MessageOK
<1>2. \A m \in Readings : Present(m) \in 0..Len(buf) /\ Present(m) \in Nat
  BY <1>1 DEF Present, MessageOK
<1>3. ASSUME NEW p \in 0..Len(buf) - 1 PROVE Byte(p) \in Nat /\ Byte(p) <= 255
  <2>1. p + 1 \in 1..Len(buf)
    BY <1>1
  <2>2. buf[p + 1] \in 0..255
    BY <2>1, ElementOfSeq DEF MessageOK
  <2> QED BY <2>2, ByteRange, Zenon DEF Byte
<1> QED BY <1>1, <1>2, <1>3

LEMMA Greatest ==
    ASSUME NEW n \in Nat, NEW S \in SUBSET (0..n), S # {}
    PROVE  \E x \in S : \A y \in S : y <= x
<1> DEFINE T == {n - y : y \in S}
<1>1. T \in SUBSET Nat /\ T # {}
  <2>1. \A y \in S : n - y \in Nat
    OBVIOUS
  <2>2. PICK y \in S : TRUE
    OBVIOUS
  <2>3. n - y \in T
    BY <2>2
  <2> QED BY <2>1, <2>3
<1>2. \E t \in T : \A u \in T : ~(<<u, t>> \in OpToRel(<, Nat))
  BY <1>1, NatLessThanWellFounded, WFMin
<1>3. PICK t \in T : \A u \in T : ~(u < t)
  BY <1>1, <1>2 DEF OpToRel
<1>4. PICK x \in S : t = n - x
  BY <1>3
<1>5. \A y \in S : y <= x
  BY <1>3, <1>4
<1> QED BY <1>5

\* What EndInPlace makes of place p when f says what it makes of later ones.
Place(f, p) ==
    IF p >= Len(buf) THEN p
    ELSE IF Byte(p) = 0 THEN p + 1
    ELSE IF Byte(p) >= 192 THEN p + 2
    ELSE IF p + 1 + Byte(p) > Len(buf) THEN Len(buf)
    ELSE f[p + 1 + Byte(p)]

\* The equation EndInPlace is chosen by has a solution: from the last place
\* backwards, each one's end is that of a later one.
Solved(d) == \E f : f = [p \in d..Len(buf) |-> Place(f, p)]

LEMMA SolvedBackwards ==
    ASSUME MessageOK, NEW d \in 0..Len(buf) - 1, Solved(d + 1)
    PROVE  Solved(d)
<1>1. Len(buf) \in Nat /\ \A p \in 0..Len(buf) - 1 : Byte(p) \in Nat
  BY MessageFacts
<1> DEFINE L == Len(buf)
<1>2. PICK f : f = [p \in d + 1..L |-> Place(f, p)]
  BY DEF Solved
<1> DEFINE g == [p \in d..L |-> IF p = d THEN Place(f, d) ELSE f[p]]
<1>3. ASSUME NEW p \in d..L PROVE Place(g, p) = Place(f, p)
  <2> DEFINE q == p + 1 + Byte(p)
  <2>1. CASE p >= L \/ Byte(p) = 0 \/ Byte(p) >= 192 \/ q > L
    BY <2>1 DEF Place
  <2>2. CASE ~(p >= L \/ Byte(p) = 0 \/ Byte(p) >= 192 \/ q > L)
    <3>1. p \in 0..L - 1
      BY <1>1, <2>2
    <3>2. Byte(p) \in Nat
      BY <1>1, <3>1
    <3>3. q \in d + 1..L
      <4>1. L \in Nat /\ d \in Nat /\ p \in Nat /\ p >= d
        BY <1>1
      <4>2. ~(q > L)
        BY <2>2, Zenon
      <4> HIDE DEF L
      <4> QED BY <3>2, <4>1, <4>2
    <3>4. g[q] = f[q]
      <4>1. q \in d..L /\ q # d
        <5> HIDE DEF q, L
        <5> QED BY <3>3
      <4> HIDE DEF q
      <4> QED BY <4>1
    <3>5. Place(g, p) = g[q] /\ Place(f, p) = f[q]
      <4> HIDE DEF g
      <4> QED BY <2>2 DEF Place
    <3> QED BY <3>4, <3>5
  <2> QED BY <2>1, <2>2
<1>4. ASSUME NEW p \in d..L PROVE g[p] = Place(f, p)
  <2>1. CASE p = d
    BY <2>1
  <2>2. CASE p # d
    <3>1. p \in d + 1..L
      BY <1>1, <2>2
    <3>2. f[p] = Place(f, p)
      BY <1>2, <3>1
    <3> QED BY <2>2, <3>2
  <2> QED BY <2>1, <2>2
<1>5. g = [p \in d..L |-> g[p]]
  OBVIOUS
<1>6. \A p \in d..L : g[p] = Place(g, p)
  BY <1>3, <1>4
<1> HIDE DEF g
<1>7. g = [p \in d..L |-> Place(g, p)]
  BY <1>5, <1>6
<1> QED BY <1>7 DEF Solved

LEMMA SolvedLast ==
    ASSUME MessageOK
    PROVE  Solved(Len(buf))
<1> DEFINE L == Len(buf)  f == [p \in L..L |-> p]
<1>1. L \in Nat
  BY MessageFacts
<1>2. \A g : \A p \in L..L : Place(g, p) = p
  BY <1>1 DEF Place
<1>3. f = [p \in L..L |-> Place(f, p)]
  BY <1>2
<1> QED BY <1>3 DEF Solved

LEMMA PlaceFacts ==
    ASSUME MessageOK
    PROVE  \A p \in 0..Len(buf) : EndInPlace[p] = Place(EndInPlace, p)
<1> DEFINE S == {d \in 0..Len(buf) : ~Solved(d)}
<1>1. Len(buf) \in Nat
  BY MessageFacts
<1>2. Solved(0)
  <2> SUFFICES ASSUME ~Solved(0) PROVE FALSE
    OBVIOUS
  <2>1. S # {} /\ S \in SUBSET (0..Len(buf))
    BY <1>1
  <2> HIDE DEF S
  <2>2. PICK d \in S : \A y \in S : y <= d
    BY <1>1, <2>1, Greatest
  <2>3. d \in 0..Len(buf) /\ ~Solved(d)
    BY <2>2 DEF S
  <2>4. d # Len(buf)
    BY <2>3, SolvedLast
  <2>5. d \in 0..Len(buf) - 1 /\ d + 1 \in 0..Len(buf) /\ ~(d + 1 <= d)
    BY <1>1, <2>3, <2>4
  <2>6. Solved(d + 1)
    BY <2>2, <2>5 DEF S
  <2> QED BY <2>3, <2>5, <2>6, SolvedBackwards
<1>3. \E f : f = [p \in 0..Len(buf) |-> Place(f, p)]
  BY <1>2 DEF Solved
<1>4. EndInPlace = CHOOSE f : f = [p \in 0..Len(buf) |-> Place(f, p)]
  BY DEF EndInPlace, Place
<1>5. EndInPlace = [p \in 0..Len(buf) |-> Place(EndInPlace, p)]
  BY <1>3, <1>4
<1> QED BY <1>5

\* A place is as far from its end as the place its label leads to.
LEMMA EndFacts ==
    ASSUME MessageOK, NEW p \in 0..Len(buf) - 1
    PROVE  /\ Byte(p) = 0 => EndInPlace[p] = p + 1
           /\ Byte(p) >= 192 => EndInPlace[p] = p + 2
           /\ (Byte(p) > 0 /\ Byte(p) < 192 /\ p + 1 + Byte(p) <= Len(buf))
              => EndInPlace[p] = EndInPlace[p + 1 + Byte(p)]
<1>1. Len(buf) \in Nat /\ Byte(p) \in Nat /\ p \in 0..Len(buf) /\ ~(p >= Len(buf))
  BY MessageFacts
<1>2. EndInPlace[p] = Place(EndInPlace, p)
  BY <1>1, PlaceFacts
<1> DEFINE E == EndInPlace
<1> HIDE DEF E
<1>3. E[p] = Place(E, p)
  BY <1>2 DEF E
<1>4. Byte(p) = 0 => E[p] = p + 1
  BY <1>1, <1>3 DEF Place
<1>5. Byte(p) >= 192 => E[p] = p + 2
  BY <1>1, <1>3 DEF Place
<1>6. ASSUME Byte(p) > 0, Byte(p) < 192, p + 1 + Byte(p) <= Len(buf)
      PROVE  E[p] = E[p + 1 + Byte(p)]
  <2>1. ~(Byte(p) = 0) /\ ~(Byte(p) >= 192) /\ ~(p + 1 + Byte(p) > Len(buf))
    BY <1>1, <1>6
  <2> QED BY <1>1, <1>3, <2>1, Zenon DEF Place
<1> QED BY <1>4, <1>5, <1>6 DEF E

InPlaceOf(b) ==
    CHOOSE f : f = [p \in 0..Len(b) |->
        IF p >= Len(b) THEN p
        ELSE IF b[p + 1] = 0 THEN p + 1
        ELSE IF b[p + 1] >= 192 THEN p + 2
        ELSE IF p + 1 + b[p + 1] > Len(b) THEN Len(b)
        ELSE f[p + 1 + b[p + 1]]]

LEMMA SamePlaces ==
    ASSUME buf' = buf
    PROVE  EndInPlace' = EndInPlace
<1>1. EndInPlace = InPlaceOf(buf)
  BY DEF EndInPlace, InPlaceOf, Byte
<1>2. EndInPlace' = InPlaceOf(buf')
  BY DEF EndInPlace, InPlaceOf, Byte
<1> QED BY <1>1, <1>2

-----------------------------------------------------------------------------
(* One reading *)

ItemsOf(r) == r.questions \o r.answers

\* Where the next item lies.
Behind(xs) == IF xs = <<>> THEN HeaderLen ELSE xs[Len(xs)].next

\* Items that lie behind each other in n bytes.
Chained(xs, n) ==
    \A i \in 1..Len(xs) :
       /\ xs[i].at = IF i = 1 THEN HeaderLen ELSE xs[i - 1].next
       /\ xs[i].end = EndInPlace[xs[i].at]
       /\ xs[i].next <= n

\* The place x of a name, read as far as its pos, in n bytes.
InName(x, n) ==
    /\ x.at <= n /\ x.pos <= n
    /\ IF x.end = NoEnd THEN EndInPlace[x.at] = EndInPlace[x.pos]
       ELSE x.end = EndInPlace[x.at]

\* A reading r of n bytes.
RInv(r, n) ==
    /\ Chained(ItemsOf(r), n)
    /\ r.stage = "header" =>
          r.name = Name(HeaderLen) /\ r.questions = <<>> /\ r.answers = <<>>
    /\ r.stage = "questions" => r.answers = <<>>
    /\ r.stage \in {"questions", "answers"} =>
          r.name.at = Behind(ItemsOf(r)) /\ InName(r.name, n)

NInv ==
    /\ MessageOK
    /\ reader \in [Readings -> ReaderState]
    /\ \A m \in Readings : RInv(reader[m], Present(m))

LEMMA NoItems ==
    ASSUME NEW r, r.questions = <<>>, r.answers = <<>>
    PROVE  ItemsOf(r) = <<>>
<1>1. <<>> \in Seq(ItemRead)
  OBVIOUS
<1>2. <<>> \o <<>> = <<>>
  BY <1>1, ConcatEmptySeq
<1> QED BY <1>2 DEF ItemsOf

LEMMA NameFacts ==
    ASSUME NEW o
    PROVE  /\ Name(o).at = o /\ Name(o).pos = o /\ Name(o).labels = <<>>
           /\ Name(o).wire_len = 1 /\ Name(o).jumps = 0 /\ Name(o).end = NoEnd
           /\ o \in Nat => Name(o) \in NameState
<1>1. 1 \in Nat /\ 0 \in Nat /\ <<>> \in Seq(Seq(0..255))
  OBVIOUS
<1> QED BY <1>1 DEF Name, NameState

LEMMA StartsInName ==
    ASSUME NEW o, NEW n, o <= n
    PROVE  InName(Name(o), n)
BY NameFacts DEF InName

LEMMA AdvanceReader ==
    ASSUME NInv, NEW m \in Readings, NEW r \in ReaderState,
           RInv(r, Present(m)), Become(m, r)
    PROVE  NInv'
<1>1. /\ buf' = buf /\ header' = header /\ size' = size
      /\ reader' = [reader EXCEPT ![m] = r]
  BY DEF Become
<1>2. MessageOK' /\ reader \in [Readings -> ReaderState]
  BY <1>1 DEF NInv, MessageOK
<1>3. reader' \in [Readings -> ReaderState]
  BY <1>1, <1>2
<1>4. EndInPlace' = EndInPlace
  BY <1>1, SamePlaces
<1>5. ASSUME NEW k \in Readings PROVE RInv(reader[k], Present(k))'
  <2>1. Present(k)' = Present(k) /\ reader'[k] = IF k = m THEN r ELSE reader[k]
    BY <1>1, <1>2 DEF Present
  <2>2. RInv(reader[k], Present(k))' = RInv(reader'[k], Present(k)')
    BY <1>4 DEF RInv, Chained, InName
  <2> QED BY <2>1, <2>2 DEF NInv
<1> QED BY <1>2, <1>3, <1>5 DEF NInv

LEMMA ReaderFacts ==
    ASSUME NInv, NEW m \in Readings
    PROVE  /\ MessageOK /\ reader[m] \in ReaderState /\ RInv(reader[m], Present(m))
           /\ Len(buf) \in Nat /\ Present(m) \in 0..Len(buf) /\ Present(m) \in Nat
           /\ Present(m) <= Len(buf)
           /\ reader[m].questions \in Seq(ItemRead) /\ reader[m].answers \in Seq(ItemRead)
           /\ N(m) \in NameState
<1>1. /\ MessageOK /\ reader[m] \in ReaderState /\ RInv(reader[m], Present(m))
      /\ Len(buf) \in Nat /\ Present(m) \in 0..Len(buf) /\ Present(m) \in Nat
  BY MessageFacts DEF NInv
<1>2. Present(m) <= Len(buf)
  BY <1>1
<1>3. /\ reader[m].questions \in Seq(ItemRead) /\ reader[m].answers \in Seq(ItemRead)
      /\ N(m) \in NameState
  BY <1>1 DEF ReaderState, N
<1> QED BY <1>1, <1>2, <1>3

\* A reading changes its stage.
LEMMA StageMoves ==
    ASSUME NInv, NEW m \in Readings,
           NEW s \in {"questions", "answers", "message", "not DNS"},
           s = "questions" => Stage(m) = "header" /\ HeaderLen <= Present(m),
           s = "answers" => Stage(m) = "questions",
           To(m, s)
    PROVE  NInv'
<1> DEFINE r == reader[m]  q == [r EXCEPT !.stage = s]  n == Present(m)
<1>1. r \in ReaderState /\ RInv(r, n) /\ n \in Nat
  BY ReaderFacts
<1>2. Become(m, q)
  BY DEF To
<1>3. /\ s = "questions" => r.stage = "header" /\ HeaderLen <= n
      /\ s = "answers" => r.stage = "questions"
  BY DEF Stage
<1> HIDE DEF r, n
<1>4. q \in ReaderState
  BY <1>1 DEF ReaderState
<1>5. q.stage = s /\ q.name = r.name /\ q.questions = r.questions /\ q.answers = r.answers
  BY <1>1 DEF ReaderState
<1> HIDE DEF q
<1>6. Chained(ItemsOf(q), n)
  <2>1. ItemsOf(q) = ItemsOf(r)
    BY <1>5 DEF ItemsOf
  <2> QED BY <1>1, <2>1 DEF RInv
<1>7. CASE s = "questions"
  <2>1. /\ q.name = Name(HeaderLen) /\ q.questions = <<>> /\ q.answers = <<>>
        /\ HeaderLen <= n
    BY <1>1, <1>3, <1>5, <1>7 DEF RInv
  <2>2. ItemsOf(q) = <<>>
    BY <2>1, NoItems
  <2>3. q.name.at = Behind(ItemsOf(q))
    BY <2>1, <2>2, NameFacts DEF Behind
  <2>4. InName(q.name, n)
    BY <2>1, StartsInName
  <2> QED BY <1>2, <1>4, <1>5, <1>6, <1>7, <2>1, <2>3, <2>4, AdvanceReader DEF RInv, n
<1>8. CASE s = "answers"
  <2>1. r.name.at = Behind(ItemsOf(r)) /\ InName(r.name, n)
    BY <1>1, <1>3, <1>8 DEF RInv
  <2>2. ItemsOf(q) = ItemsOf(r)
    BY <1>5 DEF ItemsOf
  <2>3. RInv(q, n)
    BY <1>5, <1>6, <1>8, <2>1, <2>2 DEF RInv
  <2> QED BY <1>2, <1>4, <2>3, AdvanceReader DEF n
<1>9. CASE s \in {"message", "not DNS"}
  <2>1. RInv(q, n)
    BY <1>5, <1>6, <1>9 DEF RInv
  <2> QED BY <1>2, <1>4, <2>1, AdvanceReader DEF n
<1> QED BY <1>7, <1>8, <1>9

\* A reading goes on in its name.
LEMMA NameMoves ==
    ASSUME NInv, NEW m \in Readings, Stage(m) \in {"questions", "answers"},
           NEW x \in NameState, x.at = N(m).at, InName(x, Present(m)),
           NEW q \in ReaderState, q.name = x, q.stage = Stage(m),
           q.questions = Questions(m), q.answers = Answers(m), Become(m, q)
    PROVE  NInv'
<1> DEFINE r == reader[m]  n == Present(m)
<1>1. RInv(r, n)
  BY ReaderFacts
<1>2. /\ q.name.at = r.name.at /\ q.stage = r.stage /\ q.questions = r.questions
      /\ q.answers = r.answers /\ r.stage \in {"questions", "answers"} /\ InName(q.name, n)
  BY DEF Stage, Questions, Answers, N
<1> HIDE DEF r, n
<1>3. ItemsOf(q) = ItemsOf(r)
  BY <1>2 DEF ItemsOf
<1>4. RInv(q, n)
  BY <1>1, <1>2, <1>3 DEF RInv
<1> QED BY <1>4, AdvanceReader DEF n

LEMMA ChainedAppend ==
    ASSUME NEW xs \in Seq(ItemRead), NEW x \in ItemRead, NEW n \in Nat,
           Chained(xs, n), x.at = Behind(xs), x.end = EndInPlace[x.at], x.next <= n
    PROVE  Chained(Append(xs, x), n) /\ Behind(Append(xs, x)) = x.next
<1> DEFINE ys == Append(xs, x)  k == Len(xs)
<1>1. /\ k \in Nat /\ Len(ys) = k + 1 /\ ys[k + 1] = x /\ ys # <<>>
      /\ \A i \in 1..k : ys[i] = xs[i]
  BY LenProperties, AppendProperties
<1>2. Behind(ys) = x.next
  BY <1>1 DEF Behind
<1>3. xs = <<>> <=> k = 0
  BY EmptySeq
<1>4. x.at = IF k + 1 = 1 THEN HeaderLen ELSE xs[k].next
  BY <1>1, <1>3 DEF Behind
<1> HIDE DEF ys, k
<1>5. ASSUME NEW i \in 1..Len(ys)
      PROVE  /\ ys[i].at = IF i = 1 THEN HeaderLen ELSE ys[i - 1].next
             /\ ys[i].end = EndInPlace[ys[i].at]
             /\ ys[i].next <= n
  <2>1. CASE i = k + 1
    <3>1. i # 1 => i - 1 \in 1..k /\ ys[i - 1] = xs[i - 1] /\ i - 1 = k
      BY <1>1, <2>1
    <3>2. ys[i] = x
      BY <1>1, <2>1
    <3> QED BY <1>4, <2>1, <3>1, <3>2
  <2>2. CASE i # k + 1
    <3>1. i \in 1..k /\ ys[i] = xs[i]
      BY <1>1, <2>2
    <3>2. i # 1 => i - 1 \in 1..k /\ ys[i - 1] = xs[i - 1]
      BY <1>1, <3>1
    <3>3. /\ xs[i].at = IF i = 1 THEN HeaderLen ELSE xs[i - 1].next
          /\ xs[i].end = EndInPlace[xs[i].at]
          /\ xs[i].next <= n
      BY <3>1 DEF Chained, k
    <3> QED BY <3>1, <3>2, <3>3
  <2> QED BY <2>1, <2>2
<1>6. Chained(ys, n)
  BY <1>5 DEF Chained
<1> QED BY <1>2, <1>6 DEF ys

\* A reading has read an item and starts the name behind it.
LEMMA ItemMoves ==
    ASSUME NInv, NEW m \in Readings, Stage(m) \in {"questions", "answers"},
           NEW x \in ItemRead, x.at = N(m).at, x.end = EndInPlace[x.at],
           x.next <= Present(m),
           NEW q \in ReaderState, q.name = Name(x.next), q.stage = Stage(m),
           ItemsOf(q) = Append(ItemsOf(reader[m]), x),
           Stage(m) = "questions" => q.answers = <<>>,
           Become(m, q)
    PROVE  NInv'
<1> DEFINE r == reader[m]  n == Present(m)
<1>1. RInv(r, n) /\ r \in ReaderState /\ n \in Nat
  BY ReaderFacts
<1>2. /\ r.name.at = x.at /\ q.stage = r.stage /\ r.stage \in {"questions", "answers"}
      /\ r.stage = "questions" => q.answers = <<>>
  BY DEF Stage, N
<1>3. x.next <= n /\ ItemsOf(q) = Append(ItemsOf(r), x)
  OBVIOUS
<1> HIDE DEF r, n
<1>4. ItemsOf(r) \in Seq(ItemRead)
  BY <1>1, ConcatProperties DEF ReaderState, ItemsOf
<1>5. Chained(ItemsOf(r), n) /\ x.at = Behind(ItemsOf(r))
  BY <1>1, <1>2 DEF RInv
<1>6. Chained(ItemsOf(q), n) /\ Behind(ItemsOf(q)) = x.next
  BY <1>1, <1>3, <1>4, <1>5, ChainedAppend
<1>7. InName(q.name, n) /\ q.name.at = x.next
  BY <1>3, StartsInName, NameFacts
<1>8. RInv(q, n)
  BY <1>2, <1>6, <1>7 DEF RInv
<1> QED BY <1>8, AdvanceReader DEF n

-----------------------------------------------------------------------------
(* Its steps *)

LEMMA BytesFacts ==
    ASSUME MessageOK, NEW i \in Nat, NEW k \in Nat, i + k <= Len(buf)
    PROVE  Bytes(i, k) \in Seq(0..255)
<1>1. buf \in Seq(0..255) /\ Len(buf) \in Nat
  BY MessageFacts DEF MessageOK
<1>2. i + 1 \in 1..Len(buf) + 1 /\ i + k \in 0..Len(buf)
  BY <1>1
<1>3. \A j \in i + 1..i + k : buf[j] \in 0..255
  <2>1. \A j \in i + 1..i + k : j \in 1..Len(buf)
    BY <1>1
  <2> QED BY <1>1, <2>1, ElementOfSeq
<1> QED BY <1>1, <1>2, <1>3, SubSeqProperties DEF Bytes

\* What a reading of a name relies on.
LEMMA ReadingFacts ==
    ASSUME NInv, NEW m \in Readings, Reading(m), Readable(m)
    PROVE  /\ Stage(m) \in {"questions", "answers"}
           /\ InName(N(m), Present(m)) /\ N(m).at = Behind(ItemsOf(reader[m]))
           /\ N(m).pos \in 0..Len(buf) - 1
           /\ Length(m) \in Nat /\ Length(m) <= 255
           /\ N(m).at \in 0..Len(buf)
<1>1. Stage(m) \in {"questions", "answers"}
  BY DEF Reading, Wanted
<1>2. /\ RInv(reader[m], Present(m)) /\ N(m) \in NameState /\ MessageOK
      /\ Len(buf) \in Nat /\ Present(m) \in Nat /\ Present(m) <= Len(buf)
  BY ReaderFacts
<1>3. InName(N(m), Present(m)) /\ N(m).at = Behind(ItemsOf(reader[m]))
  BY <1>1, <1>2 DEF RInv, N, Stage
<1>4. N(m).at \in Nat /\ N(m).pos \in Nat
  BY <1>2 DEF NameState
<1>5. N(m).at <= Present(m) /\ N(m).pos < Present(m)
  BY <1>3 DEF InName, Readable
<1>6. N(m).pos \in 0..Len(buf) - 1 /\ N(m).at \in 0..Len(buf)
  BY <1>2, <1>4, <1>5
<1>7. Length(m) \in Nat /\ Length(m) <= 255
  BY <1>2, <1>6, MessageFacts DEF Length
<1> QED BY <1>1, <1>3, <1>6, <1>7

LEMMA LabelNInv ==
    ASSUME NInv, NEW m \in Readings, Label(m)
    PROVE  NInv'
<1> DEFINE n == N(m)  k == Length(m)  r == reader[m]  p == Present(m)
           x == [n EXCEPT !.labels = Append(@, Bytes(n.pos + 1, k)),
                          !.wire_len = @ + 1 + k, !.pos = @ + 1 + k]
           q == [r EXCEPT !.name = x]
<1>1. /\ MessageOK /\ r \in ReaderState /\ n \in NameState
      /\ Len(buf) \in Nat /\ p \in Nat /\ p <= Len(buf)
  BY ReaderFacts
<1>2. /\ Reading(m) /\ Readable(m) /\ k > 0 /\ k < 64
      /\ n.pos + 1 + k <= p /\ Become(m, q)
  BY DEF Label, IsNormal
<1>3. /\ Stage(m) \in {"questions", "answers"} /\ InName(n, p)
      /\ n.pos \in 0..Len(buf) - 1 /\ k \in Nat /\ n.at \in 0..Len(buf)
  BY <1>2, ReadingFacts
<1>4. k = Byte(n.pos)
  BY DEF Length
<1>5. r.name = n /\ r.stage = Stage(m) /\ r.questions = Questions(m) /\ r.answers = Answers(m)
  BY DEF N, Stage, Questions, Answers
<1> HIDE DEF n, k, r, p
<1>6. Bytes(n.pos + 1, k) \in Seq(0..255)
  <2>1. n.pos + 1 \in Nat /\ (n.pos + 1) + k <= Len(buf)
    BY <1>1, <1>2, <1>3
  <2> QED BY <1>1, <1>3, <2>1, BytesFacts
<1>7. x \in NameState
  <2>1. n.labels \in Seq(Seq(0..255))
    BY <1>1 DEF NameState
  <2>2. Append(n.labels, Bytes(n.pos + 1, k)) \in Seq(Seq(0..255))
    BY <1>6, <2>1, AppendProperties
  <2>3. n.wire_len + 1 + k \in Nat /\ n.pos + 1 + k \in Nat
    BY <1>1, <1>3 DEF NameState
  <2> QED BY <1>1, <2>2, <2>3 DEF NameState
<1>8. /\ x.at = n.at /\ x.pos = n.pos + 1 + k /\ x.end = n.end
  BY <1>1 DEF NameState
<1> HIDE DEF x
<1>9. EndInPlace[n.pos] = EndInPlace[x.pos]
  <2>1. Byte(n.pos) > 0 /\ Byte(n.pos) < 192 /\ n.pos + 1 + Byte(n.pos) <= Len(buf)
    BY <1>1, <1>2, <1>3, <1>4
  <2> QED BY <1>1, <1>3, <1>4, <1>8, <2>1, EndFacts
<1>10. InName(x, p)
  <2>1. x.at <= p /\ x.pos <= p
    BY <1>2, <1>3, <1>8 DEF InName
  <2> QED BY <1>3, <1>8, <1>9, <2>1 DEF InName
<1>11. q \in ReaderState
  BY <1>1, <1>7 DEF ReaderState
<1>12. /\ q.name = x /\ q.stage = r.stage /\ q.questions = r.questions
       /\ q.answers = r.answers
  BY <1>1 DEF ReaderState
<1> HIDE DEF q
<1>13. x.at = N(m).at /\ InName(x, Present(m))
  BY <1>8, <1>10 DEF n, p
<1> QED BY <1>2, <1>3, <1>5, <1>7, <1>11, <1>12, <1>13, NameMoves

LEMMA PointerNInv ==
    ASSUME NInv, NEW m \in Readings, Pointer(m)
    PROVE  NInv'
<1> DEFINE n == N(m)  r == reader[m]  p == Present(m)  t == Target(m)
           e == IF n.end = NoEnd THEN n.pos + 2 ELSE n.end
           q == [r EXCEPT !.name.end = e, !.name.jumps = @ + 1, !.name.pos = t]
           x == [n EXCEPT !.end = e, !.jumps = @ + 1, !.pos = t]
<1>1. /\ MessageOK /\ r \in ReaderState /\ n \in NameState
      /\ Len(buf) \in Nat /\ p \in Nat /\ p <= Len(buf)
  BY ReaderFacts
<1>2. /\ Reading(m) /\ Readable(m) /\ Length(m) >= 192
      /\ n.pos + 2 <= p /\ t < p
  BY DEF Pointer, Jumps, IsPointer
<1>3. /\ Stage(m) \in {"questions", "answers"} /\ InName(n, p)
      /\ n.pos \in 0..Len(buf) - 1 /\ Length(m) \in Nat /\ n.at \in 0..Len(buf)
  BY <1>2, ReadingFacts
<1>4. t \in Nat
  <2>1. N(m).pos + 1 \in 0..Len(buf) - 1
    BY <1>1, <1>2, <1>3
  <2>2. Byte(N(m).pos + 1) \in Nat
    BY <1>1, <2>1, MessageFacts
  <2> QED BY <1>2, <1>3, <2>2 DEF Target
<1>5. Become(m, q)
  BY DEF Pointer, N
<1>6. r.name = n /\ r.stage = Stage(m) /\ r.questions = Questions(m) /\ r.answers = Answers(m)
  BY DEF N, Stage, Questions, Answers
<1>7. Length(m) = Byte(n.pos)
  BY DEF Length
<1> HIDE DEF n, r, p, t
<1>8. e \in Nat \cup {NoEnd}
  BY <1>1, <1>3 DEF NameState
<1>9. x \in NameState
  <2>1. n.jumps + 1 \in Nat
    BY <1>1 DEF NameState
  <2> HIDE DEF e
  <2> QED BY <1>1, <1>4, <1>8, <2>1 DEF NameState
<1>10. x.at = n.at /\ x.pos = t /\ x.end = e
  BY <1>1 DEF NameState
<1>11. InName(x, p)
  <2>1. e # NoEnd /\ e = EndInPlace[n.at]
    <3>1. CASE n.end = NoEnd
      <4>1. EndInPlace[n.pos] = n.pos + 2
        BY <1>1, <1>2, <1>3, <1>7, EndFacts
      <4>2. e = n.pos + 2 /\ n.pos + 2 # NoEnd
        BY <1>3, <3>1 DEF NoEnd
      <4> QED BY <1>3, <3>1, <4>1, <4>2 DEF InName
    <3>2. CASE n.end # NoEnd
      BY <1>3, <3>2 DEF InName
    <3> QED BY <3>1, <3>2
  <2>2. t <= p /\ n.at <= p
    BY <1>1, <1>2, <1>3, <1>4 DEF InName
  <2> HIDE DEF e, x
  <2> QED BY <1>10, <2>1, <2>2 DEF InName
<1>12. q = [r EXCEPT !.name = x]
  BY <1>1, <1>6 DEF ReaderState
<1> HIDE DEF x, q
<1>13. q \in ReaderState
  BY <1>1, <1>9, <1>12 DEF ReaderState
<1>14. /\ q.name = x /\ q.stage = r.stage /\ q.questions = r.questions
       /\ q.answers = r.answers
  BY <1>1, <1>12 DEF ReaderState
<1>15. x.at = N(m).at /\ InName(x, Present(m))
  BY <1>10, <1>11 DEF n, p
<1> QED BY <1>3, <1>5, <1>6, <1>9, <1>13, <1>14, <1>15, NameMoves

\* The root label of a name is read: it ends where its place does.
LEMMA RootFacts ==
    ASSUME NInv, NEW m \in Readings, AtRoot(m)
    PROVE  /\ Stage(m) \in {"questions", "answers"}
           /\ End(m) \in Nat /\ End(m) = EndInPlace[N(m).at]
           /\ N(m).at \in Nat /\ N(m).labels \in Seq(Seq(0..255))
<1> DEFINE n == N(m)
<1>1. Reading(m) /\ Readable(m) /\ Length(m) = 0 /\ MessageOK /\ n \in NameState
  BY ReaderFacts DEF AtRoot
<1>2. /\ Stage(m) \in {"questions", "answers"} /\ InName(n, Present(m))
      /\ n.pos \in 0..Len(buf) - 1 /\ n.at \in 0..Len(buf)
  BY <1>1, ReadingFacts
<1>3. Byte(n.pos) = 0
  BY <1>1 DEF Length
<1>4. EndInPlace[n.pos] = n.pos + 1
  BY <1>1, <1>2, <1>3, EndFacts
<1> HIDE DEF n
<1>5. (IF n.end = NoEnd THEN n.pos + 1 ELSE n.end) = EndInPlace[n.at]
  BY <1>2, <1>4 DEF InName
<1>6. (IF n.end = NoEnd THEN n.pos + 1 ELSE n.end) \in Nat
  BY <1>1 DEF NameState
<1>7. n.at \in Nat /\ n.labels \in Seq(Seq(0..255))
  BY <1>1 DEF NameState
<1> QED BY <1>2, <1>5, <1>6, <1>7 DEF n, End

LEMMA ItemFacts ==
    ASSUME NInv, NEW m \in Readings, AtRoot(m), NEW next \in Nat
    PROVE  /\ Item(m, next) \in ItemRead
           /\ Item(m, next).at = N(m).at
           /\ Item(m, next).end = EndInPlace[Item(m, next).at]
           /\ Item(m, next).next = next
<1>1. /\ End(m) \in Nat /\ End(m) = EndInPlace[N(m).at]
      /\ N(m).at \in Nat /\ N(m).labels \in Seq(Seq(0..255))
  BY RootFacts
<1>2. /\ Item(m, next).at = N(m).at /\ Item(m, next).end = End(m)
      /\ Item(m, next).next = next /\ Item(m, next) \in ItemRead
  BY <1>1 DEF Item, ItemRead
<1> QED BY <1>1, <1>2

LEMMA QuestionNInv ==
    ASSUME NInv, NEW m \in Readings, Question(m)
    PROVE  NInv'
<1> DEFINE r == reader[m]  next == End(m) + QuestionFixed  x == Item(m, next)
           q == [r EXCEPT !.questions = Append(@, x), !.name = Name(next)]
<1>1. AtRoot(m) /\ Stage(m) = "questions" /\ next <= Present(m) /\ Become(m, q)
  BY DEF Question
<1>2. r \in ReaderState /\ RInv(r, Present(m))
  BY ReaderFacts
<1>3. next \in Nat
  BY <1>1, RootFacts, LengthsAssumption
<1> HIDE DEF next
<1>4. x \in ItemRead /\ x.at = N(m).at /\ x.end = EndInPlace[x.at] /\ x.next = next
  BY <1>1, <1>3, ItemFacts
<1>5. r.stage = Stage(m) /\ Name(next) \in NameState
  BY <1>3, NameFacts DEF Stage
<1> HIDE DEF x, r
<1>6. r.answers = <<>> /\ r.questions \in Seq(ItemRead)
  BY <1>1, <1>2, <1>5 DEF RInv, ReaderState
<1>7. Append(r.questions, x) \in Seq(ItemRead)
  BY <1>4, <1>6, AppendProperties
<1>8. q \in ReaderState
  BY <1>2, <1>5, <1>7 DEF ReaderState
<1>9. /\ q.name = Name(next) /\ q.stage = r.stage /\ q.questions = Append(r.questions, x)
      /\ q.answers = r.answers
  BY <1>2 DEF ReaderState
<1> HIDE DEF q
<1>10. ItemsOf(q) = Append(ItemsOf(r), x)
  <2>1. ItemsOf(r) = r.questions
    BY <1>6, ConcatEmptySeq DEF ItemsOf
  <2>2. ItemsOf(q) = q.questions
    <3>1. q.questions \in Seq(ItemRead) /\ q.answers = <<>>
      BY <1>6, <1>7, <1>9
    <3> QED BY <3>1, ConcatEmptySeq DEF ItemsOf
  <2> QED BY <1>9, <2>1, <2>2
<1>11. /\ Stage(m) \in {"questions", "answers"} /\ x.next <= Present(m)
       /\ q.name = Name(x.next) /\ q.stage = Stage(m) /\ q.answers = <<>>
  BY <1>1, <1>4, <1>5, <1>6, <1>9
<1>12. ItemsOf(q) = Append(ItemsOf(reader[m]), x)
  BY <1>10 DEF r
<1> QED BY <1>1, <1>4, <1>8, <1>11, <1>12, ItemMoves

LEMMA RdLengthFacts ==
    ASSUME NInv, NEW m \in Readings, AtRoot(m), End(m) + RecordFixed <= Present(m)
    PROVE  RdLength(m) \in Nat
<1> DEFINE i == End(m) + RecordFixed - 2
<1>1. End(m) \in Nat /\ RecordFixed \in Nat \ {0, 1}
  BY RootFacts, LengthsAssumption
<1>2. MessageOK /\ Len(buf) \in Nat /\ Present(m) \in Nat /\ Present(m) <= Len(buf)
  BY ReaderFacts
<1>3. i \in 0..Len(buf) - 1 /\ i + 1 \in 0..Len(buf) - 1
  BY <1>1, <1>2
<1> HIDE DEF i
<1>4. Byte(i) \in Nat /\ Byte(i + 1) \in Nat
  BY <1>2, <1>3, MessageFacts
<1>5. Byte(i) * 256 + Byte(i + 1) \in Nat
  BY <1>4
<1> QED BY <1>5 DEF RdLength, i

LEMMA RecordNInv ==
    ASSUME NInv, NEW m \in Readings, Record(m)
    PROVE  NInv'
<1> DEFINE r == reader[m]  next == End(m) + RecordFixed + RdLength(m)  x == Item(m, next)
           q == [r EXCEPT !.answers = Append(@, x), !.name = Name(next)]
<1>1. /\ AtRoot(m) /\ Stage(m) = "answers" /\ next <= Present(m) /\ Become(m, q)
      /\ End(m) + RecordFixed <= Present(m)
  BY DEF Record
<1>2. r \in ReaderState /\ RInv(r, Present(m))
  BY ReaderFacts
<1>3. next \in Nat
  <2>1. RdLength(m) \in Nat
    BY <1>1, RdLengthFacts
  <2>2. End(m) \in Nat /\ RecordFixed \in Nat
    BY <1>1, RootFacts, LengthsAssumption
  <2> QED BY <2>1, <2>2
<1> HIDE DEF next
<1>4. x \in ItemRead /\ x.at = N(m).at /\ x.end = EndInPlace[x.at] /\ x.next = next
  BY <1>1, <1>3, ItemFacts
<1>5. r.stage = Stage(m) /\ Name(next) \in NameState
  BY <1>3, NameFacts DEF Stage
<1> HIDE DEF x, r
<1>6. r.answers \in Seq(ItemRead) /\ r.questions \in Seq(ItemRead)
  BY <1>2 DEF ReaderState
<1>7. Append(r.answers, x) \in Seq(ItemRead)
  BY <1>4, <1>6, AppendProperties
<1>8. q \in ReaderState
  BY <1>2, <1>5, <1>7 DEF ReaderState
<1>9. /\ q.name = Name(next) /\ q.stage = r.stage /\ q.questions = r.questions
      /\ q.answers = Append(r.answers, x)
  BY <1>2 DEF ReaderState
<1> HIDE DEF q
<1>10. ItemsOf(q) = Append(ItemsOf(r), x)
  <2>1. Append(r.answers, x) = r.answers \o <<x>> /\ <<x>> \in Seq(ItemRead)
    BY <1>4, <1>6, AppendIsConcat
  <2> DEFINE Q == r.questions  A == r.answers  X == <<x>>
  <2>2. Q \o (A \o X) = (Q \o A) \o X
    <3>1. Q \in Seq(ItemRead) /\ A \in Seq(ItemRead) /\ X \in Seq(ItemRead)
      BY <1>6, <2>1
    <3> HIDE DEF Q, A, X
    <3> QED BY <3>1, ConcatAssociative
  <2>3. r.questions \o r.answers \in Seq(ItemRead)
    BY <1>6, ConcatProperties
  <2>4. Append(r.questions \o r.answers, x) = (r.questions \o r.answers) \o <<x>>
    BY <1>4, <2>3, AppendIsConcat
  <2> QED BY <1>9, <2>1, <2>2, <2>4 DEF ItemsOf
<1>11. /\ Stage(m) \in {"questions", "answers"} /\ x.next <= Present(m)
       /\ q.name = Name(x.next) /\ q.stage = Stage(m) /\ Stage(m) # "questions"
  BY <1>1, <1>4, <1>5, <1>9
<1>12. ItemsOf(q) = Append(ItemsOf(reader[m]), x)
  BY <1>10 DEF r
<1> QED BY <1>1, <1>4, <1>8, <1>11, <1>12, ItemMoves

\* A reading before its first step.
Start ==
    [stage |-> "header", name |-> Name(HeaderLen), questions |-> <<>>, answers |-> <<>>]

LEMMA StartFacts ==
    /\ Start \in ReaderState
    /\ Start.stage = "header" /\ Start.name = Name(HeaderLen)
    /\ Start.questions = <<>> /\ Start.answers = <<>>
<1>1. <<>> \in Seq(ItemRead) /\ Name(HeaderLen) \in NameState
  BY NameFacts, LengthsAssumption
<1> QED BY <1>1 DEF Start, ReaderState

LEMMA InitNInv == Init => NInv
<1> SUFFICES ASSUME Init PROVE NInv
  OBVIOUS
<1>1. MessageOK
  BY MessagesAssumption, HeadersAssumption DEF Init, MessageOK
<1>2. reader = [m \in Readings |-> Start]
  BY DEF Init, Start
<1>3. ASSUME NEW m \in Readings PROVE RInv(reader[m], Present(m))
  <2>1. reader[m] = Start
    BY <1>2
  <2>2. ItemsOf(Start) = <<>>
    BY StartFacts, NoItems
  <2>3. Len(<<>>) = 0
    OBVIOUS
  <2>4. Chained(<<>>, Present(m))
    BY <2>3 DEF Chained
  <2>5. RInv(Start, Present(m))
    BY <2>2, <2>4, StartFacts DEF RInv
  <2> QED BY <2>1, <2>5
<1> QED BY <1>1, <1>2, <1>3, StartFacts DEF NInv

LEMMA StepNInv ==
    ASSUME NInv, NEW m \in Readings, Step(m)
    PROVE  NInv'
<1>1. Present(m) \in Nat /\ HeaderLen \in Nat
  BY ReaderFacts, LengthsAssumption
<1>2. CASE NotDns(m)
  BY <1>2, StageMoves DEF NotDns
<1>3. CASE Begin(m)
  <2>1. To(m, "questions") /\ Stage(m) = "header" /\ HeaderLen <= Present(m)
    BY <1>1, <1>3 DEF Begin, Stage
  <2> QED BY <2>1, StageMoves
<1>4. CASE SectionDone(m)
  <2>1. CASE Stage(m) = "questions"
    <3>1. To(m, "answers")
      BY <1>4, <2>1 DEF SectionDone
    <3> QED BY <2>1, <3>1, StageMoves
  <2>2. CASE Stage(m) # "questions"
    <3>1. To(m, "message")
      BY <1>4, <2>2 DEF SectionDone
    <3> QED BY <3>1, StageMoves
  <2> QED BY <2>1, <2>2
<1>5. ASSUME Break(m) PROVE NInv'
  <2>1. To(m, "not DNS") \/ To(m, "message")
    BY <1>5 DEF Break
  <2>2. CASE To(m, "not DNS")
    BY <2>2, StageMoves
  <2>3. CASE To(m, "message")
    BY <2>3, StageMoves
  <2> QED BY <2>1, <2>2, <2>3
<1>6. CASE Label(m)
  BY <1>6, LabelNInv
<1>7. CASE Pointer(m)
  BY <1>7, PointerNInv
<1>8. CASE Question(m)
  BY <1>8, QuestionNInv
<1>9. CASE Record(m)
  BY <1>9, RecordNInv
<1>10. CASE FieldsShort(m) \/ BadName(m)
  BY <1>5, <1>10 DEF FieldsShort, BadName
<1> QED BY <1>2, <1>3, <1>4, <1>6, <1>7, <1>8, <1>9, <1>10 DEF Step

LEMMA NextNInv == NInv /\ [Next]_vars => NInv'
<1> SUFFICES ASSUME NInv, [Next]_vars PROVE NInv'
  OBVIOUS
<1>1. CASE Next
  BY <1>1, StepNInv DEF Next
<1>2. CASE UNCHANGED vars
  <2>1. EndInPlace' = EndInPlace /\ UNCHANGED <<buf, header, size, reader>>
    BY <1>2, SamePlaces DEF vars
  <2> QED BY <2>1 DEF NInv, MessageOK, RInv, Chained, InName, Present
<1> QED BY <1>1, <1>2

LEMMA NInvGivesResumes == NInv => ResumesInPlace
<1> SUFFICES ASSUME NInv, NEW m \in Readings, NEW i \in 1..Len(Items(m))
    PROVE  LET x == Items(m)[i] IN
             /\ x.at = IF i = 1 THEN HeaderLen ELSE Items(m)[i - 1].next
             /\ x.end = EndInPlace[x.at]
             /\ x.next <= Present(m)
  BY DEF ResumesInPlace
<1>1. Items(m) = ItemsOf(reader[m])
  BY DEF Items, ItemsOf, Questions, Answers
<1>2. Chained(Items(m), Present(m))
  BY <1>1 DEF NInv, RInv
<1> QED BY <1>2 DEF Chained

(* NamesResume: wherever the pointers of a name lead, the items of a       *)
(* message are read from one place behind the header to the next: each     *)
(* begins where the one before it ends, with its own name ending where the *)
(* labels or the first pointer of the name do (the offset that read_name   *)
(* returns), whatever the bytes of the message and wherever it is cut.     *)
THEOREM NamesResume == Spec => []ResumesInPlace
<1>1. Init => NInv
  BY InitNInv
<1>2. NInv /\ [Next]_vars => NInv'
  BY NextNInv
<1>3. NInv => ResumesInPlace
  BY NInvGivesResumes
<1> QED BY <1>1, <1>2, <1>3, PTL DEF Spec

-----------------------------------------------------------------------------
(* A reading of n bytes in state s goes on (Goes), and to which state       *)
(* (After), which does not depend on n.                                     *)

Open == {"header", "questions", "answers"}

More(s) ==
    \/ s.stage = "questions" /\ Len(s.questions) < header.qdcount
    \/ s.stage = "answers"   /\ Len(s.answers) < header.ancount

EndOf(x) == IF x.end = NoEnd THEN x.pos + 1 ELSE x.end

TargetOf(x) == (Byte(x.pos) - 192) * 256 + Byte(x.pos + 1)

RdLengthOf(x) == LET i == EndOf(x) + RecordFixed - 2 IN Byte(i) * 256 + Byte(i + 1)

GoesLabel(x, n) ==
    /\ Byte(x.pos) > 0 /\ Byte(x.pos) < 64
    /\ x.wire_len + 1 + Byte(x.pos) <= MaxNameLen
    /\ x.pos + 1 + Byte(x.pos) <= n

GoesPointer(x, n) ==
    /\ Byte(x.pos) >= 192 /\ x.jumps < MaxPointers
    /\ x.pos + 2 <= n /\ TargetOf(x) < n

GoesQuestion(s, n) ==
    /\ Byte(s.name.pos) = 0 /\ s.stage = "questions"
    /\ EndOf(s.name) + QuestionFixed <= n

GoesRecord(s, n) ==
    /\ Byte(s.name.pos) = 0 /\ s.stage = "answers"
    /\ EndOf(s.name) + RecordFixed <= n
    /\ EndOf(s.name) + RecordFixed + RdLengthOf(s.name) <= n

Goes(s, n) ==
    \/ s.stage = "header" /\ n >= HeaderLen /\ header.assigned
    \/ s.stage = "questions" /\ ~More(s)
    \/ /\ More(s) /\ s.name.pos < n
       /\ \/ GoesLabel(s.name, n) \/ GoesPointer(s.name, n)
          \/ GoesQuestion(s, n) \/ GoesRecord(s, n)

ItemIn(x, next) == [at |-> x.at, name |-> x.labels, end |-> EndOf(x), next |-> next]

AfterLabel(s) ==
    [s EXCEPT !.name =
       [s.name EXCEPT !.labels = Append(@, Bytes(s.name.pos + 1, Byte(s.name.pos))),
                      !.wire_len = @ + 1 + Byte(s.name.pos),
                      !.pos = @ + 1 + Byte(s.name.pos)]]

AfterPointer(s) ==
    [s EXCEPT !.name.end = IF @ = NoEnd THEN s.name.pos + 2 ELSE @,
              !.name.jumps = @ + 1, !.name.pos = TargetOf(s.name)]

AfterQuestion(s) ==
    LET next == EndOf(s.name) + QuestionFixed IN
    [s EXCEPT !.questions = Append(@, ItemIn(s.name, next)), !.name = Name(next)]

AfterRecord(s) ==
    LET next == EndOf(s.name) + RecordFixed + RdLengthOf(s.name) IN
    [s EXCEPT !.answers = Append(@, ItemIn(s.name, next)), !.name = Name(next)]

After(s) ==
    IF s.stage = "header" THEN [s EXCEPT !.stage = "questions"]
    ELSE IF ~More(s) THEN [s EXCEPT !.stage = "answers"]
    ELSE IF Byte(s.name.pos) = 0
         THEN IF s.stage = "questions" THEN AfterQuestion(s) ELSE AfterRecord(s)
    ELSE IF Byte(s.name.pos) < 64 THEN AfterLabel(s)
    ELSE AfterPointer(s)

\* A parse that ends here is a message.
Answering(s) == s.stage = "answers" \/ (s.stage = "questions" /\ s.questions # <<>>)

Longer(a, b) == b = a \/ \E e \in ItemRead : b = Append(a, e)

\* r goes on to q.
Onward(r, q) ==
    /\ Longer(r.questions, q.questions) /\ Longer(r.answers, q.answers)
    /\ q.stage \in {"questions", "answers"}
    /\ r.stage = "answers" => q.stage = "answers"

\* r ends as q.
Ends(r, q) ==
    /\ q.questions = r.questions /\ q.answers = r.answers
    /\ q.stage \in {"message", "not DNS"}
    /\ q.stage = "message" <=> Answering(r)

\* The step from r to q of a reading of n bytes.
Turns(r, q, n) ==
    \/ Goes(r, n) /\ q = After(r) /\ Onward(r, q)
    \/ ~Goes(r, n) /\ Ends(r, q)

LEMMA EndOfNat ==
    ASSUME NEW x \in NameState
    PROVE  EndOf(x) \in Nat
BY DEF NameState, EndOf

LEMMA GoesMore ==
    ASSUME MessageOK, NEW s \in ReaderState, NEW n \in Nat, NEW k \in Nat,
           n <= k, k <= Len(buf), Goes(s, n)
    PROVE  Goes(s, k)
<1> DEFINE x == s.name  b == Byte(x.pos)
<1>1. x \in NameState /\ Len(buf) \in Nat
  BY MessageFacts DEF ReaderState
<1>2. x.pos \in Nat /\ x.wire_len \in Nat /\ EndOf(x) \in Nat
  BY <1>1, EndOfNat DEF NameState
<1> HIDE DEF x
<1>3. CASE s.stage = "header" /\ n >= HeaderLen /\ header.assigned
  <2>1. k >= HeaderLen
    BY <1>3, LengthsAssumption
  <2> QED BY <1>3, <2>1, Zenon DEF Goes
<1>4. CASE s.stage = "questions" /\ ~More(s)
  BY <1>4, Zenon DEF Goes
<1>5. ASSUME More(s), x.pos < n
      PROVE  /\ x.pos < k /\ b \in Nat
             /\ GoesLabel(x, n) => GoesLabel(x, k)
             /\ GoesPointer(x, n) => GoesPointer(x, k)
             /\ GoesQuestion(s, n) => GoesQuestion(s, k)
             /\ GoesRecord(s, n) => GoesRecord(s, k)
  <2>1. x.pos \in 0..Len(buf) - 1 /\ x.pos < k
    BY <1>1, <1>2, <1>5
  <2>2. b \in Nat
    BY <2>1, MessageFacts
  <2>3. ASSUME GoesLabel(x, n) PROVE GoesLabel(x, k)
    <3>1. x.pos + 1 + b <= k
      <4>1. x.pos + 1 + b <= n
        BY <2>3 DEF GoesLabel
      <4> HIDE DEF b
      <4> QED BY <1>2, <2>2, <4>1
    <3> QED BY <2>3, <3>1 DEF GoesLabel
  <2>4. ASSUME GoesPointer(x, n) PROVE GoesPointer(x, k)
    <3>1. x.pos + 2 <= n /\ TargetOf(x) < n
      BY <2>4 DEF GoesPointer
    <3>2. x.pos + 1 \in 0..Len(buf) - 1
      BY <1>1, <1>2, <3>1
    <3>3. Byte(x.pos + 1) \in Nat
      BY <3>2, MessageFacts
    <3>4. TargetOf(x) \in Int
      BY <2>2, <3>3 DEF TargetOf
    <3>5. x.pos + 2 <= k /\ TargetOf(x) < k
      BY <1>2, <3>1, <3>4
    <3> QED BY <2>4, <3>5 DEF GoesPointer
  <2>5. ASSUME GoesQuestion(s, n) PROVE GoesQuestion(s, k)
    <3>1. EndOf(s.name) + QuestionFixed <= n /\ EndOf(s.name) \in Nat
      BY <1>2, <2>5 DEF GoesQuestion, x
    <3>2. EndOf(s.name) + QuestionFixed <= k
      BY <3>1, LengthsAssumption
    <3> QED BY <2>5, <3>2 DEF GoesQuestion
  <2>6. ASSUME GoesRecord(s, n) PROVE GoesRecord(s, k)
    <3> DEFINE e == EndOf(s.name)  i == e + RecordFixed - 2
    <3>1. /\ e + RecordFixed <= n /\ e \in Nat
          /\ e + RecordFixed + RdLengthOf(s.name) <= n
      BY <1>2, <2>6 DEF GoesRecord, x
    <3>2. RecordFixed \in Nat \ {0, 1}
      BY LengthsAssumption
    <3>3. i \in 0..Len(buf) - 1 /\ i + 1 \in 0..Len(buf) - 1
      <4> HIDE DEF e
      <4> QED BY <1>1, <3>1, <3>2
    <3>4. RdLengthOf(s.name) \in Nat
      <4>1. Byte(i) \in Nat /\ Byte(i + 1) \in Nat
        <5> HIDE DEF i
        <5> QED BY <3>3, MessageFacts
      <4>2. Byte(i) * 256 + Byte(i + 1) \in Nat
        <5> HIDE DEF i
        <5> QED BY <4>1
      <4> QED BY <4>2 DEF RdLengthOf
    <3> HIDE DEF e
    <3>5. e + RecordFixed <= k /\ e + RecordFixed + RdLengthOf(s.name) <= k
      BY <3>1, <3>2, <3>4
    <3> QED BY <2>6, <3>5 DEF GoesRecord, e
  <2> QED BY <2>1, <2>2, <2>3, <2>4, <2>5, <2>6
<1>6. CASE /\ More(s) /\ x.pos < n
           /\ \/ GoesLabel(x, n) \/ GoesPointer(x, n)
              \/ GoesQuestion(s, n) \/ GoesRecord(s, n)
  BY <1>5, <1>6, Zenon DEF Goes, x
<1> QED BY <1>3, <1>4, <1>6, Zenon DEF Goes, x

-----------------------------------------------------------------------------
(* Every step of the parser is such a turn *)

LEMMA SameTerms ==
    ASSUME NEW m
    PROVE  /\ reader[m].name = N(m) /\ reader[m].stage = Stage(m)
           /\ reader[m].questions = Questions(m) /\ reader[m].answers = Answers(m)
           /\ More(reader[m]) <=> Wanted(m)
           /\ EndOf(N(m)) = End(m) /\ Byte(N(m).pos) = Length(m)
           /\ TargetOf(N(m)) = Target(m) /\ RdLengthOf(N(m)) = RdLength(m)
           /\ \A next : ItemIn(N(m), next) = Item(m, next)
<1>1. /\ reader[m].name = N(m) /\ reader[m].stage = Stage(m)
      /\ reader[m].questions = Questions(m) /\ reader[m].answers = Answers(m)
  BY DEF N, Stage, Questions, Answers
<1>2. More(reader[m]) <=> Wanted(m)
  BY DEF More, Wanted, Stage, Questions, Answers
<1>3. EndOf(N(m)) = End(m) /\ Byte(N(m).pos) = Length(m)
  BY DEF EndOf, End, Length
<1>4. TargetOf(N(m)) = Target(m)
  BY DEF TargetOf, Target, Length
<1>5. RdLengthOf(N(m)) = RdLength(m)
  BY DEF RdLengthOf, RdLength, EndOf, End
<1>6. \A next : ItemIn(N(m), next) = Item(m, next)
  BY DEF ItemIn, Item, EndOf, End
<1> QED BY <1>1, <1>2, <1>3, <1>4, <1>5, <1>6

\* A reading r of n bytes stops with stage s.
LEMMA EndTurns ==
    ASSUME NEW m \in Readings, reader[m] \in ReaderState,
           NEW s \in {"message", "not DNS"}, s = "message" <=> Answering(reader[m]),
           ~Goes(reader[m], Present(m)), To(m, s)
    PROVE  \E q : Become(m, q) /\ Turns(reader[m], q, Present(m))
<1> DEFINE r == reader[m]  q == [r EXCEPT !.stage = s]
<1>1. Become(m, q)
  BY DEF To
<1>2. q.stage = s /\ q.questions = r.questions /\ q.answers = r.answers
  BY DEF ReaderState
<1> HIDE DEF q
<1>3. Ends(r, q)
  BY <1>2, Zenon DEF Ends
<1> QED BY <1>1, <1>3, Zenon DEF Turns

LEMMA BreakTurns ==
    ASSUME NEW m \in Readings, reader[m] \in ReaderState,
           Stage(m) \in {"questions", "answers"},
           ~Goes(reader[m], Present(m)), Break(m)
    PROVE  \E q : Become(m, q) /\ Turns(reader[m], q, Present(m))
<1>1. CASE Stage(m) = "questions" /\ Questions(m) = <<>>
  <2>1. To(m, "not DNS")
    BY <1>1 DEF Break
  <2>2. "not DNS" = "message" <=> Answering(reader[m])
    BY <1>1 DEF Answering, Stage, Questions
  <2> QED BY <2>1, <2>2, EndTurns
<1>2. CASE ~(Stage(m) = "questions" /\ Questions(m) = <<>>)
  <2>1. To(m, "message")
    BY <1>2 DEF Break
  <2>2. Answering(reader[m])
    BY <1>2 DEF Answering, Stage, Questions
  <2> QED BY <2>1, <2>2, EndTurns
<1> QED BY <1>1, <1>2

LEMMA StageTurns ==
    ASSUME NInv, NEW m \in Readings, NotDns(m) \/ Begin(m) \/ SectionDone(m)
    PROVE  \E q : Become(m, q) /\ Turns(reader[m], q, Present(m))
<1> DEFINE r == reader[m]  n == Present(m)
<1>1. r \in ReaderState /\ n \in Nat /\ HeaderLen \in Nat /\ r.stage = Stage(m)
  BY ReaderFacts, LengthsAssumption DEF Stage
<1>2. CASE NotDns(m)
  <2>1. r.stage = "header" /\ ~(n >= HeaderLen /\ header.assigned) /\ To(m, "not DNS")
    <3>1. r.stage = "header" /\ To(m, "not DNS")
      BY <1>1, <1>2 DEF NotDns
    <3>2. n < HeaderLen \/ ~header.assigned
      BY <1>2, Zenon DEF NotDns
    <3>3. n < HeaderLen => ~(n >= HeaderLen)
      BY <1>1
    <3>4. ~(n >= HeaderLen /\ header.assigned)
      BY <3>2, <3>3, Zenon
    <3> QED BY <3>1, <3>4, Zenon
  <2>2. ~Goes(r, n)
    BY <2>1 DEF Goes, More
  <2>3. "not DNS" = "message" <=> Answering(r)
    BY <2>1 DEF Answering
  <2> QED BY <1>1, <2>1, <2>2, <2>3, EndTurns
<1>3. CASE Begin(m)
  <2> DEFINE q == [r EXCEPT !.stage = "questions"]
  <2>1. r.stage = "header" /\ n >= HeaderLen /\ header.assigned /\ Become(m, q)
    BY <1>3 DEF Begin, To
  <2>2. Goes(r, n) /\ q = After(r)
    BY <2>1 DEF Goes, After
  <2>3. q.stage = "questions" /\ q.questions = r.questions /\ q.answers = r.answers
    BY <1>1 DEF ReaderState
  <2> HIDE DEF q
  <2>4. Onward(r, q)
    BY <2>1, <2>3 DEF Onward, Longer
  <2> QED BY <2>1, <2>2, <2>4, Zenon DEF Turns
<1>4. CASE SectionDone(m) /\ Stage(m) = "questions"
  <2> DEFINE q == [r EXCEPT !.stage = "answers"]
  <2>1. r.stage = "questions" /\ ~More(r) /\ Become(m, q)
    BY <1>1, <1>4, SameTerms DEF SectionDone, To
  <2>2. Goes(r, n) /\ q = After(r)
    BY <2>1 DEF Goes, After
  <2>3. q.stage = "answers" /\ q.questions = r.questions /\ q.answers = r.answers
    BY <1>1 DEF ReaderState
  <2> HIDE DEF q
  <2>4. Onward(r, q)
    BY <2>1, <2>3 DEF Onward, Longer
  <2> QED BY <2>1, <2>2, <2>4, Zenon DEF Turns
<1>5. CASE SectionDone(m) /\ Stage(m) # "questions"
  <2>1. r.stage = "answers" /\ ~More(r) /\ To(m, "message")
    BY <1>1, <1>5, SameTerms DEF SectionDone
  <2>2. ~Goes(r, n)
    BY <2>1 DEF Goes
  <2>3. Answering(r)
    BY <2>1 DEF Answering
  <2> QED BY <1>1, <2>1, <2>2, <2>3, EndTurns
<1> QED BY <1>2, <1>3, <1>4, <1>5

\* A reading that goes on in its name.
LEMMA NameTurns ==
    ASSUME NEW m \in Readings, NEW n, NEW q, Become(m, q),
           Goes(reader[m], n), q = After(reader[m]),
           q.stage = Stage(m), Stage(m) \in {"questions", "answers"},
           q.questions = Questions(m), q.answers = Answers(m)
    PROVE  Turns(reader[m], q, n)
<1>1. Onward(reader[m], q)
  BY SameTerms DEF Onward, Longer
<1> QED BY <1>1, Zenon DEF Turns

LEMMA LabelTurns ==
    ASSUME NInv, NEW m \in Readings, Label(m)
    PROVE  \E q : Become(m, q) /\ Turns(reader[m], q, Present(m))
<1> DEFINE r == reader[m]  q == AfterLabel(r)
<1>1. r \in ReaderState
  BY ReaderFacts
<1>2. /\ Reading(m) /\ Readable(m) /\ Length(m) > 0 /\ Length(m) < 64
      /\ N(m).wire_len + 1 + Length(m) <= MaxNameLen
      /\ N(m).pos + 1 + Length(m) <= Present(m)
  BY DEF Label, IsNormal
<1>3. Become(m, q)
  BY DEF Label, AfterLabel, N, Length
<1>4. /\ Stage(m) \in {"questions", "answers"} /\ Length(m) \in Nat
  BY <1>2, ReadingFacts
<1>5. More(r) /\ r.name = N(m) /\ r.stage = Stage(m) /\ Byte(r.name.pos) = Length(m)
  BY <1>2, SameTerms DEF Reading
<1>6. Goes(r, Present(m))
  <2>1. GoesLabel(r.name, Present(m)) /\ r.name.pos < Present(m)
    BY <1>2, <1>5 DEF GoesLabel, Readable
  <2> QED BY <1>5, <2>1, Zenon DEF Goes
<1>7. q = After(r)
  <2>1. r.stage # "header" /\ Byte(r.name.pos) # 0
    BY <1>2, <1>4, <1>5
  <2> QED BY <1>2, <1>5, <2>1 DEF After
<1>8. q.stage = Stage(m) /\ q.questions = Questions(m) /\ q.answers = Answers(m)
  BY <1>1, SameTerms DEF ReaderState, AfterLabel
<1> HIDE DEF q
<1> QED BY <1>3, <1>4, <1>6, <1>7, <1>8, NameTurns

LEMMA PointerTurns ==
    ASSUME NInv, NEW m \in Readings, Pointer(m)
    PROVE  \E q : Become(m, q) /\ Turns(reader[m], q, Present(m))
<1> DEFINE r == reader[m]  q == AfterPointer(r)
<1>1. r \in ReaderState
  BY ReaderFacts
<1>2. /\ Reading(m) /\ Readable(m) /\ Length(m) >= 192
      /\ N(m).pos + 2 <= Present(m) /\ N(m).jumps < MaxPointers /\ Target(m) < Present(m)
  BY DEF Pointer, Jumps, IsPointer
<1>3. Become(m, q)
  BY DEF Pointer, AfterPointer, N, Length, Target, TargetOf
<1>4. /\ Stage(m) \in {"questions", "answers"} /\ Length(m) \in Nat
  BY <1>2, ReadingFacts
<1>5. /\ More(r) /\ r.name = N(m) /\ r.stage = Stage(m) /\ Byte(r.name.pos) = Length(m)
      /\ TargetOf(r.name) = Target(m)
  BY <1>2, SameTerms DEF Reading
<1>6. Goes(r, Present(m))
  <2>1. GoesPointer(r.name, Present(m)) /\ r.name.pos < Present(m)
    BY <1>2, <1>5 DEF GoesPointer, Readable
  <2> QED BY <1>5, <2>1, Zenon DEF Goes
<1>7. q = After(r)
  <2>1. r.stage # "header" /\ Byte(r.name.pos) # 0 /\ ~(Byte(r.name.pos) < 64)
    BY <1>2, <1>4, <1>5
  <2> QED BY <1>2, <1>5, <2>1 DEF After
<1>8. q.stage = Stage(m) /\ q.questions = Questions(m) /\ q.answers = Answers(m)
  BY <1>1, SameTerms DEF ReaderState, AfterPointer
<1> HIDE DEF q
<1> QED BY <1>3, <1>4, <1>6, <1>7, <1>8, NameTurns

LEMMA QuestionTurns ==
    ASSUME NInv, NEW m \in Readings, Question(m)
    PROVE  \E q : Become(m, q) /\ Turns(reader[m], q, Present(m))
<1> DEFINE r == reader[m]  q == AfterQuestion(r)  next == End(m) + QuestionFixed
           x == Item(m, next)
<1>1. r \in ReaderState
  BY ReaderFacts
<1>2. AtRoot(m) /\ Stage(m) = "questions" /\ next <= Present(m)
  BY DEF Question
<1>3. Reading(m) /\ Readable(m) /\ Length(m) = 0
  BY <1>2 DEF AtRoot
<1>4. /\ More(r) /\ r.name = N(m) /\ r.stage = "questions" /\ Byte(r.name.pos) = 0
      /\ EndOf(r.name) = End(m) /\ ItemIn(r.name, next) = x
  BY <1>2, <1>3, SameTerms DEF Reading
<1>5. Become(m, q)
  <2>1. Become(m, [r EXCEPT !.questions = Append(@, x), !.name = Name(next)])
    BY DEF Question
  <2> HIDE DEF r, x
  <2> QED BY <1>4, <2>1 DEF AfterQuestion
<1>6. Goes(r, Present(m))
  <2>1. GoesQuestion(r, Present(m)) /\ r.name.pos < Present(m)
    BY <1>2, <1>3, <1>4 DEF GoesQuestion, Readable
  <2> QED BY <1>4, <2>1, Zenon DEF Goes
<1>7. q = After(r)
  BY <1>4 DEF After
<1>8. x \in ItemRead
  <2>1. next \in Nat
    BY <1>2, RootFacts, LengthsAssumption
  <2> HIDE DEF next
  <2> QED BY <1>2, <2>1, ItemFacts
<1>9. /\ q.stage = "questions" /\ q.answers = r.answers
      /\ q.questions = Append(r.questions, x)
  <2> HIDE DEF x
  <2> QED BY <1>1, <1>4 DEF ReaderState, AfterQuestion
<1> HIDE DEF q, x, r
<1>10. Onward(r, q)
  BY <1>4, <1>8, <1>9 DEF Onward, Longer
<1>11. Turns(r, q, Present(m))
  BY <1>6, <1>7, <1>10, Zenon DEF Turns
<1> QED BY <1>5, <1>11 DEF r

LEMMA RecordTurns ==
    ASSUME NInv, NEW m \in Readings, Record(m)
    PROVE  \E q : Become(m, q) /\ Turns(reader[m], q, Present(m))
<1> DEFINE r == reader[m]  q == AfterRecord(r)
           next == End(m) + RecordFixed + RdLength(m)
           x == Item(m, next)
<1>1. r \in ReaderState
  BY ReaderFacts
<1>2. /\ AtRoot(m) /\ Stage(m) = "answers" /\ next <= Present(m)
      /\ End(m) + RecordFixed <= Present(m)
  BY DEF Record
<1>3. Reading(m) /\ Readable(m) /\ Length(m) = 0
  BY <1>2 DEF AtRoot
<1>4. /\ More(r) /\ r.name = N(m) /\ r.stage = "answers" /\ Byte(r.name.pos) = 0
      /\ EndOf(r.name) = End(m) /\ ItemIn(r.name, next) = x
      /\ RdLengthOf(r.name) = RdLength(m)
  BY <1>2, <1>3, SameTerms DEF Reading
<1>5. Become(m, q)
  <2>1. Become(m, [r EXCEPT !.answers = Append(@, x), !.name = Name(next)])
    BY DEF Record
  <2> HIDE DEF r, x
  <2> QED BY <1>4, <2>1 DEF AfterRecord
<1>6. Goes(r, Present(m))
  <2>1. GoesRecord(r, Present(m)) /\ r.name.pos < Present(m)
    BY <1>2, <1>3, <1>4 DEF GoesRecord, Readable
  <2> QED BY <1>4, <2>1, Zenon DEF Goes
<1>7. q = After(r)
  BY <1>4 DEF After
<1>8. x \in ItemRead
  <2>1. next \in Nat
    <3>1. End(m) \in Nat /\ RecordFixed \in Nat /\ RdLength(m) \in Nat
      BY <1>2, RootFacts, RdLengthFacts, LengthsAssumption
    <3> QED BY <3>1
  <2> HIDE DEF next
  <2> QED BY <1>2, <2>1, ItemFacts
<1>9. /\ q.stage = "answers" /\ q.questions = r.questions
      /\ q.answers = Append(r.answers, x)
  <2> HIDE DEF x
  <2> QED BY <1>1, <1>4 DEF ReaderState, AfterRecord
<1> HIDE DEF q, x, r
<1>10. Onward(r, q)
  BY <1>4, <1>8, <1>9 DEF Onward, Longer
<1>11. Turns(r, q, Present(m))
  BY <1>6, <1>7, <1>10, Zenon DEF Turns
<1> QED BY <1>5, <1>11 DEF r

LEMMA FieldsShortTurns ==
    ASSUME NInv, NEW m \in Readings, FieldsShort(m)
    PROVE  \E q : Become(m, q) /\ Turns(reader[m], q, Present(m))
<1> DEFINE r == reader[m]  n == Present(m)
<1>1. r \in ReaderState /\ n \in Nat
  BY ReaderFacts
<1>2. AtRoot(m) /\ Break(m)
  BY DEF FieldsShort
<1>3. Reading(m) /\ Readable(m) /\ Length(m) = 0
  BY <1>2 DEF AtRoot
<1>4. /\ More(r) /\ r.name = N(m) /\ r.stage = Stage(m) /\ Byte(r.name.pos) = 0
      /\ EndOf(r.name) = End(m) /\ RdLengthOf(r.name) = RdLength(m)
  BY <1>3, SameTerms DEF Reading
<1>5. /\ Stage(m) \in {"questions", "answers"} /\ End(m) \in Nat
      /\ QuestionFixed \in Nat /\ RecordFixed \in Nat
      /\ End(m) + RecordFixed <= n => RdLength(m) \in Nat
  BY <1>2, RootFacts, RdLengthFacts, LengthsAssumption
<1>6. ~GoesQuestion(r, n) /\ ~GoesRecord(r, n)
  <2> HIDE DEF r, n
  <2>1. CASE Stage(m) = "questions" /\ End(m) + QuestionFixed > n
    BY <1>1, <1>4, <1>5, <2>1 DEF GoesQuestion, GoesRecord
  <2>2. CASE Stage(m) = "answers" /\ End(m) + RecordFixed > n
    BY <1>1, <1>4, <1>5, <2>2 DEF GoesQuestion, GoesRecord
  <2>3. CASE /\ Stage(m) = "answers" /\ End(m) + RecordFixed <= n
             /\ End(m) + RecordFixed + RdLength(m) > n
    BY <1>1, <1>4, <1>5, <2>3 DEF GoesQuestion, GoesRecord
  <2> QED BY <2>1, <2>2, <2>3 DEF FieldsShort, n
<1>7. ~GoesLabel(r.name, n) /\ ~GoesPointer(r.name, n)
  BY <1>4 DEF GoesLabel, GoesPointer
<1>8. ~Goes(r, n)
  BY <1>4, <1>5, <1>6, <1>7 DEF Goes
<1> QED BY <1>1, <1>2, <1>5, <1>8, BreakTurns

LEMMA BadNameTurns ==
    ASSUME NInv, NEW m \in Readings, BadName(m)
    PROVE  \E q : Become(m, q) /\ Turns(reader[m], q, Present(m))
<1> DEFINE r == reader[m]  n == Present(m)  x == r.name
<1>1. r \in ReaderState /\ n \in Nat /\ n <= Len(buf) /\ Len(buf) \in Nat
  BY ReaderFacts
<1>2. Reading(m) /\ Break(m)
  BY DEF BadName
<1>3. /\ More(r) /\ x = N(m) /\ r.stage = Stage(m) /\ Byte(x.pos) = Length(m)
      /\ TargetOf(x) = Target(m) /\ Stage(m) \in {"questions", "answers"}
  BY <1>2, SameTerms DEF Reading, Wanted
<1>4. x.pos \in Nat /\ x.wire_len \in Nat /\ MaxNameLen \in Nat
  BY <1>1, LengthsAssumption DEF ReaderState, NameState
<1>5. ASSUME Readable(m)
      PROVE  /\ ~GoesLabel(x, n) /\ ~GoesPointer(x, n)
             /\ ~GoesQuestion(r, n) /\ ~GoesRecord(r, n)
  <2>1. Length(m) \in Nat
    BY <1>2, <1>5, ReadingFacts
  <2>2. CASE Length(m) < 64 /\ Length(m) > 0
             /\ (N(m).wire_len + 1 + Length(m) > MaxNameLen
                 \/ N(m).pos + 1 + Length(m) > n)
    <3>1. ~GoesPointer(x, n) /\ ~GoesQuestion(r, n) /\ ~GoesRecord(r, n)
      BY <1>3, <2>1, <2>2 DEF GoesPointer, GoesQuestion, GoesRecord
    <3> DEFINE b == Length(m)
    <3> HIDE DEF b, n, x
    <3>2. ~(x.wire_len + 1 + b <= MaxNameLen /\ x.pos + 1 + b <= n)
      BY <1>1, <1>3, <1>4, <2>1, <2>2 DEF b
    <3> QED BY <1>3, <3>1, <3>2 DEF GoesLabel, b
  <2>3. CASE Length(m) >= 192 /\ ~Jumps(m)
    <3>1. ~GoesLabel(x, n) /\ ~GoesQuestion(r, n) /\ ~GoesRecord(r, n)
      BY <1>3, <2>1, <2>3 DEF GoesLabel, GoesQuestion, GoesRecord
    <3>2. ~GoesPointer(x, n)
      BY <1>2, <1>3, <1>5, <2>3 DEF GoesPointer, Jumps, IsPointer
    <3> QED BY <3>1, <3>2
  <2>4. CASE ~(Length(m) < 64) /\ ~(Length(m) >= 192)
    BY <1>3, <2>1, <2>4 DEF GoesLabel, GoesPointer, GoesQuestion, GoesRecord
  <2> QED BY <1>5, <2>2, <2>3, <2>4, Zenon DEF BadName, IsNormal, IsPointer, n
<1>6. ~(x.pos < n) => ~Readable(m)
  BY <1>3 DEF Readable
<1>7. ~Goes(r, n)
  <2>1. CASE Readable(m)
    BY <1>3, <1>5, <2>1 DEF Goes
  <2>2. CASE ~Readable(m)
    BY <1>3, <2>2 DEF Goes, Readable
  <2> QED BY <2>1, <2>2
<1> QED BY <1>1, <1>2, <1>3, <1>7, BreakTurns

\* A step of the parser is a turn of one reading, the cut one first.
LEMMA StepTurns ==
    ASSUME NInv, NEW m \in Readings, Step(m)
    PROVE  /\ Turn(m) /\ Stage(m) \in Open
           /\ \E q : Become(m, q) /\ Turns(reader[m], q, Present(m))
<1>1. Turn(m) /\ Stage(m) \in Open
  BY DEF Step, NotDns, Begin, SectionDone, Label, Pointer, Jumps, Question, Record,
         FieldsShort, BadName, AtRoot, Reading, Wanted, Stage, Open
<1>2. \E q : Become(m, q) /\ Turns(reader[m], q, Present(m))
  BY StageTurns, LabelTurns, PointerTurns, QuestionTurns, RecordTurns,
     FieldsShortTurns, BadNameTurns, Zenon DEF Step
<1> QED BY <1>1, <1>2

-----------------------------------------------------------------------------
(* The two readings *)

\* The first k states of the cut reading, t[1] to t[k].
Walk(t, k) ==
    /\ k \in Nat \ {0}
    /\ \A i \in 1..k : t[i] \in ReaderState /\ t[i].stage \in Open
    /\ t[1] = Start
    /\ \A i \in 1..k - 1 : Goes(t[i], size) /\ t[i + 1] = After(t[i])

\* Reading r is in state s, or has ended there.
Stopped(s, r) ==
    /\ r.questions = s.questions /\ r.answers = s.answers
    /\ r.stage \in Open => r = s
    /\ r.stage = "message" => Answering(s)

\* Reading r has read all that s has, and has not given it up.
Beyond(s, r) ==
    /\ IsPrefix(s.questions, r.questions) /\ IsPrefix(s.answers, r.answers)
    /\ s.stage = "answers" => r.stage \in {"answers", "message"}
    /\ Answering(s) => Answering(r) \/ r.stage = "message"

OnWalk(t, k, r) == (\E i \in 1..k : r = t[i]) \/ Beyond(t[k], r)

CInv ==
    /\ NInv
    /\ Stage("cut") \in Open => reader["whole"] = Start
    /\ \E t, k : /\ Walk(t, k) /\ Stopped(t[k], reader["cut"])
                 /\ OnWalk(t, k, reader["whole"])

LEMMA PrefixItself ==
    ASSUME NEW T, NEW a \in Seq(T)
    PROVE  IsPrefix(a, a)
BY LenProperties DEF IsPrefix

LEMMA PrefixOfLonger ==
    ASSUME NEW a \in Seq(ItemRead), NEW b \in Seq(ItemRead), NEW c, IsPrefix(a, b),
           Longer(b, c)
    PROVE  IsPrefix(a, c)
<1>1. CASE c = b
  BY <1>1
<1>2. CASE \E e \in ItemRead : c = Append(b, e)
  <2>1. PICK e \in ItemRead : c = Append(b, e)
    BY <1>2
  <2> DEFINE n == Len(a)
  <2>2. /\ n \in Nat /\ Len(b) \in Nat /\ n <= Len(b)
        /\ SubSeq(a, 1, n) = SubSeq(b, 1, n)
    BY LenProperties DEF IsPrefix
  <2>3. /\ c \in Seq(ItemRead) /\ Len(c) = Len(b) + 1
        /\ \A i \in 1..Len(b) : c[i] = b[i]
    BY <2>1, AppendProperties
  <2>4. \A i \in 1..n : i \in 1..Len(b) /\ i \in 1..Len(c) /\ c[i] = b[i]
    BY <2>2, <2>3
  <2>5. SubSeq(c, 1, n) = SubSeq(b, 1, n)
    <3>1. \A i \in 1..n : c[i] \in ItemRead /\ b[i] \in ItemRead
      BY <2>3, <2>4, ElementOfSeq
    <3>2. 1 \in Int /\ n \in Int
      BY <2>2
    <3> HIDE DEF n
    <3>3. /\ SubSeq(c, 1, n) \in Seq(ItemRead) /\ SubSeq(b, 1, n) \in Seq(ItemRead)
          /\ Len(SubSeq(c, 1, n)) = Len(SubSeq(b, 1, n))
      BY <3>1, <3>2, SubSeqProperties
    <3>4. /\ Len(SubSeq(c, 1, n)) = n
          /\ \A i \in 1..n : SubSeq(c, 1, n)[i] = c[i] /\ SubSeq(b, 1, n)[i] = b[i]
      BY <2>2, <3>1, <3>2, SubSeqProperties DEF n
    <3> QED BY <2>4, <3>3, <3>4, SeqEqual
  <2> QED BY <2>2, <2>3, <2>5 DEF IsPrefix
<1> QED BY <1>1, <1>2 DEF Longer

LEMMA PrefixNonempty ==
    ASSUME NEW a \in Seq(ItemRead), NEW b \in Seq(ItemRead), IsPrefix(a, b), a # <<>>
    PROVE  b # <<>>
<1>1. Len(a) \in Nat /\ Len(a) # 0 /\ Len(a) <= Len(b)
  BY LenProperties, EmptySeq DEF IsPrefix
<1> QED BY <1>1, EmptySeq

LEMMA BeyondItself ==
    ASSUME NEW s \in ReaderState
    PROVE  Beyond(s, s)
<1>1. s.questions \in Seq(ItemRead) /\ s.answers \in Seq(ItemRead)
  BY DEF ReaderState
<1> QED BY <1>1, PrefixItself DEF Beyond

\* No turn of a reading that has got beyond s takes it back.
LEMMA BeyondStays ==
    ASSUME NEW s \in ReaderState, NEW r \in ReaderState, NEW q, NEW n,
           s.stage \in Open, r.stage \in Open, Beyond(s, r), Turns(r, q, n)
    PROVE  Beyond(s, q)
<1>1. /\ s.questions \in Seq(ItemRead) /\ s.answers \in Seq(ItemRead)
      /\ r.questions \in Seq(ItemRead) /\ r.answers \in Seq(ItemRead)
  BY DEF ReaderState
<1>2. /\ IsPrefix(s.questions, r.questions) /\ IsPrefix(s.answers, r.answers)
      /\ s.stage = "answers" => r.stage = "answers"
      /\ Answering(s) => Answering(r)
  BY DEF Beyond, Open
<1>3. CASE Onward(r, q)
  <2>1. IsPrefix(s.questions, q.questions) /\ IsPrefix(s.answers, q.answers)
    BY <1>1, <1>2, <1>3, PrefixOfLonger DEF Onward
  <2>2. s.stage = "answers" => q.stage = "answers"
    BY <1>2, <1>3 DEF Onward
  <2>3. s.questions # <<>> => q.questions # <<>>
    <3>1. q.questions \in Seq(ItemRead)
      BY <1>1, <1>3, AppendProperties DEF Onward, Longer
    <3> QED BY <1>1, <2>1, <3>1, PrefixNonempty
  <2>4. Answering(s) => Answering(q)
    BY <1>3, <2>2, <2>3 DEF Answering, Onward
  <2> QED BY <2>1, <2>2, <2>4 DEF Beyond
<1>4. CASE Ends(r, q)
  <2>1. q.questions = r.questions /\ q.answers = r.answers
    BY <1>4 DEF Ends
  <2>2. Answering(r) => q.stage = "message"
    BY <1>4 DEF Ends
  <2>3. s.stage = "answers" => Answering(s)
    BY DEF Answering
  <2> QED BY <1>2, <2>1, <2>2, <2>3 DEF Beyond
<1> QED BY <1>3, <1>4 DEF Turns

LEMMA WalkOn ==
    ASSUME NEW t, NEW k, Walk(t, k), Goes(t[k], size),
           NEW q \in ReaderState, q = After(t[k]), q.stage \in Open
    PROVE  \E u : /\ Walk(u, k + 1) /\ u[k + 1] = q
                  /\ \A i \in 1..k : u[i] = t[i]
<1> DEFINE u == [i \in 1..k + 1 |-> IF i = k + 1 THEN q ELSE t[i]]
<1>1. k \in Nat \ {0} /\ k + 1 \in Nat \ {0} /\ 1 \in 1..k
  BY DEF Walk
<1>2. u[k + 1] = q /\ \A i \in 1..k : u[i] = t[i]
  BY <1>1
<1> HIDE DEF u
<1>3. \A i \in 1..k + 1 : i \in 1..k \/ i = k + 1
  BY <1>1
<1>4. \A i \in 1..k + 1 : u[i] \in ReaderState /\ u[i].stage \in Open
  BY <1>2, <1>3 DEF Walk
<1>5. u[1] = Start
  BY <1>1, <1>2 DEF Walk
<1>6. ASSUME NEW i \in 1..(k + 1) - 1 PROVE Goes(u[i], size) /\ u[i + 1] = After(u[i])
  <2>1. i \in 1..k
    BY <1>1
  <2>2. CASE i = k
    BY <1>2, <2>1, <2>2
  <2>3. CASE i # k
    <3>1. i \in 1..k - 1 /\ i + 1 \in 1..k
      BY <1>1, <2>1, <2>3
    <3>2. Goes(t[i], size) /\ t[i + 1] = After(t[i])
      BY <3>1 DEF Walk
    <3> QED BY <1>2, <2>1, <3>1, <3>2
  <2> QED BY <2>2, <2>3
<1>7. Walk(u, k + 1)
  BY <1>1, <1>4, <1>5, <1>6 DEF Walk
<1> QED BY <1>2, <1>7

LEMMA SameWalk ==
    ASSUME UNCHANGED <<buf, header, size>>, NEW t, NEW k
    PROVE  Walk(t, k)' <=> Walk(t, k)
BY DEF Walk, Goes, After, More, GoesLabel, GoesPointer, GoesQuestion, GoesRecord,
       EndOf, TargetOf, RdLengthOf, AfterLabel, AfterPointer, AfterQuestion,
       AfterRecord, ItemIn, Byte, Bytes

LEMMA InitCInv == Init => CInv
<1> SUFFICES ASSUME Init PROVE CInv
  OBVIOUS
<1>1. NInv
  BY InitNInv
<1>2. reader["cut"] = Start /\ reader["whole"] = Start
  BY DEF Init, Readings, Start
<1> DEFINE t == [i \in 1..1 |-> Start]
<1>3. Walk(t, 1)
  <2>1. \A i \in 1..1 : t[i] = Start
    OBVIOUS
  <2>2. 1 \in 1..1 /\ ~(\E i \in 1..1 - 1 : TRUE) /\ 1 \in Nat \ {0}
    OBVIOUS
  <2>3. Start.stage \in Open
    BY StartFacts DEF Open
  <2> QED BY <2>1, <2>2, <2>3, StartFacts DEF Walk
<1>4. t[1] = Start /\ 1 \in 1..1
  OBVIOUS
<1> HIDE DEF t
<1>5. Stopped(t[1], reader["cut"])
  BY <1>2, <1>4, StartFacts DEF Stopped
<1>6. OnWalk(t, 1, reader["whole"])
  BY <1>2, <1>4 DEF OnWalk
<1> QED BY <1>1, <1>2, <1>3, <1>5, <1>6 DEF CInv

\* What a step of one reading leaves of the state.
LEMMA BecomeFacts ==
    ASSUME NInv, NEW m \in Readings, NEW q, Become(m, q)
    PROVE  /\ UNCHANGED <<buf, header, size>>
           /\ reader'[m] = q
           /\ \A k \in Readings \ {m} : reader'[k] = reader[k]
BY DEF NInv, Become

LEMMA CutStep ==
    ASSUME CInv, Step("cut")
    PROVE  CInv'
<1> DEFINE r == reader["cut"]  w == reader["whole"]
<1>1. NInv /\ NInv' /\ "cut" \in Readings /\ "whole" \in Readings \ {"cut"}
  BY StepNInv DEF CInv, Readings
<1>2. PICK q : Become("cut", q) /\ Turns(r, q, Present("cut"))
  BY <1>1, StepTurns
<1>3. /\ UNCHANGED <<buf, header, size>> /\ reader'["cut"] = q /\ reader'["whole"] = w
  BY <1>1, <1>2, BecomeFacts
<1>4. r.stage \in Open /\ w = Start
  BY <1>1, StepTurns DEF CInv, Stage
<1>5. PICK t, k : Walk(t, k) /\ Stopped(t[k], r)
  BY DEF CInv
<1>6. t[k] = r /\ t[1] = w /\ k \in Nat \ {0} /\ 1 \in 1..k /\ k \in 1..k
  BY <1>4, <1>5 DEF Stopped, Walk
<1>7. Present("cut") = size /\ q \in ReaderState
  BY <1>1, <1>3 DEF Present, NInv
<1> HIDE DEF r, w
<1>8. \E u, l : Walk(u, l) /\ Stopped(u[l], q) /\ OnWalk(u, l, w)
  <2>1. CASE Goes(r, size) /\ q = After(r) /\ Onward(r, q)
    <3>1. q.stage \in Open
      BY <2>1 DEF Onward, Open
    <3>2. PICK u : Walk(u, k + 1) /\ u[k + 1] = q /\ \A i \in 1..k : u[i] = t[i]
      BY <1>5, <1>6, <1>7, <2>1, <3>1, WalkOn
    <3>3. Stopped(u[k + 1], q)
      BY <3>1, <3>2, Zenon DEF Stopped, Open, Answering
    <3>4. OnWalk(u, k + 1, w)
      <4>1. u[1] = w /\ 1 \in 1..k + 1
        BY <1>6, <3>2
      <4> QED BY <4>1 DEF OnWalk
    <3> QED BY <3>2, <3>3, <3>4
  <2>2. CASE Ends(r, q)
    <3>1. Stopped(t[k], q)
      BY <1>6, <2>2 DEF Stopped, Ends, Open
    <3>2. OnWalk(t, k, w)
      BY <1>6 DEF OnWalk
    <3> QED BY <1>5, <3>1, <3>2
  <2> QED BY <1>2, <1>7, <2>1, <2>2 DEF Turns
<1>9. PICK u, l : Walk(u, l) /\ Stopped(u[l], q) /\ OnWalk(u, l, w)
  BY <1>8
<1>10. Walk(u, l)'
  BY <1>3, <1>9, SameWalk
<1>11. Stopped(u[l], reader["cut"])' /\ OnWalk(u, l, reader["whole"])'
  BY <1>3, <1>9 DEF Stopped, OnWalk, Beyond, Answering
<1>12. (Stage("cut") \in Open => reader["whole"] = Start)'
  BY <1>3, <1>4
<1> QED BY <1>1, <1>10, <1>11, <1>12 DEF CInv

LEMMA WholeStep ==
    ASSUME CInv, Step("whole")
    PROVE  CInv'
<1> DEFINE r == reader["whole"]  c == reader["cut"]  n == Present("whole")
<1>1. NInv /\ NInv' /\ "whole" \in Readings /\ "cut" \in Readings \ {"whole"}
  BY StepNInv DEF CInv, Readings
<1>2. PICK q : Become("whole", q) /\ Turns(r, q, n)
  BY <1>1, StepTurns
<1>3. /\ UNCHANGED <<buf, header, size>> /\ reader'["whole"] = q /\ reader'["cut"] = c
  BY <1>1, <1>2, BecomeFacts
<1>4. r.stage \in Open /\ c.stage \notin Open
  BY <1>1, StepTurns DEF Turn, Finished, Stage, Open
<1>5. PICK t, k : Walk(t, k) /\ Stopped(t[k], c) /\ OnWalk(t, k, r)
  BY DEF CInv
<1>6. /\ MessageOK /\ n = Len(buf) /\ n \in Nat /\ size \in Nat /\ size <= n
      /\ r \in ReaderState
  <2>1. MessageOK /\ Len(buf) \in Nat /\ r \in ReaderState
    BY <1>1, ReaderFacts
  <2> QED BY <2>1 DEF MessageOK, Present
<1>7. k \in Nat \ {0} /\ k \in 1..k /\ t[k] \in ReaderState /\ t[k].stage \in Open
  BY <1>5 DEF Walk
<1> HIDE DEF r, c, n
<1>8. OnWalk(t, k, q)
  <2>1. CASE Beyond(t[k], r)
    <3>1. Beyond(t[k], q)
      BY <1>2, <1>4, <1>6, <1>7, <2>1, BeyondStays
    <3> QED BY <3>1 DEF OnWalk
  <2>2. CASE r = t[k]
    <3>1. Beyond(t[k], r)
      BY <1>7, <2>2, BeyondItself
    <3> QED BY <2>1, <3>1
  <2>3. ASSUME NEW i \in 1..k, r = t[i], i # k
        PROVE  OnWalk(t, k, q)
    <3>1. i \in 1..k - 1 /\ i + 1 \in 1..k
      BY <1>7, <2>3
    <3>2. Goes(r, size) /\ t[i + 1] = After(r)
      BY <1>5, <2>3, <3>1 DEF Walk
    <3>3. Goes(r, n)
      BY <1>6, <3>2, GoesMore
    <3>4. q = t[i + 1]
      BY <1>2, <3>2, <3>3 DEF Turns
    <3> QED BY <3>1, <3>4 DEF OnWalk
  <2> QED BY <1>5, <2>1, <2>2, <2>3 DEF OnWalk
<1>9. Walk(t, k)'
  BY <1>3, <1>5, SameWalk
<1>10. Stopped(t[k], reader["cut"])' /\ OnWalk(t, k, reader["whole"])'
  BY <1>3, <1>5, <1>8 DEF Stopped, OnWalk, Beyond, Answering
<1>11. (Stage("cut") \in Open => reader["whole"] = Start)'
  BY <1>3, <1>4 DEF Stage
<1> QED BY <1>1, <1>9, <1>10, <1>11 DEF CInv

LEMMA NextCInv == CInv /\ [Next]_vars => CInv'
<1> SUFFICES ASSUME CInv, [Next]_vars PROVE CInv'
  OBVIOUS
<1>1. CASE Next
  BY <1>1, CutStep, WholeStep DEF Next, Readings
<1>2. CASE UNCHANGED vars
  <2>1. NInv'
    BY <1>2, NextNInv DEF CInv
  <2>2. UNCHANGED <<buf, header, size>> /\ reader' = reader
    BY <1>2 DEF vars
  <2>3. PICK t, k : /\ Walk(t, k) /\ Stopped(t[k], reader["cut"])
                    /\ OnWalk(t, k, reader["whole"])
    BY DEF CInv
  <2>4. Walk(t, k)'
    BY <2>2, <2>3, SameWalk
  <2>5. Stopped(t[k], reader["cut"])' /\ OnWalk(t, k, reader["whole"])'
    BY <2>2, <2>3 DEF Stopped, OnWalk, Beyond, Answering
  <2>6. (Stage("cut") \in Open => reader["whole"] = Start)'
    BY <2>2 DEF CInv, Stage
  <2> QED BY <2>1, <2>4, <2>5, <2>6 DEF CInv
<1> QED BY <1>1, <1>2

LEMMA CInvGivesPrefix == CInv => CutKeepsPrefix
<1> SUFFICES ASSUME CInv, Finished("whole")
    PROVE  /\ IsPrefix(Questions("cut"), Questions("whole"))
           /\ IsPrefix(Answers("cut"), Answers("whole"))
           /\ Stage("cut") = "message" => Stage("whole") = "message"
  BY DEF CutKeepsPrefix
<1> DEFINE r == reader["whole"]  c == reader["cut"]
<1>1. PICK t, k : Walk(t, k) /\ Stopped(t[k], c) /\ OnWalk(t, k, r)
  BY DEF CInv
<1>2. r.stage \in {"message", "not DNS"}
  BY DEF Finished
<1> HIDE DEF r, c
<1>3. Beyond(t[k], r)
  BY <1>1, <1>2 DEF OnWalk, Walk, Open
<1>4. IsPrefix(c.questions, r.questions) /\ IsPrefix(c.answers, r.answers)
  BY <1>1, <1>3 DEF Stopped, Beyond
<1>5. c.stage = "message" => r.stage = "message"
  BY <1>1, <1>2, <1>3 DEF Stopped, Beyond, Answering
<1> QED BY <1>4, <1>5 DEF r, c, Questions, Answers, Stage

(* CutInventsNothing: whatever its bytes, and wherever it is cut, the      *)
(* questions and the answers parse_dns reads of a message that is cut      *)
(* short are the first of those it reads of the whole of it; a cut message *)
(* is taken for DNS only if the whole one is.                              *)
THEOREM CutInventsNothing == Spec => []CutKeepsPrefix
<1>1. Init => CInv
  BY InitCInv
<1>2. CInv /\ [Next]_vars => CInv'
  BY NextCInv
<1>3. CInv => CutKeepsPrefix
  BY CInvGivesPrefix
<1> QED BY <1>1, <1>2, <1>3, PTL DEF Spec
=============================================================================
