--------------------------- MODULE FlowHunt_proofs ---------------------------
(***************************************************************************)
(* Theorems about the two passes over the flows of a capture, for every    *)
(* set of flows, every network and all four limits.                        *)
(*                                                                         *)
(* A pass is proved by saying what its dictionary holds of the first k     *)
(* flows: which keys, each once (Keyed), and of each group which flows, in *)
(* their order (Orders), or which totals (Counted).  All three sets of     *)
(* groups grow in the same way, so keys and aims are functions on the      *)
(* positions of the flows, and the lemmas are stated once for them.        *)
(***************************************************************************)
EXTENDS FlowHunt, SequenceTheorems, FiniteSetTheorems, NaturalsInduction, TLAPS

Host == DOMAIN Kind

Scopes == {Kind[a] : a \in Host} \cup {"private", "external", NoHost}

Accusations ==
    [kind : {"beacon", "scan"}, src : Host, dst : Host \cup {NoHost},
     scope : Scopes, score : 0..100, severity : 1..4]

Talks == [key : Host \X Host \X Nat \X Protocols, flows : Seq(FlowRecord)]

Sweeps(keys, dsts, aims) ==
    [key : keys, src : Host, dst : dsts, targets : SUBSET aims, attempts : Nat,
     served : Nat, stealth : Nat, quiet : Nat, starts : Seq(Nat)]

Columns == Sweeps(Protocols \X Host \X Host, Host, Nat)
Rows    == Sweeps(Protocols \X Host \X Nat, {NoHost}, Host)

\* The keys and the aims of the flows fl, by position.
Talking(fl) == [i \in 1..Len(fl) |-> Conversation(fl[i])]
Downs(fl)   == [i \in 1..Len(fl) |-> Down(fl[i])]
Acrosses(fl) == [i \in 1..Len(fl) |-> Across(fl[i])]
Ports(fl)   == [i \in 1..Len(fl) |-> fl[i].dport]
Hosts(fl)   == [i \in 1..Len(fl) |-> fl[i].dst]

\* The positions among the first k whose key is key.
Mine(keys, k, key) == {i \in 1..k : keys[i] = key}

\* The groups are those of the first k positions, each once.
Keyed(groups, keys, k) ==
    /\ \A a, b \in 1..Len(groups) : groups[a].key = groups[b].key => a = b
    /\ \A i \in 1..k : \E a \in 1..Len(groups) : groups[a].key = keys[i]
    /\ \A a \in 1..Len(groups) : \E i \in 1..k : groups[a].key = keys[i]

\* s is v at the positions of mine, in their order.
Orders(s, v, mine) ==
    /\ Len(s) = Cardinality(mine)
    /\ \A i \in mine : s[Rank(i, mine)] = v[i]
    /\ \A n \in 1..Len(s) : \E i \in mine : s[n] = v[i]

ServedAt(fl, mine)   == {i \in mine : Served(fl[i])}
StealthyAt(fl, mine) == {i \in mine : Stealthy(fl[i])}
QuietAt(fl, mine)    == {i \in mine : Quiet(fl[i])}

Sums(g, fl, mine) ==
    /\ g.attempts = Cardinality(mine)
    /\ g.served = Cardinality(ServedAt(fl, mine))
    /\ g.stealth = Cardinality(StealthyAt(fl, mine))
    /\ g.quiet = Cardinality(QuietAt(fl, mine))

Aimed(g, aims, mine) ==
    /\ IsFiniteSet(g.targets) /\ Cardinality(g.targets) <= MaxTargets
    /\ g.targets \subseteq {aims[i] : i \in mine}
    /\ Cardinality(g.targets) < MaxTargets => g.targets = {aims[i] : i \in mine}

Started(g, fl, mine) ==
    /\ Len(g.starts) = IF Cardinality(mine) < MaxStarts THEN Cardinality(mine) ELSE MaxStarts
    /\ \A i \in mine : Rank(i, mine) <= MaxStarts =>
          g.starts[Rank(i, mine)] = fl[i].start

Counted(g, fl, aims, mine) ==
    Sums(g, fl, mine) /\ Aimed(g, aims, mine) /\ Started(g, fl, mine)

TalkInv(groups, fl, k) ==
    /\ Keyed(groups, Talking(fl), k)
    /\ \A a \in 1..Len(groups) :
          Orders(groups[a].flows, fl, Mine(Talking(fl), k, groups[a].key))

SweepInv(groups, fl, keys, aims, k) ==
    /\ Keyed(groups, keys, k)
    /\ \A a \in 1..Len(groups) :
          /\ Counted(groups[a], fl, aims, Mine(keys, k, groups[a].key))
          /\ groups[a].src = groups[a].key[2]

ColumnInv(groups, fl, k) ==
    /\ SweepInv(groups, fl, Downs(fl), Ports(fl), k)
    /\ \A a \in 1..Len(groups) : groups[a].dst = groups[a].key[3]

RowInv(groups, fl, k) == SweepInv(groups, fl, Acrosses(fl), Hosts(fl), k)

Turn == [capture |-> 0, beacons |-> 1, scans |-> 2, done |-> 3]

\* The number of flows pass p has gone through.
Gone(p) ==
    IF Turn[pass] < Turn[p] THEN 0 ELSE IF pass = p THEN next - 1 ELSE Len(flows)

Shape ==
    /\ flows \in Seq(Flows) /\ threshold \in Thresholds
    /\ pass \in DOMAIN Turn /\ next \in 1..(Len(flows) + 1)
    /\ pass = "capture" => next = 1 /\ findings = <<>>
    /\ conversations \in Seq(Talks)
    /\ vertical \in Seq(Columns) /\ horizontal \in Seq(Rows)
    /\ left \in Seq(Talks \cup Columns \cup Rows)
    /\ findings \in Seq(Accusations)

Among(g, groups) == \E a \in 1..Len(groups) : g = groups[a]

LeftInv ==
    /\ pass \in {"capture", "done"} => left = <<>>
    /\ pass = "beacons" => \A n \in 1..Len(left) : Among(left[n], conversations)
    /\ pass = "scans" =>
          \A n \in 1..Len(left) : Among(left[n], vertical) \/ Among(left[n], horizontal)

\* A group that no score can pass over at a threshold of a half.
Due(g) ==
    /\ Cardinality(g.targets) >= MinFanout /\ g.attempts > 0
    /\ g.served = 0 /\ g.quiet = g.attempts

Accused(found, g) ==
    \E k \in 1..Len(found) :
        found[k].kind = "scan" /\ found[k].src = g.src /\ found[k].dst = g.dst

Pending ==
    threshold <= 50 /\ pass \in {"scans", "done"} =>
        \A a \in 1..Len(vertical) :
            Due(vertical[a]) => Among(vertical[a], left) \/ Accused(findings, vertical[a])

\* Searching and the rest of FindingsHaveCause, of the flows fl.
Sought(fl, mine, aims, share) ==
    /\ Cardinality({aims[i] : i \in mine}) >= MinFanout
    /\ 100 * Cardinality({i \in mine : ~Served(fl[i])}) >= share * Cardinality(mine)

ScanCause(fl, s) ==
    \E proto \in Protocols :
        IF s.dst # NoHost
        THEN Sought(fl, Mine(Downs(fl), Len(fl), <<proto, s.src, s.dst>>), Ports(fl), s.score)
        ELSE \E dport \in {f.dport : f \in ToSet(fl)} :
                Sought(fl, Mine(Acrosses(fl), Len(fl), <<proto, s.src, dport>>), Hosts(fl), s.score)

BeaconCause(fl, b) ==
    /\ LocalNets # {} => b.src \in LocalNets
    /\ LocalNets # {} /\ Kind[b.dst] \in {"internal", "public"} =>
          b.scope = IF b.dst \in LocalNets THEN "private" ELSE "external"
    /\ \E proto \in Protocols, dport \in {f.dport : f \in ToSet(fl)} :
          Cardinality({fl[i].start :
              i \in Mine(Talking(fl), Len(fl), <<b.src, b.dst, dport, proto>>)})
            >= MinConnections

CauseInv(fl, found) ==
    \A k \in 1..Len(found) :
        /\ found[k].kind = "scan" => ScanCause(fl, found[k])
        /\ found[k].kind = "beacon" => BeaconCause(fl, found[k])

WeighedInv(found) ==
    \A k \in 1..Len(found) : found[k].severity = Severity(found[k].score, found[k].scope)

HInv ==
    /\ Shape
    /\ TalkInv(conversations, flows, Gone("beacons"))
    /\ ColumnInv(vertical, flows, Gone("scans"))
    /\ RowInv(horizontal, flows, Gone("scans"))
    /\ LeftInv /\ Pending /\ WeighedInv(findings) /\ CauseInv(flows, findings)

-----------------------------------------------------------------------------
(* Sets, ranks and sequences *)

LEMMA OneMoreFlow ==
    ASSUME NEW k \in Nat, NEW S \in SUBSET (1..k)
    PROVE  /\ IsFiniteSet(S) /\ Cardinality(S) \in Nat /\ k + 1 \notin S
           /\ IsFiniteSet(S \cup {k + 1})
           /\ Cardinality(S \cup {k + 1}) = Cardinality(S) + 1
<1>1. IsFiniteSet(1..k)
  BY FS_Interval
<1>2. IsFiniteSet(S)
  BY <1>1, FS_Subset
<1>3. k + 1 \notin S
  OBVIOUS
<1> QED BY <1>2, <1>3, FS_AddElement, FS_CardinalityType

\* One after all of S comes last, and the others keep their ranks.
LEMMA RanksKept ==
    ASSUME NEW k \in Nat, NEW S \in SUBSET (1..k)
    PROVE  /\ Rank(k + 1, S \cup {k + 1}) = Cardinality(S) + 1
           /\ \A i \in S : /\ Rank(i, S \cup {k + 1}) = Rank(i, S)
                           /\ Rank(i, S) \in 1..Cardinality(S)
<1>1. {j \in S \cup {k + 1} : j <= k + 1} = S \cup {k + 1}
  <2>1. \A j \in S \cup {k + 1} : j <= k + 1
    OBVIOUS
  <2> QED BY <2>1
<1>2. Cardinality(S \cup {k + 1}) = Cardinality(S) + 1
  BY OneMoreFlow
<1>3. ASSUME NEW i \in S
      PROVE  Rank(i, S \cup {k + 1}) = Rank(i, S) /\ Rank(i, S) \in 1..Cardinality(S)
  <2> DEFINE B == {j \in S : j <= i}
  <2>1. {j \in S \cup {k + 1} : j <= i} = B
    OBVIOUS
  <2>2. IsFiniteSet(S) /\ B \in SUBSET S /\ i \in B /\ Cardinality(S) \in Nat
    <3>1. i \in Int
      OBVIOUS
    <3>2. IsFiniteSet(S) /\ Cardinality(S) \in Nat
      BY OneMoreFlow
    <3>3. i <= i
      BY <3>1
    <3> QED BY <3>2, <3>3
  <2> HIDE DEF B
  <2>3. IsFiniteSet(B) /\ Cardinality(B) <= Cardinality(S)
    BY <2>2, FS_Subset
  <2>4. Cardinality(B) \in Nat /\ Cardinality(B) # 0
    BY <2>2, <2>3, FS_CardinalityType, FS_EmptySet
  <2>5. Rank(i, S) = Cardinality(B) /\ Rank(i, S \cup {k + 1}) = Cardinality(B)
    BY <2>1 DEF Rank, B
  <2>6. Cardinality(B) \in 1..Cardinality(S)
    BY <2>2, <2>3, <2>4
  <2> QED BY <2>5, <2>6
<1> QED BY <1>1, <1>2, <1>3 DEF Rank

LEMMA OneAppended ==
    ASSUME NEW T, NEW s \in Seq(T), NEW x \in T
    PROVE  /\ Append(s, x) \in Seq(T) /\ Len(s) \in Nat
           /\ Len(Append(s, x)) = Len(s) + 1
           /\ \A i \in 1..Len(s) : Append(s, x)[i] = s[i]
           /\ Append(s, x)[Len(s) + 1] = x
  BY AppendProperties, LenProperties

LEMMA LeastOf ==
    ASSUME NEW S \in SUBSET Nat, S # {}
    PROVE  \E x \in S : \A y \in S : x <= y
<1>1. \E x \in S : \A y \in S : ~(<<y, x>> \in OpToRel(<, Nat))
  BY NatLessThanWellFounded, WFMin
<1>2. PICK x \in S : \A y \in S : ~(y < x)
  BY <1>1 DEF OpToRel
<1> QED BY <1>2

\* Every finite list of numbers has a greatest.
LEMMA GreatestOf ==
    ASSUME NEW n \in Nat \ {0}, NEW f \in [1..n -> Nat]
    PROVE  \E a \in 1..n : \A i \in 1..n : f[i] <= f[a]
<1> DEFINE B == {m \in 1..n : ~\E a \in 1..m : \A i \in 1..m : f[i] <= f[a]}
<1>1. SUFFICES ASSUME B # {} PROVE FALSE
  <2>1. n \in 1..n
    OBVIOUS
  <2> QED BY <2>1
<1>2. B \in SUBSET Nat
  OBVIOUS
<1>3. PICK x \in B : \A y \in B : x <= y
  <2> HIDE DEF B
  <2> QED BY <1>1, <1>2, LeastOf
<1>4. x \in 1..n /\ ~\E a \in 1..x : \A i \in 1..x : f[i] <= f[a]
  BY <1>3
<1>5. x # 1
  <2>1. \A i \in 1..1 : i = 1
    OBVIOUS
  <2> QED BY <1>4, <2>1
<1>6. x - 1 \in 1..n /\ x - 1 \notin B
  <2>1. x - 1 \in 1..n /\ ~(x <= x - 1)
    BY <1>4, <1>5
  <2> HIDE DEF B
  <2> QED BY <1>3, <2>1
<1>7. PICK a \in 1..(x - 1) : \A i \in 1..(x - 1) : f[i] <= f[a]
  BY <1>6
<1>8. f[a] \in Nat /\ f[x] \in Nat /\ a \in 1..x /\ x \in 1..x
  BY <1>4, <1>7
<1>9. \A i \in 1..x : i \in 1..(x - 1) \/ i = x
  BY <1>4
<1>10. CASE f[x] <= f[a]
  BY <1>4, <1>7, <1>8, <1>9, <1>10
<1>11. CASE ~(f[x] <= f[a])
  <2>1. \A i \in 1..(x - 1) : f[i] <= f[x]
    <3> TAKE i \in 1..(x - 1)
    <3>1. i \in 1..n
      BY <1>4
    <3> QED BY <1>7, <1>8, <1>11, <3>1
  <2>2. \A i \in 1..x : f[i] <= f[x]
    BY <1>8, <1>9, <2>1
  <2> QED BY <1>4, <1>8, <2>2
<1> QED BY <1>10, <1>11

LEMMA MaxMin ==
    ASSUME NEW n \in Nat \ {0}, NEW f \in [1..n -> Nat]
    PROVE  /\ Max({f[i] : i \in 1..n}) \in Nat /\ Min({f[i] : i \in 1..n}) \in Nat
           /\ \A i \in 1..n : /\ f[i] <= Max({f[j] : j \in 1..n})
                              /\ Min({f[j] : j \in 1..n}) <= f[i]
           /\ \E i \in 1..n : f[i] = Max({f[j] : j \in 1..n})
           /\ \E i \in 1..n : f[i] = Min({f[j] : j \in 1..n})
<1> DEFINE S == {f[i] : i \in 1..n}
<1>1. S \in SUBSET Nat /\ S # {} /\ (\A i \in 1..n : f[i] \in S)
      /\ (\A y \in S : \E i \in 1..n : f[i] = y)
  OBVIOUS
<1>2. PICK a \in 1..n : \A i \in 1..n : f[i] <= f[a]
  BY GreatestOf
<1>3. f[a] \in S /\ \A y \in S : f[a] >= y
  BY <1>2
<1> HIDE DEF S
<1>4. PICK b \in S : \A y \in S : b <= y
  BY <1>1, LeastOf
<1>5. Max(S) \in S /\ \A y \in S : Max(S) >= y
  BY <1>3 DEF Max
<1>6. Min(S) \in S /\ \A y \in S : Min(S) <= y
  BY <1>4 DEF Min
<1>7. \A i \in 1..n : f[i] <= Max(S) /\ Min(S) <= f[i]
  BY <1>1, <1>5, <1>6
<1> QED BY <1>1, <1>5, <1>6, <1>7 DEF S

\* The values of a function on finitely many positions are finitely many.
LEMMA FiniteImage ==
    ASSUME NEW S, IsFiniteSet(S), NEW f
    PROVE  /\ IsFiniteSet({f[i] : i \in S}) /\ Cardinality({f[i] : i \in S}) \in Nat
           /\ Cardinality({f[i] : i \in S}) <= Cardinality(S)
<1> DEFINE T == {f[i] : i \in S}  g == [i \in S |-> f[i]]
<1>1. g \in Surjection(S, T)
  BY DEF Surjection
<1> HIDE DEF T, g
<1>2. IsFiniteSet(T) /\ Cardinality(T) <= Cardinality(S)
  BY <1>1, FS_Surjection
<1> QED BY <1>2, FS_CardinalityType DEF T

-----------------------------------------------------------------------------
(* A dictionary of groups grows by a flow *)

LEMMA MineGrows ==
    ASSUME NEW k \in Nat, NEW keys, NEW key
    PROVE  /\ Mine(keys, k, key) \in SUBSET (1..k)
           /\ keys[k + 1] = key => Mine(keys, k + 1, key) = Mine(keys, k, key) \cup {k + 1}
           /\ keys[k + 1] # key => Mine(keys, k + 1, key) = Mine(keys, k, key)
<1>1. 1..(k + 1) = (1..k) \cup {k + 1}
  OBVIOUS
<1> QED BY <1>1 DEF Mine

\* What Into does, when add makes new of the new group and old[i] of the ith.
Joined(groups, joined, key, new, old) ==
    joined = IF At(groups, key) = {} THEN Append(groups, new)
             ELSE [i \in DOMAIN groups |->
                     IF i \in At(groups, key) THEN old[i] ELSE groups[i]]

\* Each of the groups then is one of before, the new one or a changed one.
Traced(groups, joined, key, new, old, mine) ==
    \A b \in 1..Len(joined) :
        \/ joined[b].key # key /\ b \in 1..Len(groups) /\ joined[b] = groups[b]
        \/ joined[b].key = key /\ joined[b] = new /\ mine = {}
        \/ /\ joined[b].key = key /\ joined[b] = old[b]
           /\ b \in 1..Len(groups) /\ groups[b].key = key

SameKeys(groups, old) == \A i \in 1..Len(groups) : old[i].key = groups[i].key

LEMMA GroupsGrow ==
    ASSUME NEW T, NEW G \in Seq(T), NEW key, NEW new \in T, NEW old \in [1..Len(G) -> T],
           NEW H, Joined(G, H, key, new, old),
           new.key = key, SameKeys(G, old),
           NEW k \in Nat, NEW keys, keys[k + 1] = key, Keyed(G, keys, k)
    PROVE  /\ H \in Seq(T) /\ Keyed(H, keys, k + 1)
           /\ Traced(G, H, key, new, old, Mine(keys, k, key))
<1>1. /\ Len(G) \in Nat /\ DOMAIN G = 1..Len(G) /\ \A i \in 1..Len(G) : G[i] \in T
      /\ At(G, key) = {i \in 1..Len(G) : G[i].key = key}
  BY LenProperties, ElementOfSeq DEF At
<1>2. k + 1 \in 1..(k + 1) /\ \A i \in 1..k : i \in 1..(k + 1)
  OBVIOUS
<1>3. \A i \in 1..(k + 1) : i \in 1..k \/ i = k + 1
  OBVIOUS
<1>4. CASE At(G, key) = {}
  <2>1. /\ H \in Seq(T) /\ Len(H) = Len(G) + 1 /\ H[Len(G) + 1] = new
        /\ \A i \in 1..Len(G) : H[i] = G[i]
    BY <1>4, OneAppended DEF Joined
  <2>2. \A b \in 1..Len(H) : b \in 1..Len(G) \/ b = Len(G) + 1
    BY <1>1, <2>1
  <2>3. \A b \in 1..Len(G) : G[b].key # key
    BY <1>1, <1>4
  <2>4. Mine(keys, k, key) = {}
    BY <2>3 DEF Keyed, Mine
  <2>5. \A b \in 1..Len(G) : b \in 1..Len(H)
    BY <1>1, <2>1
  <2>6. Len(G) + 1 \in 1..Len(H)
    BY <1>1, <2>1
  <2>7. Keyed(H, keys, k + 1)
    <3>1. \A a, b \in 1..Len(H) : H[a].key = H[b].key => a = b
      BY <2>1, <2>2, <2>3 DEF Keyed
    <3>2. \A i \in 1..(k + 1) : \E a \in 1..Len(H) : H[a].key = keys[i]
      <4> TAKE i \in 1..(k + 1)
      <4>1. CASE i \in 1..k
        <5>1. PICK a \in 1..Len(G) : G[a].key = keys[i]
          BY <4>1 DEF Keyed
        <5> QED BY <2>1, <2>5, <5>1
      <4>2. CASE i = k + 1
        BY <2>1, <2>6, <4>2
      <4> QED BY <1>3, <4>1, <4>2
    <3>3. \A a \in 1..Len(H) : \E i \in 1..(k + 1) : H[a].key = keys[i]
      BY <1>2, <2>1, <2>2 DEF Keyed
    <3> QED BY <3>1, <3>2, <3>3 DEF Keyed
  <2>8. \A b \in 1..Len(H) :
           \/ H[b].key # key /\ b \in 1..Len(G) /\ H[b] = G[b]
           \/ H[b].key = key /\ H[b] = new /\ Mine(keys, k, key) = {}
    BY <2>1, <2>2, <2>3, <2>4
  <2> QED BY <2>1, <2>7, <2>8 DEF Traced
<1>5. CASE At(G, key) # {}
  <2>1. H = [i \in 1..Len(G) |-> IF i \in At(G, key) THEN old[i] ELSE G[i]]
    BY <1>1, <1>5 DEF Joined
  <2>2. H \in [1..Len(G) -> T]
    BY <1>1, <2>1
  <2>3. H \in Seq(T) /\ Len(H) = Len(G)
    <3>1. H \in Seq(T)
      BY <1>1, <2>2, SeqDef
    <3>2. DOMAIN H = 1..Len(G) /\ DOMAIN H = 1..Len(H) /\ Len(H) \in Nat
      BY <2>2, <3>1, LenProperties
    <3>3. ASSUME NEW m \in Nat, NEW n \in Nat, m < n PROVE 1..m # 1..n
      <4>1. n \in 1..n /\ n \notin 1..m
        BY <3>3
      <4> QED BY <4>1
    <3>4. ~(Len(G) < Len(H)) /\ ~(Len(H) < Len(G))
      BY <1>1, <3>2, <3>3
    <3>5. Len(H) = Len(G)
      <4> DEFINE m == Len(G) n == Len(H)
      <4>1. m \in Nat /\ n \in Nat /\ ~(m < n) /\ ~(n < m)
        BY <1>1, <3>2, <3>4
      <4> HIDE DEF m, n
      <4>2. m = n
        BY <4>1
      <4> QED BY <4>2 DEF m, n
    <3> QED BY <3>1, <3>5
  <2>4. \A b \in 1..Len(G) : H[b].key = G[b].key
    BY <1>1, <2>1 DEF SameKeys
  <2>5. PICK a \in 1..Len(G) : G[a].key = key
    BY <1>1, <1>5
  <2>6. Keyed(H, keys, k + 1)
    <3>1. \A b, c \in 1..Len(H) : H[b].key = H[c].key => b = c
      BY <2>3, <2>4 DEF Keyed
    <3>2. \A i \in 1..(k + 1) : \E b \in 1..Len(H) : H[b].key = keys[i]
      <4> TAKE i \in 1..(k + 1)
      <4>1. CASE i \in 1..k
        <5>1. PICK b \in 1..Len(G) : G[b].key = keys[i]
          BY <4>1 DEF Keyed
        <5> QED BY <2>3, <2>4, <5>1
      <4>2. CASE i = k + 1
        BY <2>3, <2>4, <2>5, <4>2
      <4> QED BY <1>3, <4>1, <4>2
    <3>3. \A b \in 1..Len(H) : \E i \in 1..(k + 1) : H[b].key = keys[i]
      BY <1>2, <2>3, <2>4 DEF Keyed
    <3> QED BY <3>1, <3>2, <3>3 DEF Keyed
  <2>7. \A b \in 1..Len(H) :
           \/ H[b].key # key /\ b \in 1..Len(G) /\ H[b] = G[b]
           \/ H[b].key = key /\ H[b] = old[b] /\ b \in 1..Len(G) /\ G[b].key = key
    BY <1>1, <2>1, <2>3, <2>4
  <2> QED BY <2>3, <2>6, <2>7 DEF Traced
<1> QED BY <1>4, <1>5

LEMMA ListGrows ==
    ASSUME NEW k \in Nat, NEW S \in SUBSET (1..k), NEW T, NEW s \in Seq(T), NEW x \in T,
           NEW v, v[k + 1] = x, Orders(s, v, S)
    PROVE  Orders(Append(s, x), v, S \cup {k + 1})
<1> DEFINE t == Append(s, x) U == S \cup {k + 1}
<1>1. /\ Cardinality(S) \in Nat /\ Cardinality(U) = Cardinality(S) + 1
      /\ Rank(k + 1, U) = Cardinality(S) + 1
      /\ \A i \in S : Rank(i, U) = Rank(i, S) /\ Rank(i, S) \in 1..Cardinality(S)
  BY OneMoreFlow, RanksKept
<1>2. /\ Len(t) = Len(s) + 1 /\ t[Len(s) + 1] = x
      /\ \A i \in 1..Len(s) : t[i] = s[i]
  BY OneAppended
<1>3. \A i \in U : i \in S \/ i = k + 1
  OBVIOUS
<1>4. \A i \in S : i \in U
  OBVIOUS
<1>5. k + 1 \in U
  OBVIOUS
<1> HIDE DEF t, U
<1>6. \A i \in U : t[Rank(i, U)] = v[i]
  BY <1>1, <1>2, <1>3 DEF Orders
<1>7. \A n \in 1..Len(t) : n \in 1..Len(s) \/ n = Len(s) + 1
  BY <1>1, <1>2
<1>8. \A n \in 1..Len(t) : \E i \in U : t[n] = v[i]
  BY <1>2, <1>4, <1>5, <1>7 DEF Orders
<1>9. Len(t) = Cardinality(U)
  BY <1>1, <1>2 DEF Orders
<1> QED BY <1>6, <1>8, <1>9 DEF Orders, t, U

-----------------------------------------------------------------------------
(* The totals of a group grow by an attempt *)

Rewritten(g, targets, attempts, served, stealth, quiet, starts) ==
    [g EXCEPT !.targets = targets, !.attempts = attempts, !.served = served,
              !.stealth = stealth, !.quiet = quiet, !.starts = starts]

LEMMA RewrittenFields ==
    ASSUME NEW keys, NEW dsts, NEW aims, NEW g \in Sweeps(keys, dsts, aims),
           NEW targets \in SUBSET aims, NEW attempts \in Nat, NEW served \in Nat,
           NEW stealth \in Nat, NEW quiet \in Nat, NEW starts \in Seq(Nat)
    PROVE  LET h == Rewritten(g, targets, attempts, served, stealth, quiet, starts) IN
           /\ h \in Sweeps(keys, dsts, aims)
           /\ h.key = g.key /\ h.src = g.src /\ h.dst = g.dst
           /\ h.targets = targets /\ h.attempts = attempts /\ h.served = served
           /\ h.stealth = stealth /\ h.quiet = quiet /\ h.starts = starts
  BY DEF Rewritten, Sweeps

\* h is g after the attempt f at target.
Grown(g, h, f, target) ==
    /\ h.key = g.key /\ h.src = g.src /\ h.dst = g.dst
    /\ h.targets = IF Cardinality(g.targets) < MaxTargets
                   THEN g.targets \cup {target} ELSE g.targets
    /\ h.attempts = g.attempts + 1
    /\ h.served = g.served + One(Served(f))
    /\ h.stealth = g.stealth + One(Stealthy(f))
    /\ h.quiet = g.quiet + One(Quiet(f))
    /\ h.starts = IF Len(g.starts) < MaxStarts
                  THEN Append(g.starts, f.start) ELSE g.starts

LEMMA AddedFields ==
    ASSUME NEW keys, NEW dsts, NEW aims, NEW g \in Sweeps(keys, dsts, aims),
           NEW f \in FlowRecord, NEW target \in aims
    PROVE  /\ AddToSweep(g, f, target) \in Sweeps(keys, dsts, aims)
           /\ Grown(g, AddToSweep(g, f, target), f, target)
<1> DEFINE targets == IF Cardinality(g.targets) < MaxTargets
                      THEN g.targets \cup {target} ELSE g.targets
           attempts == g.attempts + 1
           served == g.served + One(Served(f))
           stealth == g.stealth + One(Stealthy(f))
           quiet == g.quiet + One(Quiet(f))
           starts == IF Len(g.starts) < MaxStarts
                     THEN Append(g.starts, f.start) ELSE g.starts
<1>1. AddToSweep(g, f, target) = Rewritten(g, targets, attempts, served, stealth, quiet, starts)
  BY DEF AddToSweep, Rewritten
<1>2. /\ g.targets \in SUBSET aims /\ g.attempts \in Nat /\ g.served \in Nat
      /\ g.stealth \in Nat /\ g.quiet \in Nat /\ g.starts \in Seq(Nat) /\ f.start \in Nat
  BY DEF Sweeps, FlowRecord
<1>3. targets \in SUBSET aims
  BY <1>2
<1>4. attempts \in Nat /\ served \in Nat /\ stealth \in Nat /\ quiet \in Nat
  BY <1>2 DEF One
<1>5. starts \in Seq(Nat)
  BY <1>2, AppendProperties
<1> HIDE DEF targets, attempts, served, stealth, quiet, starts
<1>6. LET h == Rewritten(g, targets, attempts, served, stealth, quiet, starts) IN
      /\ h \in Sweeps(keys, dsts, aims)
      /\ h.key = g.key /\ h.src = g.src /\ h.dst = g.dst
      /\ h.targets = targets /\ h.attempts = attempts /\ h.served = served
      /\ h.stealth = stealth /\ h.quiet = quiet /\ h.starts = starts
  BY <1>3, <1>4, <1>5, RewrittenFields
<1> QED BY <1>1, <1>6 DEF Grown, targets, attempts, served, stealth, quiet, starts

\* How many of S pass a test, which in(i) tells, when k + 1 comes in.
LEMMA CountGrows ==
    ASSUME NEW k \in Nat, NEW S \in SUBSET (1..k), NEW in, in[k + 1] \in BOOLEAN
    PROVE  Cardinality({i \in S \cup {k + 1} : in[i]})
             = Cardinality({i \in S : in[i]}) + One(in[k + 1])
<1> DEFINE B == {i \in S : in[i]}
<1>1. B \in SUBSET (1..k)
  OBVIOUS
<1>2. CASE in[k + 1]
  <2>1. {i \in S \cup {k + 1} : in[i]} = B \cup {k + 1}
    BY <1>2
  <2> HIDE DEF B
  <2>2. Cardinality(B \cup {k + 1}) = Cardinality(B) + 1
    BY <1>1, OneMoreFlow
  <2> QED BY <1>2, <2>1, <2>2 DEF One, B
<1>3. CASE ~in[k + 1]
  <2>1. {i \in S \cup {k + 1} : in[i]} = B
    BY <1>3
  <2> HIDE DEF B
  <2>2. Cardinality(B) \in Nat
    BY <1>1, OneMoreFlow
  <2> QED BY <1>3, <2>1, <2>2 DEF One, B
<1> QED BY <1>2, <1>3

LEMMA SumsGrow ==
    ASSUME NEW k \in Nat, NEW S \in SUBSET (1..k), NEW fl,
           NEW g, NEW h, Sums(g, fl, S),
           h.attempts = g.attempts + 1,
           h.served = g.served + One(Served(fl[k + 1])),
           h.stealth = g.stealth + One(Stealthy(fl[k + 1])),
           h.quiet = g.quiet + One(Quiet(fl[k + 1]))
    PROVE  Sums(h, fl, S \cup {k + 1})
<1> DEFINE U == S \cup {k + 1}
           served == [i \in 1..(k + 1) |-> Served(fl[i])]
           stealthy == [i \in 1..(k + 1) |-> Stealthy(fl[i])]
           quiet == [i \in 1..(k + 1) |-> Quiet(fl[i])]
<1>1. k + 1 \in 1..(k + 1) /\ \A i \in U : i \in 1..(k + 1)
  OBVIOUS
<1>2. /\ served[k + 1] = Served(fl[k + 1]) /\ stealthy[k + 1] = Stealthy(fl[k + 1])
      /\ quiet[k + 1] = Quiet(fl[k + 1])
  BY <1>1
<1>3. /\ Served(fl[k + 1]) \in BOOLEAN /\ Stealthy(fl[k + 1]) \in BOOLEAN
      /\ Quiet(fl[k + 1]) \in BOOLEAN
  BY DEF Served, Stealthy, Quiet
<1>4. /\ ServedAt(fl, U) = {i \in U : served[i]} /\ ServedAt(fl, S) = {i \in S : served[i]}
  BY <1>1 DEF ServedAt
<1>5. /\ StealthyAt(fl, U) = {i \in U : stealthy[i]}
      /\ StealthyAt(fl, S) = {i \in S : stealthy[i]}
  BY <1>1 DEF StealthyAt
<1>6. /\ QuietAt(fl, U) = {i \in U : quiet[i]} /\ QuietAt(fl, S) = {i \in S : quiet[i]}
  BY <1>1 DEF QuietAt
<1> HIDE DEF served, stealthy, quiet
<1>7. Cardinality({i \in U : served[i]}) = Cardinality({i \in S : served[i]}) + One(served[k + 1])
  BY <1>2, <1>3, CountGrows
<1>8. Cardinality({i \in U : stealthy[i]})
        = Cardinality({i \in S : stealthy[i]}) + One(stealthy[k + 1])
  BY <1>2, <1>3, CountGrows
<1>9. Cardinality({i \in U : quiet[i]}) = Cardinality({i \in S : quiet[i]}) + One(quiet[k + 1])
  BY <1>2, <1>3, CountGrows
<1>10. Cardinality(U) = Cardinality(S) + 1
  BY OneMoreFlow
<1> QED BY <1>2, <1>4, <1>5, <1>6, <1>7, <1>8, <1>9, <1>10 DEF Sums

LEMMA AimedGrows ==
    ASSUME NEW k \in Nat, NEW S \in SUBSET (1..k), NEW aims, NEW g, NEW h,
           Aimed(g, aims, S),
           h.targets = IF Cardinality(g.targets) < MaxTargets
                       THEN g.targets \cup {aims[k + 1]} ELSE g.targets
    PROVE  Aimed(h, aims, S \cup {k + 1})
<1> DEFINE A == {aims[i] : i \in S} B == {aims[i] : i \in S \cup {k + 1}}
<1>1. B = A \cup {aims[k + 1]} /\ aims[k + 1] \in B
  OBVIOUS
<1>2. /\ IsFiniteSet(g.targets) /\ Cardinality(g.targets) \in Nat
      /\ Cardinality(g.targets) <= MaxTargets /\ g.targets \subseteq A
      /\ Cardinality(g.targets) < MaxTargets => g.targets = A
  BY FS_CardinalityType DEF Aimed
<1> HIDE DEF A, B
<1>3. CASE Cardinality(g.targets) < MaxTargets
  <2>1. h.targets = B
    BY <1>1, <1>2, <1>3
  <2>2. IsFiniteSet(B) /\ Cardinality(B) <= Cardinality(g.targets) + 1
    <3>1. B = g.targets \cup {aims[k + 1]}
      BY <1>1, <1>2, <1>3
    <3> DEFINE x == aims[k + 1] s == g.targets
    <3> HIDE DEF x, s
    <3>2. IsFiniteSet(s) /\ Cardinality(s) \in Nat
      BY <1>2 DEF s
    <3>3. /\ IsFiniteSet(s \cup {x})
          /\ Cardinality(s \cup {x}) = IF x \in s THEN Cardinality(s) ELSE Cardinality(s) + 1
      BY <3>2, FS_AddElement
    <3>4. Cardinality(s \cup {x}) <= Cardinality(s) + 1
      BY <3>2, <3>3
    <3> QED BY <3>1, <3>3, <3>4 DEF s, x
  <2>3. Cardinality(B) \in Nat
    BY <2>2, FS_CardinalityType
  <2>4. Cardinality(B) <= MaxTargets
    BY <1>2, <1>3, <2>2, <2>3, ScanCapsAssumption
  <2> QED BY <2>1, <2>2, <2>4 DEF Aimed, B
<1>4. CASE ~(Cardinality(g.targets) < MaxTargets)
  <2>1. h.targets = g.targets
    BY <1>4
  <2>2. h.targets \subseteq B
    BY <1>1, <1>2, <2>1
  <2> QED BY <1>2, <1>4, <2>1, <2>2 DEF Aimed, B
<1> QED BY <1>3, <1>4

LEMMA StartedGrows ==
    ASSUME NEW k \in Nat, NEW S \in SUBSET (1..k), NEW fl, NEW g, NEW h,
           g.starts \in Seq(Nat), fl[k + 1].start \in Nat, Started(g, fl, S),
           h.starts = IF Len(g.starts) < MaxStarts
                      THEN Append(g.starts, fl[k + 1].start) ELSE g.starts
    PROVE  Started(h, fl, S \cup {k + 1})
<1> DEFINE U == S \cup {k + 1}
<1>1. /\ Cardinality(S) \in Nat /\ Cardinality(U) = Cardinality(S) + 1
      /\ Rank(k + 1, U) = Cardinality(S) + 1
      /\ \A i \in S : Rank(i, U) = Rank(i, S) /\ Rank(i, S) \in 1..Cardinality(S)
  BY OneMoreFlow, RanksKept
<1>2. \A i \in U : i \in S \/ i = k + 1
  OBVIOUS
<1>3. MaxStarts \in Nat \ {0}
  BY ScanCapsAssumption
<1>4. /\ Len(g.starts) = IF Cardinality(S) < MaxStarts THEN Cardinality(S) ELSE MaxStarts
      /\ \A i \in S : Rank(i, S) <= MaxStarts => g.starts[Rank(i, S)] = fl[i].start
  BY DEF Started
<1> HIDE DEF U
<1>5. CASE Cardinality(S) < MaxStarts
  <2>1. Len(g.starts) = Cardinality(S) /\ h.starts = Append(g.starts, fl[k + 1].start)
    BY <1>4, <1>5
  <2>2. /\ Len(h.starts) = Cardinality(S) + 1 /\ h.starts[Cardinality(S) + 1] = fl[k + 1].start
        /\ \A n \in 1..Cardinality(S) : h.starts[n] = g.starts[n]
    <3> DEFINE t == g.starts x == fl[k + 1].start
    <3>1. t \in Seq(Nat) /\ x \in Nat
      OBVIOUS
    <3> HIDE DEF t, x
    <3>2. /\ Len(Append(t, x)) = Len(t) + 1 /\ Append(t, x)[Len(t) + 1] = x
          /\ \A n \in 1..Len(t) : Append(t, x)[n] = t[n]
      BY <3>1, OneAppended
    <3> QED BY <2>1, <3>2 DEF t, x
  <2>3. \A i \in S : Rank(i, S) <= MaxStarts => h.starts[Rank(i, S)] = fl[i].start
    BY <1>1, <1>4, <2>2
  <2>4. \A i \in U : Rank(i, U) <= MaxStarts => h.starts[Rank(i, U)] = fl[i].start
    BY <1>1, <1>2, <2>2, <2>3
  <2>5. Len(h.starts) = IF Cardinality(U) < MaxStarts THEN Cardinality(U) ELSE MaxStarts
    BY <1>1, <1>3, <1>5, <2>2
  <2> QED BY <2>4, <2>5 DEF Started, U
<1>6. CASE ~(Cardinality(S) < MaxStarts)
  <2>1. Len(g.starts) = MaxStarts /\ h.starts = g.starts
    BY <1>3, <1>4, <1>6
  <2>2. ~(Rank(k + 1, U) <= MaxStarts)
    BY <1>1, <1>3, <1>6
  <2>3. \A i \in U : Rank(i, U) <= MaxStarts => h.starts[Rank(i, U)] = fl[i].start
    BY <1>1, <1>2, <1>4, <2>1, <2>2
  <2>4. Len(h.starts) = IF Cardinality(U) < MaxStarts THEN Cardinality(U) ELSE MaxStarts
    BY <1>1, <1>3, <1>6, <2>1
  <2> QED BY <2>3, <2>4 DEF Started, U
<1> QED BY <1>5, <1>6

LEMMA NewSweepFields ==
    ASSUME NEW keys, NEW dsts, NEW aims, NEW key \in keys, key[2] \in Host, NEW dst \in dsts
    PROVE  LET g == NewSweep(key, dst) IN
           /\ g \in Sweeps(keys, dsts, aims) /\ g.key = key /\ g.src = key[2] /\ g.dst = dst
           /\ \A fl, v : Counted(g, fl, v, {})
<1> DEFINE g == NewSweep(key, dst)
<1>1. /\ g \in Sweeps(keys, dsts, aims) /\ g.key = key /\ g.src = key[2] /\ g.dst = dst
      /\ g.targets = {} /\ g.attempts = 0 /\ g.served = 0 /\ g.stealth = 0
      /\ g.quiet = 0 /\ g.starts = <<>>
  BY DEF NewSweep, Sweeps
<1> HIDE DEF g
<1>2. ASSUME NEW fl, NEW v PROVE Counted(g, fl, v, {})
  <2>1. ServedAt(fl, {}) = {} /\ StealthyAt(fl, {}) = {} /\ QuietAt(fl, {}) = {}
    BY DEF ServedAt, StealthyAt, QuietAt
  <2>2. IsFiniteSet({}) /\ Cardinality({}) = 0
    BY FS_EmptySet
  <2>3. Sums(g, fl, {})
    BY <1>1, <2>1, <2>2 DEF Sums
  <2>4. Aimed(g, v, {})
    <3>1. {v[i] : i \in {}} = {}
      OBVIOUS
    <3>2. 0 <= MaxTargets
      BY ScanCapsAssumption
    <3> QED BY <1>1, <2>2, <3>1, <3>2 DEF Aimed
  <2>5. Started(g, fl, {})
    <3>1. Len(g.starts) = 0 /\ 0 < MaxStarts
      BY <1>1, ScanCapsAssumption
    <3> QED BY <2>2, <3>1 DEF Started
  <2> QED BY <2>3, <2>4, <2>5 DEF Counted
<1> QED BY <1>1, <1>2 DEF g

SameGroup(g, h) == h.key = g.key /\ h.src = g.src /\ h.dst = g.dst

\* A group counts one flow more.
LEMMA CountedGrows ==
    ASSUME NEW keys, NEW dsts, NEW aims, NEW g \in Sweeps(keys, dsts, aims),
           NEW k \in Nat, NEW S \in SUBSET (1..k), NEW f \in FlowRecord,
           NEW target \in aims, NEW fl, fl[k + 1] = f, NEW v, v[k + 1] = target,
           Counted(g, fl, v, S), NEW h, h = AddToSweep(g, f, target)
    PROVE  /\ h \in Sweeps(keys, dsts, aims) /\ Counted(h, fl, v, S \cup {k + 1})
           /\ SameGroup(g, h)
<1>1. /\ h \in Sweeps(keys, dsts, aims)
      /\ h.key = g.key /\ h.src = g.src /\ h.dst = g.dst
      /\ h.targets = IF Cardinality(g.targets) < MaxTargets
                     THEN g.targets \cup {target} ELSE g.targets
      /\ h.attempts = g.attempts + 1
      /\ h.served = g.served + One(Served(f))
      /\ h.stealth = g.stealth + One(Stealthy(f))
      /\ h.quiet = g.quiet + One(Quiet(f))
      /\ h.starts = IF Len(g.starts) < MaxStarts
                    THEN Append(g.starts, f.start) ELSE g.starts
  <2>1. AddToSweep(g, f, target) \in Sweeps(keys, dsts, aims) /\ Grown(g, AddToSweep(g, f, target), f, target)
    BY AddedFields
  <2> QED BY <2>1 DEF Grown
<1>2. g.starts \in Seq(Nat) /\ f.start \in Nat
  BY DEF Sweeps, FlowRecord
<1>3. Sums(g, fl, S) /\ Aimed(g, v, S) /\ Started(g, fl, S)
  BY DEF Counted
<1>4. Sums(h, fl, S \cup {k + 1})
  BY <1>1, <1>3, SumsGrow
<1>5. Aimed(h, v, S \cup {k + 1})
  BY <1>1, <1>3, AimedGrows
<1>6. Started(h, fl, S \cup {k + 1})
  BY <1>1, <1>2, <1>3, StartedGrows
<1> QED BY <1>1, <1>4, <1>5, <1>6 DEF Counted, SameGroup

\* A destination is that of before, or dst in the group of key.
Aiming(groups, grown, key, dst) ==
    \A b \in 1..Len(grown) :
        \/ \E a \in 1..Len(groups) :
              grown[b].key = groups[a].key /\ grown[b].dst = groups[a].dst
        \/ grown[b].key = key /\ grown[b].dst = dst

LEMMA SweepGrows ==
    ASSUME NEW keys, NEW dsts, NEW aims, NEW G \in Seq(Sweeps(keys, dsts, aims)),
           NEW k \in Nat, NEW f \in FlowRecord, NEW target \in aims,
           NEW key \in keys, key[2] \in Host, NEW dst \in dsts,
           NEW fl, fl[k + 1] = f, NEW v, v[k + 1] = target, NEW w, w[k + 1] = key,
           SweepInv(G, fl, w, v, k),
           NEW H, Joined(G, H, key, AddToSweep(NewSweep(key, dst), f, target),
                         [i \in 1..Len(G) |-> AddToSweep(G[i], f, target)])
    PROVE  /\ H \in Seq(Sweeps(keys, dsts, aims)) /\ SweepInv(H, fl, w, v, k + 1)
           /\ Aiming(G, H, key, dst)
<1> DEFINE T == Sweeps(keys, dsts, aims)
           new == AddToSweep(NewSweep(key, dst), f, target)
           old == [i \in 1..Len(G) |-> AddToSweep(G[i], f, target)]
<1>1. Len(G) \in Nat /\ DOMAIN G = 1..Len(G) /\ \A i \in 1..Len(G) : G[i] \in T
  BY LenProperties, ElementOfSeq
<1>2. Joined(G, H, key, new, old)
  OBVIOUS
<1>3. /\ new \in T /\ Counted(new, fl, v, {k + 1})
      /\ new.key = key /\ new.src = key[2] /\ new.dst = dst
  <2> DEFINE n == NewSweep(key, dst)
  <2>1. n \in T /\ n.key = key /\ n.src = key[2] /\ n.dst = dst /\ Counted(n, fl, v, {})
    BY NewSweepFields
  <2> HIDE DEF n
  <2> DEFINE S == {}
  <2>2. S \in SUBSET (1..k) /\ Counted(n, fl, v, S) /\ S \cup {k + 1} = {k + 1}
    BY <2>1
  <2>3. new = AddToSweep(n, f, target)
    BY DEF n
  <2> HIDE DEF S, new
  <2>4. /\ new \in T /\ Counted(new, fl, v, S \cup {k + 1})
        /\ SameGroup(n, new)
    BY <2>1, <2>2, <2>3, CountedGrows
  <2> QED BY <2>1, <2>2, <2>4 DEF SameGroup
<1>4. ASSUME NEW i \in 1..Len(G)
      PROVE  /\ old[i] \in T
             /\ Counted(old[i], fl, v, Mine(w, k, G[i].key) \cup {k + 1})
             /\ old[i].key = G[i].key /\ old[i].src = G[i].src /\ old[i].dst = G[i].dst
  <2> DEFINE n == G[i] S == Mine(w, k, n.key)
  <2>1. n \in T /\ Counted(n, fl, v, S)
    BY <1>1 DEF SweepInv
  <2>2. S \in SUBSET (1..k)
    BY DEF Mine
  <2> DEFINE h == old[i]
  <2>3. h = AddToSweep(n, f, target)
    OBVIOUS
  <2> HIDE DEF n, S, h
  <2>4. /\ h \in T /\ Counted(h, fl, v, S \cup {k + 1})
        /\ SameGroup(n, h)
    BY <2>1, <2>2, <2>3, CountedGrows
  <2> QED BY <2>4 DEF SameGroup, n, S, h
<1>5. old \in [1..Len(G) -> T]
  <2>1. \A i \in 1..Len(G) : old[i] \in T
    BY <1>4
  <2> HIDE DEF T
  <2> QED BY <2>1
<1>6. Keyed(G, w, k)
  BY DEF SweepInv
<1> HIDE DEF T, new, old
<1>7. /\ H \in Seq(T) /\ Keyed(H, w, k + 1)
      /\ Traced(G, H, key, new, old, Mine(w, k, key))
  <2>1. G \in Seq(T) /\ new \in T /\ new.key = key /\ SameKeys(G, old)
    BY <1>3, <1>4 DEF T, SameKeys
  <2> QED BY <1>2, <1>5, <1>6, <2>1, GroupsGrow
<1>8. ASSUME NEW b \in 1..Len(H)
      PROVE  /\ Counted(H[b], fl, v, Mine(w, k + 1, H[b].key))
             /\ H[b].src = H[b].key[2]
             /\ \/ \E a \in 1..Len(G) : H[b].key = G[a].key /\ H[b].dst = G[a].dst
                \/ H[b].key = key /\ H[b].dst = dst
  <2>1. /\ w[k + 1] = key => Mine(w, k + 1, key) = Mine(w, k, key) \cup {k + 1}
        /\ w[k + 1] # H[b].key => Mine(w, k + 1, H[b].key) = Mine(w, k, H[b].key)
    BY MineGrows
  <2>3. CASE H[b].key # key /\ b \in 1..Len(G) /\ H[b] = G[b]
    BY <2>1, <2>3 DEF SweepInv
  <2>4. CASE H[b].key = key /\ H[b] = new /\ Mine(w, k, key) = {}
    <3>1. Mine(w, k + 1, key) = {k + 1}
      BY <2>1, <2>4
    <3> QED BY <1>3, <2>4, <3>1
  <2>5. CASE H[b].key = key /\ H[b] = old[b] /\ b \in 1..Len(G) /\ G[b].key = key
    <3>1. Counted(old[b], fl, v, Mine(w, k, key) \cup {k + 1})
      BY <1>4, <2>5
    <3>2. G[b].src = key[2] /\ old[b].src = G[b].src /\ old[b].dst = G[b].dst
      BY <1>4, <2>5 DEF SweepInv
    <3> QED BY <2>1, <2>5, <3>1, <3>2
  <2> QED BY <1>7, <2>3, <2>4, <2>5 DEF Traced
<1>9. SweepInv(H, fl, w, v, k + 1)
  BY <1>7, <1>8 DEF SweepInv
<1> QED BY <1>7, <1>8, <1>9 DEF Aiming, T

LEMMA TalkGrows ==
    ASSUME NEW G \in Seq(Talks), NEW k \in Nat, NEW f \in FlowRecord,
           NEW key \in Host \X Host \X Nat \X Protocols,
           NEW fl, fl[k + 1] = f, Talking(fl)[k + 1] = key, TalkInv(G, fl, k),
           NEW H, Joined(G, H, key, [key |-> key, flows |-> Append(<<>>, f)],
                         [i \in 1..Len(G) |-> [G[i] EXCEPT !.flows = Append(@, f)]])
    PROVE  H \in Seq(Talks) /\ TalkInv(H, fl, k + 1)
<1> DEFINE w == Talking(fl)
           new == [key |-> key, flows |-> Append(<<>>, f)]
           old == [i \in 1..Len(G) |-> [G[i] EXCEPT !.flows = Append(@, f)]]
<1> HIDE DEF w
<1>1. Len(G) \in Nat /\ DOMAIN G = 1..Len(G) /\ \A i \in 1..Len(G) : G[i] \in Talks
  BY LenProperties, ElementOfSeq
<1>2. Joined(G, H, key, new, old)
  OBVIOUS
<1>3. new \in Talks /\ new.key = key /\ Orders(new.flows, fl, {k + 1})
  <2> DEFINE s == <<>> S == {}
  <2>1. /\ s \in Seq(FlowRecord) /\ Len(s) = 0 /\ S \in SUBSET (1..k)
        /\ Cardinality(S) = 0 /\ S \cup {k + 1} = {k + 1}
    BY FS_EmptySet
  <2>2. Orders(s, fl, S)
    BY <2>1 DEF Orders
  <2> DEFINE t == Append(s, f)
  <2>3. new.key = key /\ new.flows = t
    OBVIOUS
  <2> HIDE DEF s, S
  <2>4. t \in Seq(FlowRecord) /\ Orders(t, fl, S \cup {k + 1})
    BY <2>1, <2>2, ListGrows, AppendProperties
  <2> HIDE DEF t
  <2>5. [key |-> key, flows |-> t] \in Talks
    BY <2>4 DEF Talks
  <2> QED BY <2>1, <2>3, <2>4, <2>5 DEF s, t
<1>4. ASSUME NEW i \in 1..Len(G)
      PROVE  /\ old[i] \in Talks /\ old[i].key = G[i].key
             /\ Orders(old[i].flows, fl, Mine(w, k, G[i].key) \cup {k + 1})
  <2> DEFINE s == G[i].flows S == Mine(w, k, G[i].key)
  <2>1. s \in Seq(FlowRecord) /\ G[i] \in Talks
    BY <1>1 DEF Talks
  <2>2. S \in SUBSET (1..k)
    BY DEF Mine
  <2>3. Orders(s, fl, S)
    BY DEF TalkInv, w
  <2>4. old[i] = [G[i] EXCEPT !.flows = Append(s, f)]
    OBVIOUS
  <2> DEFINE t == Append(s, f)
  <2> HIDE DEF S, s, old
  <2>5. t \in Seq(FlowRecord) /\ Orders(t, fl, S \cup {k + 1})
    BY <2>1, <2>2, <2>3, ListGrows, AppendProperties
  <2> HIDE DEF t
  <2>6. old[i] \in Talks /\ old[i].key = G[i].key /\ old[i].flows = t
    BY <2>1, <2>4, <2>5 DEF Talks, t
  <2> QED BY <2>5, <2>6 DEF S
<1>5. old \in [1..Len(G) -> Talks]
  BY <1>4
<1>6. Keyed(G, w, k) /\ w[k + 1] = key
  BY DEF TalkInv, w
<1> HIDE DEF new, old
<1>7. /\ H \in Seq(Talks) /\ Keyed(H, w, k + 1)
      /\ Traced(G, H, key, new, old, Mine(w, k, key))
  <2>1. new \in Talks /\ new.key = key /\ SameKeys(G, old)
    BY <1>3, <1>4 DEF SameKeys
  <2> QED BY <1>2, <1>5, <1>6, <2>1, GroupsGrow
<1>8. ASSUME NEW b \in 1..Len(H)
      PROVE  Orders(H[b].flows, fl, Mine(w, k + 1, H[b].key))
  <2>1. /\ Mine(w, k + 1, key) = Mine(w, k, key) \cup {k + 1}
        /\ w[k + 1] # H[b].key => Mine(w, k + 1, H[b].key) = Mine(w, k, H[b].key)
    BY <1>6, MineGrows
  <2>2. CASE H[b].key # key /\ b \in 1..Len(G) /\ H[b] = G[b]
    <3>1. Orders(G[b].flows, fl, Mine(w, k, G[b].key))
      BY <2>2 DEF TalkInv, w
    <3> QED BY <1>6, <2>1, <2>2, <3>1
  <2>3. CASE H[b].key = key /\ H[b] = new /\ Mine(w, k, key) = {}
    <3>1. Mine(w, k + 1, key) = {k + 1}
      BY <2>1, <2>3
    <3> QED BY <1>3, <2>3, <3>1
  <2>4. CASE H[b].key = key /\ H[b] = old[b] /\ b \in 1..Len(G) /\ G[b].key = key
    BY <1>4, <2>1, <2>4
  <2> QED BY <1>7, <2>2, <2>3, <2>4 DEF Traced
<1> QED BY <1>7, <1>8 DEF TalkInv, w

-----------------------------------------------------------------------------
(* What the flows of a capture are *)

LEMMA FlowFacts ==
    ASSUME NEW fl \in Seq(Flows), NEW i \in 1..Len(fl)
    PROVE  /\ Len(fl) \in Nat /\ fl[i] \in FlowRecord /\ fl[i] \in ToSet(fl)
           /\ fl[i].start <= fl[i].end /\ (fl[i].packets_in = 0 => fl[i].payload_in = 0)
           /\ fl[i].src \in Host /\ fl[i].dst \in Host /\ fl[i].dport \in Nat
           /\ fl[i].sport \in Nat /\ fl[i].proto \in Protocols
           /\ fl[i].start \in Nat /\ fl[i].end \in Nat
           /\ fl[i].payload_out \in Nat /\ fl[i].payload_in \in Nat /\ fl[i].packets_in \in Nat
           /\ Talking(fl)[i] = Conversation(fl[i]) /\ Downs(fl)[i] = Down(fl[i])
           /\ Acrosses(fl)[i] = Across(fl[i])
           /\ Ports(fl)[i] = fl[i].dport /\ Hosts(fl)[i] = fl[i].dst
<1>1. Len(fl) \in Nat /\ fl[i] \in Flows /\ DOMAIN fl = 1..Len(fl)
  BY LenProperties, ElementOfSeq
<1>2. fl[i] \in FlowRecord /\ fl[i] \in ToSet(fl)
  BY <1>1, FlowsAssumption DEF ToSet
<1>3. fl[i].start <= fl[i].end /\ (fl[i].packets_in = 0 => fl[i].payload_in = 0)
  BY <1>1, FlowsAssumption
<1>4. /\ fl[i].src \in Host /\ fl[i].dst \in Host /\ fl[i].dport \in Nat
      /\ fl[i].sport \in Nat /\ fl[i].proto \in Protocols
      /\ fl[i].start \in Nat /\ fl[i].end \in Nat
      /\ fl[i].payload_out \in Nat /\ fl[i].payload_in \in Nat /\ fl[i].packets_in \in Nat
  BY <1>2 DEF FlowRecord, Host
<1>5. /\ Talking(fl)[i] = Conversation(fl[i]) /\ Downs(fl)[i] = Down(fl[i])
      /\ Acrosses(fl)[i] = Across(fl[i])
      /\ Ports(fl)[i] = fl[i].dport /\ Hosts(fl)[i] = fl[i].dst
  BY DEF Talking, Downs, Acrosses, Ports, Hosts
<1> QED BY <1>1, <1>2, <1>3, <1>4, <1>5

LEMMA MineFacts ==
    ASSUME NEW fl \in Seq(Flows), NEW keys, NEW k \in 0..Len(fl), NEW key
    PROVE  /\ Mine(keys, k, key) \in SUBSET (1..Len(fl)) /\ IsFiniteSet(Mine(keys, k, key))
           /\ Cardinality(Mine(keys, k, key)) \in Nat
<1>1. Len(fl) \in Nat
  BY LenProperties
<1>2. IsFiniteSet(1..Len(fl)) /\ Mine(keys, k, key) \in SUBSET (1..Len(fl))
  BY <1>1, FS_Interval DEF Mine
<1>3. IsFiniteSet(Mine(keys, k, key))
  BY <1>2, FS_Subset
<1> QED BY <1>2, <1>3, FS_CardinalityType

-----------------------------------------------------------------------------
(* What the totals of a group say *)

LEMMA SumsFacts ==
    ASSUME NEW S, IsFiniteSet(S), NEW fl, NEW g, Sums(g, fl, S)
    PROVE  /\ g.attempts \in Nat /\ g.served \in Nat /\ g.quiet \in Nat
           /\ g.served <= g.attempts /\ g.quiet <= g.attempts
           /\ Cardinality({i \in S : ~Served(fl[i])}) = g.attempts - g.served
           /\ S # {} => g.attempts > 0
<1> DEFINE A == ServedAt(fl, S) B == {i \in S : ~Served(fl[i])} Q == QuietAt(fl, S)
<1>1. /\ A \in SUBSET S /\ Q \in SUBSET S /\ S \cap A = A /\ S \ A = B
  BY DEF ServedAt, QuietAt
<1>2. /\ g.attempts = Cardinality(S) /\ g.served = Cardinality(A) /\ g.quiet = Cardinality(Q)
  BY DEF Sums
<1> HIDE DEF A, B, Q
<1>3. /\ IsFiniteSet(A) /\ Cardinality(A) <= Cardinality(S)
      /\ IsFiniteSet(Q) /\ Cardinality(Q) <= Cardinality(S)
  BY <1>1, FS_Subset
<1>4. Cardinality(S) \in Nat /\ Cardinality(A) \in Nat /\ Cardinality(Q) \in Nat
  BY <1>3, FS_CardinalityType
<1>5. Cardinality(S \ A) = Cardinality(S) - Cardinality(S \cap A)
  BY FS_Difference
<1>6. S # {} => Cardinality(S) # 0
  BY FS_EmptySet
<1>7. Cardinality(B) = g.attempts - g.served
  BY <1>1, <1>2, <1>5
<1>8. S # {} => g.attempts > 0
  BY <1>2, <1>4, <1>6
<1>9. /\ g.attempts \in Nat /\ g.served \in Nat /\ g.quiet \in Nat
      /\ g.served <= g.attempts /\ g.quiet <= g.attempts
  BY <1>2, <1>3, <1>4
<1> QED BY <1>7, <1>8, <1>9 DEF B

\* A score within its bound is covered by the attempts that were not served.
LEMMA ShareOfAttempts ==
    ASSUME NEW a \in Nat, a > 0, NEW s \in 0..a, NEW q \in 0..a, NEW score \in 0..100,
           2 * a * a * score <= 100 * (a - s) * (a + q)
    PROVE  100 * (a - s) >= score * a
<1> DEFINE u == 100 * (a - s) v == score * a
<1>1. u \in Nat /\ v \in Nat
  BY SMT
<1>2. u * (a + q) <= u * (a + a)
  <2>1. a + q <= a + a /\ a + q \in Nat /\ a + a \in Nat
    OBVIOUS
  <2> HIDE DEF u
  <2> DEFINE x == a + q y == a + a
  <2> HIDE DEF x, y
  <2>2. x <= y /\ x \in Nat /\ y \in Nat
    BY <2>1 DEF x, y
  <2>3. u * x <= u * y
    BY <1>1, <2>2
  <2> QED BY <2>3 DEF x, y
<1>3. 2 * a * a * score = (a + a) * v
  OBVIOUS
<1>4. u * (a + a) = (a + a) * u
  OBVIOUS
<1>5. 2 * a * a * score <= u * (a + q)
  OBVIOUS
<1> HIDE DEF u, v
<1> DEFINE b == a + a x == u * (a + q) y == 2 * a * a * score
<1>6. b \in Nat /\ b > 0 /\ x \in Int /\ y \in Int
  BY <1>1
<1> HIDE DEF b, x, y
<1>7. b * v <= b * u
  <2>1. y = b * v /\ y <= x /\ x <= u * b /\ u * b = b * u
    BY <1>2, <1>3, <1>4, <1>5 DEF b, x, y
  <2>2. b * v \in Int /\ b * u \in Int
    BY <1>1, <1>6
  <2> QED BY <1>6, <2>1, <2>2
<1>8. v <= u
  <2>1. SUFFICES ASSUME u < v PROVE FALSE
    BY <1>1
  <2>2. u + 1 <= v
    BY <1>1, <2>1
  <2>3. b * (u + 1) <= b * v
    BY <1>1, <1>6, <2>2
  <2>4. b * (u + 1) = b * u + b
    BY <1>1, <1>6
  <2>5. b * v \in Int /\ b * u \in Int
    BY <1>1, <1>6
  <2> QED BY <1>6, <1>7, <2>3, <2>4, <2>5
<1> QED BY <1>1, <1>8 DEF u, v

LEMMA SweepCause ==
    ASSUME NEW fl \in Seq(Flows), NEW S \in SUBSET (1..Len(fl)), IsFiniteSet(S), NEW aims,
           NEW g, Counted(g, fl, aims, S), Cardinality(g.targets) >= MinFanout,
           NEW score \in 0..100, Bound(g, score) <= Share(g)
    PROVE  Sought(fl, S, aims, score)
<1>1. /\ g.attempts \in Nat /\ g.served \in Nat /\ g.quiet \in Nat
      /\ g.served <= g.attempts /\ g.quiet <= g.attempts
      /\ Cardinality({i \in S : ~Served(fl[i])}) = g.attempts - g.served
      /\ (S # {} => g.attempts > 0) /\ g.attempts = Cardinality(S)
  BY SumsFacts DEF Counted, Sums
<1> DEFINE A == {aims[i] : i \in S}
<1>2. IsFiniteSet(A) /\ Cardinality(A) \in Nat
  BY FiniteImage
<1>3. IsFiniteSet(g.targets) /\ g.targets \subseteq A
  BY DEF Counted, Aimed
<1> HIDE DEF A
<1>4. Cardinality(g.targets) \in Nat /\ Cardinality(g.targets) <= Cardinality(A)
  BY <1>2, <1>3, FS_Subset, FS_CardinalityType
<1>5. MinFanout \in Nat /\ MinFanout >= 1
  BY HuntAssumption
<1>6. S # {}
  <2>1. SUFFICES ASSUME S = {} PROVE FALSE
    OBVIOUS
  <2>2. A = {}
    BY <2>1 DEF A
  <2>3. g.targets = {} /\ Cardinality({}) = 0
    BY <1>3, <2>2, FS_EmptySet
  <2> QED BY <1>5, <2>3
<1>7. Cardinality(A) >= MinFanout
  BY <1>2, <1>4, <1>5
<1> DEFINE a == g.attempts s == g.served q == g.quiet
<1>8. 2 * a * a * score <= 100 * (a - s) * (a + q)
  BY DEF Bound, Share
<1>9. a \in Nat /\ a > 0 /\ s \in 0..a /\ q \in 0..a
  BY <1>1, <1>6
<1> HIDE DEF a, s, q
<1>10. 100 * (a - s) >= score * a
  BY <1>8, <1>9, ShareOfAttempts
<1> QED BY <1>1, <1>7, <1>10 DEF Sought, A, a, s

\* All attempts silent and aims enough: no score passes over the group.
LEMMA SilentIsDue ==
    ASSUME NEW fl \in Seq(Flows), NEW S \in SUBSET (1..Len(fl)), IsFiniteSet(S), NEW aims,
           NEW g, Counted(g, fl, aims, S), Cardinality({aims[i] : i \in S}) >= MinFanout,
           \A i \in S : fl[i].packets_in = 0 /\ fl[i].payload_out <= ProbePayload
    PROVE  Due(g)
<1> DEFINE A == {aims[i] : i \in S}
<1>1. IsFiniteSet(A) /\ Cardinality(A) \in Nat
  BY FiniteImage
<1>2. IsFiniteSet(g.targets) /\ (Cardinality(g.targets) < MaxTargets => g.targets = A)
  BY DEF Counted, Aimed
<1>3. MinFanout \in Nat /\ MinFanout >= 1 /\ MaxTargets \in Nat /\ MinFanout <= MaxTargets
      /\ ProbePayload \in Nat /\ SessionPayload \in Nat /\ ProbePayload <= SessionPayload
  BY HuntAssumption, ScanCapsAssumption
<1>4. Cardinality(g.targets) \in Nat
  BY <1>2, FS_CardinalityType
<1>5. S # {}
  <2>1. SUFFICES ASSUME S = {} PROVE FALSE
    OBVIOUS
  <2>2. A = {}
    BY <2>1
  <2>3. Cardinality(A) >= MinFanout
    OBVIOUS
  <2> HIDE DEF A
  <2>4. Cardinality(A) = 0
    BY <2>2, FS_EmptySet
  <2> QED BY <1>3, <2>3, <2>4
<1>6. ASSUME NEW i \in S PROVE ~Served(fl[i]) /\ Quiet(fl[i])
  <2>1. fl[i].payload_in = 0 /\ fl[i].payload_out \in Nat
    BY FlowFacts
  <2>2. ~(fl[i].packets_in >= 2) /\ ~(fl[i].payload_out > SessionPayload)
    BY <1>3, <2>1
  <2> QED BY <2>1, <2>2 DEF Served, Quiet
<1>7. ServedAt(fl, S) = {} /\ QuietAt(fl, S) = S
  BY <1>6 DEF ServedAt, QuietAt
<1>8. g.served = 0 /\ g.quiet = g.attempts /\ g.attempts > 0
  BY <1>5, <1>7, FS_EmptySet, SumsFacts DEF Counted, Sums
<1>9. Cardinality(g.targets) >= MinFanout
  <2> HIDE DEF A
  <2>1. Cardinality(A) >= MinFanout
    BY DEF A
  <2> QED BY <1>2, <1>3, <1>4, <2>1
<1> QED BY <1>8, <1>9 DEF Due

LEMMA DueIsScored ==
    ASSUME NEW g, g.attempts \in Nat, Due(g), NEW t \in 0..50
    PROVE  ~(Share(g) < 2 * Bound(g, t))
<1> DEFINE a == g.attempts b == a * a
<1>1. a \in Nat /\ b \in Nat
  OBVIOUS
<1>2. Share(g) = 200 * b
  BY DEF Share, Due
<1>3. 2 * Bound(g, t) = 4 * (b * t)
  BY DEF Bound
<1> HIDE DEF b
<1>4. b * t <= b * 50
  BY <1>1
<1>5. b * t \in Nat
  BY <1>1
<1> QED BY <1>1, <1>2, <1>3, <1>4, <1>5

-----------------------------------------------------------------------------
(* The steps *)

LEMMA TailFacts ==
    ASSUME NEW T, NEW s \in Seq(T), s # <<>>
    PROVE  /\ Tail(s) \in Seq(T) /\ Head(s) \in T /\ Among(Head(s), s)
           /\ \A n \in 1..Len(Tail(s)) : Among(Tail(s)[n], s)
           /\ \A x : Among(x, s) => x = Head(s) \/ Among(x, Tail(s))
<1>1. /\ Len(s) \in Nat /\ Len(s) > 0 /\ Head(s) = s[1] /\ Tail(s) \in Seq(T)
      /\ Len(Tail(s)) = Len(s) - 1 /\ \A i \in 1..Len(Tail(s)) : Tail(s)[i] = s[i + 1]
  BY EmptySeq, LenProperties, HeadTailProperties
<1>2. 1 \in 1..Len(s) /\ s[1] \in T
  BY <1>1, ElementOfSeq
<1>3. \A n \in 1..Len(Tail(s)) : n + 1 \in 1..Len(s)
  BY <1>1
<1>4. \A n \in 1..Len(s) : n = 1 \/ (n - 1 \in 1..Len(Tail(s)) /\ (n - 1) + 1 = n)
  BY <1>1
<1>5. \A n \in 1..Len(s) : s[n] = Head(s) \/ \E m \in 1..Len(Tail(s)) : s[n] = Tail(s)[m]
  BY <1>1, <1>4
<1> QED BY <1>1, <1>2, <1>3, <1>5 DEF Among

LEMMA BothFacts ==
    ASSUME NEW T, NEW U, NEW s \in Seq(T), NEW t \in Seq(U)
    PROVE  /\ s \o t \in Seq(T \cup U)
           /\ \A n \in 1..Len(s \o t) : Among((s \o t)[n], s) \/ Among((s \o t)[n], t)
           /\ \A n \in 1..Len(s) : Among(s[n], s \o t)
<1>1. s \in Seq(T \cup U) /\ t \in Seq(T \cup U)
  BY SeqMonotonic
<1>2. /\ s \o t \in Seq(T \cup U) /\ Len(s \o t) = Len(s) + Len(t)
      /\ \A i \in 1..(Len(s) + Len(t)) :
            (s \o t)[i] = IF i <= Len(s) THEN s[i] ELSE t[i - Len(s)]
      /\ Len(s) \in Nat /\ Len(t) \in Nat
  BY <1>1, ConcatProperties, LenProperties
<1> DEFINE c == s \o t
<1> HIDE DEF c
<1>3. \A n \in 1..Len(c) : (n \in 1..Len(s) /\ c[n] = s[n])
                             \/ (n - Len(s) \in 1..Len(t) /\ c[n] = t[n - Len(s)])
  BY <1>2 DEF c
<1>4. \A n \in 1..Len(s) : n \in 1..Len(c) /\ c[n] = s[n]
  BY <1>2 DEF c
<1> QED BY <1>2, <1>3, <1>4 DEF Among, c

LEMMA NoGroups ==
    ASSUME NEW T, NEW G \in Seq(T), NEW keys, Keyed(G, keys, 0)
    PROVE  G = <<>>
<1>1. Len(G) \in Nat /\ \A a \in 1..Len(G) : FALSE
  BY LenProperties DEF Keyed
<1>2. Len(G) = 0
  <2>1. Len(G) > 0 => 1 \in 1..Len(G)
    BY <1>1
  <2> QED BY <1>1, <2>1
<1> QED BY <1>2, EmptySeq

LEMMA NothingGrouped ==
    ASSUME NEW fl
    PROVE  TalkInv(<<>>, fl, 0) /\ ColumnInv(<<>>, fl, 0) /\ RowInv(<<>>, fl, 0)
<1>1. \A a \in 1..Len(<<>>) : FALSE
  OBVIOUS
<1>2. \A i \in 1..0 : FALSE
  OBVIOUS
<1>3. \A keys : Keyed(<<>>, keys, 0)
  BY <1>1, <1>2 DEF Keyed
<1> QED BY <1>1, <1>3 DEF TalkInv, ColumnInv, RowInv, SweepInv

\* Before its pass has begun there are no groups.
LEMMA GroupsOfPass ==
    ASSUME HInv
    PROVE  /\ Gone("beacons") = 0 => conversations = <<>>
           /\ Gone("scans") = 0 => vertical = <<>> /\ horizontal = <<>>
<1>1. /\ conversations \in Seq(Talks) /\ vertical \in Seq(Columns) /\ horizontal \in Seq(Rows)
      /\ Keyed(conversations, Talking(flows), Gone("beacons"))
      /\ Keyed(vertical, Downs(flows), Gone("scans"))
      /\ Keyed(horizontal, Acrosses(flows), Gone("scans"))
  BY DEF HInv, Shape, TalkInv, ColumnInv, RowInv, SweepInv
<1> QED BY <1>1, NoGroups

LEMMA HInit ==
    ASSUME Init PROVE HInv
<1>1. Gone("beacons") = 0 /\ Gone("scans") = 0
  BY DEF Init, Gone, Turn
<1>2. Shape
  BY DEF Init, Shape, Turn
<1>3. TalkInv(conversations, flows, 0) /\ ColumnInv(vertical, flows, 0)
      /\ RowInv(horizontal, flows, 0)
  BY NothingGrouped DEF Init
<1>4. LeftInv /\ Pending
  BY DEF Init, LeftInv, Pending
<1>5. WeighedInv(findings) /\ CauseInv(flows, findings)
  <2>1. \A k \in 1..Len(<<>>) : FALSE
    OBVIOUS
  <2> QED BY <2>1 DEF Init, WeighedInv, CauseInv
<1> QED BY <1>1, <1>2, <1>3, <1>4, <1>5 DEF HInv

LEMMA HComplete ==
    ASSUME HInv, NEW f \in Flows, Complete(f)
    PROVE  HInv'
<1>1. /\ pass = "capture" /\ pass' = "capture" /\ next' = next /\ next = 1
      /\ flows' = Append(flows, f) /\ findings = <<>> /\ findings' = findings
      /\ left' = left /\ threshold' = threshold
      /\ conversations' = conversations /\ vertical' = vertical /\ horizontal' = horizontal
  BY DEF HInv, Shape, Complete
<1>2. /\ Gone("beacons") = 0 /\ Gone("scans") = 0
      /\ Gone("beacons")' = 0 /\ Gone("scans")' = 0
  BY <1>1 DEF Gone, Turn
<1>3. conversations = <<>> /\ vertical = <<>> /\ horizontal = <<>>
  BY <1>2, GroupsOfPass
<1>4. Shape'
  <2>1. flows \in Seq(Flows) /\ Len(flows) \in Nat
    BY LenProperties DEF HInv, Shape
  <2>2. flows' \in Seq(Flows) /\ Len(flows') = Len(flows) + 1
    BY <1>1, <2>1, OneAppended
  <2>3. 1 \in 1..(Len(flows') + 1)
    BY <2>1, <2>2
  <2> QED BY <1>1, <2>2, <2>3 DEF HInv, Shape
<1>5. TalkInv(conversations, flows, Gone("beacons"))'
      /\ ColumnInv(vertical, flows, Gone("scans"))' /\ RowInv(horizontal, flows, Gone("scans"))'
  <2>1. TalkInv(<<>>, flows', 0) /\ ColumnInv(<<>>, flows', 0) /\ RowInv(<<>>, flows', 0)
    BY NothingGrouped
  <2>2. /\ conversations' = <<>> /\ vertical' = <<>> /\ horizontal' = <<>>
    BY <1>1, <1>3
  <2> QED BY <1>2, <2>1, <2>2
<1>6. LeftInv' /\ Pending'
  BY <1>1 DEF HInv, LeftInv, Pending
<1>7. WeighedInv(findings)' /\ CauseInv(flows, findings)'
  <2>1. \A k \in 1..Len(<<>>) : FALSE
    OBVIOUS
  <2> QED BY <1>1, <2>1 DEF WeighedInv, CauseInv
<1> QED BY <1>4, <1>5, <1>6, <1>7 DEF HInv

LEMMA HGroup ==
    ASSUME HInv, Group
    PROVE  HInv'
<1> DEFINE k == next - 1 key == Conversation(F)
<1>1. /\ pass = "beacons" /\ pass' = pass /\ next' = next + 1 /\ next <= Len(flows)
      /\ flows' = flows /\ findings' = findings /\ left' = conversations'
      /\ threshold' = threshold /\ vertical' = vertical /\ horizontal' = horizontal
      /\ next \in Nat /\ next > 0 /\ flows \in Seq(Flows) /\ Len(flows) \in Nat
  BY LenProperties DEF HInv, Shape, Group
<1>2. k \in Nat /\ k + 1 = next /\ next \in 1..Len(flows) /\ next + 1 \in 1..(Len(flows) + 1)
      /\ (next + 1) - 1 = next
  BY <1>1
<1>3. /\ Gone("beacons") = k /\ Gone("scans") = 0
      /\ Gone("beacons")' = next /\ Gone("scans")' = 0
  BY <1>1, <1>2 DEF Gone, Turn
<1>4. /\ F \in FlowRecord /\ key \in Host \X Host \X Nat \X Protocols
      /\ Talking(flows)[next] = key
  BY <1>1, <1>2, FlowFacts DEF F, Conversation
<1>5. Joined(conversations, conversations', key, [key |-> key, flows |-> Append(<<>>, F)],
             [i \in 1..Len(conversations) |-> [conversations[i] EXCEPT !.flows = Append(@, F)]])
  <2>1. DOMAIN conversations = 1..Len(conversations)
    BY LenProperties DEF HInv, Shape
  <2>2. [[key |-> key, flows |-> <<>>] EXCEPT !.flows = Append(@, F)]
          = [key |-> key, flows |-> Append(<<>>, F)]
    OBVIOUS
  <2>3. \A i \in At(conversations, key) : i \in 1..Len(conversations)
    BY <2>1 DEF At
  <2> QED BY <2>1, <2>2, <2>3 DEF Group, Into, Joined
<1>6. conversations \in Seq(Talks) /\ TalkInv(conversations, flows, k)
  BY <1>3 DEF HInv, Shape
<1>7. conversations' \in Seq(Talks) /\ TalkInv(conversations', flows, next)
  <2> DEFINE f == F H == conversations'
  <2>1. f = flows[k + 1]
    BY <1>2 DEF F
  <2> HIDE DEF k, key, f, H
  <2>2. f \in FlowRecord /\ key \in Host \X Host \X Nat \X Protocols
        /\ k \in Nat /\ flows[k + 1] = f /\ Talking(flows)[k + 1] = key
    BY <1>2, <1>4, <2>1 DEF f
  <2>3. Joined(conversations, H, key, [key |-> key, flows |-> Append(<<>>, f)],
               [i \in 1..Len(conversations) |-> [conversations[i] EXCEPT !.flows = Append(@, f)]])
    BY <1>5 DEF f, H
  <2>4. H \in Seq(Talks) /\ TalkInv(H, flows, k + 1)
    BY <1>6, <2>2, <2>3, TalkGrows
  <2> QED BY <1>2, <2>4 DEF H
<1>8. Shape'
  <2>1. left' \in Seq(Talks \cup Columns \cup Rows)
    BY <1>1, <1>7, SeqMonotonic
  <2> QED BY <1>1, <1>2, <1>7, <2>1 DEF HInv, Shape
<1>9. LeftInv' /\ Pending'
  <2>1. \A n \in 1..Len(left') : Among(left'[n], conversations')
    BY <1>1 DEF Among
  <2> QED BY <1>1, <2>1 DEF LeftInv, Pending
<1>10. TalkInv(conversations, flows, Gone("beacons"))'
  BY <1>1, <1>3, <1>7
<1>11. ColumnInv(vertical, flows, Gone("scans"))' /\ RowInv(horizontal, flows, Gone("scans"))'
  BY <1>1, <1>3 DEF HInv
<1>12. WeighedInv(findings)' /\ CauseInv(flows, findings)'
  BY <1>1 DEF HInv
<1> QED BY <1>8, <1>9, <1>10, <1>11, <1>12 DEF HInv

LEMMA HSweep ==
    ASSUME HInv, Sweep
    PROVE  HInv'
<1> DEFINE k == next - 1 f == F down == Down(F) across == Across(F) V == vertical' R == horizontal'
<1>1. /\ pass = "scans" /\ pass' = pass /\ next' = next + 1 /\ next <= Len(flows)
      /\ flows' = flows /\ findings' = findings /\ left' = V \o R
      /\ threshold' = threshold /\ conversations' = conversations
      /\ next \in Nat /\ next > 0 /\ flows \in Seq(Flows) /\ Len(flows) \in Nat
  BY LenProperties DEF HInv, Shape, Sweep
<1>2. k \in Nat /\ k + 1 = next /\ next \in 1..Len(flows) /\ next + 1 \in 1..(Len(flows) + 1)
      /\ (next + 1) - 1 = next
  BY <1>1
<1>3. /\ Gone("beacons") = Len(flows) /\ Gone("scans") = k
      /\ Gone("beacons")' = Len(flows) /\ Gone("scans")' = next
  BY <1>1, <1>2 DEF Gone, Turn
<1>4. /\ f \in FlowRecord /\ f.src \in Host /\ f.dst \in Host /\ f.dport \in Nat
      /\ down \in Protocols \X Host \X Host /\ across \in Protocols \X Host \X Nat
      /\ down[2] = f.src /\ down[3] = f.dst /\ across[2] = f.src
      /\ Downs(flows)[next] = down /\ Acrosses(flows)[next] = across
      /\ Ports(flows)[next] = f.dport /\ Hosts(flows)[next] = f.dst
  BY <1>1, <1>2, FlowFacts DEF F, Down, Across
<1>5. Joined(vertical, V, down, AddToSweep(NewSweep(down, f.dst), f, f.dport),
             [i \in 1..Len(vertical) |-> AddToSweep(vertical[i], f, f.dport)])
  <2>1. DOMAIN vertical = 1..Len(vertical)
    BY LenProperties DEF HInv, Shape
  <2>2. \A i \in At(vertical, down) : i \in 1..Len(vertical)
    BY <2>1 DEF At
  <2> QED BY <2>1, <2>2 DEF Sweep, Into, Joined
<1>6. Joined(horizontal, R, across, AddToSweep(NewSweep(across, NoHost), f, f.dst),
             [i \in 1..Len(horizontal) |-> AddToSweep(horizontal[i], f, f.dst)])
  <2>1. DOMAIN horizontal = 1..Len(horizontal)
    BY LenProperties DEF HInv, Shape
  <2>2. \A i \in At(horizontal, across) : i \in 1..Len(horizontal)
    BY <2>1 DEF At
  <2> QED BY <2>1, <2>2 DEF Sweep, Into, Joined
<1>7. /\ vertical \in Seq(Columns) /\ ColumnInv(vertical, flows, k)
      /\ horizontal \in Seq(Rows) /\ RowInv(horizontal, flows, k)
  BY <1>3 DEF HInv, Shape
<1>8. f = flows[k + 1] /\ k \in Nat
  BY <1>2 DEF F
<1> HIDE DEF k, f, down, across, V, R
<1>9. V \in Seq(Columns) /\ ColumnInv(V, flows, next)
  <2> DEFINE w == Downs(flows) v == Ports(flows) t == f.dport dst == f.dst
             keys == Protocols \X Host \X Host dsts == Host aims == Nat
  <2>1. /\ f \in FlowRecord /\ t \in aims /\ down \in keys /\ down[2] \in Host /\ dst \in dsts
        /\ flows[k + 1] = f /\ v[k + 1] = t /\ w[k + 1] = down /\ k \in Nat
    BY <1>2, <1>4, <1>8
  <2>2. vertical \in Seq(Sweeps(keys, dsts, aims)) /\ SweepInv(vertical, flows, w, v, k)
    BY <1>7 DEF Columns, ColumnInv
  <2> HIDE DEF w, v, t, dst, keys, dsts, aims
  <2>3. Joined(vertical, V, down, AddToSweep(NewSweep(down, dst), f, t),
               [i \in 1..Len(vertical) |-> AddToSweep(vertical[i], f, t)])
    BY <1>5 DEF t, dst
  <2>4. /\ V \in Seq(Sweeps(keys, dsts, aims)) /\ SweepInv(V, flows, w, v, k + 1)
        /\ Aiming(vertical, V, down, dst)
    BY <2>1, <2>2, <2>3, SweepGrows
  <2>5. \A b \in 1..Len(V) : V[b].dst = V[b].key[3]
    <3>1. \A a \in 1..Len(vertical) : vertical[a].dst = vertical[a].key[3]
      BY <1>7 DEF ColumnInv
    <3>2. down[3] = dst
      BY <1>4 DEF dst
    <3> QED BY <2>4, <3>1, <3>2 DEF Aiming
  <2> QED BY <1>2, <2>4, <2>5 DEF Columns, ColumnInv, w, v, keys, dsts, aims
<1>10. R \in Seq(Rows) /\ RowInv(R, flows, next)
  <2> DEFINE w == Acrosses(flows) v == Hosts(flows) t == f.dst dst == NoHost
             keys == Protocols \X Host \X Nat dsts == {NoHost} aims == Host
  <2>1. /\ f \in FlowRecord /\ t \in aims /\ across \in keys /\ across[2] \in Host
        /\ dst \in dsts
        /\ flows[k + 1] = f /\ v[k + 1] = t /\ w[k + 1] = across /\ k \in Nat
    BY <1>2, <1>4, <1>8
  <2>2. horizontal \in Seq(Sweeps(keys, dsts, aims)) /\ SweepInv(horizontal, flows, w, v, k)
    BY <1>7 DEF Rows, RowInv
  <2> HIDE DEF w, v, t, dst, keys, dsts, aims
  <2>3. Joined(horizontal, R, across, AddToSweep(NewSweep(across, dst), f, t),
               [i \in 1..Len(horizontal) |-> AddToSweep(horizontal[i], f, t)])
    BY <1>6 DEF t, dst
  <2>4. R \in Seq(Sweeps(keys, dsts, aims)) /\ SweepInv(R, flows, w, v, k + 1)
        /\ Aiming(horizontal, R, across, dst)
    BY <2>1, <2>2, <2>3, SweepGrows
  <2> QED BY <1>2, <2>4 DEF Rows, RowInv, w, v, keys, dsts, aims
<1>11. /\ V \o R \in Seq(Columns \cup Rows)
       /\ \A n \in 1..Len(V \o R) : Among((V \o R)[n], V) \/ Among((V \o R)[n], R)
       /\ \A a \in 1..Len(V) : Among(V[a], V \o R)
  BY <1>9, <1>10, BothFacts
<1>12. Shape'
  <2>1. left' \in Seq(Talks \cup Columns \cup Rows)
    <3>1. Columns \cup Rows \subseteq Talks \cup Columns \cup Rows
      OBVIOUS
    <3> QED BY <1>1, <1>11, <3>1, SeqMonotonic
  <2> QED BY <1>1, <1>2, <1>9, <1>10, <2>1 DEF HInv, Shape, V, R
<1>13. LeftInv' /\ Pending'
  BY <1>1, <1>11 DEF LeftInv, Pending, V, R
<1>14. TalkInv(conversations, flows, Gone("beacons"))'
  BY <1>1, <1>3 DEF HInv
<1>15. ColumnInv(vertical, flows, Gone("scans"))' /\ RowInv(horizontal, flows, Gone("scans"))'
  BY <1>1, <1>3, <1>9, <1>10 DEF V, R
<1>16. WeighedInv(findings)' /\ CauseInv(flows, findings)'
  BY <1>1 DEF HInv
<1> QED BY <1>12, <1>13, <1>14, <1>15, <1>16 DEF HInv

LEMMA HEnded ==
    ASSUME HInv, Ended
    PROVE  HInv'
<1>1. /\ pass \in {"capture", "beacons", "scans"} /\ pass' = After[pass] /\ next' = 1
      /\ (pass # "capture" => next > Len(flows) /\ left = <<>>)
      /\ flows' = flows /\ findings' = findings /\ left' = left /\ threshold' = threshold
      /\ conversations' = conversations /\ vertical' = vertical /\ horizontal' = horizontal
      /\ next \in 1..(Len(flows) + 1) /\ Len(flows) \in Nat /\ left = <<>>
  BY LenProperties DEF HInv, Shape, Ended, After, LeftInv
<1>2. /\ pass = "capture" => pass' = "beacons"
      /\ pass = "beacons" => pass' = "scans"
      /\ pass = "scans" => pass' = "done"
  BY <1>1 DEF After
<1>3. pass # "capture" => next - 1 = Len(flows)
  BY <1>1
<1>4. Gone("beacons")' = Gone("beacons") /\ Gone("scans")' = Gone("scans")
  <2>1. CASE pass = "capture"
    BY <1>1, <1>2, <2>1 DEF Gone, Turn
  <2>2. CASE pass = "beacons"
    BY <1>1, <1>2, <1>3, <2>2 DEF Gone, Turn
  <2>3. CASE pass = "scans"
    BY <1>1, <1>2, <1>3, <2>3 DEF Gone, Turn
  <2> QED BY <1>1, <2>1, <2>2, <2>3
<1>5. Shape'
  <2>1. 1 \in 1..(Len(flows) + 1) /\ pass' \in DOMAIN Turn /\ pass' # "capture"
    BY <1>1, <1>2 DEF Turn
  <2> QED BY <1>1, <2>1 DEF HInv, Shape
<1>6. LeftInv'
  <2>1. \A n \in 1..Len(<<>>) : FALSE
    OBVIOUS
  <2> QED BY <1>1, <2>1 DEF LeftInv
<1>7. Pending'
  <2>1. CASE pass = "capture"
    BY <1>2, <2>1 DEF Pending
  <2>2. CASE pass = "beacons"
    <3>1. Gone("scans") = 0
      BY <2>2 DEF Gone, Turn
    <3>2. vertical = <<>>
      BY <3>1, GroupsOfPass
    <3>3. \A a \in 1..Len(<<>>) : FALSE
      OBVIOUS
    <3> QED BY <1>1, <3>2, <3>3 DEF Pending
  <2>3. CASE pass = "scans"
    BY <1>1, <1>2, <2>3 DEF HInv, Pending
  <2> QED BY <1>1, <2>1, <2>2, <2>3
<1>8. /\ TalkInv(conversations, flows, Gone("beacons"))'
      /\ ColumnInv(vertical, flows, Gone("scans"))' /\ RowInv(horizontal, flows, Gone("scans"))'
      /\ WeighedInv(findings)' /\ CauseInv(flows, findings)'
  BY <1>1, <1>4 DEF HInv
<1> QED BY <1>5, <1>6, <1>7, <1>8 DEF HInv

\* A finding comes last of the findings.
LEMMA OneMoreFinding ==
    ASSUME NEW found \in Seq(Accusations), NEW fl, NEW s \in Accusations,
           WeighedInv(found), s.severity = Severity(s.score, s.scope),
           CauseInv(fl, found),
           s.kind = "scan" => ScanCause(fl, s), s.kind = "beacon" => BeaconCause(fl, s)
    PROVE  /\ Append(found, s) \in Seq(Accusations)
           /\ WeighedInv(Append(found, s)) /\ CauseInv(fl, Append(found, s))
           /\ \A g : Accused(found, g) => Accused(Append(found, s), g)
           /\ \A g : s.kind = "scan" /\ s.src = g.src /\ s.dst = g.dst
                       => Accused(Append(found, s), g)
<1> DEFINE e == Append(found, s)
<1>1. /\ e \in Seq(Accusations) /\ Len(found) \in Nat /\ Len(e) = Len(found) + 1
      /\ e[Len(found) + 1] = s /\ \A k \in 1..Len(found) : e[k] = found[k]
  BY OneAppended
<1>2. \A k \in 1..Len(e) : k \in 1..Len(found) \/ k = Len(found) + 1
  BY <1>1
<1>3. Len(found) + 1 \in 1..Len(e) /\ \A k \in 1..Len(found) : k \in 1..Len(e)
  BY <1>1
<1> HIDE DEF e
<1>4. WeighedInv(e)
  BY <1>1, <1>2 DEF WeighedInv
<1>5. CauseInv(fl, e)
  BY <1>1, <1>2 DEF CauseInv
<1>6. \A g : Accused(found, g) => Accused(e, g)
  BY <1>1, <1>3 DEF Accused
<1>7. \A g : s.kind = "scan" /\ s.src = g.src /\ s.dst = g.dst => Accused(e, g)
  BY <1>1, <1>3 DEF Accused
<1> QED BY <1>1, <1>4, <1>5, <1>6, <1>7 DEF e

Accuses(s, kind, src, dst, score) ==
    /\ s \in Accusations /\ s.kind = kind /\ s.src = src /\ s.dst = dst
    /\ s.score = score /\ s.severity = Severity(s.score, s.scope)

LEMMA FindingFields ==
    ASSUME NEW kind \in {"beacon", "scan"}, NEW src \in Host, NEW dst \in Host \cup {NoHost},
           NEW scope \in Scopes, NEW score \in 0..100
    PROVE  Accuses(Finding(kind, src, dst, scope, score), kind, src, dst, score)
<1>1. Severity(score, scope) \in 1..4
  BY DEF Severity
<1> DEFINE v == Severity(score, scope)
<1> HIDE DEF v
<1>2. v \in 1..4
  BY <1>1 DEF v
<1> QED BY <1>2 DEF Accuses, Finding, Accusations, v

LEMMA ScopeType ==
    ASSUME NEW a \in Host, NEW nets
    PROVE  Scope(a, nets) \in Scopes
  BY DEF Scope, Scopes, Host

LEMMA TalkCause ==
    ASSUME NEW fl \in Seq(Flows), NEW groups \in Seq(Talks), TalkInv(groups, fl, Len(fl)),
           NEW g, Among(g, groups), Scorable(g), Reported(g),
           NEW b, b.src = g.key[1], b.dst = g.key[2], b.scope = Scope(b.dst, LocalNets)
    PROVE  BeaconCause(fl, b)
<1> DEFINE key == g.key S == Mine(Talking(fl), Len(fl), key)
           st == [i \in 1..Len(fl) |-> fl[i].start]
<1>1. PICK a \in 1..Len(groups) : g = groups[a]
  BY DEF Among
<1>2. g \in Talks /\ g.flows \in Seq(FlowRecord) /\ key \in Host \X Host \X Nat \X Protocols
  <2>1. g \in Talks
    BY <1>1, ElementOfSeq
  <2> QED BY <2>1 DEF Talks
<1>3. PICK i \in 1..Len(fl) : key = Talking(fl)[i]
  BY <1>1 DEF TalkInv, Keyed
<1>4. /\ key = <<fl[i].src, fl[i].dst, fl[i].dport, fl[i].proto>>
      /\ fl[i].proto \in Protocols /\ fl[i] \in ToSet(fl)
  BY <1>3, FlowFacts DEF Conversation
<1>5. Orders(g.flows, fl, S)
  BY <1>1 DEF TalkInv
<1>6. S \in SUBSET (1..Len(fl)) /\ IsFiniteSet(S)
  <2>1. Len(fl) \in 0..Len(fl)
    BY LenProperties
  <2> QED BY <2>1, MineFacts
<1>7. Starts(g) \subseteq {st[j] : j \in S}
  <2>1. DOMAIN g.flows = 1..Len(g.flows)
    BY <1>2, LenProperties
  <2>2. \A n \in 1..Len(g.flows) : \E j \in S : g.flows[n] = fl[j]
    BY <1>5 DEF Orders
  <2>3. \A n \in 1..Len(g.flows) : \E j \in S : g.flows[n].start = st[j]
    BY <1>6, <2>2
  <2> HIDE DEF S, st
  <2>4. ToSet(g.flows) = {g.flows[n] : n \in 1..Len(g.flows)}
    BY <2>1 DEF ToSet
  <2> QED BY <2>3, <2>4 DEF Starts
<1>8. {st[j] : j \in S} = {fl[j].start : j \in S}
  BY <1>6
<1> HIDE DEF S, st
<1>9. IsFiniteSet({st[j] : j \in S}) /\ Cardinality({st[j] : j \in S}) \in Nat
  BY <1>6, FiniteImage
<1>10. Cardinality(Starts(g)) <= Cardinality({st[j] : j \in S}) /\ Cardinality(Starts(g)) \in Nat
  BY <1>7, <1>9, FS_Subset, FS_CardinalityType
<1>11. Cardinality(Starts(g)) >= MinConnections /\ MinConnections \in Nat
  BY HuntAssumption DEF Scorable
<1>12. Cardinality({fl[j].start : j \in S}) >= MinConnections
  <2> DEFINE A == {st[j] : j \in S}
  <2> HIDE DEF A
  <2>1. Cardinality(A) >= MinConnections
    <3>1. Cardinality(A) \in Nat /\ Cardinality(Starts(g)) <= Cardinality(A)
      BY <1>9, <1>10 DEF A
    <3> QED BY <1>10, <1>11, <3>1
  <2>2. {fl[j].start : j \in S} = A
    BY <1>8 DEF A
  <2> QED BY <2>1, <2>2
<1>13. key = <<b.src, b.dst, fl[i].dport, fl[i].proto>>
  BY <1>4
<1>14. LocalNets # {} => b.src \in LocalNets
  BY DEF Reported
<1>15. LocalNets # {} /\ Kind[b.dst] \in {"internal", "public"} =>
          b.scope = IF b.dst \in LocalNets THEN "private" ELSE "external"
  BY DEF Scope
<1> HIDE DEF key
<1>16. Cardinality({fl[j].start :
            j \in Mine(Talking(fl), Len(fl), <<b.src, b.dst, fl[i].dport, fl[i].proto>>)})
          >= MinConnections
  BY <1>12, <1>13 DEF S
<1> QED BY <1>4, <1>14, <1>15, <1>16 DEF BeaconCause

LEMMA HScoreBeacon ==
    ASSUME HInv, ScoreBeacon
    PROVE  HInv'
<1> DEFINE g == Head(left)
<1>1. /\ pass = "beacons" /\ pass' = pass /\ next' = next /\ next > Len(flows)
      /\ flows' = flows /\ left # <<>> /\ left' = Tail(left)
      /\ threshold' = threshold /\ conversations' = conversations
      /\ vertical' = vertical /\ horizontal' = horizontal
      /\ \/ findings' = findings
         \/ /\ Scorable(g) /\ Reported(g)
            /\ \E score \in Grades : findings' = Append(findings, Beacon(g, score))
  BY DEF ScoreBeacon
<1>2. /\ flows \in Seq(Flows) /\ findings \in Seq(Accusations) /\ conversations \in Seq(Talks)
      /\ left \in Seq(Talks \cup Columns \cup Rows) /\ next \in 1..(Len(flows) + 1)
      /\ Len(flows) \in Nat
  BY LenProperties DEF HInv, Shape
<1>3. Gone("beacons")' = Gone("beacons") /\ Gone("scans")' = Gone("scans")
  BY <1>1 DEF Gone
<1>4. Gone("beacons") = Len(flows)
  BY <1>1, <1>2 DEF Gone, Turn
<1>5. /\ left' \in Seq(Talks \cup Columns \cup Rows)
      /\ Among(g, left) /\ \A n \in 1..Len(left') : Among(left'[n], left)
  BY <1>1, <1>2, TailFacts
<1>6. \A x : Among(x, left) => Among(x, conversations)
  BY <1>1 DEF HInv, LeftInv, Among
<1>7. WeighedInv(findings) /\ CauseInv(flows, findings)
  BY DEF HInv
<1>8. /\ findings' \in Seq(Accusations) /\ WeighedInv(findings') /\ CauseInv(flows, findings')
  <2>1. CASE findings' = findings
    BY <1>2, <1>7, <2>1
  <2>2. ASSUME Scorable(g), Reported(g),
               NEW score \in Grades, findings' = Append(findings, Beacon(g, score))
        PROVE  /\ findings' \in Seq(Accusations)
               /\ WeighedInv(findings') /\ CauseInv(flows, findings')
    <3> DEFINE src == g.key[1] dst == g.key[2] scope == Scope(dst, LocalNets)
               s == Beacon(g, score) kind == "beacon"
    <3>1. Among(g, conversations)
      BY <1>5, <1>6
    <3>2. g \in Talks
      BY <1>2, <3>1, ElementOfSeq DEF Among
    <3>3. src \in Host /\ dst \in Host /\ dst \in Host \cup {NoHost}
      BY <3>2 DEF Talks
    <3>4. scope \in Scopes /\ score \in 0..100 /\ kind \in {"beacon", "scan"}
      BY <3>3, ScopeType, HuntAssumption
    <3>5. s = Finding(kind, src, dst, scope, score)
      BY DEF Beacon
    <3>6. src = g.key[1] /\ dst = g.key[2] /\ scope = Scope(dst, LocalNets)
      OBVIOUS
    <3>7. TalkInv(conversations, flows, Len(flows))
      BY <1>4 DEF HInv
    <3> HIDE DEF src, dst, scope, s, g, kind
    <3>8. /\ s \in Accusations /\ s.kind = kind /\ s.src = src /\ s.dst = dst
          /\ s.score = score /\ s.severity = Severity(s.score, s.scope)
      <4>1. Accuses(Finding(kind, src, dst, scope, score), kind, src, dst, score)
        BY <3>3, <3>4, FindingFields
      <4> QED BY <3>5, <4>1 DEF Accuses
    <3>9. BeaconCause(flows, s)
      <4>1. s.scope = Scope(s.dst, LocalNets)
        BY <3>5, <3>6, <3>8 DEF Finding
      <4> QED BY <1>2, <2>2, <3>1, <3>6, <3>7, <3>8, <4>1, TalkCause
    <3>10. s.kind # "scan"
      BY <3>8 DEF kind
    <3>11. /\ Append(findings, s) \in Seq(Accusations)
           /\ WeighedInv(Append(findings, s)) /\ CauseInv(flows, Append(findings, s))
      BY <1>2, <1>7, <3>8, <3>9, <3>10, OneMoreFinding
    <3> QED BY <2>2, <3>11 DEF s
  <2> QED BY <1>1, <2>1, <2>2
<1>9. Shape'
  BY <1>1, <1>5, <1>8 DEF HInv, Shape
<1>10. LeftInv' /\ Pending'
  BY <1>1, <1>5, <1>6 DEF LeftInv, Pending
<1>11. /\ TalkInv(conversations, flows, Gone("beacons"))'
       /\ ColumnInv(vertical, flows, Gone("scans"))' /\ RowInv(horizontal, flows, Gone("scans"))'
  BY <1>1, <1>3 DEF HInv
<1> QED BY <1>1, <1>8, <1>9, <1>10, <1>11 DEF HInv

\* Every group of a sweep axis that is scored has its cause.
LEMMA ColumnCause ==
    ASSUME NEW fl \in Seq(Flows), NEW groups \in Seq(Columns), ColumnInv(groups, fl, Len(fl)),
           NEW g, Among(g, groups), Cardinality(g.targets) >= MinFanout,
           NEW score \in 0..100, Bound(g, score) <= Share(g),
           NEW s, s.src = g.src, s.dst = g.dst, s.score = score
    PROVE  ScanCause(fl, s)
<1> DEFINE key == g.key S == Mine(Downs(fl), Len(fl), key)
<1>1. PICK a \in 1..Len(groups) : g = groups[a]
  BY DEF Among
<1>2. g \in Columns /\ key \in Protocols \X Host \X Host /\ g.dst \in Host
  <2>1. g \in Columns
    BY <1>1, ElementOfSeq
  <2> QED BY <2>1 DEF Columns, Sweeps
<1>3. Counted(g, fl, Ports(fl), S) /\ g.src = key[2] /\ g.dst = key[3]
  BY <1>1 DEF ColumnInv, SweepInv
<1>4. S \in SUBSET (1..Len(fl)) /\ IsFiniteSet(S)
  <2>1. Len(fl) \in 0..Len(fl)
    BY LenProperties
  <2> QED BY <2>1, MineFacts
<1>5. key = <<key[1], s.src, s.dst>> /\ key[1] \in Protocols /\ s.dst # NoHost
  BY <1>2, <1>3, FlowsAssumption DEF Host
<1> HIDE DEF S, key
<1>6. Sought(fl, S, Ports(fl), score)
  BY <1>3, <1>4, SweepCause
<1>7. Sought(fl, Mine(Downs(fl), Len(fl), <<key[1], s.src, s.dst>>), Ports(fl), s.score)
  BY <1>5, <1>6 DEF S
<1> QED BY <1>5, <1>7 DEF ScanCause

LEMMA RowCause ==
    ASSUME NEW fl \in Seq(Flows), NEW groups \in Seq(Rows), RowInv(groups, fl, Len(fl)),
           NEW g, Among(g, groups), Cardinality(g.targets) >= MinFanout,
           NEW score \in 0..100, Bound(g, score) <= Share(g),
           NEW s, s.src = g.src, s.dst = g.dst, s.score = score
    PROVE  ScanCause(fl, s)
<1> DEFINE key == g.key S == Mine(Acrosses(fl), Len(fl), key)
<1>1. PICK a \in 1..Len(groups) : g = groups[a]
  BY DEF Among
<1>2. g \in Rows /\ g.dst = NoHost
  <2>1. g \in Rows
    BY <1>1, ElementOfSeq
  <2> QED BY <2>1 DEF Rows, Sweeps
<1>3. Counted(g, fl, Hosts(fl), S) /\ g.src = key[2]
  BY <1>1 DEF RowInv, SweepInv
<1>4. S \in SUBSET (1..Len(fl)) /\ IsFiniteSet(S)
  <2>1. Len(fl) \in 0..Len(fl)
    BY LenProperties
  <2> QED BY <2>1, MineFacts
<1>5. PICK i \in 1..Len(fl) : key = Acrosses(fl)[i]
  BY <1>1 DEF RowInv, SweepInv, Keyed
<1>6. /\ key = <<fl[i].proto, fl[i].src, fl[i].dport>>
      /\ fl[i].proto \in Protocols /\ fl[i] \in ToSet(fl)
  BY <1>5, FlowFacts DEF Across
<1>7. key = <<fl[i].proto, s.src, fl[i].dport>> /\ s.dst = NoHost
  BY <1>2, <1>3, <1>6
<1> HIDE DEF S, key
<1>8. Sought(fl, S, Hosts(fl), score)
  BY <1>3, <1>4, SweepCause
<1>9. Sought(fl, Mine(Acrosses(fl), Len(fl), <<fl[i].proto, s.src, fl[i].dport>>), Hosts(fl), s.score)
  BY <1>7, <1>8 DEF S
<1> QED BY <1>6, <1>7, <1>9 DEF ScanCause

LEMMA HScoreScan ==
    ASSUME HInv, ScoreScan
    PROVE  HInv'
<1> DEFINE g == Head(left) wide == Cardinality(g.targets) >= MinFanout
<1>1. /\ pass = "scans" /\ pass' = pass /\ next' = next /\ next > Len(flows)
      /\ flows' = flows /\ left # <<>> /\ left' = Tail(left)
      /\ threshold' = threshold /\ conversations' = conversations
      /\ vertical' = vertical /\ horizontal' = horizontal
      /\ \/ (~wide \/ Share(g) < 2 * Bound(g, threshold)) /\ findings' = findings
         \/ /\ wide
            /\ \E score \in Grades :
                 Bound(g, score) <= Share(g) /\ findings' = Append(findings, Scan(g, score))
  BY DEF ScoreScan
<1>2. /\ flows \in Seq(Flows) /\ findings \in Seq(Accusations)
      /\ vertical \in Seq(Columns) /\ horizontal \in Seq(Rows)
      /\ left \in Seq(Talks \cup Columns \cup Rows) /\ next \in 1..(Len(flows) + 1)
      /\ Len(flows) \in Nat /\ threshold \in 0..100
  BY LenProperties, HuntAssumption DEF HInv, Shape
<1>3. Gone("beacons")' = Gone("beacons") /\ Gone("scans")' = Gone("scans")
  BY <1>1 DEF Gone
<1>4. Gone("scans") = Len(flows)
  <2>1. next - 1 = Len(flows)
    BY <1>1, <1>2
  <2> QED BY <1>1, <2>1 DEF Gone, Turn
<1>5. /\ left' \in Seq(Talks \cup Columns \cup Rows)
      /\ Among(g, left) /\ (\A n \in 1..Len(left') : Among(left'[n], left))
      /\ \A x : Among(x, left) => x = g \/ Among(x, left')
  BY <1>1, <1>2, TailFacts
<1>6. \A x : Among(x, left) => Among(x, vertical) \/ Among(x, horizontal)
  BY <1>1 DEF HInv, LeftInv, Among
<1>7. WeighedInv(findings) /\ CauseInv(flows, findings)
  BY DEF HInv
<1>8. /\ findings' \in Seq(Accusations) /\ WeighedInv(findings') /\ CauseInv(flows, findings')
      /\ \A x : Accused(findings, x) => Accused(findings', x)
      /\ \/ ~wide \/ Share(g) < 2 * Bound(g, threshold)
         \/ Accused(findings', g)
  <2>1. CASE (~wide \/ Share(g) < 2 * Bound(g, threshold)) /\ findings' = findings
    BY <1>2, <1>7, <2>1
  <2>2. ASSUME wide, NEW score \in Grades, Bound(g, score) <= Share(g),
               findings' = Append(findings, Scan(g, score))
        PROVE  /\ findings' \in Seq(Accusations)
               /\ WeighedInv(findings') /\ CauseInv(flows, findings')
               /\ \A x : Accused(findings, x) => Accused(findings', x)
               /\ Accused(findings', g)
    <3> DEFINE src == g.src dst == g.dst s == Scan(g, score) kind == "scan"
               scope == IF g.dst = NoHost THEN NoHost ELSE Scope(g.dst, {})
    <3>1. Among(g, vertical) \/ Among(g, horizontal)
      BY <1>5, <1>6
    <3>2. g \in Columns \/ g \in Rows
      BY <1>2, <3>1, ElementOfSeq DEF Among
    <3>3. src \in Host /\ dst \in Host \cup {NoHost}
      <4>1. CASE g \in Columns
        BY <4>1 DEF Columns, Sweeps
      <4>2. CASE g \in Rows
        BY <4>2 DEF Rows, Sweeps
      <4> QED BY <3>2, <4>1, <4>2
    <3>4. scope \in Scopes /\ score \in 0..100 /\ kind \in {"beacon", "scan"}
      <4>1. dst # NoHost => Scope(dst, {}) \in Scopes
        BY <3>3, ScopeType
      <4>2. NoHost \in Scopes
        BY DEF Scopes
      <4> QED BY <4>1, <4>2, HuntAssumption
    <3>5. s = Finding(kind, src, dst, scope, score)
      BY DEF Scan
    <3>6. src = g.src /\ dst = g.dst
      OBVIOUS
    <3>7. ColumnInv(vertical, flows, Len(flows)) /\ RowInv(horizontal, flows, Len(flows))
      BY <1>4 DEF HInv
    <3>8. Cardinality(g.targets) >= MinFanout /\ Bound(g, score) <= Share(g)
      BY <2>2
    <3> HIDE DEF src, dst, scope, s, g, kind
    <3>9. /\ s \in Accusations /\ s.kind = kind /\ s.src = src /\ s.dst = dst
          /\ s.score = score /\ s.severity = Severity(s.score, s.scope)
      <4>1. Accuses(Finding(kind, src, dst, scope, score), kind, src, dst, score)
        BY <3>3, <3>4, FindingFields
      <4> QED BY <3>5, <4>1 DEF Accuses
    <3>10. ScanCause(flows, s)
      <4>1. s.src = g.src /\ s.dst = g.dst /\ s.score = score
        BY <3>6, <3>9
      <4>2. CASE Among(g, vertical)
        BY <1>2, <3>4, <3>7, <3>8, <4>1, <4>2, ColumnCause
      <4>3. CASE Among(g, horizontal)
        BY <1>2, <3>4, <3>7, <3>8, <4>1, <4>3, RowCause
      <4> QED BY <3>1, <4>2, <4>3
    <3>11. s.kind = "scan" /\ s.kind # "beacon"
      BY <3>9 DEF kind
    <3>12. /\ Append(findings, s) \in Seq(Accusations)
           /\ WeighedInv(Append(findings, s)) /\ CauseInv(flows, Append(findings, s))
           /\ \A x : Accused(findings, x) => Accused(Append(findings, s), x)
           /\ \A x : s.kind = "scan" /\ s.src = x.src /\ s.dst = x.dst
                       => Accused(Append(findings, s), x)
      BY <1>2, <1>7, <3>9, <3>10, <3>11, OneMoreFinding
    <3>13. Accused(Append(findings, s), g)
      BY <3>6, <3>9, <3>11, <3>12
    <3> QED BY <2>2, <3>12, <3>13 DEF s
  <2> QED BY <1>1, <2>1, <2>2
<1>9. Shape'
  BY <1>1, <1>5, <1>8 DEF HInv, Shape
<1>10. LeftInv'
  BY <1>1, <1>5, <1>6 DEF LeftInv
<1>11. Pending'
  <2>1. SUFFICES ASSUME threshold <= 50, NEW a \in 1..Len(vertical), Due(vertical[a])
                 PROVE  Among(vertical[a], left') \/ Accused(findings', vertical[a])
    BY <1>1 DEF Pending
  <2>2. Among(vertical[a], left) \/ Accused(findings, vertical[a])
    BY <1>1, <2>1 DEF HInv, Pending
  <2>3. CASE vertical[a] = g
    <3> HIDE DEF g
    <3>1. g.attempts \in Nat /\ Due(g) /\ threshold \in 0..50
      <4>1. g \in Columns
        BY <1>2, <2>3, ElementOfSeq
      <4>2. g.attempts \in Nat
        BY <4>1 DEF Columns, Sweeps
      <4>3. threshold \in 0..50
        BY <1>2, <2>1
      <4> QED BY <2>1, <2>3, <4>2, <4>3
    <3>2. ~(Share(g) < 2 * Bound(g, threshold))
      BY <3>1, DueIsScored
    <3>3. wide
      BY <3>1 DEF Due
    <3> QED BY <1>8, <2>3, <3>2, <3>3
  <2>4. CASE vertical[a] # g
    BY <1>5, <1>8, <2>2, <2>4
  <2> QED BY <2>3, <2>4
<1>12. /\ TalkInv(conversations, flows, Gone("beacons"))'
       /\ ColumnInv(vertical, flows, Gone("scans"))' /\ RowInv(horizontal, flows, Gone("scans"))'
  BY <1>1, <1>3 DEF HInv
<1> QED BY <1>1, <1>8, <1>9, <1>10, <1>11, <1>12 DEF HInv

\* What the two passes hold at every step.
THEOREM HuntInvariant == Spec => []HInv
<1>1. Init => HInv
  BY HInit
<1>2. HInv /\ [Next]_vars => HInv'
  <2> SUFFICES ASSUME HInv, [Next]_vars PROVE HInv'
    OBVIOUS
  <2>1. ASSUME NEW f \in Flows, Complete(f) PROVE HInv'
    BY <2>1, HComplete
  <2>2. CASE Group
    BY <2>2, HGroup
  <2>3. CASE ScoreBeacon
    BY <2>3, HScoreBeacon
  <2>4. CASE Sweep
    BY <2>4, HSweep
  <2>5. CASE ScoreScan
    BY <2>5, HScoreScan
  <2>6. CASE Ended
    BY <2>6, HEnded
  <2>7. CASE UNCHANGED vars
    <3>1. Gone("beacons")' = Gone("beacons") /\ Gone("scans")' = Gone("scans")
      BY <2>7 DEF vars, Gone
    <3> QED BY <2>7, <3>1 DEF vars, HInv, Shape, LeftInv, Pending
  <2> QED BY <2>1, <2>2, <2>3, <2>4, <2>5, <2>6, <2>7 DEF Next
<1> QED BY <1>1, <1>2, PTL DEF Spec

-----------------------------------------------------------------------------
(* The ranking *)

LEMMA SeverityOrder ==
    ASSUME NEW s \in 0..100, NEW t \in 0..100, s < t, NEW a, NEW b,
           Severity(s, a) < Severity(t, b)
    PROVE  External(a) /\ ~External(b)
<1> DEFINE x == External(a) y == External(b)
<1>1. x \in BOOLEAN /\ y \in BOOLEAN
  BY DEF External
<1> HIDE DEF x, y
<1>2. Severity(s, a) = IF s >= 90 THEN (IF x THEN 1 ELSE 2)
                       ELSE IF s >= 80 THEN (IF x THEN 2 ELSE 3)
                       ELSE IF s >= 70 THEN 3 ELSE 4
  BY DEF Severity, x
<1>3. Severity(t, b) = IF t >= 90 THEN (IF y THEN 1 ELSE 2)
                       ELSE IF t >= 80 THEN (IF y THEN 2 ELSE 3)
                       ELSE IF t >= 70 THEN 3 ELSE 4
  BY DEF Severity, y
<1>4. x /\ ~y
  BY <1>1, <1>2, <1>3
<1> QED BY <1>4 DEF x, y

LEMMA AccusationFields ==
    ASSUME NEW s \in Accusations
    PROVE  /\ s.severity \in 1..4 /\ s.severity \in Nat
           /\ s.score \in 0..100 /\ s.score \in Nat
<1>1. s.severity \in 1..4 /\ s.score \in 0..100
  BY DEF Accusations
<1> QED BY <1>1

\* The ith of order is a finding that the jth is not worse than.
InOrder(order, i, j) ==
    \E a, b \in 1..Len(findings) :
        /\ order[i] = findings[a] /\ order[j] = findings[b]
        /\ ~Worse(findings[b], findings[a])

\* Ranked puts every finding where the number of those before it says.
LEMMA RankedInOrder ==
    ASSUME findings \in Seq(Accusations)
    PROVE  /\ DOMAIN Ranked = 1..Len(findings)
           /\ \A i, j \in 1..Len(findings) : i < j => InOrder(Ranked, i, j)
<1> DEFINE n == Len(findings) I == 1..n
           ahead(i) == {j \in I : Before(j, i)}
           place == [i \in I |-> Cardinality(ahead(i)) + 1]
<1>1. n \in Nat /\ DOMAIN findings = I
  BY LenProperties
<1>2. ASSUME NEW i \in I
      PROVE  findings[i].severity \in Nat /\ findings[i].score \in Nat
  <2>1. findings[i] \in Accusations
    BY ElementOfSeq
  <2> QED BY <2>1, AccusationFields
<1>3. ASSUME NEW i \in I, NEW j \in I
      PROVE  Before(i, j) <=> \/ findings[i].severity < findings[j].severity
                              \/ /\ findings[i].severity = findings[j].severity
                                 /\ \/ findings[i].score > findings[j].score
                                    \/ findings[i].score = findings[j].score /\ i < j
  BY <1>2 DEF Before, Worse
<1>4. \A i \in I : ~Before(i, i)
  BY <1>2, <1>3
<1>5. \A i, j \in I : i # j => Before(i, j) \/ Before(j, i)
  BY <1>2, <1>3
<1>6. \A i, j, k \in I : Before(i, j) /\ Before(j, k) => Before(i, k)
  BY <1>2, <1>3
<1>7. \A i, j \in I : Before(i, j) => ~Worse(findings[j], findings[i])
  BY <1>2, <1>3 DEF Worse
<1>8. IsFiniteSet(I) /\ Cardinality(I) = n
  <2>1. IsFiniteSet(1..n) /\ Cardinality(1..n) = IF 1 > n THEN 0 ELSE n - 1 + 1
    BY <1>1, FS_Interval
  <2> QED BY <1>1, <2>1
<1> HIDE DEF n, I
<1>9. ASSUME NEW i \in I
      PROVE  /\ IsFiniteSet(ahead(i)) /\ Cardinality(ahead(i)) \in Nat
             /\ Cardinality(ahead(i)) < n
  <2>1. ahead(i) \in SUBSET I /\ i \notin ahead(i) /\ ahead(i) # I
    BY <1>4
  <2> DEFINE A == ahead(i)
  <2> HIDE DEF A
  <2>2. A \in SUBSET I /\ A # I
    BY <2>1 DEF A
  <2>3. IsFiniteSet(A) /\ Cardinality(A) <= n /\ Cardinality(A) # n
    BY <1>8, <2>2, FS_Subset
  <2>4. Cardinality(A) \in Nat
    BY <2>3, FS_CardinalityType
  <2>5. Cardinality(A) < n
    BY <1>1, <2>3, <2>4
  <2> QED BY <2>3, <2>4, <2>5 DEF A
<1>10. ASSUME NEW i \in I, NEW j \in I, Before(i, j)
       PROVE  place[i] < place[j]
  <2>1. /\ ahead(i) \in SUBSET ahead(j) /\ i \in ahead(j) /\ i \notin ahead(i)
    BY <1>4, <1>6, <1>10
  <2> DEFINE A == ahead(i) B == ahead(j)
  <2>2. /\ IsFiniteSet(B) /\ Cardinality(A) \in Nat /\ Cardinality(B) \in Nat
        /\ A \in SUBSET B /\ A # B
    BY <1>9, <2>1
  <2>3. place[i] = Cardinality(A) + 1 /\ place[j] = Cardinality(B) + 1
    OBVIOUS
  <2> HIDE DEF A, B, place
  <2>4. Cardinality(A) <= Cardinality(B) /\ Cardinality(A) # Cardinality(B)
    BY <2>2, FS_Subset
  <2> QED BY <2>2, <2>3, <2>4
<1>11. \A i \in I : place[i] \in I
  <2> TAKE i \in I
  <2>1. place[i] = Cardinality(ahead(i)) + 1
    OBVIOUS
  <2> DEFINE c == Cardinality(ahead(i))
  <2>2. c \in Nat /\ c < n
    BY <1>9
  <2> HIDE DEF c
  <2>3. c + 1 \in 1..n
    BY <1>1, <2>2
  <2> QED BY <2>1, <2>3 DEF I, c
<1>12. \A i \in I : place[i] \in Nat
  BY <1>1, <1>11 DEF I
<1>13. place \in [I -> I]
  BY <1>11
<1>14. \A k \in I : Ranked[k] = findings[CHOOSE i \in I : place[i] = k]
  <2>1. Ranked = [k \in I |-> findings[CHOOSE i \in I :
                    Cardinality({j \in I : Before(j, i)}) + 1 = k]]
    BY <1>1 DEF Ranked
  <2>2. \A k : (CHOOSE i \in I : place[i] = k)
               = (CHOOSE i \in I : Cardinality({j \in I : Before(j, i)}) + 1 = k)
    BY Zenon
  <2> QED BY <2>1, <2>2
<1>15. DOMAIN Ranked = I
  BY <1>1 DEF Ranked
<1> HIDE DEF place
<1>16. \A i, j \in I : place[i] = place[j] => i = j
  BY <1>5, <1>10, <1>12
<1>17. place \in Injection(I, I)
  BY <1>13, <1>16 DEF Injection, IsInjective
<1>18. place \in Surjection(I, I)
  BY <1>8, <1>17, FS_Injection
<1>19. \A k \in I : \E i \in I : place[i] = k
  BY <1>18 DEF Surjection
<1>20. ASSUME NEW i \in I, NEW j \in I, i < j
       PROVE  \E a, b \in I : /\ Ranked[i] = findings[a] /\ Ranked[j] = findings[b]
                              /\ ~Worse(findings[b], findings[a])
  <2> DEFINE a == CHOOSE x \in I : place[x] = i b == CHOOSE x \in I : place[x] = j
  <2>1. a \in I /\ place[a] = i
    BY <1>19
  <2>2. b \in I /\ place[b] = j
    BY <1>19
  <2>3. Ranked[i] = findings[a] /\ Ranked[j] = findings[b]
    BY <1>14
  <2> HIDE DEF a, b
  <2>4. i \in Nat /\ j \in Nat
    BY <1>1 DEF I
  <2>5. a # b /\ ~Before(b, a)
    BY <1>10, <1>20, <2>1, <2>2, <2>4
  <2> QED BY <1>5, <1>7, <2>1, <2>2, <2>3, <2>5
<1> QED BY <1>15, <1>20 DEF InOrder, I, n

LEMMA OnlyScopeOutranksHolds ==
    ASSUME HInv
    PROVE  OnlyScopeOutranks
<1>1. findings \in Seq(Accusations) /\ WeighedInv(findings)
  BY DEF HInv, Shape
<1> DEFINE order == Ranked
<1>2. /\ DOMAIN order = 1..Len(findings)
      /\ \A i, j \in 1..Len(findings) : i < j => InOrder(order, i, j)
  BY <1>1, RankedInOrder
<1> HIDE DEF order
<1>3. ASSUME NEW i \in DOMAIN order, NEW j \in DOMAIN order,
             i < j, order[i].score < order[j].score
      PROVE  External(order[i].scope) /\ ~External(order[j].scope)
  <2>1. PICK a \in 1..Len(findings), b \in 1..Len(findings) :
           /\ order[i] = findings[a] /\ order[j] = findings[b]
           /\ ~Worse(findings[b], findings[a])
    <3>1. i \in 1..Len(findings) /\ j \in 1..Len(findings)
      BY <1>2
    <3>2. InOrder(order, i, j)
      BY <1>2, <1>3, <3>1
    <3> QED BY <3>2 DEF InOrder
  <2> DEFINE f == findings[a] h == findings[b]
  <2>2. f \in Accusations /\ h \in Accusations
    BY <1>1, ElementOfSeq
  <2>3. /\ f.severity = Severity(f.score, f.scope)
        /\ h.severity = Severity(h.score, h.scope)
    BY <1>1 DEF WeighedInv
  <2>4. f.score < h.score /\ ~Worse(h, f)
    BY <1>3, <2>1
  <2> HIDE DEF f, h
  <2>5. /\ f.severity \in 1..4 /\ h.severity \in 1..4
        /\ f.score \in 0..100 /\ h.score \in 0..100
    BY <2>2 DEF Accusations
  <2>6. f.severity < h.severity
    BY <2>4, <2>5 DEF Worse
  <2>7. External(f.scope) /\ ~External(h.scope)
    BY <2>3, <2>4, <2>5, <2>6, SeverityOrder
  <2> QED BY <2>1, <2>7 DEF f, h
<1> QED BY <1>3 DEF OnlyScopeOutranks, order

-----------------------------------------------------------------------------
(* Findings and their flows *)

LEMMA FindingsHaveCauseHolds ==
    ASSUME HInv
    PROVE  FindingsHaveCause
<1>1. /\ flows \in Seq(Flows) /\ findings \in Seq(Accusations)
      /\ CauseInv(flows, findings) /\ DOMAIN flows = 1..Len(flows)
      /\ DOMAIN findings = 1..Len(findings)
  BY LenProperties DEF HInv, Shape
<1>2. \A f \in ToSet(findings) : \E k \in 1..Len(findings) : f = findings[k]
  BY <1>1 DEF ToSet
<1>3. ASSUME NEW src, NEW dst, NEW proto
      PROVE  ByHost(src, dst, proto) = Mine(Downs(flows), Len(flows), <<proto, src, dst>>)
  BY <1>1, FlowFacts DEF ByHost, Positions, Mine, Down
<1>4. ASSUME NEW src, NEW dport, NEW proto
      PROVE  ByPort(src, dport, proto) = Mine(Acrosses(flows), Len(flows), <<proto, src, dport>>)
  BY <1>1, FlowFacts DEF ByPort, Positions, Mine, Across
<1>5. ASSUME NEW src, NEW dst, NEW dport, NEW proto
      PROVE  ByHost(src, dst, proto) \cap ByPort(src, dport, proto)
               = Mine(Talking(flows), Len(flows), <<src, dst, dport, proto>>)
  BY <1>1, FlowFacts DEF ByHost, ByPort, Positions, Mine, Conversation
<1>6. ASSUME NEW mine \in SUBSET (1..Len(flows)), NEW share
      PROVE  /\ Sought(flows, mine, Ports(flows), share)
                  => Searching(mine, LAMBDA f : f.dport, share)
             /\ Sought(flows, mine, Hosts(flows), share)
                  => Searching(mine, LAMBDA f : f.dst, share)
  <2>1. {Ports(flows)[i] : i \in mine} = {flows[i].dport : i \in mine}
    BY DEF Ports
  <2>2. {Hosts(flows)[i] : i \in mine} = {flows[i].dst : i \in mine}
    BY DEF Hosts
  <2> QED BY <2>1, <2>2 DEF Sought, Searching
<1>7. ASSUME NEW keys, NEW key
      PROVE  Mine(keys, Len(flows), key) \in SUBSET (1..Len(flows))
  BY DEF Mine
<1>8. ASSUME NEW s \in Found("scan")
      PROVE  \E proto \in Protocols :
                IF s.dst # NoHost
                THEN Searching(ByHost(s.src, s.dst, proto), LAMBDA f : f.dport, s.score)
                ELSE \E dport \in {f.dport : f \in ToSet(flows)} :
                        Searching(ByPort(s.src, dport, proto), LAMBDA f : f.dst, s.score)
  <2>1. ScanCause(flows, s)
    BY <1>1, <1>2 DEF Found, CauseInv
  <2>2. PICK proto \in Protocols :
           IF s.dst # NoHost
           THEN Sought(flows, Mine(Downs(flows), Len(flows), <<proto, s.src, s.dst>>),
                       Ports(flows), s.score)
           ELSE \E dport \in {f.dport : f \in ToSet(flows)} :
                   Sought(flows, Mine(Acrosses(flows), Len(flows), <<proto, s.src, dport>>),
                          Hosts(flows), s.score)
    BY <2>1 DEF ScanCause
  <2>3. CASE s.dst # NoHost
    <3>1. Searching(ByHost(s.src, s.dst, proto), LAMBDA f : f.dport, s.score)
      BY <1>3, <1>6, <1>7, <2>2, <2>3
    <3> QED BY <2>3, <3>1
  <2>4. CASE s.dst = NoHost
    <3>1. PICK dport \in {f.dport : f \in ToSet(flows)} :
             Sought(flows, Mine(Acrosses(flows), Len(flows), <<proto, s.src, dport>>),
                    Hosts(flows), s.score)
      BY <2>2, <2>4
    <3>2. Searching(ByPort(s.src, dport, proto), LAMBDA f : f.dst, s.score)
      BY <1>4, <1>6, <1>7, <3>1
    <3> QED BY <2>4, <3>2
  <2> QED BY <2>3, <2>4
<1>9. ASSUME NEW b \in Found("beacon")
      PROVE  /\ LocalNets # {} => b.src \in LocalNets
             /\ LocalNets # {} /\ Kind[b.dst] \in {"internal", "public"} =>
                   b.scope = IF b.dst \in LocalNets THEN "private" ELSE "external"
             /\ \E proto \in Protocols, dport \in {f.dport : f \in ToSet(flows)} :
                   Cardinality({flows[i].start :
                       i \in ByHost(b.src, b.dst, proto) \cap ByPort(b.src, dport, proto)})
                     >= MinConnections
  <2>1. BeaconCause(flows, b)
    BY <1>1, <1>2 DEF Found, CauseInv
  <2> QED BY <1>5, <2>1 DEF BeaconCause
<1> QED BY <1>8, <1>9 DEF FindingsHaveCause

LEMMA SilentSweepFoundHolds ==
    ASSUME HInv
    PROVE  SilentSweepFound
<1>1. SUFFICES ASSUME pass = "done", threshold <= 50, NEW i \in Positions,
                      Cardinality({flows[j].dport :
                          j \in ByHost(flows[i].src, flows[i].dst, flows[i].proto)}) >= MinFanout,
                      \A j \in ByHost(flows[i].src, flows[i].dst, flows[i].proto) :
                          flows[j].packets_in = 0 /\ flows[j].payload_out <= ProbePayload
               PROVE  \E s \in Found("scan") : s.src = flows[i].src /\ s.dst = flows[i].dst
  BY DEF SilentSweepFound
<1>2. /\ flows \in Seq(Flows) /\ DOMAIN flows = 1..Len(flows) /\ Len(flows) \in Nat
      /\ vertical \in Seq(Columns)
      /\ DOMAIN findings = 1..Len(findings) /\ left = <<>>
  BY <1>1, LenProperties DEF HInv, Shape, LeftInv
<1>3. i \in 1..Len(flows)
  BY <1>2 DEF Positions
<1> DEFINE key == Down(flows[i]) S == Mine(Downs(flows), Len(flows), key)
<1>4. S = ByHost(flows[i].src, flows[i].dst, flows[i].proto)
  BY <1>2, <1>3, FlowFacts DEF ByHost, Positions, Mine, Down
<1>5. S \in SUBSET (1..Len(flows)) /\ IsFiniteSet(S)
  <2>1. Len(flows) \in 0..Len(flows)
    BY <1>2
  <2> QED BY <1>2, <2>1, MineFacts
<1>6. {Ports(flows)[j] : j \in S} = {flows[j].dport : j \in S}
  BY <1>5 DEF Ports
<1>7. ColumnInv(vertical, flows, Len(flows))
  BY <1>1 DEF HInv, Gone, Turn
<1>8. key = Downs(flows)[i] /\ key[2] = flows[i].src /\ key[3] = flows[i].dst
  BY <1>2, <1>3, FlowFacts DEF Down
<1>9. PICK a \in 1..Len(vertical) : vertical[a].key = key
  BY <1>3, <1>7, <1>8 DEF ColumnInv, SweepInv, Keyed
<1>10. /\ Counted(vertical[a], flows, Ports(flows), S)
       /\ vertical[a].src = flows[i].src /\ vertical[a].dst = flows[i].dst
  BY <1>7, <1>8, <1>9 DEF ColumnInv, SweepInv
<1>11. Cardinality({Ports(flows)[j] : j \in S}) >= MinFanout
  BY <1>1, <1>4, <1>6
<1>12. \A j \in S : flows[j].packets_in = 0 /\ flows[j].payload_out <= ProbePayload
  BY <1>1, <1>4
<1> HIDE DEF S, key
<1>13. Due(vertical[a])
  BY <1>2, <1>5, <1>10, <1>11, <1>12, SilentIsDue
<1>14. Accused(findings, vertical[a])
  <2>1. Among(vertical[a], left) \/ Accused(findings, vertical[a])
    BY <1>1, <1>13 DEF HInv, Pending
  <2>2. \A n \in 1..Len(<<>>) : FALSE
    OBVIOUS
  <2> QED BY <1>2, <2>1, <2>2 DEF Among
<1>15. PICK k \in 1..Len(findings) :
          /\ findings[k].kind = "scan"
          /\ findings[k].src = flows[i].src /\ findings[k].dst = flows[i].dst
  BY <1>10, <1>14 DEF Accused
<1>16. findings[k] \in Found("scan")
  BY <1>2, <1>15 DEF Found, ToSet
<1> QED BY <1>15, <1>16

-----------------------------------------------------------------------------
(* The totals at the end of the grouping *)

LEMMA SmallerOfTwo ==
    ASSUME NEW a \in Nat, NEW b \in Nat
    PROVE  Min({a, b}) = IF a <= b THEN a ELSE b
<1> DEFINE m == IF a <= b THEN a ELSE b
<1>1. m \in {a, b} /\ \A y \in {a, b} : m <= y
  OBVIOUS
<1>2. \A x \in {a, b} : (\A y \in {a, b} : x <= y) => x = m
  OBVIOUS
<1> HIDE DEF m
<1>3. (CHOOSE x \in {a, b} : \A y \in {a, b} : x <= y) = m
  BY <1>1, <1>2
<1> QED BY <1>3 DEF Min, m

\* Totals, of the flows at mine and the aims there.
TotalsOf(g, mine, aims) ==
    /\ g.attempts = Cardinality(mine)
    /\ g.served = Cardinality({i \in mine : Served(flows[i])})
    /\ g.stealth = Cardinality({i \in mine : Stealthy(flows[i])})
    /\ g.quiet = Cardinality({i \in mine : Quiet(flows[i])})
    /\ g.targets \subseteq {aims[i] : i \in mine}
    /\ Cardinality(g.targets) = Min({MaxTargets, Cardinality({aims[i] : i \in mine})})
    /\ Len(g.starts) = Min({MaxStarts, Cardinality(mine)})
    /\ \A i \in mine : Rank(i, mine) <= MaxStarts =>
          g.starts[Rank(i, mine)] = flows[i].start

LEMMA CountedTotals ==
    ASSUME NEW S, IsFiniteSet(S), NEW aims, NEW g, Counted(g, flows, aims, S)
    PROVE  TotalsOf(g, S, aims)
<1> DEFINE A == {aims[i] : i \in S} c == Cardinality(S) T == g.targets
<1>1. IsFiniteSet(A) /\ Cardinality(A) \in Nat /\ c \in Nat
  BY FiniteImage, FS_CardinalityType
<1>2. MaxTargets \in Nat /\ MaxStarts \in Nat
  BY ScanCapsAssumption
<1>3. /\ IsFiniteSet(T) /\ Cardinality(T) <= MaxTargets /\ T \subseteq A
      /\ Cardinality(T) < MaxTargets => T = A
  BY DEF Counted, Aimed
<1>4. Len(g.starts) = IF c < MaxStarts THEN c ELSE MaxStarts
  BY DEF Counted, Started
<1> HIDE DEF A, c, T
<1>5. Cardinality(T) \in Nat /\ Cardinality(T) <= Cardinality(A)
  BY <1>1, <1>3, FS_Subset, FS_CardinalityType
<1>6. Cardinality(T) = Min({MaxTargets, Cardinality(A)})
  <2> DEFINE t == Cardinality(T) a == Cardinality(A)
  <2>1. t \in Nat /\ a \in Nat /\ t <= a /\ t <= MaxTargets /\ (t < MaxTargets => t = a)
    BY <1>1, <1>3, <1>5
  <2>2. Min({MaxTargets, a}) = IF MaxTargets <= a THEN MaxTargets ELSE a
    BY <1>1, <1>2, SmallerOfTwo
  <2> HIDE DEF t, a
  <2>3. t = IF MaxTargets <= a THEN MaxTargets ELSE a
    BY <1>2, <2>1
  <2> QED BY <2>2, <2>3 DEF t, a
<1>7. Len(g.starts) = Min({MaxStarts, c})
  <2>1. Min({MaxStarts, c}) = IF MaxStarts <= c THEN MaxStarts ELSE c
    BY <1>1, <1>2, SmallerOfTwo
  <2>2. (IF MaxStarts <= c THEN MaxStarts ELSE c) = IF c < MaxStarts THEN c ELSE MaxStarts
    BY <1>1, <1>2
  <2> QED BY <1>4, <2>1, <2>2
<1>8. /\ g.attempts = c /\ g.served = Cardinality({i \in S : Served(flows[i])})
      /\ g.stealth = Cardinality({i \in S : Stealthy(flows[i])})
      /\ g.quiet = Cardinality({i \in S : Quiet(flows[i])})
  BY DEF Counted, Sums, ServedAt, StealthyAt, QuietAt, c
<1>9. \A i \in S : Rank(i, S) <= MaxStarts => g.starts[Rank(i, S)] = flows[i].start
  BY DEF Counted, Started
<1> QED BY <1>3, <1>6, <1>7, <1>8, <1>9 DEF TotalsOf, A, c, T

\* A key of a flow has exactly one group.
LEMMA OneGroup ==
    ASSUME NEW T, NEW G \in Seq(T), NEW keys, NEW k \in Nat, Keyed(G, keys, k), NEW i \in 1..k
    PROVE  Cardinality(At(G, keys[i])) = 1
<1>1. PICK a \in 1..Len(G) : G[a].key = keys[i]
  BY DEF Keyed
<1>2. DOMAIN G = 1..Len(G)
  BY LenProperties
<1>3. At(G, keys[i]) = {a}
  BY <1>1, <1>2 DEF At, Keyed
<1> QED BY <1>3, FS_Singleton

LEMMA OneConversation ==
    ASSUME NEW i \in 1..Len(flows), flows \in Seq(Flows), conversations \in Seq(Talks),
           TalkInv(conversations, flows, Len(flows))
    PROVE  Cardinality({k \in DOMAIN conversations :
               Lists(conversations[k].flows, Alike(i))}) = 1
<1> DEFINE w == Talking(flows) key == w[i] S == Mine(w, Len(flows), key)
           C == {k \in DOMAIN conversations : Lists(conversations[k].flows, Alike(i))}
<1>1. /\ Len(flows) \in Nat /\ DOMAIN flows = 1..Len(flows)
      /\ DOMAIN conversations = 1..Len(conversations)
  BY LenProperties
<1>2. \A j \in 1..Len(flows) : w[j] = Conversation(flows[j])
  BY FlowFacts
<1>3. Alike(i) = S
  <2>1. \A j \in 1..Len(flows) : w[j] = key <=>
           /\ flows[j].src = flows[i].src /\ flows[j].dst = flows[i].dst
           /\ flows[j].dport = flows[i].dport /\ flows[j].proto = flows[i].proto
    <3> TAKE j \in 1..Len(flows)
    <3>1. w[j] = Conversation(flows[j]) /\ key = Conversation(flows[i])
      BY <1>2
    <3> HIDE DEF w, key
    <3>2. Conversation(flows[j]) = Conversation(flows[i]) <=>
             /\ flows[j].src = flows[i].src /\ flows[j].dst = flows[i].dst
             /\ flows[j].dport = flows[i].dport /\ flows[j].proto = flows[i].proto
      BY DEF Conversation
    <3> QED BY <3>1, <3>2
  <2> HIDE DEF w, key
  <2> QED BY <1>1, <2>1 DEF Alike, Positions, Mine
<1>4. S \in SUBSET (1..Len(flows)) /\ i \in S
  BY DEF Mine
<1>5. Keyed(conversations, w, Len(flows))
  BY DEF TalkInv
<1>6. PICK c \in 1..Len(conversations) : conversations[c].key = key
  BY <1>5 DEF Keyed
<1>7. \A b \in 1..Len(conversations) :
         Orders(conversations[b].flows, flows, Mine(w, Len(flows), conversations[b].key))
  BY DEF TalkInv
<1> HIDE DEF C
<1>8. c \in C
  <2>1. Orders(conversations[c].flows, flows, S)
    BY <1>6, <1>7
  <2> QED BY <1>1, <1>3, <2>1 DEF C, Lists, Orders
<1>9. ASSUME NEW b \in C PROVE b = c
  <2> DEFINE s == conversations[b].flows r == Rank(i, S)
  <2>1. /\ b \in 1..Len(conversations) /\ Len(s) = Cardinality(S)
        /\ s[r] = flows[i]
    BY <1>1, <1>3, <1>4 DEF C, Lists
  <2>2. r \in 1..Cardinality(S)
    BY <1>1, <1>4, RanksKept
  <2>3. PICK j \in Mine(w, Len(flows), conversations[b].key) : s[r] = flows[j]
    BY <1>7, <2>1, <2>2 DEF Orders
  <2>4. j \in 1..Len(flows) /\ w[j] = conversations[b].key
    BY <2>3 DEF Mine
  <2>5. Conversation(flows[j]) = Conversation(flows[i])
    BY <2>1, <2>3
  <2>6. conversations[b].key = conversations[c].key
    BY <1>2, <1>6, <2>4, <2>5
  <2> QED BY <1>5, <2>1, <2>6 DEF Keyed
<1>10. C = {c}
  BY <1>8, <1>9
<1> QED BY <1>10, FS_Singleton DEF C

LEMMA SpanInWindow ==
    ASSUME flows \in Seq(Flows), conversations \in Seq(Talks),
           TalkInv(conversations, flows, Len(flows)), NEW c \in 1..Len(conversations)
    PROVE  Span(conversations[c]) <= Window
<1> DEFINE g == conversations[c] S == Mine(Talking(flows), Len(flows), g.key)
           n == Len(g.flows) N == Len(flows)
           st == [m \in 1..n |-> g.flows[m].start]
           starts == [i \in 1..N |-> flows[i].start]
           ends == [i \in 1..N |-> flows[i].end]
<1>1. /\ N \in Nat /\ DOMAIN flows = 1..N
      /\ g \in Talks /\ g.flows \in Seq(FlowRecord)
  <2>1. g \in Talks
    BY ElementOfSeq
  <2> QED BY <2>1, LenProperties DEF Talks
<1>2. n \in Nat /\ DOMAIN g.flows = 1..n
  BY <1>1, LenProperties
<1>3. S \in SUBSET (1..N) /\ S # {} /\ IsFiniteSet(S)
  <2>1. S # {}
    BY DEF TalkInv, Keyed, Mine
  <2>2. N \in 0..N
    BY <1>1
  <2> QED BY <2>1, <2>2, MineFacts
<1>4. n = Cardinality(S) /\ \A m \in 1..n : \E i \in S : g.flows[m] = flows[i]
  BY DEF TalkInv, Orders
<1>5. n \in Nat \ {0} /\ N \in Nat \ {0}
  <2>1. n # 0
    BY <1>3, <1>4, FS_EmptySet
  <2>2. N # 0
    BY <1>3
  <2> QED BY <1>1, <1>2, <2>1, <2>2
<1>6. \A i \in 1..N : /\ flows[i].start \in Nat /\ flows[i].end \in Nat
                      /\ flows[i].start <= flows[i].end
  BY FlowFacts
<1>7. \A m \in 1..n : \E i \in 1..N : st[m] = starts[i] /\ starts[i] <= ends[i]
  BY <1>3, <1>4, <1>6
<1>8. starts \in [1..N -> Nat] /\ ends \in [1..N -> Nat]
  BY <1>6
<1>9. st \in [1..n -> Nat]
  <2>1. \A m \in 1..n : st[m] \in Nat
    BY <1>7, <1>8
  <2> QED BY <2>1
<1>10. Starts(g) = {st[m] : m \in 1..n}
  BY <1>2 DEF Starts, ToSet
<1>11. /\ {f.end : f \in ToSet(flows)} = {ends[i] : i \in 1..N}
       /\ {f.start : f \in ToSet(flows)} = {starts[i] : i \in 1..N}
  BY <1>1 DEF ToSet
<1>12. flows # <<>>
  BY <1>5
<1> HIDE DEF g, S, n, N, st, starts, ends
<1> DEFINE a == Max({st[m] : m \in 1..n}) b == Min({st[m] : m \in 1..n})
           x == Max({ends[i] : i \in 1..N}) y == Min({starts[i] : i \in 1..N})
<1>13. /\ a \in Nat /\ b \in Nat /\ (\E m \in 1..n : st[m] = a) /\ (\E m \in 1..n : st[m] = b)
  BY <1>5, <1>9, MaxMin
<1>14. x \in Nat /\ \A i \in 1..N : ends[i] <= x
  BY <1>5, <1>8, MaxMin
<1>15. y \in Nat /\ \A i \in 1..N : y <= starts[i]
  BY <1>5, <1>8, MaxMin
<1>16. Span(g) = a - b
  BY <1>10 DEF Span
<1>17. Window = x - y
  BY <1>11, <1>12 DEF Window
<1> HIDE DEF a, b, x, y
<1>18. a <= x
  <2>1. PICK m \in 1..n : st[m] = a
    BY <1>13
  <2>2. PICK i \in 1..N : st[m] = starts[i] /\ starts[i] <= ends[i]
    BY <1>7
  <2>3. a \in Nat /\ ends[i] \in Nat /\ x \in Nat /\ a <= ends[i] /\ ends[i] <= x
    BY <1>8, <1>13, <1>14, <2>1, <2>2
  <2> QED BY <2>3
<1>19. y <= b
  <2>1. PICK m \in 1..n : st[m] = b
    BY <1>13
  <2>2. PICK i \in 1..N : st[m] = starts[i]
    BY <1>7
  <2> QED BY <1>15, <2>1, <2>2
<1>20. a - b <= x - y
  BY <1>13, <1>14, <1>15, <1>18, <1>19
<1> QED BY <1>16, <1>17, <1>20 DEF g

LEMMA TotalsAddUpHolds ==
    ASSUME HInv
    PROVE  TotalsAddUp
<1>1. SUFFICES ASSUME pass = "scans", next > Len(flows)
      PROVE  /\ \A i \in Positions :
                   /\ Cardinality({k \in DOMAIN conversations :
                          Lists(conversations[k].flows, Alike(i))}) = 1
                   /\ Cardinality(At(vertical, Down(flows[i]))) = 1
                   /\ Cardinality(At(horizontal, Across(flows[i]))) = 1
             /\ \A g \in ToSet(conversations) : Span(g) <= Window
             /\ \A g \in ToSet(vertical) :
                   Totals(g, {i \in Positions : Down(flows[i]) = g.key}, LAMBDA f : f.dport)
             /\ \A g \in ToSet(horizontal) :
                   Totals(g, {i \in Positions : Across(flows[i]) = g.key}, LAMBDA f : f.dst)
  BY DEF TotalsAddUp
<1>2. /\ flows \in Seq(Flows) /\ Len(flows) \in Nat /\ DOMAIN flows = 1..Len(flows)
      /\ conversations \in Seq(Talks) /\ vertical \in Seq(Columns) /\ horizontal \in Seq(Rows)
      /\ DOMAIN conversations = 1..Len(conversations)
      /\ DOMAIN vertical = 1..Len(vertical) /\ DOMAIN horizontal = 1..Len(horizontal)
      /\ next \in 1..(Len(flows) + 1)
  BY LenProperties DEF HInv, Shape
<1>3. Gone("beacons") = Len(flows) /\ Gone("scans") = Len(flows)
  <2>1. next - 1 = Len(flows)
    BY <1>1, <1>2
  <2> QED BY <1>1, <2>1 DEF Gone, Turn
<1>4. /\ TalkInv(conversations, flows, Len(flows))
      /\ ColumnInv(vertical, flows, Len(flows)) /\ RowInv(horizontal, flows, Len(flows))
  BY <1>3 DEF HInv
<1>5. ASSUME NEW i \in Positions
      PROVE  /\ Cardinality({k \in DOMAIN conversations :
                    Lists(conversations[k].flows, Alike(i))}) = 1
             /\ Cardinality(At(vertical, Down(flows[i]))) = 1
             /\ Cardinality(At(horizontal, Across(flows[i]))) = 1
  <2>1. i \in 1..Len(flows)
    BY <1>2 DEF Positions
  <2>2. Downs(flows)[i] = Down(flows[i]) /\ Acrosses(flows)[i] = Across(flows[i])
    BY <1>2, <2>1, FlowFacts
  <2>3. Cardinality(At(vertical, Downs(flows)[i])) = 1
    <3>1. Keyed(vertical, Downs(flows), Len(flows))
      BY <1>4 DEF ColumnInv, SweepInv
    <3> QED BY <1>2, <2>1, <3>1, OneGroup
  <2>4. Cardinality(At(horizontal, Acrosses(flows)[i])) = 1
    <3>1. Keyed(horizontal, Acrosses(flows), Len(flows))
      BY <1>4 DEF RowInv, SweepInv
    <3> QED BY <1>2, <2>1, <3>1, OneGroup
  <2>5. Cardinality({k \in DOMAIN conversations :
            Lists(conversations[k].flows, Alike(i))}) = 1
    BY <1>2, <1>4, <2>1, OneConversation
  <2> QED BY <2>2, <2>3, <2>4, <2>5
<1>6. ASSUME NEW g \in ToSet(conversations) PROVE Span(g) <= Window
  <2>1. PICK c \in 1..Len(conversations) : g = conversations[c]
    BY <1>2 DEF ToSet
  <2> QED BY <1>2, <1>4, <2>1, SpanInWindow
<1>7. ASSUME NEW g \in ToSet(vertical)
      PROVE  Totals(g, {i \in Positions : Down(flows[i]) = g.key}, LAMBDA f : f.dport)
  <2> DEFINE S == Mine(Downs(flows), Len(flows), g.key)
  <2>1. PICK c \in 1..Len(vertical) : g = vertical[c]
    BY <1>2 DEF ToSet
  <2>2. S \in SUBSET (1..Len(flows)) /\ IsFiniteSet(S)
    <3>1. Len(flows) \in 0..Len(flows)
      BY <1>2
    <3> QED BY <1>2, <3>1, MineFacts
  <2>3. Counted(g, flows, Ports(flows), S)
    BY <1>4, <2>1 DEF ColumnInv, SweepInv
  <2>4. {i \in Positions : Down(flows[i]) = g.key} = S
    BY <1>2, FlowFacts DEF Positions, Mine
  <2>5. {Ports(flows)[i] : i \in S} = {flows[i].dport : i \in S}
    BY <2>2 DEF Ports
  <2> HIDE DEF S
  <2>6. TotalsOf(g, S, Ports(flows))
    BY <2>2, <2>3, CountedTotals
  <2>7. Totals(g, S, LAMBDA f : f.dport)
    BY <2>5, <2>6 DEF TotalsOf, Totals
  <2> QED BY <2>4, <2>7
<1>8. ASSUME NEW g \in ToSet(horizontal)
      PROVE  Totals(g, {i \in Positions : Across(flows[i]) = g.key}, LAMBDA f : f.dst)
  <2> DEFINE S == Mine(Acrosses(flows), Len(flows), g.key)
  <2>1. PICK c \in 1..Len(horizontal) : g = horizontal[c]
    BY <1>2 DEF ToSet
  <2>2. S \in SUBSET (1..Len(flows)) /\ IsFiniteSet(S)
    <3>1. Len(flows) \in 0..Len(flows)
      BY <1>2
    <3> QED BY <1>2, <3>1, MineFacts
  <2>3. Counted(g, flows, Hosts(flows), S)
    BY <1>4, <2>1 DEF RowInv, SweepInv
  <2>4. {i \in Positions : Across(flows[i]) = g.key} = S
    BY <1>2, FlowFacts DEF Positions, Mine
  <2>5. {Hosts(flows)[i] : i \in S} = {flows[i].dst : i \in S}
    BY <2>2 DEF Hosts
  <2> HIDE DEF S
  <2>6. TotalsOf(g, S, Hosts(flows))
    BY <2>2, <2>3, CountedTotals
  <2>7. Totals(g, S, LAMBDA f : f.dst)
    BY <2>5, <2>6 DEF TotalsOf, Totals
  <2> QED BY <2>4, <2>7
<1> QED BY <1>5, <1>6, <1>7, <1>8

-----------------------------------------------------------------------------
(* The theorems *)

\* TotalsAddUp, for every capture: each flow is in one conversation and in
\* one group of each sweep axis, and what a group holds is what its flows add
\* up to, however many there are and whichever limits cut it off.
THEOREM EveryFlowCounted == Spec => []TotalsAddUp
<1>1. HInv => TotalsAddUp
  BY TotalsAddUpHolds
<1> QED BY <1>1, HuntInvariant, PTL

\* FindingsHaveCause, for every capture: find_scans and find_beacons accuse a
\* host on flows of its own, targets or starts enough and, for a scan, a share
\* of attempts in vain that is no less than the score; and with networks declared
\* who calls is inside them, and whom it calls is named by them.
THEOREM AccusedOnOwnTraffic == Spec => []FindingsHaveCause
<1>1. HInv => FindingsHaveCause
  BY FindingsHaveCauseHolds
<1> QED BY <1>1, HuntInvariant, PTL

\* SilentSweepFound, for every capture: no silent sweep of a host over
\* MIN_FANOUT ports gets past find_scans, whatever else is in the capture and
\* although targets and starts are capped.
THEOREM SilentSweepsReported == Spec => []SilentSweepFound
<1>1. HInv => SilentSweepFound
  BY SilentSweepFoundHolds
<1> QED BY <1>1, HuntInvariant, PTL

\* OnlyScopeOutranks, for every capture: in the order of Summary.ranked a
\* higher score comes later only if the scope of the other lifts its severity.
THEOREM RankedByScoreAndScope == Spec => []OnlyScopeOutranks
<1>1. HInv => OnlyScopeOutranks
  BY OnlyScopeOutranksHolds
<1> QED BY <1>1, HuntInvariant, PTL
=============================================================================
