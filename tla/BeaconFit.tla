----------------------------- MODULE BeaconFit -----------------------------
(***************************************************************************)
(* The period a conversation is given by detect/beacon.py in               *)
(* src/pcapinator: score_group sorts the starts of its flows, takes the    *)
(* gaps between them, and _best_fit tries one candidate period after the   *)
(* other, the largest first.                                               *)
(*                                                                         *)
(* Gaps are whole numbers of Unit, a number every multiple up to MAX_FOLD  *)
(* divides, so that a gap divided by a multiple is an integer here; a      *)
(* deviation is kept doubled, for the median of an even number of values.  *)
(* Qualities are compared as fractions, where the code allows 1e-9 for the *)
(* rounding of floats.  What is only sorted, counted or added up is kept   *)
(* by position in the list of gaps.  Of the three scores that modulate the *)
(* quality skew is modelled; coverage, and the grouping by address and     *)
(* port, are in FlowHunt.                                                  *)
(***************************************************************************)
EXTENDS Integers, Sequences, FiniteSetsExt

CONSTANTS
    Gaps,             \* gaps between the starts of two flows, in Units
    MinConnections,   \* MIN_CONNECTIONS
    MaxCandidates,    \* MAX_CANDIDATE_DELTAS
    MaxGaps           \* bound of the model: gaps of the conversation

ASSUME GapsAssumption ==
    Gaps \subseteq Nat /\ MaxCandidates \in Nat \ {0} /\ MinConnections \in Nat \ {0, 1}

MAX_FOLD == 6
Unit == 60
FoldTolerance == 35    \* FOLD_TOLERANCE, in hundredths
NoFit == [period |-> 0, missed |-> 0, deviation |-> 0, agreeing |-> 0]

Abs(n) == IF n < 0 THEN -n ELSE n

\* sorted(values)[k - 1]: fewer than k values are below it, and k up to it.
Kth(values, k) ==
    CHOOSE v \in {values[i] : i \in DOMAIN values} :
        /\ Cardinality({i \in DOMAIN values : values[i] < v}) < k
        /\ k <= Cardinality({i \in DOMAIN values : values[i] <= v})

Number(values) == Cardinality(DOMAIN values)

VARIABLES
    deltas,    \* gaps of more than zero between the sorted starts
    flows,     \* flows of the conversation
    stage,     \* "capture", "fit" or "done"
    left,      \* candidate periods not tried yet
    best       \* the best fit so far

fvars == <<deltas, flows, stage, left, best>>

FitInit == deltas = <<>> /\ flows = 1 /\ stage = "capture" /\ left = {} /\ best = NoFit

\* The next flow to start; one that starts with the last leaves no gap.
Callback(gap) ==
    /\ stage = "capture" /\ flows <= MaxGaps
    /\ flows' = flows + 1
    /\ deltas' = IF gap > 0 THEN Append(deltas, gap * Unit) ELSE deltas
    /\ UNCHANGED <<stage, left, best>>

-----------------------------------------------------------------------------
(* _fit *)

\* The multiple of the period a gap is folded by, if it lands near one.
Multiples(delta, period) ==
    {m \in 1..MAX_FOLD : 100 * Abs(delta - m * period) <= FoldTolerance * period}

Agreeing(gaps, period) == {i \in DOMAIN gaps : Multiples(gaps[i], period) # {}}

Multiple(delta, period) == CHOOSE m \in Multiples(delta, period) : TRUE

\* Mutant: the lower of two values in the middle, not their mean.
MedianLow(values) == 2 * Kth(values, (Number(values) + 1) \div 2)

\* statistics.median, doubled
Median(values) ==
    Kth(values, (Number(values) + 1) \div 2) + Kth(values, Number(values) \div 2 + 1)

\* Mutant: deviation is measured against the median of the folded gaps.
DeviationOwn(folded, period) ==
    Median([i \in DOMAIN folded |-> Abs(folded[i] - Median(folded) \div 2)])

Deviation(folded, period) ==
    Median([i \in DOMAIN folded |-> Abs(folded[i] - period)])

\* Each agreeing gap, divided by its multiple.
Folded(gaps, period) ==
    [i \in Agreeing(gaps, period) |-> gaps[i] \div Multiple(gaps[i], period)]

\* One less than its multiple for each of them.
Missed(gaps, period) ==
    Cardinality(UNION {{i} \X (1..Multiple(gaps[i], period) - 1) : i \in Agreeing(gaps, period)})

Fit(gaps, period) ==
    IF Agreeing(gaps, period) = {} THEN NoFit
    ELSE [period |-> period,
          missed |-> Missed(gaps, period),
          deviation |-> Deviation(Folded(gaps, period), period),
          agreeing |-> Cardinality(Agreeing(gaps, period))]

\* fit.quality > other.quality, the number of gaps they have in common
\* cancelled: quality is (1 - deviation / period), clamped, times agreement.
Share(fit) == Max({0, 2 * fit.period - fit.deviation}) * fit.agreeing
Better(fit, other) == Share(fit) * other.period > Share(other) * fit.period

-----------------------------------------------------------------------------
(* _best_fit *)

\* The places in the sorted gaps that are sampled.
Sample(n) ==
    IF n <= MaxCandidates THEN 1..n
    ELSE {((i - 1) * n) \div MaxCandidates + 1 : i \in 1..MaxCandidates}

\* Each gap sampled divided by each multiple, down to half the shortest gap.
Candidates(gaps) ==
    {c \in {Kth(gaps, k) \div m : k \in Sample(Len(gaps)), m \in 1..MAX_FOLD} :
        2 * c >= Kth(gaps, 1)}

\* The flow table has been drained: the conversation is scored, unless it has
\* too few connections or too few that started apart.
ScoreGroup ==
    /\ stage = "capture"
    /\ IF flows < MinConnections \/ Len(deltas) < MinConnections - 1
       THEN stage' = "done" /\ left' = {}
       ELSE stage' = "fit" /\ left' = Candidates(deltas)
    /\ UNCHANGED <<deltas, flows, best>>

\* The largest candidate left is tried; a tie stays with the one before.
Try(period) ==
    /\ stage = "fit" /\ \A c \in left : c <= period
    /\ left' = left \ {period}
    /\ LET fit == Fit(deltas, period) IN
       best' = IF fit # NoFit /\ (best = NoFit \/ Better(fit, best)) THEN fit ELSE best
    /\ UNCHANGED <<deltas, flows, stage>>

Tried == stage = "fit" /\ left = {} /\ stage' = "done" /\ UNCHANGED <<deltas, flows, left, best>>

FitNext ==
    \/ \E gap \in Gaps : Callback(gap)
    \/ ScoreGroup
    \/ \E period \in left : Try(period)
    \/ Tried

FitSpec == FitInit /\ [][FitNext]_fvars

-----------------------------------------------------------------------------
(* score_group, once the period is chosen *)

\* _quantile at k quarters, times four
Quartile(values, k) ==
    LET at == k * (Number(values) - 1)
        low == Kth(values, at \div 4 + 1)
        high == Kth(values, Min({at \div 4 + 2, Number(values)}))
    IN  4 * low + (high - low) * (at % 4)

\* _bowley_skew, as a fraction; it is zero when there is no spread.
Skew(values) ==
    [lean   |-> Quartile(values, 3) + Quartile(values, 1) - 2 * Quartile(values, 2),
     spread |-> Quartile(values, 3) - Quartile(values, 1)]

-----------------------------------------------------------------------------

Scored == stage = "done" /\ best # NoFit

\* How many of the gaps are exactly d.
Times(gaps, d) == Cardinality({i \in DOMAIN gaps : gaps[i] = d})

Exact(gaps, period) ==
    \A i \in DOMAIN gaps : \E m \in 1..MAX_FOLD : gaps[i] = m * period

\* The check-ins of a schedule that fall within the gaps, by gap.
CheckIns(gaps, period) ==
    UNION {{i} \X {k \in 1..MAX_FOLD : k * period < gaps[i]} : i \in DOMAIN gaps}

(* MissesFolded: an implant that keeps its schedule more often than not    *)
(* and misses up to five check-ins at a time is given its own period, and  *)
(* every check-in it missed is counted, wherever in the conversation the   *)
(* misses are and whichever gaps the candidates are sampled from.          *)
MissesFolded ==
    Scored => \A i \in DOMAIN deltas :
        LET period == deltas[i] IN
        Exact(deltas, period) /\ 2 * Times(deltas, period) > Len(deltas) =>
            /\ best.period = period
            /\ best.missed = Cardinality(CheckIns(deltas, period))
            /\ best.deviation = 0 /\ best.agreeing = Len(deltas)

(* StragglersForgiven: whatever schedules are mixed in a conversation, the *)
(* period it is given looks perfect, without deviation, exactly when more  *)
(* than half of the folded gaps are on it: stragglers on either side do    *)
(* not count until there are as many of them, and then they do.  Fewer     *)
(* than a quarter of them are not held against the schedule as skew        *)
(* either, and skew is a share however many there are.                     *)
StragglersForgiven ==
    Scored =>
        LET folded == Folded(deltas, best.period)
            skew == Skew(folded)
            off == {i \in DOMAIN folded : folded[i] # best.period}
        IN  /\ best.deviation = 0 <=> 2 * Cardinality(off) < Number(folded)
            /\ 4 * Cardinality(off) < Number(folded) => skew.lean = 0
            /\ Abs(skew.lean) <= skew.spread
=============================================================================
