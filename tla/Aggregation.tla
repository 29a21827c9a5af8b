----------------------------- MODULE Aggregation ----------------------------
(***************************************************************************)
(* The aggregation strategies that keep no state from call to call, for    *)
(* models of one weight: FedAvg and its staleness-weighted variant,        *)
(* TrimmedMean, Krum and MultiKrum.  A result is a fraction, exact.        *)
(***************************************************************************)
EXTENDS Integers, Sequences, SequencesExt, FiniteSets, FiniteSetsExt

CONSTANTS
    Cases,          \* what aggregate is called with, see Case below
    NumByzantines,  \* f, of Krum
    TrimNum,        \* trim_ratio = TrimNum / TrimDen
    TrimDen,
    StaleCoef,      \* staleness_coefficient
    CurrentRound    \* set_round

\* An update: its weight, the sender's number of samples, the round it is of,
\* whether its sender works as it should, and whether it is a finite number
ModelUpdate == [x : Int, samples : Nat, round : Nat, honest : BOOLEAN, finite : BOOLEAN]
Case == [strategy : {"uniform", "data_size", "staleness", "trimmed", "krum", "multikrum"},
         updates : Seq(ModelUpdate)]

ASSUME AggregationAssumption ==
    /\ Cases \subseteq Case
    /\ NumByzantines \in Nat /\ TrimNum \in Nat /\ TrimDen \in Nat \ {0}
    /\ 2 * TrimNum < TrimDen /\ StaleCoef \in Nat /\ CurrentRound \in Nat

VARIABLES
    case,       \* the call
    result      \* what it answers

aVars == <<case, result>>

AInit == case \in Cases /\ result = [kind |-> "none"]

Fraction(n, d) == [kind |-> "weights", num |-> n, den |-> d]
Raises == [kind |-> "raises"]
Abs(x) == IF x < 0 THEN -x ELSE x

\* The sum and the product of a sequence of numbers
Total(s) ==
    LET t[i \in 0..Len(s)] == IF i = 0 THEN 0 ELSE t[i - 1] + s[i] IN t[Len(s)]
Product(s) ==
    LET t[i \in 0..Len(s)] == IF i = 0 THEN 1 ELSE t[i - 1] * s[i] IN t[Len(s)]

\* np.sort: in place j is the value that fewer than j are below, and j are not above
Ascending(xs) ==
    [j \in DOMAIN xs |->
        CHOOSE v \in Range(xs) : /\ Cardinality({i \in DOMAIN xs : xs[i] < v}) < j
                                 /\ Cardinality({i \in DOMAIN xs : xs[i] <= v}) >= j]

\* _validate_updates; the senders differ, as the aggregator sees to it
Valid(us) == us # <<>> /\ \A u \in ToSet(us) : u.finite

-----------------------------------------------------------------------------
(* FedAvg.                                                                   *)

\* aggregate with the weights given: a total of 0 is replaced by the number of
\* updates, the weights stay
Average(us, weights) ==
    Fraction(Total([i \in DOMAIN us |-> weights[i] * us[i].x]),
             IF Total(weights) = 0 THEN Len(us) ELSE Total(weights))

FedAvg(us, by) ==
    Average(us, [i \in DOMAIN us |-> IF by = "uniform" THEN 1 ELSE us[i].samples])

\* StalenessWeightedFedAvg: samples / (1 + coefficient * staleness), all times
\* the product of the denominators.  Without a round set, the newest one counts.
Staleness(us) ==
    LET now == IF CurrentRound = 0 THEN Max({us[i].round : i \in DOMAIN us}) ELSE CurrentRound
        den == [i \in DOMAIN us |->
                   1 + StaleCoef * (IF now > us[i].round THEN now - us[i].round ELSE 0)]
        weights == [i \in DOMAIN us |-> us[i].samples * (Product(den) \div den[i])]
    IN IF Total(weights) = 0 THEN Raises ELSE Average(us, weights)

-----------------------------------------------------------------------------
(* TrimmedMean.                                                              *)

\* Mutant: only the smallest values are trimmed.
TrimSmallest(xs, k) == SubSeq(xs, k + 1, Len(xs))

\* sorted_values[k:n-k]
Trim(xs, k) == SubSeq(xs, k + 1, Len(xs) - k)

TrimmedMean(us) ==
    LET n == Len(us)
        kept == Trim(Ascending([i \in 1..n |-> us[i].x]), (n * TrimNum) \div TrimDen)
    IN IF n < 3 THEN Raises ELSE Fraction(Total(kept), Len(kept))

-----------------------------------------------------------------------------
(* Krum.                                                                     *)

\* _compute_scores: the sum of the n - f - 2 smallest distances to the others
KrumScore(us, i) ==
    LET others == [j \in 1..Len(us) - 1 |-> us[IF j < i THEN j ELSE j + 1]]
        dist == [j \in DOMAIN others |-> Abs(us[i].x - others[j].x)]
    IN Total(SubSeq(Ascending(dist), 1, Len(us) - NumByzantines - 2))

EnoughForKrum(us) == Len(us) >= 2 * NumByzantines + 3

\* The sets of m updates with the smallest scores; argsort leaves ties open
Closest(us, m) ==
    {S \in kSubset(m, DOMAIN us) :
        \A i \in S, j \in DOMAIN us \ S : KrumScore(us, i) <= KrumScore(us, j)}

\* argmin takes the first one
KrumPick(us) ==
    Min({i \in DOMAIN us : \A j \in DOMAIN us : KrumScore(us, i) <= KrumScore(us, j)})

Picked(us, S) == LET s == SetToSeq(S) IN [i \in DOMAIN s |-> us[s[i]]]

-----------------------------------------------------------------------------
\* What aggregate answers for a call
Answers(c) ==
    LET us == c.updates
    IN IF ~Valid(us) THEN {Raises}
       ELSE CASE c.strategy \in {"uniform", "data_size"} -> {FedAvg(us, c.strategy)}
              [] c.strategy = "staleness" -> {Staleness(us)}
              [] c.strategy = "trimmed" -> {TrimmedMean(us)}
              [] c.strategy = "krum" ->
                   {IF EnoughForKrum(us) THEN Fraction(us[KrumPick(us)].x, 1) ELSE Raises}
              [] c.strategy = "multikrum" ->
                   IF EnoughForKrum(us)
                   THEN {FedAvg(Picked(us, S), "uniform")
                            : S \in Closest(us, Len(us) - 2 * NumByzantines)}
                   ELSE {Raises}

Aggregate ==
    /\ result.kind = "none"
    /\ result' \in Answers(case)
    /\ UNCHANGED case

ANext == Aggregate

ASpec == AInit /\ [][ANext]_aVars

-----------------------------------------------------------------------------
(* Properties.                                                               *)

Honest == {u \in ToSet(case.updates) : u.honest}
Faulty == Cardinality({i \in DOMAIN case.updates : ~case.updates[i].honest})
Within(lo, hi) == result.den * lo <= result.num /\ result.num <= result.den * hi

\* How far from the nearest honest update, times (n - 2f - 1), a choice of Krum
\* may be
KrumReach ==
    (Len(case.updates) - NumByzantines - 2)
        * (Max({u.x : u \in Honest}) - Min({u.x : u \in Honest}))

\* The strategies keep the influence of faulty updates in bounds: the trimmed
\* mean lies between honest updates while no more are faulty than are trimmed
\* on a side; with up to f faulty, Krum and MultiKrum end up no farther from
\* the honest ones than the score of an honest update allows, wherever the
\* faulty ones lie and however ties are broken; and a weighted average lies
\* between the updates that have a weight at all.
Robust ==
    result.kind = "weights" =>
        LET us == case.updates
            n == Len(us)
            lo == Min({u.x : u \in Honest})
            hi == Max({u.x : u \in Honest})
            slack == n - 2 * NumByzantines - 1
        IN CASE case.strategy = "trimmed" ->
                  Faulty <= (n * TrimNum) \div TrimDen => Within(lo, hi)
             [] case.strategy \in {"krum", "multikrum"} ->
                  Faulty <= NumByzantines =>
                     /\ slack * result.num <= result.den * (slack * hi + KrumReach)
                     /\ slack * result.num >= result.den * (slack * lo - KrumReach)
             [] OTHER ->
                  LET heard == {u \in ToSet(us) : case.strategy = "uniform" \/ u.samples > 0}
                  IN heard # {} => Within(Min({u.x : u \in heard}), Max({u.x : u \in heard}))
=============================================================================
