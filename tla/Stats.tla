--------------------------------- MODULE Stats ---------------------------------
(***************************************************************************)
(* The statistics of baselines and samples (baseline/stats.rs). Values are *)
(* integers; where the code divides, a result is kept as an exact multiple *)
(* of itself (the name says which), so that every comparison of the code   *)
(* is decided as over the reals. Values that are not finite, which the     *)
(* code filters out, do not occur; a sequence is never empty here, its     *)
(* callers test that (None in the code).                                   *)
(***************************************************************************)
EXTENDS Integers, Sequences, FiniteSets, SequencesExt

Magnitude(n) == IF n < 0 THEN -n ELSE n

(* The values in ascending order, of equal ones the first one first.         *)
Sorted(s) ==
    LET Below(i) == {j \in DOMAIN s : s[j] < s[i] \/ (s[j] = s[i] /\ j < i)}
    IN  [n \in DOMAIN s |-> s[CHOOSE i \in DOMAIN s : Cardinality(Below(i)) = n - 1]]

(* Twice the median: the two values in the middle, which for an odd number   *)
(* of values are one and the same.                                           *)
MedianTwice(s) ==
    Sorted(s)[(Len(s) + 1) \div 2] + Sorted(s)[(Len(s) \div 2) + 1]

(* Four times the median absolute deviation, from the doubled median.        *)
MadTimes4(s) == MedianTwice([i \in DOMAIN s |-> Magnitude(2 * s[i] - MedianTwice(s))])

(* |z_score(value)| > tenths / 10, with z = 0.6745 * (value - median) / MAD;  *)
(* without spread the z-score is 0.                                          *)
Exceeds(value, history, tenths) ==
    /\ MadTimes4(history) # 0
    /\ 2 * 6745 * Magnitude(2 * value - MedianTwice(history))
           > tenths * 1000 * MadTimes4(history)

(* Mutant: the nearest value below.                                         *)
Percentile100Below(s, p) == 100 * Sorted(s)[((p * (Len(s) - 1)) \div 100) + 1]

(* A hundred times the p-th percentile, interpolated between two neighbours.  *)
Percentile100(s, p) ==
    LET rank == p * (Len(s) - 1)
        low == (rank \div 100) + 1
        frac == rank % 100
    IN  IF frac = 0
        THEN 100 * Sorted(s)[low]
        ELSE (100 - frac) * Sorted(s)[low] + frac * Sorted(s)[low + 1]

SumOver(f) ==
    LET Upto[n \in 0..Len(f)] == IF n = 0 THEN 0 ELSE Upto[n - 1] + f[n]
    IN  Upto[Len(f)]

(* The regression line through n samples: its slope is                       *)
(* 2 * SlopeRise / (n * SlopeRun), with the deviations of the indices doubled *)
(* and those of the values taken n times.                                    *)
SlopeRise(s) == SumOver([i \in DOMAIN s |-> (2 * i - Len(s) - 1) * (Len(s) * s[i] - SumOver(s))])
SlopeRun(s) == SumOver([i \in DOMAIN s |-> (2 * i - Len(s) - 1) * (2 * i - Len(s) - 1)])

(* Flat below 5% of the median, or 0.01 where that is less.                   *)
IsFlat(s) ==
    LET p50 == Magnitude(Percentile100(s, 50))
    IN  \/ Len(s) < 2
        \/ 4000 * Magnitude(SlopeRise(s)) < Len(s) * SlopeRun(s) * (IF p50 > 20 THEN p50 ELSE 20)

Trend(s) ==
    IF IsFlat(s) THEN "flat" ELSE IF SlopeRise(s) > 0 THEN "rising" ELSE "falling"

(* sample_stats, every number a hundred times itself.                        *)
SampleStats(s) ==
    [p50 |-> Percentile100(s, 50), p95 |-> Percentile100(s, 95), p99 |-> Percentile100(s, 99),
     min |-> 100 * Sorted(s)[1], max |-> 100 * Sorted(s)[Len(s)], trend |-> Trend(s)]
===============================================================================
