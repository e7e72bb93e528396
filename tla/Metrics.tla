------------------------------- MODULE Metrics -------------------------------
(***************************************************************************)
(* The arithmetic of the reports (src/utils.py): the average of a metric   *)
(* over several runs, and when a value counts as better or worse than it.  *)
(*                                                                         *)
(* A run's values are a partial function from metrics to numbers, what     *)
(* results_to_dict makes of the run's sub-results.  A mean and a standard  *)
(* deviation are kept as the count, the sum and the sum of squares they    *)
(* are computed from, so that all comparisons are exact; the code's floats *)
(* may differ from it where both sides are equal but for rounding.         *)
(***************************************************************************)
EXTENDS Integers, FiniteSets, FiniteSetsExt

CONSTANTS
  Keys,                 \* metrics
  Words,                \* "bytes", "calls", "_iops", "_ns_", "id": those in the name of a metric
  HigherKeys,           \* METRIC_DIRECTIONS: the metrics with HIGHER_IS_BETTER
  test_regression_keys  \* metrics that fail the whole test

ASSUME KeysAssumption ==
  /\ Words \in [Keys -> SUBSET {"bytes", "calls", "_iops", "_ns_", "id"}]
  /\ HigherKeys \subseteq Keys /\ test_regression_keys \subseteq Keys
  \* Four of them: one is more than a tenth.
  /\ IsFiniteSet(test_regression_keys) /\ Cardinality(test_regression_keys) <= 10

Averages == [n : Nat \ {0}, sum : Nat, sq : Nat]

\* metric_direction(k) = HIGHER_IS_BETTER: the first word found decides.
HigherIsBetter(k) ==
  \/ "bytes" \in Words[k]
  \/ "calls" \notin Words[k] /\ "_iops" \in Words[k]
  \/ Words[k] \subseteq {"id"} /\ k \in HigherKeys

Average(V) == [n |-> Cardinality(V), sum |-> MapThenSumSet(LAMBDA v : v[2], V),
               sq |-> MapThenSumSet(LAMBDA v : v[2] * v[2], V)]
Single(v) == [n |-> 1, sum |-> v, sq |-> v * v]

\* A metric that some of the runs lack is averaged over the others.
avg_results(R) ==
  [k \in UNION {DOMAIN r.values : r \in R} |->
     Average({<<r, r.values[k]>> : r \in {r \in R : k \in DOMAIN r.values}})]

\* Mutation: the distance of the means, whatever its direction.
Gap_Unsigned(a, b) ==
  IF a.sum * b.n > b.sum * a.n THEN a.sum * b.n - b.sum * a.n ELSE b.sum * a.n - a.sum * b.n

\* The mean of a less that of b, times both counts.
Gap(a, b) == a.sum * b.n - b.sum * a.n

\* The mean of b is more than 1.96 standard deviations of a away from the mean
\* of a: the squares of both sides, times n * n * (n - 1) * 25 * 25.
Significant(a, b) ==
  IF a.n = 1 THEN Gap(a, b) # 0
  ELSE 625 * Gap(a, b) * Gap(a, b) * (a.n - 1)
         > 2401 * (a.n * a.sq - a.sum * a.sum) * a.n * b.n * b.n

Below(a, b) == Gap(a, b) > 0 /\ Significant(a, b)
Above(a, b) == Gap(a, b) < 0 /\ Significant(a, b)

\* The colour of a row of the comparison table.
diff_string(a, b, k) ==
  IF (Below(a, b) /\ HigherIsBetter(k)) \/ (Above(a, b) /\ ~HigherIsBetter(k)) THEN "red"
  ELSE IF (Above(a, b) /\ HigherIsBetter(k)) \/ (Below(a, b) /\ ~HigherIsBetter(k)) THEN "green"
  ELSE "default"

\* A metric is shown if both sides have it and not both of its means are 0.
comparison_table(A, B) ==
  [k \in {k \in DOMAIN A \cap DOMAIN B : A[k].sum # 0 \/ B[k].sum # 0} |->
     diff_string(A[k], B[k], k)]

\* Mutation: a single standard deviation.
Beyond_OneSigma(a, d) == a.n = 1 \/ d * d * (a.n - 1) > a.n * (a.n * a.sq - a.sum * a.sum)

\* check_regression computes thresholds of its own: a value whose distance from
\* the mean, times the count, is d # 0 lies more than 1.96 deviations away from it.
Beyond(a, d) == a.n = 1 \/ 625 * d * d * (a.n - 1) > 2401 * a.n * (a.n * a.sq - a.sum * a.sum)

\* Mutation: the wrong side counts.
Regresses_Swapped(a, v, k) ==
  LET d == v * a.n - a.sum IN
  Beyond(a, d) /\ IF HigherIsBetter(k) THEN d > 0 ELSE d < 0

\* check_regression's verdict on one metric.
Regresses(a, v, k) ==
  LET d == v * a.n - a.sum IN
  Beyond(a, d) /\ IF HigherIsBetter(k) THEN d < 0 ELSE d > 0

\* The metrics check_regression looks at: it returns at the first one that the
\* recent run lacks, in an order that depends on the runs of the baseline.
Examined(baseline, recent) ==
  IF DOMAIN baseline \subseteq DOMAIN recent THEN {DOMAIN baseline}
  ELSE SUBSET (DOMAIN baseline \cap DOMAIN recent)

\* Mutation: without headline metrics the threshold is 0.
check_regression_NoMinimum(baseline, recent, seen) ==
  LET regress == seen \cap test_regression_keys
      fail == {k \in regress : Regresses(baseline[k], recent[k], k)}
  IN seen = DOMAIN baseline /\ 100 * Cardinality(fail) >= 10 * Cardinality(regress)

\* Its result, having looked at seen: a tenth of the headline metrics.
check_regression(baseline, recent, seen) ==
  LET regress == seen \cap test_regression_keys
      fail == {k \in regress : Regresses(baseline[k], recent[k], k)}
      fail_thresh == IF regress = {} THEN 100 ELSE 10 * Cardinality(regress)
  IN seen = DOMAIN baseline /\ 100 * Cardinality(fail) >= fail_thresh
=============================================================================
