----------------------------- MODULE MCReports -----------------------------
(* Instances of Reports for TLC: metrics and what runs measure.             *)
EXTENDS Reports

\* A headline metric, one that is not, and the metric of a traced function.
WordsOf == [k \in Keys |-> CASE k = "iops" -> {"_iops"} [] k = "calls" -> {"calls"} [] OTHER -> {}]

Shape(e) == [k \in {"elapsed"} |-> e]
Shape2(e, i) == [k \in {"elapsed", "iops"} |-> IF k = "elapsed" THEN e ELSE i]
Bare == [k \in {"iops"} |-> 0]

\* Runs as fast and slower, one with a metric more and one without the headline
\* metric; and two of a label: 13 is between one and 1.96 of their deviations off.
RunsOf ==
  [purpose : {"continuous"}, values : {Shape(10), Shape(13), Shape2(10, 5), Bare}] \cup
  [purpose : {"ab"}, values : {Shape(10), Shape2(12, 5)}]

WindowsOf == <<0, 1, 2, 3>>
=============================================================================
