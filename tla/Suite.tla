------------------------------- MODULE Suite -------------------------------
(***************************************************************************)
(* What fsperf promises about the order of its work, with everything that  *)
(* happens inside a run hidden: the runs asked for are numbered, a process *)
(* works them off in that order, a run leaves at most one row, and only a  *)
(* test that may declare itself "not run" is passed over without a row.    *)
(* The three nested loops of src/fsperf.py are one counter here.           *)
(***************************************************************************)
EXTENDS Naturals

CONSTANTS
  Total,     \* number of runs of the whole suite
  Skippable  \* numbers of the runs whose test may raise NotRunException

VARIABLES
  status,    \* "running", "done", "failed" or "killed"
  starts,    \* number of times fsperf has been started
  from, next, upto, \* runs from..upto-1 were asked for, next is the next one
  rows       \* <<start, run number>> of every row

vars == <<status, starts, from, next, upto, rows>>

Ask == \E a, b \in 0..Total : a <= b /\ from' = a /\ next' = a /\ upto' = b

Init ==
  /\ status = "running" /\ starts = 1 /\ rows = {}
  /\ from \in 0..Total /\ next = from /\ upto \in from..Total

Record ==
  /\ status = "running" /\ next < upto /\ next' = next + 1
  /\ rows' = rows \cup {<<starts, next>>}
  /\ UNCHANGED <<status, starts, from, upto>>

Skip ==
  /\ status = "running" /\ next < upto /\ next \in Skippable /\ next' = next + 1
  /\ UNCHANGED <<status, starts, from, upto, rows>>

Finish ==
  /\ status = "running" /\ next = upto /\ status' = "done"
  /\ UNCHANGED <<starts, from, next, upto, rows>>

Abort ==
  /\ status = "running" /\ status' \in {"failed", "killed"}
  /\ UNCHANGED <<starts, from, next, upto, rows>>

Restart ==
  /\ status # "running" /\ status' = "running" /\ starts' = starts + 1 /\ Ask
  /\ UNCHANGED rows

Next == Record \/ Skip \/ Finish \/ Abort \/ Restart

Spec == Init /\ [][Next]_vars

\* The rows of a start are those of the runs before next, save the skippable
\* ones: nothing is recorded ahead of its turn and nothing is left out.
RowsInOrder ==
  \A n \in 0..Total :
    /\ <<starts, n>> \in rows => from <= n /\ n < next
    /\ from <= n /\ n < next /\ n \notin Skippable => <<starts, n>> \in rows
=============================================================================
