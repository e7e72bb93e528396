---------------------------- MODULE Suite_proofs ----------------------------
(* The order of the rows, proved of the abstract suite.                     *)
EXTENDS Suite, TLAPS

SuiteInv ==
  /\ Total \in Nat /\ starts \in Nat /\ from \in Nat /\ next \in Nat /\ upto \in 0..Total
  /\ from <= next /\ next <= upto
  /\ \A r \in rows : r[1] \in Nat /\ r[1] <= starts
  /\ RowsInOrder

\* For every number of runs: at any time the rows of the current start are
\* those of the runs it is past, except skippable ones.
THEOREM Order == ASSUME Total \in Nat PROVE Spec => []RowsInOrder
<1>1. Init => SuiteInv
  BY DEF Init, SuiteInv, RowsInOrder
<1>2. SuiteInv /\ [Next]_vars => SuiteInv'
  <2>. SUFFICES ASSUME SuiteInv, [Next]_vars PROVE SuiteInv'
    OBVIOUS
  <2>. USE DEF SuiteInv, RowsInOrder
  <2>1. CASE Record
    BY <2>1 DEF Record
  <2>2. CASE Skip
    BY <2>2 DEF Skip
  <2>3. CASE Finish \/ Abort \/ UNCHANGED vars
    BY <2>3 DEF Finish, Abort, vars
  <2>4. CASE Restart
    <3>1. \A n \in 0..Total : <<starts + 1, n>> \notin rows
      OBVIOUS
    <3>. QED  BY <2>4, <3>1 DEF Restart, Ask
  <2>. QED  BY <2>1, <2>2, <2>3, <2>4 DEF Next
<1>3. SuiteInv => RowsInOrder
  BY DEF SuiteInv
<1>. QED  BY <1>1, <1>2, <1>3, PTL DEF Spec
=============================================================================
