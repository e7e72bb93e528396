--------------------------- MODULE Fsperf_proofs ---------------------------
(* The safety of A/B testing, proved for all sections, tests, command lines, *)
(* windows and numbers of processes.                                         *)
EXTENDS Fsperf, TLAPS

USE DaysAssumption, CommandAssumption DEF Ended, Configs

LEMMA InvocationType ==
  ASSUME NEW a \in Invocations
  PROVE  /\ a.testonly \in BOOLEAN /\ a.purpose \in Purposes /\ a.sections \subseteq Sections
         /\ a.compare \in Sections \cup {None} /\ a.fragmentation \in BOOLEAN /\ a.numruns \in Nat
  OBVIOUS

\* What the process runs is in one of its sections, or a oneoff.
LEMMA JobsType ==
  ASSUME args \in Invocations, NEW n \in SUBSET Nat, NEW j \in JobsOf(n)
  PROVE  /\ j \in Jobs
         /\ j.config # "oneoff" => j.config \in args.sections /\ j.test \in Loaded \ Oneoff
  BY InvocationType DEF JobsOf, Jobs, Wanted, Loaded

\* Queries return rows of the table.
LEMMA ResultsAreRows ==
  \A name, config, purpose, today, window :
    get_results(name, config, purpose, today, window) \subseteq db
  BY DEF get_results

\* clean_testonly deletes the rows in scope that are at most CleanDays old.
LEMMA WhatIsCleaned ==
  TestOnlyRows = {r \in db : InScope(r) /\ r.day + CleanDays >= day}
<1>1. \A r : r \in TestOnlyRows <=>
        \E t \in Loaded \ Oneoff, s \in args.sections : r \in get_results(t, s, TestOnly, day, CleanDays)
  BY DEF TestOnlyRows
<1>. QED  BY <1>1 DEF get_results, InScope

LEMMA InitInv == Init => IndInv
  BY DEF Init, IndInv, TypeOK, ProcessInv, OwnRowsInv, LeftoversInv, PendingInv, ReportIsOwn,
         OnlyDiedLeaveRows

-----------------------------------------------------------------------------
(* Steps that do not touch the rows, or only take rows away.                *)

\* Whoever deletes rows, and nothing else, leaves the invariant as it is.
LEMMA FewerRows ==
  ASSUME IndInv, db' \subseteq db, UNCHANGED <<process, day>>
  PROVE  IndInv'
<1>. USE DEF process, InScope, Loaded
<1>1. TypeOK' /\ ProcessInv'
  BY DEF IndInv, TypeOK, ProcessInv
<1>2. OwnRowsInv' /\ LeftoversInv' /\ OnlyDiedLeaveRows'
  BY DEF IndInv, OwnRowsInv, LeftoversInv, OnlyDiedLeaveRows
<1>3. PendingInv'
  BY DEF IndInv, PendingInv, JobsOf, Wanted, want_run_test
<1>4. ReportIsOwn'
  BY DEF IndInv, ReportIsOwn
<1>. QED  BY <1>1, <1>2, <1>3, <1>4 DEF IndInv

LEMMA CleanResultsInv == IndInv /\ CleanResults => IndInv'
<1>. SUFFICES ASSUME IndInv, CleanResults PROVE IndInv'
  OBVIOUS
<1>1. db' \subseteq db
  BY DEF CleanResults
<1>. QED  BY <1>1, FewerRows DEF CleanResults

LEMMA NewDayInv == IndInv /\ NewDay => IndInv'
<1>. SUFFICES ASSUME IndInv, NewDay PROVE IndInv'
  OBVIOUS
<1>. USE DEF NewDay, process, InScope, Loaded, IndInv
<1>1. TypeOK' /\ ProcessInv'
  BY DEF TypeOK, ProcessInv
<1>2. OwnRowsInv' /\ OnlyDiedLeaveRows' /\ ReportIsOwn'
  BY DEF OwnRowsInv, OnlyDiedLeaveRows, ReportIsOwn
<1>3. LeftoversInv'
  BY DEF LeftoversInv, TypeOK, Rows
<1>4. PendingInv'
  BY DEF PendingInv, JobsOf, Wanted, want_run_test
<1>. QED  BY <1>1, <1>2, <1>3, <1>4

LEMMA StartInv == IndInv /\ Start => IndInv'
<1>. SUFFICES ASSUME IndInv, Start PROVE IndInv'
  OBVIOUS
<1>. USE DEF Start, IndInv
<1>1. args' \in Invocations /\ 1..args'.numruns \in SUBSET Nat
  BY InvocationType
<1>2. pending' \subseteq Jobs
  BY <1>1 DEF JobsOf, Jobs, Wanted, Loaded
<1>3. TypeOK'
  BY <1>1, <1>2 DEF TypeOK
<1>4. ProcessInv' /\ ReportIsOwn' /\ PendingInv'
  BY DEF ProcessInv, TypeOK, ReportIsOwn, PendingInv
<1>5. \A r \in db : r.proc # proc'
  BY DEF OwnRowsInv, TypeOK
<1>6. OwnRowsInv'
  BY <1>5 DEF OwnRowsInv, TypeOK
<1>7. LeftoversInv'
  BY DEF LeftoversInv
<1>8. OnlyDiedLeaveRows'
  BY DEF OnlyDiedLeaveRows
<1>. QED  BY <1>3, <1>4, <1>6, <1>7, <1>8

LEMMA DieInv == IndInv /\ Die => IndInv'
<1>. SUFFICES ASSUME IndInv, Die PROVE IndInv'
  OBVIOUS
<1>. USE DEF Die, IndInv, InScope, Loaded
<1>0. proc \in 1..proc
  BY DEF TypeOK, ProcessInv
<1>1. TypeOK' /\ ProcessInv' /\ LeftoversInv' /\ PendingInv'
  BY <1>0 DEF TypeOK, ProcessInv, LeftoversInv, PendingInv
<1>2. OwnRowsInv' /\ OnlyDiedLeaveRows' /\ ReportIsOwn'
  BY DEF OwnRowsInv, OnlyDiedLeaveRows, ReportIsOwn
<1>. QED  BY <1>1, <1>2

-----------------------------------------------------------------------------
(* The steps of fsperf.                                                     *)

LEMMA CleanBeforeInv == IndInv /\ CleanBefore => IndInv'
<1>. SUFFICES ASSUME IndInv, CleanBefore PROVE IndInv'
  OBVIOUS
<1>. USE DEF CleanBefore, IndInv
<1>1. db' \subseteq db
  OBVIOUS
<1>2. TypeOK' /\ ProcessInv' /\ PendingInv'
  BY <1>1 DEF TypeOK, ProcessInv, PendingInv, JobsOf, Wanted, Loaded, want_run_test
<1>3. OwnRowsInv' /\ OnlyDiedLeaveRows' /\ ReportIsOwn'
  BY <1>1 DEF OwnRowsInv, OnlyDiedLeaveRows, ReportIsOwn, InScope, Loaded
<1>4. LeftoversInv'
  <2>1. \A r \in db' : InScope(r) => r.day + CleanDays < day
    BY WhatIsCleaned DEF TypeOK, Rows
  <2>2. \A r : InScope(r)' = InScope(r)
    BY DEF InScope, Loaded
  <2>3. pc' = "run" /\ day' = day
    OBVIOUS
  <2>. QED  BY <2>1, <2>2, <2>3 DEF LeftoversInv
<1>. QED  BY <1>1, <1>2, <1>3, <1>4

LEMMA RunTestInv == IndInv /\ RunTest => IndInv'
<1>. SUFFICES ASSUME IndInv, RunTest PROVE IndInv'
  OBVIOUS
<1>. USE DEF IndInv
<1>1. PICK j \in pending :
        /\ pending' = pending \ {j}
        /\ db' \in {db, db \cup {[proc |-> proc, config |-> j.config, name |-> j.test,
                                  i |-> j.i, purpose |-> Purpose, day |-> day]}}
  BY DEF RunTest
<1>2. /\ pc = "run" /\ pc' = "run" /\ UNCHANGED <<args, proc, died, began, asof, report, day>>
      /\ report = {} /\ args \in Invocations /\ proc \in Nat /\ proc > 0 /\ day \in Nat
  BY DEF RunTest, PendingInv, TypeOK, ProcessInv
<1>. DEFINE new == [proc |-> proc, config |-> j.config, name |-> j.test,
                    i |-> j.i, purpose |-> Purpose, day |-> day]
<1>3. j \in Jobs /\ (j.config # "oneoff" => j.config \in args.sections /\ j.test \in Loaded \ Oneoff)
  BY <1>2, JobsType, InvocationType DEF PendingInv
<1>4. Purpose \in Purposes \cup {TestOnly} /\ (Purpose = TestOnly => args.testonly)
  BY <1>2, InvocationType DEF Purpose
<1>5. new \in Rows
  BY <1>2, <1>3, <1>4 DEF Rows, Jobs
<1>6. \A r \in db' : r \in db \/ r = new
  BY <1>1
<1>. HIDE DEF new
<1>7. TypeOK' /\ ProcessInv'
  BY <1>1, <1>2, <1>5, <1>6 DEF TypeOK, ProcessInv
<1>8. /\ new.proc = proc /\ new.day = day
      /\ new.purpose = TestOnly => args.testonly /\ (new.config # "oneoff" => InScope(new))
  BY <1>3, <1>4 DEF new, InScope
<1>9. OwnRowsInv' /\ LeftoversInv'
  BY <1>2, <1>6, <1>8 DEF OwnRowsInv, LeftoversInv, ProcessInv, InScope, Loaded
<1>10. OnlyDiedLeaveRows' /\ ReportIsOwn'
  BY <1>2, <1>6, <1>8 DEF OnlyDiedLeaveRows, ReportIsOwn
<1>11. PendingInv'
  BY <1>1, <1>2 DEF PendingInv, JobsOf, Wanted, Loaded, want_run_test
<1>. QED  BY <1>7, <1>9, <1>10, <1>11

LEMMA EndOfRunsInv == IndInv /\ EndOfRuns => IndInv'
<1>. SUFFICES ASSUME IndInv, EndOfRuns PROVE IndInv'
  OBVIOUS
<1>. USE DEF EndOfRuns, IndInv
<1>1. pc = "run" /\ UNCHANGED <<args, proc, died, began, report, db, day>> /\ args \in Invocations
  BY DEF TypeOK
<1>2. JobsOf({1}) \subseteq Jobs
  BY <1>1, JobsType
<1>3. TypeOK' /\ ProcessInv'
  BY <1>1, <1>2 DEF TypeOK, ProcessInv
<1>4. OwnRowsInv' /\ ReportIsOwn'
  BY <1>1 DEF OwnRowsInv, ReportIsOwn, InScope, Loaded
<1>5. LeftoversInv'
  BY <1>1 DEF LeftoversInv, InScope, Loaded
<1>6. OnlyDiedLeaveRows'
  BY <1>1 DEF OnlyDiedLeaveRows, OwnRowsInv
<1>7. PendingInv'
  BY <1>1 DEF PendingInv, JobsOf, Wanted, Loaded, want_run_test
<1>. QED  BY <1>3, <1>4, <1>5, <1>6, <1>7

\* One comparison: the rows found are those of this process, all of them.
LEMMA CompareTestInv == IndInv /\ CompareTest => IndInv'
<1>. SUFFICES ASSUME IndInv, CompareTest PROVE IndInv'
  OBVIOUS
<1>. USE DEF IndInv
<1>1. PICK j \in pending, old \in SUBSET db :
        /\ pending' = pending \ {j}
        /\ report' = IF old = {} \/ get_results(j.test, j.config, TestOnly, asof, Window) = {}
                     THEN report
                     ELSE report \cup {[config |-> j.config, test |-> j.test, old |-> old,
                            new |-> get_results(j.test, j.config, TestOnly, asof, Window)]}
  BY ResultsAreRows DEF CompareTest
<1>. DEFINE new == get_results(j.test, j.config, TestOnly, asof, Window)
            entry == [config |-> j.config, test |-> j.test, old |-> old, new |-> new]
<1>2. /\ pc = "compare" /\ pc' = "compare"
      /\ UNCHANGED <<args, proc, died, began, asof, db, day>>
      /\ args \in Invocations /\ args.testonly /\ db \subseteq Rows
  BY DEF CompareTest, TypeOK, ProcessInv
<1>3. j \in Jobs /\ (j.config # "oneoff" => j.config \in args.sections /\ j.test \in Loaded \ Oneoff)
  BY <1>2, JobsType DEF PendingInv
<1>4. entry \in Comparisons
  BY <1>2, <1>3, ResultsAreRows DEF Comparisons, Jobs
<1>5. \A e \in report' : e \in report \/ e = entry
  BY <1>1
<1>6. Window \in Nat /\ Window <= CleanDays /\ SessionDays <= Window
  BY DEF Window
<1>7. ASSUME j.config # "oneoff"
      PROVE  /\ \A r \in new : r.proc = proc
             /\ \A r \in db : /\ r.proc = proc /\ r.purpose = TestOnly
                              /\ r.config = j.config /\ r.name = j.test
                              => r \in new
  <2>1. ASSUME NEW r \in new PROVE r.proc = proc
    <3>1. r \in db /\ InScope(r) /\ r.day + Window >= asof /\ r.day \in Nat
      BY <1>2, <1>3, <1>7 DEF get_results, InScope, Rows
    <3>. QED  BY <1>2, <1>6, <3>1 DEF LeftoversInv, TypeOK
  <2>2. ASSUME NEW r \in db, r.proc = proc, r.purpose = TestOnly, r.config = j.config, r.name = j.test
        PROVE  r \in new
    <3>1. r.day >= began /\ r.day \in Nat /\ asof <= began + SessionDays
      BY <1>2, <2>2 DEF OwnRowsInv, ProcessInv, Rows
    <3>2. r.day + Window >= asof
      BY <1>6, <3>1 DEF TypeOK
    <3>. QED  BY <2>2, <3>2 DEF get_results
  <2>. QED  BY <2>1, <2>2
<1>. HIDE DEF new
<1>8. ReportIsOwn'
  <2>1. entry.config = j.config /\ entry.test = j.test /\ entry.new = new
    OBVIOUS
  <2>. HIDE DEF entry
  <2>. QED  BY <1>2, <1>5, <1>7, <2>1 DEF ReportIsOwn
<1>. HIDE DEF entry
<1>9. TypeOK' /\ ProcessInv'
  BY <1>1, <1>2, <1>4, <1>5 DEF TypeOK, ProcessInv
<1>10. OwnRowsInv' /\ LeftoversInv' /\ OnlyDiedLeaveRows'
  BY <1>2 DEF OwnRowsInv, LeftoversInv, OnlyDiedLeaveRows, InScope, Loaded
<1>11. PendingInv'
  BY <1>1, <1>2 DEF PendingInv, JobsOf, Wanted, Loaded, want_run_test
<1>. QED  BY <1>8, <1>9, <1>10, <1>11

LEMMA EndOfReportInv == IndInv /\ EndOfReport => IndInv'
<1>. SUFFICES ASSUME IndInv, EndOfReport PROVE IndInv'
  OBVIOUS
<1>. USE DEF EndOfReport, IndInv
<1>1. TypeOK' /\ ProcessInv' /\ PendingInv'
  BY DEF TypeOK, ProcessInv, PendingInv
<1>2. OwnRowsInv' /\ LeftoversInv' /\ OnlyDiedLeaveRows' /\ ReportIsOwn'
  BY DEF OwnRowsInv, LeftoversInv, OnlyDiedLeaveRows, ReportIsOwn, InScope, Loaded
<1>. QED  BY <1>1, <1>2

LEMMA CleanAfterInv == IndInv /\ CleanAfter => IndInv'
<1>. SUFFICES ASSUME IndInv, CleanAfter PROVE IndInv'
  OBVIOUS
<1>. USE DEF CleanAfter, IndInv
<1>1. db' \subseteq db
  OBVIOUS
<1>2. TypeOK' /\ ProcessInv' /\ PendingInv'
  BY <1>1 DEF TypeOK, ProcessInv, PendingInv
<1>3. OwnRowsInv' /\ LeftoversInv' /\ ReportIsOwn'
  BY <1>1 DEF OwnRowsInv, LeftoversInv, ReportIsOwn, InScope, Loaded
<1>4. OnlyDiedLeaveRows'
  <2>. SUFFICES ASSUME NEW r \in db', r.purpose = TestOnly, r.config # "oneoff" PROVE r.proc \in died
    BY DEF OnlyDiedLeaveRows
  <2>1. CASE r.proc = proc
    <3>1. InScope(r) /\ r.day >= began /\ r.day \in Nat
      BY <1>1, <2>1 DEF OwnRowsInv, TypeOK, Rows
    <3>2. r.day + CleanDays >= day
      BY <3>1 DEF ProcessInv, TypeOK
    <3>. QED  BY <1>1, <3>1, <3>2, WhatIsCleaned
  <2>2. CASE r.proc # proc
    BY <1>1, <2>2 DEF OnlyDiedLeaveRows
  <2>. QED  BY <2>1, <2>2
<1>. QED  BY <1>2, <1>3, <1>4

-----------------------------------------------------------------------------
(* The theorems.                                                            *)

LEMMA NextInv == IndInv /\ [Next]_vars => IndInv'
<1>1. ASSUME IndInv, UNCHANGED vars PROVE IndInv'
  BY <1>1, FewerRows DEF vars, process
<1>. QED
  BY <1>1, StartInv, CleanBeforeInv, RunTestInv, EndOfRunsInv, CompareTestInv, EndOfReportInv,
     CleanAfterInv, DieInv, CleanResultsInv, NewDayInv DEF Next

\* IndInv is an invariant, for all sections, tests, command lines and windows.
THEOREM Invariance == Spec => []IndInv
  BY InitInv, NextInv, PTL DEF Spec

\* Every variable keeps its type.
THEOREM TypeCorrect == Spec => []TypeOK
  BY Invariance, PTL DEF IndInv

\* However many processes died before it, on whatever days, and whatever is
\* cleaned meanwhile: fsperf -t compares its own runs, and all of them.
THEOREM ReportsOwnRuns == Spec => []ReportIsOwn
  BY Invariance, PTL DEF IndInv

\* Every -t run that ends has discarded its rows of the sections.
THEOREM OwnRowsDiscarded == Spec => []OnlyDiedLeaveRows
  BY Invariance, PTL DEF IndInv

\* fsperf deletes nothing but test-only rows.
THEOREM NothingElseDeleted == Spec => BaselinesKept
<1>1. [Next]_vars => [<<pc, pending>>' # <<pc, pending>> => \A r \in db \ db' : r.purpose = TestOnly]_vars
  <2>. SUFFICES ASSUME Next, <<pc, pending>>' # <<pc, pending>>, NEW r \in db \ db'
                PROVE  r.purpose = TestOnly
    OBVIOUS
  <2>1. CASE CleanBefore \/ CleanAfter
    BY <2>1, WhatIsCleaned DEF CleanBefore, CleanAfter, InScope
  <2>2. CASE RunTest
    BY <2>2 DEF RunTest
  <2>3. CASE Start \/ EndOfRuns \/ CompareTest \/ EndOfReport \/ Die \/ CleanResults \/ NewDay
    BY <2>3 DEF Start, EndOfRuns, CompareTest, EndOfReport, Die, CleanResults, NewDay, process
  <2>. QED  BY <2>1, <2>2, <2>3 DEF Next
<1>. QED  BY <1>1, PTL DEF Spec, BaselinesKept

-----------------------------------------------------------------------------
(* Where the README is right about -t, and where it is not.                 *)

LEMMA OneoffPreserved == IndInv /\ OneoffInv /\ [Next]_vars => OneoffInv'
<1>. SUFFICES ASSUME IndInv, OneoffInv, [Next]_vars PROVE OneoffInv'
  OBVIOUS
<1>. USE DEF OneoffInv
<1>1. CASE Start
  <2>1. proc' \notin died /\ \A r \in db : r.proc # proc'
    BY <1>1 DEF Start, IndInv, TypeOK, OwnRowsInv
  <2>. QED  BY <1>1, <2>1 DEF Start
<1>2. CASE RunTest
  <2>1. PICK j \in pending :
          db' \in {db, db \cup {[proc |-> proc, config |-> j.config, name |-> j.test,
                                i |-> j.i, purpose |-> Purpose, day |-> day]}}
    BY <1>2 DEF RunTest
  <2>. DEFINE new == [proc |-> proc, config |-> j.config, name |-> j.test,
                      i |-> j.i, purpose |-> Purpose, day |-> day]
  <2>2. j \in JobsOf(1..args.numruns) /\ args \in Invocations
    BY <1>2 DEF RunTest, IndInv, PendingInv, TypeOK
  <2>3. j.config = "oneoff" => j.test \in Oneoff
    BY <2>2, InvocationType DEF JobsOf
  <2>4. args.testonly => Purpose = TestOnly
    BY DEF Purpose
  <2>5. /\ new.config = "oneoff" => new.name \in Oneoff
        /\ args.testonly => new.purpose = TestOnly
    BY <2>3, <2>4
  <2>6. \A r \in db' : r \in db \/ r = new
    BY <2>1
  <2>. HIDE DEF new
  <2>. QED  BY <1>2, <2>5, <2>6 DEF RunTest
<1>3. CASE CleanBefore \/ CleanAfter \/ CleanResults
  <2>1. db' \subseteq db
    BY <1>3 DEF CleanBefore, CleanAfter, CleanResults
  <2>. QED  BY <1>3, <2>1 DEF CleanBefore, CleanAfter, CleanResults, process
<1>4. CASE EndOfRuns \/ CompareTest \/ EndOfReport \/ NewDay
  BY <1>4 DEF EndOfRuns, CompareTest, EndOfReport, NewDay, process
<1>5. CASE Die
  BY <1>5 DEF Die
<1>6. CASE UNCHANGED vars
  BY <1>6 DEF vars, process
<1>. QED  BY <1>1, <1>2, <1>3, <1>4, <1>5, <1>6 DEF Next

\* All that a -t run that ended leaves in the database are its oneoffs.
THEOREM LeavesOneoffsOnly == Spec => []OnlyOneoffsLeft
<1>1. Init => OneoffInv
  BY DEF Init, OneoffInv
<1>2. ASSUME IndInv, OneoffInv, pc = "done", args.testonly, NEW r \in db, r.proc = proc
      PROVE  r.config = "oneoff" /\ r.name \in Oneoff
  <2>1. r.purpose = TestOnly /\ proc \notin died
    BY <1>2 DEF OneoffInv
  <2>2. r.config = "oneoff"
    BY <1>2, <2>1 DEF IndInv, OnlyDiedLeaveRows
  <2>. QED  BY <1>2, <2>2 DEF OneoffInv
<1>3. IndInv /\ OneoffInv => OnlyOneoffsLeft
  BY <1>2 DEF OnlyOneoffsLeft
<1>. QED  BY <1>1, <1>3, OneoffPreserved, Invariance, PTL DEF Spec

\* So, without oneoffs, -t discards the current run's results as the README says.
THEOREM DiscardedWithoutOneoffs == ASSUME Oneoff = {} PROVE Spec => []CurrentRunDiscarded
<1>1. OnlyOneoffsLeft => CurrentRunDiscarded
  BY DEF OnlyOneoffsLeft, CurrentRunDiscarded
<1>. QED  BY <1>1, LeavesOneoffsOnly, PTL
=============================================================================
