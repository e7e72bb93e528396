-------------------------- MODULE PerfTest_refines --------------------------
(* PerfTest implements Suite: the proof that the nested loops of fsperf.py  *)
(* and everything inside a run are one counter over numbered runs.          *)
EXTENDS PerfTest_proofs

USE DEF SectionIds, TestIds

LEMMA Distribute == \A a, k \in Nat : (a + 1) * k = a * k + k /\ a * k \in Nat
  OBVIOUS

LEMMA Monotone == \A a, b, k \in Nat : a <= b => a * k <= b * k
<1>. SUFFICES ASSUME NEW a \in Nat, NEW b \in Nat, NEW k \in Nat, a <= b PROVE a * k <= b * k
  OBVIOUS
<1>. DEFINE d == b - a
<1>1. d \in Nat /\ b = a + d
  OBVIOUS
<1>2. (a + d) * k = a * k + d * k /\ a * k \in Nat /\ d * k \in Nat
  BY <1>1
<1>. QED  BY <1>1, <1>2

Number(s, t, i) == ((s - 1) * NTests + (t - 1)) * NumRuns + (i - 1)

\* The numbers of a section lie between its start and that of the next one.
LEMMA NumberRange ==
  ASSUME NEW s \in Nat \ {0}, NEW t \in TestIds, NEW i \in 1..NumRuns
  PROVE  /\ Number(s, t, i) \in Nat /\ Number(s, 1, 1) \in Nat
         /\ Number(s, 1, 1) <= Number(s, t, i)
         /\ Number(s, t, i) < Number(s + 1, 1, 1)
<1>. DEFINE p == (s - 1) * NTests  q == p + (t - 1)
<1>1. p \in Nat /\ s * NTests = p + NTests /\ NTests \in Nat /\ NumRuns \in Nat
  <2>1. s - 1 \in Nat /\ s = (s - 1) + 1
    OBVIOUS
  <2>. QED  BY <2>1, Distribute, CountsAssumption
<1>2. q \in Nat /\ p <= q /\ q + 1 \in Nat /\ q + 1 <= p + NTests /\ p + NTests \in Nat
  BY <1>1
<1>. HIDE DEF p, q
<1>3. /\ q * NumRuns \in Nat /\ p * NumRuns \in Nat /\ p * NumRuns <= q * NumRuns
      /\ (q + 1) * NumRuns = q * NumRuns + NumRuns
      /\ (q + 1) * NumRuns <= (p + NTests) * NumRuns
  BY <1>1, <1>2, Distribute, Monotone
<1>4. Number(s, t, i) = q * NumRuns + (i - 1)
  BY DEF Number, p, q
<1>5. Number(s, 1, 1) = p * NumRuns /\ Number(s + 1, 1, 1) = (p + NTests) * NumRuns
  BY <1>1 DEF Number, p
<1>. QED  BY <1>1, <1>3, <1>4, <1>5

\* Section starts are ordered as the sections are.
LEMMA StartsOrdered ==
  ASSUME NEW a \in Nat \ {0}, NEW b \in Nat \ {0}, a <= b
  PROVE  /\ Number(a, 1, 1) \in Nat /\ Number(b, 1, 1) \in Nat
         /\ Number(a, 1, 1) <= Number(b, 1, 1)
<1>1. \A c \in Nat \ {0} : /\ Number(c, 1, 1) = ((c - 1) * NTests) * NumRuns
                           /\ c - 1 \in Nat /\ (c - 1) * NTests \in Nat
                           /\ Number(c, 1, 1) \in Nat
  BY CountsAssumption, Distribute DEF Number
<1>2. (a - 1) * NTests <= (b - 1) * NTests
  BY <1>1, CountsAssumption, Monotone
<1>. QED  BY <1>1, <1>2, CountsAssumption, Monotone

\* The next iteration of the three loops adds one to the number.
LEMMA NextRunCounts ==
  ASSUME ControlOK, sec <= last, NextRun
  PROVE  Number(sec', tst', run') = Number(sec, tst, run) + 1
<1>. DEFINE p == (sec - 1) * NTests  q == p + (tst - 1)
<1>0. sec \in Nat \ {0} /\ tst \in 1..NTests /\ run \in 1..NumRuns
      /\ NTests \in Nat /\ NumRuns \in Nat
  BY Ranges, CountsAssumption DEF ControlOK
<1>1. p \in Nat /\ sec * NTests = p + NTests
  <2>1. sec - 1 \in Nat /\ sec = (sec - 1) + 1
    BY <1>0
  <2>. QED  BY <1>0, <2>1, Distribute
<1>2. q \in Nat /\ q * NumRuns \in Nat /\ (q + 1) * NumRuns = q * NumRuns + NumRuns
  BY <1>0, <1>1, Distribute
<1>3. Number(sec, tst, run) = q * NumRuns + (run - 1)
  BY DEF Number
<1>4. CASE run < NumRuns /\ run' = run + 1 /\ UNCHANGED <<sec, tst>>
  <2>1. Number(sec', tst', run') = q * NumRuns + run
    BY <1>0, <1>4 DEF Number
  <2>. QED  BY <1>0, <1>2, <1>3, <2>1
<1>5. CASE run = NumRuns /\ tst < NTests /\ run' = 1 /\ tst' = tst + 1 /\ UNCHANGED sec
  <2>1. Number(sec', tst', run') = (p + tst) * NumRuns /\ p + tst = q + 1
    BY <1>0, <1>1, <1>2, <1>5 DEF Number
  <2>. QED  BY <1>0, <1>2, <1>3, <1>5, <2>1
<1>6. CASE run = NumRuns /\ tst = NTests /\ run' = 1 /\ tst' = 1 /\ sec' = sec + 1
  <2>1. Number(sec', tst', run') = (sec * NTests) * NumRuns /\ sec * NTests = q + 1
    BY <1>0, <1>1, <1>2, <1>6 DEF Number
  <2>. QED  BY <1>0, <1>2, <1>3, <1>6, <2>1
<1>. QED  BY <1>4, <1>5, <1>6 DEF NextRun

\* Under the refinement mapping: what the abstract variables are.
LEMMA Mapping ==
  ASSUME IndInv
  PROVE  /\ JobNumber(ThisRun) = Number(sec, tst, run)
         /\ \A s : SectionStart(s) = Number(s, 1, 1)
BY DEF JobNumber, SectionStart, ThisRun, Number

\* While runs are left, the number of this one is among those asked for.
LEMMA NextAsked ==
  ASSUME IndInv, sec <= last
  PROVE  /\ SectionStart(first) <= JobNumber(ThisRun)
         /\ JobNumber(ThisRun) < SectionStart(last + 1)
<1>1. /\ first \in Nat \ {0} /\ sec \in Nat \ {0} /\ last + 1 \in Nat \ {0} /\ first <= sec
      /\ sec + 1 \in Nat \ {0} /\ sec + 1 <= last + 1 /\ tst \in TestIds /\ run \in 1..NumRuns
  BY Ranges DEF IndInv, TypeOK, ControlOK
<1>2. Number(first, 1, 1) <= Number(sec, 1, 1) /\ Number(sec + 1, 1, 1) <= Number(last + 1, 1, 1)
  BY <1>1, StartsOrdered
<1>. QED  BY <1>1, <1>2, NumberRange, StartsOrdered, Mapping

\* What is asked for lies within the whole suite.
LEMMA AskedInTotal ==
  ASSUME NEW c \in Choices
  PROVE  /\ SectionStart(c[1]) \in 0..NSections * NTests * NumRuns
         /\ SectionStart(c[2] + 1) \in 0..NSections * NTests * NumRuns
         /\ SectionStart(c[1]) <= SectionStart(c[2] + 1)
<1>1. /\ c[1] \in Nat \ {0} /\ c[2] + 1 \in Nat \ {0} /\ c[1] <= c[2] + 1
      /\ c[2] + 1 <= NSections + 1 /\ NSections + 1 \in Nat \ {0}
  BY CountsAssumption DEF Choices
<1>2. Number(NSections + 1, 1, 1) = NSections * NTests * NumRuns
  <2>1. NSections * NTests \in Nat /\ NSections * NTests * NumRuns \in Nat
    BY CountsAssumption, Distribute
  <2>. QED  BY <2>1, CountsAssumption DEF Number
<1>3. \A s : SectionStart(s) = Number(s, 1, 1)
  BY DEF SectionStart, JobNumber, Number
<1>4. /\ Number(c[1], 1, 1) \in Nat /\ Number(c[2] + 1, 1, 1) \in Nat
      /\ Number(c[1], 1, 1) <= Number(c[2] + 1, 1, 1)
      /\ Number(c[2] + 1, 1, 1) <= Number(NSections + 1, 1, 1)
  BY <1>1, StartsOrdered
<1>. QED  BY <1>1, <1>2, <1>3, <1>4, StartsOrdered

LEMMA InitRefines == Init => Abstract!Init
<1>. SUFFICES ASSUME Init PROVE Abstract!Init
  OBVIOUS
<1>1. PICK c \in Choices : first = c[1] /\ last = c[2] /\ sec = c[1]
  BY DEF Init
<1>2. JobNumber(ThisRun) = SectionStart(first)
  BY <1>1 DEF Init, JobNumber, SectionStart, ThisRun
<1>. QED  BY <1>1, <1>2, AskedInTotal DEF Init, Abstract!Init, Ended

\* A run that ends, with a row or without, is the next one of the suite.
LEMMA NextRunRefines ==
  ASSUME IndInv, NextRun, pc \in {"setup", "leave"}
  PROVE  /\ JobNumber(ThisRun)' = JobNumber(ThisRun) + 1
         /\ JobNumber(ThisRun) < SectionStart(last + 1)
         /\ UNCHANGED <<SectionStart(first), SectionStart(last + 1), starts>>
         /\ pc \notin Ended /\ pc' \notin Ended
<1>1. sec <= last
  BY DEF IndInv, ControlInv, Ended
<1>2. JobNumber(ThisRun)' = JobNumber(ThisRun) + 1
  BY <1>1, NextRunCounts DEF IndInv, TypeOK, JobNumber, ThisRun, Number
<1>3. UNCHANGED <<SectionStart(first), SectionStart(last + 1), starts>> /\ pc' \notin Ended
  BY DEF NextRun, Ended
<1>. QED  BY <1>1, <1>2, <1>3, NextAsked DEF Ended

LEMMA StepRefines == ASSUME IndInv, [Next]_vars PROVE [Abstract!Next]_(Abstract!vars)
<1>. DEFINE Rows(rs) == {<<r.start, JobNumber(r.job)>> : r \in rs}
<1>1. ASSUME UNCHANGED <<loop, rows>>, pc \notin Ended, pc' \notin Ended
      PROVE  UNCHANGED Abstract!vars
  BY <1>1 DEF Abstract!vars, loop, ThisRun
<1>2. ASSUME UNCHANGED <<loop, rows>>, pc \notin Ended, pc' \in {"failed", "killed"}
      PROVE  Abstract!Abort
  BY <1>2 DEF Abstract!Abort, loop, ThisRun, Ended
<1>3. CASE UNCHANGED vars
  BY <1>3 DEF Abstract!vars, vars, loop, ThisRun
<1>4. CASE Finish
  <2>1. sec = last + 1 /\ tst = 1 /\ run = 1
    BY <1>4, Ranges DEF Finish, IndInv, TypeOK, ControlOK, ControlInv
  <2>2. JobNumber(ThisRun) = SectionStart(last + 1)
    BY <2>1 DEF ThisRun, SectionStart
  <2>3. Abstract!Finish
    BY <1>4, <2>2 DEF Finish, Goto, Abstract!Finish, Ended, loop, ThisRun
  <2>. QED  BY <2>3 DEF Abstract!Next
<1>5. CASE SetupNotRun
  <2>1. JobNumber(ThisRun) \in {JobNumber(j) : j \in SectionIds \X MayNotRun \X (1..NumRuns)}
    <3>1. ThisRun \in SectionIds \X MayNotRun \X (1..NumRuns)
      BY <1>5, Ranges DEF SetupNotRun, IndInv, TypeOK, ControlOK, ControlInv, Ended, ThisRun
    <3>. QED  BY <3>1
  <2>2. Abstract!Skip
    BY <1>5, <2>1, NextRunRefines DEF SetupNotRun, Abstract!Skip
  <2>. QED  BY <2>2 DEF Abstract!Next
<1>6. CASE Commit
  <2>1. Rows(rows)' = Rows(rows) \cup {<<starts, JobNumber(ThisRun)>>}
    <3>. DEFINE row == [start |-> starts, job |-> ThisRun, from |-> attrs[tst]]
    <3>1. rows' = rows \cup {row} /\ row.start = starts /\ row.job = ThisRun
      BY <1>6 DEF Commit
    <3>. HIDE DEF row
    <3>. QED  BY <3>1
  <2>2. Abstract!Record
    BY <1>6, <2>1, NextRunRefines DEF Commit, Abstract!Record
  <2>. QED  BY <2>2 DEF Abstract!Next
<1>7. CASE Start
  <2>1. PICK c \in Choices : first' = c[1] /\ last' = c[2] /\ sec' = c[1]
    BY <1>7 DEF Start
  <2>2. JobNumber(ThisRun)' = SectionStart(first)'
    BY <1>7, <2>1 DEF Start, SectionStart, ThisRun
  <2>3. SectionStart(first)' = SectionStart(c[1]) /\ SectionStart(last + 1)' = SectionStart(c[2] + 1)
    BY <2>1
  <2>4. Abstract!Ask
    BY <2>2, <2>3, AskedInTotal DEF Abstract!Ask
  <2>5. Abstract!Restart
    BY <1>7, <2>4 DEF Start, Abstract!Restart, Ended
  <2>. QED  BY <2>5 DEF Abstract!Next
<1>8. CASE Mkfs \/ MountFs \/ SetupOk \/ SetupFails \/ SetupDevice \/ Kill \/ Fail
  BY <1>1, <1>2, <1>8
  DEF Mkfs, MountFs, SetupOk, SetupFails, SetupDevice, Kill, Fail, Goto, Raise, loop, Ended,
      Abstract!Next
<1>9. CASE MaybeCycleMount \/ MountAgain \/ StartBefore \/ EnterIOStats \/ StartTrace \/ RunTest
  BY <1>1, <1>9
  DEF MaybeCycleMount, MountAgain, StartBefore, EnterIOStats, StartTrace, RunTest, UmountMnt,
      MountMnt, Goto, Raise, loop, Ended
<1>10. CASE CollectTrace \/ ExitIOStats \/ KillBefore \/ RunAfter \/ Measure \/ CycleUmount
  BY <1>1, <1>10
  DEF CollectTrace, ExitIOStats, KillBefore, RunAfter, Measure, CycleUmount, UmountMnt, Goto,
      Raise, loop, Ended
<1>11. CASE CycleMount \/ CollectFragmentation \/ RecordResults \/ Teardown \/ ExitMount
  BY <1>1, <1>11
  DEF CycleMount, CollectFragmentation, RecordResults, Teardown, ExitMount, UmountMnt, MountMnt,
      Goto, Raise, loop, Ended
<1>. QED  BY <1>3, <1>4, <1>5, <1>6, <1>7, <1>8, <1>9, <1>10, <1>11 DEF Next, Step

\* The detailed specification implements the abstract one, for every number of
\* sections, tests and runs: fsperf works off its runs in order, records each
\* at most once, and passes over none but those its test declared not run.
THEOREM Refinement == Spec => ImplementsSuite
<1>. QED
  BY InitRefines, StepRefines, Invariance, PTL DEF Spec, ImplementsSuite, Abstract!Spec

\* What Suite_proofs shows of every suite, of the numbered runs of PerfTest.
Numbered == INSTANCE Suite_proofs WITH
  Total <- NSections * NTests * NumRuns,
  Skippable <- {JobNumber(j) : j \in SectionIds \X MayNotRun \X (1..NumRuns)},
  status <- IF pc \in Ended THEN pc ELSE "running",
  from <- SectionStart(first), next <- JobNumber(ThisRun), upto <- SectionStart(last + 1),
  rows <- {<<r.start, JobNumber(r.job)>> : r \in rows}

\* The rows of the current start are, at any time and for any number of
\* sections, tests and runs, those of the runs it is past.
THEOREM RowsOrdered == Spec => []RowsInOrder
<1>1. NSections * NTests * NumRuns \in Nat
  BY CountsAssumption
<1>2. Numbered!Spec => []Numbered!RowsInOrder
  BY <1>1, Numbered!Order
<1>3. Abstract!Init => Numbered!Init
  BY DEF Abstract!Init, Numbered!Init
<1>4. [Abstract!Next]_(Abstract!vars) => [Numbered!Next]_(Numbered!vars)
  BY DEF Abstract!Next, Abstract!vars, Abstract!Record, Abstract!Skip, Abstract!Finish,
     Abstract!Abort, Abstract!Restart, Abstract!Ask, Numbered!Next, Numbered!vars,
     Numbered!Record, Numbered!Skip, Numbered!Finish, Numbered!Abort, Numbered!Restart,
     Numbered!Ask
<1>5. Numbered!RowsInOrder => RowsInOrder
  BY DEF Numbered!RowsInOrder, RowsInOrder, Abstract!RowsInOrder
<1>. QED
  BY <1>2, <1>3, <1>4, <1>5, Refinement, PTL DEF ImplementsSuite, Abstract!Spec, Numbered!Spec
=============================================================================
