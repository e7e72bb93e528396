------------------------------- MODULE Fsperf -------------------------------
(***************************************************************************)
(* The results database across starts of fsperf (src/fsperf.py), most of   *)
(* all A/B testing: a baseline is stored under a purpose, "fsperf -t"      *)
(* stores its runs under TEST_ONLY, compares them with the baseline        *)
(* (src/compare.py) and discards them.  A process may die at any point and *)
(* leave its test-only rows behind; the next -t run has to get rid of them *)
(* before they end up in its comparison.  src/clean-results.py may delete  *)
(* rows at any time, and days go by.                                       *)
(*                                                                         *)
(* What happens inside a run, and the order of the runs, is in PerfTest;   *)
(* here a run commits its row, is not run, or ends the process.            *)
(***************************************************************************)
EXTENDS Naturals

CONSTANTS
  Sections,    \* sections of local.cfg but [main]
  Tests,       \* tests by their name attribute, which is unique
  ClassOf,     \* the class name of each test
  Oneoff,      \* tests with oneoff = True
  Frag,        \* tests found under frag_tests/, loaded with -F only
  Disabled,    \* lines of disabled-tests
  Purposes,    \* values of -p
  TestOnly,    \* TEST_ONLY, the purpose of the rows of a -t run
  None,        \* -C not given
  Invocations, \* command lines
  CleanDays,   \* the window of clean_testonly and of most comparisons: 365
  WeekDays,    \* the window of a comparison with "continuous": 7
  SessionDays, \* assumption: a process runs no longer than this
  MaxDay, MaxStarts \* bounds: days that go by, processes started

Configs == Sections \cup {"oneoff"}

ASSUME DaysAssumption ==
  /\ {CleanDays, WeekDays, SessionDays, MaxDay, MaxStarts} \subseteq Nat
  /\ SessionDays <= WeekDays /\ WeekDays <= CleanDays

ASSUME CommandAssumption ==
  /\ Oneoff \subseteq Tests /\ Frag \subseteq Tests
  /\ TestOnly \notin Purposes /\ "oneoff" \notin Sections /\ None \notin Sections
  /\ Invocations \subseteq
       [testonly : BOOLEAN, purpose : Purposes, sections : (SUBSET Sections) \ {{}},
        compare : Sections \cup {None}, fragmentation : BOOLEAN,
        tests : SUBSET (Tests \cup {ClassOf[t] : t \in Tests}), numruns : Nat]

VARIABLES
  pc,       \* where the process is; "idle", "done", "died": there is none
  args,     \* its command line
  proc,     \* how many processes have been started: the number of the last
  died,     \* processes that did not get to their end
  began,    \* the day it was started
  pending,  \* runs still to make, then comparisons still to print
  asof,     \* the day the comparison counts its window from
  report,   \* comparisons printed: their test, and the rows averaged
  db,       \* rows of the runs table
  day       \* today

process == <<pc, args, proc, died, began, pending, asof, report>>
vars == <<process, db, day>>

Ended == {"idle", "done", "died"}
Jobs == [config : Configs, test : Tests, i : Nat]
Rows == [proc : Nat, config : Configs, name : Tests, i : Nat,
         purpose : Purposes \cup {TestOnly}, day : Nat]
Comparisons == [config : Configs, test : Tests, old : SUBSET Rows, new : SUBSET Rows]

TypeOK ==
  /\ pc \in Ended \cup {"clean", "run", "compare", "discard"}
  /\ args \in Invocations /\ proc \in Nat /\ died \subseteq 1..proc
  /\ {began, asof, day} \subseteq Nat
  /\ pending \subseteq Jobs /\ report \subseteq Comparisons /\ db \subseteq Rows

-----------------------------------------------------------------------------
(* What the command line selects.                                           *)

Loaded == {t \in Tests : t \in Frag => args.fragmentation}

want_run_test(t) ==
  LET names == {t, ClassOf[t]} IN
  /\ names \cap Disabled = {}
  /\ args.tests # {} => names \cap args.tests # {}

Wanted == {t \in Loaded : want_run_test(t)}

\* What a process runs: its tests in each of its sections, the oneoffs once.
JobsOf(n) ==
  [config : args.sections, test : Wanted \ Oneoff, i : n] \cup
  [config : {"oneoff"}, test : Wanted \cap Oneoff, i : n]

\* Mutation: -p has no default.
Purpose_NoDefault ==
  IF args.testonly THEN TestOnly ELSE IF args.purpose = "continuous" THEN None ELSE args.purpose

Purpose == IF args.testonly THEN TestOnly ELSE args.purpose
Window == IF args.purpose = "continuous" THEN WeekDays ELSE CleanDays

get_results(name, config, purpose, today, window) ==
  {r \in db : /\ r.name = name /\ r.config = config /\ r.purpose = purpose
              /\ r.day + window >= today}

\* Mutation: only today's rows are cleaned up.
TestOnlyRows_Today ==
  UNION {get_results(t, s, TestOnly, day, 0) : t \in Loaded \ Oneoff, s \in args.sections}

\* Mutation: the rows are not filtered by purpose.
TestOnlyRows_Everyone ==
  {r \in db : r.name \in Loaded \ Oneoff /\ r.config \in args.sections /\ r.day + CleanDays >= day}

\* What clean_testonly deletes, in one transaction.
TestOnlyRows ==
  UNION {get_results(t, s, TestOnly, day, CleanDays) : t \in Loaded \ Oneoff, s \in args.sections}

-----------------------------------------------------------------------------
(* The process.                                                             *)

Init ==
  /\ pc = "idle" /\ args \in Invocations /\ proc = 0 /\ died = {} /\ began = 0
  /\ pending = {} /\ asof = 0 /\ report = {} /\ db = {} /\ day = 0

Start ==
  /\ pc \in Ended /\ proc < MaxStarts
  /\ args' \in Invocations /\ proc' = proc + 1 /\ began' = day
  /\ pc' = IF args'.testonly THEN "clean" ELSE "run"
  /\ pending' = JobsOf(1..args.numruns)' /\ report' = {}
  /\ UNCHANGED <<died, asof, db, day>>

\* Mutation: leftovers of an earlier process are not looked for.
CleanBefore_Nothing ==
  /\ pc = "clean" /\ pc' = "run"
  /\ UNCHANGED <<args, proc, died, began, pending, asof, report, db, day>>

CleanBefore ==
  /\ pc = "clean" /\ pc' = "run" /\ db' = db \ TestOnlyRows
  /\ UNCHANGED <<args, proc, died, began, pending, asof, report, day>>

\* One iteration of run_test: the row is committed, or the test is not run.
RunTest ==
  /\ pc = "run"
  /\ \E j \in pending :
       /\ j.config = "oneoff" => \A k \in pending : k.config = "oneoff"
       /\ pending' = pending \ {j}
       /\ db' \in {db, db \cup {[proc |-> proc, config |-> j.config, name |-> j.test,
                                 i |-> j.i, purpose |-> Purpose, day |-> day]}}
  /\ UNCHANGED <<pc, args, proc, died, began, asof, report, day>>

EndOfRuns ==
  /\ pc = "run" /\ pending = {}
  /\ IF args.testonly THEN pc' = "compare" /\ pending' = JobsOf({1}) /\ asof' = day
                      ELSE pc' = "done" /\ UNCHANGED <<pending, asof>>
  /\ UNCHANGED <<args, proc, died, began, report, db, day>>

\* compare_results of one test in one section: nothing is printed unless both
\* sides have results.
CompareTest ==
  /\ pc = "compare"
  /\ \E j \in pending :
       LET with == IF args.compare = None \/ j.config = "oneoff" THEN j.config ELSE args.compare
           old == get_results(j.test, with, args.purpose, asof, Window)
           new == get_results(j.test, j.config, TestOnly, asof, Window)
       IN /\ j.config = "oneoff" => \A k \in pending : k.config = "oneoff"
          /\ pending' = pending \ {j}
          /\ report' = IF old = {} \/ new = {} THEN report
                       ELSE report \cup {[config |-> j.config, test |-> j.test,
                                          old |-> old, new |-> new]}
  /\ UNCHANGED <<pc, args, proc, died, began, asof, db, day>>

EndOfReport ==
  /\ pc = "compare" /\ pending = {} /\ pc' = "discard"
  /\ UNCHANGED <<args, proc, died, began, pending, asof, report, db, day>>

CleanAfter ==
  /\ pc = "discard" /\ pc' = "done" /\ db' = db \ TestOnlyRows
  /\ UNCHANGED <<args, proc, died, began, pending, asof, report, day>>

\* Any exception but NotRunException, a kill, a power loss: what has not been
\* committed is lost, and nothing is cleaned up.
Die ==
  /\ pc \notin Ended /\ pc' = "died" /\ died' = died \cup {proc}
  /\ UNCHANGED <<args, proc, began, pending, asof, report, db, day>>

-----------------------------------------------------------------------------
(* Around it.                                                               *)

\* fsperf-clean-results with one option; an invocation with several is several
\* of these steps, each a transaction of its own.
CleanResults ==
  /\ \/ \E p \in Purposes \cup {TestOnly} : db' = {r \in db : r.purpose # p}
     \/ \E t \in Tests : db' = {r \in db : r.name # t}
     \/ \E c \in Configs : db' = {r \in db : r.config # c}
  /\ UNCHANGED <<process, day>>

NewDay ==
  /\ day < MaxDay
  /\ pc \notin Ended => day < began + SessionDays
  /\ day' = day + 1 /\ UNCHANGED <<process, db>>

Next ==
  \/ Start \/ CleanBefore \/ RunTest \/ EndOfRuns \/ CompareTest \/ EndOfReport
  \/ CleanAfter \/ Die \/ CleanResults \/ NewDay

Spec == Init /\ [][Next]_vars

-----------------------------------------------------------------------------
(* Properties.                                                              *)

\* What "fsperf -t" compares with the baseline is what it has just run in its
\* sections: none of its rows is missing, whatever the day they were made, and
\* none is a leftover of a process that died (clean_testonly at the start).
ReportIsOwn ==
  \A e \in report : e.config # "oneoff" =>
    /\ \A r \in e.new : r.proc = proc
    /\ \A r \in db : /\ r.proc = proc /\ r.purpose = TestOnly
                     /\ r.config = e.config /\ r.name = e.test
                     => r \in e.new

\* Test-only rows of a section are those of the running process, or leftovers
\* of processes that died: every -t run that ends has discarded its own.
OnlyDiedLeaveRows ==
  \A r \in db : r.purpose = TestOnly /\ r.config # "oneoff" =>
    r.proc \in died \/ (r.proc = proc /\ pc \notin Ended)

\* No step of fsperf deletes a stored result: cleaning up before and after a -t
\* run leaves the baselines of all purposes alone.
BaselinesKept ==
  [][<<pc, pending>>' # <<pc, pending>> => \A r \in db \ db' : r.purpose = TestOnly]_vars

\* "... and then discard the current run's results in order to not pollute the
\* baseline results" (README.md on -t).  Not so for oneoffs: clean_testonly is
\* given the sections and the normal tests.
CurrentRunDiscarded == pc = "done" /\ args.testonly => \A r \in db : r.proc # proc

\* That is the only way it fails: what a -t run that ended has left in the
\* database are rows of its oneoffs.
OnlyOneoffsLeft ==
  pc = "done" /\ args.testonly =>
    \A r \in db : r.proc = proc => r.config = "oneoff" /\ r.name \in Oneoff

-----------------------------------------------------------------------------
(* The inductive invariant behind them.                                     *)

\* The rows that the process has to clean up, whatever their day.
InScope(r) ==
  r.purpose = TestOnly /\ r.config \in args.sections /\ r.name \in Loaded \ Oneoff

\* A process runs for at most SessionDays and compares within that time.
ProcessInv ==
  /\ began <= day
  /\ pc \notin Ended => proc > 0 /\ day <= began + SessionDays
  /\ pc = "compare" => args.testonly /\ asof <= began + SessionDays
  /\ pc = "discard" => args.testonly

\* The rows of the process are no older than it is and are in its scope, so a
\* run that ends finds all of them within the window of clean_testonly.
OwnRowsInv ==
  /\ \A r \in db : r.proc \in 1..proc
  /\ \A r \in db : r.proc = proc =>
       /\ r.day >= began /\ pc # "clean"
       /\ r.purpose = TestOnly => args.testonly /\ (r.config # "oneoff" => InScope(r))

\* What the clean-up at the start has left over is too old to be compared.
LeftoversInv ==
  \A r \in db : InScope(r) /\ r.proc # proc =>
    /\ pc = "run" /\ args.testonly => r.day + CleanDays < day
    /\ pc = "compare" => r.day + CleanDays < asof

\* Runs and comparisons are those of the command line; nothing has been
\* reported before the comparison starts.
PendingInv ==
  /\ pc \in {"clean", "run"} => pending \subseteq JobsOf(1..args.numruns)
  /\ pc = "compare" => pending \subseteq JobsOf({1})
  /\ pc \in {"clean", "run"} => report = {}

\* Every row a -t run makes is test-only, oneoffs and nothing else are stored
\* under "oneoff", and the process has not died before it says so.
OneoffInv ==
  /\ proc \in died => pc = "died"
  /\ \A r \in db : /\ r.config = "oneoff" => r.name \in Oneoff
                   /\ r.proc = proc /\ args.testonly => r.purpose = TestOnly

IndInv == /\ TypeOK /\ ProcessInv /\ OwnRowsInv /\ LeftoversInv /\ PendingInv
          /\ ReportIsOwn /\ OnlyDiedLeaveRows
=============================================================================
