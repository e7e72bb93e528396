# fsperf in TLA+

fsperf runs file system benchmarks: it formats and mounts a device, runs a
test, measures, unmounts, stores a row in a database, and compares rows of
different kernels. This directory models the parts of it in which order,
failure and leftovers matter, checks them with TLC and proves the main
properties with TLAPS.

## Inventory

| component | state it keeps | operations | interacts with |
|---|---|---|---|
| suite driver (`src/fsperf.py`) | the loop variables section, test, run | start, next run, skip, end | calls `PerfTest.run`, commits to the database |
| life of a run (`PerfTest.run`, `test_context`) | the `ExitStack`, measurements on the test object, the exception on its way | mkfs, mount, setup, remount, before, test, after, measure, record, teardown, umount | `Mount`, `IOStats`, `LatencyTracing`, child processes, result files |
| `Mount` (`utils.py`) | `live`, `device`; the kernel's mount table | mount, umount, cycle, timed cycle, exit | one object per test object, kept between runs |
| `LatencyTracing`, `IOStats` | a bpftrace process per function; counters | start, interrupt, kill, parse; read | context managers around `test()` |
| results database (`ResultData.py`, `utils.get_results`) | rows: config, name, purpose, time | add, delete, query | shared by `fsperf`, `compare`, `clean-results`, the pages |
| A/B testing (`fsperf -t`, `compare.py`) | the purpose TMP-TEST-ONLY, a window of days | clean, run, compare, clean | the database |
| `clean-results.py` | none | delete by label, test, config | the database, at any time |
| `btrfs-frag-view` (`src/frag/src/main.rs`) | block groups, their extents and types | insert, delete, scan, print | reads the dump btrd wrote, its output becomes the row's fragmentation |
| `bg-dump.jinja` | none | walk the extent tree | the live file system |
| oneoff `btrfsbgscalability`, `NullBlock` | two mounts, a loop file, a null block device | start, setup, teardown, `__del__` | configfs, modules, what an earlier process left of them |
| results page (`generate-results-page.py`, `check_regression`) | verdicts per test and key | newest, averages of four windows, threshold, pages, a process per pair for the graphs | the database, which others change meanwhile |
| graph of a test (`generate-graph.py`) | what is still to be plotted | labels, newest run, runs per metric and label | the database |
| `FioCompare`, `FioResultDecoder`, schema, templates | none | conversions | |

What is hard about it, and what makes it right:

- *Failure between any two steps.* Ten external commands per run can fail, some
  inside `with` or `finally`. A run must take back what it started; an exception
  must not be swallowed, and must not be mistaken for "not run".
- *State that outlives a run.* Measurements, `self.mnt` and result files survive
  on the test object or on disk; no row may hold what another run measured, and
  `Mount.live` must agree with a mount table that others use too.
- *Crashes and restarts.* The process may die with a file system mounted or with
  test-only rows stored. The next start must neither test on the old file
  system nor average the old rows.
- *Rows shared by purpose and time.* A comparison picks rows by purpose, section,
  test and a window of days that counts from the end of the session.
- *Reports over a database in use.* The results page queries the same rows up to
  six times per test, once more by its graph processes, and decides "newest" by
  id in one query and by time in another. A run must not be judged against
  itself, a failure must show, and what is shown as passing must have been
  looked at.
- *Devices stacked on devices.* The oneoff puts a loop file on a null block
  device; each start decides by what it finds of the last one, and the kernel
  releases loop devices in its own time.
- *Input nobody vouches for.* The dump comes from a live file system, so extents
  may overlap or belong to a group that is gone.

`PROJECT.json` lists the hazards one by one, each at its line.

## Modules

| module | models | extends / uses |
|---|---|---|
| `Suite` | what fsperf promises of the order of its work: runs numbered, one counter, rows | |
| `PerfTest` | `fsperf.py`'s loops and, for every run, `PerfTest.run` with its context managers | implements `Suite` |
| `MCPerfTest` | instances of `PerfTest` | `PerfTest` |
| `Fsperf` | the database over many starts: baselines, `-t`, `compare`, `clean-results` | |
| `MCFsperf` | command lines and tests for it | `Fsperf` |
| `FragView` | `btrfs-frag-view` | |
| `MCFragView` | dump lines for it | `FragView` |
| `Metrics` | `avg_results`, `metric_direction`, `diff_string`, the table, `check_regression` | |
| `Reports` | the results page with its graphs, `compare.py`, `generate-graph.py` over a changing database | `Metrics` |
| `MCReports` | metrics and runs for it | `Reports` |
| `BgScalability` | the oneoff `btrfsbgscalability` with `NullBlock`, over several processes | |
| `Suite_proofs`, `PerfTest_proofs`, `PerfTest_refines`, `Fsperf_proofs`, `FragView_proofs`, `Metrics_proofs`, `Reports_proofs`, `BgScalability_proofs` | theorems | the module of the name; `PerfTest_refines` instantiates `Suite_proofs` |

### PerfTest

`pc` is where the process is: `section`, then for every run `mkfs`, `mount`,
`setup` (these three are `test_context`, nothing unwinds an exception there),
`remount`, `before`, `iostats`, `trace`, `test`, `collect`, `iostop`, `finally`,
`after`, `measure`, the two halves of the timed cycle, `fragmentation`,
`record`, and the way out: `teardown`, `umount`, `leave`. `err` is the exception
on its way; a step that can raise has a disjunct per outcome, and the place an
exception goes to is the context manager, `finally` clause or exit callback that
Python would run. `mounts` is the stack of devices on `main.directory`, `mnt` the
`Mount` of each test object, `formatted` which run's `mkfs` made a device's file
system, `children` the live `before` and bpftrace processes. `attrs` keeps, for
each measurement on a test object, the run that took it: that is all the
properties need of the numbers. `base` remembers the directory as the run found
it; the code has no such variable.

Modelled of what is outside the code: mount(8) stacks mounts and refuses the
device that is on top already, umount(8) takes the topmost away, mkfs refuses a
mounted device; every command may fail instead. A mount or umount that fails has
changed nothing. What a function to trace is called decides which process traces it, so
`TestFns` and `SectionFns` are sets (the code keeps a list, and would start two for a
function named twice); `skip_mkfs_and_mount` is set by the oneoff alone, which
`BgScalability` models. `Kill` ends the process in any state; `Start` begins a new one
with the mounts left as they were, or unmounted by the user. `iosched`, mount
timings, the sleep in `umount` and all printing are left out. A keyboard
interrupt, which unwinds like an exception out of any line, is not modelled apart
from `Kill`.

### Fsperf

A run is one step here: it commits a row, or the test is not run; an exception
is `Die`. A row keeps the number of the process that made it, which the code
does not store: `ReportIsOwn` is about it. `CompareTest` and `TestOnlyRows` use
`get_results` with the code's filters, windows in days. The normal runs of a
process come in any order, since `PerfTest` has the order, and oneoffs after
them. `CleanResults` may happen at any time between two steps. Assumption
`SessionDays <= WeekDays`: a process does not run longer than the shortest window
(7 days); without it its first rows drop out of its own comparison.

### FragView

Lines of the dump are read in any order and number; the first error ends it, as
`?` does in the code. `BTreeMap` inserts are `Replace`, iteration over a map is
"the entry with the least offset that is still to be visited". The scan of a
group is one step per extent. Offsets are in units of BLOCK. Images are reduced to
the bound of the picture, which every extent is drawn into even if no image was
asked for; `-r` and `-i`, which only print and write files, are left out.
Numbers are not bounded: btrfs offsets stay far below 2^64.

### Metrics and Reports

`Metrics` has the arithmetic of `utils.py` in integers: a mean and a standard
deviation are kept as count, sum and sum of squares, and `mean +- 1.96 stdev` is
compared by squaring both sides, so nothing is rounded. The direction of a metric
is decided by words in its name, as in `metric_direction`; `Words` says which of
them a name has. `filter_outliers` is called by `avg_results` and its result not
used, so it is not there. `diff_string` and `check_regression` each compute thresholds of
their own in the code, and so do they here: `Significant` for the one, `Beyond` for the
other.

`Reports` has three programs, one at a time, over one table of runs. A query,
with the sub-results that are loaded for it, is one step. The page:
`StartPage` and `ReadConfigs` (the names in the database), then for every pair
`FirstQuery`, `LastQuery`, four times `WindowQuery`, and `CheckWindow` until one
fails; then `WritePage` per test, which dies as the template does if a metric is
not where it looks (`Renders`), `WriteIndex`, and the graph processes (`GraphLast`,
`GraphAll`), joined in `JoinGraphs`. An `entry` is `recent[c][t]` with the rows it was
made from: the averages are `get_avgs` of these. `check_regression` runs over a
dictionary whose order depends on the baseline's rows and returns at the first
missing metric: `Examined` is what it may have seen by then. `compare.py`:
`QueryOld`, `QueryNew`, `Table`. `generate-graph.py`: `get_all_purposes`,
`QueryNewest`, then `Plot` per metric and label; without `-p` the labels are all.
Around them `Commit` (the id is the greatest in use and 1, so that ids of deleted
rows come again), `CleanResults`, `NewDay` and `SetClockBack`. The outliers that the
page's graphs leave out need more than ten runs to exist and are never all of
them, so only "no run, one run, several" matters to `Plotted`; what a picture shows
is not modelled. The session is shared by the forked processes; that sqlite
may not like this is not modelled.

### BgScalability

`pc` runs through `NullBlock.start` (any exception there becomes
`NotRunException`, and `run_test` goes on to the next run), the rest of `setup` (an
exception ends fsperf, without teardown), the entry of `IOStats`, `teardown` and
`__del__`. `self.dev` is the loop file, which `IOStats` looks for in `/sys/block`: it
raises `FileNotFoundError` on every run, so what follows a `setup` that succeeded is
the teardown, and `test()` is not reached. `nullb`, `module`, `mounts`, `loop` belong
to the kernel and survive the process; `Kill` ends it anywhere, `Reboot` clears
them. Outside the code: rmmod fails while configfs has a directory of the module;
umount of the loop file lets the loop device go later (`Release`); a file system
that holds the file of a live loop device is busy. `umount` is what `Mount.umount` is: the
command, then a look at the device, which may raise with the mount gone, and a sleep if it
is a block device, taken to be long enough for the loop device to go. `__del__` may
fail at the power or at the directory, and Python carries on after either. A device that is
switched off unmounts nothing: `dead` keeps the file systems this has happened to, with the
process they were mounted by. The exit of the interpreter may run `__del__` on what is
left over, or may not. `null_blk` may have been loaded
with a `nullb0` of its own.

## Runs

| run | instance | what it shows |
|---|---|---|
| `suite` | 2 sections with all options on one device, 2 tests, 2 starts | types, the inductive invariant, mounts tracked, fresh file system, clean hand-over, no stale result, rows in order and complete, refinement of `Suite`, exceptions end fsperf, every start ends |
| `mixed` | 3 sections lacking `mkfs` or `mount`, 3 devices, 2 runs of 2 tests | mounts tracked, no stale result and refinement of `Suite` where the `Mount` of an earlier section is used again; and what a section without `mount` leaves mounted because of that |
| `ab` | 2 sections, 2 tests, 3 command lines, 3 processes, 4 days | comparisons see exactly the rows of the process, leftovers are those of dead processes, baselines stay |
| `frag` | 3 `INS BLOCK-GROUP` lines, 16 extent lines, 3 deletions, offsets up to 8 | free space and its longest run are found, percentages are in range, each data group scanned once |
| `results` | 1 configuration, 1 test, up to 3 runs of 6 kinds, windows of 0 to 3 days, 2 days, 1 event while a program runs | verdicts are right, for a reason and shown (but for a newest run that the first window lacks), no metric shown was passed over, a run is not its own baseline, reports and graphs are finished, the table agrees with the page |
| `bgscal` | 3 processes of 2 runs, with failures, kills, reboots | devices are fresh, a teardown that ends leaves nothing mounted, the device is switched off last, every process ends |
| `notrun`, `options`, `tracing`, `oneoff`, `columns`, `bgsleep` | as above, one start | refute a sentence of the documentation or a comment, see Findings |

The bounds. Two starts are enough for anything left over by a first process to
meet a second one; two sections, two tests and two runs (in `mixed`) let an
object pass from run to run and from section to section. In `mixed` the three sections
are on devices of their own, so that a mount of the wrong one can be told apart. The one test that
traces two functions is the smallest on which a second bpftrace can fail to start.
In `ab` the windows shrink to 2 days and 1 day, so that rows do age out within
the four days; one process to store a baseline, one to die and one to compare
make three. In `frag` a group of five units has room for two extents with free
space before, between and after them, or overlapping, across the end of the
group and in a group that was inserted again with another size; one extent of
length 0 can lie in the middle of free space.

In `results` three runs give a window of two with a newest one apart, and averages
whose deviation is not 0; the four windows are a day apart, so that each can
differ from the next; one event is enough to put a commit, a deletion, a midnight
or a clock change between any two queries. Two metrics, of which one is a headline
metric, let a run lack one. More configurations and tests only repeat the pairs,
which share no state. In `bgscal` the first process can leave something behind,
the second meet it and leave its own, and the third meet that.

`CHECK_DEADLOCK FALSE` throughout: when the last start allowed has ended, or the
dump was printed, nothing is left to do.

Fairness: `WF_vars(Step)` in `FairSpec` of `PerfTest`, `WF_vars(Fsperf)` in that of
`BgScalability`, each the steps of the process itself. The code is sequential: it goes on
whenever it can, provided that the command it waits for ends. `communicate()`
has no timeout except for bpftrace, so a command that hangs hangs fsperf: that
commands end is an assumption of the liveness properties. Nobody is obliged to
kill or start a process, to reboot, or to release a loop device.

## Proofs

All theorems hold for every value of the constants allowed by the modules'
assumptions (`CountsAssumption`, `ConfigAssumption`, `TracingAssumption`;
`DaysAssumption`, `CommandAssumption`; `LinesAssumption`; `KeysAssumption`,
`ReportsAssumption`, `WindowsAssumption`; `RunsAssumption`).

- `PerfTest_proofs`: `Invariance` is `Spec => []IndInv`; the others follow from
  it. None of the properties is inductive on its own. `MountTracked` needs
  `MountInv`: the umount of the run is on the stack as long as its mount may
  be live, and the mount is not live where the second half of a cycle starts.
  `TestSeesFreshFs` needs `FreshInv`: nothing passes `IOStats` without a `mkfs`,
  and no step between `mkfs` and `test` formats. `CleanHandover` needs
  `MountInv` too, and `ChildrenInv`: which processes can live at which step, and that past `collect`
  traces are left only if an exception is on its way. `NoStaleResults` needs
  `ResultInv`: which measurements the run has taken when it gets to a step
  without an exception. `DoneIsComplete` needs `ProgressInv`: every run before
  the current one has its row. Each conjunct has a lemma with one step per
  group of actions. `NoRowAfterException` is the part of `ExceptionEndsSuite` that
  needs no fairness: nothing swallows an exception, and no row follows it.
  `TestSeesFreshFs`, `CleanHandover` and `MountTracked` speak of the directory in sections
  with the mount option only. In the others `timed_cycle_mount` (`PerfTest.py:49`) mounts what
  `self.mnt` is still of, and no callback takes it away: `StaleMountLeft` says what
  becomes of it, and `OneStaleMount` proves it from `StaleInv`, which is inductive with
  `IndInv`. All Mounts of a process are of one device between sections, since a section with
  the option gives every test a new one; one of them at most is live, and that one is on
  top (`OneOnTop`, `Settled`). So a run without the option replaces the top mount, or adds
  one (`StaleEffect`), and never takes away what it did not mount.
- `PerfTest_refines`: `Refinement` is `Spec => ImplementsSuite`. Runs are numbered
  lexicographically (`JobNumber`); a lemma shows that the loops' next run has
  the next number. `RowsOrdered` is `Suite_proofs!Order` carried over through it.
- `Fsperf_proofs`: the argument for `ReportIsOwn` is that what `clean_testonly`
  leaves over at the start is out of its window then, hence out of the smaller
  or equal window of the comparison, which counts from a later day
  (`LeftoversInv`), and that own rows are no older than the process
  (`OwnRowsInv`). The same fact gives `OnlyDiedLeaveRows`.
- Five theorems of these modules say how far a refuted sentence does hold, hence what
  its finding is due to. `OptionsGiven`: if every section has `mkfs` and `mount`, no run ends
  in a `TypeError` or `AttributeError`. `EveryRunFindsTheSame` and `UnmountedIfRun`: if
  every section has `mount` and every test is run, each run of a process finds the directory
  as the first did, and a single start leaves nothing mounted between tests; they add
  `SectionClean` to `IndInv`. `LeavesOneoffsOnly` has no condition: all that a `-t` run
  that ended leaves of its rows are oneoffs (`OneoffInv`), so without oneoffs the README is
  right (`DiscardedWithoutOneoffs`).
- `FragView_proofs`: the free space counted never exceeds the distance to what
  is still to be visited (`ScanInv`), so `TooMuchFree` cannot happen even if
  extents overlap; `BeforeStart` cannot because of how groups are looked up.
  `FreeSpace` needs `FreeInv`, which describes a scan midway: `FreeBefore` is the
  free space up to where it is, `RunBefore` the runs that end there. No
  extent that was visited starts after one that is still to be visited, so what
  lies in front of the next one is either covered already or free for good. The
  proof showed that the bound on runs is not true of every dump: an extent of
  length 0 splits a run in two, for `fragmentation()` starts counting again behind
  it. `FreeSpaceFound` excepts such groups in that one conjunct, and the run has
  such an extent.
- `Metrics_proofs`: averages are sums over sets of runs, which the community modules
  define by recursion on subsets. Nothing can be said of such a function before it
  is shown to exist; this is done without induction over data, by a least
  counterexample among the subsets of a finite set (`LeastSubset`, then `SumExists`,
  `SumUnique`). `SumBounds` and `SumSquares` are by the same argument: the sum lies
  between its least and its greatest weight times their number, and its square
  is at most the number times the sum of squares. `ResultsType` is what follows for
  `avg_results`, `WorseThanOne` for `check_regression`: the best run so far never
  regresses. `SameThreshold`: a value regresses against an average exactly if `diff_string`
  would show it red, although the two compute their thresholds apart.
  `CheckSound` and `CheckComplete` are the two directions of `check_regression`; the
  second needs the assumption of `KeysAssumption` that there are at most ten
  headline metrics (the code has four), else a tenth of them is more than one.
- `Reports_proofs`: what is known of an entry after its first `n` windows (`Passed`:
  no headline metric regresses in those of them whose metrics the newest run all
  has) or after the one it failed on (`Failed`: the verdict of that window stands).
  `NotItsOwnBaseline` needs `OrderInv`: ids are unique and, while the clock was not
  set back, in the order of days. `FailedIsWorse` joins `Failed` with `WorseThanOne`; the
  metric may be one that no run of the average has, which then is 0 (`generate-results-page.py:43`).
  `TableAgreesWithPage` is `SameThreshold` over the rows of the two labels. `FailureShown`
  excepts a newest run that the first window lacks: its page has no row for
  the metric.
  `CompleteInvariance` is `Spec => []CompleteInv`, relative to `IndInv`; five theorems
  use it. `FiniteInv`: what was read is finite, so that averages are sums. `KeptInv`:
  while nothing is deleted, what was read is still there, and no window is empty
  if the first is not. That last part is about days: a row may be in the window of
  7 days and not in that of 14 only if the day went on by a week between the two
  queries. `DaysInv` bounds how far it can have gone since the first query: a
  program takes no longer than a day, or what the clock was set back in between,
  or one day per event. `PairsInv` and `GraphInv`: every pair that the page shows had
  a process started for it, and it has either drawn the metric or is on its way
  with the metric in its list; a run committed meanwhile adds one row to those
  that make a graph, as `events` does to the bound.
  `WindowsAssumption` is what the argument about days rests on. Without it
  `SameMetricsComplete` is false: set the clock back during the queries of a page,
  let two midnights pass, and a run of the first window is too old for the second;
  the template then looks up a metric that is not there. The windows of the code
  differ by a week, so the assumption says that nobody sets the clock back by a week
  within one run of the script.
- `BgScalability_proofs`: `BlockInv` says what a process knows of its own null block
  device at each step, `MountInv` what it knows of mounts and loop device; that
  nothing is mounted without the device (`mounts # {} => nullb = "on"`) is what
  carries over from process to process. `DeadInv` says that no file system of the process at
  work has lost its device, which with `MountInv` makes `TeardownComplete`.

Only model-checked: `EveryStartEnds`, `EveryProcessEnds` and `ExceptionEndsSuite`. All
three rest on weak fairness, hence on `ENABLED`, which this prover does not reason
about. Every invariant and the action property that a passing run checks is a theorem,
and so is the refinement. The properties that runs refute are no theorems; for three of
the six it is one under a condition, see above.

## Findings

Each is refuted by the run named; the quotations are in `PROJECT.json`.

1. `notrun`: a test that raises `NotRunException` leaves its file system mounted.
   The next `mkfs` then fails, or a second mount hides it.
2. `options`: `mkfs` and `mount` are called optional, but a section without one of
   them ends in a `TypeError` or `AttributeError`.
3. `tracing`: errors in latency tracing are not ignored once bpftrace ended well.
4. `oneoff`: test-only rows of oneoffs are never discarded.
5. `columns`: the results page prints the averages shortest window first, under
   headings that start with "4 week avg".
6. `bgsleep`: `umount` sleeps for block devices; its comment says it must for all
   others. The oneoff's loop file is not one, so its loop device may still be
   attached when the file system under it is unmounted, which then fails. With the
   condition negated `LoopReleased` holds.

Seen while reading, without a run: the README cleans with
`./fsperf-clean-results myabtest`, but the script has no positional argument, so
nothing is deleted; it says both that "all of the saved results" and that "only
the last run" are compared, and the code takes a window of days; a traced function
with "bytes" in its name has latencies of which higher is better; a function listed twice
for tracing gets two bpftrace processes (`PerfTest.py:118-124`); a test whose newest run is
older than a week can be failed in the index while its page has no row to show for it; a null
block device switched off at exit leaves its file system on the directory, for a later
process to mount over.

## Plan

Done: `Suite`, `PerfTest` and its refinement, `Fsperf`, `FragView`, `Metrics`, `Reports`,
`BgScalability`, and their proofs. What is left:

What the refuted `TracingErrorsIgnored`, `ColumnsMatchHeader` and `LoopReleased`
leave true, as theorems like those above.

## Not modelled

- `bg-dump.jinja`: the btrd script is a template for another program that walks a
  file system in use. `FragView` reads any lines in any order, so its properties
  hold of whatever such a walk prints; a model of the walk would say more only
  with a model of btrfs.
- `FioCompare`: imported by `fsperf.py` and never called.
- `FioResultDecoder`: flattens fio's JSON into columns, a conversion without control.
- The schema and its migrations: declarations, generated by alembic.
- What the graphs look like, `index.jinja`, and the layout of the pages.
- The cpu governor: one write per cpu before the suite; nothing reads it back.
