------------------------------ MODULE PerfTest ------------------------------
(***************************************************************************)
(* One fsperf process working through its tests: the loop of src/fsperf.py *)
(* (sections, then tests, then runs of a test) and, for every run, the     *)
(* life cycle of PerfTest.run in src/PerfTest.py with the Mount, IOStats   *)
(* and LatencyTracing context managers of src/utils.py.                    *)
(*                                                                         *)
(* Every command the code starts may fail, the process may be killed       *)
(* between any two steps, and what it left behind (mounts, child           *)
(* processes, formatted devices, committed rows) is there when it is       *)
(* started again.  The steps of a run are the values of pc; a step that    *)
(* can raise has one disjunct for success and one for each way to fail.    *)
(***************************************************************************)
EXTENDS Naturals, Sequences

CONSTANTS
  NSections,   \* sections of local.cfg but [main], numbered in file order
  NTests,      \* test objects loaded by utils.get_tests, in load order
  NumRuns,     \* --numruns
  Devices,     \* block devices
  Device,      \* the 'device' option of each section
  WithMkfs, WithMount, WithBefore, WithAfter, \* sections having the option
  Remounting,  \* tests with need_remount_after_setup
  MayNotRun,   \* tests whose setup() may raise NotRunException
  Fns,         \* kernel functions that can be traced
  TestFns,     \* trace_fns of each test, and the 'trace_fns' option of each section:
  SectionFns,  \* sets, as no function is taken to be named twice in one of them
  None,        \* no device: the attribute self.mnt was never assigned
  MaxStarts    \* bound: how often fsperf is started

SectionIds == 1..NSections
TestIds == 1..NTests

ASSUME CountsAssumption ==
  NSections \in Nat /\ NTests \in Nat \ {0} /\ NumRuns \in Nat \ {0} /\ MaxStarts \in Nat

ASSUME ConfigAssumption ==
  /\ Device \in [SectionIds -> Devices] /\ None \notin Devices
  /\ {WithMkfs, WithMount, WithBefore, WithAfter} \subseteq SUBSET SectionIds
  /\ {Remounting, MayNotRun} \subseteq SUBSET TestIds

ASSUME TracingAssumption ==
  /\ TestFns \in [TestIds -> SUBSET Fns] /\ SectionFns \in [SectionIds -> SUBSET Fns]
  /\ "before" \notin Fns

VARIABLES
  pc,         \* where the process is
  err,        \* the exception being propagated, "none" if there is none
  starts,     \* number of times fsperf has been started
  first, last,   \* the sections this process works through
  sec, tst, run, \* the loop variables of fsperf.py: section, t, i
  stack,      \* callbacks on the ExitStack of the current run
  todo,       \* functions LatencyTracing has yet to start, then to collect
  mnt,        \* self.mnt of each test object
  attrs,      \* for each test object, the run in which each measurement was taken
  mounts,     \* devices mounted on main.directory, the topmost first
  formatted,  \* the run whose mkfs made each device's file system
  children,   \* live child processes: "before" and the traced functions
  base,       \* mounts as the current run found it
  rows        \* runs committed to the results database

loop == <<starts, first, last, sec, tst, run>>
objects == <<mnt, attrs>>
os == <<mounts, formatted, children>>
vars == <<pc, err, loop, stack, todo, objects, os, base, rows>>

Measurements == {"result", "io_stats", "latency_traces", "commit_stats",
                 "mount_timings", "fragmentation"}
Errors == {"OSError", "CalledProcessError", "TypeError", "AttributeError",
           "TracingError", "ResultError"}
Ended == {"done", "failed", "killed"}
Pcs == {"section", "mkfs", "mount", "setup", "remount", "mount_again", "before",
        "iostats", "trace", "test", "collect", "iostop", "finally", "after",
        "measure", "cycle_umount", "cycle_mount", "fragmentation", "record",
        "teardown", "umount", "leave"} \cup Ended

RunId == Nat \X Nat \X Nat
ThisRun == <<sec, tst, run>>
NoRun == <<0, 0, 0>>
NoMount == [device |-> None, live |-> FALSE]
MountObjects == [device : Devices \cup {None}, live : BOOLEAN]
Assigned == mnt[tst].device # None

\* All sections, or the one named with -c.
Choices == {<<1, NSections>>} \cup {<<s, s>> : s \in SectionIds}

TraceFns == IF TestFns[tst] # {} THEN TestFns[tst] ELSE SectionFns[sec]

ControlOK ==
  /\ pc \in Pcs /\ err \in Errors \cup {"none"} /\ starts \in Nat
  /\ <<first, last>> \in Choices /\ sec \in first..last + 1
  /\ tst \in TestIds /\ run \in 1..NumRuns
  /\ stack \subseteq {"umount", "teardown"} /\ todo \subseteq Fns
ObjectsOK ==
  /\ mnt \in [TestIds -> MountObjects]
  /\ attrs \in [TestIds -> [Measurements -> RunId]]
SystemOK ==
  /\ mounts \in Seq(Devices) /\ base \in Seq(Devices)
  /\ formatted \in [Devices -> RunId]
  /\ children \subseteq Fns \cup {"before"}
  /\ rows \subseteq [start : Nat, job : RunId, from : [Measurements -> RunId]]
TypeOK == ControlOK /\ ObjectsOK /\ SystemOK

Init ==
  /\ pc = "section" /\ err = "none" /\ starts = 1
  /\ \E c \in Choices : first = c[1] /\ last = c[2] /\ sec = c[1]
  /\ tst = 1 /\ run = 1
  /\ stack = {} /\ todo = {}
  /\ mnt = [t \in TestIds |-> NoMount]
  /\ attrs = [t \in TestIds |-> [m \in Measurements |-> NoRun]]
  /\ mounts = <<>> /\ base = <<>>
  /\ formatted = [d \in Devices |-> NoRun]
  /\ children = {} /\ rows = {}

-----------------------------------------------------------------------------
(* Control: proceeding, raising, and the next iteration of the three loops. *)

Goto(p) == pc' = p /\ UNCHANGED err
Raise(e, p) == pc' = p /\ err' = e
Take(ms) == attrs' = [attrs EXCEPT ![tst] = [m \in Measurements |->
                        IF m \in ms THEN ThisRun ELSE @[m]]]

\* Mutation: one run too many.
NextRun_OneMore ==
  /\ UNCHANGED <<err, starts, first, last>> /\ base' = mounts
  /\ \/ run <= NumRuns /\ run' = run + 1 /\ pc' = "mkfs" /\ UNCHANGED <<sec, tst>>
     \/ run > NumRuns /\ run' = 1 /\ tst' = 1 /\ sec' = sec + 1 /\ pc' = "section"

\* Mutation: the tests are an iterator, used up in the first section.
NextRun_OneSection ==
  /\ UNCHANGED <<err, starts, first, last>> /\ base' = mounts
  /\ \/ run < NumRuns /\ run' = run + 1 /\ pc' = "mkfs" /\ UNCHANGED <<sec, tst>>
     \/ run = NumRuns /\ tst < NTests /\ run' = 1 /\ tst' = tst + 1 /\ pc' = "mkfs" /\ UNCHANGED sec
     \/ run = NumRuns /\ tst = NTests /\ run' = 1 /\ tst' = 1 /\ sec' = last + 1 /\ pc' = "section"

\* for section ... for t in tests ... for i in range(numruns)
NextRun ==
  /\ UNCHANGED <<err, starts, first, last>> /\ base' = mounts
  /\ \/ run < NumRuns /\ run' = run + 1 /\ pc' = "mkfs" /\ UNCHANGED <<sec, tst>>
     \/ run = NumRuns /\ tst < NTests /\ run' = 1 /\ tst' = tst + 1 /\ pc' = "mkfs" /\ UNCHANGED sec
     \/ run = NumRuns /\ tst = NTests /\ run' = 1 /\ tst' = 1 /\ sec' = sec + 1 /\ pc' = "section"

(***************************************************************************)
(* The mount table of the kernel, seen through mount(8), umount(8), mkfs:  *)
(* a device is not mounted twice in a row on one directory, umount takes   *)
(* the topmost mount away, and mkfs refuses a device that is mounted.      *)
(***************************************************************************)
Mounted == {mounts[i] : i \in DOMAIN mounts}
CanMount(d) == ~(mounts # <<>> /\ Head(mounts) = d)
Push(d) == CanMount(d) /\ mounts' = <<d>> \o mounts /\ UNCHANGED <<formatted, children>>
Pop == mounts # <<>> /\ mounts' = Tail(mounts) /\ UNCHANGED <<formatted, children>>
SetLive(b) == mnt' = [mnt EXCEPT ![tst] = [device |-> @.device, live |-> b]]

\* Mount.mount of the existing object self.mnt, proceeding at ok or raising at bad.
MountMnt(ok, bad) ==
  \/ Push(mnt[tst].device) /\ SetLive(TRUE) /\ Goto(ok)
  \/ Raise("CalledProcessError", bad) /\ UNCHANGED <<mnt, os>>

\* Mutation: umount() does not note that the mount is gone.
UmountMnt_StaysLive(ok, bad) ==
  \/ ~mnt[tst].live /\ Goto(ok) /\ UNCHANGED <<mnt, os>>
  \/ mnt[tst].live /\ Pop /\ Goto(ok) /\ UNCHANGED mnt
  \/ mnt[tst].live /\ Raise("CalledProcessError", bad) /\ UNCHANGED <<mnt, os>>

\* Mount.umount of self.mnt: nothing when it is not live.  After umount(8) it
\* looks at the device, which may fail with the mount already gone.
UmountMnt(ok, bad) ==
  \/ ~mnt[tst].live /\ Goto(ok) /\ UNCHANGED <<mnt, os>>
  \/ mnt[tst].live /\ Pop /\ SetLive(FALSE) /\ (Goto(ok) \/ Raise("OSError", bad))
  \/ mnt[tst].live /\ Raise("CalledProcessError", bad) /\ UNCHANGED <<mnt, os>>

-----------------------------------------------------------------------------
(* test_context: mkfs, mount, setup.  Nothing unwinds an exception here.    *)
(* test.skip_mkfs_and_mount is false: only the oneoff of BgScalability sets it. *)

SetupDevice ==
  /\ pc = "section" /\ sec <= last
  /\ Goto("mkfs") \/ Raise("OSError", "failed")
  /\ base' = mounts
  /\ UNCHANGED <<loop, stack, todo, objects, os, rows>>

Finish ==
  /\ pc = "section" /\ sec > last /\ Goto("done")
  /\ UNCHANGED <<loop, stack, todo, objects, os, base, rows>>

Mkfs ==
  /\ pc = "mkfs" /\ stack' = {}
  /\ \/ sec \notin WithMkfs /\ Goto("mount") /\ UNCHANGED formatted
     \/ /\ sec \in WithMkfs /\ Device[sec] \notin Mounted /\ Goto("mount")
        /\ formatted' = [formatted EXCEPT ![Device[sec]] = ThisRun]
     \/ sec \in WithMkfs /\ Raise("CalledProcessError", "failed") /\ UNCHANGED formatted
  /\ UNCHANGED <<loop, todo, objects, mounts, children, base, rows>>

\* Mutation: the mount is not entered into the ExitStack.
MountFs_NotEntered ==
  /\ pc = "mount" /\ sec \in WithMount /\ Push(Device[sec]) /\ Goto("setup")
  /\ mnt' = [mnt EXCEPT ![tst] = [device |-> Device[sec], live |-> TRUE]]
  /\ UNCHANGED <<stack, loop, todo, attrs, base, rows>>

MountFs ==
  /\ pc = "mount"
  /\ \/ sec \notin WithMount /\ Goto("setup") /\ UNCHANGED <<mnt, os, stack>>
     \/ /\ sec \in WithMount /\ Push(Device[sec]) /\ Goto("setup")
        /\ mnt' = [mnt EXCEPT ![tst] = [device |-> Device[sec], live |-> TRUE]]
        /\ stack' = {"umount"}
     \/ /\ sec \in WithMount /\ Raise("CalledProcessError", "failed")
        /\ UNCHANGED <<mnt, os, stack>>
  /\ UNCHANGED <<loop, todo, attrs, base, rows>>

SetupOk ==
  /\ pc = "setup" /\ Goto("remount") /\ stack' = stack \cup {"teardown"}
  /\ UNCHANGED <<loop, todo, objects, os, base, rows>>

SetupFails ==
  /\ pc = "setup" /\ Raise("CalledProcessError", "failed")
  /\ UNCHANGED <<loop, stack, todo, objects, os, base, rows>>

\* Mutation: any exception of setup() counts as "not run".
SetupNotRun_Always ==
  /\ pc = "setup" /\ NextRun /\ stack' = {} /\ UNCHANGED <<todo, objects, os, rows>>

\* The ExitStack has not been entered: it is dropped with its callbacks, and
\* run_test goes on to the next run.
SetupNotRun ==
  /\ pc = "setup" /\ tst \in MayNotRun /\ NextRun /\ stack' = {}
  /\ UNCHANGED <<todo, objects, os, rows>>

-----------------------------------------------------------------------------
(* The body of run(): an exception goes to "teardown", or, inside the try,  *)
(* through the context managers that were entered and the finally clause.   *)

\* Mutation: the file system is not mounted again.
MaybeCycleMount_Unmounts ==
  /\ pc = "remount"
  /\ IF tst \in Remounting THEN UmountMnt("before", "teardown")
                           ELSE Goto("before") /\ UNCHANGED <<mnt, os>>
  /\ UNCHANGED <<loop, stack, todo, attrs, base, rows>>

MaybeCycleMount ==
  /\ pc = "remount"
  /\ \/ ~Assigned /\ Raise("AttributeError", "teardown") /\ UNCHANGED <<mnt, os>>
     \/ Assigned /\ tst \notin Remounting /\ Goto("before") /\ UNCHANGED <<mnt, os>>
     \/ Assigned /\ tst \in Remounting /\ UmountMnt("mount_again", "teardown")
  /\ UNCHANGED <<loop, stack, todo, attrs, base, rows>>

MountAgain ==
  /\ pc = "mount_again" /\ MountMnt("before", "teardown")
  /\ UNCHANGED <<loop, stack, todo, attrs, base, rows>>

StartBefore ==
  /\ pc = "before"
  /\ \/ sec \notin WithBefore /\ Goto("iostats") /\ UNCHANGED children
     \/ sec \in WithBefore /\ Goto("iostats") /\ children' = children \cup {"before"}
     \/ sec \in WithBefore /\ Raise("OSError", "teardown") /\ UNCHANGED children
  /\ UNCHANGED <<loop, stack, todo, objects, mounts, formatted, base, rows>>

\* self.dev is what mkfs() returned: the device, or Python's None without mkfs.
EnterIOStats ==
  /\ pc = "iostats"
  /\ \/ sec \notin WithMkfs /\ Raise("TypeError", "finally") /\ UNCHANGED todo
     \/ sec \in WithMkfs /\ Goto("trace") /\ todo' = TraceFns
     \/ sec \in WithMkfs /\ Raise("OSError", "finally") /\ UNCHANGED todo
  /\ UNCHANGED <<loop, stack, objects, os, base, rows>>

StartTrace ==
  /\ pc = "trace"
  /\ \/ todo = {} /\ Goto("test") /\ UNCHANGED <<todo, children>>
     \/ \E fn \in todo : /\ todo' = todo \ {fn} /\ children' = children \cup {fn}
                         /\ UNCHANGED <<pc, err>>
     \/ todo # {} /\ Raise("OSError", "iostop") /\ UNCHANGED <<todo, children>>
  /\ UNCHANGED <<loop, stack, objects, mounts, formatted, base, rows>>

RunTest ==
  /\ pc = "test" /\ todo' = TraceFns
  /\ \/ Goto("collect") /\ Take({"result"})
     \/ Raise("CalledProcessError", "collect") /\ UNCHANGED attrs
  /\ UNCHANGED <<loop, stack, mnt, os, base, rows>>

\* Mutation: waits for bpftrace without interrupting it.
CollectTrace_Waits ==
  /\ pc = "collect"
  /\ \/ todo = {} /\ Goto("iostop") /\ UNCHANGED <<todo, children>>
     \/ \E fn \in todo \ children : todo' = todo \ {fn} /\ UNCHANGED <<pc, err, children>>
  /\ UNCHANGED <<loop, stack, objects, mounts, formatted, base, rows>>

\* collect_latency_trace ends bpftrace (or kills it after 15 seconds) and may
\* then raise over its output, in which case the other traces are left alone.
CollectTrace ==
  /\ pc = "collect"
  /\ \/ todo = {} /\ Goto("iostop") /\ UNCHANGED <<todo, children>>
     \/ \E fn \in todo : /\ children' = children \ {fn}
                         /\ \/ todo' = todo \ {fn} /\ UNCHANGED <<pc, err>>
                            \/ UNCHANGED todo /\ Raise("TracingError", "iostop")
  /\ UNCHANGED <<loop, stack, objects, mounts, formatted, base, rows>>

ExitIOStats ==
  /\ pc = "iostop" /\ (Goto("finally") \/ Raise("OSError", "finally"))
  /\ UNCHANGED <<loop, stack, todo, objects, os, base, rows>>

\* Mutation: no finally, the process is killed only after a test that passed.
KillBefore_OnSuccess ==
  /\ pc = "finally" /\ Goto("after")
  /\ children' = IF err = "none" THEN children \ {"before"} ELSE children
  /\ UNCHANGED <<loop, stack, todo, objects, mounts, formatted, base, rows>>

KillBefore ==
  /\ pc = "finally" /\ Goto("after") /\ children' = children \ {"before"}
  /\ UNCHANGED <<loop, stack, todo, objects, mounts, formatted, base, rows>>

RunAfter ==
  /\ pc = "after"
  /\ \/ Goto(IF err = "none" THEN "measure" ELSE "teardown")
     \/ sec \in WithAfter /\ Raise("CalledProcessError", "teardown")
  /\ UNCHANGED <<loop, stack, todo, objects, os, base, rows>>

Measure ==
  /\ pc = "measure"
  /\ \/ Goto("cycle_umount") /\ Take({"io_stats", "latency_traces", "commit_stats"})
     \/ Raise("CalledProcessError", "teardown") /\ Take({"io_stats", "latency_traces"})
  /\ UNCHANGED <<loop, stack, todo, mnt, os, base, rows>>

CycleUmount ==
  /\ pc = "cycle_umount" /\ UmountMnt("cycle_mount", "teardown")
  /\ UNCHANGED <<loop, stack, todo, attrs, base, rows>>

CycleMount ==
  /\ pc = "cycle_mount" /\ MountMnt("fragmentation", "teardown")
  /\ IF pc' = "fragmentation" THEN Take({"mount_timings"}) ELSE UNCHANGED attrs
  /\ UNCHANGED <<loop, stack, todo, base, rows>>

\* Mutation: a failing btrd leaves self.fragmentation as it is.
CollectFragmentation_Keeps ==
  /\ pc = "fragmentation" /\ Goto("record")
  /\ Take({"fragmentation"}) \/ UNCHANGED attrs
  /\ UNCHANGED <<loop, stack, todo, mnt, os, base, rows>>

\* A failing btrd or btrfs-frag-view is caught: the measurement is then {}.
CollectFragmentation ==
  /\ pc = "fragmentation"
  /\ \/ Goto("record") /\ Take({"fragmentation"})
     \/ Raise("ResultError", "teardown") /\ UNCHANGED attrs
  /\ UNCHANGED <<loop, stack, todo, mnt, os, base, rows>>

RecordResults ==
  /\ pc = "record" /\ (Goto("teardown") \/ Raise("ResultError", "teardown"))
  /\ UNCHANGED <<loop, stack, todo, objects, os, base, rows>>

-----------------------------------------------------------------------------
(* Leaving the with statement, last callback first, and run_test's commit.  *)

\* Mutation: the exit callback swallows the exception.
Teardown_Swallows ==
  /\ pc = "teardown" /\ stack' = stack \ {"teardown"} /\ pc' = "umount" /\ err' = "none"
  /\ UNCHANGED <<loop, todo, objects, os, base, rows>>

Teardown ==
  /\ pc = "teardown" /\ stack' = stack \ {"teardown"}
  /\ Goto("umount") \/ ("teardown" \in stack /\ Raise("CalledProcessError", "umount"))
  /\ UNCHANGED <<loop, todo, objects, os, base, rows>>

ExitMount ==
  /\ pc = "umount" /\ stack' = {}
  /\ IF "umount" \in stack THEN UmountMnt("leave", "leave")
                           ELSE Goto("leave") /\ UNCHANGED <<mnt, os>>
  /\ UNCHANGED <<loop, todo, attrs, base, rows>>

Commit ==
  /\ pc = "leave" /\ err = "none" /\ NextRun
  /\ rows' = rows \cup {[start |-> starts, job |-> ThisRun, from |-> attrs[tst]]}
  /\ UNCHANGED <<stack, todo, objects, os>>

\* Only NotRunException is caught by run_test: anything else ends fsperf.
Fail ==
  /\ pc = "leave" /\ pc' = "failed"
  /\ err' = IF err = "none" THEN "ResultError" ELSE err
  /\ UNCHANGED <<loop, stack, todo, objects, os, base, rows>>

Step ==
  \/ SetupDevice \/ Finish \/ Mkfs \/ MountFs \/ SetupOk \/ SetupFails \/ SetupNotRun
  \/ MaybeCycleMount \/ MountAgain \/ StartBefore \/ EnterIOStats \/ StartTrace
  \/ RunTest \/ CollectTrace \/ ExitIOStats \/ KillBefore \/ RunAfter \/ Measure
  \/ CycleUmount \/ CycleMount \/ CollectFragmentation \/ RecordResults
  \/ Teardown \/ ExitMount \/ Commit \/ Fail

-----------------------------------------------------------------------------
(* The environment: a kill or power loss, and the next start of fsperf.     *)

Kill ==
  /\ pc \notin Ended /\ Goto("killed")
  /\ UNCHANGED <<loop, stack, todo, objects, os, base, rows>>

\* New test objects; whoever starts fsperf may have unmounted the directory.
\* Orphans of the previous process are not followed any further.
Start ==
  /\ pc \in Ended /\ starts < MaxStarts
  /\ pc' = "section" /\ err' = "none" /\ starts' = starts + 1
  /\ \E c \in Choices : first' = c[1] /\ last' = c[2] /\ sec' = c[1]
  /\ tst' = 1 /\ run' = 1 /\ stack' = {} /\ todo' = {}
  /\ mnt' = [t \in TestIds |-> NoMount]
  /\ attrs' = [t \in TestIds |-> [m \in Measurements |-> NoRun]]
  /\ mounts' \in {mounts, <<>>} /\ base' = mounts'
  /\ formatted' = [d \in Devices |-> NoRun] /\ children' = {}
  /\ UNCHANGED rows

Next == Step \/ Kill \/ Start

Spec == Init /\ [][Next]_vars

\* Every command fsperf waits for returns, so the process always takes its
\* next step; nobody has to kill or start it.
FairSpec == Spec /\ WF_vars(Step)

-----------------------------------------------------------------------------
(* Properties.                                                              *)

\* The steps of PerfTest.run once test_context has mounted the file system.
InRun == Pcs \ ({"section", "mkfs", "mount"} \cup Ended)

OwnMount == IF mnt[tst].live THEN <<mnt[tst].device>> ELSE <<>>

\* In a section with the mount option Mount.live tells the truth, so that the
\* umounts of cycle_mount, timed_cycle_mount and __exit__ take away this run's own
\* mount and nothing that was on the directory before.
MountTracked ==
  /\ pc \in {"mkfs", "mount"} => mounts = base
  /\ pc \in InRun /\ sec \in WithMount =>
       /\ mnt[tst].device = Device[sec]
       /\ mounts = OwnMount \o base

\* self.test() of a section with the mount option runs on the file system that
\* the mkfs of this very run made, whatever earlier runs, crashes and remounts left
\* on the directory.  In other sections the device has a file system of this run,
\* but what is on the directory is somebody else's: see StaleMountLeft.
TestSeesFreshFs ==
  pc = "test" =>
    /\ formatted[Device[sec]] = ThisRun
    /\ sec \in WithMount => mounts # <<>> /\ Head(mounts) = Device[sec]

\* A run that is about to be committed has taken back its 'before' process and
\* every bpftrace; and its mount, if its section has the mount option.  (Without
\* it the run leaves the device of an earlier section mounted: StaleMountLeft.)
CleanHandover ==
  pc = "leave" /\ err = "none" =>
    children = {} /\ (sec \in WithMount => mounts = base)

\* Without the mount option timed_cycle_mount mounts what self.mnt is of, the device
\* of an earlier section, and nothing takes it away again.  Yet such mounts do not
\* pile up, nor does one take away what somebody else has mounted: a committed run
\* leaves that device on top, knows of it, and has added one mount at the most.
StaleMountLeft ==
  pc = "leave" /\ err = "none" /\ sec \notin WithMount =>
    /\ mnt[tst].live /\ mounts # <<>> /\ Head(mounts) = mnt[tst].device
    /\ mounts \in {base, <<mnt[tst].device>> \o base}

\* However the body ends, the finally clause kills the 'before' process.
BeforeKilled ==
  "before" \in children =>
    pc \in {"iostats", "trace", "test", "collect", "iostop", "finally", "killed"}

\* Results live on the test object between runs, yet a committed row holds
\* nothing measured in an earlier run.
NoStaleResults == \A r \in rows : \A m \in Measurements : r.from[m] = r.job

\* An exception that is not NotRunException ends fsperf: no context manager,
\* finally clause or loop swallows it and carries on.
ExceptionEndsSuite == err # "none" ~> pc \in {"failed", "killed"}

\* Every start comes to an end: the loops and the life cycle of a run have no
\* step from which they do not get on.
EveryStartEnds == pc \notin Ended ~> pc \in Ended

-----------------------------------------------------------------------------
(* The inductive invariant behind these properties.                         *)

\* No exception is on its way before the finally clause of run() or between
\* it and the end of the body, the section is one of the chosen ones, and the
\* body only goes on if the test object has a Mount.
Straight == {"section", "mkfs", "mount", "setup", "remount", "mount_again", "before",
             "iostats", "trace", "test", "measure", "cycle_umount", "cycle_mount",
             "fragmentation", "record", "done"}
ControlInv ==
  /\ pc \in Straight => err = "none"
  /\ pc \notin {"section"} \cup Ended => sec <= last
  /\ pc = "done" => sec = last + 1
  /\ pc = "section" => tst = 1 /\ run = 1
  /\ pc \in {"mount_again", "cycle_umount", "cycle_mount"} => Assigned
  /\ pc \in {"before", "iostats", "trace", "test", "collect", "iostop", "finally",
             "after", "measure"} => Assigned

\* Which child processes there can be: the traces only from "trace" on, and
\* past "collect" only if an exception is on its way.
ChildrenInv ==
  /\ BeforeKilled
  /\ pc \in Straight \ {"trace", "test"} => children \subseteq {"before"}
  /\ pc = "trace" => todo \subseteq TraceFns
  /\ pc \in {"trace", "test"} => children \subseteq TraceFns \cup {"before"}
  /\ pc = "collect" => children \subseteq todo \cup {"before"}
  /\ pc \in {"iostop", "finally", "after", "teardown", "umount", "leave"} /\ err = "none" =>
       children \subseteq {"before"}

\* When the Mount of the run is live, and that its umount is on the stack.
MountInv ==
  /\ MountTracked
  /\ pc \in InRun \ {"leave"} /\ sec \in WithMount => "umount" \in stack
  /\ pc \in {"mount_again", "cycle_mount"} => ~mnt[tst].live
  /\ pc \in {"setup", "remount", "before", "iostats", "trace", "test"} /\ sec \in WithMount =>
       mnt[tst].live
  /\ pc = "leave" /\ err = "none" /\ sec \in WithMount => ~mnt[tst].live

\* mkfs made the file system in this run, and nothing gets past IOStats
\* without a mkfs.
FreshInv ==
  /\ pc \in {"trace", "test"} => sec \in WithMkfs
  /\ pc \in {"mount", "setup", "remount", "mount_again", "before", "iostats", "trace", "test"}
       /\ sec \in WithMkfs => formatted[Device[sec]] = ThisRun

\* What the run has measured itself when it gets to p without an exception.
TakenBefore(p) ==
  IF p \in {"collect", "iostop", "finally", "after", "measure"} THEN {"result"}
  ELSE IF p \in {"cycle_umount", "cycle_mount"}
    THEN {"result", "io_stats", "latency_traces", "commit_stats"}
  ELSE IF p = "fragmentation" THEN Measurements \ {"fragmentation"}
  ELSE IF p \in {"record", "teardown", "umount", "leave"} THEN Measurements ELSE {}
ResultInv ==
  /\ NoStaleResults
  /\ err = "none" => \A m \in TakenBefore(pc) : attrs[tst][m] = ThisRun

\* The rows so far: every run before this one, in the order of the loops, has one.
IsBefore(j, k) == \/ j[1] < k[1]
                  \/ j[1] = k[1] /\ j[2] < k[2]
                  \/ j[1] = k[1] /\ j[2] = k[2] /\ j[3] < k[3]
ProgressInv ==
  \A job \in (first..last) \X (TestIds \ MayNotRun) \X (1..NumRuns) :
    IsBefore(job, ThisRun) => \E r \in rows : r.start = starts /\ r.job = job

\* Tests whose Mount is of the device mounted last: all of them between sections and
\* in one without the mount option, in others those that have got a new Mount.
Settled ==
  IF pc = "section" \/ sec \notin WithMount THEN TestIds
  ELSE {t \in TestIds : t < tst \/ (t = tst /\ (run > 1 \/ pc \in InRun))}

\* Their Mounts are of one device, and one of them at most is live, on top of table.
OneOnTop(tests, mount, table) ==
  /\ \A t, u \in tests : None \in {mount[t].device, mount[u].device}
                         \/ mount[t].device = mount[u].device
  /\ \A t, u \in tests : mount[t].live /\ mount[u].live => t = u
  /\ \A t \in tests : mount[t].live => table # <<>> /\ Head(table) = mount[t].device

\* What a section without the mount option does to the mounts it found: own is what
\* the test's stale Mount is of.
StaleEffect(own, live, table, found) ==
  IF live THEN table = found \/ table = <<own>> \o found
  ELSE table = found \/ (found # <<>> /\ Head(found) = own /\ table = Tail(found))

\* Not a part of IndInv, but inductive with it.
StaleInv ==
  /\ pc \notin Ended => OneOnTop(Settled, mnt, mounts)
  /\ pc \notin {"section"} \cup Ended /\ sec \in WithMount =>
       \A t \in Settled : mnt[t].device = Device[sec]
  /\ pc = "mount" => stack = {}
  /\ pc \in InRun /\ sec \notin WithMount =>
       /\ "umount" \notin stack
       /\ StaleEffect(mnt[tst].device, mnt[tst].live, mounts, base)
  /\ pc \in {"fragmentation", "record", "teardown", "umount", "leave"} /\ err = "none"
       /\ sec \notin WithMount => mnt[tst].live

IndInv == /\ TypeOK /\ ControlInv /\ ChildrenInv /\ MountInv
          /\ FreshInv /\ ResultInv /\ ProgressInv

-----------------------------------------------------------------------------
(* The implemented abstraction: see Suite.                                  *)

JobNumber(j) == ((j[1] - 1) * NTests + (j[2] - 1)) * NumRuns + (j[3] - 1)
SectionStart(s) == JobNumber(<<s, 1, 1>>)

Abstract == INSTANCE Suite WITH
  Total <- NSections * NTests * NumRuns,
  Skippable <- {JobNumber(j) : j \in SectionIds \X MayNotRun \X (1..NumRuns)},
  status <- IF pc \in Ended THEN pc ELSE "running",
  from <- SectionStart(first), next <- JobNumber(ThisRun), upto <- SectionStart(last + 1),
  rows <- {<<r.start, JobNumber(r.job)>> : r \in rows}

\* fsperf's nested loops record the runs in order, once each, and leave out
\* only those of a test that was not run.
ImplementsSuite == Abstract!Spec

\* At any time the rows of this start are those of the runs the loops are past,
\* except runs of a test that may not run: no row is early, twice or missing.
RowsInOrder == Abstract!RowsInOrder

\* When fsperf comes to its end, every run asked for has its row, except those
\* of a test that may raise NotRunException.
DoneIsComplete ==
  pc = "done" =>
    \A job \in (first..last) \X (TestIds \ MayNotRun) \X (1..NumRuns) :
      \E r \in rows : r.start = starts /\ r.job = job

-----------------------------------------------------------------------------
(* What the documentation says and the code does not keep to: each is       *)
(* refuted by a run of its own.                                             *)

\* "If specified the fs will be unmounted between each test" (README.md, the
\* mount option): a run that finds the directory free leaves it free.  Checked
\* with one start and every section having the option.  A setup() that raises
\* NotRunException leaves the file system mounted: test_context drops the
\* ExitStack before anything was entered into a with statement.
UnmountedBetweenTests == pc = "mkfs" => mounts = <<>>

\* mkfs and mount are "optional options" (README.md): no run dies of the lack of
\* one.  IOStats(None) and the self.mnt that was never assigned do.
OptionsAreOptional == err \notin {"TypeError", "AttributeError"}

\* "ignore errors in latency tracing; better to let the whole run still
\* complete" (LatencyTracing.collect_latency_trace): tracing raises nothing.
TracingErrorsIgnored == err # "TracingError"

=============================================================================
