-------------------------- MODULE PerfTest_proofs --------------------------
(* Proofs about PerfTest, for every number of sections, tests and runs.     *)
EXTENDS PerfTest, SequenceTheorems, TLAPS

USE DEF SectionIds, TestIds

LEMMA InitIndInv == ASSUME Init PROVE IndInv
<1>. USE CountsAssumption, ConfigAssumption DEF Init
<1>1. TypeOK
  BY DEF TypeOK, ControlOK, ObjectsOK, SystemOK, Pcs, Errors, MountObjects, NoMount, RunId, NoRun, Choices, Measurements
<1>2. ControlInv
  BY DEF ControlInv, Straight, Ended
<1>3. ChildrenInv /\ MountInv
  BY DEF ChildrenInv, BeforeKilled, MountInv, MountTracked, InRun, Straight, Ended, Pcs
<1>4. FreshInv /\ ResultInv
  BY DEF FreshInv, ResultInv, NoStaleResults, TakenBefore
<1>5. ProgressInv
  BY DEF ProgressInv, IsBefore, ThisRun, Choices
<1>. QED  BY <1>1, <1>2, <1>3, <1>4, <1>5 DEF IndInv

LEMMA ControlPreserved == ASSUME IndInv, [Next]_vars PROVE ControlInv'
<1>. USE CountsAssumption, ConfigAssumption
     DEF IndInv, TypeOK, ControlOK, ObjectsOK, ControlInv, Straight, Ended, Goto, Raise, Assigned, loop, objects, os
<1>1. CASE SetupDevice \/ Finish \/ Mkfs \/ MountFs \/ SetupOk \/ SetupFails
  BY <1>1 DEF SetupDevice, Finish, Mkfs, MountFs, SetupOk, SetupFails, Choices
<1>2. CASE SetupNotRun \/ Commit
  BY <1>2 DEF SetupNotRun, Commit, NextRun, Choices
<1>3. CASE MaybeCycleMount \/ MountAgain
  BY <1>3 DEF MaybeCycleMount, MountAgain, UmountMnt, MountMnt, SetLive, Assigned, MountObjects
<1>4. CASE StartBefore \/ EnterIOStats \/ StartTrace \/ RunTest
  BY <1>4 DEF StartBefore, EnterIOStats, StartTrace, RunTest
<1>5. CASE CollectTrace \/ ExitIOStats \/ KillBefore \/ RunAfter \/ Measure
  BY <1>5 DEF CollectTrace, ExitIOStats, KillBefore, RunAfter, Measure
<1>6. CASE CycleUmount \/ CycleMount
  BY <1>6 DEF CycleUmount, CycleMount, UmountMnt, MountMnt, SetLive, Assigned, MountObjects
<1>7. CASE CollectFragmentation \/ RecordResults \/ Teardown \/ Fail
  BY <1>7 DEF CollectFragmentation, RecordResults, Teardown, Fail
<1>8. CASE ExitMount
  BY <1>8 DEF ExitMount, UmountMnt
<1>9. CASE Kill \/ Start
  BY <1>9 DEF Kill, Start, Choices
<1>10. CASE UNCHANGED vars
  BY <1>10 DEF vars
<1>. QED  BY <1>1, <1>2, <1>3, <1>4, <1>5, <1>6, <1>7, <1>8, <1>9, <1>10 DEF Next, Step

LEMMA Ranges ==
  ASSUME ControlOK
  PROVE  /\ first \in Nat \ {0} /\ sec # 0
         /\ first \in Nat /\ last \in Nat /\ sec \in Nat /\ tst \in Nat /\ run \in Nat
         /\ ThisRun \in RunId
         /\ sec <= last => sec \in SectionIds
  BY CountsAssumption DEF ControlOK, Choices, ThisRun, RunId

LEMMA NextRunLoop ==
  ASSUME ControlOK, sec <= last, NextRun
  PROVE  /\ sec' \in first'..last' + 1 /\ tst' \in TestIds /\ run' \in 1..NumRuns
         /\ pc' \in {"mkfs", "section"} /\ UNCHANGED <<err, starts, first, last>>
  BY CountsAssumption, Ranges DEF ControlOK, NextRun

LEMMA ControlOKPreserved == ASSUME IndInv, [Next]_vars PROVE ControlOK'
<1>. USE DEF IndInv, TypeOK, ControlOK, Goto, Raise, loop
<1>1. /\ {"section", "mkfs", "mount", "setup", "remount", "mount_again", "before"} \subseteq Pcs
      /\ {"iostats", "trace", "test", "collect", "iostop", "finally", "after"} \subseteq Pcs
      /\ {"measure", "cycle_umount", "cycle_mount", "fragmentation", "record"} \subseteq Pcs
      /\ {"teardown", "umount", "leave", "done", "failed", "killed"} \subseteq Pcs
      /\ {"OSError", "CalledProcessError", "TypeError", "AttributeError"} \subseteq Errors
      /\ {"TracingError", "ResultError"} \subseteq Errors
  BY DEF Pcs, Ended, Errors
<1>2. CASE SetupDevice \/ Finish \/ Mkfs \/ MountFs \/ SetupOk \/ SetupFails
  BY <1>1, <1>2 DEF SetupDevice, Finish, Mkfs, MountFs, SetupOk, SetupFails
<1>3. CASE SetupNotRun \/ Commit
  <2>1. sec <= last
    BY <1>3 DEF SetupNotRun, Commit, ControlInv, Ended
  <2>. QED  BY <1>1, <1>3, <2>1, NextRunLoop DEF SetupNotRun, Commit, NextRun
<1>4. CASE MaybeCycleMount \/ MountAgain \/ CycleUmount \/ CycleMount \/ ExitMount
  BY <1>1, <1>4 DEF MaybeCycleMount, MountAgain, CycleUmount, CycleMount, ExitMount, UmountMnt,
                    MountMnt
<1>5. CASE EnterIOStats \/ RunTest
  <2>1. TraceFns \subseteq Fns
    BY <1>5, Ranges, TracingAssumption DEF EnterIOStats, RunTest, ControlInv, Ended, TraceFns
  <2>. QED  BY <1>1, <1>5, <2>1 DEF EnterIOStats, RunTest
<1>6. CASE StartBefore \/ StartTrace \/ CollectTrace \/ ExitIOStats \/ KillBefore
  BY <1>1, <1>6 DEF StartBefore, StartTrace, CollectTrace, ExitIOStats, KillBefore
<1>7. CASE RunAfter \/ Measure \/ CollectFragmentation \/ RecordResults \/ Teardown \/ Fail
  BY <1>1, <1>7 DEF RunAfter, Measure, CollectFragmentation, RecordResults, Teardown, Fail
<1>8. CASE Kill
  BY <1>1, <1>8 DEF Kill
<1>9. CASE Start
  <2>1. PICK c \in Choices : first' = c[1] /\ last' = c[2] /\ sec' = c[1]
    BY <1>9 DEF Start
  <2>2. c = <<c[1], c[2]>> /\ c[1] \in Nat /\ c[2] \in Nat /\ c[1] <= c[2] + 1
    BY CountsAssumption DEF Choices
  <2>3. <<first', last'>> \in Choices /\ sec' \in first'..last' + 1
    BY <2>1, <2>2
  <2>. QED  BY <1>1, <1>9, <2>3, CountsAssumption DEF Start
<1>10. CASE UNCHANGED vars
  BY <1>10 DEF vars
<1>. QED  BY <1>2, <1>3, <1>4, <1>5, <1>6, <1>7, <1>8, <1>9, <1>10 DEF Next, Step

LEMMA ObjectsOKPreserved == ASSUME IndInv, [Next]_vars PROVE ObjectsOK'
<1>. USE ConfigAssumption DEF IndInv, TypeOK, ObjectsOK, objects
<1>1. ThisRun \in RunId /\ tst \in TestIds
  BY Ranges DEF ControlOK
<1>2. \A ms : Take(ms) => attrs' \in [TestIds -> [Measurements -> RunId]]
  BY <1>1 DEF Take
<1>3. \A b \in BOOLEAN : SetLive(b) => mnt' \in [TestIds -> MountObjects]
  BY <1>1 DEF SetLive, MountObjects
<1>4. \A ok, bad : UmountMnt(ok, bad) \/ MountMnt(ok, bad) => mnt' \in [TestIds -> MountObjects]
  BY <1>3 DEF UmountMnt, MountMnt
<1>5. CASE MountFs
  <2>1. sec \in WithMount => [device |-> Device[sec], live |-> TRUE] \in MountObjects
    BY DEF MountObjects
  <2>. QED  BY <1>1, <1>5, <2>1 DEF MountFs
<1>6. CASE MaybeCycleMount \/ MountAgain \/ CycleUmount \/ ExitMount
  BY <1>4, <1>6 DEF MaybeCycleMount, MountAgain, CycleUmount, ExitMount
<1>7. CASE RunTest \/ Measure \/ CollectFragmentation
  BY <1>2, <1>7 DEF RunTest, Measure, CollectFragmentation
<1>8. CASE CycleMount
  BY <1>2, <1>4, <1>8 DEF CycleMount
<1>9. CASE Start
  BY <1>9 DEF Start, NoMount, MountObjects, NoRun, RunId
<1>10. CASE UNCHANGED objects
  BY <1>10
<1>. QED
  BY <1>5, <1>6, <1>7, <1>8, <1>9, <1>10
  DEF Next, Step, vars, SetupDevice, Finish, Mkfs, SetupOk, SetupFails, SetupNotRun, StartBefore,
      EnterIOStats, StartTrace, CollectTrace, ExitIOStats, KillBefore, RunAfter, RecordResults,
      Teardown, Commit, Fail, Kill

LEMMA SystemOKPreserved == ASSUME IndInv, [Next]_vars PROVE SystemOK'
<1>. USE ConfigAssumption, TracingAssumption DEF IndInv, TypeOK, SystemOK, os
<1>1. ThisRun \in RunId /\ tst \in TestIds
  BY Ranges DEF ControlOK
<1>2. \A d \in Devices : Push(d) => mounts' \in Seq(Devices) /\ UNCHANGED <<formatted, children>>
  BY DEF Push
<1>3. Pop => mounts' \in Seq(Devices) /\ UNCHANGED <<formatted, children>>
  BY DEF Pop
<1>4. \A ok, bad : UmountMnt(ok, bad) => mounts' \in Seq(Devices) /\ UNCHANGED <<formatted, children>>
  BY <1>3 DEF UmountMnt
<1>5. ASSUME Assigned
      PROVE  \A ok, bad : MountMnt(ok, bad) =>
                            mounts' \in Seq(Devices) /\ UNCHANGED <<formatted, children>>
  <2>1. mnt[tst].device \in Devices
    BY <1>1, <1>5 DEF ObjectsOK, MountObjects, Assigned
  <2>. QED  BY <1>2, <2>1 DEF MountMnt
<1>6. CASE SetupDevice
  BY <1>6 DEF SetupDevice
<1>7. CASE Mkfs
  BY <1>1, <1>7 DEF Mkfs
<1>8. CASE MountFs
  BY <1>2, <1>8 DEF MountFs
<1>9. CASE SetupNotRun
  BY <1>9 DEF SetupNotRun, NextRun
<1>10. CASE MaybeCycleMount \/ CycleUmount \/ ExitMount
  BY <1>4, <1>10 DEF MaybeCycleMount, CycleUmount, ExitMount
<1>11. CASE MountAgain \/ CycleMount
  BY <1>5, <1>11 DEF MountAgain, CycleMount, ControlInv
<1>12. CASE StartBefore \/ StartTrace
  BY <1>12 DEF StartBefore, StartTrace, ControlOK
<1>13. CASE CollectTrace \/ KillBefore
  BY <1>13 DEF CollectTrace, KillBefore
<1>14. CASE Commit
  <2>1. [start |-> starts, job |-> ThisRun, from |-> attrs[tst]]
          \in [start : Nat, job : RunId, from : [Measurements -> RunId]]
    BY <1>1 DEF ControlOK, ObjectsOK
  <2>. QED  BY <1>14, <2>1 DEF Commit, NextRun
<1>15. CASE Start
  <2>1. <<>> \in Seq(Devices) /\ NoRun \in RunId
    BY DEF NoRun, RunId
  <2>. QED  BY <1>15, <2>1 DEF Start
<1>16. CASE UNCHANGED <<os, base, rows>>
  BY <1>16
<1>. QED
  BY <1>6, <1>7, <1>8, <1>9, <1>10, <1>11, <1>12, <1>13, <1>14, <1>15, <1>16
  DEF Next, Step, vars, Finish, SetupOk, SetupFails, EnterIOStats, RunTest, ExitIOStats, RunAfter,
      Measure, CollectFragmentation, RecordResults, Teardown, Fail, Kill

LEMMA ChildrenPreserved == ASSUME IndInv, [Next]_vars PROVE ChildrenInv'
<1>. USE TracingAssumption
     DEF IndInv, TypeOK, ControlOK, SystemOK, ControlInv, ChildrenInv, BeforeKilled, Straight, Ended,
         Goto, Raise, os
<1>1. CASE SetupDevice \/ Finish \/ Mkfs \/ SetupOk \/ SetupFails
  BY <1>1 DEF SetupDevice, Finish, Mkfs, SetupOk, SetupFails
<1>2. CASE MountFs \/ SetupNotRun \/ Commit
  BY <1>2 DEF MountFs, Push, SetupNotRun, Commit, NextRun
<1>3. CASE MaybeCycleMount \/ MountAgain \/ CycleUmount \/ CycleMount \/ ExitMount
  BY <1>3 DEF MaybeCycleMount, MountAgain, CycleUmount, CycleMount, ExitMount, UmountMnt, MountMnt,
              Push, Pop
<1>4. CASE StartBefore
  BY <1>4 DEF StartBefore
<1>5. CASE EnterIOStats \/ StartTrace
  <2>1. UNCHANGED TraceFns
    BY <1>5 DEF EnterIOStats, StartTrace, TraceFns, loop
  <2>. QED  BY <1>5, <2>1 DEF EnterIOStats, StartTrace
<1>6. CASE RunTest
  BY <1>6 DEF RunTest
<1>7. CASE CollectTrace
  BY <1>7 DEF CollectTrace
<1>8. CASE ExitIOStats \/ KillBefore \/ RunAfter \/ Measure
  BY <1>8 DEF ExitIOStats, KillBefore, RunAfter, Measure
<1>9. CASE CollectFragmentation \/ RecordResults \/ Teardown \/ Fail
  BY <1>9 DEF CollectFragmentation, RecordResults, Teardown, Fail
<1>10. CASE Kill \/ Start
  BY <1>10 DEF Kill, Start
<1>11. CASE UNCHANGED vars
  BY <1>11 DEF vars, TraceFns, loop
<1>. QED  BY <1>1, <1>2, <1>3, <1>4, <1>5, <1>6, <1>7, <1>8, <1>9, <1>10, <1>11 DEF Next, Step

LEMMA FreshPreserved == ASSUME IndInv, [Next]_vars PROVE FreshInv'
<1>. USE DEF IndInv, FreshInv, Goto, Raise, os, loop, ThisRun
<1>1. CASE SetupDevice \/ Finish \/ SetupNotRun \/ SetupOk \/ SetupFails \/ Commit
  BY <1>1 DEF SetupDevice, Finish, SetupNotRun, SetupOk, SetupFails, Commit, NextRun
<1>2. CASE Mkfs
  <2>1. sec \in SectionIds
    BY <1>2, Ranges DEF Mkfs, TypeOK, ControlInv, Ended
  <2>2. Device[sec] \in Devices
    BY <2>1, ConfigAssumption
  <2>. QED  BY <1>2, <2>2 DEF Mkfs, TypeOK, SystemOK
<1>3. CASE MountFs \/ MaybeCycleMount \/ MountAgain \/ CycleUmount \/ CycleMount \/ ExitMount
  BY <1>3 DEF MountFs, MaybeCycleMount, MountAgain, CycleUmount, CycleMount, ExitMount, UmountMnt,
              MountMnt, Push, Pop
<1>4. CASE StartBefore \/ EnterIOStats \/ StartTrace \/ RunTest \/ CollectTrace
  BY <1>4 DEF StartBefore, EnterIOStats, StartTrace, RunTest, CollectTrace
<1>5. CASE ExitIOStats \/ KillBefore \/ RunAfter \/ Measure
  BY <1>5 DEF ExitIOStats, KillBefore, RunAfter, Measure
<1>6. CASE CollectFragmentation \/ RecordResults \/ Teardown \/ Fail \/ Kill \/ Start
  BY <1>6 DEF CollectFragmentation, RecordResults, Teardown, Fail, Kill, Start
<1>7. CASE UNCHANGED vars
  BY <1>7 DEF vars
<1>. QED  BY <1>1, <1>2, <1>3, <1>4, <1>5, <1>6, <1>7 DEF Next, Step

\* What Mount.umount does to a mount table that holds the Mount's own device
\* on top of b exactly when the Mount is live.
LEMMA UmountEffect ==
  ASSUME TypeOK, UNCHANGED tst, NEW ok, NEW bad, UmountMnt(ok, bad)
  PROVE  /\ \/ pc' = ok /\ UNCHANGED err /\ ~mnt'[tst].live
            \/ pc' = bad /\ err' # "none"
         /\ mnt'[tst].device = mnt[tst].device
         /\ \A b \in Seq(Devices) : mounts = OwnMount \o b => mounts' = OwnMount' \o b
<1>1. tst \in TestIds /\ mnt \in [TestIds -> MountObjects] /\ mounts \in Seq(Devices)
  BY DEF TypeOK, ControlOK, ObjectsOK, SystemOK
<1>2. CASE ~mnt[tst].live /\ Goto(ok) /\ UNCHANGED <<mnt, os>>
  BY <1>2 DEF Goto, os, OwnMount
<1>3. CASE mnt[tst].live /\ Pop /\ SetLive(FALSE) /\ (Goto(ok) \/ Raise("OSError", bad))
  <2>1. ~mnt'[tst].live /\ mnt'[tst].device = mnt[tst].device
    BY <1>1, <1>3 DEF SetLive
  <2>2. \A b \in Seq(Devices) : mounts = OwnMount \o b => mounts' = OwnMount' \o b
    BY <1>1, <1>3, <2>1 DEF Pop, OwnMount
  <2>. QED  BY <1>3, <2>1, <2>2 DEF Goto, Raise
<1>4. CASE mnt[tst].live /\ Raise("CalledProcessError", bad) /\ UNCHANGED <<mnt, os>>
  BY <1>4 DEF Raise, os, OwnMount
<1>. QED  BY <1>2, <1>3, <1>4 DEF UmountMnt

\* And what Mount.mount does, called when the Mount is not live.
LEMMA MountEffect ==
  ASSUME TypeOK, UNCHANGED tst, NEW ok, NEW bad, MountMnt(ok, bad), ~mnt[tst].live
  PROVE  /\ \/ pc' = ok /\ UNCHANGED err /\ mnt'[tst].live
            \/ pc' = bad /\ err' = "CalledProcessError" /\ UNCHANGED <<mnt, mounts>>
         /\ mnt'[tst].device = mnt[tst].device
         /\ \A b \in Seq(Devices) : mounts = OwnMount \o b => mounts' = OwnMount' \o b
<1>1. tst \in TestIds /\ mnt \in [TestIds -> MountObjects] /\ mounts \in Seq(Devices)
  BY DEF TypeOK, ControlOK, ObjectsOK, SystemOK
<1>2. CASE Push(mnt[tst].device) /\ SetLive(TRUE) /\ Goto(ok)
  <2>1. mnt'[tst].live /\ mnt'[tst].device = mnt[tst].device
    BY <1>1, <1>2 DEF SetLive
  <2>. QED  BY <1>1, <1>2, <2>1 DEF Push, OwnMount, Goto
<1>3. CASE Raise("CalledProcessError", bad) /\ UNCHANGED <<mnt, os>>
  BY <1>3 DEF Raise, OwnMount, os
<1>. QED  BY <1>2, <1>3 DEF MountMnt

LEMMA MountPreserved == ASSUME IndInv, [Next]_vars PROVE MountInv'
<1>. USE DEF IndInv, MountInv, MountTracked, InRun, Pcs, Ended, Goto, Raise, os, loop, objects
<1>1. tst \in TestIds /\ mnt \in [TestIds -> MountObjects] /\ base \in Seq(Devices)
  BY DEF TypeOK, ControlOK, ObjectsOK, SystemOK
<1>2. sec <= last /\ sec \in WithMount => Device[sec] \in Devices
  BY ConfigAssumption, Ranges DEF TypeOK
<1>3. UNCHANGED <<mnt, tst>> => UNCHANGED OwnMount
  BY DEF OwnMount
<1>4. CASE SetupDevice \/ Finish \/ Mkfs \/ SetupFails
  BY <1>3, <1>4 DEF SetupDevice, Finish, Mkfs, SetupFails
<1>5. CASE SetupNotRun \/ Commit
  BY <1>5 DEF SetupNotRun, Commit, NextRun
<1>6. CASE SetupOk
  BY <1>3, <1>6 DEF SetupOk
<1>7. CASE MountFs
  <2>1. CASE sec \in WithMount /\ pc' = "setup"
    <3>1. mnt'[tst] = [device |-> Device[sec], live |-> TRUE]
      BY <1>1, <1>7, <2>1 DEF MountFs
    <3>2. OwnMount' = <<Device[sec]>> /\ mounts' = <<Device[sec]>> \o base
      BY <1>7, <2>1, <3>1 DEF MountFs, OwnMount, Push
    <3>. QED  BY <1>7, <2>1, <3>1, <3>2 DEF MountFs
  <2>. QED  BY <1>7, <2>1 DEF MountFs
<1>8. CASE MaybeCycleMount
  <2>1. CASE UmountMnt("mount_again", "teardown")
    <3>1. UNCHANGED <<tst, sec, base, stack>>
      BY <1>8 DEF MaybeCycleMount
    <3>2. /\ (pc' = "mount_again" /\ UNCHANGED err /\ ~mnt'[tst].live) \/ pc' = "teardown"
          /\ mnt'[tst].device = mnt[tst].device
          /\ mounts = OwnMount \o base => mounts' = OwnMount' \o base
      BY <1>1, <2>1, <3>1, UmountEffect
    <3>. QED  BY <1>8, <3>1, <3>2 DEF MaybeCycleMount
  <2>2. CASE UNCHANGED <<mnt, os>> /\ pc' \in {"before", "teardown"}
    BY <1>3, <1>8, <2>2 DEF MaybeCycleMount
  <2>. QED  BY <1>8, <2>1, <2>2 DEF MaybeCycleMount
<1>9. CASE MountAgain
  <2>1. UNCHANGED <<tst, sec, base, stack>> /\ MountMnt("before", "teardown") /\ ~mnt[tst].live
    BY <1>9 DEF MountAgain
  <2>2. /\ (pc' = "before" /\ UNCHANGED err /\ mnt'[tst].live) \/ pc' = "teardown"
        /\ mnt'[tst].device = mnt[tst].device
        /\ mounts = OwnMount \o base => mounts' = OwnMount' \o base
    BY <1>1, <2>1, MountEffect
  <2>. QED  BY <1>9, <2>1, <2>2 DEF MountAgain
<1>10. CASE CycleUmount
  <2>1. UNCHANGED <<tst, sec, base, stack>> /\ UmountMnt("cycle_mount", "teardown")
    BY <1>10 DEF CycleUmount
  <2>2. /\ (pc' = "cycle_mount" /\ UNCHANGED err /\ ~mnt'[tst].live) \/ pc' = "teardown"
        /\ mnt'[tst].device = mnt[tst].device
        /\ mounts = OwnMount \o base => mounts' = OwnMount' \o base
    BY <1>1, <2>1, UmountEffect
  <2>. QED  BY <1>10, <2>1, <2>2 DEF CycleUmount
<1>11. CASE CycleMount
  <2>1. UNCHANGED <<tst, sec, base, stack>> /\ MountMnt("fragmentation", "teardown") /\ ~mnt[tst].live
    BY <1>11 DEF CycleMount
  <2>2. /\ pc' = "fragmentation" \/ pc' = "teardown"
        /\ mnt'[tst].device = mnt[tst].device
        /\ mounts = OwnMount \o base => mounts' = OwnMount' \o base
    BY <1>1, <2>1, MountEffect
  <2>. QED  BY <1>11, <2>1, <2>2 DEF CycleMount
<1>12. CASE ExitMount
  <2>1. CASE "umount" \in stack
    <3>1. UNCHANGED <<tst, sec, base>> /\ UmountMnt("leave", "leave")
      BY <1>12, <2>1 DEF ExitMount
    <3>2. /\ pc' = "leave" /\ (err' = "none" => ~mnt'[tst].live)
          /\ mnt'[tst].device = mnt[tst].device
          /\ mounts = OwnMount \o base => mounts' = OwnMount' \o base
      BY <1>1, <3>1, UmountEffect
    <3>. QED  BY <1>12, <3>1, <3>2 DEF ExitMount
  <2>2. CASE "umount" \notin stack
    BY <1>3, <1>12, <2>2 DEF ExitMount
  <2>. QED  BY <2>1, <2>2
<1>13. CASE StartBefore \/ EnterIOStats \/ StartTrace \/ RunTest \/ CollectTrace \/ ExitIOStats
  BY <1>3, <1>13 DEF StartBefore, EnterIOStats, StartTrace, RunTest, CollectTrace, ExitIOStats
<1>14. CASE KillBefore \/ RunAfter \/ Measure \/ CollectFragmentation \/ RecordResults
  BY <1>3, <1>14 DEF KillBefore, RunAfter, Measure, CollectFragmentation, RecordResults
<1>15. CASE Teardown \/ Fail \/ Kill
  BY <1>3, <1>15 DEF Teardown, Fail, Kill
<1>16. CASE Start
  BY <1>16 DEF Start
<1>17. CASE UNCHANGED vars
  BY <1>3, <1>17 DEF vars
<1>. QED  BY <1>4, <1>5, <1>6, <1>7, <1>8, <1>9, <1>10, <1>11, <1>12, <1>13, <1>14, <1>15, <1>16,
             <1>17 DEF Next, Step

\* A measurement taken on the current test object is stamped with this run,
\* the others keep their stamp.
LEMMA TakeEffect ==
  ASSUME TypeOK, NEW ms, Take(ms)
  PROVE  \A m \in Measurements : attrs'[tst][m] = IF m \in ms THEN ThisRun ELSE attrs[tst][m]
BY DEF TypeOK, ControlOK, ObjectsOK, Take

LEMMA ResultPreserved == ASSUME IndInv, [Next]_vars PROVE ResultInv'
<1>. USE DEF IndInv, ResultInv, NoStaleResults, TakenBefore, ThisRun, Goto, Raise, loop, objects
<1>1. CASE SetupDevice \/ Finish \/ Mkfs \/ MountFs \/ SetupOk \/ SetupFails
  BY <1>1 DEF SetupDevice, Finish, Mkfs, MountFs, SetupOk, SetupFails
<1>2. CASE SetupNotRun
  BY <1>2 DEF SetupNotRun, NextRun
<1>3. CASE MaybeCycleMount \/ MountAgain \/ CycleUmount \/ ExitMount
  BY <1>3 DEF MaybeCycleMount, MountAgain, CycleUmount, ExitMount, UmountMnt, MountMnt
<1>4. CASE StartBefore \/ EnterIOStats \/ StartTrace \/ CollectTrace \/ ExitIOStats \/ KillBefore
  BY <1>4 DEF StartBefore, EnterIOStats, StartTrace, CollectTrace, ExitIOStats, KillBefore
<1>5. CASE RunAfter \/ RecordResults \/ Teardown \/ Fail \/ Kill
  BY <1>5 DEF RunAfter, RecordResults, Teardown, Fail, Kill
<1>6. CASE RunTest
  BY <1>6, TakeEffect DEF RunTest, Measurements
<1>7. CASE Measure
  BY <1>7, TakeEffect DEF Measure, Measurements
<1>8. CASE CycleMount
  BY <1>8, TakeEffect DEF CycleMount, MountMnt, Measurements
<1>9. CASE CollectFragmentation
  BY <1>9, TakeEffect DEF CollectFragmentation, Measurements
<1>10. CASE Commit
  <2>1. \A m \in Measurements : attrs[tst][m] = ThisRun
    BY <1>10 DEF Commit
  <2>. QED  BY <1>10, <2>1 DEF Commit, NextRun
<1>11. CASE Start
  BY <1>11 DEF Start
<1>12. CASE UNCHANGED vars
  BY <1>12 DEF vars
<1>. QED  BY <1>1, <1>2, <1>3, <1>4, <1>5, <1>6, <1>7, <1>8, <1>9, <1>10, <1>11, <1>12
          DEF Next, Step

\* The loops go on to the job right after the current one: nothing is left out.
LEMMA NextRunOrder ==
  ASSUME ControlOK, NextRun, NEW job \in (first..last) \X TestIds \X (1..NumRuns),
         IsBefore(job, ThisRun')
  PROVE  IsBefore(job, ThisRun) \/ job = ThisRun
<1>. DEFINE s == job[1]  t == job[2]  i == job[3]
<1>1. s \in first..last /\ t \in TestIds /\ i \in 1..NumRuns /\ job = <<s, t, i>>
  OBVIOUS
<1>2. s < sec' \/ (s = sec' /\ t < tst') \/ (s = sec' /\ t = tst' /\ i < run')
  BY DEF IsBefore, ThisRun
<1>3. \/ s < sec
      \/ s = sec /\ t < tst
      \/ s = sec /\ t = tst /\ i <= run
  BY <1>1, <1>2, Ranges, CountsAssumption DEF NextRun, ControlOK
<1>4. CASE s = sec /\ t = tst /\ ~(i < run)
  BY <1>1, <1>3, <1>4, Ranges DEF ThisRun
<1>. QED  BY <1>1, <1>3, <1>4, Ranges DEF IsBefore, ThisRun

LEMMA ProgressPreserved == ASSUME IndInv, [Next]_vars PROVE ProgressInv'
<1>. DEFINE Jobs == (first..last) \X (TestIds \ MayNotRun) \X (1..NumRuns)
            HasRow(job, st, rs) == \E r \in rs : r.start = st /\ r.job = job
<1>1. CASE UNCHANGED <<loop, rows>>
  BY <1>1 DEF IndInv, ProgressInv, ThisRun, loop
<1>2. CASE SetupNotRun
  <2>1. \A job \in Jobs : IsBefore(job, ThisRun') => IsBefore(job, ThisRun) \/ job = ThisRun
    BY <1>2, NextRunOrder DEF IndInv, TypeOK, SetupNotRun
  <2>2. ThisRun \notin Jobs
    BY <1>2 DEF SetupNotRun, ThisRun
  <2>. QED  BY <1>2, <2>1, <2>2 DEF IndInv, ProgressInv, SetupNotRun, NextRun
<1>3. CASE Commit
  <2>1. \A job \in Jobs : IsBefore(job, ThisRun') => IsBefore(job, ThisRun) \/ job = ThisRun
    BY <1>3, NextRunOrder DEF IndInv, TypeOK, Commit
  <2>2. HasRow(ThisRun, starts, rows') /\ rows \subseteq rows'
    <3>. DEFINE row == [start |-> starts, job |-> ThisRun, from |-> attrs[tst]]
    <3>1. rows' = rows \cup {row}
      BY <1>3 DEF Commit
    <3>2. row.start = starts /\ row.job = ThisRun
      OBVIOUS
    <3>. QED  BY <3>1, <3>2
  <2>. QED  BY <1>3, <2>1, <2>2 DEF IndInv, ProgressInv, Commit, NextRun
<1>4. CASE Start
  <2>1. first' \in Nat /\ sec' = first' /\ tst' = 1 /\ run' = 1
    BY <1>4, CountsAssumption DEF Start, Choices
  <2>2. \A job \in Jobs' : ~IsBefore(job, ThisRun')
    BY <2>1, CountsAssumption DEF IsBefore, ThisRun
  <2>. QED  BY <2>2 DEF ProgressInv
<1>. QED
  BY <1>1, <1>2, <1>3, <1>4
  DEF Next, Step, vars, SetupDevice, Finish, Mkfs, MountFs, SetupOk, SetupFails, MaybeCycleMount,
      MountAgain, StartBefore, EnterIOStats, StartTrace, RunTest, CollectTrace, ExitIOStats,
      KillBefore, RunAfter, Measure, CycleUmount, CycleMount, CollectFragmentation,
      RecordResults, Teardown, ExitMount, Fail, Kill

\* IndInv holds in every state fsperf can reach, whatever the sections, tests
\* and numbers of runs are and wherever commands fail or the process is killed.
THEOREM Invariance == Spec => []IndInv
<1>1. IndInv /\ [Next]_vars => IndInv'
  BY ControlOKPreserved, ObjectsOKPreserved, SystemOKPreserved, ControlPreserved, ChildrenPreserved,
     MountPreserved, FreshPreserved, ResultPreserved, ProgressPreserved
  DEF IndInv, TypeOK
<1>. QED  BY <1>1, InitIndInv, PTL DEF Spec

\* Every variable keeps to its type.
THEOREM TypeCorrect == Spec => []TypeOK
<1>1. IndInv => TypeOK
  BY DEF IndInv
<1>. QED  BY <1>1, Invariance, PTL

\* In a section with the mount option a run only takes away the mount it made
\* itself.
THEOREM MountsTracked == Spec => []MountTracked
<1>1. IndInv => MountTracked
  BY DEF IndInv, MountInv
<1>. QED  BY <1>1, Invariance, PTL

\* The test body runs when its own run's mkfs was the last to format the section's
\* device, and in a section with the mount option that device is on the directory.
THEOREM FreshFs == Spec => []TestSeesFreshFs
<1>1. ASSUME IndInv, pc = "test"
      PROVE  /\ formatted[Device[sec]] = ThisRun
             /\ sec \in WithMount => mounts # <<>> /\ Head(mounts) = Device[sec]
  <2>1. formatted[Device[sec]] = ThisRun
    BY <1>1 DEF IndInv, FreshInv
  <2>2. ASSUME sec \in WithMount PROVE mounts # <<>> /\ Head(mounts) = Device[sec]
    <3>1. mounts = <<Device[sec]>> \o base /\ base \in Seq(Devices)
      BY <1>1, <2>2 DEF IndInv, MountInv, MountTracked, OwnMount, InRun, Pcs, Ended, TypeOK, SystemOK
    <3>2. Device[sec] \in Devices
      BY <1>1, Ranges, ConfigAssumption DEF IndInv, TypeOK, ControlInv, Ended
    <3>. QED  BY <3>1, <3>2
  <2>. QED  BY <2>1, <2>2
<1>2. IndInv => TestSeesFreshFs
  BY <1>1 DEF TestSeesFreshFs
<1>. QED  BY <1>2, Invariance, PTL

\* A run about to be committed has no child left and, in a section with the mount
\* option, has restored the mounts.  For the others see OneStaleMount.
THEOREM HandsOverClean == Spec => []CleanHandover
<1>1. ASSUME IndInv, pc = "leave", err = "none"
      PROVE  children = {} /\ (sec \in WithMount => mounts = base)
  <2>1. children = {}
    BY <1>1 DEF IndInv, ChildrenInv, BeforeKilled
  <2>2. ASSUME sec \in WithMount PROVE mounts = base
    BY <1>1, <2>2 DEF IndInv, MountInv, MountTracked, OwnMount, InRun, Pcs, Ended, TypeOK, SystemOK
  <2>. QED  BY <2>1, <2>2
<1>2. IndInv => CleanHandover
  BY <1>1 DEF CleanHandover
<1>. QED  BY <1>2, Invariance, PTL

\* The finally clause never leaves the 'before' process behind.
THEOREM BeforeIsKilled == Spec => []BeforeKilled
<1>1. IndInv => BeforeKilled
  BY DEF IndInv, ChildrenInv
<1>. QED  BY <1>1, Invariance, PTL

\* What is committed was measured in the run it is committed for.
THEOREM ResultsAreFresh == Spec => []NoStaleResults
<1>1. IndInv => NoStaleResults
  BY DEF IndInv, ResultInv
<1>. QED  BY <1>1, Invariance, PTL

\* A suite that comes to its end has left no run out.
THEOREM DoneHasAllRows == Spec => []DoneIsComplete
<1>1. ASSUME IndInv, pc = "done",
             NEW job \in (first..last) \X (TestIds \ MayNotRun) \X (1..NumRuns)
      PROVE  \E r \in rows : r.start = starts /\ r.job = job
  <2>1. job[1] < sec
    BY <1>1, Ranges DEF IndInv, TypeOK, ControlInv
  <2>2. IsBefore(job, ThisRun)
    BY <2>1 DEF IsBefore, ThisRun
  <2>. QED  BY <1>1, <2>2 DEF IndInv, ProgressInv
<1>2. IndInv => DoneIsComplete
  BY <1>1 DEF DoneIsComplete
<1>. QED  BY <1>2, Invariance, PTL

\* An exception is never swallowed: until fsperf is started again it stays on
\* its way, and no row is committed.  This is the safety half of ExceptionEndsSuite.
THEOREM NoRowAfterException ==
  Spec => [][err # "none" /\ starts' = starts => err' # "none" /\ UNCHANGED rows]_vars
<1>1. ASSUME IndInv, Next, err # "none", starts' = starts PROVE err' # "none" /\ UNCHANGED rows
  <2>. USE <1>1 DEF Goto, Raise
  <2>1. CASE SetupDevice \/ Finish \/ Mkfs \/ MountFs \/ SetupOk \/ SetupFails
    BY <2>1 DEF SetupDevice, Finish, Mkfs, MountFs, SetupOk, SetupFails
  <2>2. CASE SetupNotRun \/ Commit
    BY <2>2 DEF SetupNotRun, Commit, NextRun
  <2>3. CASE MaybeCycleMount \/ MountAgain \/ CycleUmount \/ CycleMount \/ ExitMount
    BY <2>3 DEF MaybeCycleMount, MountAgain, CycleUmount, CycleMount, ExitMount, UmountMnt, MountMnt
  <2>4. CASE StartBefore \/ EnterIOStats \/ StartTrace \/ RunTest \/ CollectTrace \/ ExitIOStats
    BY <2>4 DEF StartBefore, EnterIOStats, StartTrace, RunTest, CollectTrace, ExitIOStats
  <2>5. CASE KillBefore \/ RunAfter \/ Measure \/ CollectFragmentation \/ RecordResults
    BY <2>5 DEF KillBefore, RunAfter, Measure, CollectFragmentation, RecordResults
  <2>6. CASE Teardown \/ Fail \/ Kill
    BY <2>6 DEF Teardown, Fail, Kill
  <2>7. CASE Start
    <3>1. starts \in Nat
      BY DEF IndInv, TypeOK, ControlOK
    <3>. QED  BY <2>7, <3>1 DEF Start
  <2>. QED  BY <2>1, <2>2, <2>3, <2>4, <2>5, <2>6, <2>7 DEF Next, Step
<1>2. IndInv /\ [Next]_vars =>
        [err # "none" /\ starts' = starts => err' # "none" /\ UNCHANGED rows]_vars
  BY <1>1
<1>. QED  BY <1>2, Invariance, PTL DEF Spec

-----------------------------------------------------------------------------
(* Where the README is right about its options, and where it is not.        *)

LEMMA SectionOfRun ==
  ASSUME IndInv, pc \notin {"section"} \cup Ended
  PROVE  sec \in SectionIds
  BY Ranges DEF IndInv, TypeOK, ControlInv

\* With both options in every section no run dies of the lack of one, even
\* though the test objects keep a Mount from section to section.
THEOREM OptionsGiven ==
  ASSUME SectionIds \subseteq WithMkfs, SectionIds \subseteq WithMount
  PROVE  Spec => []OptionsAreOptional
<1>1. Init => OptionsAreOptional
  BY DEF Init, OptionsAreOptional
<1>2. ASSUME IndInv, OptionsAreOptional, [Next]_vars PROVE OptionsAreOptional'
  <2>. USE <1>2 DEF OptionsAreOptional, Goto, Raise
  <2>1. CASE EnterIOStats
    <3>1. sec \in WithMkfs
      BY <2>1, SectionOfRun DEF EnterIOStats, Ended
    <3>. QED  BY <2>1, <3>1 DEF EnterIOStats
  <2>2. CASE MaybeCycleMount
    <3>1. sec \in SectionIds /\ sec \in WithMount
      BY <2>2, SectionOfRun DEF MaybeCycleMount, Ended
    <3>2. mnt[tst].device = Device[sec]
      BY <2>2, <3>1 DEF MaybeCycleMount, IndInv, MountInv, MountTracked, InRun, Pcs, Ended
    <3>3. Assigned
      BY <3>1, <3>2, ConfigAssumption DEF Assigned
    <3>. QED  BY <2>2, <3>3 DEF MaybeCycleMount, UmountMnt
  <2>3. CASE MountAgain \/ CycleUmount \/ CycleMount \/ ExitMount
    BY <2>3 DEF MountAgain, CycleUmount, CycleMount, ExitMount, UmountMnt, MountMnt
  <2>4. CASE SetupDevice \/ Finish \/ Mkfs \/ MountFs \/ SetupOk \/ SetupFails
    BY <2>4 DEF SetupDevice, Finish, Mkfs, MountFs, SetupOk, SetupFails
  <2>5. CASE SetupNotRun \/ Commit
    BY <2>5 DEF SetupNotRun, Commit, NextRun
  <2>6. CASE StartBefore \/ StartTrace \/ RunTest \/ CollectTrace \/ ExitIOStats \/ KillBefore
    BY <2>6 DEF StartBefore, StartTrace, RunTest, CollectTrace, ExitIOStats, KillBefore
  <2>7. CASE RunAfter \/ Measure \/ CollectFragmentation \/ RecordResults \/ Teardown \/ Fail
    BY <2>7 DEF RunAfter, Measure, CollectFragmentation, RecordResults, Teardown, Fail
  <2>8. CASE Kill \/ Start
    BY <2>8 DEF Kill, Start
  <2>9. CASE UNCHANGED vars
    BY <2>9 DEF vars
  <2>. QED  BY <2>1, <2>2, <2>3, <2>4, <2>5, <2>6, <2>7, <2>8, <2>9 DEF Next, Step
<1>. QED  BY <1>1, <1>2, Invariance, PTL DEF Spec

\* Between two sections nothing is mounted but what was before the first.
SectionClean == pc = "section" => mounts = base

LEMMA CommitClean ==
  ASSUME SectionIds \subseteq WithMount, IndInv, Commit
  PROVE  UNCHANGED <<mounts, base>> /\ base = mounts
<1>1. sec \in WithMount /\ pc = "leave" /\ err = "none"
  BY SectionOfRun DEF Commit, Ended
<1>2. mounts = base
  BY <1>1 DEF IndInv, MountInv, MountTracked, OwnMount, InRun, Pcs, Ended, TypeOK, SystemOK
<1>. QED  BY <1>2 DEF Commit, NextRun, os

LEMMA SectionCleanStep ==
  ASSUME SectionIds \subseteq WithMount, MayNotRun = {}, IndInv, SectionClean, [Next]_vars
  PROVE  SectionClean' /\ (starts' = starts => base' = base)
<1>. USE DEF SectionClean, Goto, Raise, loop, os
<1>1. CASE SetupDevice \/ Finish \/ Mkfs \/ MountFs \/ SetupOk \/ SetupFails
  BY <1>1 DEF SetupDevice, Finish, Mkfs, MountFs, SetupOk, SetupFails
<1>2. CASE SetupNotRun
  BY <1>2 DEF SetupNotRun
<1>3. CASE MaybeCycleMount \/ MountAgain \/ CycleUmount \/ CycleMount \/ ExitMount
  BY <1>3 DEF MaybeCycleMount, MountAgain, CycleUmount, CycleMount, ExitMount, UmountMnt, MountMnt
<1>4. CASE StartBefore \/ EnterIOStats \/ StartTrace \/ RunTest \/ CollectTrace \/ ExitIOStats
  BY <1>4 DEF StartBefore, EnterIOStats, StartTrace, RunTest, CollectTrace, ExitIOStats
<1>5. CASE KillBefore \/ RunAfter \/ Measure \/ CollectFragmentation \/ RecordResults
  BY <1>5 DEF KillBefore, RunAfter, Measure, CollectFragmentation, RecordResults
<1>6. CASE Teardown \/ Fail \/ Kill
  BY <1>6 DEF Teardown, Fail, Kill
<1>7. CASE Commit
  BY <1>7, CommitClean
<1>8. CASE Start
  <2>1. starts \in Nat
    BY DEF IndInv, TypeOK, ControlOK
  <2>. QED  BY <1>8, <2>1 DEF Start
<1>9. CASE UNCHANGED vars
  BY <1>9 DEF vars
<1>. QED  BY <1>1, <1>2, <1>3, <1>4, <1>5, <1>6, <1>7, <1>8, <1>9 DEF Next, Step

\* If every section has the mount option and every test is run, every run of a
\* process finds the directory as the first one did: the only step that leaves
\* a mount to the next run is a setup() that raises NotRunException.
THEOREM EveryRunFindsTheSame ==
  ASSUME SectionIds \subseteq WithMount, MayNotRun = {}
  PROVE  Spec => [][starts' = starts => base' = base]_vars
<1>1. Init => SectionClean
  BY DEF Init, SectionClean
<1>2. IndInv /\ SectionClean /\ [Next]_vars =>
        SectionClean' /\ [starts' = starts => base' = base]_vars
  BY SectionCleanStep
<1>. QED  BY <1>1, <1>2, Invariance, PTL DEF Spec

\* Started once on a free directory, it unmounts the file system between each test.
THEOREM UnmountedIfRun ==
  ASSUME SectionIds \subseteq WithMount, MayNotRun = {}, MaxStarts = 1
  PROVE  Spec => []UnmountedBetweenTests
<1>. DEFINE Inv == SectionClean /\ starts = 1 /\ base = <<>>
<1>1. Init => Inv
  BY DEF Init, SectionClean
<1>2. IndInv /\ Inv /\ [Next]_vars => Inv'
  <2>1. [Next]_vars => starts' = starts \/ starts < MaxStarts
    BY DEF Next, Step, vars, loop, Kill, Start, SetupDevice, Finish, Mkfs, MountFs, SetupOk,
           SetupFails, SetupNotRun, Commit, NextRun, MaybeCycleMount, MountAgain, CycleUmount,
           CycleMount, ExitMount, StartBefore, EnterIOStats, StartTrace, RunTest, CollectTrace,
           ExitIOStats, KillBefore, RunAfter, Measure, CollectFragmentation, RecordResults,
           Teardown, Fail
  <2>. QED  BY <2>1, SectionCleanStep
<1>3. IndInv /\ Inv => UnmountedBetweenTests
  BY DEF UnmountedBetweenTests, IndInv, MountInv, MountTracked
<1>. HIDE DEF Inv
<1>. QED  BY <1>1, <1>2, <1>3, Invariance, PTL DEF Spec

-----------------------------------------------------------------------------
(* What a section without the mount option does with a stale Mount.         *)

\* Mount.umount of a settled test takes away its own mount and no other.
LEMMA UmountStale ==
  ASSUME TypeOK, NEW S \in SUBSET TestIds, tst \in S, OneOnTop(S, mnt, mounts),
         NEW ok, NEW bad, UmountMnt(ok, bad)
  PROVE  /\ OneOnTop(S, mnt', mounts')
         /\ \A t \in TestIds : mnt'[t].device = mnt[t].device
         /\ StaleEffect(mnt[tst].device, mnt[tst].live, mounts, base) =>
              StaleEffect(mnt[tst].device, mnt'[tst].live, mounts', base)
<1>1. /\ tst \in TestIds /\ mnt \in [TestIds -> MountObjects]
      /\ mounts \in Seq(Devices) /\ base \in Seq(Devices)
  BY DEF TypeOK, ControlOK, ObjectsOK, SystemOK
<1>2. CASE UNCHANGED <<mnt, os>>
  BY <1>2 DEF os
<1>3. CASE mnt[tst].live /\ Pop /\ SetLive(FALSE)
  <2>1. /\ \A t \in TestIds : mnt'[t].device = mnt[t].device
        /\ \A t \in TestIds \ {tst} : mnt'[t] = mnt[t]
        /\ ~mnt'[tst].live
    BY <1>1, <1>3 DEF SetLive
  <2>2. \A t \in S : ~mnt'[t].live
    BY <1>3, <2>1 DEF OneOnTop
  <2>3. OneOnTop(S, mnt', mounts')
    BY <2>1, <2>2 DEF OneOnTop
  <2>4. mounts # <<>> /\ Head(mounts) = mnt[tst].device /\ mounts' = Tail(mounts)
    BY <1>3 DEF OneOnTop, Pop
  <2>5. mnt[tst].device \in Devices
    BY <1>1, <2>4
  <2>6. ASSUME StaleEffect(mnt[tst].device, mnt[tst].live, mounts, base)
        PROVE  StaleEffect(mnt[tst].device, mnt'[tst].live, mounts', base)
    <3>1. CASE mounts = base
      BY <2>1, <2>4, <3>1 DEF StaleEffect
    <3>2. CASE mounts = <<mnt[tst].device>> \o base
      <4>1. Tail(mounts) = base
        BY <1>1, <2>5, <3>2
      <4>. QED  BY <2>1, <2>4, <4>1 DEF StaleEffect
    <3>. QED  BY <1>3, <2>6, <3>1, <3>2 DEF StaleEffect
  <2>. QED  BY <2>1, <2>3, <2>6
<1>. QED  BY <1>2, <1>3 DEF UmountMnt

\* Mount.mount of a settled test, called when its Mount is not live: mount(8)
\* refuses the device if another test's Mount is live.
LEMMA MountStale ==
  ASSUME TypeOK, NEW S \in SUBSET TestIds, tst \in S, OneOnTop(S, mnt, mounts),
         Assigned, ~mnt[tst].live, NEW ok, NEW bad, MountMnt(ok, bad)
  PROVE  /\ OneOnTop(S, mnt', mounts')
         /\ \A t \in TestIds : mnt'[t].device = mnt[t].device
         /\ StaleEffect(mnt[tst].device, mnt[tst].live, mounts, base) =>
              StaleEffect(mnt[tst].device, mnt'[tst].live, mounts', base)
<1>1. /\ tst \in TestIds /\ mnt \in [TestIds -> MountObjects]
      /\ mounts \in Seq(Devices) /\ base \in Seq(Devices)
  BY DEF TypeOK, ControlOK, ObjectsOK, SystemOK
<1>2. CASE UNCHANGED <<mnt, os>>
  BY <1>2 DEF os
<1>3. CASE Push(mnt[tst].device) /\ SetLive(TRUE)
  <2>. DEFINE d == mnt[tst].device
  <2>1. /\ \A t \in TestIds : mnt'[t].device = mnt[t].device
        /\ \A t \in TestIds \ {tst} : mnt'[t] = mnt[t]
        /\ mnt'[tst].live
    BY <1>1, <1>3 DEF SetLive
  <2>2. d \in Devices /\ d # None /\ ~(mounts # <<>> /\ Head(mounts) = d) /\ mounts' = <<d>> \o mounts
    BY <1>1, <1>3, ConfigAssumption DEF Push, CanMount, Assigned, MountObjects
  <2>3. mounts' # <<>> /\ Head(mounts') = d /\ Tail(mounts') = mounts
    BY <1>1, <2>2
  <2>4. \A t \in S : ~mnt[t].live
    <3>1. SUFFICES ASSUME NEW t \in S, mnt[t].live PROVE FALSE
      OBVIOUS
    <3>2. mounts # <<>> /\ Head(mounts) = mnt[t].device
      BY <3>1 DEF OneOnTop
    <3>3. mnt[t].device # None
      BY <1>1, <3>2, ConfigAssumption
    <3>4. mnt[t].device = d
      BY <2>2, <3>3 DEF OneOnTop
    <3>. QED  BY <2>2, <3>2, <3>4
  <2>5. \A t \in S : mnt'[t].live => t = tst
    BY <2>1, <2>4
  <2>6. OneOnTop(S, mnt', mounts')
    BY <2>1, <2>3, <2>5 DEF OneOnTop
  <2>7. ASSUME StaleEffect(d, mnt[tst].live, mounts, base)
        PROVE  StaleEffect(d, mnt'[tst].live, mounts', base)
    <3>1. CASE mounts = base
      BY <2>1, <2>2, <3>1 DEF StaleEffect
    <3>2. CASE base # <<>> /\ Head(base) = d /\ mounts = Tail(base)
      <4>1. base = <<d>> \o mounts
        BY <1>1, <2>2, <3>2
      <4>. QED  BY <2>1, <2>2, <4>1 DEF StaleEffect
    <3>. QED  BY <2>7, <3>1, <3>2 DEF StaleEffect
  <2>. QED  BY <2>1, <2>6, <2>7
<1>. QED  BY <1>2, <1>3 DEF MountMnt

LEMMA StaleInit == ASSUME Init PROVE StaleInv
<1>1. /\ pc = "section" /\ err = "none" /\ mnt = [t \in TestIds |-> NoMount]
  BY DEF Init
<1>2. OneOnTop(TestIds, mnt, mounts)
  BY <1>1 DEF OneOnTop, NoMount
<1>. QED  BY <1>1, <1>2 DEF StaleInv, Settled, InRun

\* A test in its run is settled.
LEMMA RunSettled ==
  ASSUME TypeOK, pc \in InRun
  PROVE  tst \in Settled /\ Settled \in SUBSET TestIds
  BY DEF TypeOK, ControlOK, Settled, InRun

\* Inside a run, a step that leaves the test its Mount's device and keeps the
\* effect on the mounts keeps the invariant.
LEMMA StaleInRun ==
  ASSUME TypeOK, StaleInv, pc \in InRun, pc' \in InRun, UNCHANGED <<loop, base>>,
         stack' \subseteq stack \cup {"teardown"},
         OneOnTop(Settled, mnt', mounts'),
         \A t \in TestIds : mnt'[t].device = mnt[t].device,
         sec \notin WithMount => StaleEffect(mnt[tst].device, mnt'[tst].live, mounts', base),
         pc' \in {"fragmentation", "record", "teardown", "umount", "leave"} /\ err' = "none"
           /\ sec \notin WithMount => mnt'[tst].live
  PROVE  StaleInv'
<1>1. Settled' = Settled
  BY DEF Settled, InRun, loop
<1>2. OneOnTop(Settled', mnt', mounts')
  BY <1>1
<1>3. pc \notin {"section"} \cup Ended /\ pc' \notin {"section"} \cup Ended
  BY DEF InRun
<1>4. sec' \in WithMount => \A t \in Settled' : mnt'[t].device = Device[sec']
  BY <1>1, <1>3, RunSettled DEF StaleInv, loop
<1>5. sec' \notin WithMount =>
        "umount" \notin stack' /\ StaleEffect(mnt'[tst'].device, mnt'[tst'].live, mounts', base')
  BY DEF StaleInv, loop, TypeOK, ControlOK
<1>. QED  BY <1>2, <1>3, <1>4, <1>5 DEF StaleInv, InRun, loop

\* The next run: in a section with the mount option the test has just settled.
LEMMA StaleNextRun ==
  ASSUME TypeOK, ControlInv, StaleInv, pc \in {"setup", "leave"}, NextRun, UNCHANGED <<mnt, mounts>>
  PROVE  StaleInv'
<1>1. pc \in InRun /\ pc' \in {"mkfs", "section"} /\ pc' \notin InRun
  BY DEF InRun, Pcs, Ended, NextRun
<1>2. sec \in Nat /\ tst \in TestIds /\ run \in 1..NumRuns
  BY Ranges DEF TypeOK, ControlOK
<1>3. pc \notin {"section"} \cup Ended /\ pc' \notin Ended
  BY <1>1 DEF InRun, Ended
<1>4. Settled' = Settled
  <2>1. CASE sec \notin WithMount
    BY <1>1, <1>3, <2>1 DEF Settled, NextRun
  <2>2. CASE sec \in WithMount
    <3>1. Settled = {t \in TestIds : t < tst \/ t = tst}
      BY <1>1, <1>3, <2>2 DEF Settled
    <3>2. CASE run < NumRuns /\ run' = run + 1 /\ pc' = "mkfs" /\ UNCHANGED <<sec, tst>>
      <4>1. Settled' = {t \in TestIds : t < tst \/ (t = tst /\ run + 1 > 1)}
        BY <1>1, <2>2, <3>2 DEF Settled
      <4>. QED  BY <1>2, <3>1, <4>1
    <3>3. CASE tst < NTests /\ run' = 1 /\ tst' = tst + 1 /\ pc' = "mkfs" /\ UNCHANGED sec
      <4>1. Settled' = {t \in TestIds : t < tst + 1}
        BY <1>1, <2>2, <3>3 DEF Settled
      <4>. QED  BY <1>2, <3>1, <4>1 DEF TestIds
    <3>4. CASE tst = NTests /\ pc' = "section"
      <4>1. Settled' = TestIds
        BY <3>4 DEF Settled
      <4>. QED  BY <1>2, <3>1, <3>4, <4>1, CountsAssumption DEF TestIds
    <3>. QED  BY <3>2, <3>3, <3>4 DEF NextRun
  <2>. QED  BY <2>1, <2>2
<1>5. OneOnTop(Settled', mnt', mounts')
  BY <1>3, <1>4 DEF StaleInv
<1>6. pc' # "section" /\ sec' \in WithMount => \A t \in Settled' : mnt'[t].device = Device[sec']
  BY <1>3, <1>4 DEF StaleInv, NextRun
<1>. QED  BY <1>1, <1>5, <1>6 DEF StaleInv

LEMMA StaleStep == ASSUME IndInv, StaleInv, [Next]_vars PROVE StaleInv'
<1>1. /\ TypeOK /\ ControlInv /\ tst \in TestIds /\ mnt \in [TestIds -> MountObjects]
      /\ mounts \in Seq(Devices) /\ base \in Seq(Devices)
  BY DEF IndInv, TypeOK, ControlOK, ObjectsOK, SystemOK
<1>. DEFINE Same == UNCHANGED <<loop, base, mnt, mounts>> /\ stack' \subseteq stack \cup {"teardown"}
<1>2. ASSUME Same, pc \in InRun, pc' \in InRun,
             pc' \in {"fragmentation", "record", "teardown", "umount", "leave"} /\ err' = "none"
               /\ sec \notin WithMount => mnt[tst].live
      PROVE  StaleInv'
  <2>1. OneOnTop(Settled, mnt', mounts')
    BY <1>2 DEF StaleInv, InRun
  <2>2. /\ \A t \in TestIds : mnt'[t].device = mnt[t].device
        /\ sec \notin WithMount => StaleEffect(mnt[tst].device, mnt'[tst].live, mounts', base)
    BY <1>2 DEF StaleInv
  <2>. QED  BY <1>1, <1>2, <2>1, <2>2, StaleInRun
<1>3. ASSUME pc' \in Ended PROVE StaleInv'
  BY <1>3 DEF StaleInv, InRun, Ended
<1>4. CASE SetupDevice \/ Finish
  <2>1. CASE pc' = "mkfs" /\ SetupDevice
    <3>1. pc = "section" /\ tst = 1 /\ run = 1 /\ UNCHANGED <<loop, mnt, mounts>>
      BY <1>1, <1>4, <2>1 DEF SetupDevice, ControlInv, objects, os
    <3>2. Settled' \subseteq TestIds /\ Settled = TestIds /\ (sec \in WithMount => Settled' = {})
      BY <2>1, <3>1 DEF Settled, InRun, Pcs, Ended, loop
    <3>3. OneOnTop(Settled, mnt, mounts)
      BY <3>1 DEF StaleInv, Ended
    <3>4. OneOnTop(Settled', mnt', mounts')
      BY <3>1, <3>2, <3>3 DEF OneOnTop
    <3>. QED  BY <2>1, <3>1, <3>2, <3>4 DEF StaleInv, InRun, loop
  <2>. QED  BY <1>3, <1>4, <2>1 DEF SetupDevice, Finish, Goto, Raise, Ended
<1>5. CASE Mkfs
  <2>1. CASE pc' = "mount"
    <3>1. pc = "mkfs" /\ UNCHANGED <<loop, mnt, mounts>>
      BY <1>5 DEF Mkfs, objects
    <3>2. Settled' = Settled /\ pc' \notin InRun /\ pc \notin {"section"} \cup Ended
      BY <2>1, <3>1 DEF Settled, InRun, Pcs, Ended, loop
    <3>. QED  BY <1>5, <2>1, <3>1, <3>2 DEF Mkfs, StaleInv, loop
  <2>. QED  BY <1>3, <1>5, <2>1 DEF Mkfs, Goto, Raise, Ended
<1>6. CASE MountFs
  <2>1. pc = "mount" /\ UNCHANGED <<loop, base>> /\ pc \notin {"section"} \cup Ended
    BY <1>6 DEF MountFs, Ended
  <2>2. OneOnTop(Settled, mnt, mounts) /\ mounts = base
    BY <2>1 DEF StaleInv, IndInv, MountInv, MountTracked
  <2>3. CASE sec \notin WithMount
    <3>1. pc' = "setup" /\ UNCHANGED <<mnt, mounts, stack>>
      BY <1>6, <2>3 DEF MountFs, Goto, os
    <3>2. Settled' = Settled /\ pc' \in InRun
      BY <2>1, <2>3, <3>1 DEF Settled, InRun, Pcs, Ended, loop
    <3>3. "umount" \notin stack
      BY <2>1 DEF StaleInv
    <3>. QED  BY <2>1, <2>2, <2>3, <3>1, <3>2, <3>3 DEF StaleInv, StaleEffect, loop
  <2>4. CASE sec \in WithMount /\ pc' = "setup"
    <3>. DEFINE d == Device[sec]
    <3>1. d \in Devices /\ d # None
      BY <2>1, <2>4, SectionOfRun, ConfigAssumption
    <3>2. /\ Push(d) /\ mnt'[tst] = [device |-> d, live |-> TRUE]
          /\ \A t \in TestIds \ {tst} : mnt'[t] = mnt[t]
      BY <1>1, <1>6, <2>4 DEF MountFs, Raise
    <3>3. Settled' = Settled \cup {tst} /\ Settled \subseteq TestIds
      BY <1>1, <2>1, <2>4 DEF Settled, InRun, Pcs, Ended, loop
    <3>4. mounts' # <<>> /\ Head(mounts') = d
      BY <1>1, <3>1, <3>2 DEF Push
    <3>5. \A t \in Settled : mnt[t].device = d
      BY <2>1, <2>4 DEF StaleInv
    <3>6. \A t \in Settled : ~mnt[t].live
      BY <2>2, <3>2, <3>5 DEF OneOnTop, Push, CanMount
    <3>7. \A t \in Settled' : mnt'[t].device = d /\ (mnt'[t].live => t = tst)
      <4>1. SUFFICES ASSUME NEW t \in Settled', t # tst
                     PROVE  mnt'[t].device = d /\ ~mnt'[t].live
        BY <3>2
      <4>2. t \in Settled /\ mnt'[t] = mnt[t]
        BY <3>2, <3>3, <4>1
      <4>. QED  BY <3>5, <3>6, <4>2
    <3>8. OneOnTop(Settled', mnt', mounts')
      BY <3>4, <3>7 DEF OneOnTop
    <3>. QED  BY <2>1, <2>4, <3>7, <3>8 DEF StaleInv, loop
  <2>. QED  BY <1>3, <1>6, <2>3, <2>4 DEF MountFs, Goto, Raise, Ended
<1>7. CASE SetupNotRun \/ Commit
  BY <1>1, <1>7, StaleNextRun DEF SetupNotRun, Commit, objects, os
<1>8. ASSUME NEW ok \in InRun, NEW bad \in InRun, pc \in InRun, UmountMnt(ok, bad),
             UNCHANGED <<loop, base>>, stack' \subseteq stack, sec \in WithMount \/ pc # "umount",
             ok \in {"mount_again", "cycle_mount", "leave"}, ok = "leave" => sec \in WithMount
      PROVE  StaleInv'
  <2>1. tst \in Settled /\ Settled \in SUBSET TestIds /\ OneOnTop(Settled, mnt, mounts)
    BY <1>1, <1>8, RunSettled DEF StaleInv, InRun
  <2>2. /\ OneOnTop(Settled, mnt', mounts')
        /\ \A t \in TestIds : mnt'[t].device = mnt[t].device
        /\ StaleEffect(mnt[tst].device, mnt[tst].live, mounts, base) =>
             StaleEffect(mnt[tst].device, mnt'[tst].live, mounts', base)
    BY <1>1, <1>8, <2>1, UmountStale
  <2>3. pc' = ok \/ (pc' = bad /\ err' # "none")
    BY <1>8 DEF UmountMnt, Goto, Raise
  <2>. QED  BY <1>1, <1>8, <2>2, <2>3, StaleInRun DEF StaleInv
<1>9. ASSUME NEW ok \in InRun, pc \in {"mount_again", "cycle_mount"}, MountMnt(ok, "teardown"),
             UNCHANGED <<loop, base, stack>>
      PROVE  StaleInv'
  <2>1. pc \in InRun /\ "teardown" \in InRun /\ ~mnt[tst].live /\ Assigned
    BY <1>9 DEF InRun, Pcs, Ended, IndInv, MountInv, ControlInv
  <2>2. tst \in Settled /\ Settled \in SUBSET TestIds /\ OneOnTop(Settled, mnt, mounts)
    BY <1>1, <2>1, RunSettled DEF StaleInv, InRun
  <2>3. /\ OneOnTop(Settled, mnt', mounts')
        /\ \A t \in TestIds : mnt'[t].device = mnt[t].device
        /\ StaleEffect(mnt[tst].device, mnt[tst].live, mounts, base) =>
             StaleEffect(mnt[tst].device, mnt'[tst].live, mounts', base)
    BY <1>1, <1>9, <2>1, <2>2, MountStale
  <2>4. (pc' = ok /\ mnt'[tst].live) \/ (pc' = "teardown" /\ err' # "none")
    <3>1. CASE SetLive(TRUE) /\ pc' = ok
      BY <1>1, <3>1 DEF SetLive
    <3>2. CASE Raise("CalledProcessError", "teardown")
      BY <3>2 DEF Raise
    <3>. QED  BY <1>9, <3>1, <3>2 DEF MountMnt, Goto
  <2>. QED  BY <1>1, <1>9, <2>1, <2>3, <2>4, StaleInRun DEF StaleInv
<1>10. {"mount_again", "cycle_mount", "teardown", "leave", "before", "fragmentation", "remount",
        "cycle_umount", "umount"} \subseteq InRun
  BY DEF InRun, Pcs, Ended
<1>11. CASE MaybeCycleMount
  <2>1. CASE UmountMnt("mount_again", "teardown")
    BY <1>8, <1>10, <1>11, <2>1 DEF MaybeCycleMount
  <2>2. CASE UNCHANGED <<mnt, os>> /\ (pc' = "before" \/ (pc' = "teardown" /\ err' # "none"))
    BY <1>2, <1>10, <1>11, <2>2 DEF MaybeCycleMount, os
  <2>. QED  BY <1>11, <2>1, <2>2 DEF MaybeCycleMount, Goto, Raise
<1>12. CASE MountAgain \/ CycleMount
  BY <1>9, <1>10, <1>12 DEF MountAgain, CycleMount
<1>13. CASE CycleUmount
  BY <1>8, <1>10, <1>13 DEF CycleUmount
<1>14. CASE ExitMount
  <2>1. CASE "umount" \in stack
    <3>1. sec \in WithMount
      BY <1>10, <1>14, <2>1 DEF ExitMount, StaleInv
    <3>. QED  BY <1>8, <1>10, <1>14, <2>1, <3>1 DEF ExitMount
  <2>2. CASE "umount" \notin stack
    BY <1>2, <1>10, <1>14, <2>2 DEF ExitMount, Goto, os, StaleInv
  <2>. QED  BY <2>1, <2>2
<1>15. CASE SetupOk \/ SetupFails \/ StartBefore \/ EnterIOStats \/ StartTrace \/ RunTest
  <2>1. Same \/ pc' = "failed"
    BY <1>15 DEF SetupOk, SetupFails, StartBefore, EnterIOStats, StartTrace, RunTest, Raise, objects, os
  <2>2. /\ pc \in InRun /\ (pc' \in InRun \/ pc' = "failed")
        /\ pc' \in {"fragmentation", "record", "teardown", "umount", "leave"} => err' # "none"
    BY <1>15 DEF SetupOk, SetupFails, StartBefore, EnterIOStats, StartTrace, RunTest, Goto, Raise,
                 InRun, Pcs, Ended
  <2>. QED  BY <1>2, <1>3, <2>1, <2>2 DEF Ended
<1>16. CASE CollectTrace \/ ExitIOStats \/ KillBefore \/ RunAfter \/ Measure
  <2>1. Same
    BY <1>16 DEF CollectTrace, ExitIOStats, KillBefore, RunAfter, Measure, objects, os
  <2>2. /\ pc \in InRun /\ pc' \in InRun
        /\ pc' \in {"fragmentation", "record", "teardown", "umount", "leave"} => err' # "none"
    BY <1>16 DEF CollectTrace, ExitIOStats, KillBefore, RunAfter, Measure, Goto, Raise, InRun, Pcs, Ended
  <2>. QED  BY <1>2, <2>1, <2>2
<1>17. CASE CollectFragmentation \/ RecordResults \/ Teardown
  <2>1. Same /\ pc \in {"fragmentation", "record", "teardown"}
    BY <1>17 DEF CollectFragmentation, RecordResults, Teardown, objects, os
  <2>2. pc \in InRun /\ pc' \in InRun /\ (err' = "none" => err = "none")
    BY <1>17 DEF CollectFragmentation, RecordResults, Teardown, Goto, Raise, InRun, Pcs, Ended
  <2>. QED  BY <1>2, <2>1, <2>2 DEF StaleInv
<1>18. CASE Fail \/ Kill
  BY <1>3, <1>18 DEF Fail, Kill, Goto, Ended
<1>19. CASE Start
  <2>1. /\ pc' = "section" /\ err' = "none" /\ mnt' = [t \in TestIds |-> NoMount]
    BY <1>19 DEF Start
  <2>2. OneOnTop(TestIds, mnt', mounts') /\ Settled' = TestIds
    BY <2>1 DEF OneOnTop, NoMount, Settled
  <2>. QED  BY <2>1, <2>2 DEF StaleInv, InRun
<1>20. CASE UNCHANGED vars
  <2>1. Settled' = Settled
    BY <1>20 DEF Settled, vars, loop
  <2>. QED  BY <1>20, <2>1 DEF StaleInv, vars, loop, objects, os
<1>. QED  BY <1>4, <1>5, <1>6, <1>7, <1>11, <1>12, <1>13, <1>14, <1>15, <1>16, <1>17, <1>18, <1>19,
             <1>20 DEF Next, Step

\* Whatever the sections, a run of one without the mount option leaves the stale
\* device on top, known to be mounted, and one mount more at the most.
THEOREM OneStaleMount == Spec => []StaleMountLeft
<1>1. IndInv /\ StaleInv => StaleMountLeft
  <2>. SUFFICES ASSUME IndInv, StaleInv, pc = "leave", err = "none", sec \notin WithMount
                PROVE  /\ mnt[tst].live /\ mounts # <<>> /\ Head(mounts) = mnt[tst].device
                       /\ mounts \in {base, <<mnt[tst].device>> \o base}
    BY DEF StaleMountLeft
  <2>1. TypeOK /\ pc \in InRun /\ pc \notin Ended
    BY DEF IndInv, InRun, Pcs, Ended
  <2>2. mnt[tst].live /\ StaleEffect(mnt[tst].device, mnt[tst].live, mounts, base)
    BY <2>1 DEF StaleInv
  <2>3. mounts # <<>> /\ Head(mounts) = mnt[tst].device
    BY <2>1, <2>2, RunSettled DEF StaleInv, OneOnTop
  <2>. QED  BY <2>2, <2>3 DEF StaleEffect
<1>2. IndInv /\ StaleInv /\ [Next]_vars => StaleInv'
  BY StaleStep
<1>. QED  BY <1>1, <1>2, StaleInit, Invariance, PTL DEF Spec
=============================================================================
