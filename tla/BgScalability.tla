---------------------------- MODULE BgScalability ----------------------------
(***************************************************************************)
(* The oneoff tests/btrfsbgscalability.py with src/nullblk.py: a null      *)
(* block device made through configfs, a file system on it, a loop file in *)
(* that one, and a file system on the loop file.  All of it outlives the   *)
(* process unless the teardown takes it away again; what an earlier        *)
(* process left behind decides how far the next one gets.                  *)
(*                                                                         *)
(* Outside the code: umount(8) of a loop file lets the kernel release the  *)
(* loop device later, and a file system in which a loop device still has   *)
(* its file open is busy; a module is in use while it has a directory in   *)
(* configfs; a null block device can be switched off while it is mounted.  *)
(***************************************************************************)
EXTENDS Naturals

CONSTANTS NumRuns,   \* -n
          MaxStarts  \* bound on the processes started

ASSUME RunsAssumption == NumRuns \in Nat \ {0} /\ MaxStarts \in Nat

VARIABLES
  pc,      \* where setup, run or teardown is; Ended: there is no process
  run,     \* run_test's loop variable
  starts,  \* processes started
  nullblk, \* self.nullblk: "none", a "new" NullBlock, or one that is "started"
  module,  \* null_blk: "out", "in", or "default": in, with a nullb0 of its own
  nullb,   \* configfs: "absent", "dir", or "on" with its power
  mounts,  \* from the device that is on: "nullb" on the directory, "loop" on directory/loop
  loop,    \* the loop device of the file on it: "free", "attached", "releasing"
  dead     \* file systems still mounted whose device is off, with the start they are of

host == <<module, nullb, mounts, loop, dead>>
vars == <<pc, run, starts, nullblk, host>>

Ended == {"idle", "done", "died"}
Start == {"setup", "rmmod", "makedirs", "power", "scheduler"}
Setup == {"mkfs", "mount", "loopfile", "mountloop", "fallocate"}
Teardown == {"umountloop", "umountnull", "drop", "rmdir"}
FileSystems == {"nullb", "loop"}

TypeOK ==
  /\ pc \in Ended \cup Start \cup Setup \cup Teardown \cup {"iostats", "left", "exit"}
  /\ run \in 1..NumRuns /\ starts \in Nat /\ nullblk \in {"none", "new", "started"}
  /\ module \in {"out", "in", "default"} /\ nullb \in {"absent", "dir", "on"}
  /\ mounts \subseteq FileSystems /\ loop \in {"free", "attached", "releasing"}
  /\ dead \subseteq Nat \X FileSystems

Init ==
  /\ pc = "idle" /\ run = 1 /\ starts = 0 /\ nullblk = "none" /\ module \in {"out", "default"}
  /\ nullb = "absent" /\ mounts = {} /\ loop = "free" /\ dead = {}

StartProcess ==
  /\ pc \in Ended /\ starts < MaxStarts /\ starts' = starts + 1
  /\ pc' = "setup" /\ run' = 1 /\ nullblk' = "none" /\ UNCHANGED host

-----------------------------------------------------------------------------
(* NullBlock.start: any exception makes it a NotRunException, and run_test   *)
(* goes on; what has been made so far stays, since _started is not set.     *)

\* Mutation: one run too many.
NotRun_OneMore ==
  IF run <= NumRuns THEN pc' = "setup" /\ run' = run + 1 ELSE pc' = "done" /\ UNCHANGED run

NotRun ==
  IF run < NumRuns THEN pc' = "setup" /\ run' = run + 1 ELSE pc' = "done" /\ UNCHANGED run

Go(next) == pc' = next /\ UNCHANGED run

Modprobe ==
  /\ pc = "setup" /\ nullblk' = "new"
  /\ \/ Go("rmmod") /\ module' = IF module = "out" THEN "in" ELSE module
     \/ module = "out" /\ NotRun /\ UNCHANGED module
  /\ UNCHANGED <<starts, nullb, mounts, loop, dead>>

\* /dev/nullb0 is there.
DeviceExists == module = "default" \/ nullb = "on"

\* Mutation: a device that is there is used as it is.
Rmmod_Reuses ==
  /\ pc = "rmmod"
  /\ \/ ~DeviceExists /\ Go("makedirs")
     \/ DeviceExists /\ nullb = "on" /\ Go("scheduler")
     \/ DeviceExists /\ NotRun
  /\ UNCHANGED <<starts, nullblk, host>>

\* rmmod, which fails if the module is in use, and modprobe.
Rmmod ==
  /\ pc = "rmmod"
  /\ \/ ~DeviceExists /\ Go("makedirs") /\ UNCHANGED module
     \/ DeviceExists /\ nullb = "absent" /\ module' = "in" /\ Go("makedirs")
     \/ DeviceExists /\ nullb = "absent" /\ module' = "out" /\ NotRun
     \/ DeviceExists /\ NotRun /\ UNCHANGED module
  /\ UNCHANGED <<starts, nullblk, nullb, mounts, loop, dead>>

\* FileExistsError if an earlier start got this far and no further.
Makedirs ==
  /\ pc = "makedirs"
  /\ \/ nullb = "absent" /\ nullb' = "dir" /\ Go("power")
     \/ NotRun /\ UNCHANGED nullb
  /\ UNCHANGED <<starts, nullblk, module, mounts, loop, dead>>

PowerOn ==
  /\ pc = "power"
  /\ \/ nullb' = "on" /\ Go("scheduler")
     \/ NotRun /\ UNCHANGED nullb
  /\ UNCHANGED <<starts, nullblk, module, mounts, loop, dead>>

SetScheduler ==
  /\ pc = "scheduler"
  /\ \/ nullblk' = "started" /\ Go("mkfs")
     \/ NotRun /\ UNCHANGED nullblk
  /\ UNCHANGED <<starts, host>>

-----------------------------------------------------------------------------
(* The rest of setup: an exception leaves fsperf, and there is no teardown   *)
(* before setup has returned.                                               *)

Step(at, next) ==
  pc = at /\ (Go(next) \/ Go("exit")) /\ UNCHANGED <<starts, nullblk, host>>

Mount(at, fs, next) ==
  /\ pc = at
  /\ \/ /\ Go(next) /\ mounts' = mounts \cup {fs}
        /\ loop' = IF fs = "loop" THEN "attached" ELSE loop
     \/ Go("exit") /\ UNCHANGED <<mounts, loop>>
  /\ UNCHANGED <<starts, nullblk, module, nullb, dead>>

MkfsNull == Step("mkfs", "mount")
MountNull == Mount("mount", "nullb", "loopfile")
MakeLoopFile == Step("loopfile", "mountloop")
MountLoop == Mount("mountloop", "loop", "fallocate")
Fallocate == Step("fallocate", "iostats")

\* IOStats looks for self.dev, the loop file, in /sys/block: FileNotFoundError.
\* What is left of run() is the teardown; test() is not reached.
EnterIOStats ==
  /\ pc = "iostats" /\ Go("umountloop") /\ UNCHANGED <<starts, nullblk, host>>

-----------------------------------------------------------------------------
(* teardown.                                                                *)

\* Mount.is_on_block_device: nullb_mnt is of /dev/nullb0, mnt of a regular file.
is_on_block_device(fs) == fs = "nullb"

\* Mutation: the device is dropped before the directory is unmounted.
UmountLoop_ThenDrop ==
  /\ pc = "umountloop"
  /\ \/ mounts' = mounts \ {"loop"} /\ loop' = "releasing" /\ (Go("drop") \/ Go("exit"))
     \/ Go("exit") /\ UNCHANGED <<mounts, loop>>
  /\ UNCHANGED <<starts, nullblk, module, nullb, dead>>

\* Mount.umount: umount(8), a look at the device, which may raise with the mount
\* already gone, and a second's sleep, taken to be enough for the loop device to
\* be released, if the device is a block device.
UmountLoop ==
  /\ pc = "umountloop"
  /\ \/ /\ mounts' = mounts \ {"loop"}
        /\ \/ Go("umountnull") /\ loop' = IF is_on_block_device("loop") THEN "free" ELSE "releasing"
           \/ Go("exit") /\ loop' = "releasing"
     \/ Go("exit") /\ UNCHANGED <<mounts, loop>>
  /\ UNCHANGED <<starts, nullblk, module, nullb, dead>>

Release ==
  /\ loop = "releasing" /\ loop' = "free"
  /\ UNCHANGED <<pc, run, starts, nullblk, module, nullb, mounts, dead>>

\* Mutation: the umount is tried until the loop device is gone.
UmountNull_Waits ==
  /\ pc = "umountnull" /\ loop = "free" /\ Go("drop") /\ mounts' = mounts \ {"nullb"}
  /\ UNCHANGED <<starts, nullblk, module, nullb, loop, dead>>

\* Mutation: a failing umount is ignored.
UmountNull_Ignores ==
  /\ pc = "umountnull" /\ Go("drop")
  /\ \/ loop = "free" /\ mounts' = mounts \ {"nullb"}
     \/ UNCHANGED mounts
  /\ UNCHANGED <<starts, nullblk, module, nullb, loop, dead>>

UmountNull ==
  /\ pc = "umountnull"
  /\ \/ loop = "free" /\ mounts' = mounts \ {"nullb"} /\ (Go("drop") \/ Go("exit"))
     \/ Go("exit") /\ UNCHANGED mounts
  /\ UNCHANGED <<starts, nullblk, module, nullb, loop, dead>>

-----------------------------------------------------------------------------
(* NullBlock.__del__: Python prints an exception in it and carries on.       *)

\* What is mounted from the device stays mounted, without a device: its loop
\* device is not followed any further.
PowerOff ==
  /\ mounts' = {} /\ loop' = "free" /\ dead' = dead \cup ({starts} \X mounts)
  /\ UNCHANGED module

\* self.nullblk = None: the last reference goes, and __del__ runs.
DropNullBlock ==
  /\ pc = "drop" /\ nullblk' = "none"
  /\ \/ Go("rmdir") /\ nullb' = "dir" /\ PowerOff
     \/ Go("left") /\ UNCHANGED host
  /\ UNCHANGED starts

RemoveDir ==
  /\ pc = "rmdir" /\ Go("left") /\ nullb' \in {"absent", "dir"}
  /\ UNCHANGED <<starts, nullblk, module, mounts, loop, dead>>

\* The exception out of IOStats ends fsperf.
Leave == pc = "left" /\ Go("exit") /\ UNCHANGED <<starts, nullblk, host>>

\* The interpreter may run __del__ on what is left at exit, mounted or not.
Exit ==
  /\ pc = "exit" /\ Go("died")
  /\ \/ UNCHANGED <<nullblk, host>>
     \/ /\ nullblk = "started" /\ nullblk' = "none"
        /\ \/ UNCHANGED host
           \/ nullb' \in {"absent", "dir"} /\ PowerOff
  /\ UNCHANGED starts

Kill ==
  /\ pc \notin Ended /\ Go("died") /\ UNCHANGED <<starts, nullblk, host>>

Reboot ==
  /\ pc \in Ended /\ module' \in {"out", "default"} /\ nullb' = "absent" /\ mounts' = {}
  /\ loop' = "free" /\ dead' = {} /\ UNCHANGED <<pc, run, starts, nullblk>>

Fsperf ==
  \/ Modprobe \/ Rmmod \/ Makedirs \/ PowerOn \/ SetScheduler
  \/ MkfsNull \/ MountNull \/ MakeLoopFile \/ MountLoop \/ Fallocate \/ EnterIOStats
  \/ UmountLoop \/ UmountNull \/ DropNullBlock \/ RemoveDir \/ Leave \/ Exit

Next == Fsperf \/ StartProcess \/ Release \/ Kill \/ Reboot

Spec == Init /\ [][Next]_vars
FairSpec == Spec /\ WF_vars(Fsperf)

-----------------------------------------------------------------------------
(* Properties.                                                              *)

\* As long as fsperf works, the null block device is only switched off when
\* nothing is mounted from it and no loop device holds a file on it.
OffOnlyUnmounted ==
  [][nullb = "on" /\ nullb' # "on" /\ pc \notin Ended \cup {"exit"}
     => mounts = {} /\ loop = "free"]_vars

\* A run formats and mounts a device that it has made itself, just now: nothing is
\* mounted from it, no loop device holds a file on it.  (What an earlier process
\* has left mounted from a device now off may still lie on the directory.)
DeviceIsFresh ==
  pc \in {"mkfs", "mount"} =>
    nullblk = "started" /\ nullb = "on" /\ mounts = {} /\ loop = "free"

\* A teardown that comes to its end leaves nothing mounted and no loop device,
\* and has not taken the device away under a file system of its own: all that an
\* exception in __del__ can leave is an unused device.
TeardownComplete ==
  pc = "left" =>
    /\ nullblk = "none" /\ mounts = {} /\ loop = "free"
    /\ \A fs \in FileSystems : <<starts, fs>> \notin dead

\* Whatever is found, fails or is busy, the process comes to its end.
EveryProcessEnds == pc = "setup" ~> pc \in Ended

\* "If our device isn't a block device, we have to sleep to give that a chance
\* to happen" (utils.py:177-179): after the umount of a loop file its loop device
\* has been released.  Not so: the sleep is taken for block devices.
LoopReleased == pc = "umountnull" => loop = "free"

-----------------------------------------------------------------------------
(* The inductive invariant behind them.                                     *)

\* What a process knows of its own NullBlock.
BlockInv ==
  /\ pc \in Setup \cup {"iostats", "umountloop", "umountnull", "drop"} =>
       nullblk = "started" /\ nullb = "on"
  /\ pc \in Start => nullblk # "started"
  /\ pc = "makedirs" => ~DeviceExists
  /\ pc \in {"power", "rmdir"} => nullb = "dir"
  /\ pc \in {"rmdir", "left"} => nullblk = "none"
  /\ pc = "scheduler" => nullb = "on"

\* What it knows of what is mounted: what needs the device has it.
MountInv ==
  /\ mounts # {} \/ loop # "free" => nullb = "on"
  /\ pc \in {"scheduler", "mkfs", "mount", "drop", "rmdir", "left"} => mounts = {} /\ loop = "free"
  /\ pc \in {"loopfile", "mountloop"} => loop = "free"
  /\ pc = "umountnull" => "loop" \notin mounts

\* No file system of a process that still works has lost its device.
DeadInv == \A d \in dead : d[1] <= starts /\ (pc \notin Ended => d[1] < starts)

IndInv == TypeOK /\ BlockInv /\ MountInv /\ DeadInv
=============================================================================
