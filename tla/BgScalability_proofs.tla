------------------------- MODULE BgScalability_proofs -------------------------
(***************************************************************************)
(* What the oneoff leaves behind and finds, for every number of runs and   *)
(* processes.                                                              *)
(***************************************************************************)
EXTENDS BgScalability, TLAPS

LEMMA InitInv == Init => IndInv
<1> SUFFICES ASSUME Init PROVE IndInv
  OBVIOUS
<1>1. TypeOK
  <2>1. run \in 1..NumRuns /\ starts \in Nat BY RunsAssumption DEF Init
  <2>2. /\ pc \in Ended /\ nullblk = "none" /\ module \in {"out", "default"} /\ nullb = "absent"
        /\ mounts = {} /\ loop = "free" /\ dead = {}
    BY Zenon DEF Init, Ended
  <2> QED BY <2>1, <2>2 DEF TypeOK
<1>2. BlockInv BY DEF Init, BlockInv, Start, Setup
<1>3. MountInv BY DEF Init, MountInv
<1>4. DeadInv BY DEF Init, DeadInv
<1> QED BY <1>1, <1>2, <1>3, <1>4 DEF IndInv

LEMMA StartStep ==
  ASSUME IndInv, Modprobe \/ Rmmod \/ Makedirs \/ PowerOn \/ SetScheduler
  PROVE  IndInv'
<1> USE RunsAssumption DEF IndInv, TypeOK, BlockInv, MountInv, DeadInv, Ended, Start, Setup, Teardown,
                           NotRun, Go, DeviceExists, host
<1>1. CASE Modprobe BY <1>1 DEF Modprobe
<1>2. CASE Rmmod BY <1>2 DEF Rmmod
<1>3. CASE Makedirs BY <1>3 DEF Makedirs
<1>4. CASE PowerOn BY <1>4 DEF PowerOn
<1>5. CASE SetScheduler BY <1>5 DEF SetScheduler
<1> QED BY <1>1, <1>2, <1>3, <1>4, <1>5

LEMMA SetupStep ==
  ASSUME IndInv, MkfsNull \/ MountNull \/ MakeLoopFile \/ MountLoop \/ Fallocate \/ EnterIOStats
  PROVE  IndInv'
<1> USE DEF IndInv, TypeOK, BlockInv, MountInv, DeadInv, Ended, Start, Setup, Teardown, FileSystems, Go,
           DeviceExists, host
<1>1. CASE MkfsNull BY <1>1 DEF MkfsNull, Step
<1>2. CASE MountNull BY <1>2 DEF MountNull, Mount
<1>3. CASE MakeLoopFile BY <1>3 DEF MakeLoopFile, Step
<1>4. CASE MountLoop BY <1>4 DEF MountLoop, Mount
<1>5. CASE Fallocate BY <1>5 DEF Fallocate, Step
<1>6. CASE EnterIOStats BY <1>6 DEF EnterIOStats
<1> QED BY <1>1, <1>2, <1>3, <1>4, <1>5, <1>6

LEMMA TeardownStep ==
  ASSUME IndInv, UmountLoop \/ UmountNull \/ DropNullBlock \/ RemoveDir \/ Leave \/ Exit
  PROVE  IndInv'
<1> USE DEF IndInv, TypeOK, BlockInv, MountInv, DeadInv, Ended, Start, Setup, Teardown, FileSystems, Go,
           DeviceExists, host
<1>1. CASE UmountLoop BY <1>1 DEF UmountLoop, is_on_block_device
<1>2. CASE UmountNull BY <1>2 DEF UmountNull
<1>3. CASE DropNullBlock BY <1>3 DEF DropNullBlock, PowerOff
<1>4. CASE RemoveDir BY <1>4 DEF RemoveDir
<1>5. CASE Leave BY <1>5 DEF Leave
<1>6. CASE Exit
  <2>1. CASE UNCHANGED host BY <1>6, <2>1 DEF Exit
  <2>2. CASE nullb' \in {"absent", "dir"} /\ PowerOff
    <3>1. TypeOK' BY <1>6, <2>2 DEF Exit, PowerOff
    <3>2. \A d \in dead' : d[1] <= starts
      <4> SUFFICES ASSUME NEW d \in dead' PROVE d[1] <= starts
        OBVIOUS
      <4>1. CASE d \in dead BY <4>1
      <4>2. CASE d \in {starts} \X mounts BY <4>2
      <4> QED BY <2>2, <4>1, <4>2 DEF PowerOff
    <3>3. pc' = "died" /\ starts' = starts /\ mounts' = {} /\ loop' = "free"
      BY <1>6, <2>2 DEF Exit, PowerOff
    <3>4. DeadInv' BY <3>2, <3>3
    <3>5. BlockInv' /\ MountInv' BY <3>3
    <3> QED BY <3>1, <3>4, <3>5
  <2> QED BY <1>6, <2>1, <2>2 DEF Exit
<1> QED BY <1>1, <1>2, <1>3, <1>4, <1>5, <1>6

LEMMA WorldStep ==
  ASSUME IndInv, StartProcess \/ Release \/ Kill \/ Reboot
  PROVE  IndInv'
<1> USE RunsAssumption
    DEF IndInv, TypeOK, BlockInv, MountInv, DeadInv, Ended, Start, Setup, Teardown, FileSystems, Go,
           DeviceExists, host
<1>1. CASE StartProcess BY <1>1 DEF StartProcess
<1>2. CASE Release BY <1>2 DEF Release
<1>3. CASE Kill BY <1>3 DEF Kill
<1>4. CASE Reboot BY <1>4 DEF Reboot
<1> QED BY <1>1, <1>2, <1>3, <1>4

LEMMA StutterStep == ASSUME IndInv, UNCHANGED vars PROVE IndInv'
  BY DEF IndInv, TypeOK, BlockInv, MountInv, DeadInv, DeviceExists, vars, host

\* What a process of the oneoff knows at each of its steps of its null block
\* device, of what is mounted from it and of the loop device, whatever the
\* processes before it left and however they ended.
THEOREM Invariance == Spec => []IndInv
<1>1. IndInv /\ [Next]_vars => IndInv'
  BY StartStep, SetupStep, TeardownStep, WorldStep, StutterStep DEF Next, Fsperf
<1> QED BY InitInv, <1>1, PTL DEF Spec

\* Every variable has its type.
THEOREM TypeCorrect == Spec => []TypeOK
<1>1. IndInv => TypeOK BY DEF IndInv
<1> QED BY Invariance, <1>1, PTL

\* A run gets as far as mkfs and mount only with a device it has made itself,
\* with nothing mounted from it and no loop device on it.
THEOREM FreshDevice == Spec => []DeviceIsFresh
<1>1. IndInv => DeviceIsFresh BY DEF IndInv, BlockInv, MountInv, DeviceIsFresh, Setup
<1> QED BY Invariance, <1>1, PTL

\* A teardown that comes to its end has unmounted both file systems and seen the
\* loop device go, and has left none of its own mounted without a device.
THEOREM CompleteTeardown == Spec => []TeardownComplete
<1>1. IndInv => TeardownComplete BY DEF IndInv, TypeOK, BlockInv, MountInv, DeadInv, TeardownComplete, Ended
<1> QED BY Invariance, <1>1, PTL

\* fsperf switches the null block device off only when nothing is mounted from
\* it and no loop device holds a file on it.
THEOREM SafeOff == Spec => OffOnlyUnmounted
<1> DEFINE Off == nullb = "on" /\ nullb' # "on" /\ pc \notin Ended \cup {"exit"}
                    => mounts = {} /\ loop = "free"
<1>1. ASSUME IndInv, [Next]_vars PROVE [Off]_vars
  <2>1. CASE UNCHANGED vars BY <2>1
  <2>2. CASE Modprobe \/ Rmmod \/ Makedirs \/ PowerOn \/ SetScheduler
    BY <1>1, <2>2 DEF Modprobe, Rmmod, Makedirs, PowerOn, SetScheduler, host
  <2>3. CASE MkfsNull \/ MountNull \/ MakeLoopFile \/ MountLoop \/ Fallocate \/ EnterIOStats
    BY <2>3 DEF MkfsNull, MountNull, MakeLoopFile, MountLoop, Fallocate, EnterIOStats, Step, Mount, host
  <2>4. CASE UmountLoop \/ UmountNull \/ RemoveDir \/ Leave
    BY <1>1, <2>4 DEF UmountLoop, UmountNull, RemoveDir, Leave, host, IndInv, BlockInv
  <2>5. CASE DropNullBlock BY <1>1, <2>5 DEF DropNullBlock, IndInv, MountInv
  <2>6. CASE Exit BY <2>6 DEF Exit
  <2>7. CASE StartProcess \/ Release \/ Kill \/ Reboot
    BY <2>7 DEF StartProcess, Release, Kill, Reboot, host
  <2> QED BY <1>1, <2>1, <2>2, <2>3, <2>4, <2>5, <2>6, <2>7 DEF Next, Fsperf
<1> QED BY Invariance, <1>1, PTL DEF Spec, OffOnlyUnmounted
===============================================================================
