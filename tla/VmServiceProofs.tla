--------------------------- MODULE VmServiceProofs ---------------------------
(***************************************************************************)
(* Theorems about VmService.tla, for every set of tool calls and stop()    *)
(* activations, every number of commands, every persistence policy, with   *)
(* and without overlapping operations and host faults.                     *)
(***************************************************************************)
EXTENDS VmService, FiniteSetTheorems, TLAPS

(* Boots are numbered in the order they begin.                              *)
NumberedInOrder ==
  \A b \in Boot : b > begun => boot[b].pc = "unborn"

(* The points of runBoot() at which its QEMU may be running.                *)
RunsQemu == {"spawn", "ssh", "extras", "abandon", "failPower", "serving"}

QemuBelongsToBoot ==
  \A b \in Boot : qemu[b] = "alive" => boot[b].pc \in RunsQemu

SafetyInv ==
  /\ TypeOK
  /\ NumberedInOrder
  /\ QemuBelongsToBoot
  /\ NeverResurrected

(* The relaunches claimed by onDeathDetected() whose boot has not begun.    *)
Pending == {c \in Callers : call[c].pc \in {"reap", "rm"}}
Unspent == IF relaunchUsed THEN 0 ELSE 1

NothingBegun ==
  /\ begun = 0
  /\ state \in {"off", "stopped"}
  /\ relaunchUsed = FALSE
  /\ \A c \in Callers : call[c].pc = "idle"
  /\ \A b \in Boot : boot[b].pc = "unborn"

AllowanceInv ==
  /\ TypeOK
  /\ starts = 0 => NothingBegun
  /\ starts > 0 => begun + Cardinality(Pending) + Unspent <= 2 * starts
-----------------------------------------------------------------------------
(* Type correctness *)

LEMMA SidType == ASSUME NEW b \in Boot PROVE Sid(b) \in Dir
  BY ConstantsAssumption DEF Sid, Boot, Dir

(* Moving a boot to another point of runBoot() keeps the type of boot. *)
LEMMA GotoType ==
  ASSUME TypeOK, NEW b \in Boot, NEW pc \in BootPc, Goto(b, pc)
  PROVE  boot' \in [Boot -> [pc : BootPc, epoch : Nat]]
  BY DEF TypeOK, Goto

LEMMA CatchPcType ==
  ASSUME NEW b, NEW hasHandle, NEW hasPaths
  PROVE  CatchPc(b, hasHandle, hasPaths) \in BootPc
  BY DEF CatchPc, BootPc, BootEnded

LEMMA ThrowType ==
  ASSUME TypeOK, NEW b \in Boot, NEW hasHandle, NEW hasPaths,
         Throw(b, hasHandle, hasPaths)
  PROVE  boot' \in [Boot -> [pc : BootPc, epoch : Nat]]
  BY CatchPcType, GotoType DEF Throw

LEMMA ContinueType ==
  ASSUME TypeOK, NEW b \in Boot, NEW hasHandle, NEW pc \in BootPc,
         ContinueUnlessAbandoned(b, hasHandle, pc)
  PROVE  boot' \in [Boot -> [pc : BootPc, epoch : Nat]]
  BY CatchPcType, GotoType DEF ContinueUnlessAbandoned

(* However a QEMU ends, qemu and pidfile keep their types. *)
QemuTypes == qemu \in [Boot -> QemuState] /\ pidfile \in [Dir -> Boot \cup {None}]

LEMMA ExitsType ==
  ASSUME TypeOK, NEW q, Exits(q)
  PROVE  QemuTypes'
  BY DEF TypeOK, Exits, QemuTypes, QemuState

LEMMA LadderStopsType ==
  ASSUME TypeOK, NEW q, LadderStops(q)
  PROVE  QemuTypes'
  BY ExitsType DEF TypeOK, LadderStops, QemuTypes

LEMMA LadderThrowsType ==
  ASSUME TypeOK, NEW q, LadderThrows(q)
  PROVE  QemuTypes'
  BY DEF TypeOK, LadderThrows, QemuTypes, QemuState

(* Removing a session directory keeps the types of dir and pidfile. *)
DirTypes == /\ dir \in [Dir -> [files : DirFiles, by : Boot \cup {None}]]
            /\ pidfile \in [Dir -> Boot \cup {None}]

LEMMA RemoveDirType ==
  ASSUME TypeOK, NEW d, RemoveDir(d)
  PROVE  DirTypes'
<1>1. AbsentDir \in [files : DirFiles, by : Boot \cup {None}]
  BY DEF AbsentDir, DirFiles
<1>2. dir \in [Dir -> [files : DirFiles, by : Boot \cup {None}]] /\ pidfile \in [Dir -> Boot \cup {None}]
  BY DEF TypeOK
<1>3. dir' = [dir EXCEPT ![d] = AbsentDir] \/ dir' = dir
  BY DEF RemoveDir
<1>4. pidfile' = [pidfile EXCEPT ![d] = None] \/ pidfile' = pidfile
  BY DEF RemoveDir
<1>5. dir' \in [Dir -> [files : DirFiles, by : Boot \cup {None}]]
  BY ONLY <1>1, <1>2, <1>3
<1>6. pidfile' \in [Dir -> Boot \cup {None}]
  BY ONLY <1>2, <1>4
<1>7. QED
  BY ONLY <1>5, <1>6 DEF DirTypes

LEMMA DiscardDirType ==
  ASSUME TypeOK, NEW d, DiscardDir(d)
  PROVE  DirTypes'
  BY RemoveDirType DEF TypeOK, DiscardDir, DirTypes

LEMMA BeginBootType ==
  ASSUME TypeOK, BeginBoot
  PROVE  /\ boot' \in [Boot -> [pc : BootPc, epoch : Nat]]
         /\ begun' \in Nat
         /\ state' \in VmState
         /\ sshPort' \in Boot \cup {None}
<1>1. [pc |-> "sweep", epoch |-> epoch] \in [pc : BootPc, epoch : Nat]
  BY DEF TypeOK, BootPc, BootEnded
<1>2. boot' \in [Boot -> [pc : BootPc, epoch : Nat]]
  BY <1>1 DEF TypeOK, BeginBoot
<1>3. begun' \in Nat
  BY DEF TypeOK, BeginBoot
<1>4. state' \in VmState /\ sshPort' \in Boot \cup {None}
  BY DEF BeginBoot, VmState
<1>5. QED
  BY <1>2, <1>3, <1>4

LEMMA ArmAndBootType ==
  ASSUME TypeOK, ArmAndBoot
  PROVE  /\ boot' \in [Boot -> [pc : BootPc, epoch : Nat]]
         /\ begun' \in Nat /\ starts' \in Nat
         /\ state' \in VmState
         /\ sshPort' \in Boot \cup {None}
         /\ relaunchUsed' \in BOOLEAN
<1>1. starts' \in Nat
  BY DEF TypeOK, ArmAndBoot
<1>2. relaunchUsed' \in BOOLEAN
  BY DEF ArmAndBoot
<1>3. BeginBoot
  BY DEF ArmAndBoot
<1>4. QED
  BY <1>1, <1>2, <1>3, BeginBootType

StopperType ==
  stopper \in [Stoppers -> [pc : StopPc, handle : Boot \cup {None},
                            dir : Dir \cup {None}, restart : BOOLEAN]]

LEMMA StopContinuesType ==
  ASSUME TypeOK, NEW s \in Stoppers, NEW h \in Boot \cup {None},
         NEW d \in Dir \cup {None}, NEW restart \in BOOLEAN,
         StopContinues(s, h, d, restart)
  PROVE  state' \in VmState /\ StopperType'
<1>. DEFINE Record == [pc : StopPc, handle : Boot \cup {None},
                       dir : Dir \cup {None}, restart : BOOLEAN]
            Going == [pc |-> IF qemu[h] = "exited" THEN "teardown" ELSE "powerdown",
                      handle |-> h, dir |-> d, restart |-> restart]
<1>1. state' \in VmState
  BY DEF TypeOK, StopContinues, VmState
<1>2. /\ IdleStop \in Record
      /\ [IdleStop EXCEPT !.pc = "restart"] \in Record
  BY DEF IdleStop, StopPc
<1>3. Going \in Record
  BY DEF StopPc
<1>4. stopper \in [Stoppers -> Record]
  BY DEF TypeOK
<1>5. \E r \in Record : stopper' = [stopper EXCEPT ![s] = r]
  BY <1>2, <1>3 DEF StopContinues
<1>6. stopper' \in [Stoppers -> Record]
  BY <1>4, <1>5
<1>7. QED
  BY <1>1, <1>6 DEF StopperType

LEMMA StopSettlesType ==
  ASSUME TypeOK, NEW s \in Stoppers, StopSettles(s)
  PROVE  StopperType'
  BY DEF TypeOK, StopSettles, StopperType, IdleStop, StopPc
(* The steps of runBoot(). *)
LEMMA BootStepType ==
  ASSUME TypeOK, NEW b \in Boot, BootStep(b)
  PROVE  TypeOK'
<1>. USE SidType
<1>. DEFINE BootT == boot \in [Boot -> [pc : BootPc, epoch : Nat]]
<1>0. {"disk", "prepare", "spawn", "ssh", "extras", "serving", "done",
       "failDir", "rejected"} \subseteq BootPc
  BY DEF BootPc, BootEnded
<1>1. CASE Sweep(b)
  <2>1. QemuTypes'
    BY <1>1 DEF Sweep, SweepStaleSessions, TypeOK, QemuTypes, QemuState
  <2>2. DirTypes'
    <3>1. AbsentDir \in [files : DirFiles, by : Boot \cup {None}]
      BY DEF AbsentDir, DirFiles
    <3>2. QED
      BY <1>1, <3>1 DEF Sweep, SweepStaleSessions, TypeOK, DirTypes
  <2>3. BootT' /\ session' \in Dir \cup {None}
    <3>1. CASE Throw(b, FALSE, FALSE) /\ UNCHANGED session
      BY <3>1, ThrowType DEF TypeOK
    <3>2. CASE Prepared(b)
      BY <3>2, <1>0, ContinueType DEF TypeOK, Prepared
    <3>3. CASE Goto(b, "prepare") /\ UNCHANGED session
      BY <3>3, <1>0, GotoType DEF TypeOK
    <3>4. QED
      BY <1>1, <3>1, <3>2, <3>3 DEF Sweep
  <2>4. QED
    BY <1>1, <2>1, <2>2, <2>3 DEF Sweep, TypeOK, QemuTypes, DirTypes
<1>2. CASE Prepare(b)
  <2>1. DirTypes'
    <3>1. [files |-> "full", by |-> b] \in [files : DirFiles, by : Boot \cup {None}]
      BY DEF DirFiles
    <3>2. [files |-> "partial", by |-> b] \in [files : DirFiles, by : Boot \cup {None}]
      BY DEF DirFiles
    <3>3. dir' \in [Dir -> [files : DirFiles, by : Boot \cup {None}]]
      <4>1. CASE dir' = [dir EXCEPT ![Sid(b)] = [files |-> "full", by |-> b]]
        BY <4>1, <3>1 DEF TypeOK
      <4>2. CASE dir' = IF dir[Sid(b)].files = "absent"
                        THEN [dir EXCEPT ![Sid(b)].files = "empty"] ELSE dir
        BY <4>2 DEF TypeOK, DirFiles
      <4>3. CASE dir' = [dir EXCEPT ![Sid(b)] =
                           [files |-> IF dir[Sid(b)].files = "full"
                                      THEN "full" ELSE "partial",
                            by |-> b]]
        BY <4>3, <3>1, <3>2 DEF TypeOK
      <4>4. QED
        BY <1>2, <4>1, <4>2, <4>3 DEF Prepare
    <3>4. QED
      BY <1>2, <3>3 DEF Prepare, TypeOK, DirTypes
  <2>2. BootT' /\ session' \in Dir \cup {None}
    <3>1. CASE Throw(b, FALSE, FALSE) /\ UNCHANGED session
      BY <3>1, ThrowType DEF TypeOK
    <3>2. CASE Prepared(b)
      BY <3>2, <1>0, ContinueType DEF TypeOK, Prepared
    <3>3. QED
      BY <1>2, <3>1, <3>2 DEF Prepare
  <2>3. QED
    BY <1>2, <2>1, <2>2 DEF Prepare, TypeOK, DirTypes
<1>3. CASE Spawn(b)
  <2>1. QemuTypes'
    <3>1. qemu \in [Boot -> QemuState] /\ pidfile \in [Dir -> Boot \cup {None}]
      BY DEF TypeOK
    <3>2. qemu' = qemu \/ qemu' = [qemu EXCEPT ![b] = "alive"]
      BY ONLY <1>3 DEF Spawn, Throw
    <3>3. pidfile' = pidfile \/ pidfile' = [pidfile EXCEPT ![Sid(b)] = b]
      BY ONLY <1>3 DEF Spawn
    <3>4. qemu' \in [Boot -> QemuState]
      BY ONLY <3>1, <3>2 DEF QemuState
    <3>5. pidfile' \in [Dir -> Boot \cup {None}]
      BY <3>1, <3>3
    <3>6. QED
      BY ONLY <3>4, <3>5 DEF QemuTypes
  <2>2. BootT'
    BY <1>3, <1>0, GotoType, ThrowType DEF Spawn
  <2>3. QED
    BY <1>3, <2>1, <2>2 DEF Spawn, serviceVars, TypeOK, QemuTypes
<1>4. CASE SpawnDone(b)
  <2>1. QemuTypes'
    BY <1>4, LadderStopsType, LadderThrowsType
    DEF SpawnDone, AbandonQemu, TypeOK, QemuTypes
  <2>2. BootT'
    BY <1>4, <1>0, ContinueType, ThrowType DEF SpawnDone
  <2>3. handle' \in Boot \cup {None}
    BY <1>4 DEF SpawnDone, Adopt, TypeOK
  <2>4. QED
    BY <1>4, <2>1, <2>2, <2>3 DEF SpawnDone, TypeOK, QemuTypes
<1>5. CASE SshConfirm(b)
  <2>1. BootT'
    BY <1>5, <1>0, ContinueType, ThrowType DEF SshConfirm
  <2>2. sshPort' \in Boot \cup {None}
    BY <1>5 DEF SshConfirm, TypeOK
  <2>3. QED
    BY <1>5, <2>1, <2>2 DEF SshConfirm, TypeOK
<1>6. CASE Extras(b)
  <2>1. BootT'
    BY <1>6, <1>0, GotoType, ThrowType DEF Extras, Publish
  <2>2. backend' \in Boot \cup {None} /\ state' \in VmState
    BY <1>6 DEF Extras, Publish, TypeOK, VmState
  <2>3. reaperTimer' \in BOOLEAN
    <3>1. IdleReaper \in BOOLEAN /\ reaperTimer \in BOOLEAN
      BY ConstantsAssumption DEF TypeOK
    <3>2. QED
      BY <1>6, <3>1 DEF Extras, Publish
  <2>4. QED
    BY <1>6, <2>1, <2>2, <2>3 DEF Extras, TypeOK
<1>7. CASE Abandon(b)
  <2>1. QemuTypes'
    BY <1>7, LadderStopsType, LadderThrowsType DEF Abandon
  <2>2. BootT'
    BY <1>7, <1>0, GotoType DEF Abandon
  <2>3. QED
    BY <1>7, <2>1, <2>2 DEF Abandon, serviceVars, TypeOK, QemuTypes
<1>8. CASE FailPower(b)
  <2>1. QemuTypes'
    BY <1>8, LadderStopsType, LadderThrowsType DEF FailPower
  <2>2. BootT'
    BY <1>8, <1>0, GotoType DEF FailPower
  <2>3. QED
    BY <1>8, <2>1, <2>2 DEF FailPower, serviceVars, TypeOK, QemuTypes
<1>9. CASE FailSettle(b)
  <2>1. DirTypes'
    BY <1>9, DiscardDirType DEF FailSettle, TypeOK, DirTypes
  <2>2. BootT'
    BY <1>9, <1>0, GotoType DEF FailSettle
  <2>3. state' \in VmState
    BY <1>9 DEF FailSettle, FailedVerdict, TypeOK, VmState
  <2>4. QED
    BY <1>9, <2>1, <2>2, <2>3 DEF FailSettle, TypeOK, DirTypes
<1>10. QED
  BY <1>1, <1>2, <1>3, <1>4, <1>5, <1>6, <1>7, <1>8, <1>9 DEF BootStep

CallerType ==
  call \in [Callers -> [pc : CallPc, handle : Boot \cup {None}, dir : Dir \cup {None}]]

LEMMA IdleCallType == IdleCall \in [pc : CallPc, handle : Boot \cup {None}, dir : Dir \cup {None}]
  BY DEF IdleCall, CallPc

LEMMA RelaunchType ==
  ASSUME TypeOK, NEW c \in Callers, Relaunch(c)
  PROVE  /\ boot' \in [Boot -> [pc : BootPc, epoch : Nat]]
         /\ begun' \in Nat
         /\ state' \in VmState
         /\ {backend, sshPort}' \subseteq Boot \cup {None}
         /\ CallerType'
<1>1. CallerType'
  BY IdleCallType DEF Relaunch, TypeOK, CallerType
<1>2. BeginBoot /\ backend' = None
  BY DEF Relaunch
<1>3. QED
  BY <1>1, <1>2, BeginBootType

(* Tool calls and the steps of onDeathDetected(). *)
LEMMA CallerStepType ==
  ASSUME TypeOK, NEW c \in Callers,
         ToolCall(c) \/ DetectDeath(c) \/ CallStep(c)
  PROVE  TypeOK'
<1>0. {"corpse", "reap", "rm"} \subseteq CallPc /\ {"failed", "booting"} \subseteq VmState
  BY DEF CallPc, VmState
<1>1. CASE ToolCall(c)
  BY <1>1 DEF ToolCall, serviceVars, TypeOK
<1>2. CASE DetectDeath(c)
  <2>1. CallerType'
    <3>1. call \in [Callers -> [pc : CallPc, handle : Boot \cup {None}, dir : Dir \cup {None}]]
      BY DEF TypeOK
    <3>2. call' = [call EXCEPT ![c].pc = "corpse"]
      BY ONLY <1>2 DEF DetectDeath
    <3>3. QED
      BY ONLY <1>0, <3>1, <3>2 DEF CallerType
  <2>2. QED
    BY <1>2, <2>1 DEF DetectDeath, serviceVars, TypeOK, CallerType
<1>3. CASE GiveUp(c)
  <2>1. CallerType'
    <3>1. call \in [Callers -> [pc : CallPc, handle : Boot \cup {None}, dir : Dir \cup {None}]]
      BY DEF TypeOK
    <3>2. call' = [call EXCEPT ![c] = IdleCall]
      BY ONLY <1>3 DEF GiveUp
    <3>3. QED
      BY ONLY <1>0, <3>1, <3>2, IdleCallType DEF CallerType
  <2>2. QED
    BY <1>3, <1>0, <2>1 DEF GiveUp, TypeOK, CallerType
<1>4. CASE ClaimRelaunch(c)
  <2>1. CallerType'
    <3>1. call \in [Callers -> [pc : CallPc, handle : Boot \cup {None}, dir : Dir \cup {None}]]
          /\ handle \in Boot \cup {None}
      BY DEF TypeOK
    <3>2. call' = [call EXCEPT ![c].pc = "reap", ![c].handle = handle]
      BY ONLY <1>4 DEF ClaimRelaunch, HandleToReap
    <3>3. QED
      BY ONLY <1>0, <3>1, <3>2 DEF CallerType
  <2>2. QED
    BY <1>4, <2>1 DEF ClaimRelaunch, serviceVars, TypeOK, CallerType
<1>5. CASE Reap(c)
  <2>1. QemuTypes'
    BY <1>5, LadderStopsType, LadderThrowsType DEF Reap
  <2>2. CASE Relaunch(c)
    BY <1>5, <2>1, <2>2, RelaunchType DEF Reap, TypeOK, QemuTypes, CallerType
  <2>3. CASE /\ call' = [call EXCEPT ![c].pc = "rm", ![c].dir = session]
             /\ UNCHANGED <<state, backend, sshPort, begun, boot>>
    <3>1. CallerType'
      <4>1. call \in [Callers -> [pc : CallPc, handle : Boot \cup {None}, dir : Dir \cup {None}]]
            /\ session \in Dir \cup {None}
        BY DEF TypeOK
      <4>2. QED
        BY ONLY <1>0, <2>3, <4>1 DEF CallerType
    <3>2. QED
      BY <1>5, <2>1, <2>3, <3>1 DEF Reap, TypeOK, QemuTypes, CallerType
  <2>4. QED
    BY <1>5, <2>2, <2>3 DEF Reap
<1>6. CASE DropDeadSession(c)
  BY <1>6, RemoveDirType, RelaunchType
  DEF DropDeadSession, TypeOK, DirTypes, CallerType
<1>7. QED
  BY <1>1, <1>2, <1>3, <1>4, <1>5, <1>6 DEF CallStep

LEMMA BeginStopType ==
  ASSUME TypeOK, NEW s \in Stoppers, NEW restart \in BOOLEAN, BeginStop(s, restart)
  PROVE  TypeOK'
<1>1. state' \in VmState /\ StopperType'
  <2>0. handle \in Boot \cup {None} /\ session \in Dir \cup {None}
    BY DEF TypeOK
  <2>1. CASE backend = None
    <3>1. StopContinues(s, handle, session, restart)
      BY <2>1 DEF BeginStop
    <3>2. QED
      BY <2>0, <3>1, StopContinuesType
  <2>2. CASE backend # None
    <3>1. /\ stopper \in [Stoppers -> [pc : StopPc, handle : Boot \cup {None}, dir : Dir \cup {None}, restart : BOOLEAN]]
          /\ state \in VmState
      BY DEF TypeOK
    <3>2. /\ stopper' = [stopper EXCEPT ![s] = [pc |-> "closing", handle |-> handle, dir |-> session,
                                                restart |-> restart]]
          /\ state' = state
      BY <2>2 DEF BeginStop
    <3>3. [pc |-> "closing", handle |-> handle, dir |-> session, restart |-> restart] \in
            [pc : StopPc, handle : Boot \cup {None}, dir : Dir \cup {None}, restart : BOOLEAN]
      BY <2>0 DEF StopPc
    <3>4. StopperType'
      BY ONLY <3>1, <3>2, <3>3 DEF StopperType
    <3>5. QED
      BY ONLY <3>1, <3>2, <3>4
  <2>3. QED
    BY <2>1, <2>2
<1>2. epoch' \in Nat
  BY DEF BeginStop, TypeOK
<1>3. reaperTimer' \in BOOLEAN /\ backend' = None
  BY DEF BeginStop
<1>4. QED
  BY <1>1, <1>2, <1>3 DEF BeginStop, TypeOK, StopperType

(* The steps of stop(), vm-restart and the idle reaper. *)
LEMMA StopperStepType ==
  ASSUME TypeOK, NEW s \in Stoppers,
         Stop(s) \/ Restart(s) \/ ReaperFires(s) \/ StopStep(s)
  PROVE  TypeOK'
<1>1. CASE Stop(s) \/ Restart(s) \/ ReaperStops(s)
  BY <1>1, BeginStopType DEF Stop, Restart, ReaperStops
<1>2. CASE ReaperFires(s)
  <2>1. StopperType'
    <3>1. stopper \in [Stoppers -> [pc : StopPc, handle : Boot \cup {None}, dir : Dir \cup {None}, restart : BOOLEAN]]
      BY DEF TypeOK
    <3>2. stopper' = stopper \/ stopper' = [stopper EXCEPT ![s].pc = "capture"]
      BY ONLY <1>2 DEF ReaperFires
    <3>3. QED
      BY ONLY <3>1, <3>2 DEF StopperType, StopPc
  <2>2. QED
    BY <1>2, <2>1 DEF ReaperFires, serviceVars, TypeOK, StopperType
<1>3. CASE MuxClosed(s)
  <2>1. /\ stopper[s].handle \in Boot \cup {None}
        /\ stopper[s].dir \in Dir \cup {None}
        /\ stopper[s].restart \in BOOLEAN
    BY DEF TypeOK
  <2>2. state' \in VmState /\ StopperType'
    BY <1>3, <2>1, StopContinuesType DEF MuxClosed
  <2>3. QED
    BY <1>3, <2>2 DEF MuxClosed, TypeOK, StopperType
<1>4. CASE Powerdown(s)
  <2>1. QemuTypes'
    BY <1>4, LadderStopsType, LadderThrowsType DEF Powerdown
  <2>2. StopperType'
    <3>1. CASE StopSettles(s)
      BY <3>1, StopSettlesType
    <3>2. CASE stopper' = [stopper EXCEPT ![s].pc = "teardown"]
      <4>1. stopper \in [Stoppers -> [pc : StopPc, handle : Boot \cup {None}, dir : Dir \cup {None}, restart : BOOLEAN]]
        BY DEF TypeOK
      <4>2. QED
        BY ONLY <3>2, <4>1 DEF StopperType, StopPc
    <3>3. QED
      BY <1>4, <3>1, <3>2 DEF Powerdown
  <2>3. QED
    BY <1>4, <2>1, <2>2 DEF Powerdown, serviceVars, TypeOK, QemuTypes, StopperType
<1>5. CASE Teardown(s)
  <2>1. state' \in VmState
    BY <1>5 DEF Teardown, VmState
  <2>2. QED
    BY <1>5, <2>1, DiscardDirType, StopSettlesType
    DEF Teardown, TypeOK, DirTypes, StopperType
<1>6. CASE RestartStarts(s)
  <2>1. StopperType'
    BY <1>6 DEF RestartStarts, TypeOK, StopperType, IdleStop, StopPc
  <2>2. CASE ArmAndBoot
    BY <1>6, <2>1, <2>2, ArmAndBootType DEF RestartStarts, TypeOK, StopperType
  <2>3. CASE UNCHANGED <<state, sshPort, starts, relaunchUsed, begun, boot>>
    BY <1>6, <2>1, <2>3 DEF RestartStarts, TypeOK, StopperType
  <2>4. QED
    BY <1>6, <2>2, <2>3 DEF RestartStarts
<1>7. QED
  BY <1>1, <1>2, <1>3, <1>4, <1>5, <1>6 DEF StopStep

LEMMA TypeStep == ASSUME TypeOK, [Next]_vars PROVE TypeOK'
<1>1. CASE Start
  BY <1>1, ArmAndBootType DEF Start, TypeOK
<1>2. ASSUME NEW b \in Boot, QemuDies(b) PROVE TypeOK'
  BY <1>2, ExitsType DEF QemuDies, serviceVars, TypeOK, QemuTypes
<1>3. CASE UNCHANGED vars
  BY <1>3 DEF vars, TypeOK
<1>4. QED
  BY <1>1, <1>2, <1>3, BootStepType, CallerStepType, StopperStepType DEF Next

LEMMA TypeInit == ASSUME Init PROVE TypeOK
<1>1. /\ state \in VmState /\ epoch \in Nat /\ starts \in Nat /\ begun \in Nat
      /\ session \in Dir \cup {None}
      /\ {handle, backend, sshPort} \subseteq Boot \cup {None}
  BY DEF Init, VmState
<1>2. {relaunchUsed, reaperTimer} \subseteq BOOLEAN
  BY DEF Init
<1>3. boot \in [Boot -> [pc : BootPc, epoch : Nat]]
  BY DEF Init, BootPc, BootEnded
<1>4. CallerType
  BY IdleCallType DEF Init, CallerType
<1>5. StopperType
  BY DEF Init, StopperType, IdleStop, StopPc
<1>6. qemu \in [Boot -> QemuState] /\ pidfile \in [Dir -> Boot \cup {None}]
  BY DEF Init, QemuState
<1>7. dir \in [Dir -> [files : DirFiles, by : Boot \cup {None}]]
  BY DEF Init, AbsentDir, DirFiles
<1>8. QED
  BY <1>1, <1>2, <1>3, <1>4, <1>5, <1>6, <1>7 DEF TypeOK, CallerType, StopperType

(* The variables keep their types: in particular a handle, a backend or a   *)
(* port always names a boot of the service, and a pidfile its own boot.     *)
THEOREM TypeCorrect == Spec => []TypeOK
<1>1. QED
  BY TypeInit, TypeStep, PTL DEF Spec
-----------------------------------------------------------------------------
(* Nothing torn down comes back, and no QEMU outlives its boot *)

NoNewQemu == \A q \in Boot : qemu'[q] = "alive" => qemu[q] = "alive"

LEMMA LadderStopsQemu ==
  ASSUME TypeOK, NEW q, LadderStops(q)
  PROVE  NoNewQemu /\ (q \in Boot => qemu'[q] # "alive")
  BY DEF TypeOK, LadderStops, Exits, NoNewQemu

LEMMA LadderThrowsQemu ==
  ASSUME TypeOK, NEW q, LadderThrows(q)
  PROVE  NoNewQemu /\ (q \in Boot => qemu'[q] # "alive")
  BY DEF TypeOK, LadderThrows, NoNewQemu

Safe == NumberedInOrder /\ QemuBelongsToBoot /\ NeverResurrected

(* A step that moves no boot and begins none. *)
LEMMA FrameSafe ==
  ASSUME SafetyInv, NoNewQemu, UNCHANGED <<boot, begun>>,
         backend' = None \/ UNCHANGED <<backend, epoch>>
  PROVE  Safe'
<1>1. NumberedInOrder'
  BY DEF SafetyInv, NumberedInOrder
<1>2. QemuBelongsToBoot'
  BY DEF SafetyInv, QemuBelongsToBoot, NoNewQemu
<1>3. NeverResurrected'
  BY DEF SafetyInv, NeverResurrected, Stale
<1>4. QED
  BY <1>1, <1>2, <1>3 DEF Safe

(* A boot in flight moves on: it may start its QEMU, and leaves the points   *)
(* at which that QEMU may run only once it is gone.                         *)
LEMMA GotoSafe ==
  ASSUME SafetyInv, NEW b \in Boot, NEW pc, Goto(b, pc), InFlight(b),
         \A q \in Boot \ {b} : qemu'[q] = "alive" => qemu[q] = "alive",
         qemu'[b] = "alive" => pc \in RunsQemu,
         UNCHANGED <<begun, epoch, backend>>
  PROVE  Safe'
<1>0. /\ boot \in [Boot -> [pc : BootPc, epoch : Nat]]
      /\ boot[b].pc \notin {"unborn", "serving"}
      /\ begun \in Nat /\ Boot \subseteq Nat
  BY DEF SafetyInv, TypeOK, InFlight, BootEnded, Boot
<1>1. /\ boot'[b].pc = pc
      /\ \A q \in Boot \ {b} : boot'[q] = boot[q]
  BY <1>0 DEF Goto
<1>2. NumberedInOrder'
  BY <1>0, <1>1 DEF SafetyInv, NumberedInOrder
<1>3. QemuBelongsToBoot'
  BY <1>0, <1>1 DEF SafetyInv, QemuBelongsToBoot
<1>4. NeverResurrected'
  <2>1. ASSUME backend # None
        PROVE  boot'[backend] = boot[backend]
    BY <1>0, <1>1, <2>1 DEF SafetyInv, NeverResurrected, TypeOK
  <2>2. QED
    BY <2>1 DEF SafetyInv, NeverResurrected, Stale
<1>5. QED
  BY <1>2, <1>3, <1>4 DEF Safe

(* A boot begins: its number was unborn, so nothing refers to it.           *)
LEMMA BeginBootSafe ==
  ASSUME SafetyInv, BeginBoot, NoNewQemu, UNCHANGED epoch,
         backend' = None \/ UNCHANGED backend
  PROVE  Safe'
<1>0. /\ boot \in [Boot -> [pc : BootPc, epoch : Nat]]
      /\ begun \in Nat /\ Boot \subseteq Nat
      /\ begun' = begun + 1
      /\ begun + 1 \in Boot => boot[begun + 1].pc = "unborn"
  BY DEF SafetyInv, TypeOK, NumberedInOrder, Boot, BeginBoot
<1>1. \A q \in Boot : q # begun + 1 => boot'[q] = boot[q]
  BY <1>0 DEF BeginBoot
<1>2. NumberedInOrder'
  BY <1>0, <1>1 DEF SafetyInv, NumberedInOrder
<1>3. QemuBelongsToBoot'
  <2>1. ASSUME NEW q \in Boot, qemu'[q] = "alive" PROVE boot'[q].pc \in RunsQemu
    <3>1. boot[q].pc \in RunsQemu
      BY <2>1 DEF SafetyInv, QemuBelongsToBoot, NoNewQemu
    <3>2. q # begun + 1
      BY <1>0, <3>1 DEF RunsQemu
    <3>3. QED
      BY <1>1, <3>1, <3>2
  <2>2. QED
    BY <2>1 DEF QemuBelongsToBoot
<1>4. NeverResurrected'
  <2>1. ASSUME backend # None PROVE boot'[backend] = boot[backend]
    BY <1>0, <1>1, <2>1 DEF SafetyInv, NeverResurrected, TypeOK
  <2>2. QED
    BY <2>1 DEF SafetyInv, NeverResurrected, Stale
<1>5. QED
  BY <1>2, <1>3, <1>4 DEF Safe

(* A boot that throws stays at a point that owns its QEMU, if it has one.   *)
LEMMA CatchWithHandle ==
  ASSUME NEW b, NEW hasPaths
  PROVE  CatchPc(b, TRUE, hasPaths) \in RunsQemu
  BY DEF CatchPc, RunsQemu

LEMMA BootStepSafe ==
  ASSUME SafetyInv, NEW b \in Boot, BootStep(b)
  PROVE  Safe'
<1>0. TypeOK
  BY DEF SafetyInv
<1>1. CASE Sweep(b)
  <2>1. NoNewQemu
    BY <1>1 DEF Sweep, SweepStaleSessions, NoNewQemu
  <2>2. InFlight(b) /\ qemu'[b] # "alive"
    BY <1>1, <2>1 DEF Sweep, At, InFlight, BootEnded, SafetyInv, QemuBelongsToBoot, RunsQemu, NoNewQemu
  <2>3. \E pc : Goto(b, pc)
    BY <1>1 DEF Sweep, Prepared, Throw, ContinueUnlessAbandoned
  <2>4. QED
    BY <1>1, <2>1, <2>2, <2>3, GotoSafe DEF Sweep, NoNewQemu
<1>2. CASE Prepare(b)
  <2>1. InFlight(b) /\ qemu[b] # "alive"
    BY <1>2 DEF Prepare, At, InFlight, BootEnded, SafetyInv, QemuBelongsToBoot, RunsQemu
  <2>2. \E pc : Goto(b, pc)
    BY <1>2 DEF Prepare, Prepared, Throw, ContinueUnlessAbandoned
  <2>3. QED
    BY <1>2, <2>1, <2>2, GotoSafe DEF Prepare
<1>3. CASE Spawn(b)
  <2>1. InFlight(b) /\ qemu[b] # "alive"
    BY <1>3 DEF Spawn, At, InFlight, BootEnded, SafetyInv, QemuBelongsToBoot, RunsQemu
  <2>2. CASE qemu' = [qemu EXCEPT ![b] = "alive"] /\ Goto(b, "spawn")
    <3>1. "spawn" \in RunsQemu
      BY DEF RunsQemu
    <3>2. \A q \in Boot \ {b} : qemu'[q] = "alive" => qemu[q] = "alive"
      BY <1>0, <2>2 DEF TypeOK
    <3>3. QED
      BY <1>3, <2>1, <2>2, <3>1, <3>2, GotoSafe DEF Spawn, serviceVars
  <2>3. CASE Throw(b, FALSE, TRUE) /\ UNCHANGED <<qemu, pidfile>>
    BY <1>3, <2>1, <2>3, GotoSafe DEF Spawn, serviceVars, Throw
  <2>4. QED
    BY <1>3, <2>2, <2>3 DEF Spawn
<1>4. CASE SpawnDone(b)
  <2>1. InFlight(b)
    BY <1>4 DEF SpawnDone, At, InFlight, BootEnded
  <2>2. CASE ContinueUnlessAbandoned(b, TRUE, "ssh") /\ UNCHANGED <<qemu, pidfile>>
    <3>1. PICK pc \in RunsQemu : Goto(b, pc)
      BY <2>2, CatchWithHandle DEF ContinueUnlessAbandoned, RunsQemu
    <3>2. QED
      BY <1>4, <2>1, <2>2, <3>1, GotoSafe DEF SpawnDone
  <2>3. CASE AbandonQemu(b) /\ Throw(b, FALSE, TRUE)
    <3>1. NoNewQemu /\ qemu'[b] # "alive"
      BY <1>0, <2>3, LadderStopsQemu, LadderThrowsQemu DEF AbandonQemu
    <3>2. QED
      BY <1>4, <2>1, <2>3, <3>1, GotoSafe DEF SpawnDone, Throw, NoNewQemu
  <2>4. QED
    BY <1>4, <2>2, <2>3 DEF SpawnDone
<1>5. CASE SshConfirm(b)
  <2>1. InFlight(b)
    BY <1>5 DEF SshConfirm, At, InFlight, BootEnded
  <2>2. PICK pc \in RunsQemu : Goto(b, pc)
    BY <1>5, CatchWithHandle DEF SshConfirm, ContinueUnlessAbandoned, Throw, RunsQemu
  <2>3. QED
    BY <1>5, <2>1, <2>2, GotoSafe DEF SshConfirm
<1>6. CASE Extras(b)
  <2>1. InFlight(b)
    BY <1>6 DEF Extras, At, InFlight, BootEnded
  <2>2. CASE Publish(b)
    <3>0. /\ boot \in [Boot -> [pc : BootPc, epoch : Nat]]
          /\ boot[b].pc # "unborn" /\ boot[b].epoch = epoch
      BY <1>0, <2>1, <2>2 DEF TypeOK, InFlight, BootEnded, Publish, Stale
    <3>1. /\ boot'[b].pc = "serving" /\ boot'[b].epoch = boot[b].epoch
          /\ \A q \in Boot \ {b} : boot'[q] = boot[q]
      BY <2>2, <3>0 DEF Publish, Goto
    <3>2. UNCHANGED <<begun, epoch, qemu>> /\ backend' = b
      BY <1>6, <2>2 DEF Extras, Publish
    <3>3. NumberedInOrder'
      BY <3>0, <3>1, <3>2 DEF SafetyInv, NumberedInOrder
    <3>4. QemuBelongsToBoot'
      BY <3>1, <3>2 DEF SafetyInv, QemuBelongsToBoot, RunsQemu
    <3>5. NeverResurrected'
      BY <3>0, <3>1, <3>2 DEF NeverResurrected, Stale
    <3>6. QED
      BY <3>3, <3>4, <3>5 DEF Safe
  <2>3. CASE Throw(b, TRUE, TRUE) /\ UNCHANGED <<backend, state, reaperTimer>>
    <3>1. PICK pc \in RunsQemu : Goto(b, pc)
      BY <2>3, CatchWithHandle DEF Throw
    <3>2. QED
      BY <1>6, <2>1, <2>3, <3>1, GotoSafe DEF Extras
  <2>4. QED
    BY <1>6, <2>2, <2>3 DEF Extras
<1>7. CASE Abandon(b)
  <2>1. InFlight(b)
    BY <1>7 DEF Abandon, At, InFlight, BootEnded
  <2>2. NoNewQemu /\ qemu'[b] # "alive"
    BY <1>0, <1>7, LadderStopsQemu, LadderThrowsQemu DEF Abandon
  <2>3. QED
    BY <1>7, <2>1, <2>2, GotoSafe DEF Abandon, serviceVars, NoNewQemu
<1>8. CASE FailPower(b)
  <2>1. InFlight(b)
    BY <1>8 DEF FailPower, At, InFlight, BootEnded
  <2>2. NoNewQemu /\ qemu'[b] # "alive"
    BY <1>0, <1>8, LadderStopsQemu, LadderThrowsQemu DEF FailPower
  <2>3. \E pc : Goto(b, pc)
    BY <1>8 DEF FailPower
  <2>4. QED
    BY <1>8, <2>1, <2>2, <2>3, GotoSafe DEF FailPower, serviceVars, NoNewQemu
<1>9. CASE FailSettle(b)
  <2>1. InFlight(b) /\ qemu[b] # "alive"
    BY <1>9 DEF FailSettle, At, InFlight, BootEnded, SafetyInv, QemuBelongsToBoot, RunsQemu
  <2>2. QED
    BY <1>9, <2>1, GotoSafe DEF FailSettle
<1>10. QED
  BY <1>1, <1>2, <1>3, <1>4, <1>5, <1>6, <1>7, <1>8, <1>9 DEF BootStep

LEMMA CallerStepSafe ==
  ASSUME SafetyInv, NEW c \in Callers,
         ToolCall(c) \/ DetectDeath(c) \/ CallStep(c)
  PROVE  Safe'
<1>0. TypeOK
  BY DEF SafetyInv
<1>1. CASE ToolCall(c) \/ DetectDeath(c) \/ GiveUp(c) \/ ClaimRelaunch(c)
  BY <1>1, FrameSafe
  DEF ToolCall, DetectDeath, GiveUp, ClaimRelaunch, serviceVars, NoNewQemu
<1>2. CASE Reap(c)
  <2>1. NoNewQemu
    BY <1>0, <1>2, LadderStopsQemu, LadderThrowsQemu DEF Reap
  <2>2. CASE Relaunch(c)
    BY <1>2, <2>1, <2>2, BeginBootSafe DEF Reap, Relaunch
  <2>3. CASE UNCHANGED <<state, backend, sshPort, begun, boot>>
    BY <1>2, <2>1, <2>3, FrameSafe DEF Reap
  <2>4. QED
    BY <1>2, <2>2, <2>3 DEF Reap
<1>3. CASE DropDeadSession(c)
  <2>1. NoNewQemu
    BY <1>3 DEF DropDeadSession, NoNewQemu
  <2>2. QED
    BY <1>3, <2>1, BeginBootSafe DEF DropDeadSession, Relaunch
<1>4. QED
  BY <1>1, <1>2, <1>3 DEF CallStep

LEMMA StopperStepSafe ==
  ASSUME SafetyInv, NEW s \in Stoppers,
         Stop(s) \/ Restart(s) \/ ReaperFires(s) \/ StopStep(s)
  PROVE  Safe'
<1>0. TypeOK
  BY DEF SafetyInv
<1>1. CASE Stop(s) \/ Restart(s) \/ ReaperStops(s)
  <2>1. PICK restart : BeginStop(s, restart)
    BY <1>1 DEF Stop, Restart, ReaperStops
  <2>2. QED
    BY <2>1, FrameSafe DEF BeginStop, NoNewQemu
<1>2. CASE ReaperFires(s) \/ MuxClosed(s) \/ Teardown(s)
  BY <1>2, FrameSafe DEF ReaperFires, MuxClosed, Teardown, serviceVars, NoNewQemu
<1>3. CASE Powerdown(s)
  <2>1. NoNewQemu
    BY <1>0, <1>3, LadderStopsQemu, LadderThrowsQemu DEF Powerdown
  <2>2. QED
    BY <1>3, <2>1, FrameSafe DEF Powerdown, serviceVars
<1>4. CASE RestartStarts(s)
  <2>1. NoNewQemu /\ UNCHANGED <<epoch, backend>>
    BY <1>4 DEF RestartStarts, NoNewQemu
  <2>2. CASE ArmAndBoot
    BY <2>1, <2>2, BeginBootSafe DEF ArmAndBoot
  <2>3. CASE UNCHANGED <<state, sshPort, starts, relaunchUsed, begun, boot>>
    BY <2>1, <2>3, FrameSafe
  <2>4. QED
    BY <1>4, <2>2, <2>3 DEF RestartStarts
<1>5. QED
  BY <1>1, <1>2, <1>3, <1>4 DEF StopStep

LEMMA SafetyStep == ASSUME SafetyInv, [Next]_vars PROVE SafetyInv'
<1>0. TypeOK /\ TypeOK'
  BY TypeStep DEF SafetyInv
<1>1. CASE Start
  <2>1. BeginBoot /\ NoNewQemu
    BY <1>1 DEF Start, ArmAndBoot, NoNewQemu
  <2>2. Safe'
    BY <1>1, <2>1, BeginBootSafe DEF Start
  <2>3. QED
    BY <1>0, <2>2 DEF SafetyInv, Safe
<1>2. ASSUME NEW b \in Boot, QemuDies(b) PROVE SafetyInv'
  <2>1. NoNewQemu
    BY <1>0, <1>2 DEF QemuDies, Exits, TypeOK, NoNewQemu
  <2>2. Safe'
    BY <1>2, <2>1, FrameSafe DEF QemuDies, serviceVars
  <2>3. QED
    BY <1>0, <2>2 DEF SafetyInv, Safe
<1>3. CASE UNCHANGED vars
  BY <1>0, <1>3, FrameSafe DEF vars, SafetyInv, Safe, NoNewQemu
<1>4. QED
  BY <1>0, <1>1, <1>2, <1>3, BootStepSafe, CallerStepSafe, StopperStepSafe
  DEF Next, SafetyInv, Safe

LEMMA SafetyInit == ASSUME Init PROVE SafetyInv
<1>1. NumberedInOrder /\ QemuBelongsToBoot /\ NeverResurrected
  BY DEF Init, NumberedInOrder, QemuBelongsToBoot, NeverResurrected
<1>2. QED
  BY <1>1, TypeInit DEF SafetyInv

THEOREM SafetyInvariant == Spec => []SafetyInv
<1>1. QED
  BY SafetyInit, SafetyStep, PTL DEF Spec

(* Whatever overlaps, the backend handed to tool calls was published by a   *)
(* boot that began after the latest stop().                                 *)
THEOREM TornDownStaysDown == Spec => []NeverResurrected
<1>1. SafetyInv => NeverResurrected
  BY DEF SafetyInv
<1>2. QED
  BY <1>1, SafetyInvariant, PTL

(* Whatever overlaps, a boot that ended without being published, abandoned  *)
(* or failed, has left no QEMU running that could still be stopped.         *)
THEOREM EndedBootsLeaveNoQemu == Spec => []NoQemuOutlivesItsBoot
<1>1. SafetyInv => NoQemuOutlivesItsBoot
  BY DEF SafetyInv, QemuBelongsToBoot, RunsQemu, NoQemuOutlivesItsBoot
<1>2. QED
  BY <1>1, SafetyInvariant, PTL
-----------------------------------------------------------------------------
(* The relaunch is one-shot *)

LEMMA PendingFinite ==
  ASSUME TypeOK
  PROVE  IsFiniteSet(Pending) /\ Cardinality(Pending) \in Nat
<1>1. IsFiniteSet(Pending)
  BY ConstantsAssumption, FS_Subset DEF Pending
<1>2. QED
  BY <1>1, FS_CardinalityType

(* A boot, a stop and a death touch nothing the allowance is counted in.    *)
counters == <<starts, begun, relaunchUsed, call>>

LEMMA CountersKept ==
  ASSUME AllowanceInv, UNCHANGED counters, TypeOK',
         NothingBegun => state' \in {"off", "stopped"} /\ UNCHANGED boot
  PROVE  AllowanceInv'
<1>1. Pending' = Pending /\ Unspent' = Unspent
  BY DEF counters, Pending, Unspent
<1>2. starts' = 0 => NothingBegun'
  BY DEF AllowanceInv, counters, NothingBegun
<1>3. QED
  BY <1>1, <1>2 DEF AllowanceInv, counters

(* start() re-arms the relaunch.                                            *)
LEMMA ArmAndBootAllowance ==
  ASSUME AllowanceInv, ArmAndBoot, UNCHANGED call, TypeOK'
  PROVE  AllowanceInv'
<1>0. /\ starts \in Nat /\ begun \in Nat
      /\ starts' = starts + 1 /\ begun' = begun + 1
      /\ Pending' = Pending /\ Unspent' = 1 /\ Unspent \in {0, 1}
  BY DEF AllowanceInv, TypeOK, ArmAndBoot, BeginBoot, Pending, Unspent
<1>1. Cardinality(Pending) \in Nat
  BY PendingFinite DEF AllowanceInv
<1>2. begun + Cardinality(Pending) <= 2 * starts
  <2>1. CASE starts = 0
    <3>1. begun = 0 /\ Pending = {}
      BY <2>1 DEF AllowanceInv, NothingBegun, Pending
    <3>2. QED
      BY <2>1, <3>1, FS_EmptySet
  <2>2. CASE starts > 0
    BY <1>0, <1>1, <2>2 DEF AllowanceInv
  <2>3. QED
    BY <1>0, <2>1, <2>2
<1>3. begun' + Cardinality(Pending') + Unspent' <= 2 * starts'
  <2>1. Cardinality(Pending') = Cardinality(Pending)
    BY <1>0
  <2>2. QED
    BY <1>0, <1>1, <1>2, <2>1
<1>4. QED
  BY <1>0, <1>3 DEF AllowanceInv

(* onDeathDetected() tests and spends the allowance in one step.            *)
LEMMA ClaimAllowance ==
  ASSUME AllowanceInv, NEW c \in Callers, ClaimRelaunch(c), TypeOK'
  PROVE  AllowanceInv'
<1>0. /\ starts \in Nat /\ begun \in Nat /\ UNCHANGED <<starts, begun>>
      /\ Unspent = 1 /\ Unspent' = 0
  BY DEF AllowanceInv, TypeOK, ClaimRelaunch, RelaunchAllowed, serviceVars, Unspent
<1>1. starts > 0
  BY <1>0 DEF AllowanceInv, NothingBegun, ClaimRelaunch
<1>2. c \notin Pending /\ Pending' = Pending \cup {c}
  BY DEF AllowanceInv, TypeOK, ClaimRelaunch, Pending
<1>3. Cardinality(Pending') = Cardinality(Pending) + 1
  BY <1>2, PendingFinite, FS_AddElement DEF AllowanceInv
<1>4. begun + Cardinality(Pending) + 1 <= 2 * starts
  BY <1>0, <1>1 DEF AllowanceInv
<1>5. Cardinality(Pending) \in Nat
  BY PendingFinite DEF AllowanceInv
<1>6. begun' + Cardinality(Pending') + Unspent' <= 2 * starts'
  BY <1>0, <1>3, <1>4, <1>5
<1>7. QED
  BY <1>0, <1>1, <1>6 DEF AllowanceInv

(* The boot of a claimed relaunch begins.                                   *)
LEMMA RelaunchAllowance ==
  ASSUME AllowanceInv, NEW c \in Callers, call[c].pc \in {"reap", "rm"},
         Relaunch(c), UNCHANGED <<starts, relaunchUsed>>, TypeOK'
  PROVE  AllowanceInv'
<1>0. /\ starts \in Nat /\ begun \in Nat
      /\ begun' = begun + 1 /\ starts' = starts
      /\ Unspent' = Unspent /\ Unspent \in {0, 1}
  BY DEF AllowanceInv, TypeOK, Relaunch, BeginBoot, Unspent
<1>1. starts > 0
  BY <1>0 DEF AllowanceInv, NothingBegun
<1>2. c \in Pending /\ Pending' = Pending \ {c}
  BY DEF AllowanceInv, TypeOK, Relaunch, IdleCall, Pending
<1>3. Cardinality(Pending') = Cardinality(Pending) - 1
  BY <1>2, PendingFinite, FS_RemoveElement DEF AllowanceInv
<1>4. begun + Cardinality(Pending) + Unspent <= 2 * starts
  BY <1>1 DEF AllowanceInv
<1>5. Cardinality(Pending) \in Nat
  BY PendingFinite DEF AllowanceInv
<1>6. begun' + Cardinality(Pending') + Unspent' <= 2 * starts'
  BY <1>0, <1>3, <1>4, <1>5
<1>7. QED
  BY <1>0, <1>1, <1>6 DEF AllowanceInv

LEMMA CallerStepAllowance ==
  ASSUME AllowanceInv, TypeOK', NEW c \in Callers,
         ToolCall(c) \/ DetectDeath(c) \/ CallStep(c)
  PROVE  AllowanceInv'
<1>0. /\ \A d \in Callers : call[d] \in [pc : CallPc, handle : Boot \cup {None}, dir : Dir \cup {None}]
      /\ call \in [Callers -> [pc : CallPc, handle : Boot \cup {None}, dir : Dir \cup {None}]]
      /\ starts \in Nat
  BY DEF AllowanceInv, TypeOK
<1>1. CASE ToolCall(c)
  BY <1>1, CountersKept DEF ToolCall, counters, serviceVars, NothingBegun
<1>2. ASSUME call' = [call EXCEPT ![c].pc = "corpse"] \/ call' = [call EXCEPT ![c] = IdleCall],
             call[c].pc \in {"idle", "corpse"}
      PROVE  Pending' = Pending
  BY <1>0, <1>2 DEF Pending, IdleCall
<1>3. CASE DetectDeath(c)
  <2>1. Pending' = Pending /\ Unspent' = Unspent /\ UNCHANGED <<starts, begun>>
    BY <1>2, <1>3 DEF DetectDeath, serviceVars, Unspent
  <2>2. starts > 0
    BY <1>0, <1>3 DEF AllowanceInv, NothingBegun, DetectDeath
  <2>3. QED
    BY <2>1, <2>2 DEF AllowanceInv
<1>4. CASE GiveUp(c)
  <2>1. Pending' = Pending /\ Unspent' = Unspent /\ UNCHANGED <<starts, begun>>
    BY <1>2, <1>4 DEF GiveUp, Unspent
  <2>2. starts > 0
    BY <1>0, <1>4 DEF AllowanceInv, NothingBegun, GiveUp
  <2>3. QED
    BY <2>1, <2>2 DEF AllowanceInv
<1>5. CASE ClaimRelaunch(c)
  BY <1>5, ClaimAllowance
<1>6. CASE Reap(c)
  <2>1. CASE Relaunch(c)
    BY <1>6, <2>1, RelaunchAllowance DEF Reap
  <2>2. CASE /\ call' = [call EXCEPT ![c].pc = "rm", ![c].dir = session]
             /\ UNCHANGED <<state, backend, sshPort, begun, boot>>
    <3>1. Pending' = Pending
      BY <1>0, <1>6, <2>2 DEF Reap, Pending
    <3>2. Unspent' = Unspent /\ UNCHANGED <<starts, begun>>
      BY <1>6, <2>2 DEF Reap, Unspent
    <3>3. starts > 0
      BY <1>0, <1>6 DEF AllowanceInv, NothingBegun, Reap
    <3>4. QED
      BY <3>1, <3>2, <3>3 DEF AllowanceInv
  <2>3. QED
    BY <1>6, <2>1, <2>2 DEF Reap
<1>7. CASE DropDeadSession(c)
  BY <1>7, RelaunchAllowance DEF DropDeadSession
<1>8. QED
  BY <1>1, <1>3, <1>4, <1>5, <1>6, <1>7 DEF CallStep

LEMMA StopperStepAllowance ==
  ASSUME AllowanceInv, TypeOK', NEW s \in Stoppers,
         Stop(s) \/ Restart(s) \/ ReaperFires(s) \/ StopStep(s)
  PROVE  AllowanceInv'
<1>1. CASE Stop(s) \/ Restart(s) \/ ReaperStops(s)
  <2>1. PICK restart : BeginStop(s, restart)
    BY <1>1 DEF Stop, Restart, ReaperStops
  <2>2. UNCHANGED <<counters, boot>> /\ state' \in {state, "stopped"}
    BY <2>1 DEF BeginStop, StopContinues, counters
  <2>3. QED
    BY <2>2, CountersKept DEF NothingBegun
<1>2. CASE ReaperFires(s) \/ Powerdown(s)
  BY <1>2, CountersKept DEF ReaperFires, Powerdown, serviceVars, counters, NothingBegun
<1>3. CASE MuxClosed(s)
  <2>1. UNCHANGED <<counters, boot>> /\ state' \in {state, "stopped"}
    BY <1>3 DEF MuxClosed, StopContinues, counters
  <2>2. QED
    BY <2>1, CountersKept DEF NothingBegun
<1>4. CASE Teardown(s)
  BY <1>4, CountersKept DEF Teardown, counters, NothingBegun
<1>5. CASE RestartStarts(s)
  <2>1. CASE ArmAndBoot
    BY <1>5, <2>1, ArmAndBootAllowance DEF RestartStarts
  <2>2. CASE UNCHANGED <<state, sshPort, starts, relaunchUsed, begun, boot>>
    BY <1>5, <2>2, CountersKept DEF RestartStarts, counters, NothingBegun
  <2>3. QED
    BY <1>5, <2>1, <2>2 DEF RestartStarts
<1>6. QED
  BY <1>1, <1>2, <1>3, <1>4, <1>5 DEF StopStep

LEMMA AllowanceStep == ASSUME AllowanceInv, [Next]_vars PROVE AllowanceInv'
<1>0. TypeOK'
  BY TypeStep DEF AllowanceInv
<1>1. CASE Start
  BY <1>0, <1>1, ArmAndBootAllowance DEF Start
<1>2. ASSUME NEW b \in Boot, BootStep(b) PROVE AllowanceInv'
  <2>1. UNCHANGED counters
    BY <1>2 DEF BootStep, Sweep, Prepare, Spawn, SpawnDone, SshConfirm, Extras,
       Abandon, FailPower, FailSettle, serviceVars, counters
  <2>2. boot[b].pc # "unborn"
    BY <1>2 DEF BootStep, Sweep, Prepare, Spawn, SpawnDone, SshConfirm, Extras,
       Abandon, FailPower, FailSettle, At
  <2>3. QED
    BY <1>0, <2>1, <2>2, CountersKept DEF NothingBegun
<1>3. ASSUME NEW b \in Boot, QemuDies(b) PROVE AllowanceInv'
  BY <1>0, <1>3, CountersKept DEF QemuDies, serviceVars, counters, NothingBegun
<1>4. CASE UNCHANGED vars
  BY <1>0, <1>4, CountersKept DEF vars, counters, NothingBegun
<1>5. QED
  BY <1>0, <1>1, <1>2, <1>3, <1>4, CallerStepAllowance, StopperStepAllowance DEF Next

LEMMA AllowanceInit == ASSUME Init PROVE AllowanceInv
<1>1. NothingBegun /\ starts = 0
  BY DEF Init, NothingBegun, IdleCall
<1>2. QED
  BY <1>1, TypeInit DEF AllowanceInv

(* Over any history of deaths, stops and concurrent tool calls, each start  *)
(* pays for at most two boots: its own and one relaunch.                    *)
THEOREM RelaunchIsOneShot == Spec => []OneShotRelaunch
<1>1. ASSUME AllowanceInv PROVE OneShotRelaunch
  <2>1. /\ starts \in Nat /\ begun \in Nat /\ Unspent \in {0, 1}
        /\ Cardinality(Pending) \in Nat
    BY <1>1, PendingFinite DEF AllowanceInv, TypeOK, Unspent
  <2>2. CASE starts = 0
    BY <1>1, <2>2 DEF AllowanceInv, NothingBegun, OneShotRelaunch
  <2>3. CASE starts > 0
    BY <1>1, <2>1, <2>3 DEF AllowanceInv, OneShotRelaunch
  <2>4. QED
    BY <2>1, <2>2, <2>3
<1>2. QED
  BY <1>1, AllowanceInit, AllowanceStep, PTL DEF Spec

-----------------------------------------------------------------------------
(* The retained overlay *)

(* A handle is a QEMU that was spawned.                                     *)
Spawned(q) == qemu[q] # "none"
HandlesAreSpawned ==
  /\ \A b \in Boot : boot[b].pc \in RunsQemu => Spawned(b)
  /\ handle # None => Spawned(handle)
  /\ \A c \in Callers : call[c].handle # None => Spawned(call[c].handle)
  /\ \A s \in Stoppers : stopper[s].handle # None => Spawned(stopper[s].handle)

(* The overlay a retained guest has run on is whole, and the service knows  *)
(* the session that the sweep has to preserve for it.                       *)
OverlayIsKept ==
  /\ \A b \in Boot : boot[b].pc = "disk" => session # None
  /\ \A c \in Callers : call[c].pc = "rm" => ~Retain
  /\ Retain => \A b \in Boot : Spawned(b) => session # None /\ dir[0].files = "full"

RetainedInv == HandlesAreSpawned /\ OverlayIsKept

(* A ladder is given a QEMU that was spawned.                               *)
LEMMA LadderSpawned ==
  ASSUME TypeOK, NEW q, q \in Boot => Spawned(q), LadderStops(q) \/ LadderThrows(q) \/ Exits(q)
  PROVE  \A r \in Boot : Spawned(r)' <=> Spawned(r)
  BY DEF TypeOK, LadderStops, LadderThrows, Exits, Spawned, QemuState

(* Only startQemu() spawns, and nothing takes a spawn back.                 *)
BootSpawns(b) ==
  /\ \A q \in Boot : Spawned(q) => Spawned(q)'
  /\ \A q \in Boot : Spawned(q)' => Spawned(q) \/ Spawn(b)
  /\ \A q \in Boot \ {b} : boot'[q] = boot[q]
  /\ boot'[b].pc \in RunsQemu => Spawned(b)'
  /\ boot'[b].pc = "disk" => session' # None
  /\ handle' = handle \/ (handle' = b /\ Spawned(b)')
  /\ session' = session \/ session' # None

LEMMA BootStepSpawns ==
  ASSUME TypeOK, HandlesAreSpawned, NEW b \in Boot, BootStep(b)
  PROVE  BootSpawns(b)
<1>0. None \notin Dir
  BY ConstantsAssumption DEF Dir
<1>1. ASSUME NEW pc, Goto(b, pc)
      PROVE  boot'[b].pc = pc /\ \A q \in Boot \ {b} : boot'[q] = boot[q]
  BY <1>1 DEF TypeOK, Goto
<1>2. CASE Sweep(b) \/ Prepare(b)
  <2>1. \A q \in Boot : Spawned(q)' <=> Spawned(q)
    BY <1>2 DEF Sweep, SweepStaleSessions, Prepare, Spawned, TypeOK
  <2>2. \E pc : Goto(b, pc) /\ pc \notin RunsQemu /\ (pc = "disk" => session' = Sid(b))
    BY <1>2 DEF Sweep, Prepare, Prepared, Throw, ContinueUnlessAbandoned, CatchPc, RunsQemu
  <2>3. handle' = handle /\ (session' = session \/ session' = Sid(b))
    BY <1>2 DEF Sweep, Prepare, Prepared
  <2>4. QED
    BY <1>0, <1>1, <2>1, <2>2, <2>3, SidType DEF BootSpawns
<1>4. CASE Spawn(b)
  <2>1. CASE qemu' = [qemu EXCEPT ![b] = "alive"] /\ Goto(b, "spawn")
    <3>1. boot'[b].pc = "spawn" /\ \A q \in Boot \ {b} : boot'[q] = boot[q]
      BY <1>1, <2>1
    <3>2. UNCHANGED <<handle, session>>
      BY <1>4 DEF Spawn, serviceVars
    <3>3. Spawned(b)' /\ \A q \in Boot : Spawned(q) => Spawned(q)'
      BY <2>1 DEF TypeOK, Spawned
    <3>4. QED
      BY <1>4, <3>1, <3>2, <3>3 DEF BootSpawns
  <2>2. CASE Throw(b, FALSE, TRUE) /\ UNCHANGED <<qemu, pidfile>>
    <3>1. \E pc : Goto(b, pc) /\ pc \notin RunsQemu /\ pc # "disk"
      BY <2>2 DEF Throw, CatchPc, RunsQemu
    <3>2. QED
      BY <1>1, <1>4, <2>2, <3>1 DEF BootSpawns, Spawn, Spawned, serviceVars
  <2>3. QED
    BY <1>4, <2>1, <2>2 DEF Spawn
<1>5. CASE SpawnDone(b) \/ SshConfirm(b) \/ Extras(b) \/ Abandon(b) \/ FailPower(b)
  <2>1. Spawned(b)
    BY <1>5 DEF SpawnDone, SshConfirm, Extras, Abandon, FailPower, At, HandlesAreSpawned, RunsQemu
  <2>2. \A q \in Boot : Spawned(q)' <=> Spawned(q)
    <3>1. UNCHANGED qemu \/ LadderStops(b) \/ LadderThrows(b)
      BY <1>5 DEF SpawnDone, AbandonQemu, SshConfirm, Extras, Abandon, FailPower
    <3>2. QED
      BY <2>1, <3>1, LadderSpawned DEF Spawned
  <2>3. \E pc : Goto(b, pc) /\ pc # "disk"
    BY <1>5 DEF SpawnDone, SshConfirm, Extras, Publish, Abandon, FailPower, Throw, ContinueUnlessAbandoned, CatchPc
  <2>4. session' = session /\ (handle' = handle \/ handle' = b)
    BY <1>5 DEF SpawnDone, Adopt, SshConfirm, Extras, Abandon, FailPower, serviceVars
  <2>5. QED
    <3>1. PICK pc : Goto(b, pc) /\ pc # "disk"
      BY <2>3
    <3>2. boot'[b].pc # "disk" /\ \A q \in Boot \ {b} : boot'[q] = boot[q]
      BY <1>1, <3>1
    <3>3. QED
      BY <2>1, <2>2, <2>4, <3>2 DEF BootSpawns
<1>6. CASE FailSettle(b)
  <2>1. Goto(b, "done") /\ UNCHANGED <<qemu, handle, session>>
    BY <1>6 DEF FailSettle
  <2>2. QED
    BY <1>1, <2>1 DEF BootSpawns, RunsQemu, Spawned
<1>7. QED
  BY <1>2, <1>4, <1>5, <1>6 DEF BootStep

(* What a step does to the overlay of a retained guest.                     *)
OverlayStays ==
  Retain => \A b \in Boot :
    Spawned(b) /\ dir'[0] # dir[0] =>
      /\ dir'[0].files = "full" /\ ~Locked(0)
      /\ \E p \in Boot : At(p, "prepare") /\ dir'[0].by = p

LEMMA OverlayRests ==
  ASSUME OverlayIsKept, Retain => UNCHANGED dir, session' = session \/ session' # None,
         Retain => \A q \in Boot : Spawned(q)' => Spawned(q),
         \A q \in Boot : boot'[q].pc = "disk" => boot[q].pc = "disk" \/ session' # None,
         \A c \in Callers : call'[c].pc = "rm" => ~Retain
  PROVE  OverlayIsKept' /\ OverlayStays
  BY DEF OverlayIsKept, OverlayStays

LEMMA BootStepKeeps ==
  ASSUME TypeOK, HandlesAreSpawned, OverlayIsKept, NEW b \in Boot, BootStep(b)
  PROVE  HandlesAreSpawned' /\ OverlayIsKept' /\ OverlayStays
<1>a. TypeOK /\ 0 \in Dir
  BY ConstantsAssumption DEF Dir
<1>b. UNCHANGED <<call, stopper>>
  BY DEF BootStep, Sweep, Prepare, Spawn, SpawnDone, SshConfirm, Extras, Abandon, FailPower, FailSettle
<1>0. TypeOK /\ 0 \in Dir /\ BootSpawns(b) /\ UNCHANGED <<call, stopper>>
  BY <1>a, <1>b, BootStepSpawns
<1>1. HandlesAreSpawned'
  <2>1. \A q \in Boot : boot'[q].pc \in RunsQemu => Spawned(q)'
    BY <1>0 DEF HandlesAreSpawned, BootSpawns
  <2>2. handle' # None => Spawned(handle)'
    BY <1>0 DEF HandlesAreSpawned, BootSpawns, TypeOK
  <2>3. \A c \in Callers : call'[c].handle # None => Spawned(call[c].handle)'
    BY <1>0 DEF HandlesAreSpawned, BootSpawns, TypeOK
  <2>4. \A s \in Stoppers : stopper'[s].handle # None => Spawned(stopper[s].handle)'
    BY <1>0 DEF HandlesAreSpawned, BootSpawns, TypeOK
  <2>5. QED
    BY <1>0, <2>1, <2>2, <2>3, <2>4 DEF HandlesAreSpawned, Spawned
<1>2. Retain => Sid(b) = 0
  BY DEF Sid
<1>9. /\ \A q \in Boot : boot'[q].pc = "disk" => boot[q].pc = "disk" \/ session' # None
      /\ session' = session \/ session' # None
      /\ \A c \in Callers : call'[c].pc = "rm" => ~Retain
  BY <1>0 DEF BootSpawns, OverlayIsKept
<1>3. CASE Sweep(b)
  <2>1. \A q \in Boot : Spawned(q)' <=> Spawned(q)
    BY <1>0, <1>3 DEF Sweep, SweepStaleSessions, Spawned, TypeOK
  <2>2. ASSUME Retain, NEW q \in Boot, Spawned(q) PROVE dir'[0] = dir[0]
    BY <1>0, <1>3, <2>2 DEF Sweep, SweepStaleSessions, SweepPreserve, OverlayIsKept
  <2>3. OverlayStays
    BY <2>2 DEF OverlayStays
  <2>4. OverlayIsKept'
    BY <1>9, <2>1, <2>2 DEF OverlayIsKept
  <2> QED
    BY <1>1, <2>3, <2>4
<1>4. CASE Prepare(b)
  <2>1. \A q \in Boot : Spawned(q)' <=> Spawned(q)
    BY <1>4 DEF Prepare, Spawned
  <2>2. ASSUME Retain, NEW q \in Boot, Spawned(q)
        PROVE  /\ dir'[0].files = "full"
               /\ dir'[0] # dir[0] => ~Locked(0) /\ dir'[0].by = b
    <3>1. dir[0].files = "full"
      BY <2>2 DEF OverlayIsKept
    <3>2. dir' = dir \/ (~Locked(0) /\ dir' = [dir EXCEPT ![0] = [files |-> "full", by |-> b]])
      BY <1>2, <1>4, <2>2, <3>1 DEF Prepare
    <3> QED
      BY <1>0, <3>1, <3>2 DEF TypeOK
  <2>3. OverlayStays
    BY <1>4, <2>2 DEF OverlayStays, Prepare
  <2>4. OverlayIsKept'
    BY <1>9, <2>1, <2>2 DEF OverlayIsKept
  <2> QED
    BY <1>1, <2>3, <2>4
<1>5. CASE Spawn(b)
  <2>1. UNCHANGED <<dir, session>> /\ session # None
    BY <1>5 DEF Spawn, serviceVars, At, OverlayIsKept
  <2>2. Retain => dir[0].files = "full" \/ \A q \in Boot : Spawned(q)' => Spawned(q)
    BY <1>2, <1>5 DEF Spawn, Spawned
  <2> QED
    BY <1>1, <1>9, <2>1, <2>2 DEF OverlayIsKept, OverlayStays
<1>6. CASE ~Sweep(b) /\ ~Prepare(b) /\ ~Spawn(b)
  <2>1. \A q \in Boot : Spawned(q)' => Spawned(q)
    BY <1>0, <1>6 DEF BootSpawns
  <2>2. Retain => UNCHANGED dir
    BY <1>6 DEF BootStep, SpawnDone, SshConfirm, Extras, Abandon, FailPower, FailSettle, DiscardDir
  <2> QED
    BY <1>1, <1>9, <2>1, <2>2, OverlayRests
<1>7. QED
  BY <1>3, <1>4, <1>5, <1>6

(* Outside a boot, nothing is spawned and, with a retained guest, no        *)
(* directory is touched.                                                    *)
NothingSpawned ==
  /\ \A q \in Boot : Spawned(q)' <=> Spawned(q)
  /\ UNCHANGED <<session, handle>>
  /\ Retain => UNCHANGED dir
  /\ \A q \in Boot : boot'[q].pc \in RunsQemu \cup {"disk"} => boot'[q] = boot[q]

LEMMA RestKeeps ==
  ASSUME TypeOK, HandlesAreSpawned, OverlayIsKept, NothingSpawned,
         \A c \in Callers : call'[c].handle \in {None, handle, call[c].handle},
         \A s \in Stoppers : stopper'[s].handle \in {None, handle, stopper[s].handle},
         \A c \in Callers : call'[c].pc = "rm" => ~Retain
  PROVE  HandlesAreSpawned' /\ OverlayIsKept' /\ OverlayStays
<1>1. \A h \in Boot : Spawned(h) => Spawned(h)'
  BY DEF NothingSpawned
<1>2. handle' # None => Spawned(handle)'
  BY <1>1 DEF TypeOK, HandlesAreSpawned, NothingSpawned, Spawned
<1>3. \A c \in Callers : call'[c].handle # None => Spawned(call[c].handle)'
  BY <1>1 DEF TypeOK, HandlesAreSpawned, Spawned
<1>4. \A s \in Stoppers : stopper'[s].handle # None => Spawned(stopper[s].handle)'
  BY <1>1 DEF TypeOK, HandlesAreSpawned, Spawned
<1>5. HandlesAreSpawned'
  BY <1>1, <1>2, <1>3, <1>4 DEF HandlesAreSpawned, NothingSpawned, Spawned
<1>6. OverlayIsKept' /\ OverlayStays
  <2>1. \A q \in Boot : boot'[q].pc = "disk" => boot[q].pc = "disk"
    BY DEF NothingSpawned
  <2> QED
    BY <2>1, OverlayRests DEF NothingSpawned
<1>7. QED
  BY <1>5, <1>6

LEMMA BeginSpawnsNothing ==
  ASSUME TypeOK, BeginBoot
  PROVE  \A q \in Boot : boot'[q].pc \in RunsQemu \cup {"disk"} => boot'[q] = boot[q]
  BY DEF TypeOK, BeginBoot, RunsQemu

LEMMA CallerStepKeeps ==
  ASSUME TypeOK, HandlesAreSpawned, OverlayIsKept, NEW c \in Callers,
         ToolCall(c) \/ DetectDeath(c) \/ CallStep(c)
  PROVE  HandlesAreSpawned' /\ OverlayIsKept' /\ OverlayStays
<1>0. TypeOK /\ None \notin Boot
  BY ConstantsAssumption DEF Boot
<1>b. /\ stopper' = stopper /\ \A e \in Callers \ {c} : call'[e] = call[e]
      /\ call'[c].handle \in {None, handle, call[c].handle}
      /\ call'[c].pc \in {"idle", "corpse", "reap"} \/ ~Retain \/ call' = call
  <2>0. call \in [Callers -> [pc : CallPc, handle : Boot \cup {None}, dir : Dir \cup {None}]]
    BY <1>0 DEF TypeOK
  <2>1. CASE ToolCall(c)
    BY <2>1 DEF ToolCall
  <2>2. CASE DetectDeath(c)
    <3>1. stopper' = stopper /\ call' = [call EXCEPT ![c].pc = "corpse"]
      BY <2>2 DEF DetectDeath
    <3> QED
      BY ONLY <2>0, <3>1, c \in Callers
  <2>3. CASE ClaimRelaunch(c)
    <3>1. stopper' = stopper /\ call' = [call EXCEPT ![c].pc = "reap", ![c].handle = handle]
      BY <2>3 DEF ClaimRelaunch, HandleToReap
    <3> QED
      BY ONLY <2>0, <3>1, c \in Callers
  <2>4. CASE Reap(c) /\ ~Retain
    <3>1. /\ stopper' = stopper
          /\ \/ call' = [call EXCEPT ![c] = IdleCall]
             \/ call' = [call EXCEPT ![c].pc = "rm", ![c].dir = session]
      BY <2>4 DEF Reap, Relaunch
    <3> QED
      BY ONLY <2>0, <2>4, <3>1, c \in Callers DEF IdleCall
  <2>5. CASE GiveUp(c) \/ DropDeadSession(c) \/ (Reap(c) /\ Retain)
    <3>1. stopper' = stopper /\ call' = [call EXCEPT ![c] = IdleCall]
      BY <2>5 DEF GiveUp, DropDeadSession, Reap, Relaunch
    <3> QED
      BY ONLY <2>0, <3>1, c \in Callers DEF IdleCall
  <2> QED
    BY <2>1, <2>2, <2>3, <2>4, <2>5 DEF CallStep
<1>1. stopper' = stopper /\ \A e \in Callers : call'[e].handle \in {None, handle, call[e].handle}
  BY <1>b
<1>a. \A e \in Callers : call'[e].pc = "rm" => ~Retain
  BY <1>b DEF OverlayIsKept
<1>2. CASE ToolCall(c) \/ DetectDeath(c) \/ GiveUp(c) \/ ClaimRelaunch(c)
  <2>1. NothingSpawned
    BY <1>2 DEF ToolCall, DetectDeath, GiveUp, ClaimRelaunch, serviceVars, NothingSpawned, Spawned
  <2>2. QED
    BY <1>0, <1>1, <1>a, <2>1, RestKeeps
<1>3. CASE Reap(c)
  <2>1. \A q \in Boot : Spawned(q)' <=> Spawned(q)
    BY <1>0, <1>3, LadderSpawned DEF Reap, HandlesAreSpawned
  <2>2. \A q \in Boot : boot'[q].pc \in RunsQemu \cup {"disk"} => boot'[q] = boot[q]
    BY <1>0, <1>3, BeginSpawnsNothing DEF Reap, Relaunch
  <2>3. NothingSpawned
    BY <1>3, <2>1, <2>2 DEF Reap, NothingSpawned
  <2>4. QED
    BY <1>0, <1>1, <1>a, <2>3, RestKeeps
<1>4. CASE DropDeadSession(c)
  <2>1. ~Retain
    BY <1>4 DEF DropDeadSession, OverlayIsKept
  <2>2. \A q \in Boot : boot'[q].pc \in RunsQemu \cup {"disk"} => boot'[q] = boot[q]
    BY <1>0, <1>4, BeginSpawnsNothing DEF DropDeadSession, Relaunch
  <2>3. NothingSpawned
    BY <1>4, <2>1, <2>2 DEF DropDeadSession, NothingSpawned, Spawned
  <2>4. QED
    BY <1>0, <1>1, <1>a, <2>3, RestKeeps
<1>5. QED
  BY <1>2, <1>3, <1>4 DEF CallStep

LEMMA StopContinuesHandles ==
  ASSUME TypeOK, NEW s \in Stoppers, NEW h, NEW d, NEW restart, StopContinues(s, h, d, restart)
  PROVE  \A t \in Stoppers : stopper'[t].handle \in {None, h, stopper[t].handle}
<1>1. CASE h = None \/ d = None
  BY <1>1 DEF StopContinues, IdleStop, TypeOK
<1>2. CASE ~(h = None \/ d = None)
  BY <1>2 DEF StopContinues, TypeOK
<1>3. QED
  BY <1>1, <1>2

LEMMA StopperStepKeeps ==
  ASSUME TypeOK, HandlesAreSpawned, OverlayIsKept, NEW s \in Stoppers,
         Stop(s) \/ Restart(s) \/ ReaperFires(s) \/ StopStep(s)
  PROVE  HandlesAreSpawned' /\ OverlayIsKept' /\ OverlayStays
<1>0. TypeOK /\ None \notin Boot
  BY ConstantsAssumption DEF Boot
<1>a. call' = call => \A c \in Callers : call'[c].pc = "rm" => ~Retain
  BY DEF OverlayIsKept
<1>1. CASE Stop(s) \/ Restart(s) \/ ReaperStops(s)
  <2>1. PICK restart : BeginStop(s, restart)
    BY <1>1 DEF Stop, Restart, ReaperStops
  <2>2. NothingSpawned /\ call' = call
    BY <2>1 DEF BeginStop, NothingSpawned, Spawned
  <2>3. \A t \in Stoppers : stopper'[t].handle \in {None, handle, stopper[t].handle}
    <3>1. CASE backend = None
      BY <1>0, <2>1, <3>1, StopContinuesHandles DEF BeginStop
    <3>2. CASE backend # None
      BY <1>0, <2>1, <3>2 DEF BeginStop, TypeOK
    <3>3. QED
      BY <3>1, <3>2
  <2>4. QED
    BY <1>0, <1>a, <2>2, <2>3, RestKeeps
<1>2. CASE ReaperFires(s) \/ MuxClosed(s) \/ Teardown(s)
  <2>1. NothingSpawned /\ call' = call
    BY <1>2 DEF ReaperFires, MuxClosed, Teardown, DiscardDir, serviceVars, NothingSpawned, Spawned
  <2>2. \A t \in Stoppers : stopper'[t].handle \in {None, handle, stopper[t].handle}
    <3>1. CASE ReaperFires(s)
      <4>1. stopper' = stopper \/ stopper' = [stopper EXCEPT ![s].pc = "capture"]
        BY <3>1 DEF ReaperFires
      <4>2. QED
        BY <1>0, <4>1 DEF TypeOK
    <3>2. CASE Teardown(s)
      BY <1>0, <3>2 DEF Teardown, StopSettles, IdleStop, TypeOK
    <3>3. CASE MuxClosed(s)
      <4>1. StopContinues(s, stopper[s].handle, stopper[s].dir, stopper[s].restart)
        BY <3>3 DEF MuxClosed
      <4>2. \A t \in Stoppers : stopper'[t].handle \in {None, stopper[s].handle, stopper[t].handle}
        BY <1>0, <4>1, StopContinuesHandles
      <4>3. \A t \in Stoppers \ {s} : stopper'[t] = stopper[t]
        BY <1>0, <4>1 DEF StopContinues, TypeOK
      <4>4. QED
        BY <4>2, <4>3
    <3>4. QED
      BY <1>2, <3>1, <3>2, <3>3
  <2>3. QED
    BY <1>0, <1>a, <2>1, <2>2, RestKeeps
<1>3. CASE Powerdown(s)
  <2>1. \A q \in Boot : Spawned(q)' <=> Spawned(q)
    BY <1>0, <1>3, LadderSpawned DEF Powerdown, HandlesAreSpawned
  <2>2. NothingSpawned /\ call' = call
    BY <1>3, <2>1 DEF Powerdown, serviceVars, NothingSpawned
  <2>3. \A t \in Stoppers : stopper'[t].handle \in {None, handle, stopper[t].handle}
    BY <1>0, <1>3 DEF Powerdown, StopSettles, IdleStop, TypeOK
  <2>4. QED
    BY <1>0, <1>a, <2>2, <2>3, RestKeeps
<1>4. CASE RestartStarts(s)
  <2>1. \A q \in Boot : boot'[q].pc \in RunsQemu \cup {"disk"} => boot'[q] = boot[q]
    BY <1>0, <1>4, BeginSpawnsNothing DEF RestartStarts, ArmAndBoot
  <2>2. NothingSpawned /\ call' = call
    BY <1>4, <2>1 DEF RestartStarts, NothingSpawned, Spawned
  <2>3. \A t \in Stoppers : stopper'[t].handle \in {None, handle, stopper[t].handle}
    BY <1>0, <1>4 DEF RestartStarts, IdleStop, TypeOK
  <2>4. QED
    BY <1>0, <1>a, <2>2, <2>3, RestKeeps
<1>5. QED
  BY <1>1, <1>2, <1>3, <1>4 DEF StopStep

LEMMA RetainedStep ==
  ASSUME TypeOK, RetainedInv, [Next]_vars
  PROVE  RetainedInv' /\ OverlayStays
<1>0. TypeOK /\ None \notin Boot /\ HandlesAreSpawned /\ OverlayIsKept
  BY ConstantsAssumption DEF Boot, RetainedInv
<1>a. UNCHANGED call => \A c \in Callers : call'[c].pc = "rm" => ~Retain
  BY <1>0 DEF OverlayIsKept
<1>1. ASSUME Start PROVE HandlesAreSpawned' /\ OverlayIsKept' /\ OverlayStays
  <2>1. \A q \in Boot : boot'[q].pc \in RunsQemu \cup {"disk"} => boot'[q] = boot[q]
    BY <1>0, <1>1, BeginSpawnsNothing DEF Start, ArmAndBoot
  <2>2. NothingSpawned /\ UNCHANGED <<call, stopper>>
    BY <1>1, <2>1 DEF Start, NothingSpawned, Spawned
  <2>3. QED
    BY <1>0, <1>a, <2>2, RestKeeps
<1>2. ASSUME NEW b \in Boot, QemuDies(b) PROVE HandlesAreSpawned' /\ OverlayIsKept' /\ OverlayStays
  <2>1. \A q \in Boot : Spawned(q)' <=> Spawned(q)
    BY <1>0, <1>2, LadderSpawned DEF QemuDies, Spawned
  <2>2. NothingSpawned /\ UNCHANGED <<call, stopper>>
    BY <1>2, <2>1 DEF QemuDies, serviceVars, NothingSpawned
  <2>3. QED
    BY <1>0, <1>a, <2>2, RestKeeps
<1>3. ASSUME UNCHANGED vars PROVE HandlesAreSpawned' /\ OverlayIsKept' /\ OverlayStays
  <2>1. NothingSpawned /\ UNCHANGED <<call, stopper>>
    BY <1>3 DEF vars, NothingSpawned, Spawned
  <2>2. QED
    BY <1>0, <1>a, <2>1, RestKeeps
<1>4. QED
  BY <1>0, <1>1, <1>2, <1>3, BootStepKeeps, CallerStepKeeps, StopperStepKeeps DEF Next, RetainedInv

(* However starts, stops, deaths, relaunches and failures overlap, a        *)
(* retained guest's overlay is never removed, never touched under a guest,  *)
(* and made anew only by a boot that was overtaken while it awaited its     *)
(* qemu-img create (vm/service.ts, vm/session.ts).                          *)
THEOREM RetainedOverlayIsKept == Spec => RetainedOverlaySurvives
<1>1. ASSUME Init PROVE RetainedInv
  <2>1. HandlesAreSpawned
    BY <1>1 DEF Init, HandlesAreSpawned, RunsQemu, IdleCall, IdleStop
  <2>2. OverlayIsKept
    BY <1>1 DEF Init, OverlayIsKept, Spawned, IdleCall
  <2>3. QED
    BY <2>1, <2>2 DEF RetainedInv
<1>2. ASSUME OverlayStays
      PROVE  Retain => \A b \in Boot :
               qemu[b] # "none" /\ dir'[Sid(b)] # dir[Sid(b)] =>
                 /\ dir'[Sid(b)].files = "full" /\ ~Locked(Sid(b))
                 /\ \E p \in Boot : At(p, "prepare") /\ dir'[Sid(b)].by = p
  BY <1>2 DEF OverlayStays, Spawned, Sid
<1>3. QED
  BY <1>1, <1>2, TypeInit, TypeStep, RetainedStep, PTL DEF Spec, RetainedOverlaySurvives

=============================================================================
