------------------------------ MODULE VmService ------------------------------
(***************************************************************************)
(* The VM session service, src/src/vm/service.ts: one VmService object     *)
(* whose asynchronous methods interleave at their awaits.  An activation   *)
(* of a method is a small record with a pc; a step of the model is the     *)
(* code between two awaits.  QEMU processes are numbered by the boot that  *)
(* spawned them, so "handle = 2" is the QemuHandle of boot 2.              *)
(*                                                                         *)
(* Left out: the reporting fields (phase, bootStartedAt, readyAt,          *)
(* lastError), logging, debug captures, disk-cap warnings, and the         *)
(* arguments of the QEMU command line.                                     *)
(***************************************************************************)
EXTENDS Naturals, FiniteSets

CONSTANTS
  Callers,      \* concurrent tool calls, each an ensureReady() activation
  Stoppers,     \* concurrent stop() activations: operator commands, reaper
  MaxStarts,    \* bound: start() calls that begin a boot
  MaxStops,     \* bound: stop() calls issued
  Retain,       \* persistPolicy() = "retain" (else "discard")
  Pinned,       \* config.sessionId is set (MCP_VM_SESSION_ID)
  IdleReaper,   \* config.idleTimeoutMs > 0
  Overlap,      \* commands and calls may overlap work still in flight
  Faults,       \* host faults that may happen: subset of {"ladder", "disk"}
  None

(* Every start buys at most one relaunch, so 2 * MaxStarts boots suffice;  *)
(* OneShotRelaunch says that the code keeps to this number.                *)
Boot == 1 .. (2 * MaxStarts)
Dir  == 0 .. (2 * MaxStarts)

ASSUME ConstantsAssumption ==
  /\ MaxStarts \in Nat /\ MaxStops \in Nat
  /\ IsFiniteSet(Callers) /\ IsFiniteSet(Stoppers)
  /\ {Retain, Pinned, IdleReaper, Overlap} \subseteq BOOLEAN
  /\ Faults \subseteq {"ladder", "disk"}
  /\ None \notin Nat

VARIABLES
  state,        \* currentState
  epoch,        \* epoch: how often stop() was called
  session,      \* sessionId and paths, which are always assigned together
  handle,       \* handle: the boot whose QemuHandle the service holds
  backend,      \* backend: the boot whose VmBackend is handed to tool calls
  sshPort,      \* sshPort: the boot whose forwarded port is published
  relaunchUsed, \* relaunchUsed
  reaperTimer,  \* reaperTimer # null
  starts,       \* start() calls that began a boot
  begun,        \* runBoot() activations so far
  boot,         \* the runBoot() activations
  call,         \* the onDeathDetected() activations
  stopper,      \* the stop() activations
  qemu,         \* the QEMU process of each boot
  dir,          \* the session directories
  pidfile       \* qemu.pid in each session directory

serviceVars == <<state, epoch, session, handle, backend, sshPort>>
vars == <<state, epoch, session, handle, backend, sshPort, relaunchUsed,
          reaperTimer, starts, begun, boot, call, stopper, qemu, dir, pidfile>>

VmState == {"off", "booting", "ready", "stopped", "failed"}

(* "serving": published as ready; "done": ended without a verdict or failed; *)
(* "rejected": the promise of runBoot() rejected.                           *)
BootEnded == {"unborn", "serving", "done", "rejected"}
BootPc == BootEnded \cup {"sweep", "prepare", "disk", "spawn", "ssh", "extras",
                          "abandon", "failPower", "failDir", "verdict"}
CallPc == {"idle", "corpse", "reap", "rm"}
StopPc == {"idle", "capture", "closing", "powerdown", "teardown", "restart"}

QemuState == {"none", "alive", "wedged", "exited"}

(* What prepareSession() has left in a directory, and which boot created    *)
(* the overlay: "empty" has no overlay, "partial" an overlay without VARS.  *)
DirFiles == {"absent", "empty", "partial", "full"}
AbsentDir == [files |-> "absent", by |-> None]

IdleCall == [pc |-> "idle", handle |-> None, dir |-> None]
IdleStop == [pc |-> "idle", handle |-> None, dir |-> None, restart |-> FALSE]

Init ==
  /\ state = "off" /\ epoch = 0 /\ session = None /\ handle = None
  /\ backend = None /\ sshPort = None
  /\ relaunchUsed = FALSE /\ reaperTimer = FALSE
  /\ starts = 0 /\ begun = 0
  /\ boot = [b \in Boot |-> [pc |-> "unborn", epoch |-> 0]]
  /\ call = [c \in Callers |-> IdleCall]
  /\ stopper = [s \in Stoppers |-> IdleStop]
  /\ qemu = [b \in Boot |-> "none"]
  /\ dir = [d \in Dir |-> AbsentDir]
  /\ pidfile = [d \in Dir |-> None]

-----------------------------------------------------------------------------
(* Helpers *)

(* resolveSessionId(): retain keeps one id for the service's life, discard  *)
(* mints one per boot unless the id is pinned.                              *)
Sid(b) == IF Retain \/ Pinned THEN 0 ELSE b

InFlight(b) == boot[b].pc \notin BootEnded
Stale(b) == boot[b].epoch # epoch

Quiet == /\ \A s \in Stoppers : stopper[s].pc = "idle"
         /\ \A c \in Callers : call[c].pc = "idle"
BootsQuiet == \A b \in Boot : ~InFlight(b)

At(b, pc) == boot[b].pc = pc
Goto(b, pc) == boot' = [boot EXCEPT ![b].pc = pc]

(* The pc a boot continues at when its body throws: an abandoned boot only  *)
(* stops its own QEMU, any other tears down what it had reached.            *)
CatchPc(b, hasHandle, hasPaths) ==
  IF Stale(b)
  THEN IF hasHandle THEN "abandon" ELSE "done"
  ELSE IF hasHandle THEN "failPower" ELSE IF hasPaths THEN "failDir" ELSE "verdict"

Throw(b, hasHandle, hasPaths) == Goto(b, CatchPc(b, hasHandle, hasPaths))

(* throwIfAbandoned(epoch), then on to pc. *)
ContinueUnlessAbandoned(b, hasHandle, pc) ==
  Goto(b, IF Stale(b) THEN CatchPc(b, hasHandle, TRUE) ELSE pc)

(* QEMU q is gone afterwards.  QEMU removes its pidfile on a clean exit     *)
(* and leaves it behind when it is killed.                                  *)
Exits(q) ==
  /\ qemu' = [qemu EXCEPT ![q] = "exited"]
  /\ \/ UNCHANGED pidfile
     \/ /\ pidfile[Sid(q)] = q
        /\ pidfile' = [pidfile EXCEPT ![Sid(q)] = None]

(* Broken variants: a ladder that never forces the exit it waits for, and   *)
(* one that returns without the exit.                                       *)
LadderOnlyWaits(q) == qemu[q] = "exited" /\ UNCHANGED <<qemu, pidfile>>
LadderGivesUp(q) == UNCHANGED <<qemu, pidfile>>

(* stopQemu() and powerdownOrLadder() on q that end with the exit.          *)
LadderStops(q) == IF qemu[q] = "exited" THEN UNCHANGED <<qemu, pidfile>> ELSE Exits(q)

(* stopQemu() that throws: the process survived SIGKILL.                    *)
LadderThrows(q) ==
  /\ "ladder" \in Faults
  /\ qemu[q] \in {"alive", "wedged"}
  /\ qemu' = [qemu EXCEPT ![q] = "wedged"]
  /\ UNCHANGED pidfile

(* removeSessionDir(): a failed removal is logged and passed over.          *)
RemoveDir(d) ==
  \/ /\ dir' = [dir EXCEPT ![d] = AbsentDir]
     /\ pidfile' = [pidfile EXCEPT ![d] = None]
  \/ "disk" \in Faults /\ UNCHANGED <<dir, pidfile>>

(* The persist half of teardownSessionArtifacts(). *)
DiscardDir(d) == IF Retain THEN UNCHANGED <<dir, pidfile>> ELSE RemoveDir(d)

(* runBoot() up to its first await.  The caller has checked nothing about   *)
(* boots already in flight.                                                 *)
BeginBoot ==
  /\ begun' = begun + 1
  /\ boot' = [boot EXCEPT ![begun + 1] = [pc |-> "sweep", epoch |-> epoch]]
  /\ state' = "booting"
  /\ sshPort' = None

-----------------------------------------------------------------------------
(* start() *)

(* The work of start() from a state that is neither booting nor ready; in   *)
(* those two it changes nothing.                                            *)
ArmAndBoot ==
  /\ state \in {"off", "stopped", "failed"}
  /\ starts < MaxStarts
  /\ starts' = starts + 1
  /\ relaunchUsed' = FALSE
  /\ BeginBoot

Start ==
  /\ Overlap \/ (Quiet /\ BootsQuiet)
  /\ ArmAndBoot
  /\ UNCHANGED <<epoch, session, handle, backend, reaperTimer, call, stopper,
                 qemu, dir, pidfile>>

-----------------------------------------------------------------------------
(* runBoot() *)

(* The sweep kills every QEMU a pidfile names and removes its directory     *)
(* unless the directory is preserved.  Broken variant: nothing is preserved. *)
SweepPreserveForgotten == {}
SweepPreserve == IF Retain /\ (Pinned \/ session # None) THEN {0} ELSE {}
Swept == {d \in Dir : pidfile[d] # None}

SweepStaleSessions ==
  /\ qemu' = [q \in Boot |->
                IF qemu[q] = "alive" /\ pidfile[Sid(q)] = q THEN "exited" ELSE qemu[q]]
  /\ dir' = [d \in Dir |-> IF d \in Swept \ SweepPreserve THEN AbsentDir ELSE dir[d]]
  /\ pidfile' = [d \in Dir |-> IF d \in Swept \ SweepPreserve THEN None ELSE pidfile[d]]

(* prepareOrReuse() has returned paths: publish them, then check the epoch. *)
Prepared(b) ==
  /\ session' = Sid(b)
  /\ ContinueUnlessAbandoned(b, FALSE, "disk")

(* The sweep has returned: find the golden, then reuse or prepare.          *)
Sweep(b) ==
  /\ At(b, "sweep")
  /\ SweepStaleSessions
  /\ \/ Throw(b, FALSE, FALSE) /\ UNCHANGED session      \* no golden image
     \/ LET files == dir'[Sid(b)].files IN
        \/ files = "partial" /\ Throw(b, FALSE, FALSE) /\ UNCHANGED session
        \/ files = "full" /\ Prepared(b)
        \/ files \in {"absent", "empty"} /\ Goto(b, "prepare") /\ UNCHANGED session
  /\ UNCHANGED <<state, epoch, handle, backend, sshPort, relaunchUsed,
                 reaperTimer, starts, begun, call, stopper>>

(* prepareSession() has settled.  The overlay of a running QEMU is locked.  *)
Locked(d) == \E q \in Boot : qemu[q] \in {"alive", "wedged"} /\ Sid(q) = d

Prepare(b) ==
  LET d == Sid(b) IN
  /\ At(b, "prepare")
  /\ \/ /\ ~Locked(d)
        /\ dir' = [dir EXCEPT ![d] = [files |-> "full", by |-> b]]
        /\ Prepared(b)
     \/ /\ "disk" \in Faults \/ Locked(d)                \* the create failed
        /\ dir' = IF dir[d].files = "absent"
                  THEN [dir EXCEPT ![d].files = "empty"] ELSE dir
        /\ Throw(b, FALSE, FALSE) /\ UNCHANGED session
     \/ /\ "disk" \in Faults /\ ~Locked(d)               \* the VARS copy failed
        /\ dir' = [dir EXCEPT ![d] =
                     [files |-> IF dir[d].files = "full" THEN "full" ELSE "partial",
                      by |-> b]]
        /\ Throw(b, FALSE, FALSE) /\ UNCHANGED session
  /\ UNCHANGED <<state, epoch, handle, backend, sshPort, relaunchUsed,
                 reaperTimer, starts, begun, call, stopper, qemu, pidfile>>

(* The disk-cap check is over: startQemu() spawns the child.                *)
Spawn(b) ==
  LET d == Sid(b) IN
  /\ At(b, "disk")
  /\ \/ /\ dir[d].files = "full" /\ ~Locked(d)
        /\ qemu' = [qemu EXCEPT ![b] = "alive"]
        /\ pidfile' = [pidfile EXCEPT ![d] = b]
        /\ Goto(b, "spawn")
     \/ Throw(b, FALSE, TRUE) /\ UNCHANGED <<qemu, pidfile>>
  /\ UNCHANGED <<serviceVars, relaunchUsed, reaperTimer, starts, begun, call,
                 stopper, dir>>

(* The failed start's child: SIGTERM, SIGKILL, and no report if it survives. *)
(* Broken variant: the child is left to itself.                             *)
AbandonQemuForgotten(q) == UNCHANGED <<qemu, pidfile>>
AbandonQemu(q) == LadderStops(q) \/ LadderThrows(q)

(* The handle is published.                                                 *)
Adopt(b) == handle' = b

(* startQemu() has settled: a handle, or a failed start.                    *)
SpawnDone(b) ==
  /\ At(b, "spawn")
  /\ \/ /\ Adopt(b)
        /\ ContinueUnlessAbandoned(b, TRUE, "ssh")
        /\ UNCHANGED <<qemu, pidfile>>
     \/ /\ AbandonQemu(b)
        /\ Throw(b, FALSE, TRUE)
        /\ UNCHANGED handle
  /\ UNCHANGED <<state, epoch, session, backend, sshPort, relaunchUsed,
                 reaperTimer, starts, begun, call, stopper, dir>>

(* The unlock and the ssh double round-trip: the port is published before   *)
(* the epoch is looked at.                                                  *)
SshConfirm(b) ==
  /\ At(b, "ssh")
  /\ \/ /\ qemu[b] \in {"alive", "wedged"}
        /\ sshPort' = b
        /\ ContinueUnlessAbandoned(b, TRUE, "extras")
     \/ Throw(b, TRUE, TRUE) /\ UNCHANGED sshPort
  /\ UNCHANGED <<state, epoch, session, handle, backend, relaunchUsed,
                 reaperTimer, starts, begun, call, stopper, qemu, dir, pidfile>>

(* The session-start extras are over: the last look at the epoch, then the  *)
(* session is published.  Broken variant: without that last look.           *)
PublishUnchecked(b) ==
  /\ backend' = b
  /\ state' = "ready"
  /\ reaperTimer' = (IdleReaper \/ reaperTimer)
  /\ Goto(b, "serving")

Publish(b) ==
  /\ ~Stale(b)
  /\ backend' = b
  /\ state' = "ready"
  /\ reaperTimer' = (IdleReaper \/ reaperTimer)
  /\ Goto(b, "serving")

Extras(b) ==
  /\ At(b, "extras")
  /\ \/ Publish(b)
     \/ Throw(b, TRUE, TRUE) /\ UNCHANGED <<backend, state, reaperTimer>>
  /\ UNCHANGED <<epoch, session, handle, sshPort, relaunchUsed, starts, begun,
                 call, stopper, qemu, dir, pidfile>>

(* An abandoned boot stops its own QEMU and swallows a ladder failure.      *)
Abandon(b) ==
  /\ At(b, "abandon")
  /\ LadderStops(b) \/ LadderThrows(b)
  /\ Goto(b, "done")
  /\ UNCHANGED <<serviceVars, relaunchUsed, reaperTimer, starts, begun, call,
                 stopper, dir>>

(* teardownAfterFailure(), the QEMU half.  It runs inside the catch block,  *)
(* so a ladder failure rejects runBoot() itself.                            *)
FailPower(b) ==
  /\ At(b, "failPower")
  /\ \/ LadderStops(b) /\ Goto(b, "failDir")
     \/ LadderThrows(b) /\ Goto(b, "rejected")
  /\ UNCHANGED <<serviceVars, relaunchUsed, reaperTimer, starts, begun, call,
                 stopper, dir>>

(* The verdict of a failed boot: the epoch is not looked at again, only the *)
(* state is.  Broken variant: not even the state.                           *)
FailedVerdictAlways == "failed"
FailedVerdict == IF state = "booting" THEN "failed" ELSE state

(* teardownAfterFailure(), the directory half, and the verdict.             *)
FailSettle(b) ==
  /\ \/ At(b, "failDir") /\ DiscardDir(Sid(b))
     \/ At(b, "verdict") /\ UNCHANGED <<dir, pidfile>>
  /\ state' = FailedVerdict
  /\ Goto(b, "done")
  /\ UNCHANGED <<epoch, session, handle, backend, sshPort, relaunchUsed,
                 reaperTimer, starts, begun, call, stopper, qemu>>

BootStep(b) ==
  \/ Sweep(b) \/ Prepare(b) \/ Spawn(b) \/ SpawnDone(b) \/ SshConfirm(b)
  \/ Extras(b) \/ Abandon(b) \/ FailPower(b) \/ FailSettle(b)

-----------------------------------------------------------------------------
(* ensureReady() and onDeathDetected() *)

(* A tool call finds a live session and resets the idle timer.              *)
ToolCall(c) ==
  /\ Overlap \/ Quiet
  /\ call[c].pc = "idle"
  /\ state = "ready" /\ handle # None /\ qemu[handle] # "exited"
  /\ IdleReaper /\ ~reaperTimer
  /\ reaperTimer' = TRUE
  /\ UNCHANGED <<serviceVars, relaunchUsed, starts, begun, boot, call, stopper,
                 qemu, dir, pidfile>>

(* A tool call finds the QEMU child gone: the capture of the corpse begins. *)
(* The state stays "ready" while it runs.                                   *)
DetectDeath(c) ==
  /\ Overlap \/ Quiet
  /\ call[c].pc = "idle"
  /\ state = "ready" /\ handle # None /\ qemu[handle] = "exited"
  /\ call' = [call EXCEPT ![c].pc = "corpse"]
  /\ UNCHANGED <<serviceVars, relaunchUsed, reaperTimer, starts, begun, boot,
                 stopper, qemu, dir, pidfile>>

(* The allowance is spent: the verdict, whatever the state is by now.       *)
GiveUp(c) ==
  /\ call[c].pc = "corpse"
  /\ relaunchUsed
  /\ state' = "failed"
  /\ call' = [call EXCEPT ![c] = IdleCall]
  /\ UNCHANGED <<epoch, session, handle, backend, sshPort, relaunchUsed,
                 reaperTimer, starts, begun, boot, stopper, qemu, dir, pidfile>>

(* The test of the allowance, made after the capture.  Broken variant: the  *)
(* test made before it has been overtaken by another call.                  *)
RelaunchAllowedEarlier == TRUE
RelaunchAllowed == ~relaunchUsed

(* What stopQemu() is given: the handle held now, not the one found dead.   *)
(* Broken variant: the session id in its place.                             *)
SessionToReap == session
HandleToReap == handle

(* The one relaunch is claimed, in the same step as the test.               *)
ClaimRelaunch(c) ==
  /\ call[c].pc = "corpse"
  /\ RelaunchAllowed
  /\ relaunchUsed' = TRUE
  /\ call' = [call EXCEPT ![c].pc = "reap", ![c].handle = HandleToReap]
  /\ UNCHANGED <<serviceVars, reaperTimer, starts, begun, boot, stopper, qemu,
                 dir, pidfile>>

Relaunch(c) ==
  /\ backend' = None
  /\ call' = [call EXCEPT ![c] = IdleCall]
  /\ BeginBoot

Reap(c) ==
  LET h == call[c].handle IN
  /\ call[c].pc = "reap"
  /\ LadderStops(h) \/ LadderThrows(h)
  /\ \/ /\ Retain \/ session = None
        /\ Relaunch(c)
     \/ /\ ~Retain /\ session # None
        /\ call' = [call EXCEPT ![c].pc = "rm", ![c].dir = session]
        /\ UNCHANGED <<state, backend, sshPort, begun, boot>>
  /\ UNCHANGED <<epoch, session, handle, relaunchUsed, reaperTimer, starts,
                 stopper, dir>>

DropDeadSession(c) ==
  /\ call[c].pc = "rm"
  /\ RemoveDir(call[c].dir)
  /\ Relaunch(c)
  /\ UNCHANGED <<epoch, session, handle, relaunchUsed, reaperTimer, starts,
                 stopper, qemu>>

CallStep(c) == GiveUp(c) \/ ClaimRelaunch(c) \/ Reap(c) \/ DropDeadSession(c)

-----------------------------------------------------------------------------
(* stop() *)

(* stop() has returned or rejected; vm-restart then calls start().          *)
StopSettles(s) ==
  stopper' = [stopper EXCEPT ![s] =
                IF stopper[s].restart THEN [IdleStop EXCEPT !.pc = "restart"] ELSE IdleStop]

(* What follows the mux close, for the handle and paths read at the start.  *)
StopContinues(s, h, d, restart) ==
  IF h = None \/ d = None
  THEN /\ state' = "stopped"
       /\ stopper' = [stopper EXCEPT ![s] =
                        IF restart THEN [IdleStop EXCEPT !.pc = "restart"] ELSE IdleStop]
  ELSE /\ stopper' = [stopper EXCEPT ![s] =
                        [pc |-> IF qemu[h] = "exited" THEN "teardown" ELSE "powerdown",
                         handle |-> h, dir |-> d, restart |-> restart]]
       /\ UNCHANGED state

(* stop() up to its first await.  With no backend there is no mux to close  *)
(* and no await before the continuation.                                    *)
BeginStop(s, restart) ==
  /\ epoch' = epoch + 1
  /\ reaperTimer' = FALSE
  /\ backend' = None
  /\ IF backend = None
     THEN StopContinues(s, handle, session, restart)
     ELSE /\ stopper' = [stopper EXCEPT ![s] =
                           [pc |-> "closing", handle |-> handle, dir |-> session,
                            restart |-> restart]]
          /\ UNCHANGED state
  /\ UNCHANGED <<session, handle, sshPort, relaunchUsed, starts, begun, boot,
                 call, qemu, dir, pidfile>>

Stop(s) ==
  /\ Overlap \/ Quiet
  /\ stopper[s].pc = "idle" /\ epoch < MaxStops
  /\ BeginStop(s, FALSE)

(* The vm-restart command: stop(), then start(), whatever is in flight.     *)
Restart(s) ==
  /\ Overlap \/ (Quiet /\ BootsQuiet)
  /\ stopper[s].pc = "idle" /\ epoch < MaxStops
  /\ BeginStop(s, TRUE)

MuxClosed(s) ==
  /\ stopper[s].pc = "closing"
  /\ StopContinues(s, stopper[s].handle, stopper[s].dir, stopper[s].restart)
  /\ UNCHANGED <<epoch, session, handle, backend, sshPort, relaunchUsed,
                 reaperTimer, starts, begun, boot, call, qemu, dir, pidfile>>

(* system_powerdown, the wait and the stop ladder behind it.  A ladder that *)
(* throws rejects stop() with the state left as it was.                     *)
Powerdown(s) ==
  LET h == stopper[s].handle IN
  /\ stopper[s].pc = "powerdown"
  /\ \/ LadderStops(h) /\ stopper' = [stopper EXCEPT ![s].pc = "teardown"]
     \/ LadderThrows(h) /\ StopSettles(s)
  /\ UNCHANGED <<serviceVars, relaunchUsed, reaperTimer, starts, begun, boot,
                 call, dir>>

Teardown(s) ==
  /\ stopper[s].pc = "teardown"
  /\ DiscardDir(stopper[s].dir)
  /\ state' = "stopped"
  /\ StopSettles(s)
  /\ UNCHANGED <<epoch, session, handle, backend, sshPort, relaunchUsed,
                 reaperTimer, starts, begun, boot, call, qemu>>

(* start() after the stop() of vm-restart; a start beyond MaxStarts is cut. *)
RestartStarts(s) ==
  /\ stopper[s].pc = "restart"
  /\ stopper' = [stopper EXCEPT ![s] = IdleStop]
  /\ \/ ArmAndBoot
     \/ /\ state \in {"booting", "ready"} \/ starts = MaxStarts
        /\ UNCHANGED <<state, sshPort, starts, relaunchUsed, begun, boot>>
  /\ UNCHANGED <<epoch, session, handle, backend, reaperTimer, call, qemu, dir,
                 pidfile>>

(* The idle timer fires: outside "ready" it only clears itself.             *)
ReaperFires(s) ==
  /\ Overlap \/ Quiet
  /\ reaperTimer
  /\ stopper[s].pc = "idle" /\ epoch < MaxStops
  /\ reaperTimer' = FALSE
  /\ stopper' = IF state = "ready" THEN [stopper EXCEPT ![s].pc = "capture"] ELSE stopper
  /\ UNCHANGED <<serviceVars, relaunchUsed, starts, begun, boot, call, qemu, dir,
                 pidfile>>

ReaperStops(s) ==
  /\ stopper[s].pc = "capture"
  /\ BeginStop(s, FALSE)

StopStep(s) ==
  MuxClosed(s) \/ Powerdown(s) \/ Teardown(s) \/ RestartStarts(s) \/ ReaperStops(s)

-----------------------------------------------------------------------------
(* A QEMU process ends on its own: guest poweroff, crash, OOM killer.       *)
QemuDies(b) ==
  /\ qemu[b] \in {"alive", "wedged"}
  /\ Exits(b)
  /\ UNCHANGED <<serviceVars, relaunchUsed, reaperTimer, starts, begun, boot,
                 call, stopper, dir>>

Next ==
  \/ Start
  \/ \E b \in Boot : BootStep(b) \/ QemuDies(b)
  \/ \E c \in Callers : ToolCall(c) \/ DetectDeath(c) \/ CallStep(c)
  \/ \E s \in Stoppers : Stop(s) \/ Restart(s) \/ ReaperFires(s) \/ StopStep(s)

(* Every await of a method ends: the file and process operations, the stop  *)
(* budgets and the ssh connects are bounded by the code.  The extras run    *)
(* commands in the guest without a host-side bound, so they are only sure   *)
(* to end once the QEMU they talk to is gone.  Commands, tool calls, timers *)
(* and deaths need not happen.                                              *)
BoundedBootStep(b) == BootStep(b) /\ (At(b, "extras") => qemu[b] = "exited")

Fairness ==
  /\ \A b \in Boot : WF_vars(BoundedBootStep(b))
  /\ \A c \in Callers : WF_vars(CallStep(c))
  /\ \A s \in Stoppers : WF_vars(StopStep(s))

Spec == Init /\ [][Next]_vars
FairSpec == Spec /\ Fairness
-----------------------------------------------------------------------------
(* Properties *)

TypeOK ==
  /\ state \in VmState
  /\ epoch \in Nat /\ starts \in Nat /\ begun \in Nat
  /\ session \in Dir \cup {None}
  /\ {handle, backend, sshPort} \subseteq Boot \cup {None}
  /\ {relaunchUsed, reaperTimer} \subseteq BOOLEAN
  /\ boot \in [Boot -> [pc : BootPc, epoch : Nat]]
  /\ call \in [Callers -> [pc : CallPc, handle : Boot \cup {None}, dir : Dir \cup {None}]]
  /\ stopper \in [Stoppers -> [pc : StopPc, handle : Boot \cup {None},
                               dir : Dir \cup {None}, restart : BOOLEAN]]
  /\ qemu \in [Boot -> QemuState]
  /\ dir \in [Dir -> [files : DirFiles, by : Boot \cup {None}]]
  /\ pidfile \in [Dir -> Boot \cup {None}]

(* A torn-down session is never resurrected: whatever overlaps, the backend *)
(* handed to tool calls was published by a boot that began after the latest *)
(* stop().  (The epoch guard, and stop() dropping the backend.)             *)
NeverResurrected ==
  backend # None => boot[backend].pc = "serving" /\ ~Stale(backend)

(* The relaunch is strictly one-shot: over any history of deaths, stops and *)
(* concurrent tool calls, each operator start pays for at most two boots.   *)
(* (onDeathDetected() tests and sets relaunchUsed with no await between.)   *)
OneShotRelaunch == begun <= 2 * starts

(* A boot that ended without being published has left no QEMU running: it   *)
(* was stopped by the boot's own teardown, or by the failed start.          *)
NoQemuOutlivesItsBoot ==
  \A b \in Boot : boot[b].pc \in {"unborn", "done"} => qemu[b] # "alive"

(* Tool calls talk to the QEMU the service watches: while ready, the        *)
(* backend, the port and the handle whose exit means death are one boot's.  *)
HandleMatchesBackend ==
  state = "ready" /\ backend # None => handle = backend /\ sshPort = backend

(* Two guests never run at once.                                            *)
AtMostOneGuest ==
  \A p, q \in Boot : qemu[p] = "alive" /\ qemu[q] = "alive" => p = q

(* With no operation in flight, a guest runs only under a ready session     *)
(* that holds its handle: stopped and failed mean gone.                     *)
SettledMeansGone ==
  Quiet /\ BootsQuiet =>
    \A b \in Boot : qemu[b] = "alive" => state = "ready" /\ handle = b

(* Guests are accounted for: one at most, watched by the handle the tool    *)
(* calls' backend belongs to, and none once the session has settled in      *)
(* anything but ready.  About start(), stop(), relaunch() and runBoot()'s   *)
(* checks of the epoch after each await.                                    *)
GuestsAccountedFor == AtMostOneGuest /\ HandleMatchesBackend /\ SettledMeansGone

(* The retained overlay is the recovery path: once a guest has run on it,   *)
(* no sweep, teardown, relaunch or later boot removes it, and no step       *)
(* touches it under a guest.  It is made anew only by a boot that was       *)
(* already at its qemu-img create: one that looked for an overlay before    *)
(* the guest's boot had made it, and was overtaken.                         *)
RetainedOverlaySurvives ==
  [][Retain => \A b \in Boot :
       qemu[b] # "none" /\ dir'[Sid(b)] # dir[Sid(b)] =>
         /\ dir'[Sid(b)].files = "full" /\ ~Locked(Sid(b))
         /\ \E p \in Boot : At(p, "prepare") /\ dir'[Sid(b)].by = p]_vars

(* A retained session whose overlay exists is reused, and its state is not  *)
(* destroyed by creating it anew (prepareOrReuse()).  (Violated: two starts *)
(* overlap, and the overlay is looked for before it is awaited.)            *)
RetainedStateIsReused ==
  [][Retain => \A b \in Boot :
       qemu[b] # "none" => dir'[Sid(b)] = dir[Sid(b)]]_vars

(* No boot is begun by anything but a start() once the session was stopped. *)
StopIsFinal ==
  [][state = "stopped" /\ state' = "booting" => starts' = starts + 1]_vars

(* "Never rejects; every outcome lands in state" (service.ts:575): a boot   *)
(* that ends is served, abandoned or failed.  (Violated: the ladder of      *)
(* teardownAfterFailure() throws out of the catch block.)                   *)
BootNeverRejects == \A b \in Boot : boot[b].pc # "rejected"

(* Every stop() settles, whatever it overlaps with.                         *)
StopSettlesEventually ==
  \A s \in Stoppers : stopper[s].pc # "idle" ~> stopper[s].pc = "idle"

(* Every abandoned boot ends: stop() takes the QEMU from under it.          *)
AbandonedBootEnds ==
  \A b \in Boot : (InFlight(b) /\ Stale(b)) ~> ~InFlight(b)
=============================================================================
