---------------------------- MODULE VmSerialProofs ----------------------------
(***************************************************************************)
(* Theorems about the session service when its operations do not overlap:  *)
(* a tool call or a command begins only while no other is in flight, and a *)
(* start() only once the boots have ended as well; a stop() may still meet *)
(* a boot, and QEMU may die at any point.                                  *)
(***************************************************************************)
EXTENDS VmServiceRefinement, VmServiceProofs

(* One operation at a time.                                                 *)
OneAtATime ==
  /\ \A c, e \in Callers : call[c].pc # "idle" /\ call[e].pc # "idle" => c = e
  /\ \A s, t \in Stoppers : stopper[s].pc # "idle" /\ stopper[t].pc # "idle" => s = t
  /\ \A c \in Callers, s \in Stoppers : call[c].pc = "idle" \/ stopper[s].pc = "idle"

(* Only the latest boot is in flight; no stop() has met it exactly while    *)
(* the service is booting.                                                  *)
LatestBoot ==
  /\ \A b \in Boot : InFlight(b) => b = begun
  /\ \A b \in Boot : boot[b].epoch <= epoch
  /\ \A b \in Boot : InFlight(b) /\ ~Stale(b) => state = "booting"
  /\ state = "ready" => BootsQuiet

(* What a boot has published by the time it gets to a point.                *)
Published ==
  /\ \A b \in Boot : boot[b].pc \in {"disk", "spawn", "ssh", "extras", "serving"} => session # None
  /\ \A b \in Boot : boot[b].pc \in {"ssh", "extras"} => handle = b
  /\ \A b \in Boot : boot[b].pc = "extras" => sshPort = b
  /\ state = "ready" /\ backend # None => handle = backend /\ sshPort = backend

(* A guest that is up and has a boot behind it is the session of the        *)
(* service.                                                                 *)
Up(b) == qemu[b] = "alive" /\ boot[b].pc = "serving"
UpIsReady ==
  \A b \in Boot : Up(b) => b = begun /\ handle = b /\ session # None /\ state = "ready"

(* A tool call that has found its guest dead acts on a dead session.        *)
CallsMeetDeath ==
  \A c \in Callers : call[c].pc # "idle" =>
    /\ state = "ready" /\ handle # None /\ qemu[handle] = "exited"
    /\ call[c].pc \in {"reap", "rm"} => relaunchUsed /\ call[c].handle = handle
    /\ call[c].pc = "rm" => ~Retain

(* A stop() under way has withdrawn the backend and abandoned the boot; it  *)
(* holds the handle of the guest that is up, and tears nothing down that    *)
(* runs.                                                                    *)
Stopping == {"closing", "powerdown", "teardown", "restart"}
StopsWithdraw ==
  \A s \in Stoppers :
    /\ stopper[s].pc = "capture" => state = "ready"
    /\ stopper[s].pc \in Stopping => backend = None /\ \A b \in Boot : InFlight(b) => Stale(b)
    /\ stopper[s].pc = "restart" \/ (stopper[s].pc \in Stopping /\ stopper[s].restart) => BootsQuiet
    /\ stopper[s].pc = "powerdown" => stopper[s].handle # None
    /\ stopper[s].pc \in {"closing", "powerdown"} =>
         \A b \in Boot : Up(b) => stopper[s].handle = b /\ stopper[s].dir # None
    /\ stopper[s].pc = "teardown" => \A b \in Boot : ~Up(b)

SerialInv ==
  /\ SafetyInv
  /\ OneAtATime
  /\ LatestBoot
  /\ Published
  /\ UpIsReady
  /\ CallsMeetDeath
  /\ StopsWithdraw

-----------------------------------------------------------------------------
(* The steps that only let a QEMU go *)

Fades == \A q \in Boot : /\ qemu'[q] = "alive" => qemu[q] = "alive"
                         /\ qemu[q] = "exited" => qemu'[q] = "exited"

Serial == OneAtATime /\ LatestBoot /\ Published /\ UpIsReady /\ CallsMeetDeath /\ StopsWithdraw

LEMMA LadderFades ==
  ASSUME TypeOK, NEW q, LadderStops(q) \/ LadderThrows(q) \/ Exits(q)
  PROVE  Fades
  BY DEF TypeOK, LadderStops, LadderThrows, Exits, Fades, QemuState

LEMMA InFlightOrNot ==
  ASSUME TypeOK, NEW b \in Boot
  PROVE  /\ InFlight(b) => boot[b].pc \notin {"serving", "done", "unborn", "rejected"}
         /\ ~InFlight(b) => boot[b].pc \in {"serving", "done", "unborn", "rejected"}
  BY DEF InFlight, BootEnded

LEMMA FadeSerial ==
  ASSUME SerialInv, Fades, UNCHANGED <<serviceVars, begun, relaunchUsed, boot, call, stopper>>
  PROVE  Serial'
<1> USE DEF serviceVars
<1>0. TypeOK
  BY DEF SerialInv, SafetyInv
<1>1. \A q \in Boot : Up(q)' => Up(q)
  BY DEF Up, Fades
<1>2. OneAtATime' /\ LatestBoot'
  BY DEF SerialInv, OneAtATime, LatestBoot, BootsQuiet, InFlight, Stale
<1>3. Published' /\ UpIsReady'
  BY <1>1 DEF SerialInv, Published, UpIsReady
<1>4. CallsMeetDeath'
  BY <1>0 DEF SerialInv, CallsMeetDeath, Fades, TypeOK
<1>5. StopsWithdraw'
  BY <1>1 DEF SerialInv, StopsWithdraw, InFlight, Stale, BootsQuiet
<1>6. QED
  BY <1>2, <1>3, <1>4, <1>5 DEF Serial
-----------------------------------------------------------------------------
(* The steps of a boot *)

(* While a boot is in flight nothing is up, and nobody is on the way to      *)
(* anything but a stop that has abandoned it.                                *)
LEMMA OneBootInFlight ==
  ASSUME SerialInv, NEW b \in Boot, InFlight(b)
  PROVE  /\ state # "ready" /\ b = begun
         /\ \A q \in Boot \ {b} : ~InFlight(q)
         /\ \A q \in Boot : ~Up(q)
         /\ \A c \in Callers : call[c].pc = "idle"
         /\ \A s \in Stoppers : /\ stopper[s].pc # "capture" /\ stopper[s].pc # "restart"
                                /\ stopper[s].pc \in Stopping => ~stopper[s].restart /\ Stale(b)
<1>1. state # "ready" /\ b = begun /\ \A q \in Boot \ {b} : ~InFlight(q)
  BY DEF SerialInv, LatestBoot, BootsQuiet
<1>2. \A q \in Boot : ~Up(q)
  BY <1>1 DEF SerialInv, UpIsReady
<1>3. \A c \in Callers : call[c].pc = "idle"
  BY <1>1 DEF SerialInv, CallsMeetDeath
<1>4. QED
  BY <1>1, <1>2, <1>3 DEF SerialInv, StopsWithdraw, BootsQuiet

LEMMA MoveSerial ==
  ASSUME SerialInv, NEW b \in Boot, NEW pc, InFlight(b), Goto(b, pc), pc # "serving",
         UNCHANGED <<epoch, begun, backend, call, stopper>>,
         \A q \in Boot \ {b} : qemu'[q] = "alive" => qemu[q] = "alive",
         UNCHANGED state \/ (pc = "done" /\ state' = "failed"),
         session' = session \/ session' # None,
         pc \in {"disk", "spawn", "ssh", "extras"} => session' # None,
         pc \in {"ssh", "extras"} => handle' = b,
         pc = "extras" => sshPort' = b
  PROVE  Serial'
<1>0. TypeOK
  BY DEF SerialInv, SafetyInv
<1>1. /\ boot'[b].pc = pc /\ boot'[b].epoch = boot[b].epoch
      /\ \A q \in Boot \ {b} : boot'[q] = boot[q]
  BY <1>0 DEF TypeOK, Goto
<1>2. /\ state # "ready" /\ state' # "ready" /\ b = begun
      /\ \A q \in Boot \ {b} : ~InFlight(q)
      /\ \A q \in Boot : ~Up(q)
      /\ \A c \in Callers : call[c].pc = "idle"
      /\ \A s \in Stoppers : /\ stopper[s].pc # "capture" /\ stopper[s].pc # "restart"
                             /\ stopper[s].pc \in Stopping => ~stopper[s].restart /\ Stale(b)
  BY OneBootInFlight
<1>3. \A q \in Boot : ~Up(q)'
  BY <1>1, <1>2 DEF Up
<1>4. \A q \in Boot : InFlight(q)' => q = b /\ pc # "done"
  BY <1>1, <1>2 DEF InFlight, BootEnded
<1>5. Stale(b)' <=> Stale(b)
  BY <1>1 DEF Stale
<1>6. OneAtATime'
  BY DEF SerialInv, OneAtATime
<1>7. LatestBoot'
  <2>1. \A q \in Boot : boot'[q].epoch <= epoch
    BY <1>1 DEF SerialInv, LatestBoot
  <2>2. InFlight(b)' /\ ~Stale(b)' => state' = "booting"
    BY <1>4, <1>5 DEF SerialInv, LatestBoot
  <2>3. QED
    BY <1>2, <1>4, <2>1, <2>2 DEF LatestBoot
<1>8. Published'
  BY <1>1, <1>2, <1>4 DEF SerialInv, Published, InFlight, BootEnded
<1>9. UpIsReady' /\ CallsMeetDeath'
  BY <1>2, <1>3 DEF UpIsReady, CallsMeetDeath
<1>10. StopsWithdraw'
  <2>1. ASSUME NEW s \in Stoppers
        PROVE  /\ stopper'[s].pc # "capture" /\ stopper'[s].pc # "restart"
               /\ stopper'[s].pc \in Stopping => /\ backend' = None /\ ~stopper'[s].restart
                                                 /\ \A q \in Boot : InFlight(q)' => Stale(q)'
               /\ stopper'[s].pc = "powerdown" => stopper'[s].handle # None
    BY <1>2, <1>4, <1>5 DEF SerialInv, StopsWithdraw
  <2>2. QED
    BY <1>3, <2>1 DEF StopsWithdraw
<1>11. QED
  BY <1>6, <1>7, <1>8, <1>9, <1>10 DEF Serial

(* A boot that throws is at a point behind its catch block.                 *)
LEMMA CatchPoints ==
  ASSUME NEW b, NEW hasHandle, NEW hasPaths
  PROVE  CatchPc(b, hasHandle, hasPaths) \in {"abandon", "done", "failPower", "failDir", "verdict"}
  BY DEF CatchPc

LEMMA PublishSerial ==
  ASSUME SerialInv, NEW b \in Boot, Extras(b), Publish(b)
  PROVE  Serial'
<1>0. TypeOK /\ InFlight(b)
  BY DEF SerialInv, SafetyInv, Extras, At, InFlight, BootEnded
<1>1. /\ boot'[b].pc = "serving" /\ boot'[b].epoch = boot[b].epoch
      /\ \A q \in Boot \ {b} : boot'[q] = boot[q]
  BY <1>0 DEF TypeOK, Goto, Publish
<1>2. /\ state # "ready" /\ b = begun
      /\ \A q \in Boot \ {b} : ~InFlight(q)
      /\ \A q \in Boot : ~Up(q)
      /\ \A c \in Callers : call[c].pc = "idle"
      /\ \A s \in Stoppers : /\ stopper[s].pc # "capture" /\ stopper[s].pc # "restart"
                             /\ stopper[s].pc \in Stopping => ~stopper[s].restart /\ Stale(b)
  BY <1>0, OneBootInFlight
<1>3. /\ UNCHANGED <<epoch, session, handle, sshPort, begun, call, stopper, qemu>>
      /\ backend' = b /\ state' = "ready" /\ ~Stale(b) /\ boot[b].pc = "extras"
  BY DEF Extras, Publish, At
<1>4. handle = b /\ sshPort = b /\ session # None
  BY <1>3 DEF SerialInv, Published
<1>5. \A q \in Boot : ~InFlight(q)'
  BY <1>1, <1>2 DEF InFlight, BootEnded
<1>6. OneAtATime'
  BY <1>3 DEF SerialInv, OneAtATime
<1>7. LatestBoot'
  BY <1>1, <1>3, <1>5 DEF SerialInv, LatestBoot, BootsQuiet
<1>8. Published'
  BY <1>1, <1>3, <1>4, <1>5 DEF Published, InFlight, BootEnded, SerialInv
<1>9. UpIsReady'
  <2>1. \A q \in Boot : Up(q)' => q = b
    BY <1>1, <1>2, <1>3 DEF Up
  <2>2. QED
    BY <1>2, <1>3, <1>4, <2>1 DEF UpIsReady
<1>10. CallsMeetDeath'
  BY <1>2, <1>3 DEF CallsMeetDeath
<1>11. StopsWithdraw'
  <2>1. \A s \in Stoppers : stopper'[s].pc \notin Stopping
    BY <1>2, <1>3
  <2>2. QED
    BY <1>3, <2>1 DEF StopsWithdraw, Stopping
<1>12. QED
  BY <1>6, <1>7, <1>8, <1>9, <1>10, <1>11 DEF Serial

LEMMA BootStepSerial ==
  ASSUME SerialInv, NEW b \in Boot, BootStep(b)
  PROVE  Serial'
<1>0. TypeOK /\ None \notin Nat
  BY ConstantsAssumption DEF SerialInv, SafetyInv
<1>1. Sid(b) # None /\ Sid(b) \in Dir
  BY <1>0, SidType DEF Dir
<1>2. CASE Sweep(b)
  <2>1. InFlight(b) /\ \A q \in Boot \ {b} : qemu'[q] = "alive" => qemu[q] = "alive"
    BY <1>0, <1>2 DEF Sweep, SweepStaleSessions, At, InFlight, BootEnded, TypeOK
  <2>2. CASE Throw(b, FALSE, FALSE) /\ UNCHANGED session
    BY <1>2, <2>1, <2>2, MoveSerial, CatchPoints DEF Sweep, Throw
  <2>3. CASE Prepared(b)
    BY <1>1, <1>2, <2>1, <2>3, MoveSerial, CatchPoints DEF Sweep, Prepared, ContinueUnlessAbandoned
  <2>4. CASE Goto(b, "prepare") /\ UNCHANGED session
    BY <1>2, <2>1, <2>4, MoveSerial DEF Sweep
  <2>5. QED
    BY <1>2, <2>2, <2>3, <2>4 DEF Sweep
<1>3. CASE Prepare(b)
  <2>1. InFlight(b)
    BY <1>3 DEF Prepare, At, InFlight, BootEnded
  <2>2. CASE Throw(b, FALSE, FALSE) /\ UNCHANGED session
    BY <1>3, <2>1, <2>2, MoveSerial, CatchPoints DEF Prepare, Throw
  <2>3. CASE Prepared(b)
    BY <1>1, <1>3, <2>1, <2>3, MoveSerial, CatchPoints DEF Prepare, Prepared, ContinueUnlessAbandoned
  <2>4. QED
    BY <1>3, <2>2, <2>3 DEF Prepare
<1>4. CASE Spawn(b)
  <2>1. InFlight(b) /\ session # None
    BY <1>4 DEF Spawn, At, InFlight, BootEnded, SerialInv, Published
  <2>2. CASE qemu' = [qemu EXCEPT ![b] = "alive"] /\ Goto(b, "spawn")
    <3>1. \A q \in Boot \ {b} : qemu'[q] = "alive" => qemu[q] = "alive"
      BY <1>0, <2>2 DEF TypeOK
    <3>2. QED
      BY <1>4, <2>1, <2>2, <3>1, MoveSerial DEF Spawn, serviceVars
  <2>3. CASE Throw(b, FALSE, TRUE) /\ UNCHANGED <<qemu, pidfile>>
    BY <1>4, <2>1, <2>3, MoveSerial, CatchPoints DEF Spawn, serviceVars, Throw
  <2>4. QED
    BY <1>4, <2>2, <2>3 DEF Spawn
<1>5. CASE SpawnDone(b)
  <2>1. InFlight(b) /\ session # None
    BY <1>5 DEF SpawnDone, At, InFlight, BootEnded, SerialInv, Published
  <2>2. CASE Adopt(b) /\ ContinueUnlessAbandoned(b, TRUE, "ssh") /\ UNCHANGED <<qemu, pidfile>>
    BY <1>5, <2>1, <2>2, MoveSerial, CatchPoints DEF SpawnDone, Adopt, ContinueUnlessAbandoned
  <2>3. CASE AbandonQemu(b) /\ Throw(b, FALSE, TRUE) /\ UNCHANGED handle
    <3>1. \A q \in Boot \ {b} : qemu'[q] = "alive" => qemu[q] = "alive"
      BY <1>0, <2>3, LadderFades DEF AbandonQemu, Fades
    <3>2. QED
      BY <1>5, <2>1, <2>3, <3>1, MoveSerial, CatchPoints DEF SpawnDone, Throw
  <2>4. QED
    BY <1>5, <2>2, <2>3 DEF SpawnDone
<1>6. CASE SshConfirm(b)
  <2>1. InFlight(b) /\ session # None /\ handle = b
    BY <1>6 DEF SshConfirm, At, InFlight, BootEnded, SerialInv, Published
  <2>2. CASE sshPort' = b /\ ContinueUnlessAbandoned(b, TRUE, "extras")
    BY <1>6, <2>1, <2>2, MoveSerial, CatchPoints DEF SshConfirm, ContinueUnlessAbandoned
  <2>3. CASE Throw(b, TRUE, TRUE) /\ UNCHANGED sshPort
    BY <1>6, <2>1, <2>3, MoveSerial, CatchPoints DEF SshConfirm, Throw
  <2>4. QED
    BY <1>6, <2>2, <2>3 DEF SshConfirm
<1>7. CASE Extras(b)
  <2>1. InFlight(b)
    BY <1>7 DEF Extras, At, InFlight, BootEnded
  <2>2. CASE Throw(b, TRUE, TRUE) /\ UNCHANGED <<backend, state, reaperTimer>>
    BY <1>7, <2>1, <2>2, MoveSerial, CatchPoints DEF Extras, Throw
  <2>3. QED
    BY <1>7, <2>2, PublishSerial DEF Extras
<1>8. CASE Abandon(b) \/ FailPower(b)
  <2>1. InFlight(b) /\ Fades
    BY <1>0, <1>8, LadderFades DEF Abandon, FailPower, At, InFlight, BootEnded
  <2>2. PICK pc \in {"done", "failDir", "rejected"} : Goto(b, pc)
    BY <1>8 DEF Abandon, FailPower
  <2>3. QED
    BY <1>8, <2>1, <2>2, MoveSerial DEF Abandon, FailPower, serviceVars, Fades
<1>9. CASE FailSettle(b)
  <2>1. InFlight(b)
    BY <1>9 DEF FailSettle, At, InFlight, BootEnded
  <2>2. QED
    BY <1>9, <2>1, MoveSerial DEF FailSettle, FailedVerdict
<1>10. QED
  BY <1>2, <1>3, <1>4, <1>5, <1>6, <1>7, <1>8, <1>9 DEF BootStep

-----------------------------------------------------------------------------
(* A boot begins *)

LEMMA BeginSerial ==
  ASSUME SerialInv, BeginBoot, BootsQuiet, \A q \in Boot : ~Up(q), Fades,
         UNCHANGED <<epoch, session, handle>>,
         \A c \in Callers : call'[c].pc = "idle",
         \A s \in Stoppers : stopper'[s].pc = "idle"
  PROVE  Serial'
<1>0. TypeOK
  BY DEF SerialInv, SafetyInv
<1>1. /\ \A q \in Boot : q # begun + 1 => boot'[q] = boot[q]
      /\ begun + 1 \in Boot => boot'[begun + 1] = [pc |-> "sweep", epoch |-> epoch]
      /\ begun' = begun + 1 /\ state' = "booting"
      /\ epoch \in Nat
  BY <1>0 DEF TypeOK, BeginBoot
<1>2. \A q \in Boot : InFlight(q)' => q = begun + 1
  BY <1>1 DEF BootsQuiet, InFlight
<1>3. \A q \in Boot : ~Up(q)'
  BY <1>1 DEF Up, Fades
<1>4. OneAtATime' /\ CallsMeetDeath'
  BY DEF OneAtATime, CallsMeetDeath
<1>5. StopsWithdraw'
  BY DEF StopsWithdraw, Stopping
<1>6. LatestBoot'
  <2>1. \A q \in Boot : boot'[q].epoch <= epoch
    BY <1>1 DEF SerialInv, LatestBoot
  <2>2. QED
    BY <1>1, <1>2, <2>1 DEF LatestBoot
<1>7. Published'
  <2>1. \A q \in Boot : q # begun + 1 => boot'[q].pc \in BootEnded
    BY <1>1 DEF BootsQuiet, InFlight
  <2>2. \A q \in Boot : q = begun + 1 => boot'[q].pc = "sweep"
    BY <1>1
  <2>3. \A q \in Boot : boot'[q].pc = "serving" => session # None
    BY <1>1, <2>2 DEF SerialInv, Published
  <2>4. QED
    BY <1>1, <2>1, <2>2, <2>3 DEF Published, BootEnded
<1>8. UpIsReady'
  BY <1>3 DEF UpIsReady
<1>9. QED
  BY <1>4, <1>5, <1>6, <1>7, <1>8 DEF Serial

(* start() begins a boot from a state in which nothing is up.               *)
LEMMA ArmSerial ==
  ASSUME SerialInv, ArmAndBoot, BootsQuiet, UNCHANGED <<epoch, session, handle, qemu>>,
         \A c \in Callers : call'[c].pc = "idle",
         \A s \in Stoppers : stopper'[s].pc = "idle"
  PROVE  Serial'
<1>1. \A q \in Boot : ~Up(q)
  BY DEF ArmAndBoot, SerialInv, UpIsReady
<1>2. QED
  BY <1>1, BeginSerial DEF ArmAndBoot, Fades
-----------------------------------------------------------------------------
(* The steps of a tool call *)

(* A call that has found its guest dead is alone, and nothing is up.        *)
LEMMA CallIsAlone ==
  ASSUME SerialInv, NEW c \in Callers, call[c].pc # "idle"
  PROVE  /\ state = "ready" /\ handle # None /\ qemu[handle] = "exited"
         /\ BootsQuiet
         /\ \A e \in Callers \ {c} : call[e].pc = "idle"
         /\ \A s \in Stoppers : stopper[s].pc = "idle"
         /\ \A q \in Boot : ~Up(q)
<1>1. state = "ready" /\ handle # None /\ qemu[handle] = "exited"
  BY DEF SerialInv, CallsMeetDeath
<1>2. BootsQuiet
  BY <1>1 DEF SerialInv, LatestBoot
<1>3. \A q \in Boot : ~Up(q)
  BY <1>1 DEF SerialInv, UpIsReady, Up
<1>4. QED
  BY <1>1, <1>2, <1>3 DEF SerialInv, OneAtATime

(* A step that moves only this call, and finds its guest dead.              *)
LEMMA CallMoves ==
  ASSUME SerialInv, NEW c \in Callers, \A e \in Callers \ {c} : call'[e] = call[e],
         state = "ready", handle # None, qemu[handle] = "exited",
         \A e \in Callers \ {c} : call[e].pc = "idle",
         \A s \in Stoppers : stopper[s].pc = "idle",
         Fades, UNCHANGED <<epoch, session, handle, backend, sshPort, begun, boot, stopper>>,
         \/ call'[c].pc = "idle" /\ state' = "failed"
         \/ UNCHANGED state /\ (call'[c].pc \in {"reap", "rm"} => relaunchUsed' /\ call'[c].handle = handle)
                            /\ (call'[c].pc = "rm" => ~Retain)
  PROVE  Serial'
<1>0. TypeOK
  BY DEF SerialInv, SafetyInv
<1>1. \A e \in Callers \ {c} : call'[e].pc = "idle"
  OBVIOUS
<1>2. BootsQuiet /\ BootsQuiet'
  BY DEF SerialInv, LatestBoot, BootsQuiet, InFlight
<1>3. \A q \in Boot : ~Up(q) /\ ~Up(q)'
  BY DEF SerialInv, UpIsReady, Up, Fades
<1>4. OneAtATime'
  BY <1>1 DEF OneAtATime
<1>5. LatestBoot'
  BY <1>2 DEF SerialInv, LatestBoot, BootsQuiet
<1>6. Published'
  BY DEF SerialInv, Published
<1>7. UpIsReady' /\ StopsWithdraw'
  BY <1>3 DEF UpIsReady, StopsWithdraw, Stopping
<1>8. CallsMeetDeath'
  <2>1. handle \in Boot /\ qemu'[handle] = "exited"
    BY <1>0 DEF TypeOK, Fades
  <2>2. QED
    BY <1>1, <2>1 DEF CallsMeetDeath
<1>9. QED
  BY <1>4, <1>5, <1>6, <1>7, <1>8 DEF Serial

LEMMA CallerStepSerial ==
  ASSUME ~Overlap, SerialInv, NEW c \in Callers,
         ToolCall(c) \/ DetectDeath(c) \/ CallStep(c)
  PROVE  Serial'
<1>0. TypeOK
  BY DEF SerialInv, SafetyInv
<1>1. CASE ToolCall(c)
  BY <1>1, FadeSerial DEF ToolCall, Fades
<1>2. CASE DetectDeath(c)
  <2>1. Quiet /\ UNCHANGED <<serviceVars, begun, boot, stopper, qemu, relaunchUsed>>
    BY <1>2 DEF DetectDeath
  <2>2. call'[c].pc = "corpse" /\ \A e \in Callers \ {c} : call'[e] = call[e]
    BY <1>0, <1>2 DEF DetectDeath, TypeOK
  <2>3. QED
    BY <1>2, <2>1, <2>2, CallMoves DEF DetectDeath, Quiet, Fades, serviceVars
<1>3. CASE GiveUp(c)
  <2>1. call[c].pc # "idle" /\ call'[c].pc = "idle" /\ \A e \in Callers \ {c} : call'[e] = call[e]
    BY <1>0, <1>3 DEF GiveUp, IdleCall, TypeOK
  <2>2. QED
    BY <1>3, <2>1, CallIsAlone, CallMoves DEF GiveUp, Fades
<1>4. CASE ClaimRelaunch(c)
  <2>1. /\ call'[c].pc = "reap" /\ call'[c].handle = handle
        /\ \A e \in Callers \ {c} : call'[e] = call[e]
    BY <1>0, <1>4 DEF ClaimRelaunch, HandleToReap, TypeOK
  <2>2. QED
    BY <1>4, <2>1, CallIsAlone, CallMoves DEF ClaimRelaunch, Fades, serviceVars
<1>5. CASE Reap(c)
  <2>1. Fades /\ call[c].pc = "reap"
    BY <1>0, <1>5, LadderFades DEF Reap
  <2>2. CASE Relaunch(c)
    <3>1. \A e \in Callers : call'[e].pc = "idle"
      BY <1>0, <2>1, <2>2, CallIsAlone DEF Relaunch, TypeOK, IdleCall
    <3>2. QED
      BY <1>5, <2>1, <2>2, <3>1, CallIsAlone, BeginSerial DEF Reap, Relaunch
  <2>3. CASE ~Relaunch(c)
    <3>1. ~Retain /\ call' = [call EXCEPT ![c].pc = "rm", ![c].dir = session]
      BY <1>5, <2>3 DEF Reap
    <3>2. /\ call'[c].pc = "rm" /\ call'[c].handle = call[c].handle
          /\ \A e \in Callers \ {c} : call'[e] = call[e]
      BY <1>0, <3>1 DEF TypeOK
    <3>3. relaunchUsed /\ call[c].handle = handle
      BY <2>1 DEF SerialInv, CallsMeetDeath
    <3>4. QED
      BY <1>5, <2>1, <2>3, <3>1, <3>2, <3>3, CallIsAlone, CallMoves DEF Reap
  <2>4. QED
    BY <2>2, <2>3
<1>6. CASE DropDeadSession(c)
  <2>1. call[c].pc = "rm"
    BY <1>6 DEF DropDeadSession
  <2>2. \A e \in Callers : call'[e].pc = "idle"
    BY <1>0, <1>6, <2>1, CallIsAlone DEF DropDeadSession, Relaunch, TypeOK, IdleCall
  <2>3. QED
    BY <1>6, <2>1, <2>2, CallIsAlone, BeginSerial DEF DropDeadSession, Relaunch, Fades
<1>7. QED
  BY <1>1, <1>2, <1>3, <1>4, <1>5, <1>6 DEF CallStep


-----------------------------------------------------------------------------
(* The steps of a stop() *)

(* stop() is alone among the operations; a boot it met is still the latest. *)
LEMMA StopIsAlone ==
  ASSUME SerialInv, NEW s \in Stoppers, stopper[s].pc # "idle" \/ Quiet
  PROVE  /\ \A t \in Stoppers \ {s} : stopper[t].pc = "idle"
         /\ \A c \in Callers : call[c].pc = "idle"
  BY DEF SerialInv, OneAtATime, Quiet

(* A stop() that is past its first step moves on: no backend is left, the   *)
(* boot it met is abandoned, and it ends the session only when nothing is    *)
(* up.                                                                      *)
LEMMA StopMoves ==
  ASSUME SerialInv, NEW s \in Stoppers, stopper[s].pc # "idle" \/ Quiet,
         \A t \in Stoppers \ {s} : stopper'[t] = stopper[t],
         Fades, UNCHANGED <<session, handle, sshPort, begun, boot, call>>,
         \A b \in Boot : InFlight(b) => boot[b].epoch # epoch', epoch' \in Nat, epoch' >= epoch,
         backend' = None,
         UNCHANGED state \/ (state' = "stopped" /\ \A b \in Boot : ~Up(b)'),
         stopper'[s].pc \in {"idle"} \cup Stopping,
         stopper'[s].pc = "restart" \/ (stopper'[s].pc \in Stopping /\ stopper'[s].restart) => BootsQuiet,
         stopper'[s].pc = "powerdown" => stopper'[s].handle # None,
         stopper'[s].pc \in {"closing", "powerdown"} =>
           \A b \in Boot : Up(b) => stopper'[s].handle = b /\ stopper'[s].dir # None,
         stopper'[s].pc = "teardown" => \A b \in Boot : ~Up(b)'
  PROVE  Serial'
<1>0. TypeOK
  BY DEF SerialInv, SafetyInv
<1>1. /\ \A t \in Stoppers \ {s} : stopper'[t].pc = "idle"
      /\ \A c \in Callers : call'[c].pc = "idle"
  BY StopIsAlone
<1>2. \A b \in Boot : /\ Up(b)' => Up(b)
                      /\ InFlight(b)' <=> InFlight(b)
                      /\ InFlight(b)' => Stale(b)'
  BY DEF Up, Fades, InFlight, Stale
<1>3. BootsQuiet' <=> BootsQuiet
  BY <1>2 DEF BootsQuiet
<1>4. OneAtATime' /\ CallsMeetDeath'
  BY <1>1 DEF OneAtATime, CallsMeetDeath
<1>5. LatestBoot'
  <2>1. \A b \in Boot : boot'[b].epoch <= epoch'
    <3>1. \A b \in Boot : boot[b].epoch <= epoch /\ boot[b].epoch \in Nat
      BY <1>0 DEF SerialInv, LatestBoot, TypeOK
    <3>2. QED
      BY <1>0, <3>1 DEF TypeOK
  <2>2. QED
    BY <1>2, <1>3, <2>1 DEF SerialInv, LatestBoot
<1>6. Published' /\ UpIsReady'
  BY <1>2 DEF SerialInv, Published, UpIsReady
<1>7. StopsWithdraw'
  <2>1. ASSUME NEW t \in Stoppers \ {s}
        PROVE  stopper'[t].pc \notin Stopping \cup {"capture"}
    BY <1>1 DEF Stopping
  <2>2. \A b \in Boot : Up(b)' => Up(b)
    BY <1>2
  <2>3. stopper'[s].pc # "capture"
    BY DEF Stopping
  <2>4. QED
    BY <1>2, <1>3, <2>1, <2>2, <2>3 DEF StopsWithdraw, Stopping
<1>8. QED
  BY <1>4, <1>5, <1>6, <1>7 DEF Serial

(* What StopContinues makes of a handle and a directory read at the start.  *)
LEMMA ContinuesWith ==
  ASSUME TypeOK, NEW s \in Stoppers, NEW h \in Boot \cup {None}, NEW d \in Dir \cup {None},
         NEW restart \in BOOLEAN, StopContinues(s, h, d, restart), UNCHANGED <<qemu, boot>>,
         \A b \in Boot : Up(b) => h = b /\ d # None
  PROVE  /\ \A t \in Stoppers \ {s} : stopper'[t] = stopper[t]
         /\ UNCHANGED state \/ (state' = "stopped" /\ \A b \in Boot : ~Up(b)')
         /\ stopper'[s].pc \in {"idle"} \cup Stopping
         /\ stopper'[s].pc = "restart" \/ (stopper'[s].pc \in Stopping /\ stopper'[s].restart) => restart
         /\ stopper'[s].pc = "powerdown" => stopper'[s].handle # None
         /\ stopper'[s].pc \in {"closing", "powerdown"} =>
              \A b \in Boot : Up(b) => stopper'[s].handle = b /\ stopper'[s].dir # None
         /\ stopper'[s].pc = "teardown" => \A b \in Boot : ~Up(b)'
<1>0. None \notin Boot
  BY ConstantsAssumption DEF Boot
<1>1. CASE h = None \/ d = None
  <2>1. state' = "stopped" /\ stopper' = [stopper EXCEPT ![s] = IF restart THEN [IdleStop EXCEPT !.pc = "restart"] ELSE IdleStop]
    BY <1>1 DEF StopContinues
  <2>2. IdleStop.pc = "idle" /\ [IdleStop EXCEPT !.pc = "restart"].pc = "restart" /\ IdleStop.restart = FALSE
    BY DEF IdleStop
  <2>3. \A b \in Boot : ~Up(b)'
    BY <1>0, <1>1 DEF Up
  <2>4. stopper'[s].pc = (IF restart THEN "restart" ELSE "idle") /\ \A t \in Stoppers \ {s} : stopper'[t] = stopper[t]
    BY <2>1, <2>2 DEF TypeOK
  <2>5. QED
    BY <2>1, <2>3, <2>4 DEF Stopping
<1>2. CASE h # None /\ d # None
  <2>1. /\ stopper'[s] = [pc |-> IF qemu[h] = "exited" THEN "teardown" ELSE "powerdown",
                          handle |-> h, dir |-> d, restart |-> restart]
        /\ UNCHANGED state /\ \A t \in Stoppers \ {s} : stopper'[t] = stopper[t]
    BY <1>2 DEF StopContinues, TypeOK
  <2>2. qemu[h] = "exited" => \A b \in Boot : ~Up(b)'
    BY DEF Up
  <2>3. QED
    BY <1>2, <2>1, <2>2 DEF Stopping
<1>3. QED
  BY <1>1, <1>2

LEMMA BeginStopSerial ==
  ASSUME SerialInv, NEW s \in Stoppers, NEW restart \in BOOLEAN, BeginStop(s, restart),
         stopper[s].pc # "idle" \/ Quiet, restart => BootsQuiet
  PROVE  Serial'
<1>0. TypeOK
  BY DEF SerialInv, SafetyInv
<1>1. \A b \in Boot : Up(b) => handle = b /\ session # None
  BY DEF SerialInv, UpIsReady
<1>2. \A b \in Boot : boot[b].epoch <= epoch /\ boot[b].epoch \in Nat
  BY <1>0 DEF SerialInv, LatestBoot, TypeOK
<1>3. epoch' = epoch + 1 /\ epoch \in Nat /\ \A b \in Boot : boot[b].epoch # epoch'
  BY <1>0, <1>2 DEF TypeOK, BeginStop
<1>4. /\ Fades /\ backend' = None /\ UNCHANGED <<session, handle, sshPort, begun, boot, call, qemu>>
      /\ handle \in Boot \cup {None} /\ session \in Dir \cup {None}
  BY <1>0 DEF BeginStop, Fades, TypeOK
<1>5. CASE backend = None
  <2>1. StopContinues(s, handle, session, restart)
    BY <1>5 DEF BeginStop
  <2>2. QED
    BY <1>0, <1>1, <1>3, <1>4, <2>1, ContinuesWith, StopMoves
<1>6. CASE backend # None
  <2>1. /\ stopper'[s] = [pc |-> "closing", handle |-> handle, dir |-> session, restart |-> restart]
        /\ UNCHANGED state /\ \A t \in Stoppers \ {s} : stopper'[t] = stopper[t]
    BY <1>0, <1>6 DEF BeginStop, TypeOK
  <2>2. QED
    BY <1>1, <1>3, <1>4, <2>1, StopMoves DEF Stopping
<1>7. QED
  BY <1>5, <1>6


(* The idle reaper starts capturing a session that is ready.                *)
LEMMA ReaperFiresSerial ==
  ASSUME ~Overlap, SerialInv, NEW s \in Stoppers, ReaperFires(s)
  PROVE  Serial'
<1>0. TypeOK /\ Quiet
  BY DEF SerialInv, SafetyInv, ReaperFires
<1>1. CASE state = "ready"
  <2>1. /\ stopper'[s].pc = "capture" /\ \A t \in Stoppers \ {s} : stopper'[t].pc = "idle"
        /\ \A c \in Callers : call'[c].pc = "idle"
        /\ UNCHANGED <<serviceVars, begun, relaunchUsed, boot, call, qemu>>
    BY <1>0, <1>1 DEF ReaperFires, TypeOK, Quiet
  <2>2. OneAtATime' /\ CallsMeetDeath'
    BY <2>1 DEF OneAtATime, CallsMeetDeath
  <2>3. LatestBoot' /\ Published' /\ UpIsReady'
    BY <2>1 DEF SerialInv, LatestBoot, Published, UpIsReady, Up, BootsQuiet, InFlight, Stale, serviceVars
  <2>4. StopsWithdraw'
    <3>1. state' = "ready"
      BY <1>1, <2>1 DEF serviceVars
    <3>2. QED
      BY <2>1, <3>1 DEF StopsWithdraw, Stopping
  <2>5. QED
    BY <2>2, <2>3, <2>4 DEF Serial
<1>2. CASE state # "ready"
  BY <1>2, FadeSerial DEF ReaperFires, Fades
<1>3. QED
  BY <1>1, <1>2

LEMMA StopperStepSerial ==
  ASSUME ~Overlap, SerialInv, NEW s \in Stoppers,
         Stop(s) \/ Restart(s) \/ ReaperFires(s) \/ StopStep(s)
  PROVE  Serial'
<1>0. TypeOK
  BY DEF SerialInv, SafetyInv
<1>1. CASE Stop(s) \/ Restart(s) \/ ReaperStops(s)
  BY <1>1, BeginStopSerial DEF Stop, Restart, ReaperStops
<1>2. CASE MuxClosed(s)
  <2>1. /\ stopper[s].pc = "closing" /\ backend = None
        /\ \A b \in Boot : InFlight(b) => Stale(b)
        /\ stopper[s].restart => BootsQuiet
        /\ \A b \in Boot : Up(b) => stopper[s].handle = b /\ stopper[s].dir # None
    BY <1>2 DEF MuxClosed, SerialInv, StopsWithdraw, Stopping
  <2>2. /\ stopper[s].handle \in Boot \cup {None} /\ stopper[s].dir \in Dir \cup {None}
        /\ stopper[s].restart \in BOOLEAN /\ epoch \in Nat
    BY <1>0 DEF TypeOK
  <2>3. /\ Fades /\ StopContinues(s, stopper[s].handle, stopper[s].dir, stopper[s].restart)
        /\ UNCHANGED <<session, handle, sshPort, begun, boot, call, qemu, epoch, backend>>
    BY <1>2 DEF MuxClosed, Fades
  <2>4. QED
    BY <1>0, <2>1, <2>2, <2>3, ContinuesWith, StopMoves DEF Stale
<1>3. CASE Powerdown(s)
  <2>1. /\ stopper[s].pc = "powerdown" /\ backend = None
        /\ \A b \in Boot : InFlight(b) => Stale(b)
        /\ stopper[s].restart => BootsQuiet
        /\ \A b \in Boot : Up(b) => stopper[s].handle = b
        /\ stopper[s].handle \in Boot
    BY <1>0, <1>3 DEF Powerdown, SerialInv, StopsWithdraw, Stopping, TypeOK
  <2>2. Fades /\ UNCHANGED <<serviceVars, begun, boot, call>>
    BY <1>0, <1>3, LadderFades DEF Powerdown
  <2>3. CASE LadderStops(stopper[s].handle) /\ stopper' = [stopper EXCEPT ![s].pc = "teardown"]
    <3>1. \A b \in Boot : ~Up(b)'
      <4>1. qemu'[stopper[s].handle] # "alive"
        BY <1>0, <2>1, <2>3, LadderStopsQemu
      <4>2. QED
        BY <2>1, <2>2, <4>1 DEF Up, Fades
    <3>2. /\ stopper'[s].pc = "teardown" /\ stopper'[s].restart = stopper[s].restart
          /\ \A t \in Stoppers \ {s} : stopper'[t] = stopper[t]
      BY <1>0, <2>3 DEF TypeOK
    <3>3. QED
      BY <1>0, <2>1, <2>2, <3>1, <3>2, StopMoves DEF Stopping, Stale, serviceVars, TypeOK
  <2>4. CASE StopSettles(s)
    <3>1. /\ stopper'[s].pc = IF stopper[s].restart THEN "restart" ELSE "idle"
          /\ \A t \in Stoppers \ {s} : stopper'[t] = stopper[t]
      BY <1>0, <2>4 DEF TypeOK, StopSettles, IdleStop
    <3>2. stopper'[s].restart = FALSE
      BY <1>0, <2>4 DEF TypeOK, StopSettles, IdleStop
    <3>3. QED
      BY <1>0, <2>1, <2>2, <3>1, <3>2, StopMoves DEF Stopping, Stale, serviceVars, TypeOK
  <2>5. QED
    BY <1>3, <2>3, <2>4 DEF Powerdown
<1>4. CASE Teardown(s)
  <2>1. /\ stopper[s].pc = "teardown" /\ backend = None
        /\ \A b \in Boot : InFlight(b) => Stale(b)
        /\ stopper[s].restart => BootsQuiet
        /\ \A b \in Boot : ~Up(b)
    BY <1>4 DEF Teardown, SerialInv, StopsWithdraw, Stopping
  <2>2. /\ Fades /\ UNCHANGED <<epoch, session, handle, backend, sshPort, begun, boot, call, qemu>>
        /\ state' = "stopped" /\ StopSettles(s)
    BY <1>4 DEF Teardown, Fades
  <2>3. /\ stopper'[s].pc = (IF stopper[s].restart THEN "restart" ELSE "idle") /\ stopper'[s].restart = FALSE
        /\ \A t \in Stoppers \ {s} : stopper'[t] = stopper[t]
    BY <1>0, <2>2 DEF TypeOK, StopSettles, IdleStop
  <2>4. \A b \in Boot : ~Up(b)'
    BY <2>1, <2>2 DEF Up
  <2>5. QED
    BY <1>0, <2>1, <2>2, <2>3, <2>4, StopMoves DEF Stopping, Stale, TypeOK
<1>5. CASE RestartStarts(s)
  <2>1. /\ stopper[s].pc = "restart" /\ backend = None /\ BootsQuiet
    BY <1>5 DEF RestartStarts, SerialInv, StopsWithdraw, Stopping
  <2>2. /\ stopper'[s] = IdleStop /\ \A t \in Stoppers \ {s} : stopper'[t] = stopper[t]
        /\ IdleStop.pc = "idle"
    BY <1>0, <1>5 DEF RestartStarts, TypeOK, IdleStop
  <2>3. /\ UNCHANGED <<epoch, session, handle, backend, call, qemu>>
        /\ \A c \in Callers : call[c].pc = "idle"
        /\ \A t \in Stoppers : stopper'[t].pc = "idle"
    BY <1>5, <2>1, <2>2, StopIsAlone DEF RestartStarts
  <2>4. CASE ArmAndBoot
    BY <2>1, <2>3, <2>4, ArmSerial
  <2>5. CASE UNCHANGED <<state, sshPort, starts, relaunchUsed, begun, boot>>
    BY <1>0, <2>1, <2>2, <2>3, <2>5, StopMoves DEF BootsQuiet, Fades, TypeOK, Stopping
  <2>6. QED
    BY <1>5, <2>4, <2>5 DEF RestartStarts
<1>6. QED
  BY <1>1, <1>2, <1>3, <1>4, <1>5, ReaperFiresSerial DEF StopStep
-----------------------------------------------------------------------------
(* The guests of a service whose operations do not overlap *)

LEMMA SerialStep == ASSUME ~Overlap, SerialInv, [Next]_vars PROVE SerialInv'
<1>0. SafetyInv /\ SafetyInv' /\ TypeOK
  BY SafetyStep DEF SerialInv, SafetyInv
<1>1. CASE Start
  <2>1. Quiet /\ BootsQuiet /\ ArmAndBoot /\ UNCHANGED <<epoch, session, handle, qemu, call, stopper>>
    BY <1>1 DEF Start
  <2>2. Serial'
    BY <2>1, ArmSerial DEF Quiet
  <2>3. QED
    BY <1>0, <2>2 DEF SerialInv, Serial
<1>2. ASSUME NEW b \in Boot, QemuDies(b) PROVE Serial'
  BY <1>0, <1>2, LadderFades, FadeSerial DEF QemuDies
<1>3. ASSUME UNCHANGED vars PROVE Serial'
  BY <1>3, FadeSerial DEF vars, Fades, serviceVars
<1>4. CASE \/ \E b \in Boot : BootStep(b) \/ QemuDies(b)
           \/ \E c \in Callers : ToolCall(c) \/ DetectDeath(c) \/ CallStep(c)
           \/ \E s \in Stoppers : Stop(s) \/ Restart(s) \/ ReaperFires(s) \/ StopStep(s)
           \/ UNCHANGED vars
  <2>1. Serial'
    BY <1>2, <1>3, <1>4, BootStepSerial, CallerStepSerial, StopperStepSerial
  <2>2. QED
    BY <1>0, <2>1 DEF SerialInv, Serial
<1>5. QED
  BY <1>1, <1>4 DEF Next

LEMMA SerialInit == ASSUME Init PROVE SerialInv
<1>0. SafetyInv
  BY SafetyInit
<1>1. OneAtATime /\ CallsMeetDeath
  BY DEF Init, OneAtATime, CallsMeetDeath, IdleCall, IdleStop
<1>2. StopsWithdraw
  BY DEF Init, StopsWithdraw, Stopping, IdleStop
<1>3. LatestBoot /\ Published /\ UpIsReady
  BY DEF Init, LatestBoot, Published, UpIsReady, Up, InFlight, BootEnded, BootsQuiet
<1>4. QED
  BY <1>0, <1>1, <1>2, <1>3 DEF SerialInv

-----------------------------------------------------------------------------
(* The service implements its lifecycle *)

(* A step that changes nothing a caller of the service sees.                *)
LEMMA Unseen ==
  ASSUME UNCHANGED <<state, Serving, Allowance>>
  PROVE  [Lifecycle!Next]_(Lifecycle!vars)
  BY DEF Lifecycle!vars

LEMMA UnseenBoot ==
  ASSUME SerialInv, UNCHANGED <<state, backend, relaunchUsed, call>>
  PROVE  [Lifecycle!Next]_(Lifecycle!vars)
  BY Unseen DEF Serving, Allowance, RelaunchPending

LEMMA BootImplements ==
  ASSUME SerialInv, NEW b \in Boot, BootStep(b)
  PROVE  [Lifecycle!Next]_(Lifecycle!vars)
<1>1. CASE Sweep(b) \/ Prepare(b) \/ Spawn(b) \/ SpawnDone(b) \/ SshConfirm(b) \/ Abandon(b) \/ FailPower(b)
  BY <1>1, UnseenBoot DEF Sweep, Prepare, Spawn, SpawnDone, SshConfirm, Abandon, FailPower, serviceVars
<1>2. CASE Extras(b)
  <2>1. CASE Publish(b)
    <3>1. state = "booting" /\ b # None
      BY <1>2, <2>1, ConstantsAssumption DEF Extras, At, InFlight, BootEnded, Publish, SerialInv, LatestBoot, Boot
    <3>2. state' = "ready" /\ Serving' /\ UNCHANGED Allowance
      BY <1>2, <2>1, <3>1 DEF Extras, Publish, Serving, Allowance, RelaunchPending
    <3>3. QED
      BY <3>1, <3>2 DEF Lifecycle!Next, Lifecycle!BootReady
  <2>2. CASE UNCHANGED <<backend, state, reaperTimer>>
    BY <1>2, <2>2, UnseenBoot DEF Extras
  <2>3. QED
    BY <1>2, <2>1, <2>2 DEF Extras
<1>3. CASE FailSettle(b)
  <2>1. UNCHANGED <<backend, relaunchUsed, call>> /\ state' = FailedVerdict
    BY <1>3 DEF FailSettle
  <2>2. CASE state = "booting"
    <3>1. state' = "failed" /\ ~Serving' /\ UNCHANGED Allowance
      BY <2>1, <2>2 DEF FailedVerdict, Serving, Allowance, RelaunchPending
    <3>2. QED
      BY <2>2, <3>1 DEF Lifecycle!Next, Lifecycle!BootFails
  <2>3. CASE state # "booting"
    BY <2>1, <2>3, UnseenBoot DEF FailedVerdict
  <2>4. QED
    BY <2>2, <2>3
<1>4. QED
  BY <1>1, <1>2, <1>3 DEF BootStep

(* The operator's start re-arms the relaunch.                               *)
LEMMA ArmImplements ==
  ASSUME ArmAndBoot, \A c \in Callers : call'[c].pc = "idle"
  PROVE  [Lifecycle!Next]_(Lifecycle!vars)
<1>1. state \in {"off", "stopped", "failed"} /\ state' = "booting" /\ ~Serving'
  BY DEF ArmAndBoot, BeginBoot, Serving
<1>2. Allowance' = 1
  BY DEF ArmAndBoot, Allowance
<1>3. QED
  BY <1>1, <1>2 DEF Lifecycle!Next, Lifecycle!Start

(* The relaunch that a call claimed is spent when its boot begins.          *)
LEMMA RelaunchImplements ==
  ASSUME SerialInv, NEW c \in Callers, call[c].pc \in {"reap", "rm"}, Relaunch(c), UNCHANGED relaunchUsed
  PROVE  [Lifecycle!Next]_(Lifecycle!vars)
<1>0. TypeOK
  BY DEF SerialInv, SafetyInv
<1>1. state = "ready" /\ relaunchUsed
  BY DEF SerialInv, CallsMeetDeath
<1>2. state' = "booting" /\ ~Serving'
  BY DEF Relaunch, BeginBoot, Serving
<1>3. RelaunchPending
  BY DEF RelaunchPending
<1>4. ~RelaunchPending'
  <2>1. \A e \in Callers : call'[e].pc = "idle"
    BY <1>0, CallIsAlone DEF Relaunch, TypeOK, IdleCall
  <2>2. QED
    BY <2>1 DEF RelaunchPending
<1>5. Allowance = 1 /\ Allowance' = 0
  BY <1>1, <1>3, <1>4 DEF Allowance
<1>6. QED
  BY <1>1, <1>2, <1>5 DEF Lifecycle!Next, Lifecycle!Relaunch

LEMMA CallerImplements ==
  ASSUME ~Overlap, SerialInv, NEW c \in Callers,
         ToolCall(c) \/ DetectDeath(c) \/ CallStep(c)
  PROVE  [Lifecycle!Next]_(Lifecycle!vars)
<1>0. TypeOK
  BY DEF SerialInv, SafetyInv
<1>1. CASE ToolCall(c)
  BY <1>1, UnseenBoot DEF ToolCall, serviceVars
<1>2. CASE DetectDeath(c)
  <2>1. UNCHANGED <<serviceVars, relaunchUsed>> /\ (RelaunchPending' <=> RelaunchPending)
    BY <1>0, <1>2 DEF DetectDeath, RelaunchPending, TypeOK
  <2>2. QED
    BY <2>1, Unseen DEF Serving, Allowance, serviceVars
<1>3. CASE GiveUp(c)
  <2>1. state = "ready" /\ relaunchUsed /\ state' = "failed" /\ UNCHANGED <<backend, relaunchUsed>>
    BY <1>3, CallIsAlone DEF GiveUp
  <2>2. ~RelaunchPending /\ ~RelaunchPending'
    <3>1. \A e \in Callers : call[e].pc \notin {"reap", "rm"} /\ call'[e].pc \notin {"reap", "rm"}
      BY <1>0, <1>3, CallIsAlone DEF GiveUp, IdleCall, TypeOK
    <3>2. QED
      BY <3>1 DEF RelaunchPending
  <2>3. Allowance = 0 /\ Allowance' = 0 /\ ~Serving'
    BY <2>1, <2>2 DEF Allowance, Serving
  <2>4. QED
    BY <2>1, <2>3 DEF Lifecycle!Next, Lifecycle!GiveUp
<1>4. CASE ClaimRelaunch(c)
  <2>1. ~relaunchUsed /\ UNCHANGED <<state, backend>> /\ call'[c].pc = "reap"
    BY <1>0, <1>4 DEF ClaimRelaunch, RelaunchAllowed, serviceVars, TypeOK
  <2>2. Allowance = 1 /\ Allowance' = 1
    BY <2>1 DEF Allowance, RelaunchPending
  <2>3. QED
    BY <2>1, <2>2, Unseen DEF Serving
<1>5. CASE Reap(c)
  <2>1. CASE Relaunch(c)
    BY <1>5, <2>1, RelaunchImplements DEF Reap
  <2>2. CASE ~Relaunch(c)
    <3>1. /\ UNCHANGED <<state, backend, relaunchUsed>> /\ call[c].pc = "reap"
          /\ call' = [call EXCEPT ![c].pc = "rm", ![c].dir = session]
      BY <1>5, <2>2 DEF Reap
    <3>2. call'[c].pc = "rm"
      BY <1>0, <3>1 DEF TypeOK
    <3>3. RelaunchPending /\ RelaunchPending'
      BY <3>1, <3>2 DEF RelaunchPending
    <3>4. QED
      BY <3>1, <3>3, Unseen DEF Serving, Allowance
  <2>3. QED
    BY <2>1, <2>2
<1>6. CASE DropDeadSession(c)
  BY <1>6, RelaunchImplements DEF DropDeadSession
<1>7. QED
  BY <1>1, <1>2, <1>3, <1>4, <1>5, <1>6 DEF CallStep

(* A stop() withdraws the backend first, and ends the session after it.     *)
LEMMA StopImplements ==
  ASSUME UNCHANGED <<relaunchUsed, call>>, backend = None, backend' = None,
         UNCHANGED state \/ state' = "stopped"
  PROVE  [Lifecycle!Next]_(Lifecycle!vars)
<1>1. ~Serving /\ ~Serving' /\ UNCHANGED <<Serving, Allowance>>
  BY DEF Serving, Allowance, RelaunchPending
<1>2. CASE UNCHANGED state
  BY <1>1, <1>2, Unseen
<1>3. CASE state' = "stopped"
  BY <1>1, <1>3 DEF Lifecycle!Next, Lifecycle!Stopped
<1>4. QED
  BY <1>2, <1>3

LEMMA StopperImplements ==
  ASSUME ~Overlap, SerialInv, NEW s \in Stoppers,
         Stop(s) \/ Restart(s) \/ ReaperFires(s) \/ StopStep(s)
  PROVE  [Lifecycle!Next]_(Lifecycle!vars)
<1>1. CASE Stop(s) \/ Restart(s) \/ ReaperStops(s)
  <2>1. PICK restart : BeginStop(s, restart)
    BY <1>1 DEF Stop, Restart, ReaperStops
  <2>2. UNCHANGED <<relaunchUsed, call>> /\ backend' = None
    BY <2>1 DEF BeginStop
  <2>3. CASE backend = None
    BY <2>1, <2>2, <2>3, StopImplements DEF BeginStop, StopContinues
  <2>4. CASE backend # None
    <3>1. UNCHANGED <<state, Allowance>> /\ ~Serving'
      BY <2>1, <2>2, <2>4 DEF BeginStop, Serving, Allowance, RelaunchPending
    <3>2. CASE Serving
      BY <3>1, <3>2 DEF Lifecycle!Next, Lifecycle!Withdraw
    <3>3. CASE ~Serving
      BY <3>1, <3>3, Unseen DEF Serving
    <3>4. QED
      BY <3>2, <3>3
  <2>5. QED
    BY <2>3, <2>4
<1>2. CASE ReaperFires(s)
  BY <1>2, UnseenBoot DEF ReaperFires, serviceVars
<1>3. CASE MuxClosed(s) \/ Powerdown(s) \/ Teardown(s)
  <2>1. backend = None
    BY <1>3 DEF MuxClosed, Powerdown, Teardown, SerialInv, StopsWithdraw, Stopping
  <2>2. QED
    BY <1>3, <2>1, StopImplements DEF MuxClosed, Powerdown, Teardown, StopContinues, serviceVars
<1>4. CASE RestartStarts(s)
  <2>1. CASE ArmAndBoot
    <3>1. \A c \in Callers : call'[c].pc = "idle"
      BY <1>4, StopIsAlone DEF RestartStarts
    <3>2. QED
      BY <2>1, <3>1, ArmImplements
  <2>2. CASE UNCHANGED <<state, sshPort, starts, relaunchUsed, begun, boot>>
    BY <1>4, <2>2, UnseenBoot DEF RestartStarts
  <2>3. QED
    BY <1>4, <2>1, <2>2 DEF RestartStarts
<1>5. QED
  BY <1>1, <1>2, <1>3, <1>4 DEF StopStep

(* While operations do not overlap, the service steps only along the        *)
(* documented diagram: a relaunch is one per operator start, a stop takes   *)
(* the backend away before it reports the session stopped.                  *)
THEOREM LifecycleIsImplemented ==
  ASSUME ~Overlap
  PROVE  Spec => ImplementsLifecycle
<1>1. Init => Lifecycle!Init
  BY DEF Init, Lifecycle!Init, Allowance, Serving
<1>2. ASSUME SerialInv, [Next]_vars PROVE [Lifecycle!Next]_(Lifecycle!vars)
  <2>1. CASE Start
    BY <2>1, ArmImplements DEF Start, Quiet
  <2>2. CASE UNCHANGED vars
    BY <1>2, <2>2, UnseenBoot DEF vars
  <2>3. ASSUME NEW b \in Boot, QemuDies(b) PROVE [Lifecycle!Next]_(Lifecycle!vars)
    BY <1>2, <2>3, UnseenBoot DEF QemuDies, serviceVars
  <2>4. QED
    BY <1>2, <2>1, <2>2, <2>3, BootImplements, CallerImplements, StopperImplements DEF Next
<1>3. QED
  BY <1>1, <1>2, SerialInit, SerialStep, PTL DEF Spec, ImplementsLifecycle, Lifecycle!Spec
=============================================================================
