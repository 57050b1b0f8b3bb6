------------------------------ MODULE GuestBuild ------------------------------
(***************************************************************************)
(* One golden image from the inside (vm/provision/install.ts, provision.ts *)
(* and snapshot.ts): what the installer and the provisioning pass put on   *)
(* the disk, the readiness gate in front of both, the poweroff and the     *)
(* stop ladder behind them, and the manifest the snapshot writes.  The     *)
(* three commands run one after another, in a terminal or as the           *)
(* dashboard's build chain; guest.json, provision.sh and the boot mode     *)
(* (tui/wizards/guest-setup.ts, tui/dashboard.ts) are edited beside them,  *)
(* and each command reads them when it gets there.                         *)
(*                                                                         *)
(* VmTree has the files of the build directories and of the images, the    *)
(* commands of other terminals and the server beside them.  Left out here: *)
(* encryption, and of the files in the guest all but the default agent.    *)
(***************************************************************************)
EXTENDS Naturals, Sequences, FiniteSets

CONSTANTS Users, Agents,  \* usernames and agents that guest.json may name
          MaxBuilds,      \* bound: build sessions
          MaxEdits        \* bound: edits of guest.json, provision.sh and the mode

ASSUME BuildAssumption ==
  /\ Users # {} /\ Agents # {} /\ "none" \notin Users \cup Agents
  /\ MaxBuilds \in Nat \ {0} /\ MaxEdits \in Nat

Guests  == [user : Users, agent : Agents]
Flavors == {"base", "agent"}

VARIABLES
  wanted,  \* what is configured now: guest.json, the flavor of the mode, provision.sh
  edits,   \* edits so far
  builds,  \* the build sessions, oldest first
  golden,  \* the newest image: what its manifest says and what its disk holds
  qemu,    \* the QEMU of a build, and whether the command that started it is gone
  job      \* the command under way

buildVars == <<wanted, edits, builds, golden, qemu, job>>

(* A build session: answers is the user its cidata asks for, the rest what *)
(* its disk holds, and recovery whether the file with the password of that *)
(* user can be read.  script is the version of provision.sh that ran last. *)
Build(disk, answers) ==
  [disk |-> disk, answers |-> answers, recovery |-> TRUE, user |-> "none", agent |-> "none",
   script |-> 0, pin |-> FALSE]

\* A wedged QEMU has outlived SIGKILL: it hangs in the kernel.
NoQemu == [on |-> 0, media |-> "disk", up |-> FALSE, orphan |-> FALSE, wedged |-> FALSE]
NoGuest == [user |-> "none", agent |-> "none"]
NoJob  == [cmd |-> "none", pc |-> "idle", on |-> 0, guest |-> NoGuest, flavor |-> "base",
           port |-> FALSE, step |-> 1, failed |-> FALSE]

BuildInit ==
  /\ \E g \in Guests, f \in Flavors : wanted = [guest |-> g, flavor |-> f, script |-> 0]
  /\ edits = 0 /\ builds = <<>> /\ qemu = NoQemu /\ job = NoJob
  /\ golden = [sealed |-> FALSE, manifest |-> wanted, user |-> "none", agent |-> "none", script |-> 0]

NewestBuild(S) == {i \in S : \A j \in S : j <= i}
Provisionable  == NewestBuild({i \in 1 .. Len(builds) : builds[i].disk})
Promotable     == NewestBuild({i \in 1 .. Len(builds) : builds[i].disk /\ builds[i].pin})

\* A command is refused while the scan of the pidfiles finds a live QEMU of ours.
Admitted_ == job.pc = "idle" /\ qemu.on = 0

\* startQemu: a QEMU whose socket does not come is sent TERM and KILL, and the start
\* fails; one that outlives both stays.
StartFails(on, media) ==
  qemu' \in {qemu, [NoQemu EXCEPT !.on = on, !.media = media, !.wedged = TRUE]}

-----------------------------------------------------------------------------
(* vm install.                                                             *)

\* The ISO is fetched, which may take hours, before guest.json is read.
InstallBegins ==
  /\ Admitted_ /\ Len(builds) < MaxBuilds
  /\ job' = [NoJob EXCEPT !.cmd = "install", !.pc = "iso"]
  /\ UNCHANGED <<wanted, edits, builds, golden, qemu>>

\* guest.json becomes the answers; then disk and QEMU, each of which may fail
\* and leaves what there is.
InstallStarts ==
  /\ job.pc = "iso"
  /\ LET s == Len(builds) + 1
         Session(disk) == Append(builds, Build(disk, wanted.guest.user))
     IN \/ job' = NoJob /\ UNCHANGED <<builds, qemu>>
        \/ \E disk \in BOOLEAN : builds' = Session(disk) /\ job' = NoJob /\ UNCHANGED qemu
        \/ builds' = Session(TRUE) /\ job' = NoJob /\ StartFails(s, "installer")
        \/ /\ builds' = Session(TRUE)
           /\ qemu' = [NoQemu EXCEPT !.on = s, !.media = "installer"]
           /\ job' = [job EXCEPT !.pc = "gate", !.on = s, !.guest = wanted.guest]
  /\ UNCHANGED <<wanted, edits, golden>>

-----------------------------------------------------------------------------
(* vm provision.                                                           *)

\* The newest complete build session is booted from its disk, once the password of
\* its user has been read.
ProvisionBegins ==
  /\ Admitted_
  /\ \E s \in Provisionable :
       /\ builds[s].recovery
       /\ \/ /\ qemu' = [NoQemu EXCEPT !.on = s]
             /\ job' = [NoJob EXCEPT !.cmd = "provision", !.pc = "gate", !.on = s,
                                     !.guest = wanted.guest, !.flavor = wanted.flavor]
          \/ StartFails(s, "disk") /\ UNCHANGED job
  /\ UNCHANGED <<wanted, edits, builds, golden>>

Steps == <<"base", "agent", "hook", "pin", "prewarm", "script", "verify">>

GuestAnswers == qemu.on = job.on /\ qemu.up /\ builds[job.on].user = job.guest.user

\* The steps run in the guest; those after the default agent do not depend on
\* one another, and a second pass repeats them all.
StepDone ==
  /\ job.pc = "steps" /\ GuestAnswers
  /\ builds' = CASE Steps[job.step] = "agent"  -> [builds EXCEPT ![job.on].agent = job.guest.agent]
                 [] Steps[job.step] = "pin"    -> [builds EXCEPT ![job.on].pin = TRUE]
                 [] Steps[job.step] = "script" -> [builds EXCEPT ![job.on].script = wanted.script]
                 [] OTHER -> builds
  /\ job' = IF job.step < Len(Steps) THEN [job EXCEPT !.step = @ + 1] ELSE [job EXCEPT !.pc = "poweroff"]
  /\ UNCHANGED <<wanted, edits, golden, qemu>>

\* A command exits non-zero, or the guest is gone: the error is kept, and the
\* guest is shut down all the same.  A pre-warm that fails ends an agent pass only.
StepFails ==
  /\ job.pc = "steps"
  /\ Steps[job.step] = "prewarm" /\ GuestAnswers => job.flavor = "agent"
  /\ job' = [job EXCEPT !.pc = "poweroff", !.failed = TRUE]
  /\ UNCHANGED <<wanted, edits, builds, golden, qemu>>

-----------------------------------------------------------------------------
(* The readiness gate of both: two logins, ten seconds apart.              *)

PortFound ==
  /\ job.pc = "gate" /\ ~job.port /\ qemu.on = job.on
  /\ job' = [job EXCEPT !.port = TRUE]
  /\ UNCHANGED <<wanted, edits, builds, golden, qemu>>

FirstAnswer ==
  /\ job.pc = "gate" /\ job.port /\ GuestAnswers
  /\ job' = [job EXCEPT !.pc = "gap"]
  /\ UNCHANGED <<wanted, edits, builds, golden, qemu>>

\* The second login decides; an installer that reboots in between loses its turn.
SecondAnswer ==
  /\ job.pc = "gap"
  /\ job' = [job EXCEPT !.pc = IF ~GuestAnswers THEN "gate"
                               ELSE IF job.cmd = "install" THEN "poweroff" ELSE "steps"]
  /\ UNCHANGED <<wanted, edits, builds, golden, qemu>>

\* Broken variant: a gate that fails ends the command at once.
GateFailsEarly ==
  /\ job.pc \in {"gate", "gap"}
  /\ job.pc = "gap" => qemu.on # job.on
  /\ job' = NoJob
  /\ UNCHANGED <<wanted, edits, builds, golden, qemu>>

\* QEMU has exited, or the budget is spent: install goes to the ladder, provision
\* waits for an exit first.
GateFails ==
  /\ job.pc \in {"gate", "gap"}
  /\ job.pc = "gap" => qemu.on # job.on
  /\ job' = [job EXCEPT !.pc = IF job.cmd = "install" THEN "ladder" ELSE "wait", !.failed = TRUE]
  /\ UNCHANGED <<wanted, edits, builds, golden, qemu>>

-----------------------------------------------------------------------------
(* The end of both: poweroff over ssh, 180 seconds, the stop ladder.       *)

\* The outcome of the poweroff is noted, and not relied on.  Install reads the
\* password only now: a file that cannot be read ends the command as it is.
PowersOff ==
  /\ job.pc = "poweroff"
  /\ IF job.cmd = "install" /\ ~builds[job.on].recovery
     THEN job' = NoJob /\ UNCHANGED qemu
     ELSE /\ job' = [job EXCEPT !.pc = "wait"]
          /\ qemu' \in {qemu, IF qemu.on = job.on THEN [qemu EXCEPT !.up = FALSE] ELSE qemu}
  /\ UNCHANGED <<wanted, edits, builds, golden>>

SeesExit ==
  /\ job.pc = "wait" /\ qemu.on # job.on
  /\ job' = NoJob
  /\ UNCHANGED <<wanted, edits, builds, golden, qemu>>

WaitExpires ==
  /\ job.pc = "wait" /\ qemu.on = job.on
  /\ job' = [job EXCEPT !.pc = "ladder"]
  /\ UNCHANGED <<wanted, edits, builds, golden, qemu>>

\* Whichever rung ends it; after SIGKILL the command fails as well.  A QEMU that
\* outlives SIGKILL makes the ladder throw: the command ends and the QEMU stays.
LadderEnds ==
  /\ job.pc = "ladder"
  /\ qemu' \in IF qemu.on = job.on THEN {NoQemu, [qemu EXCEPT !.wedged = TRUE]} ELSE {qemu}
  /\ job' = NoJob
  /\ UNCHANGED <<wanted, edits, builds, golden>>

-----------------------------------------------------------------------------
(* vm snapshot.                                                            *)

\* guest.json and the mode are read again, before the disk is measured.
SnapshotBegins ==
  /\ Admitted_
  /\ \E s \in Promotable :
       job' = [NoJob EXCEPT !.cmd = "snapshot", !.pc = "measure", !.on = s,
                            !.guest = wanted.guest, !.flavor = wanted.flavor]
  /\ UNCHANGED <<wanted, edits, builds, golden, qemu>>

MeasureFails ==
  /\ job.pc = "measure" /\ job' = NoJob
  /\ UNCHANGED <<wanted, edits, builds, golden, qemu>>

\* provision.sh is hashed as it is now; the disk moves, the manifest is last.
Seals ==
  /\ job.pc = "measure"
  /\ LET b == builds[job.on]
     IN golden' = [sealed |-> TRUE, user |-> b.user, agent |-> b.agent, script |-> b.script,
                   manifest |-> [guest |-> job.guest, flavor |-> job.flavor, script |-> wanted.script]]
  /\ builds' = [builds EXCEPT ![job.on].disk = FALSE]
  /\ job' = NoJob
  /\ UNCHANGED <<wanted, edits, qemu>>

-----------------------------------------------------------------------------
(* What happens beside the commands.                                       *)

\* The installer creates the user it was told; the installed system has it.
\* A disk nothing was installed on does not boot.
GuestComesUp ==
  /\ qemu.on # 0 /\ ~qemu.up
  /\ qemu.media = "installer" \/ builds[qemu.on].user # "none"
  /\ qemu' = [qemu EXCEPT !.up = TRUE]
  /\ builds' = [builds EXCEPT ![qemu.on].user = IF @ = "none" THEN builds[qemu.on].answers ELSE @]
  /\ UNCHANGED <<wanted, edits, golden, job>>

\* A reboot, or an sshd that restarts.
GuestGoesDown ==
  /\ qemu.on # 0 /\ qemu.up /\ qemu' = [qemu EXCEPT !.up = FALSE]
  /\ UNCHANGED <<wanted, edits, builds, golden, job>>

QemuEnds ==
  /\ qemu.on # 0 /\ qemu' = NoQemu
  /\ UNCHANGED <<wanted, edits, builds, golden, job>>

\* The file is removed, or its mode is changed.
RecoveryLost ==
  /\ \E s \in 1 .. Len(builds) :
       builds[s].recovery /\ builds' = [builds EXCEPT ![s].recovery = FALSE]
  /\ UNCHANGED <<wanted, edits, golden, qemu, job>>

\* The command is killed; QEMU is a process of its own.
CommandDies ==
  /\ job.pc # "idle" /\ job' = NoJob
  /\ qemu' = [qemu EXCEPT !.orphan = qemu.on # 0]
  /\ UNCHANGED <<wanted, edits, builds, golden>>

\* The guest setup wizard (after its warning when an image exists), $EDITOR on
\* provision.sh, or a new boot mode.
Edit ==
  /\ edits < MaxEdits /\ edits' = edits + 1
  /\ \/ \E g \in Guests \ {wanted.guest} : wanted' = [wanted EXCEPT !.guest = g]
     \/ wanted' = [wanted EXCEPT !.script = edits + 1]
     \/ \E f \in Flavors \ {wanted.flavor} : wanted' = [wanted EXCEPT !.flavor = f]
  /\ UNCHANGED <<builds, golden, qemu, job>>

BuildNext ==
  \/ InstallBegins \/ InstallStarts \/ ProvisionBegins \/ StepDone \/ StepFails
  \/ PortFound \/ FirstAnswer \/ SecondAnswer \/ GateFails
  \/ PowersOff \/ SeesExit \/ WaitExpires \/ LadderEnds
  \/ SnapshotBegins \/ MeasureFails \/ Seals
  \/ GuestComesUp \/ GuestGoesDown \/ QemuEnds \/ RecoveryLost
  \/ CommandDies \/ Edit

BuildSpec == BuildInit /\ [][BuildNext]_buildVars

-----------------------------------------------------------------------------
BuildTypeOK ==
  /\ wanted \in [guest : Guests, flavor : Flavors, script : 0 .. MaxEdits] /\ edits \in 0 .. MaxEdits
  /\ Len(builds) <= MaxBuilds /\ qemu.on \in 0 .. Len(builds) /\ job.on \in 0 .. Len(builds)

(* A build command that has returned, with a result or an error, has left  *)
(* no QEMU behind that could have been ended, whichever of the start, the  *)
(* gate, the steps in the guest, the poweroff and the 180 s after it       *)
(* failed; with one exception, an installer whose recovery password cannot *)
(* be read when the poweroff needs it.  Only a command that is killed      *)
(* leaves its guest running.  About startQemu, the tail of runInstall and  *)
(* the two tries of runProvision.                                          *)
NoGuestOutlivesTheCommand ==
  job.pc = "idle" /\ ~qemu.orphan /\ qemu.on # 0
    => qemu.wedged \/ (qemu.media = "installer" /\ ~builds[qemu.on].recovery)

(* The stop ladder is the fallback of every end of an install but a clean  *)
(* poweroff: "This arm covers gate failures AND a poweroff that never      *)
(* landed ... the ladder is MANDATORY" (install.ts:650-653).  Refuted: the *)
(* recovery password is read in front of both (install.ts:629), where a    *)
(* file that cannot be read ends the command, and QEMU runs on.            *)
LadderIsMandatory == job.pc = "idle" /\ ~qemu.orphan /\ qemu.on # 0 => qemu.wedged

(* A manifest names the user its installer created, as its own comment     *)
(* says ("The Linux user the installer created", snapshot.ts:137); the     *)
(* service logs in as that user.  Refuted: the snapshot takes the user     *)
(* from the guest.json of now.                                             *)
ManifestNamesTheInstalledUser == golden.sealed => golden.manifest.guest.user = golden.user
=============================================================================
