------------------------- MODULE OperatorConsoleProofs -------------------------
(***************************************************************************)
(* What holds of the operator's console for any number of processes,       *)
(* builds, edits, channels and actions.                                    *)
(*                                                                         *)
(* A behaviour of the console runs one part while the others rest, so each *)
(* step is, for every part, a step of its own or no step at all            *)
(* (EachPartSteps).  That lets every part have an invariant of its own:    *)
(*                                                                         *)
(*   CommandsHoldTheirGuest  a QEMU that is nobody's orphan belongs to the *)
(*                           command under way, past its start, or is one  *)
(*                           that command could not end (GuestBuild)       *)
(*   FilledBeforeRenamed     what a process is about to rename is whole,   *)
(*                           and no other process writes to it (HomeFiles) *)
(*   PushedInOrder           the files no longer on the list are delivered *)
(*                           (SessionExtras)                               *)
(*   ModalsHoldTheKeys       the keys are dead for a reason, and the       *)
(*                           dashboard is left for good (DashboardScreens) *)
(*   ActionsTakeTurns        one modal at a time, whose copy of the        *)
(*                           settings is the saved one (Dashboard)         *)
(*   ServerIsAccounted       what the server runs with, or who will see to *)
(*                           it (Dashboard)                                *)
(*   FeedInOrder             the ring holds the latest events in order, and*)
(*                           what a client has seen and has on its wire    *)
(*                           goes on from there (StatusFeed)               *)
(*   SavedIsSane             config.json, once saved, and what a form is   *)
(*                           filled from are valid (SettingsForms)         *)
(*   FieldsAreKept           so are the numbers of its sandbox section, and*)
(*                           the last save changed one field               *)
(*   StoreIsWhole            guest.json, the secrets and the open editor   *)
(*                           are what was saved (GuestForms)               *)
(*   AnswersAreKept          the lists of guest.json survive their text,   *)
(*                           and the last save changed one field           *)
(*   ChannelsAreFiled        the default names a channel of the file, in   *)
(*                           every copy of it (Channels)                   *)
(***************************************************************************)
EXTENDS OperatorConsole, FiniteSetTheorems, SequenceTheorems, TLAPS

-----------------------------------------------------------------------------
(* One step of the console.                                                *)

LEMMA EachPartSteps ==
  ASSUME [ConsoleNext]_consoleVars
  PROVE  /\ [BuildNext]_buildVars
         /\ [HomeNext]_homeVars
         /\ [ExtrasNext]_extrasVars
         /\ [ScreensNext]_screenVars
         /\ [DashNext]_dashVars
         /\ [ProbeNext]_probeVars
         /\ [FeedNext]_feedVars
<1> DEFINE All == /\ [BuildNext]_buildVars
                  /\ [HomeNext]_homeVars
                  /\ [ExtrasNext]_extrasVars
                  /\ [ScreensNext]_screenVars
                  /\ [DashNext]_dashVars
                  /\ [ProbeNext]_probeVars
                  /\ [FeedNext]_feedVars
           Rests == UNCHANGED <<buildVars, homeVars, extrasVars, screenVars, dashVars, probeVars, feedVars>>
<1>1. CASE \/ Runs("control") /\ ControlNext /\ Resting("control")
           \/ Runs("settings") /\ SettingsNext /\ Resting("settings")
           \/ Runs("guest") /\ GuestNext /\ Resting("guest")
           \/ Runs("secrets") /\ SecretsNext /\ Resting("secrets")
           \/ Runs("channels") /\ ChannelsNext /\ Resting("channels")
  <2>1. Rests
    BY <1>1 DEF Resting
  <2> QED
    BY <2>1
<1>2. CASE Runs("dashboard") /\ DashNext /\ Resting("dashboard")
  BY <1>2 DEF Resting
<1>3. CASE Runs("screens") /\ ScreensNext /\ Resting("screens")
  BY <1>3 DEF Resting
<1>4. CASE Runs("build") /\ BuildNext /\ Resting("build")
  BY <1>4 DEF Resting
<1>5. CASE Runs("home") /\ HomeNext /\ Resting("home")
  BY <1>5 DEF Resting
<1>6. CASE Runs("probe") /\ ProbeNext /\ Resting("probe")
  BY <1>6 DEF Resting
<1>7. CASE Runs("extras") /\ ExtrasNext /\ Resting("extras")
  BY <1>7 DEF Resting
<1>8. CASE UNCHANGED consoleVars
  <2>1. Rests
    BY <1>8 DEF consoleVars
  <2> QED
    BY <2>1
<1>9. CASE Runs("feed") /\ FeedNext /\ Resting("feed")
  BY <1>9 DEF Resting
<1> QED
  BY <1>1, <1>2, <1>3, <1>4, <1>5, <1>6, <1>7, <1>8, <1>9 DEF ConsoleNext

LEMMA EachFormSteps ==
  ASSUME [ConsoleNext]_consoleVars
  PROVE  /\ [SettingsNext]_<<config, form, saves, lastSave>>
         /\ [GuestNext \/ SecretsNext]_<<guestFormVars, secretsVars, runningVars, turns>>
         /\ [ChannelsNext]_channelVars
<1> DEFINE formVars == <<config, form, saves, lastSave>>
           storeVars == <<guestFormVars, secretsVars, runningVars, turns>>
<1>1. CASE Runs("settings") /\ SettingsNext /\ Resting("settings")
  BY <1>1 DEF Resting
<1>2. CASE \/ Runs("guest") /\ GuestNext /\ Resting("guest")
           \/ Runs("secrets") /\ SecretsNext /\ Resting("secrets")
  BY <1>2 DEF Resting
<1>3. CASE Runs("channels") /\ ChannelsNext /\ Resting("channels")
  BY <1>3 DEF Resting
<1>4. CASE \/ Runs("control") /\ Resting("control")
           \/ Runs("dashboard") /\ Resting("dashboard")
           \/ Runs("screens") /\ Resting("screens")
           \/ Runs("build") /\ Resting("build")
           \/ Runs("home") /\ Resting("home")
           \/ Runs("probe") /\ Resting("probe")
           \/ Runs("extras") /\ Resting("extras")
           \/ Runs("feed") /\ Resting("feed")
  <2>1. UNCHANGED formVars /\ UNCHANGED storeVars /\ UNCHANGED channelVars
    BY <1>4 DEF Resting
  <2> QED
    BY <2>1
<1>5. CASE UNCHANGED consoleVars
  <2>1. UNCHANGED formVars /\ UNCHANGED storeVars /\ UNCHANGED channelVars
    BY <1>5 DEF consoleVars, settingsVars, guestVars, guestFormVars, secretsVars, runningVars
  <2> QED
    BY <2>1
<1> QED
  BY <1>1, <1>2, <1>3, <1>4, <1>5 DEF ConsoleNext

-----------------------------------------------------------------------------
(* GuestBuild: the commands and the QEMU of a build.                       *)

\* Past the start and not yet returned.
Holding == {"gate", "gap", "steps", "poweroff", "wait", "ladder"}

Sessions == [disk : BOOLEAN, answers : Users, recovery : BOOLEAN, user : Users \cup {"none"},
             agent : Agents \cup {"none"}, script : Nat, pin : BOOLEAN]

Qemus(n) == [on : 0 .. n, media : {"disk", "installer"}, up : BOOLEAN, orphan : BOOLEAN,
             wedged : BOOLEAN]
Jobs(n) == [cmd : {"none", "install", "provision", "snapshot"},
            pc : Holding \cup {"idle", "iso", "measure"}, on : 0 .. n,
            guest : Guests \cup {NoGuest}, flavor : Flavors, port : BOOLEAN,
            step : 1 .. 7, failed : BOOLEAN]

BuildShape ==
  /\ wanted \in [guest : Guests, flavor : Flavors, script : Nat] /\ edits \in Nat
  /\ builds \in Seq(Sessions)
  /\ qemu \in Qemus(Len(builds)) /\ job \in Jobs(Len(builds))

HasItsCommand ==
  job.pc \in Holding /\ job.on = qemu.on /\ (job.cmd = "install" => qemu.media = "installer")

LostInstaller == qemu.media = "installer" /\ ~builds[qemu.on].recovery

\* A QEMU whose command was not killed is the one of the command under way, or one
\* that the command could not end.
CommandsHoldTheirGuest ==
  /\ BuildShape
  /\ qemu.on # 0 /\ ~qemu.orphan => HasItsCommand \/ qemu.wedged \/ LostInstaller

LEMMA NoneIsShaped == \A n \in Nat : NoJob \in Jobs(n) /\ NoQemu \in Qemus(n)
BY DEF NoJob, NoQemu, Flavors, Jobs, Qemus, NoGuest

LEMMA BuildStarts == BuildInit => CommandsHoldTheirGuest
<1> SUFFICES ASSUME BuildInit PROVE CommandsHoldTheirGuest
  OBVIOUS
<1>1. wanted \in [guest : Guests, flavor : Flavors, script : Nat] /\ edits \in Nat
  BY DEF BuildInit
<1>2. builds = <<>> /\ builds \in Seq(Sessions) /\ Len(builds) = 0
  BY DEF BuildInit
<1>3. job = NoJob /\ qemu = NoQemu
  BY DEF BuildInit
<1>4. BuildShape
  BY <1>1, <1>2, <1>3, NoneIsShaped DEF BuildShape
<1> QED
  BY <1>3, <1>4 DEF CommandsHoldTheirGuest, NoQemu

\* What the sessions of a step must keep for what is said of QEMU.
SessionsKept ==
  /\ builds' \in Seq(Sessions) /\ Len(builds) <= Len(builds')
  /\ \A i \in 1 .. Len(builds) : ~builds[i].recovery => ~builds'[i].recovery

LEMMA SessionsCounted ==
  ASSUME BuildShape
  PROVE  Len(builds) \in Nat
BY DEF BuildShape

LEMMA SessionsStay ==
  ASSUME BuildShape, UNCHANGED builds
  PROVE  SessionsKept
BY DEF BuildShape, SessionsKept

\* A session is edited, and its password stays unreadable.
LEMMA SessionEdited ==
  ASSUME BuildShape, NEW s \in 1 .. Len(builds), NEW b \in Sessions,
         builds' = [builds EXCEPT ![s] = b], ~builds[s].recovery => ~b.recovery
  PROVE  SessionsKept /\ Len(builds') = Len(builds)
<1>1. builds' \in Seq(Sessions) /\ Len(builds') = Len(builds)
  BY DEF BuildShape
<1>2. \A i \in 1 .. Len(builds) : builds'[i] = IF i = s THEN b ELSE builds[i]
  BY DEF BuildShape
<1>3. Len(builds) \in Nat
  BY DEF BuildShape
<1> QED
  BY <1>1, <1>2, <1>3 DEF SessionsKept

LEMMA SessionAdded ==
  ASSUME BuildShape, NEW b \in Sessions, builds' = Append(builds, b)
  PROVE  SessionsKept /\ Len(builds') = Len(builds) + 1
<1>1. Len(builds) \in Nat /\ builds' \in Seq(Sessions) /\ Len(builds') = Len(builds) + 1
  BY DEF BuildShape
<1>2. \A i \in 1 .. Len(builds) : builds'[i] = builds[i]
  BY DEF BuildShape
<1> QED
  BY <1>1, <1>2 DEF SessionsKept

\* A step that keeps QEMU keeps what is said of it, as long as its command goes on.
LEMMA QemuStays ==
  ASSUME CommandsHoldTheirGuest, BuildShape', SessionsKept,
         qemu'.on = qemu.on, qemu'.media = qemu.media, qemu.wedged => qemu'.wedged,
         ~qemu'.orphan => ~qemu.orphan,
         HasItsCommand /\ qemu.on # 0 /\ ~qemu'.orphan => HasItsCommand' \/ qemu'.wedged \/ LostInstaller
  PROVE  CommandsHoldTheirGuest'
<1> SUFFICES ASSUME qemu'.on # 0, ~qemu'.orphan
             PROVE  HasItsCommand' \/ qemu'.wedged \/ LostInstaller'
  BY DEF CommandsHoldTheirGuest
<1>1. HasItsCommand \/ qemu.wedged \/ LostInstaller
  BY DEF CommandsHoldTheirGuest
<1>2. qemu.on \in 1 .. Len(builds)
  <2>1. qemu.on \in 0 .. Len(builds) /\ Len(builds) \in Nat /\ qemu.on # 0
    BY SessionsCounted DEF CommandsHoldTheirGuest, BuildShape, Qemus
  <2> QED
    BY <2>1
<1>3. LostInstaller => LostInstaller'
  BY <1>2 DEF LostInstaller, SessionsKept
<1> QED
  BY <1>1, <1>3

\* The steps that change the command alone.
LEMMA JobSteps ==
  ASSUME CommandsHoldTheirGuest, UNCHANGED <<wanted, edits, builds, qemu>>,
         job' \in Jobs(Len(builds)),
         HasItsCommand /\ qemu.on # 0 => HasItsCommand'
  PROVE  CommandsHoldTheirGuest'
<1>1. BuildShape
  BY DEF CommandsHoldTheirGuest
<1>2. BuildShape'
  BY <1>1 DEF BuildShape
<1>3. SessionsKept
  BY <1>1, SessionsStay
<1> QED
  BY <1>2, <1>3, QemuStays

\* The steps after which QEMU is gone.
LEMMA QemuGoes ==
  ASSUME CommandsHoldTheirGuest, UNCHANGED <<wanted, edits, builds>>,
         qemu' = NoQemu, job' \in Jobs(Len(builds))
  PROVE  CommandsHoldTheirGuest'
<1>1. BuildShape /\ Len(builds) \in Nat
  BY SessionsCounted DEF CommandsHoldTheirGuest
<1>2. qemu' \in Qemus(Len(builds))
  BY <1>1, NoneIsShaped
<1>3. BuildShape'
  BY <1>1, <1>2 DEF BuildShape
<1> QED
  BY <1>3 DEF CommandsHoldTheirGuest, NoQemu

LEMMA BuildKeeps ==
  CommandsHoldTheirGuest /\ [BuildNext]_buildVars => CommandsHoldTheirGuest'
<1> SUFFICES ASSUME CommandsHoldTheirGuest, [BuildNext]_buildVars
             PROVE  CommandsHoldTheirGuest'
  OBVIOUS
<1>a. BuildShape /\ Len(builds) \in Nat
  BY SessionsCounted DEF CommandsHoldTheirGuest
<1>b. /\ job \in Jobs(Len(builds)) /\ qemu \in Qemus(Len(builds))
      /\ wanted \in [guest : Guests, flavor : Flavors, script : Nat] /\ edits \in Nat
  BY <1>a DEF BuildShape
<1>c. NoJob \in Jobs(Len(builds)) /\ NoQemu \in Qemus(Len(builds))
  BY <1>a, NoneIsShaped
<1>1. CASE InstallBegins
  <2>1. job' = [NoJob EXCEPT !.cmd = "install", !.pc = "iso"]
    BY <1>1 DEF InstallBegins
  <2>2. job' \in Jobs(Len(builds))
    BY <1>c, <2>1 DEF Jobs, NoJob
  <2>3. ~HasItsCommand
    BY <1>1 DEF InstallBegins, Admitted_, HasItsCommand, Holding
  <2> QED
    BY <1>1, <2>2, <2>3, JobSteps DEF InstallBegins
<1>2. CASE InstallStarts
  <2> DEFINE s == Len(builds) + 1
             Session(disk) == Append(builds, Build(disk, wanted.guest.user))
  <2>1. /\ job.pc = "iso" /\ UNCHANGED <<wanted, edits, golden>> /\ ~HasItsCommand
        /\ s \in 0 .. s
    BY <1>2, <1>a DEF InstallStarts, HasItsCommand, Holding
  <2>2. \A disk \in BOOLEAN : Build(disk, wanted.guest.user) \in Sessions
    BY <1>b DEF Build, Sessions, Guests
  <2>3. CASE job' = NoJob /\ UNCHANGED <<builds, qemu>>
    BY <1>c, <2>1, <2>3, JobSteps
  <2>4. ASSUME NEW disk \in BOOLEAN, builds' = Session(disk), job' = NoJob, UNCHANGED qemu
        PROVE  CommandsHoldTheirGuest'
    <3>1. SessionsKept /\ Len(builds') = s
      BY <1>a, <2>2, <2>4, SessionAdded
    <3>2. NoJob \in Jobs(s) /\ qemu \in Qemus(s)
      BY <1>a, <1>b, NoneIsShaped DEF Qemus
    <3>3. BuildShape'
      BY <1>a, <1>b, <2>1, <2>4, <3>1, <3>2 DEF BuildShape, SessionsKept
    <3> QED
      BY <2>1, <2>4, <3>1, <3>3, QemuStays
  <2>5. ASSUME builds' = Session(TRUE), job' = NoJob, StartFails(s, "installer")
        PROVE  CommandsHoldTheirGuest'
    <3>1. SessionsKept /\ Len(builds') = s
      BY <1>a, <2>2, <2>5, SessionAdded
    <3>2. CASE UNCHANGED qemu
      BY <2>4, <2>5, <3>2
    <3>3. CASE qemu' = [NoQemu EXCEPT !.on = s, !.media = "installer", !.wedged = TRUE]
      <4>0. s \in Nat /\ NoJob \in Jobs(s)
        BY <1>a, NoneIsShaped
      <4>1. qemu' \in Qemus(s) /\ qemu'.wedged
        BY <2>1, <3>3 DEF NoQemu, Qemus
      <4>2. BuildShape'
        BY <1>a, <1>b, <2>1, <2>5, <3>1, <4>0, <4>1 DEF BuildShape, SessionsKept
      <4> QED
        BY <4>1, <4>2 DEF CommandsHoldTheirGuest
    <3> QED
      BY <2>5, <3>2, <3>3 DEF StartFails
  <2>6. ASSUME builds' = Session(TRUE),
               qemu' = [NoQemu EXCEPT !.on = s, !.media = "installer"],
               job' = [job EXCEPT !.pc = "gate", !.on = s, !.guest = wanted.guest]
        PROVE  CommandsHoldTheirGuest'
    <3>1. SessionsKept /\ Len(builds') = s
      BY <1>a, <2>2, <2>6, SessionAdded
    <3>2. qemu' \in Qemus(s) /\ job' \in Jobs(s)
      BY <1>a, <1>b, <2>1, <2>6 DEF Qemus, NoQemu, Jobs, Holding
    <3>3. BuildShape'
      BY <1>a, <1>b, <2>1, <2>6, <3>1, <3>2 DEF BuildShape, SessionsKept
    <3>4. HasItsCommand'
      BY <1>b, <2>6 DEF HasItsCommand, NoQemu, Jobs, Holding
    <3> QED
      BY <3>3, <3>4 DEF CommandsHoldTheirGuest
  <2> QED
    BY <1>2, <2>3, <2>4, <2>5, <2>6 DEF InstallStarts
<1>3. CASE ProvisionBegins
  <2>1. PICK s \in Provisionable :
          \/ /\ qemu' = [NoQemu EXCEPT !.on = s]
             /\ job' = [NoJob EXCEPT !.cmd = "provision", !.pc = "gate", !.on = s,
                                     !.guest = wanted.guest, !.flavor = wanted.flavor]
          \/ StartFails(s, "disk") /\ UNCHANGED job
    BY <1>3 DEF ProvisionBegins
  <2>2. s \in 0 .. Len(builds)
    BY <1>a DEF Provisionable, NewestBuild
  <2>3. ~HasItsCommand /\ UNCHANGED <<wanted, edits, builds, golden>>
    BY <1>3 DEF ProvisionBegins, Admitted_, HasItsCommand, Holding
  <2>4. CASE /\ qemu' = [NoQemu EXCEPT !.on = s]
             /\ job' = [NoJob EXCEPT !.cmd = "provision", !.pc = "gate", !.on = s,
                                     !.guest = wanted.guest, !.flavor = wanted.flavor]
    <3>1. qemu' \in Qemus(Len(builds)) /\ job' \in Jobs(Len(builds))
      BY <1>b, <1>c, <2>2, <2>4 DEF Qemus, NoQemu, Jobs, NoJob, Holding
    <3>2. BuildShape'
      BY <1>a, <2>3, <3>1 DEF BuildShape
    <3>3. HasItsCommand'
      BY <2>4 DEF HasItsCommand, NoQemu, NoJob, Holding
    <3> QED
      BY <3>2, <3>3 DEF CommandsHoldTheirGuest
  <2>5. CASE UNCHANGED qemu /\ UNCHANGED job
    BY <1>b, <2>3, <2>5, JobSteps
  <2>6. CASE /\ qemu' = [NoQemu EXCEPT !.on = s, !.media = "disk", !.wedged = TRUE]
             /\ UNCHANGED job
    <3>1. qemu' \in Qemus(Len(builds)) /\ qemu'.wedged
      BY <1>c, <2>2, <2>6 DEF Qemus, NoQemu
    <3>2. BuildShape'
      BY <1>a, <2>3, <2>6, <3>1 DEF BuildShape
    <3> QED
      BY <3>1, <3>2 DEF CommandsHoldTheirGuest
  <2> QED
    BY <2>1, <2>4, <2>5, <2>6 DEF StartFails
<1>4. CASE StepDone
  <2>1. /\ job.pc = "steps" /\ qemu.on = job.on /\ UNCHANGED <<wanted, edits, golden, qemu>>
        /\ job' = IF job.step < Len(Steps) THEN [job EXCEPT !.step = @ + 1]
                                          ELSE [job EXCEPT !.pc = "poweroff"]
    BY <1>4 DEF StepDone, GuestAnswers
  <2>2. \/ builds' = [builds EXCEPT ![job.on].agent = job.guest.agent]
        \/ builds' = [builds EXCEPT ![job.on].pin = TRUE]
        \/ builds' = [builds EXCEPT ![job.on].script = wanted.script]
        \/ builds' = builds
    BY <1>4 DEF StepDone
  <2>3. job' \in Jobs(Len(builds)) /\ job'.on = job.on /\ job'.cmd = job.cmd /\ job'.pc \in Holding
    <3>1. Len(Steps) = 7
      BY DEF Steps
    <3>2. job.step \in 1 .. 7 /\ (job.step < 7 => job.step + 1 \in 1 .. 7)
      BY <1>b DEF Jobs
    <3>3. CASE job.step < 7
      <4>1. job' = [job EXCEPT !.step = job.step + 1]
        BY ONLY <2>1, <3>1, <3>3
      <4> QED
        BY ONLY <1>b, <2>1, <3>2, <3>3, <4>1 DEF Jobs, Holding
    <3>4. CASE ~(job.step < 7)
      <4>1. job' = [job EXCEPT !.pc = "poweroff"]
        BY ONLY <2>1, <3>1, <3>4
      <4> QED
        BY ONLY <1>b, <4>1 DEF Jobs, Holding
    <3> QED
      BY ONLY <3>3, <3>4
  <2>4. CASE qemu.on = 0
    <3>1. job.on = 0 /\ 0 \notin DOMAIN builds /\ builds \in Seq(Sessions)
      BY <1>a, <2>1, <2>4 DEF BuildShape
    <3>2. UNCHANGED builds
      BY <2>2, <3>1
    <3>3. SessionsKept /\ BuildShape'
      BY <1>a, <2>1, <2>3, <3>2, SessionsStay DEF BuildShape
    <3> QED
      BY <2>1, <2>4, <3>3, QemuStays
  <2>5. CASE qemu.on # 0
    <3>1. job.on \in 1 .. Len(builds)
      BY <1>a, <1>b, <2>1, <2>5 DEF Qemus
    <3> DEFINE old == builds[job.on]
    <3>2. old \in Sessions
      BY <1>a, <3>1 DEF BuildShape
    <3>3. /\ [old EXCEPT !.agent = job.guest.agent] \in Sessions
          /\ [old EXCEPT !.pin = TRUE] \in Sessions
          /\ [old EXCEPT !.script = wanted.script] \in Sessions
      <4>1. job.guest.agent \in Agents \cup {"none"}
        BY <1>b DEF Jobs, Guests, NoGuest
      <4> QED
        BY <1>b, <3>2, <4>1 DEF Sessions
    <3>4. SessionsKept /\ Len(builds') = Len(builds)
      <4> DEFINE Edited(b) == builds' = [builds EXCEPT ![job.on] = b]
      <4>1. builds' = builds \/ \E b \in Sessions : b.recovery = old.recovery /\ Edited(b)
        <5>1. CASE builds' = [builds EXCEPT ![job.on].agent = job.guest.agent]
          <6>1. Edited([old EXCEPT !.agent = job.guest.agent])
            BY <5>1
          <6>2. [old EXCEPT !.agent = job.guest.agent].recovery = old.recovery
            BY <3>2 DEF Sessions
          <6> QED
            BY <3>3, <6>1, <6>2
        <5>2. CASE builds' = [builds EXCEPT ![job.on].pin = TRUE]
          <6>1. Edited([old EXCEPT !.pin = TRUE])
            BY <5>2
          <6>2. [old EXCEPT !.pin = TRUE].recovery = old.recovery
            BY <3>2 DEF Sessions
          <6> QED
            BY <3>3, <6>1, <6>2
        <5>3. CASE builds' = [builds EXCEPT ![job.on].script = wanted.script]
          <6>1. Edited([old EXCEPT !.script = wanted.script])
            BY <5>3
          <6>2. [old EXCEPT !.script = wanted.script].recovery = old.recovery
            BY <3>2 DEF Sessions
          <6> QED
            BY <3>3, <6>1, <6>2
        <5> QED
          BY <2>2, <5>1, <5>2, <5>3
      <4>2. CASE builds' = builds
        BY <1>a, <4>2, SessionsStay
      <4>3. ASSUME NEW b \in Sessions, b.recovery = old.recovery, Edited(b)
            PROVE  SessionsKept /\ Len(builds') = Len(builds)
        BY <1>a, <3>1, <4>3, SessionEdited
      <4> QED
        BY <4>1, <4>2, <4>3
    <3>5. BuildShape'
      BY <1>b, <2>1, <2>3, <3>4 DEF BuildShape, SessionsKept
    <3>6. HasItsCommand => HasItsCommand'
      BY <2>1, <2>3 DEF HasItsCommand
    <3> QED
      BY <2>1, <3>4, <3>5, <3>6, QemuStays
  <2> QED
    BY <2>4, <2>5
<1>5. CASE StepFails
  <2>1. job' \in Jobs(Len(builds)) /\ job'.on = job.on /\ job'.cmd = job.cmd /\ job'.pc \in Holding
    BY <1>5, <1>b DEF StepFails, Jobs, Holding
  <2> QED
    BY <1>5, <2>1, JobSteps DEF StepFails, HasItsCommand
<1>6. CASE PortFound
  <2>1. job' \in Jobs(Len(builds)) /\ job'.on = job.on /\ job'.cmd = job.cmd /\ job'.pc \in Holding
    BY <1>6, <1>b DEF PortFound, Jobs, Holding
  <2> QED
    BY <1>6, <2>1, JobSteps DEF PortFound, HasItsCommand
<1>7. CASE FirstAnswer
  <2>1. job' \in Jobs(Len(builds)) /\ job'.on = job.on /\ job'.cmd = job.cmd /\ job'.pc \in Holding
    BY <1>7, <1>b DEF FirstAnswer, Jobs, Holding
  <2> QED
    BY <1>7, <2>1, JobSteps DEF FirstAnswer, HasItsCommand
<1>8. CASE SecondAnswer
  <2>1. job' \in Jobs(Len(builds)) /\ job'.on = job.on /\ job'.cmd = job.cmd /\ job'.pc \in Holding
    BY <1>8, <1>b DEF SecondAnswer, Jobs, Holding
  <2> QED
    BY <1>8, <2>1, JobSteps DEF SecondAnswer, HasItsCommand
<1>9. CASE GateFails
  <2>1. job' \in Jobs(Len(builds)) /\ job'.on = job.on /\ job'.cmd = job.cmd /\ job'.pc \in Holding
    BY <1>9, <1>b DEF GateFails, Jobs, Holding
  <2> QED
    BY <1>9, <2>1, JobSteps DEF GateFails, HasItsCommand
<1>10. CASE PowersOff
  <2>1. job.pc = "poweroff" /\ UNCHANGED <<wanted, edits, builds, golden>> /\ SessionsKept
    BY <1>10, <1>a, SessionsStay DEF PowersOff
  <2>2. CASE job.cmd = "install" /\ ~builds[job.on].recovery
    <3>1. job' = NoJob /\ UNCHANGED qemu
      BY <1>10, <2>2 DEF PowersOff
    <3>2. BuildShape'
      BY <1>a, <1>c, <2>1, <3>1 DEF BuildShape
    <3>3. HasItsCommand => LostInstaller
      BY <2>2 DEF HasItsCommand, LostInstaller
    <3> QED
      BY <2>1, <3>1, <3>2, <3>3, QemuStays
  <2>3. CASE ~(job.cmd = "install" /\ ~builds[job.on].recovery)
    <3>1. /\ job' = [job EXCEPT !.pc = "wait"]
          /\ qemu' = qemu \/ qemu' = [qemu EXCEPT !.up = FALSE]
      BY <1>10, <2>3 DEF PowersOff
    <3>2. job' \in Jobs(Len(builds)) /\ qemu' \in Qemus(Len(builds))
      BY <1>b, <3>1 DEF Jobs, Qemus, Holding
    <3>3. BuildShape'
      BY <1>a, <2>1, <3>2 DEF BuildShape
    <3>4. /\ qemu'.on = qemu.on /\ qemu'.media = qemu.media /\ qemu'.wedged = qemu.wedged
          /\ qemu'.orphan = qemu.orphan
          /\ job'.on = job.on /\ job'.cmd = job.cmd /\ job'.pc \in Holding
      BY <1>b, <3>1 DEF Jobs, Qemus, Holding
    <3>5. HasItsCommand => HasItsCommand'
      BY <3>4 DEF HasItsCommand
    <3> QED
      BY <2>1, <3>3, <3>4, <3>5, QemuStays
  <2> QED
    BY <2>2, <2>3
<1>11. CASE SeesExit
  <2>1. job' = NoJob /\ ~HasItsCommand /\ UNCHANGED <<wanted, edits, builds, qemu>>
    BY <1>11 DEF SeesExit, HasItsCommand
  <2> QED
    BY <1>c, <2>1, JobSteps
<1>12. CASE WaitExpires
  <2>1. job' \in Jobs(Len(builds)) /\ job'.on = job.on /\ job'.cmd = job.cmd /\ job'.pc \in Holding
    BY <1>12, <1>b DEF WaitExpires, Jobs, Holding
  <2> QED
    BY <1>12, <2>1, JobSteps DEF WaitExpires, HasItsCommand
<1>13. CASE LadderEnds
  <2>1. /\ job' = NoJob /\ UNCHANGED <<wanted, edits, builds, golden>>
        /\ \/ qemu' = NoQemu
           \/ qemu.on = job.on /\ qemu' = [qemu EXCEPT !.wedged = TRUE]
           \/ qemu.on # job.on /\ qemu' = qemu
    BY <1>13 DEF LadderEnds
  <2>2. CASE qemu' = NoQemu
    BY <1>c, <2>1, <2>2, QemuGoes
  <2>3. CASE qemu' = [qemu EXCEPT !.wedged = TRUE]
    <3>1. qemu' \in Qemus(Len(builds)) /\ qemu'.wedged
      BY <1>b, <2>3 DEF Qemus
    <3>2. BuildShape'
      BY <1>a, <1>c, <2>1, <3>1 DEF BuildShape
    <3> QED
      BY <3>1, <3>2 DEF CommandsHoldTheirGuest
  <2>4. CASE qemu.on # job.on /\ qemu' = qemu
    BY <1>c, <2>1, <2>4, JobSteps DEF HasItsCommand
  <2> QED
    BY <2>1, <2>2, <2>3, <2>4
<1>14. CASE SnapshotBegins
  <2>1. PICK s \in Promotable :
          job' = [NoJob EXCEPT !.cmd = "snapshot", !.pc = "measure", !.on = s,
                               !.guest = wanted.guest, !.flavor = wanted.flavor]
    BY <1>14 DEF SnapshotBegins
  <2>2. s \in 0 .. Len(builds)
    BY <1>a DEF Promotable, NewestBuild
  <2>3. job' \in Jobs(Len(builds))
    BY <1>b, <1>c, <2>1, <2>2 DEF Jobs, NoJob
  <2>4. ~HasItsCommand
    BY <1>14 DEF SnapshotBegins, Admitted_, HasItsCommand, Holding
  <2> QED
    BY <1>14, <2>3, <2>4, JobSteps DEF SnapshotBegins
<1>15. CASE MeasureFails
  <2>1. job' = NoJob /\ ~HasItsCommand /\ UNCHANGED <<wanted, edits, builds, qemu>>
    BY <1>15 DEF MeasureFails, HasItsCommand, Holding
  <2> QED
    BY <1>c, <2>1, JobSteps
<1>16. CASE Seals
  <2>1. /\ job' = NoJob /\ ~HasItsCommand /\ UNCHANGED <<wanted, edits, qemu>>
        /\ builds' = [builds EXCEPT ![job.on].disk = FALSE]
    BY <1>16 DEF Seals, HasItsCommand, Holding
  <2>2. SessionsKept /\ Len(builds') = Len(builds)
    <3>1. CASE job.on \notin 1 .. Len(builds)
      <4>1. job.on \notin DOMAIN builds /\ builds \in Seq(Sessions)
        BY <1>a, <3>1 DEF BuildShape
      <4>2. builds' = builds
        BY <2>1, <4>1
      <4> QED
        BY <1>a, <4>2, SessionsStay
    <3>2. CASE job.on \in 1 .. Len(builds)
      <4> DEFINE b == [builds[job.on] EXCEPT !.disk = FALSE]
      <4>1. builds[job.on] \in Sessions /\ builds' = [builds EXCEPT ![job.on] = b]
        BY <1>a, <2>1, <3>2 DEF BuildShape
      <4>2. b \in Sessions /\ b.recovery = builds[job.on].recovery
        BY <4>1 DEF Sessions
      <4> HIDE DEF b
      <4> QED
        BY <1>a, <3>2, <4>1, <4>2, SessionEdited
    <3> QED
      BY <3>1, <3>2
  <2>3. BuildShape'
    BY <1>b, <1>c, <2>1, <2>2 DEF BuildShape, SessionsKept
  <2> QED
    BY <2>1, <2>2, <2>3, QemuStays
<1>17. CASE GuestComesUp
  <2>1. /\ qemu.on # 0 /\ qemu' = [qemu EXCEPT !.up = TRUE] /\ UNCHANGED <<wanted, edits, golden, job>>
        /\ builds' = [builds EXCEPT ![qemu.on].user = IF @ = "none" THEN builds[qemu.on].answers ELSE @]
    BY <1>17 DEF GuestComesUp
  <2>2. qemu.on \in 1 .. Len(builds)
    BY <1>a, <1>b, <2>1 DEF Qemus
  <2> DEFINE old == builds[qemu.on]
             b == [old EXCEPT !.user = IF @ = "none" THEN old.answers ELSE @]
  <2>3. old \in Sessions /\ builds' = [builds EXCEPT ![qemu.on] = b]
    BY <1>a, <2>1, <2>2 DEF BuildShape
  <2>4. b \in Sessions /\ b.recovery = old.recovery
    BY <2>3 DEF Sessions
  <2> HIDE DEF b
  <2>5. SessionsKept /\ Len(builds') = Len(builds)
    BY <1>a, <2>2, <2>3, <2>4, SessionEdited
  <2>6. /\ qemu' \in Qemus(Len(builds)) /\ qemu'.on = qemu.on /\ qemu'.media = qemu.media
        /\ qemu'.wedged = qemu.wedged /\ qemu'.orphan = qemu.orphan
    BY <1>b, <2>1 DEF Qemus
  <2>7. BuildShape'
    BY <1>b, <2>1, <2>5, <2>6 DEF BuildShape, SessionsKept
  <2>8. HasItsCommand => HasItsCommand'
    BY <2>1, <2>6 DEF HasItsCommand
  <2> QED
    BY <2>5, <2>6, <2>7, <2>8, QemuStays
<1>18. CASE GuestGoesDown
  <2>1. qemu' = [qemu EXCEPT !.up = FALSE] /\ UNCHANGED <<wanted, edits, builds, golden, job>>
    BY <1>18 DEF GuestGoesDown
  <2>2. /\ qemu' \in Qemus(Len(builds)) /\ qemu'.on = qemu.on /\ qemu'.media = qemu.media
        /\ qemu'.wedged = qemu.wedged /\ qemu'.orphan = qemu.orphan
    BY <1>b, <2>1 DEF Qemus
  <2>3. BuildShape' /\ SessionsKept
    BY <1>a, <2>1, <2>2, SessionsStay DEF BuildShape
  <2>4. HasItsCommand => HasItsCommand'
    BY <2>1, <2>2 DEF HasItsCommand
  <2> QED
    BY <2>2, <2>3, <2>4, QemuStays
<1>19. CASE QemuEnds
  BY <1>19, <1>b, QemuGoes DEF QemuEnds
<1>20. CASE RecoveryLost
  <2>1. PICK s \in 1 .. Len(builds) :
          builds[s].recovery /\ builds' = [builds EXCEPT ![s].recovery = FALSE]
    BY <1>20 DEF RecoveryLost
  <2> DEFINE b == [builds[s] EXCEPT !.recovery = FALSE]
  <2>2. builds[s] \in Sessions /\ builds' = [builds EXCEPT ![s] = b]
    BY <1>a, <2>1 DEF BuildShape
  <2>6. b \in Sessions /\ ~b.recovery
    BY <2>2 DEF Sessions
  <2> HIDE DEF b
  <2>3. SessionsKept /\ Len(builds') = Len(builds)
    BY <1>a, <2>2, <2>6, SessionEdited
  <2>4. UNCHANGED <<wanted, edits, qemu, job>>
    BY <1>20 DEF RecoveryLost
  <2>5. BuildShape'
    BY <1>b, <2>3, <2>4 DEF BuildShape, SessionsKept
  <2> QED
    BY <2>3, <2>4, <2>5, QemuStays DEF HasItsCommand
<1>21. CASE CommandDies
  <2>1. /\ job' = NoJob /\ qemu' = [qemu EXCEPT !.orphan = qemu.on # 0]
        /\ UNCHANGED <<wanted, edits, builds, golden>>
    BY <1>21 DEF CommandDies
  <2>2. qemu' \in Qemus(Len(builds)) /\ (qemu'.on # 0 => qemu'.orphan)
    BY <1>b, <2>1 DEF Qemus
  <2>3. BuildShape'
    BY <1>a, <1>c, <2>1, <2>2 DEF BuildShape
  <2> QED
    BY <2>2, <2>3 DEF CommandsHoldTheirGuest
<1>22. CASE Edit
  <2>1. UNCHANGED <<builds, golden, qemu, job>> /\ edits' = edits + 1
    BY <1>22 DEF Edit
  <2>2. \/ \E g \in Guests : wanted' = [wanted EXCEPT !.guest = g]
        \/ wanted' = [wanted EXCEPT !.script = edits + 1]
        \/ \E f \in Flavors : wanted' = [wanted EXCEPT !.flavor = f]
    BY <1>22 DEF Edit
  <2>3. wanted' \in [guest : Guests, flavor : Flavors, script : Nat] /\ edits' \in Nat
    BY <1>b, <2>1, <2>2
  <2>4. BuildShape' /\ SessionsKept
    BY <1>a, <2>1, <2>3, SessionsStay DEF BuildShape
  <2> QED
    BY <2>1, <2>4, QemuStays DEF HasItsCommand
<1>23. CASE UNCHANGED buildVars
  <2>1. UNCHANGED <<wanted, edits, builds, qemu, job>>
    BY <1>23 DEF buildVars
  <2> QED
    BY <1>b, <2>1, JobSteps DEF HasItsCommand
<1> QED
  BY <1>1, <1>2, <1>3, <1>4, <1>5, <1>6, <1>7, <1>8, <1>9, <1>10, <1>11, <1>12, <1>13,
     <1>14, <1>15, <1>16, <1>17, <1>18, <1>19, <1>20, <1>21, <1>22, <1>23 DEF BuildNext

LEMMA GuestIsHeld == CommandsHoldTheirGuest => NoGuestOutlivesTheCommand
BY DEF CommandsHoldTheirGuest, HasItsCommand, LostInstaller, NoGuestOutlivesTheCommand, Holding

-----------------------------------------------------------------------------
(* HomeFiles: processes that replace the same documents.                   *)

HomeShape ==
  /\ DOMAIN home = Documents
  /\ DOMAIN task = Writers
  /\ \A w \in Writers : DOMAIN task[w] = DOMAIN Idle_

\* A process that is about to rename finds its own temporary file, filled.
FilledBeforeRenamed ==
  /\ HomeShape
  /\ HomeStaysWhole
  /\ \A w \in Writers :
       task[w].pc = "rename" /\ TempName(w, Target(w)) \in DOMAIN temp
         => temp[TempName(w, Target(w))].is = "whole"

LEMMA HomeStarts == HomeInit => FilledBeforeRenamed
<1> SUFFICES ASSUME HomeInit PROVE FilledBeforeRenamed
  OBVIOUS
<1>1. HomeShape
  BY DEF HomeInit, HomeShape, Idle_
<1>2. \A d \in Documents : home[d].is # "torn"
  BY DEF HomeInit, Absent
<1>3. \A w \in Writers : task[w].pc # "rename"
  BY DEF HomeInit, Idle_
<1> QED
  BY <1>1, <1>2, <1>3 DEF FilledBeforeRenamed, HomeStaysWhole

\* The steps of a command that leave the files alone, and put no process at its rename.
LEMMA TasksOnly ==
  ASSUME FilledBeforeRenamed, UNCHANGED <<home, temp>>,
         NEW w \in Writers, DOMAIN task' = Writers,
         \A v \in Writers \ {w} : task'[v] = task[v],
         DOMAIN task'[w] = DOMAIN Idle_, task'[w].pc # "rename"
  PROVE  FilledBeforeRenamed'
<1>1. HomeShape'
  BY DEF FilledBeforeRenamed, HomeShape
<1>2. HomeStaysWhole'
  BY DEF FilledBeforeRenamed, HomeStaysWhole
<1>3. ASSUME NEW v \in Writers, task'[v].pc = "rename", TempName(v, Target(v))' \in DOMAIN temp'
      PROVE  temp'[TempName(v, Target(v))'].is = "whole"
  <2>1. v # w /\ task'[v] = task[v]
    BY <1>3
  <2> QED
    BY <1>3, <2>1 DEF FilledBeforeRenamed, TempName, Target
<1> QED
  BY <1>1, <1>2, <1>3 DEF FilledBeforeRenamed

LEMMA HomeKeeps == FilledBeforeRenamed /\ [HomeNext]_homeVars => FilledBeforeRenamed'
<1> SUFFICES ASSUME FilledBeforeRenamed, [HomeNext]_homeVars PROVE FilledBeforeRenamed'
  OBVIOUS
<1>1. CASE UNCHANGED homeVars
  BY <1>1 DEF homeVars, FilledBeforeRenamed, HomeShape, HomeStaysWhole, TempName, Target
<1>2. ASSUME NEW w \in Writers, NEW kind, Begin(w, kind) PROVE FilledBeforeRenamed'
  <2>1. task'[w] = [Idle_ EXCEPT !.pc = "asking", !.kind = kind, !.seed = Load("settings")]
    BY <1>2 DEF Begin, FilledBeforeRenamed, HomeShape
  <2>2. DOMAIN task'[w] = DOMAIN Idle_ /\ task'[w].pc = "asking"
    BY <2>1 DEF Idle_
  <2> QED
    BY <1>2, <2>2, TasksOnly DEF Begin, FilledBeforeRenamed, HomeShape
<1>3. ASSUME NEW w \in Writers, NEW kind, NEW id, NEW todo, Answered(w, kind, id, todo)
      PROVE  FilledBeforeRenamed'
  <2>1. DOMAIN task'[w] = DOMAIN Idle_ /\ task'[w].pc = "create"
    BY <1>3 DEF Answered, FilledBeforeRenamed, HomeShape, Idle_
  <2> QED
    BY <1>3, <2>1, TasksOnly DEF Answered, FilledBeforeRenamed, HomeShape
<1>4. ASSUME NEW w \in Writers, GivesUp(w) \/ Dies(w) PROVE FilledBeforeRenamed'
  <2>1. task' = [task EXCEPT ![w] = Idle_] /\ UNCHANGED <<home, temp>>
    BY <1>4 DEF GivesUp, Dies, Throws
  <2>2. DOMAIN task'[w] = DOMAIN Idle_ /\ task'[w].pc = "idle"
    BY <2>1 DEF FilledBeforeRenamed, HomeShape, Idle_
  <2> QED
    BY <2>1, <2>2, TasksOnly DEF FilledBeforeRenamed, HomeShape
<1>5. ASSUME NEW w \in Writers, Create(w) PROVE FilledBeforeRenamed'
  <2>1. UNCHANGED home
    BY <1>5 DEF Create
  <2> DEFINE name == TempName(w, Target(w))
  <2>2. CASE /\ temp' = [n \in DOMAIN temp \cup {name} |-> IF n = name THEN Torn ELSE temp[n]]
             /\ task' = [task EXCEPT ![w].pc = "fill"]
    <3>1. HomeShape'
      BY <2>1, <2>2 DEF FilledBeforeRenamed, HomeShape, Idle_
    <3>2. ASSUME NEW v \in Writers, task'[v].pc = "rename", TempName(v, Target(v))' \in DOMAIN temp'
          PROVE  temp'[TempName(v, Target(v))'].is = "whole"
      <4>1. v # w /\ task'[v] = task[v]
        BY <2>2, <3>2 DEF FilledBeforeRenamed, HomeShape, Idle_
      <4>2. TempName(v, Target(v))' = TempName(v, Target(v)) /\ TempName(v, Target(v)) # TempName(w, Target(w))
        BY <4>1 DEF TempName, Target
      <4>3. /\ TempName(v, Target(v)) \in DOMAIN temp
            /\ temp'[TempName(v, Target(v))] = temp[TempName(v, Target(v))]
        <5> HIDE DEF name
        <5>1. TempName(v, Target(v)) # name
          BY <4>2 DEF name
        <5> QED
          BY <2>2, <3>2, <4>2, <5>1
      <4> QED
        BY <3>2, <4>1, <4>2, <4>3 DEF FilledBeforeRenamed
    <3> QED
      BY <2>1, <3>1, <3>2 DEF FilledBeforeRenamed, HomeStaysWhole
  <2>3. CASE Throws(w) /\ UNCHANGED temp
    <3>1. task' = [task EXCEPT ![w] = Idle_]
      BY <2>3 DEF Throws
    <3>2. DOMAIN task'[w] = DOMAIN Idle_ /\ task'[w].pc = "idle"
      BY <3>1 DEF FilledBeforeRenamed, HomeShape, Idle_
    <3> QED
      BY <2>1, <2>3, <3>1, <3>2, TasksOnly DEF FilledBeforeRenamed, HomeShape
  <2> QED
    BY <1>5, <2>2, <2>3 DEF Create
<1>6. ASSUME NEW w \in Writers, Fill(w) PROVE FilledBeforeRenamed'
  <2>1. UNCHANGED home
    BY <1>6 DEF Fill
  <2>2. CASE /\ temp' = [temp EXCEPT ![TempName(w, Target(w))] = Composed(w)]
             /\ task' = [task EXCEPT ![w].pc = "rename"]
    <3>1. HomeShape'
      BY <2>1, <2>2 DEF FilledBeforeRenamed, HomeShape, Idle_
    <3>2. ASSUME NEW v \in Writers, task'[v].pc = "rename", TempName(v, Target(v))' \in DOMAIN temp'
          PROVE  temp'[TempName(v, Target(v))'].is = "whole"
      <4>1. CASE v = w
        <5>1. TempName(v, Target(v))' = TempName(w, Target(w))
          BY <2>2, <4>1 DEF TempName, Target, FilledBeforeRenamed, HomeShape, Idle_
        <5>2. temp'[TempName(w, Target(w))] = Composed(w)
          BY <2>2, <3>2, <5>1
        <5>3. Composed(w).is = "whole"
          BY DEF Composed, Content
        <5> QED
          BY <5>1, <5>2, <5>3
      <4>2. CASE v # w
        <5>1. task'[v] = task[v]
          BY <2>2, <4>2 DEF FilledBeforeRenamed, HomeShape
        <5>2. TempName(v, Target(v))' = TempName(v, Target(v)) /\ TempName(v, Target(v)) # TempName(w, Target(w))
          BY <4>2, <5>1 DEF TempName, Target
        <5>3. /\ TempName(v, Target(v)) \in DOMAIN temp
              /\ temp'[TempName(v, Target(v))] = temp[TempName(v, Target(v))]
          BY <2>2, <3>2, <5>2
        <5> QED
          BY <3>2, <5>1, <5>2, <5>3 DEF FilledBeforeRenamed
      <4> QED
        BY <4>1, <4>2
    <3> QED
      BY <2>1, <3>1, <3>2 DEF FilledBeforeRenamed, HomeStaysWhole
  <2>3. CASE Throws(w) /\ UNCHANGED temp
    <3>1. task' = [task EXCEPT ![w] = Idle_]
      BY <2>3 DEF Throws
    <3>2. DOMAIN task'[w] = DOMAIN Idle_ /\ task'[w].pc = "idle"
      BY <3>1 DEF FilledBeforeRenamed, HomeShape, Idle_
    <3> QED
      BY <2>1, <2>3, <3>1, <3>2, TasksOnly DEF FilledBeforeRenamed, HomeShape
  <2> QED
    BY <1>6, <2>2, <2>3 DEF Fill
<1>7. ASSUME NEW w \in Writers, Rename(w) PROVE FilledBeforeRenamed'
  <2> DEFINE mine == TempName(w, Target(w))
  <2>1. /\ task[w].pc = "rename" /\ mine \in DOMAIN temp
        /\ temp' = Restrict(temp, DOMAIN temp \ {mine})
    BY <1>7 DEF Rename
  <2>2. temp[mine].is = "whole"
    BY <2>1 DEF FilledBeforeRenamed
  <2>3. /\ DOMAIN task' = Writers
        /\ \A v \in Writers \ {w} : task'[v] = task[v]
        /\ DOMAIN task'[w] = DOMAIN Idle_
        /\ task'[w].pc # "rename"
    <3>1. CASE task' = [task EXCEPT ![w] = Idle_]
      BY <3>1 DEF FilledBeforeRenamed, HomeShape, Idle_
    <3>2. CASE task' = [task EXCEPT ![w] = IF Len(@.todo) = 1 THEN Idle_
                                           ELSE [task[w] EXCEPT !.pc = "create", !.todo = Tail(@)]]
      BY <3>2 DEF FilledBeforeRenamed, HomeShape, Idle_
    <3> QED
      BY <1>7, <3>1, <3>2 DEF Rename, Throws
  <2>4. DOMAIN home' = Documents /\ HomeStaysWhole'
    <3>1. CASE home' = [home EXCEPT ![Target(w)] = temp[mine]]
      BY <2>2, <3>1 DEF FilledBeforeRenamed, HomeShape, HomeStaysWhole
    <3>2. CASE UNCHANGED home
      BY <3>2 DEF FilledBeforeRenamed, HomeShape, HomeStaysWhole
    <3> QED
      BY <1>7, <3>1, <3>2 DEF Rename
  <2>5. ASSUME NEW v \in Writers, task'[v].pc = "rename", TempName(v, Target(v))' \in DOMAIN temp'
        PROVE  temp'[TempName(v, Target(v))'].is = "whole"
    <3>1. v # w /\ task'[v] = task[v]
      BY <2>3, <2>5
    <3>2. TempName(v, Target(v))' = TempName(v, Target(v)) /\ TempName(v, Target(v)) # mine
      BY <3>1 DEF TempName, Target
    <3>3. /\ TempName(v, Target(v)) \in DOMAIN temp
          /\ temp'[TempName(v, Target(v))] = temp[TempName(v, Target(v))]
      BY <2>1, <2>5, <3>2 DEF Restrict
    <3> QED
      BY <2>5, <3>1, <3>2, <3>3 DEF FilledBeforeRenamed
  <2>6. HomeShape'
    BY <2>3, <2>4 DEF FilledBeforeRenamed, HomeShape
  <2> QED
    BY <2>4, <2>5, <2>6 DEF FilledBeforeRenamed
<1> QED
  BY <1>1, <1>2, <1>3, <1>4, <1>5, <1>6, <1>7
     DEF HomeNext, AddChannelCmd, RemoveChannelCmd, RewriteSettings, StoreClient, SaveGuestConfig, SaveSecrets


LEMMA HomeIsWhole == FilledBeforeRenamed => HomeStaysWhole
BY DEF FilledBeforeRenamed

-----------------------------------------------------------------------------
(* SessionExtras: the push of the secrets.                                 *)

\* What may be left of the list, by whether a credential is mapped.
Lists(mapped) ==
  IF mapped
  THEN {<<"env", "environment.d", "credential">>, <<"environment.d", "credential">>, <<"credential">>, <<>>}
  ELSE {<<"env", "environment.d">>, <<"environment.d">>, <<>>}

Delivered(t, bytes) == guestFiles[t] = [holds |-> bytes, private |-> TRUE]

ExtrasShape ==
  /\ DOMAIN extras = DOMAIN NoExtras("vm")
  /\ DOMAIN guestFiles = GuestTargets
  /\ \A t \in GuestTargets : guestFiles[t] = [holds |-> guestFiles[t].holds, private |-> guestFiles[t].private]
  /\ secrets.mapped \in BOOLEAN /\ extras.mapped \in BOOLEAN
  /\ DOMAIN secrets = {"pair", "mapped"}

\* A file that is off the list is delivered, or was skipped; the one whose chmod is due
\* has its content.
PushedInOrder ==
  /\ ExtrasShape
  /\ extras.at = "booting" => extras = NoExtras(extras.mode)
  /\ extras.at = "push" =>
       /\ extras.report = "none" /\ extras.todo \in Lists(extras.mapped)
       /\ extras.todo \notin {<<"env", "environment.d", "credential">>, <<"env", "environment.d">>}
            => Delivered("env", extras.pair)
       /\ extras.todo \in {<<"credential">>, <<>>} => Delivered("environment.d", extras.pair)
       /\ extras.mapped /\ extras.todo = <<>> => extras.skipped \/ Delivered("credential", extras.data)
       /\ extras.step = "chmod" => /\ extras.todo # <<>>
                                   /\ guestFiles[Pushed].holds = Bytes(Pushed)
  /\ extras.report = "pushed" => extras.at \notin {"booting", "push"}
  /\ PushReportIsTrue

LEMMA ExtrasStarts == ExtrasInit => PushedInOrder
<1> SUFFICES ASSUME ExtrasInit PROVE PushedInOrder
  OBVIOUS
<1>1. PICK mode \in {"vm", "agent"} : extras = NoExtras(mode)
  BY DEF ExtrasInit
<1>2. /\ extras = NoExtras(extras.mode) /\ extras.at = "booting" /\ extras.report = "none"
      /\ DOMAIN extras = DOMAIN NoExtras("vm") /\ extras.mapped = FALSE
  BY <1>1 DEF NoExtras
<1>3. /\ DOMAIN guestFiles = GuestTargets
      /\ \A t \in GuestTargets : guestFiles[t] = [holds |-> guestFiles[t].holds, private |-> guestFiles[t].private]
  BY DEF ExtrasInit, NoGuestFile
<1>4. DOMAIN secrets = {"pair", "mapped"} /\ secrets.mapped \in BOOLEAN
  BY DEF ExtrasInit
<1> QED
  BY <1>2, <1>3, <1>4 DEF PushedInOrder, ExtrasShape, PushReportIsTrue

\* Steps that change neither the boot nor the guest's files.
LEMMA GuestUntouched ==
  ASSUME PushedInOrder, UNCHANGED <<extras, guestFiles>>,
         secrets'.mapped \in BOOLEAN, DOMAIN secrets' = {"pair", "mapped"}
  PROVE  PushedInOrder'
BY DEF PushedInOrder, ExtrasShape, PushReportIsTrue, Delivered, Pushed, Bytes

\* Steps of a boot past its push.
LEMMA PastThePush ==
  ASSUME PushedInOrder, UNCHANGED <<secrets, guestFiles>>,
         DOMAIN extras' = DOMAIN extras, extras'.at \notin {"booting", "push"},
         extras'.mapped = extras.mapped, extras'.pair = extras.pair, extras'.data = extras.data,
         extras'.skipped = extras.skipped,
         extras'.report = "pushed" => extras.report = "pushed"
  PROVE  PushedInOrder'
BY DEF PushedInOrder, ExtrasShape, PushReportIsTrue, Delivered

LEMMA ExtrasKeeps == PushedInOrder /\ [ExtrasNext]_extrasVars => PushedInOrder'
<1> SUFFICES ASSUME PushedInOrder, [ExtrasNext]_extrasVars PROVE PushedInOrder'
  OBVIOUS
<1>0. ExtrasShape /\ DOMAIN extras = {"at", "mode", "todo", "step", "pair", "data", "skipped",
                                       "mapped", "report", "agent"}
  BY DEF PushedInOrder, ExtrasShape, NoExtras
<1>1. CASE HalfSaved
  <2>1. secrets'.mapped \in BOOLEAN /\ DOMAIN secrets' = {"pair", "mapped"}
    BY <1>0, <1>1 DEF HalfSaved, ExtrasShape
  <2> QED
    BY <1>1, <2>1, GuestUntouched DEF HalfSaved
<1>2. CASE CredentialChanges
  BY <1>0, <1>2, GuestUntouched DEF CredentialChanges, ExtrasShape
<1>3. CASE LoadForPush
  <2>1. extras = NoExtras(extras.mode)
    BY <1>3 DEF LoadForPush, PushedInOrder
  <2>2. extras.report = "none" /\ extras.step = "mkdir"
    BY <2>1 DEF NoExtras
  <2>3. CASE extras.mode = "vm"
    <3>1. extras' = [extras EXCEPT !.at = "ready"] /\ UNCHANGED <<secrets, guestFiles>>
      BY <1>3, <2>3 DEF LoadForPush
    <3>2. /\ extras'.at = "ready" /\ extras'.mapped = extras.mapped /\ extras'.pair = extras.pair
          /\ extras'.data = extras.data /\ extras'.skipped = extras.skipped
          /\ extras'.report = extras.report /\ DOMAIN extras' = DOMAIN extras
      BY <1>0, <3>1
    <3> QED
      BY <3>1, <3>2, PastThePush
  <2>4. CASE extras.mode # "vm"
    <3> DEFINE list == IF secrets.mapped THEN <<"env", "environment.d", "credential">>
                       ELSE <<"env", "environment.d">>
    <3>1. /\ extras' = [extras EXCEPT !.at = "push", !.pair = secrets.pair, !.mapped = secrets.mapped,
                                      !.todo = list]
          /\ UNCHANGED <<secrets, guestFiles>>
      BY <1>3, <2>4 DEF LoadForPush
    <3> HIDE DEF list
    <3>3. /\ extras'.at = "push" /\ extras'.mapped = secrets.mapped /\ extras'.todo = list
          /\ extras'.step = "mkdir" /\ extras'.report = "none" /\ DOMAIN extras' = DOMAIN extras
      BY <1>0, <2>2, <3>1
    <3>4. extras'.todo \in {<<"env", "environment.d", "credential">>, <<"env", "environment.d">>}
          /\ extras'.todo \in Lists(extras'.mapped)
      BY <1>0, <3>3 DEF list, Lists, ExtrasShape
    <3>5. extras'.todo \notin {<<"credential">>, <<>>}
      BY <3>4
    <3>6. ExtrasShape'
      BY <1>0, <3>1, <3>3 DEF ExtrasShape
    <3> QED
      BY <3>3, <3>4, <3>5, <3>6 DEF PushedInOrder, PushReportIsTrue
  <2> QED
    BY <2>3, <2>4
<1>4. CASE ReadHostFile
  <2>1. /\ extras.at = "push" /\ extras.step = "mkdir" /\ Pushed = "credential" /\ extras.todo # <<>>
        /\ UNCHANGED <<secrets, guestFiles>>
    BY <1>4 DEF ReadHostFile, Pushes
  <2>2. extras.mapped /\ extras.todo = <<"credential">> /\ extras.todo \in Lists(extras.mapped)
    BY <1>0, <2>1 DEF PushedInOrder, Lists, Pushed, ExtrasShape
  <2>3. Delivered("env", extras.pair) /\ Delivered("environment.d", extras.pair) /\ extras.report = "none"
    BY <2>1, <2>2 DEF PushedInOrder
  <2>4. CASE extras' = [extras EXCEPT !.skipped = TRUE, !.todo = Tail(@)]
    <3>0. Tail(extras.todo) = <<>>
      BY <2>2
    <3>1. /\ extras'.skipped = TRUE /\ extras'.todo = <<>> /\ extras'.at = "push" /\ extras'.report = "none"
          /\ extras'.step = "mkdir" /\ extras'.pair = extras.pair /\ extras'.mapped = extras.mapped
          /\ DOMAIN extras' = DOMAIN extras
      BY <1>0, <2>1, <2>2, <2>3, <2>4, <3>0
    <3>2. extras'.skipped /\ extras'.todo \in Lists(extras'.mapped)
      BY <3>1 DEF Lists
    <3> QED
      BY <1>0, <2>1, <2>3, <3>1, <3>2 DEF PushedInOrder, ExtrasShape, Delivered, PushReportIsTrue
  <2>5. CASE extras' = [extras EXCEPT !.data = credential]
    <3>1. /\ extras'.todo = extras.todo /\ extras'.at = "push" /\ extras'.report = "none"
          /\ extras'.step = "mkdir" /\ extras'.pair = extras.pair /\ extras'.mapped = extras.mapped
          /\ DOMAIN extras' = DOMAIN extras
      BY <1>0, <2>1, <2>2, <2>3, <2>5
    <3> QED
      BY <1>0, <2>1, <2>2, <2>3, <3>1 DEF PushedInOrder, ExtrasShape, Delivered, PushReportIsTrue
  <2> QED
    BY <1>4, <2>4, <2>5 DEF ReadHostFile
<1>5. CASE MakeParent
  <2>1. /\ extras.at = "push" /\ extras' = [extras EXCEPT !.step = "write"]
        /\ UNCHANGED <<secrets, guestFiles>>
    BY <1>5 DEF MakeParent, Pushes
  <2>2. /\ extras'.step = "write" /\ extras'.at = "push" /\ extras'.report = extras.report
        /\ extras'.todo = extras.todo /\ extras'.pair = extras.pair /\ extras'.mapped = extras.mapped
        /\ extras'.data = extras.data /\ extras'.skipped = extras.skipped /\ DOMAIN extras' = DOMAIN extras
    BY <1>0, <2>1
  <2> QED
    BY <1>0, <2>1, <2>2 DEF PushedInOrder, ExtrasShape, Delivered, PushReportIsTrue
<1>6. CASE WriteGuestFile
  <2>1. /\ extras.at = "push" /\ extras.todo # <<>> /\ UNCHANGED secrets
        /\ guestFiles' = [guestFiles EXCEPT ![Pushed].holds = Bytes(Pushed)]
        /\ extras' = [extras EXCEPT !.step = "chmod"]
    BY <1>6 DEF WriteGuestFile, Pushes
  <2>2. /\ extras'.step = "chmod" /\ extras'.at = "push" /\ extras'.report = extras.report
        /\ extras'.todo = extras.todo /\ extras'.pair = extras.pair /\ extras'.mapped = extras.mapped
        /\ extras'.data = extras.data /\ extras'.skipped = extras.skipped /\ DOMAIN extras' = DOMAIN extras
    BY <1>0, <2>1
  <2>3. extras.todo \in Lists(extras.mapped) /\ Pushed \in GuestTargets
        /\ (Pushed = "env" => extras.todo \in {<<"env", "environment.d", "credential">>, <<"env", "environment.d">>})
        /\ (Pushed = "environment.d" => extras.todo \notin {<<"credential">>, <<>>})
    BY <1>0, <2>1 DEF PushedInOrder, Lists, Pushed, GuestTargets, EnvFiles, ExtrasShape
  <2>4. Pushed' = Pushed /\ Bytes(Pushed)' = Bytes(Pushed)
    BY <2>2 DEF Pushed, Bytes
  <2>5. /\ DOMAIN guestFiles' = GuestTargets
        /\ \A t \in GuestTargets \ {Pushed} : guestFiles'[t] = guestFiles[t]
        /\ guestFiles'[Pushed] = [holds |-> Bytes(Pushed), private |-> guestFiles[Pushed].private]
    <3>1. guestFiles'[Pushed] = [guestFiles[Pushed] EXCEPT !.holds = Bytes(Pushed)]
      BY <1>0, <2>1, <2>3 DEF ExtrasShape
    <3>2. guestFiles[Pushed] = [holds |-> guestFiles[Pushed].holds, private |-> guestFiles[Pushed].private]
      BY <1>0, <2>3 DEF ExtrasShape
    <3>3. guestFiles'[Pushed] = [holds |-> Bytes(Pushed), private |-> guestFiles[Pushed].private]
      BY <3>1, <3>2
    <3> QED
      BY <1>0, <2>1, <2>3, <3>3 DEF ExtrasShape
  <2>6. ExtrasShape'
    <3>1. ASSUME NEW t \in GuestTargets
          PROVE  guestFiles'[t] = [holds |-> guestFiles'[t].holds, private |-> guestFiles'[t].private]
      BY <1>0, <2>5 DEF ExtrasShape
    <3> QED
      BY <1>0, <2>1, <2>2, <2>5, <3>1 DEF ExtrasShape
  <2>7. extras.report = "none"
    BY <2>1 DEF PushedInOrder
  <2>8. /\ extras'.todo \notin {<<"env", "environment.d", "credential">>, <<"env", "environment.d">>}
             => Delivered("env", extras.pair)'
        /\ extras'.todo \in {<<"credential">>, <<>>} => Delivered("environment.d", extras.pair)'
    BY <2>1, <2>2, <2>3, <2>5 DEF PushedInOrder, Delivered, GuestTargets, EnvFiles
  <2>9. guestFiles'[Pushed].holds = Bytes(Pushed)
    BY <2>5
  <2> QED
    BY <2>1, <2>2, <2>3, <2>4, <2>6, <2>7, <2>8, <2>9 DEF PushedInOrder, PushReportIsTrue
<1>7. CASE MakePrivate
  <2>1. /\ extras.at = "push" /\ extras.todo # <<>> /\ extras.step = "chmod" /\ UNCHANGED secrets
        /\ guestFiles' = [guestFiles EXCEPT ![Pushed].private = TRUE]
        /\ extras' = [extras EXCEPT !.step = "mkdir", !.todo = Tail(@)]
    BY <1>7 DEF MakePrivate, Pushes, FileDone
  <2>2. /\ extras'.step = "mkdir" /\ extras'.at = "push" /\ extras'.report = extras.report
        /\ extras'.todo = Tail(extras.todo) /\ extras'.pair = extras.pair /\ extras'.mapped = extras.mapped
        /\ extras'.data = extras.data /\ extras'.skipped = extras.skipped /\ DOMAIN extras' = DOMAIN extras
    BY <1>0, <2>1
  <2>3. Pushed \in GuestTargets
    BY <1>0, <2>1 DEF PushedInOrder, Lists, Pushed, GuestTargets, EnvFiles, ExtrasShape
  <2>4. /\ DOMAIN guestFiles' = GuestTargets
        /\ \A t \in GuestTargets \ {Pushed} : guestFiles'[t] = guestFiles[t]
        /\ guestFiles'[Pushed] = [holds |-> Bytes(Pushed), private |-> TRUE]
    <3>1. guestFiles'[Pushed] = [guestFiles[Pushed] EXCEPT !.private = TRUE]
      BY <1>0, <2>1, <2>3 DEF ExtrasShape
    <3>2. guestFiles[Pushed] = [holds |-> guestFiles[Pushed].holds, private |-> guestFiles[Pushed].private]
      BY <1>0, <2>3 DEF ExtrasShape
    <3>3. guestFiles[Pushed].holds = Bytes(Pushed)
      BY <2>1 DEF PushedInOrder
    <3>4. guestFiles'[Pushed] = [holds |-> Bytes(Pushed), private |-> TRUE]
      BY <3>1, <3>2, <3>3
    <3> QED
      BY <1>0, <2>1, <2>3, <3>4 DEF ExtrasShape
  <2>5. ExtrasShape'
    <3>1. ASSUME NEW t \in GuestTargets
          PROVE  guestFiles'[t] = [holds |-> guestFiles'[t].holds, private |-> guestFiles'[t].private]
      BY <1>0, <2>4 DEF ExtrasShape
    <3> QED
      BY <1>0, <2>1, <2>2, <2>4, <3>1 DEF ExtrasShape
  <2>6. extras.report = "none" /\ extras.todo \in Lists(extras.mapped)
    BY <2>1 DEF PushedInOrder
  <2>7. /\ extras'.todo \in Lists(extras'.mapped)
        /\ \/ Pushed = "env" /\ extras'.todo \notin {<<"credential">>, <<>>}
           \/ /\ Pushed = "environment.d" /\ extras'.todo \in {<<"credential">>, <<>>}
              /\ extras'.todo = <<>> => ~extras.mapped
              /\ Delivered("env", extras.pair)
           \/ /\ Pushed = "credential" /\ extras'.todo = <<>>
              /\ Delivered("env", extras.pair) /\ Delivered("environment.d", extras.pair)
    <3>1. CASE extras.todo = <<"env", "environment.d", "credential">>
      <4>1. Tail(extras.todo) = <<"environment.d", "credential">> /\ Pushed = "env"
        BY <3>1 DEF Pushed
      <4>2. extras.mapped
        BY <1>0, <2>6, <3>1 DEF Lists, ExtrasShape
      <4>3. <<"environment.d", "credential">> \notin {<<"credential">>, <<>>}
        BY <<"environment.d", "credential">>[1] # <<"credential">>[1],
           Len(<<"environment.d", "credential">>) = 2, Len(<<>>) = 0
      <4>4. extras'.todo \in Lists(extras'.mapped)
        BY <2>2, <4>1, <4>2 DEF Lists
      <4> QED
        BY <2>2, <4>1, <4>3, <4>4
    <3>2. CASE extras.todo = <<"env", "environment.d">>
      <4>1. Tail(extras.todo) = <<"environment.d">> /\ Pushed = "env"
        BY <3>2 DEF Pushed
      <4>2. ~extras.mapped
        <5>1. <<"env", "environment.d">> # <<"env", "environment.d", "credential">>
          BY Len(<<"env", "environment.d">>) = 2, Len(<<"env", "environment.d", "credential">>) = 3
        <5>2. <<"env", "environment.d">> # <<>>
          BY Len(<<"env", "environment.d">>) = 2, Len(<<>>) = 0
        <5>3. <<"env", "environment.d">> \notin {<<"environment.d", "credential">>, <<"credential">>}
          BY <<"env", "environment.d">>[1] # <<"environment.d", "credential">>[1],
             <<"env", "environment.d">>[1] # <<"credential">>[1]
        <5>4. <<"env", "environment.d">> \notin Lists(TRUE)
          BY <5>1, <5>2, <5>3 DEF Lists
        <5> QED
          BY <1>0, <2>6, <3>2, <5>4 DEF ExtrasShape
      <4>3. <<"environment.d">> \notin {<<"credential">>, <<>>}
        BY <<"environment.d">>[1] # <<"credential">>[1], Len(<<"environment.d">>) = 1, Len(<<>>) = 0
      <4>4. extras'.todo \in Lists(extras'.mapped)
        BY <2>2, <4>1, <4>2 DEF Lists
      <4> QED
        BY <2>2, <4>1, <4>3, <4>4
    <3>3. CASE extras.todo = <<"environment.d", "credential">>
      <4>1. Tail(extras.todo) = <<"credential">> /\ Pushed = "environment.d"
        BY <3>3 DEF Pushed
      <4>2. extras.mapped
        BY <1>0, <2>6, <3>3 DEF Lists, ExtrasShape
      <4>3. Delivered("env", extras.pair)
        BY <2>1, <3>3 DEF PushedInOrder
      <4>4. <<"credential">> # <<>>
        BY Len(<<"credential">>) = 1, Len(<<>>) = 0
      <4>5. extras'.todo \in Lists(extras'.mapped)
        BY <2>2, <4>1, <4>2 DEF Lists
      <4> QED
        BY <2>2, <4>1, <4>3, <4>4, <4>5
    <3>4. CASE extras.todo = <<"environment.d">>
      <4>1. Tail(extras.todo) = <<>> /\ Pushed = "environment.d"
        BY <3>4 DEF Pushed
      <4>2. ~extras.mapped
        <5>1. <<"environment.d">> # <<"environment.d", "credential">>
          BY Len(<<"environment.d">>) = 1, Len(<<"environment.d", "credential">>) = 2
        <5>2. <<"environment.d">> # <<>>
          BY Len(<<"environment.d">>) = 1, Len(<<>>) = 0
        <5>3. <<"environment.d">> \notin {<<"env", "environment.d", "credential">>, <<"credential">>}
          BY <<"environment.d">>[1] # <<"env", "environment.d", "credential">>[1],
             <<"environment.d">>[1] # <<"credential">>[1]
        <5>4. <<"environment.d">> \notin Lists(TRUE)
          BY <5>1, <5>2, <5>3 DEF Lists
        <5> QED
          BY <1>0, <2>6, <3>4, <5>4 DEF ExtrasShape
      <4>3. Delivered("env", extras.pair)
        BY <2>1, <3>4 DEF PushedInOrder
      <4> QED
        BY <2>2, <4>1, <4>2, <4>3 DEF Lists
    <3>5. CASE extras.todo = <<"credential">>
      <4>1. Tail(extras.todo) = <<>> /\ Pushed = "credential"
        BY <3>5 DEF Pushed
      <4>2. extras.mapped
        <5>1. /\ <<"credential">> # <<"environment.d">> /\ <<"credential">> # <<>>
              /\ <<"credential">> # <<"env", "environment.d">>
          BY <<"credential">>[1] = "credential", <<"environment.d">>[1] = "environment.d",
             <<"env", "environment.d">>[1] = "env", Len(<<"credential">>) = 1, Len(<<>>) = 0
        <5>2. <<"credential">> \notin Lists(FALSE)
          BY ONLY <5>1 DEF Lists
        <5> QED
          BY <1>0, <2>6, <3>5, <5>2 DEF ExtrasShape
      <4>3. Delivered("env", extras.pair) /\ Delivered("environment.d", extras.pair)
        BY <2>1, <3>5 DEF PushedInOrder
      <4> QED
        BY <2>2, <4>1, <4>2, <4>3 DEF Lists
    <3> QED
      BY <2>1, <2>6, <3>1, <3>2, <3>3, <3>4, <3>5 DEF Lists
  <2>9. Delivered("env", extras.pair)'
    BY <2>2, <2>3, <2>4, <2>7 DEF Delivered, Bytes, GuestTargets, EnvFiles
  <2>10. extras'.todo \in {<<"credential">>, <<>>} => Delivered("environment.d", extras.pair)'
    BY <2>2, <2>3, <2>4, <2>7 DEF Delivered, Bytes, GuestTargets, EnvFiles
  <2>11. extras'.mapped /\ extras'.todo = <<>> => Delivered("credential", extras.data)'
    BY <2>2, <2>4, <2>7 DEF Delivered, Bytes, EnvFiles
  <2> QED
    BY <2>2, <2>5, <2>6, <2>7, <2>9, <2>10, <2>11 DEF PushedInOrder, PushReportIsTrue
<1>8. CASE PushFails
  <2>1. /\ extras.at = "push" /\ extras.todo # <<>> /\ UNCHANGED secrets
        /\ extras' = [extras EXCEPT !.at = "session", !.report = "failed"]
        /\ guestFiles' = guestFiles \/ guestFiles' = [guestFiles EXCEPT ![Pushed].holds = "part"]
    BY <1>8 DEF PushFails
  <2>2. extras'.at = "session" /\ extras'.report = "failed" /\ extras'.mapped = extras.mapped
        /\ DOMAIN extras' = DOMAIN extras
    BY <1>0, <2>1
  <2>3. DOMAIN guestFiles' = GuestTargets
    BY <1>0, <2>1 DEF ExtrasShape
  <2>4. ASSUME NEW t \in GuestTargets
        PROVE  guestFiles'[t] = [holds |-> guestFiles'[t].holds, private |-> guestFiles'[t].private]
    <3>1. guestFiles[t] = [holds |-> guestFiles[t].holds, private |-> guestFiles[t].private]
      BY <1>0 DEF ExtrasShape
    <3>2. guestFiles'[t] = guestFiles[t] \/ guestFiles'[t] = [guestFiles[t] EXCEPT !.holds = "part"]
      BY <1>0, <2>1 DEF ExtrasShape
    <3> QED
      BY <3>1, <3>2
  <2> QED
    BY <1>0, <2>1, <2>2, <2>3, <2>4 DEF PushedInOrder, ExtrasShape, PushReportIsTrue
<1>9. CASE PushReported
  <2>1. /\ extras.at = "push" /\ extras.todo = <<>> /\ UNCHANGED <<secrets, guestFiles>>
        /\ extras' = [extras EXCEPT !.at = "session", !.report = "pushed"]
    BY <1>9 DEF PushReported
  <2>2. /\ extras'.at = "session" /\ extras'.report = "pushed" /\ extras'.mapped = extras.mapped
        /\ extras'.pair = extras.pair /\ extras'.data = extras.data /\ extras'.skipped = extras.skipped
        /\ DOMAIN extras' = DOMAIN extras
    BY <1>0, <2>1
  <2>3. /\ Delivered("env", extras.pair) /\ Delivered("environment.d", extras.pair)
        /\ extras.mapped => extras.skipped \/ Delivered("credential", extras.data)
    BY <2>1 DEF PushedInOrder
  <2> QED
    BY <1>0, <2>1, <2>2, <2>3 DEF PushedInOrder, ExtrasShape, PushReportIsTrue, Delivered, EnvFiles
<1>10. CASE StartAgentSession
  <2>1. PICK runs \in BOOLEAN : extras' = [extras EXCEPT !.at = "tried", !.agent = runs]
    BY <1>10 DEF StartAgentSession
  <2>2. /\ extras'.at = "tried" /\ extras'.mapped = extras.mapped /\ extras'.pair = extras.pair
        /\ extras'.data = extras.data /\ extras'.skipped = extras.skipped
        /\ extras'.report = extras.report /\ DOMAIN extras' = DOMAIN extras
    BY <1>0, <2>1
  <2> QED
    BY <1>10, <2>2, PastThePush DEF StartAgentSession
<1>11. CASE BecomesReady
  <2>1. /\ extras'.at = "ready" /\ extras'.mapped = extras.mapped /\ extras'.pair = extras.pair
        /\ extras'.data = extras.data /\ extras'.skipped = extras.skipped
        /\ extras'.report = extras.report /\ DOMAIN extras' = DOMAIN extras
    BY <1>0, <1>11 DEF BecomesReady
  <2> QED
    BY <1>11, <2>1, PastThePush DEF BecomesReady
<1>12. CASE RunShell
  BY <1>0, <1>12, GuestUntouched DEF RunShell, ExtrasShape
<1>13. CASE GuestEnds
  <2>1. extras' = NoExtras(extras.mode) /\ UNCHANGED secrets
    BY <1>13 DEF GuestEnds
  <2>2. /\ extras'.at = "booting" /\ extras'.report = "none" /\ extras'.mapped = FALSE
        /\ DOMAIN extras' = DOMAIN NoExtras("vm") /\ extras' = NoExtras(extras'.mode)
    BY <2>1 DEF NoExtras
  <2>3. \/ guestFiles' = [t \in GuestTargets |-> NoGuestFile]
        \/ guestFiles' = guestFiles
        \/ \E t \in GuestTargets : guestFiles' = [guestFiles EXCEPT ![t].holds = "part"]
    BY <1>13 DEF GuestEnds
  <2>4. DOMAIN guestFiles' = GuestTargets
    BY <1>0, <2>3 DEF ExtrasShape
  <2>5. ASSUME NEW t \in GuestTargets
        PROVE  guestFiles'[t] = [holds |-> guestFiles'[t].holds, private |-> guestFiles'[t].private]
    <3>1. guestFiles[t] = [holds |-> guestFiles[t].holds, private |-> guestFiles[t].private]
      BY <1>0 DEF ExtrasShape
    <3>2. \/ guestFiles'[t] = NoGuestFile \/ guestFiles'[t] = guestFiles[t]
          \/ guestFiles'[t] = [guestFiles[t] EXCEPT !.holds = "part"]
      BY <1>0, <2>3 DEF ExtrasShape
    <3> QED
      BY <3>1, <3>2 DEF NoGuestFile
  <2>6. ExtrasShape'
    BY <1>0, <2>1, <2>2, <2>4, <2>5 DEF ExtrasShape
  <2> QED
    BY <2>2, <2>6 DEF PushedInOrder, PushReportIsTrue
<1>14. CASE UNCHANGED extrasVars
  BY <1>0, <1>14, GuestUntouched DEF extrasVars, ExtrasShape
<1> QED
  BY <1>1, <1>2, <1>3, <1>4, <1>5, <1>6, <1>7, <1>8, <1>9, <1>10, <1>11, <1>12, <1>13, <1>14 DEF ExtrasNext

LEMMA PushIsTrue == PushedInOrder => PushReportIsTrue
BY DEF PushedInOrder


-----------------------------------------------------------------------------
(* DashboardScreens: the keys.                                             *)

ScreenKinds == {"menu", "section", "channel-detail", "client-detail", "build", "serial", "gone"}

\* The dashboard that was left reads no key and waits for nothing.
ModalsHoldTheKeys ==
  /\ DOMAIN ui = {"screen", "focus", "menuFocus", "reveal"} /\ ui.screen.kind \in ScreenKinds
  /\ DOMAIN waits = {"modal", "build", "serial"}
  /\ keys \in BOOLEAN
  /\ KeysComeBack
  /\ ui.screen.kind = "gone" => /\ ~keys
                                /\ waits.modal = "none" /\ waits.build = "no" /\ waits.serial = "no"

LEMMA ScreensStart == ScreensInit => ModalsHoldTheKeys
<1> SUFFICES ASSUME ScreensInit PROVE ModalsHoldTheKeys
  OBVIOUS
<1>1. DOMAIN ui = {"screen", "focus", "menuFocus", "reveal"} /\ ui.screen.kind = "menu"
  BY DEF ScreensInit, Screen
<1>2. DOMAIN waits = {"modal", "build", "serial"} /\ keys = TRUE
  BY DEF ScreensInit
<1> QED
  BY <1>1, <1>2 DEF ModalsHoldTheKeys, KeysComeBack, ScreenKinds

LEMMA ShowsTheScreen ==
  ASSUME DOMAIN ui = {"screen", "focus", "menuFocus", "reveal"}, NEW screen
  PROVE  DOMAIN Shows(screen) = DOMAIN ui /\ Shows(screen).screen = screen
BY DEF Shows

LEMMA ShowsAScreen ==
  ASSUME DOMAIN ui = {"screen", "focus", "menuFocus", "reveal"}
  PROVE  /\ \A kind, id : LET u == Shows(Screen(kind, id)) IN DOMAIN u = DOMAIN ui /\ u.screen.kind = kind
         /\ \A of : LET u == Shows(Section(of)) IN DOMAIN u = DOMAIN ui /\ u.screen.kind = "section"
<1>1. \A kind, id : Screen(kind, id).kind = kind
  BY DEF Screen
<1>2. \A of : Section(of).kind = "section"
  BY DEF Section
<1> QED
  BY <1>1, <1>2, ShowsTheScreen

\* The way back leads to a screen of the dashboard, and never out of it.
LEMMA BackShowsAScreen ==
  ASSUME ModalsHoldTheKeys
  PROVE  /\ DOMAIN Back = DOMAIN ui /\ Back.screen.kind \in ScreenKinds
         /\ ui.screen.kind # "gone" => Back.screen.kind # "gone"
<1>0. DOMAIN ui = {"screen", "focus", "menuFocus", "reveal"} /\ ui.screen.kind \in ScreenKinds
  BY DEF ModalsHoldTheKeys
<1>1. CASE ui.screen.kind = "menu"
  <2>1. Back = ui
    BY <1>1 DEF Back
  <2> QED
    BY <1>0, <1>1, <2>1
<1>2. CASE ui.screen.kind = "section"
  <2>1. Back = [ui EXCEPT !.screen = Screen("menu", 0), !.focus = ui.menuFocus,
                          !.reveal = IF ui.screen.of = "clients" THEN 0 ELSE @]
    BY <1>2 DEF Back
  <2>2. Back.screen = Screen("menu", 0) /\ DOMAIN Back = DOMAIN ui
    BY <1>0, <2>1
  <2>3. Screen("menu", 0).kind = "menu"
    BY DEF Screen
  <2>4. Back.screen.kind = "menu"
    BY <2>2, <2>3
  <2> QED
    BY <2>2, <2>4 DEF ScreenKinds
<1>3. CASE ui.screen.kind = "channel-detail"
  <2>1. Back = Shows(Section("channels"))
    BY <1>3 DEF Back
  <2> QED
    BY <1>0, <2>1, ShowsAScreen DEF ScreenKinds
<1>4. CASE ui.screen.kind = "client-detail"
  <2>1. Back = Shows(Section("clients"))
    BY <1>4 DEF Back
  <2> QED
    BY <1>0, <2>1, ShowsAScreen DEF ScreenKinds
<1>5. CASE ui.screen.kind \in {"build", "serial", "gone"}
  <2>1. Back = Shows(Section("sandbox"))
    BY <1>5 DEF Back
  <2> QED
    BY <1>0, <2>1, ShowsAScreen DEF ScreenKinds
<1> QED
  BY <1>0, <1>1, <1>2, <1>3, <1>4, <1>5 DEF ScreenKinds

\* Steps by a key, or by an await, that show a screen and leave the keys as they are.
LEMMA ShowingKeeps ==
  ASSUME ModalsHoldTheKeys, ui.screen.kind # "gone",
         DOMAIN ui' = DOMAIN ui, ui'.screen.kind \in ScreenKinds \ {"gone"},
         DOMAIN waits' = DOMAIN waits, waits'.modal = waits.modal,
         waits.build = "asking" => waits'.build = "asking",
         UNCHANGED keys
  PROVE  ModalsHoldTheKeys'
BY DEF ModalsHoldTheKeys, KeysComeBack

\* Steps that hand the keys back.
LEMMA HandingBackKeeps ==
  ASSUME ModalsHoldTheKeys, ui.screen.kind # "gone",
         DOMAIN ui' = DOMAIN ui, ui'.screen.kind \in ScreenKinds \ {"gone"},
         DOMAIN waits' = DOMAIN waits, keys' = TRUE
  PROVE  ModalsHoldTheKeys'
BY DEF ModalsHoldTheKeys, KeysComeBack

LEMMA ScreensKeep == ModalsHoldTheKeys /\ [ScreensNext]_screenVars => ModalsHoldTheKeys'
<1> SUFFICES ASSUME ModalsHoldTheKeys, [ScreensNext]_screenVars PROVE ModalsHoldTheKeys'
  OBVIOUS
<1>0. /\ DOMAIN ui = {"screen", "focus", "menuFocus", "reveal"} /\ ui.screen.kind \in ScreenKinds
      /\ DOMAIN waits = {"modal", "build", "serial"}
      /\ keys => ui.screen.kind # "gone"
      /\ waits.modal # "none" => ui.screen.kind # "gone"
      /\ waits.build # "no" => ui.screen.kind # "gone"
      /\ waits.serial # "no" => ui.screen.kind # "gone"
  BY DEF ModalsHoldTheKeys
<1>1. CASE UNCHANGED ui /\ UNCHANGED waits /\ UNCHANGED keys
  BY <1>1 DEF ModalsHoldTheKeys, KeysComeBack
<1>2. CASE Up \/ Down
  <2>1. /\ keys /\ UNCHANGED <<waits, keys>>
        /\ \/ ui' = [ui EXCEPT !.focus = @ - 1]
           \/ ui' = [ui EXCEPT !.focus = IF ui.focus + 1 < Len(Rows) THEN ui.focus + 1 ELSE Len(Rows) - 1]
    BY <1>2 DEF Up, Down
  <2>2. DOMAIN ui' = DOMAIN ui /\ ui'.screen = ui.screen
    BY <1>0, <2>1
  <2> QED
    BY <1>0, <2>1, <2>2, ShowingKeeps
<1>3. CASE Escape
  BY <1>0, <1>3, BackShowsAScreen, ShowingKeeps DEF Escape
<1>4. CASE Quit_ \/ EnterQuit
  <2>1. /\ keys' = FALSE /\ ui' = Shows(Screen("gone", 0))
        /\ waits' = [modal |-> "none", build |-> "no", serial |-> "no"]
    BY <1>4 DEF Quit_, EnterQuit
  <2>2. DOMAIN ui' = DOMAIN ui /\ ui'.screen.kind = "gone"
    BY <1>0, <2>1, ShowsAScreen
  <2> QED
    BY <1>0, <2>1, <2>2 DEF ModalsHoldTheKeys, KeysComeBack, ScreenKinds
<1>5. CASE EnterSection
  <2>1. PICK i \in 1 .. Len(Menu) - 1 :
          ui' = [ui EXCEPT !.menuFocus = ui.focus, !.screen = Section(Menu[i]), !.focus = 0]
    BY <1>5 DEF EnterSection
  <2>2. DOMAIN ui' = DOMAIN ui /\ ui'.screen = Section(Menu[i])
    BY <1>0, <2>1
  <2>3. ui'.screen.kind = "section"
    BY <2>2 DEF Section
  <2>4. UNCHANGED <<waits, keys>> /\ ui.screen.kind # "gone"
    BY <1>5 DEF EnterSection
  <2> QED
    BY <2>2, <2>3, <2>4, ShowingKeeps DEF ScreenKinds
<1>6. CASE EnterDetail
  <2>1. keys /\ UNCHANGED <<waits, keys>>
    BY <1>6 DEF EnterDetail, On
  <2>2. CASE ui' = Shows(Screen("channel-detail", ui.focus + 1))
    <3>1. DOMAIN ui' = DOMAIN ui /\ ui'.screen.kind = "channel-detail"
      BY <1>0, <2>2, ShowsAScreen
    <3> QED
      BY <1>0, <2>1, <3>1, ShowingKeeps DEF ScreenKinds
  <2>3. CASE ui' = [Shows(Screen("client-detail", lists.clients[ui.focus])) EXCEPT !.reveal = 0]
    <3> DEFINE u == Shows(Screen("client-detail", lists.clients[ui.focus]))
    <3>1. DOMAIN u = DOMAIN ui /\ u.screen.kind = "client-detail"
      BY <1>0, ShowsAScreen
    <3> HIDE DEF u
    <3>2. DOMAIN ui' = DOMAIN ui /\ ui'.screen = u.screen
      BY <1>0, <2>3, <3>1 DEF u
    <3> QED
      BY <1>0, <2>1, <3>1, <3>2, ShowingKeeps DEF ScreenKinds
  <2> QED
    BY <1>6, <2>2, <2>3 DEF EnterDetail
<1>7. CASE EnterBack
  <2>1. keys /\ UNCHANGED <<waits, keys>> /\ ui' \in {ui, Back}
    BY <1>7 DEF EnterBack, On
  <2> QED
    BY <1>0, <2>1, BackShowsAScreen, ShowingKeeps
<1>8. CASE EnterModal
  <2>1. keys /\ keys' = FALSE /\ UNCHANGED ui
    BY <1>8 DEF EnterModal, On
  <2>2. PICK row \in {"add", "login", "issue", "use", "remove", "start", "off", "stop", "modal"} :
          waits' = [waits EXCEPT !.modal = CASE row = "remove" -> ui.screen.kind
                                              [] row \in {"login", "use", "stop"} -> "modal"
                                              [] OTHER -> row]
    BY <1>8 DEF EnterModal
  <2>3. DOMAIN waits' = DOMAIN waits
    BY <1>0, <2>2
  <2>4. waits'.modal # "none"
    <3> DEFINE modal == CASE row = "remove" -> ui.screen.kind
                          [] row \in {"login", "use", "stop"} -> "modal"
                          [] OTHER -> row
    <3>1. modal # "none"
      BY <1>0 DEF ScreenKinds
    <3> HIDE DEF modal
    <3> QED
      BY <1>0, <2>2, <3>1 DEF modal
  <2> QED
    BY <1>0, <2>1, <2>3, <2>4 DEF ModalsHoldTheKeys, KeysComeBack
<1>9. CASE ModalThrows \/ ModalFlashes \/ ClientIssued \/ ClientRemoved \/ ChannelRemoved_
  <2>1. /\ waits.modal # "none" /\ waits' = [waits EXCEPT !.modal = "none"] /\ keys' = TRUE
        /\ \/ ui' = ui \/ ui' = Back \/ ui' = [ui EXCEPT !.reveal = file'.issued]
    BY <1>9 DEF ModalThrows, ModalFlashes, ClientIssued, ClientRemoved, ChannelRemoved_, ModalCloses
  <2>2. DOMAIN waits' = DOMAIN waits /\ ui.screen.kind # "gone"
    BY <1>0, <2>1
  <2>3. DOMAIN ui' = DOMAIN ui /\ ui'.screen.kind \in ScreenKinds \ {"gone"}
    <3>1. CASE ui' = ui
      BY <1>0, <2>2, <3>1
    <3>2. CASE ui' = Back
      BY <2>2, <3>2, BackShowsAScreen
    <3>3. CASE ui' = [ui EXCEPT !.reveal = file'.issued]
      <4>1. DOMAIN ui' = DOMAIN ui /\ ui'.screen = ui.screen
        BY <1>0, <3>3
      <4> QED
        BY <1>0, <2>2, <4>1
    <3> QED
      BY <2>1, <3>1, <3>2, <3>3
  <2> QED
    BY <2>1, <2>2, <2>3, HandingBackKeeps
<1>10. CASE ReadSerial
  <2>1. /\ keys /\ UNCHANGED <<ui, keys>>
        /\ \/ waits' = [waits EXCEPT !.serial = "open"] \/ waits' = [waits EXCEPT !.serial = "refresh"]
    BY <1>10 DEF ReadSerial, On
  <2>2. DOMAIN waits' = DOMAIN waits /\ waits'.modal = waits.modal /\ waits'.build = waits.build
    BY <1>0, <2>1
  <2> QED
    BY <1>0, <2>1, <2>2, ShowingKeeps
<1>11. CASE SerialRead
  <2>1. /\ waits.serial # "no" /\ waits' = [waits EXCEPT !.serial = "no"] /\ UNCHANGED keys
        /\ \/ ui' = ui \/ ui' = Shows(Screen("serial", 0)) \/ ui' = [ui EXCEPT !.focus = 0]
    BY <1>11 DEF SerialRead
  <2>2. DOMAIN waits' = DOMAIN waits /\ waits'.modal = waits.modal /\ waits'.build = waits.build
    BY <1>0, <2>1
  <2>3. DOMAIN ui' = DOMAIN ui /\ ui'.screen.kind \in ScreenKinds \ {"gone"}
    <3>1. CASE ui' = ui
      BY <1>0, <2>1, <3>1
    <3>2. CASE ui' = Shows(Screen("serial", 0))
      BY <1>0, <3>2, ShowsAScreen DEF ScreenKinds
    <3>3. CASE ui' = [ui EXCEPT !.focus = 0]
      <4>1. DOMAIN ui' = DOMAIN ui /\ ui'.screen = ui.screen
        BY <1>0, <3>3
      <4> QED
        BY <1>0, <2>1, <4>1
    <3> QED
      BY <2>1, <3>1, <3>2, <3>3
  <2> QED
    BY <1>0, <2>1, <2>2, <2>3, ShowingKeeps
<1>12. CASE InstallPressed
  <2>1. /\ keys /\ UNCHANGED keys /\ ui' = Shows(Screen("build", 0))
        /\ waits' = [waits EXCEPT !.build = IF @ = "no" THEN "building" ELSE @]
    BY <1>12 DEF InstallPressed, On
  <2>2. /\ DOMAIN waits' = DOMAIN waits /\ waits'.modal = waits.modal
        /\ waits.build = "asking" => waits'.build = "asking"
    BY <1>0, <2>1
  <2>3. DOMAIN ui' = DOMAIN ui /\ ui'.screen.kind = "build"
    BY <1>0, <2>1, ShowsAScreen
  <2> QED
    BY <1>0, <2>1, <2>2, <2>3, ShowingKeeps DEF ScreenKinds
<1>13. CASE BuildFails
  <2>1. waits.build = "building" /\ waits' = [waits EXCEPT !.build = "no"] /\ UNCHANGED <<ui, keys>>
    BY <1>13 DEF BuildFails
  <2>2. DOMAIN waits' = DOMAIN waits /\ waits'.modal = waits.modal
    BY <1>0, <2>1
  <2> QED
    BY <1>0, <2>1, <2>2, ShowingKeeps
<1>14. CASE BuildSucceeds
  <2>1. /\ waits.build = "building" /\ waits' = [waits EXCEPT !.build = "asking"]
        /\ keys' = FALSE /\ UNCHANGED ui
    BY <1>14 DEF BuildSucceeds
  <2>2. DOMAIN waits' = DOMAIN waits /\ waits'.build = "asking"
    BY <1>0, <2>1
  <2> QED
    BY <1>0, <2>1, <2>2 DEF ModalsHoldTheKeys, KeysComeBack
<1>15. CASE BuildAnswered
  <2>1. /\ waits.build = "asking" /\ waits' = [waits EXCEPT !.build = "no"]
        /\ keys' = TRUE /\ ui' = Back
    BY <1>15 DEF BuildAnswered
  <2>2. DOMAIN waits' = DOMAIN waits
    BY <1>0, <2>1
  <2> QED
    BY <1>0, <2>1, <2>2, BackShowsAScreen, HandingBackKeeps
<1>16. CASE VmLine \/ ClientsElsewhere
  BY <1>1, <1>16 DEF VmLine, ClientsElsewhere
<1> QED
  BY <1>1, <1>2, <1>3, <1>4, <1>5, <1>6, <1>7, <1>8, <1>9, <1>10, <1>11, <1>12, <1>13,
     <1>14, <1>15, <1>16 DEF ScreensNext, screenVars

-----------------------------------------------------------------------------
(* Channels: the live states the dashboard shows.                          *)

LEMMA ProbeKeeps ==
  ASSUME DOMAIN live = ChannelIds, [ProbeNext]_probeVars
  PROVE  /\ DOMAIN live' = ChannelIds
         /\ \A id \in ChannelIds : /\ live[id].by = "server" => live'[id].by = "server"
                                   /\ probe.quit => live'[id] = live[id]
<1>1. CASE UNCHANGED live
  BY <1>1
<1>2. CASE ServerReports
  <2>1. ~probe.quit /\ live' = [live EXCEPT ![active.id] = [by |-> "server", up |-> active.up]]
    BY <1>2 DEF ServerReports
  <2> QED
    BY <2>1
<1>3. ASSUME NEW s, ProbeAnswers(s), ~(UNCHANGED live)
      PROVE  /\ DOMAIN live' = ChannelIds
             /\ \A id \in ChannelIds : /\ live[id].by = "server" => live'[id].by = "server"
                                       /\ probe.quit => live'[id] = live[id]
  <2> DEFINE probed == Head(probe.sweeps[s].left).id
  <2>1. ~probe.quit /\ ~serverReported(probed)
    BY <1>3 DEF ProbeAnswers
  <2>2. \E up : live' = [live EXCEPT ![probed] = [by |-> "probe", up |-> up]]
    BY <1>3, <2>1 DEF ProbeAnswers
  <2> QED
    BY <2>1, <2>2 DEF serverReported
<1> QED
  BY <1>1, <1>2, <1>3
     DEF ProbeNext, probeVars, ServerBootsWith, StartSweep, QuitDashboard, SweepNext


-----------------------------------------------------------------------------
(* Dashboard: the actions and the server.                                  *)

\* Where an action waits for an answer after which it saves.
Asking == {"wizard", "adding", "removing", "exposure", "saving", "pick"}

SettingsFields == {"mode", "channels", "default", "clients"}

\* An action on its own.  A mode is picked where none was; a sandbox is turned off without
\* a question where no channel is public.
Sound(f) ==
  /\ DOMAIN f = {"kind", "pc", "was", "next"}
  /\ DOMAIN f.was = SettingsFields /\ DOMAIN f.next = SettingsFields
  /\ f.pc # "none" => f.kind # "none"
  /\ f.kind = "start" /\ f.pc = "pick" => f.was.mode = "off"
  /\ f.kind = "turnOff" /\ f.pc = "saving" => ~HasPublicChannel(f.was)

DashShape ==
  /\ DOMAIN doc = SettingsFields
  /\ DOMAIN store = {"settings", "pending", "golden", "session"} /\ store.pending \in BOOLEAN
  /\ DOMAIN server = {"up", "mode", "default", "session"} /\ server.up \in BOOLEAN
  /\ DOMAIN past = {"started", "images", "crossed"} /\ past.crossed \in BOOLEAN

\* Until two modals have overlapped there is one at a time, and the copy of the settings
\* on which it will base what it saves is the saved document.
ActionsTakeTurns ==
  /\ DashShape
  /\ DOMAIN flow = Threads
  /\ store.settings = doc
  /\ \A x \in Threads : Sound(flow[x])
  /\ ~past.crossed => \A x \in Threads :
       /\ flow[x].pc \in Asking => flow[x].was = doc
       /\ \A y \in Threads : Modal(x) /\ Modal(y) => x = y

Restarts == \E x \in Threads : flow[x].pc = "restart"

\* A mode was saved, and the question about the image is open.
Picking(f) == f.kind = "start" /\ f.pc = "flavor" /\ f.was.mode = "off"
ModeJustPicked == \E x \in Threads : Picking(flow[x])

\* The dashboard's server runs with the saved settings, or a restart is due, or it runs
\* without a sandbox and this is shown as pending or about to be decided.
ServerIsAccounted ==
  /\ ~past.crossed => \A x \in Threads : flow[x].pc = "respawn" => ~server.up
  /\ launch.owned /\ server.up /\ ~past.crossed =>
       /\ server.default = Effective(doc).default \/ Restarts
       /\ \/ server.mode = Effective(doc).mode \/ Restarts
          \/ server.mode = "off" /\ (store.pending \/ ModeJustPicked)

LEMMA NoFlowIsSound ==
  /\ Sound(NoFlow) /\ NoFlow.pc = "none" /\ NoFlow.kind = "none"
  /\ DOMAIN NoFlow = {"kind", "pc", "was", "next"} /\ DOMAIN NoSettings = SettingsFields
<1>1. NoFlow.was = NoSettings /\ NoFlow.next = NoSettings /\ DOMAIN NoSettings = SettingsFields
  BY DEF NoFlow, NoSettings, SettingsFields
<1>2. /\ DOMAIN NoFlow = {"kind", "pc", "was", "next"}
      /\ NoFlow.pc = "none" /\ NoFlow.kind = "none"
  BY DEF NoFlow
<1> QED
  BY <1>1, <1>2 DEF Sound

LEMMA DashStarts == DashInit => ActionsTakeTurns /\ ServerIsAccounted
<1> SUFFICES ASSUME DashInit PROVE ActionsTakeTurns /\ ServerIsAccounted
  OBVIOUS
<1>1. DOMAIN doc = SettingsFields
  BY DEF DashInit, Settings, SettingsFields
<1>2. /\ DOMAIN store = {"settings", "pending", "golden", "session"} /\ store.pending = FALSE
      /\ store.settings = doc
  BY DEF DashInit
<1>3. PICK s \in Settings : (launch.owned => s = doc) /\ server = Booted(s)
  BY DEF DashInit
<1>4. /\ DOMAIN server = {"up", "mode", "default", "session"} /\ server.up = TRUE
      /\ server.mode = Effective(s).mode /\ server.default = Effective(s).default
  BY <1>3 DEF Booted
<1>5. DOMAIN past = {"started", "images", "crossed"} /\ past.crossed = FALSE
  BY DEF DashInit
<1>6. DOMAIN flow = Threads /\ \A x \in Threads : flow[x] = NoFlow
  BY DEF DashInit
<1>7. \A x \in Threads : ~Modal(x) /\ flow[x].pc \notin Asking /\ Sound(flow[x]) /\ flow[x].pc # "respawn"
  BY <1>6, NoFlowIsSound DEF Modal, Asking
<1> QED
  BY <1>1, <1>2, <1>3, <1>4, <1>5, <1>6, <1>7 DEF ActionsTakeTurns, DashShape, ServerIsAccounted

\* Keys reach the dashboard only while no modal is open, as long as none overlapped.
LEMMA KeysMeanNoModal ==
  ASSUME KeysReach, ~past.crossed
  PROVE  \A y \in Threads : ~Modal(y)
<1> DEFINE open == {x \in Threads : Modal(x)}
<1>1. IsFiniteSet(open) /\ Cardinality(open) \in Nat
  <2>1. IsFiniteSet(Threads)
    <3>1. 1 \in Int /\ 2 \in Int
      OBVIOUS
    <3> QED
      BY <3>1, FS_Interval DEF Threads
  <2> QED
    BY <2>1, FS_Subset, FS_CardinalityType
<1>2. Cardinality(open) = 0
  BY <1>1 DEF KeysReach
<1>3. open = {}
  BY <1>1, <1>2, FS_EmptySet
<1> QED
  BY <1>3

-----------------------------------------------------------------------------
(* What a step of one thread keeps.                                        *)

Others(x) == DOMAIN flow' = Threads /\ \A y \in Threads \ {x} : flow'[y] = flow[y]

LEMMA OneThreadMoves ==
  ASSUME ActionsTakeTurns, NEW x \in Threads, Others(x), Sound(flow'[x]),
         DashShape', store'.settings = doc', past.crossed => past'.crossed,
         ~past'.crossed =>
           /\ flow'[x].pc \in Asking => flow'[x].was = doc'
           /\ doc' = doc \/ Modal(x) \/ \A y \in Threads : ~Modal(y)
           /\ Modal(x)' => Modal(x) \/ \A y \in Threads : ~Modal(y)
  PROVE  ActionsTakeTurns'
<1>1. \A y \in Threads : Sound(flow'[y])
  BY DEF ActionsTakeTurns, Others
<1>2. \A y \in Threads \ {x} : Modal(y)' <=> Modal(y)
  BY DEF Others, Modal, InFlight
<1>3. ASSUME ~past'.crossed, NEW y \in Threads, flow'[y].pc \in Asking
      PROVE  flow'[y].was = doc'
  <2>1. CASE y = x
    BY <1>3, <2>1
  <2>2. CASE y # x
    <3>1. flow'[y] = flow[y] /\ flow[y].was = doc
      BY <1>3, <2>2 DEF Others, ActionsTakeTurns, DashShape
    <3>2. Modal(y)
      <4>1. flow[y].pc \in Asking /\ Sound(flow[y])
        BY <1>3, <3>1 DEF ActionsTakeTurns
      <4> QED
        BY <4>1 DEF Modal, InFlight, Sound, Asking
    <3>3. doc' = doc
      BY <1>3, <2>2, <3>2 DEF ActionsTakeTurns, DashShape
    <3> QED
      BY <3>1, <3>3
  <2> QED
    BY <2>1, <2>2
<1>4. ASSUME ~past'.crossed, NEW y \in Threads, NEW z \in Threads, Modal(y)', Modal(z)'
      PROVE  y = z
  BY <1>2, <1>4 DEF ActionsTakeTurns
<1> QED
  BY <1>1, <1>3, <1>4 DEF ActionsTakeTurns, Others

\* A step that changes neither the settings nor how the server runs, and ends no thread
\* that was to see to it.
LEMMA OneThreadKeepsAccount ==
  ASSUME ServerIsAccounted, NEW x \in Threads, Others(x), DashShape,
         UNCHANGED launch, past.crossed => past'.crossed,
         doc'.mode = doc.mode, doc'.default = doc.default,
         server'.up = server.up, server'.mode = server.mode, server'.default = server.default,
         store.pending => store'.pending,
         flow[x].pc # "restart", flow'[x].pc # "respawn" \/ flow[x].pc = "respawn",
         Picking(flow[x]) => store'.pending \/ Picking(flow'[x]) \/ flow'[x].pc = "restart"
  PROVE  ServerIsAccounted'
<1>1. \A y \in Threads : flow'[y].pc = "respawn" => flow[y].pc = "respawn"
  BY DEF Others
<1>2. Restarts => Restarts'
  BY DEF Restarts, Others
<1>3. ModeJustPicked => ModeJustPicked' \/ store'.pending \/ Restarts'
  BY DEF ModeJustPicked, Others, Restarts
<1>4. Effective(doc)' = Effective(doc)
  BY DEF Effective
<1> QED
  BY <1>1, <1>2, <1>3, <1>4 DEF ServerIsAccounted, DashShape

\* A step after which a restart is due.
LEMMA ARestartIsDue ==
  ASSUME ServerIsAccounted, NEW x \in Threads, Others(x), DashShape,
         past.crossed => past'.crossed, server'.up = server.up, flow'[x].pc = "restart"
  PROVE  ServerIsAccounted'
<1>1. Restarts'
  BY DEF Restarts
<1>2. \A y \in Threads : flow'[y].pc = "respawn" => flow[y].pc = "respawn"
  BY DEF Others
<1> QED
  BY <1>1, <1>2 DEF ServerIsAccounted, DashShape

\* The ways an action of the dashboard leaves its thread.
LEMMA EndedThread ==
  ASSUME DOMAIN flow = Threads, NEW x \in Threads, Ended(x)
  PROVE  /\ Others(x) /\ flow'[x] = NoFlow /\ Sound(flow'[x]) /\ ~Modal(x)'
         /\ flow'[x].pc = "none" /\ flow'[x].kind = "none"
BY NoFlowIsSound DEF Ended, Others, Modal

LEMMA MovedThread ==
  ASSUME DOMAIN flow = Threads, NEW x \in Threads, Sound(flow[x]), flow[x].kind # "none",
         NEW pc, Moved(x, pc), pc \notin {"pick", "saving"}
  PROVE  /\ Others(x) /\ Sound(flow'[x]) /\ flow'[x].pc = pc
         /\ flow'[x].kind = flow[x].kind /\ flow'[x].was = flow[x].was
<1>1. flow' = [flow EXCEPT ![x] = [@ EXCEPT !.pc = pc]]
  BY DEF Moved
<1>2. Others(x) /\ flow'[x] = [flow[x] EXCEPT !.pc = pc]
  BY <1>1 DEF Others
<1>3. /\ DOMAIN flow'[x] = DOMAIN flow[x] /\ flow'[x].pc = pc
      /\ flow'[x].kind = flow[x].kind /\ flow'[x].was = flow[x].was /\ flow'[x].next = flow[x].next
  BY <1>2 DEF Sound
<1> QED
  BY <1>2, <1>3 DEF Sound

\* What an action that saves does to its thread, the document and the store.
LEMMA SavedThread ==
  ASSUME DashShape, DOMAIN flow = Threads, store.settings = doc,
         NEW x \in Threads, Sound(flow[x]), flow[x].kind # "none",
         NEW s, DOMAIN s = SettingsFields, NEW pc \in {"none", "restart", "flavor"}, Save(x, s, pc)
  PROVE  /\ Others(x) /\ Sound(flow'[x])
         /\ flow'[x].pc \in {"none", pc}
         /\ DOMAIN doc' = SettingsFields /\ store'.settings = doc'
         /\ DOMAIN store' = DOMAIN store /\ store'.pending = store.pending
         /\ \/ doc' = doc /\ flow'[x].pc = "none"
            \/ /\ doc' = s /\ flow'[x].pc = pc
               /\ pc # "none" => flow'[x].kind = flow[x].kind /\ flow'[x].was = flow[x].was
<1>1. CASE doc' = s /\ store' = [store EXCEPT !.settings = s] /\ pc = "none" /\ Ended(x)
  <2>1. DOMAIN store' = DOMAIN store /\ store'.pending = store.pending /\ store'.settings = s
    BY <1>1 DEF DashShape
  <2> QED
    BY <1>1, <2>1, EndedThread
<1>2. CASE /\ doc' = s /\ store' = [store EXCEPT !.settings = s] /\ pc # "none"
           /\ flow' = [flow EXCEPT ![x].pc = pc, ![x].next = s]
  <2>1. DOMAIN store' = DOMAIN store /\ store'.pending = store.pending /\ store'.settings = s
    BY <1>2 DEF DashShape
  <2>2. Others(x) /\ flow'[x] = [[flow[x] EXCEPT !.pc = pc] EXCEPT !.next = s]
    BY <1>2 DEF Others
  <2>3. /\ DOMAIN flow'[x] = DOMAIN flow[x] /\ flow'[x].pc = pc
        /\ flow'[x].kind = flow[x].kind /\ flow'[x].was = flow[x].was /\ flow'[x].next = s
    BY <2>2 DEF Sound
  <2>4. Sound(flow'[x])
    BY <2>3 DEF Sound
  <2> QED
    BY <1>2, <2>1, <2>2, <2>3, <2>4
<1>3. CASE UNCHANGED <<doc, store>> /\ Ended(x)
  BY <1>3, EndedThread DEF DashShape
<1> QED
  BY <1>1, <1>2, <1>3 DEF Save

\* A modal that saves keeps both.  It may change the mode or the default only if it then
\* restarts the server, or, where no mode was set, if it then asks about the image.
LEMMA SaveKeeps ==
  ASSUME ActionsTakeTurns, ServerIsAccounted, NEW x \in Threads, Modal(x),
         NEW s, DOMAIN s = SettingsFields, NEW pc \in {"none", "restart"}, Save(x, s, pc),
         flow[x].pc \notin {"restart", "flavor", "respawn"},
         pc = "none" /\ ~past.crossed => s.mode = doc.mode /\ s.default = doc.default,
         UNCHANGED <<image, server, launch, past>>
  PROVE  ActionsTakeTurns' /\ ServerIsAccounted'
<1>0. /\ DashShape /\ DOMAIN flow = Threads /\ store.settings = doc /\ Sound(flow[x])
      /\ flow[x].kind # "none"
  BY DEF ActionsTakeTurns, Modal
<1>1. /\ Others(x) /\ Sound(flow'[x])
      /\ flow'[x].pc \in {"none", pc}
      /\ DOMAIN doc' = SettingsFields /\ store'.settings = doc'
      /\ DOMAIN store' = DOMAIN store /\ store'.pending = store.pending
      /\ \/ doc' = doc /\ flow'[x].pc = "none"
         \/ /\ doc' = s /\ flow'[x].pc = pc
            /\ pc # "none" => flow'[x].kind = flow[x].kind /\ flow'[x].was = flow[x].was
  BY <1>0, SavedThread
<1>2. DashShape'
  BY <1>0, <1>1 DEF DashShape
<1>3. ActionsTakeTurns'
  BY <1>1, <1>2, OneThreadMoves DEF Asking
<1>4. CASE flow'[x].pc = "restart"
  BY <1>0, <1>1, <1>3, <1>4, ARestartIsDue
<1>5. CASE flow'[x].pc # "restart" /\ ~past.crossed
  <2>1. flow'[x].pc = "none" /\ doc'.mode = doc.mode /\ doc'.default = doc.default
    BY <1>1, <1>5
  <2>2. ~Picking(flow[x])
    BY DEF Picking
  <2> QED
    BY <1>0, <1>1, <1>3, <2>1, <2>2, OneThreadKeepsAccount
<1>6. CASE past.crossed
  <2>1. past'.crossed
    BY <1>6
  <2>2. ServerIsAccounted'
    BY <2>1 DEF ServerIsAccounted
  <2> QED
    BY <1>3, <2>2
<1> QED
  BY <1>3, <1>4, <1>5, <1>6


\* An action enters in a free thread.  It is a modal only if none is open.
LEMMA EnterKeeps ==
  ASSUME ActionsTakeTurns, ServerIsAccounted, NEW kind, NEW pc, Enter(kind, pc),
         kind # "none", pc \notin {"none", "restart", "respawn"},
         kind = "start" /\ pc = "pick" => store.settings.mode = "off",
         kind = "turnOff" /\ pc = "saving" => ~HasPublicChannel(store.settings),
         store' = store \/ store' = Looked, UNCHANGED <<doc, image, server, launch>>
  PROVE  ActionsTakeTurns' /\ ServerIsAccounted'
<1>0. DashShape /\ DOMAIN flow = Threads /\ store.settings = doc
  BY DEF ActionsTakeTurns
<1>1. PICK x \in Threads :
        /\ flow[x] = NoFlow /\ \A y \in Threads : y < x => flow[y] # NoFlow
        /\ flow' = [flow EXCEPT ![x] = [NoFlow EXCEPT !.kind = kind, !.pc = pc, !.was = store.settings]]
  BY DEF Enter
<1>2. Others(x) /\ flow'[x] = [[[NoFlow EXCEPT !.kind = kind] EXCEPT !.pc = pc] EXCEPT !.was = store.settings]
  BY <1>0, <1>1 DEF Others
<1>3. /\ DOMAIN flow'[x] = {"kind", "pc", "was", "next"} /\ flow'[x].kind = kind
      /\ flow'[x].pc = pc /\ flow'[x].was = doc /\ flow'[x].next = NoFlow.next
  BY <1>0, <1>2, NoFlowIsSound
<1>4. Sound(flow'[x])
  BY <1>0, <1>3, NoFlowIsSound DEF Sound, DashShape
<1>5. past' = [past EXCEPT !.started = @ + 1] /\ KeysReach
  BY DEF Enter
<1>6. DOMAIN past' = DOMAIN past /\ past'.crossed = past.crossed
  BY <1>0, <1>5 DEF DashShape
<1>7. DOMAIN store' = DOMAIN store /\ store'.settings = store.settings /\ store'.pending = store.pending
  BY <1>0 DEF Looked, DashShape
<1>8. DashShape'
  BY <1>0, <1>6, <1>7 DEF DashShape
<1>9. ~past.crossed => \A y \in Threads : ~Modal(y)
  BY <1>5, KeysMeanNoModal
<1>10. ActionsTakeTurns'
  BY <1>0, <1>2, <1>3, <1>4, <1>6, <1>7, <1>8, <1>9, OneThreadMoves
<1>11. flow[x].pc = "none" /\ ~Picking(flow[x])
  BY <1>1, NoFlowIsSound DEF Picking
<1>12. ServerIsAccounted'
  BY <1>0, <1>2, <1>3, <1>6, <1>7, <1>8, <1>11, OneThreadKeepsAccount
<1> QED
  BY <1>10, <1>12

\* The steps of the restart and of the commands.
LEMMA RestartRefusedKeeps ==
  ASSUME ActionsTakeTurns, ServerIsAccounted, NEW x \in Threads, RestartRefused(x)
  PROVE  ActionsTakeTurns' /\ ServerIsAccounted'
<1>0. DashShape /\ DOMAIN flow = Threads /\ store.settings = doc
  BY DEF ActionsTakeTurns
<1>1. /\ flow[x].pc = "restart" /\ ~launch'.owned /\ Ended(x)
      /\ store' = [store EXCEPT !.pending = @ \/ flow[x].kind \in {"configure", "turnOff"}]
      /\ UNCHANGED <<doc, image, server, launch, past>>
  BY <1>0 DEF RestartRefused
<1>2. /\ DOMAIN store' = DOMAIN store /\ store'.settings = store.settings
      /\ store'.pending = (store.pending \/ flow[x].kind \in {"configure", "turnOff"})
  BY <1>0, <1>1 DEF DashShape
<1>3. DashShape'
  BY <1>0, <1>1, <1>2 DEF DashShape
<1>4. /\ Others(x) /\ flow'[x] = NoFlow /\ Sound(flow'[x]) /\ ~Modal(x)'
      /\ flow'[x].pc = "none" /\ flow'[x].kind = "none"
  BY <1>0, <1>1, EndedThread
<1>5. ActionsTakeTurns'
  BY <1>0, <1>1, <1>2, <1>3, <1>4, OneThreadMoves DEF Asking
<1>6. \A y \in Threads : flow'[y].pc = "respawn" => flow[y].pc = "respawn"
  BY <1>4 DEF Others
<1> QED
  BY <1>1, <1>5, <1>6 DEF ServerIsAccounted

LEMMA RestartStopsKeeps ==
  ASSUME ActionsTakeTurns, ServerIsAccounted, NEW x \in Threads, RestartStops(x)
  PROVE  ActionsTakeTurns' /\ ServerIsAccounted'
<1>0. DashShape /\ DOMAIN flow = Threads /\ store.settings = doc
  BY DEF ActionsTakeTurns
<1>1. /\ flow[x].pc = "restart" /\ server' = [server EXCEPT !.up = FALSE]
      /\ flow' = [y \in Threads |-> IF y = x THEN [flow[y] EXCEPT !.pc = "respawn"]
                                    ELSE IF flow[y].pc = "sending" THEN NoFlow ELSE flow[y]]
      /\ UNCHANGED <<doc, store, image, launch, past>>
  BY DEF RestartStops
<1>2. /\ DOMAIN server' = DOMAIN server /\ server'.up = FALSE
      /\ server'.mode = server.mode /\ server'.default = server.default
  BY <1>0, <1>1 DEF DashShape
<1>3. DashShape'
  BY <1>0, <1>1, <1>2 DEF DashShape
<1>4. /\ DOMAIN flow'[x] = DOMAIN flow[x] /\ flow'[x].pc = "respawn"
      /\ flow'[x].kind = flow[x].kind /\ flow'[x].was = flow[x].was /\ flow'[x].next = flow[x].next
  BY <1>1 DEF ActionsTakeTurns, Sound
<1>5. \A y \in Threads \ {x} : flow'[y] = NoFlow \/ flow'[y] = flow[y]
  BY <1>1
<1>6. Sound(flow'[x]) /\ Modal(x)
  <2>1. Sound(flow[x])
    BY DEF ActionsTakeTurns
  <2> QED
    BY <1>1, <1>4, <2>1 DEF Sound, Modal, InFlight
<1>7. \A y \in Threads : Sound(flow'[y]) /\ (Modal(y)' => Modal(y))
  <2>1. ASSUME NEW y \in Threads \ {x} PROVE Sound(flow'[y]) /\ (Modal(y)' => Modal(y))
    <3>1. CASE flow'[y] = NoFlow
      BY <3>1, NoFlowIsSound DEF Modal
    <3>2. CASE flow'[y] = flow[y]
      BY <3>2 DEF Modal, InFlight, ActionsTakeTurns
    <3> QED
      BY <1>5, <2>1, <3>1, <3>2
  <2> QED
    BY <1>6, <2>1
<1>8. \A y \in Threads : flow'[y].pc \in Asking => flow'[y] = flow[y]
  BY <1>4, <1>5, NoFlowIsSound DEF Asking
<1>9. ActionsTakeTurns'
  BY <1>0, <1>1, <1>3, <1>7, <1>8 DEF ActionsTakeTurns
<1> QED
  BY <1>2, <1>9 DEF ServerIsAccounted


\* A server that booted runs with the saved settings; one that did not is still down.
LEMMA RespawnKeeps ==
  ASSUME ActionsTakeTurns, ServerIsAccounted, NEW x \in Threads, Respawn(x)
  PROVE  ActionsTakeTurns' /\ ServerIsAccounted'
<1>0. DashShape /\ DOMAIN flow = Threads /\ store.settings = doc
  BY DEF ActionsTakeTurns
<1>1. PICK ok \in {FALSE, Bootable(doc)} :
        /\ server' = IF ok THEN Booted(doc) ELSE server
        /\ store' = IF flow[x].kind \in {"configure", "turnOff"}
                    THEN [store EXCEPT !.pending = ~ok] ELSE store
  BY DEF Respawn
<1>2. flow[x].pc = "respawn" /\ Ended(x) /\ UNCHANGED <<doc, image, launch, past>>
  BY DEF Respawn
<1>3. /\ DOMAIN store' = DOMAIN store /\ store'.settings = store.settings
      /\ store'.pending \in BOOLEAN
  <2>1. CASE store' = [store EXCEPT !.pending = ~ok]
    BY <1>0, <2>1 DEF DashShape
  <2>2. CASE store' = store
    BY <1>0, <2>2 DEF DashShape
  <2> QED
    BY <1>1, <2>1, <2>2
<1>4. /\ DOMAIN Booted(doc) = {"up", "mode", "default", "session"} /\ Booted(doc).up = TRUE
      /\ Booted(doc).mode = Effective(doc).mode /\ Booted(doc).default = Effective(doc).default
  BY DEF Booted
<1>5. DashShape'
  <2>1. DOMAIN server' = DOMAIN server /\ server'.up \in BOOLEAN
    BY <1>0, <1>1, <1>4 DEF DashShape
  <2> QED
    BY <1>0, <1>2, <1>3, <2>1 DEF DashShape
<1>6. /\ Others(x) /\ flow'[x] = NoFlow /\ Sound(flow'[x]) /\ ~Modal(x)'
      /\ flow'[x].pc = "none" /\ flow'[x].kind = "none"
  BY <1>0, <1>2, EndedThread
<1>7. ActionsTakeTurns'
  BY <1>0, <1>2, <1>3, <1>5, <1>6, OneThreadMoves DEF Asking
<1>8. ~past.crossed => \A y \in Threads : flow'[y].pc # "respawn"
  <2>1. \A y \in Threads : flow[y].pc = "respawn" => Modal(y)
    BY DEF ActionsTakeTurns, Sound, Modal, InFlight
  <2> QED
    BY <1>2, <1>6, <2>1 DEF Others, ActionsTakeTurns
<1>9. ~past.crossed => ~server.up
  BY <1>2 DEF ServerIsAccounted
<1>10. Effective(doc)' = Effective(doc)
  BY <1>2 DEF Effective
<1> QED
  BY <1>1, <1>2, <1>4, <1>7, <1>8, <1>9, <1>10 DEF ServerIsAccounted

\* A command that restarts a sandbox clears the mark only on a server that has one.
LEMMA CommandSettlesKeeps ==
  ASSUME ActionsTakeTurns, ServerIsAccounted, NEW x \in Threads, CommandSettles(x)
  PROVE  ActionsTakeTurns' /\ ServerIsAccounted'
<1>0. DashShape /\ DOMAIN flow = Threads /\ store.settings = doc
  BY DEF ActionsTakeTurns
<1>1. PICK runs \in {FALSE, server.up /\ server.mode # "off"} : \E heard \in BOOLEAN :
        /\ server' = IF ~runs THEN server
                     ELSE [server EXCEPT !.session = IF flow[x].kind = "stopSandbox" THEN "ended" ELSE "active"]
        /\ store' = IF runs /\ heard /\ flow[x].kind = "restartSandbox"
                    THEN [store EXCEPT !.pending = FALSE] ELSE store
  BY DEF CommandSettles
<1>2. flow[x].pc = "sending" /\ Ended(x) /\ UNCHANGED <<doc, image, launch, past>>
  BY DEF CommandSettles
<1>3. /\ DOMAIN server' = DOMAIN server /\ server'.up = server.up
      /\ server'.mode = server.mode /\ server'.default = server.default
  BY <1>0, <1>1 DEF DashShape
<1>4. /\ DOMAIN store' = DOMAIN store /\ store'.settings = store.settings
      /\ store'.pending \in BOOLEAN
      /\ store'.pending = store.pending \/ server.mode # "off"
  BY <1>0, <1>1 DEF DashShape
<1>5. DashShape'
  BY <1>0, <1>2, <1>3, <1>4 DEF DashShape
<1>6. /\ Others(x) /\ flow'[x] = NoFlow /\ Sound(flow'[x]) /\ ~Modal(x)'
      /\ flow'[x].pc = "none" /\ flow'[x].kind = "none"
  BY <1>0, <1>2, EndedThread
<1>7. ActionsTakeTurns'
  BY <1>0, <1>2, <1>4, <1>5, <1>6, OneThreadMoves DEF Asking
<1>8. \A y \in Threads : flow'[y].pc = "respawn" => flow[y].pc = "respawn"
  BY <1>6 DEF Others
<1>9. (Restarts => Restarts') /\ (ModeJustPicked => ModeJustPicked')
  BY <1>2, <1>6 DEF Restarts, ModeJustPicked, Picking, Others
<1>10. Effective(doc)' = Effective(doc)
  BY <1>2 DEF Effective
<1> QED
  BY <1>2, <1>3, <1>4, <1>7, <1>8, <1>9, <1>10 DEF ServerIsAccounted

\* A thread that moves on without saving.
LEMMA MovingKeeps ==
  ASSUME ActionsTakeTurns, ServerIsAccounted, NEW x \in Threads,
         Others(x), Sound(flow'[x]), DashShape', store'.settings = doc',
         UNCHANGED <<doc, server, launch>>, past.crossed => past'.crossed,
         ~past'.crossed => (Modal(x)' => Modal(x) \/ \A y \in Threads : ~Modal(y)),
         flow'[x].pc \in Asking => flow'[x].was = doc,
         store.pending => store'.pending,
         flow[x].pc # "restart", flow'[x].pc # "respawn",
         Picking(flow[x]) => store'.pending \/ flow'[x].pc = "restart"
  PROVE  ActionsTakeTurns' /\ ServerIsAccounted'
<1>0. DashShape
  BY DEF ActionsTakeTurns
<1>1. ActionsTakeTurns'
  BY OneThreadMoves
<1>2. ServerIsAccounted'
  BY <1>0, OneThreadKeepsAccount
<1> QED
  BY <1>1, <1>2

LEMMA EndingKeeps ==
  ASSUME ActionsTakeTurns, ServerIsAccounted, NEW x \in Threads, Ended(x),
         UNCHANGED <<doc, server, launch, past>>,
         DOMAIN store' = DOMAIN store, store'.settings = store.settings,
         store'.pending \in BOOLEAN, store.pending => store'.pending,
         flow[x].pc # "restart", Picking(flow[x]) => store'.pending
  PROVE  ActionsTakeTurns' /\ ServerIsAccounted'
<1>0. DashShape /\ DOMAIN flow = Threads /\ store.settings = doc
  BY DEF ActionsTakeTurns
<1>1. /\ Others(x) /\ flow'[x] = NoFlow /\ Sound(flow'[x]) /\ ~Modal(x)'
      /\ flow'[x].pc = "none" /\ flow'[x].kind = "none"
  BY <1>0, EndedThread
<1>2. DashShape'
  BY <1>0 DEF DashShape
<1> QED
  BY <1>0, <1>1, <1>2, MovingKeeps DEF Asking


LEMMA UseChannelKeeps ==
  ASSUME ActionsTakeTurns, ServerIsAccounted, UseChannel
  PROVE  ActionsTakeTurns' /\ ServerIsAccounted'
<1>0. DashShape /\ DOMAIN flow = Threads /\ store.settings = doc
  BY DEF ActionsTakeTurns
<1>1. PICK c \in store.settings.channels \ {store.settings.default}, x \in Threads :
        /\ flow[x] = NoFlow /\ \A y \in Threads : y < x => flow[y] # NoFlow
        /\ doc' = [store.settings EXCEPT !.default = c]
        /\ store' = [store EXCEPT !.settings = doc']
        /\ flow' = [flow EXCEPT ![x] = [NoFlow EXCEPT !.kind = "channel", !.pc = "restart"]]
  BY DEF UseChannel
<1>2. KeysReach /\ past' = [past EXCEPT !.started = @ + 1] /\ UNCHANGED <<image, server, launch>>
  BY DEF UseChannel
<1>3. DOMAIN past' = DOMAIN past /\ past'.crossed = past.crossed
  BY <1>0, <1>2 DEF DashShape
<1>4. DOMAIN store' = DOMAIN store /\ store'.settings = doc' /\ store'.pending = store.pending
  BY <1>0, <1>1 DEF DashShape
<1>5. DOMAIN doc' = SettingsFields
  BY <1>0, <1>1 DEF DashShape
<1>6. DashShape'
  BY <1>0, <1>2, <1>3, <1>4, <1>5 DEF DashShape
<1>7. Others(x) /\ flow'[x] = [[NoFlow EXCEPT !.kind = "channel"] EXCEPT !.pc = "restart"]
  BY <1>0, <1>1 DEF Others
<1>8. /\ DOMAIN flow'[x] = {"kind", "pc", "was", "next"} /\ flow'[x].kind = "channel"
      /\ flow'[x].pc = "restart" /\ flow'[x].was = NoFlow.was /\ flow'[x].next = NoFlow.next
  BY <1>7, NoFlowIsSound
<1>9. Sound(flow'[x])
  BY <1>8, NoFlowIsSound DEF Sound
<1>10. ~past.crossed => \A y \in Threads : ~Modal(y)
  BY <1>2, KeysMeanNoModal
<1>11. ActionsTakeTurns'
  BY <1>3, <1>4, <1>6, <1>7, <1>8, <1>9, <1>10, OneThreadMoves DEF Asking
<1>12. ServerIsAccounted'
  BY <1>0, <1>2, <1>3, <1>7, <1>8, ARestartIsDue
<1> QED
  BY <1>11, <1>12

\* Where no mode was set, the server runs without a sandbox until the question about the
\* image is answered.
LEMMA ModePickedKeeps ==
  ASSUME ActionsTakeTurns, ServerIsAccounted, NEW x \in Threads, ModePicked(x)
  PROVE  ActionsTakeTurns' /\ ServerIsAccounted'
<1>0. /\ DashShape /\ DOMAIN flow = Threads /\ store.settings = doc /\ Sound(flow[x])
      /\ flow[x].kind = "start" /\ flow[x].pc = "pick" /\ flow[x].was.mode = "off" /\ Modal(x)
      /\ UNCHANGED <<image, server, launch, past>>
  BY DEF ActionsTakeTurns, ModePicked, At, Sound, Modal, InFlight
<1>1. PICK mode \in {"vm", "agent"} : Save(x, [store.settings EXCEPT !.mode = mode], "flavor")
  BY DEF ModePicked
<1> DEFINE s == [store.settings EXCEPT !.mode = mode]
<1>2. DOMAIN s = SettingsFields /\ s.mode = mode /\ s.default = doc.default
  BY <1>0 DEF DashShape, SettingsFields
<1>3. Save(x, s, "flavor")
  BY <1>1
<1> HIDE DEF s
<1>4. /\ Others(x) /\ Sound(flow'[x])
      /\ flow'[x].pc \in {"none", "flavor"}
      /\ DOMAIN doc' = SettingsFields /\ store'.settings = doc'
      /\ DOMAIN store' = DOMAIN store /\ store'.pending = store.pending
      /\ \/ doc' = doc /\ flow'[x].pc = "none"
         \/ /\ doc' = s /\ flow'[x].pc = "flavor"
            /\ flow'[x].kind = flow[x].kind /\ flow'[x].was = flow[x].was
  BY <1>0, <1>2, <1>3, SavedThread
<1>5. DashShape'
  BY <1>0, <1>4 DEF DashShape
<1>6. ActionsTakeTurns'
  BY <1>0, <1>4, <1>5, OneThreadMoves DEF Asking
<1>7. CASE doc' = doc
  <2>1. ~Picking(flow[x])
    BY <1>0 DEF Picking
  <2> QED
    BY <1>0, <1>4, <1>6, <1>7, <2>1, OneThreadKeepsAccount
<1>8. CASE doc' = s /\ flow'[x].pc = "flavor" /\ flow'[x].kind = flow[x].kind /\ flow'[x].was = flow[x].was
  <2>1. ModeJustPicked'
    BY <1>0, <1>8 DEF ModeJustPicked, Picking
  <2>2. Restarts => Restarts'
    BY <1>0, <1>4 DEF Restarts, Others
  <2>3. ~past.crossed => doc.mode = "off"
    BY <1>0 DEF ActionsTakeTurns, Asking
  <2>4. Effective(doc)'.default = Effective(doc).default
    BY <1>0, <1>2, <1>8 DEF Effective
  <2>5. ~past.crossed => Effective(doc)'.mode = Effective(doc).mode \/ Effective(doc).mode = "off"
    BY <1>0, <2>3 DEF Effective
  <2>6. \A y \in Threads : flow'[y].pc = "respawn" => flow[y].pc = "respawn"
    BY <1>4 DEF Others
  <2> QED
    BY <1>0, <1>4, <1>6, <2>1, <2>2, <2>3, <2>4, <2>5, <2>6 DEF ServerIsAccounted
<1> QED
  BY <1>4, <1>7, <1>8

\* The actions that save what a wizard, a question or the list answered.
LEMMA AnswersKeep ==
  ASSUME ActionsTakeTurns, ServerIsAccounted, NEW x \in Threads,
         WizardSaved(x) \/ ChannelAdded(x) \/ ChannelRemoved(x) \/ TurnedOff(x) \/ ExposureAccepted(x)
  PROVE  ActionsTakeTurns' /\ ServerIsAccounted'
<1>0. /\ DashShape /\ DOMAIN flow = Threads /\ store.settings = doc /\ Sound(flow[x])
      /\ ~past.crossed /\ flow[x].pc \in Asking => flow[x].was = doc
  BY DEF ActionsTakeTurns
<1>1. ASSUME flow[x].pc \in Asking, flow[x].kind # "none" PROVE Modal(x)
  BY <1>1 DEF Modal, InFlight, Asking
<1> DEFINE was == flow[x].was
<1>2. DOMAIN was = SettingsFields
  BY <1>0 DEF Sound
<1>3. ASSUME NEW mode \in Modes, At(x, "configure", "wizard"), UNCHANGED <<image, server, launch, past>>,
             LET next == [was EXCEPT !.mode = mode]
             IN IF was.mode # "off" /\ mode = "off" /\ HasPublicChannel(next)
                THEN /\ flow' = [flow EXCEPT ![x].pc = "exposure", ![x].next = next]
                     /\ UNCHANGED <<doc, store>>
                ELSE Save(x, next, IF mode # was.mode THEN "restart" ELSE "none")
      PROVE  ActionsTakeTurns' /\ ServerIsAccounted'
  <2> DEFINE next == [was EXCEPT !.mode = mode]
  <2>2. DOMAIN next = SettingsFields /\ next.mode = mode /\ next.default = was.default
    BY <1>2 DEF SettingsFields
  <2>3. /\ flow[x].kind = "configure" /\ flow[x].pc = "wizard" /\ Modal(x)
        /\ UNCHANGED <<image, server, launch, past>>
    BY <1>1, <1>3 DEF At, Asking
  <2>4. CASE flow' = [flow EXCEPT ![x].pc = "exposure", ![x].next = next] /\ UNCHANGED <<doc, store>>
    <3> HIDE DEF next
    <3>1. Others(x) /\ flow'[x] = [[flow[x] EXCEPT !.pc = "exposure"] EXCEPT !.next = next]
      BY <1>0, <2>4 DEF Others
    <3>2. /\ DOMAIN flow'[x] = DOMAIN flow[x] /\ flow'[x].pc = "exposure"
          /\ flow'[x].kind = flow[x].kind /\ flow'[x].was = flow[x].was /\ flow'[x].next = next
      BY <1>0, <3>1 DEF Sound
    <3>3. Sound(flow'[x]) /\ ~Picking(flow[x])
      BY <1>0, <2>2, <2>3, <3>2 DEF Sound, Picking
    <3>4. DashShape'
      BY <1>0, <2>3, <2>4 DEF DashShape
    <3>5. ActionsTakeTurns'
      BY <1>0, <2>3, <2>4, <3>1, <3>2, <3>3, <3>4, OneThreadMoves DEF Asking
    <3>6. ServerIsAccounted'
      BY <1>0, <2>3, <2>4, <3>1, <3>2, <3>3, OneThreadKeepsAccount
    <3> QED
      BY <3>5, <3>6
  <2>5. CASE Save(x, next, IF mode # was.mode THEN "restart" ELSE "none")
    <3> DEFINE pc == IF mode # was.mode THEN "restart" ELSE "none"
    <3>1. /\ pc \in {"none", "restart"}
          /\ pc = "none" /\ ~past.crossed => next.mode = doc.mode /\ next.default = doc.default
      BY <1>0, <2>2, <2>3 DEF Asking
    <3>2. Save(x, next, pc)
      BY <2>5
    <3> HIDE DEF next, pc
    <3> QED
      BY <2>2, <2>3, <3>1, <3>2, SaveKeeps
  <2> QED
    BY <1>3, <2>4, <2>5
<1>8. ASSUME NEW clients, At(x, "configure", "wizard"), UNCHANGED <<image, server, launch, past>>,
             Save(x, [was EXCEPT !.clients = clients], "none")
      PROVE  ActionsTakeTurns' /\ ServerIsAccounted'
  <2> DEFINE next == [was EXCEPT !.clients = clients]
  <2>1. DOMAIN next = SettingsFields /\ next.mode = was.mode /\ next.default = was.default
    BY <1>2 DEF SettingsFields
  <2>2. flow[x].kind = "configure" /\ flow[x].pc = "wizard" /\ Modal(x)
    BY <1>1, <1>8 DEF At, Asking
  <2>3. ~past.crossed => next.mode = doc.mode /\ next.default = doc.default
    BY <1>0, <2>1, <2>2 DEF Asking
  <2>4. Save(x, next, "none")
    BY <1>8
  <2> HIDE DEF next
  <2> QED
    BY <1>8, <2>1, <2>2, <2>3, <2>4, SaveKeeps
<1>9. CASE WizardSaved(x)
  BY <1>3, <1>8, <1>9 DEF WizardSaved
<1>4. CASE ChannelAdded(x)
  <2>1. PICK c \in Channels \ was.channels :
          LET first == was.channels = {}
              next == [was EXCEPT !.channels = @ \cup {c}, !.default = IF first THEN c ELSE @]
          IN Save(x, next, IF first THEN "restart" ELSE "none")
    BY ONLY <1>4 DEF ChannelAdded
  <2> DEFINE first == was.channels = {}
             next == [was EXCEPT !.channels = @ \cup {c}, !.default = IF first THEN c ELSE @]
             pc == IF first THEN "restart" ELSE "none"
  <2>2. /\ DOMAIN next = SettingsFields /\ next.mode = was.mode
        /\ ~first => next.default = was.default
    BY ONLY <1>2 DEF SettingsFields
  <2>3. /\ flow[x].kind = "channel" /\ flow[x].pc = "adding" /\ Modal(x)
        /\ UNCHANGED <<image, server, launch, past>>
    BY <1>1, <1>4 DEF ChannelAdded, At, Asking
  <2>4. Save(x, next, pc)
    BY <2>1
  <2>5. /\ pc \in {"none", "restart"}
        /\ pc = "none" /\ ~past.crossed => next.mode = doc.mode /\ next.default = doc.default
    BY <1>0, <2>2, <2>3 DEF Asking
  <2> HIDE DEF next, pc
  <2> QED
    BY <2>2, <2>3, <2>4, <2>5, SaveKeeps
<1>5. CASE ChannelRemoved(x)
  <2>1. PICK c \in store.settings.channels :
          LET default == store.settings.default
              next == [store.settings EXCEPT !.channels = @ \ {c}, !.default = IF @ = c THEN "none" ELSE @]
          IN Save(x, next, IF default = c THEN "restart" ELSE "none")
    BY ONLY <1>5 DEF ChannelRemoved
  <2> DEFINE next == [store.settings EXCEPT !.channels = @ \ {c}, !.default = IF @ = c THEN "none" ELSE @]
             pc == IF doc.default = c THEN "restart" ELSE "none"
  <2>2. /\ DOMAIN next = SettingsFields /\ next.mode = doc.mode
        /\ doc.default # c => next.default = doc.default
    BY ONLY <1>0 DEF SettingsFields, DashShape
  <2>3. /\ flow[x].kind = "channel" /\ flow[x].pc = "removing" /\ Modal(x)
        /\ UNCHANGED <<image, server, launch, past>>
    BY <1>1, <1>5 DEF ChannelRemoved, At, Asking
  <2>4. Save(x, next, pc)
    BY <1>0, <2>1
  <2>5. /\ pc \in {"none", "restart"}
        /\ pc = "none" => next.mode = doc.mode /\ next.default = doc.default
    BY <2>2
  <2> HIDE DEF next, pc
  <2> QED
    BY <2>2, <2>3, <2>4, <2>5, SaveKeeps
<1>6. CASE TurnedOff(x)
  <2> DEFINE next == [was EXCEPT !.mode = "off"]
  <2>1. DOMAIN next = SettingsFields
    BY <1>2
  <2>2. /\ flow[x].kind = "turnOff" /\ flow[x].pc \in {"exposure", "saving"} /\ Modal(x)
        /\ UNCHANGED <<image, server, launch, past>> /\ Save(x, next, "restart")
    BY <1>1, <1>6 DEF TurnedOff, At, Asking
  <2> HIDE DEF next
  <2> QED
    BY <2>1, <2>2, SaveKeeps
<1>7. CASE ExposureAccepted(x)
  <2>1. DOMAIN flow[x].next = SettingsFields
    BY <1>0 DEF Sound
  <2>2. /\ flow[x].kind = "configure" /\ flow[x].pc = "exposure" /\ Modal(x)
        /\ UNCHANGED <<image, server, launch, past>> /\ Save(x, flow[x].next, "restart")
    BY <1>1, <1>7 DEF ExposureAccepted, At, Asking
  <2> QED
    BY <2>1, <2>2, SaveKeeps
<1> QED
  BY <1>4, <1>5, <1>6, <1>7, <1>9


\* The answers that do not save, and the end of a build.
LEMMA OtherAnswersKeep ==
  ASSUME ActionsTakeTurns, ServerIsAccounted, NEW x \in Threads,
         \/ FlavorAccepted(x) \/ FlavorDeclined(x) \/ Cancelled(x) \/ StopConfirmed(x)
         \/ BuildEnds(x) \/ OfferAccepted(x)
  PROVE  ActionsTakeTurns' /\ ServerIsAccounted'
<1>0. DashShape /\ DOMAIN flow = Threads /\ store.settings = doc /\ Sound(flow[x])
  BY DEF ActionsTakeTurns
<1>1. CASE FlavorAccepted(x)
  <2> DEFINE pc == IF flow[x].was.mode = "off" THEN "restart" ELSE "sending"
  <2>1. /\ flow[x].kind = "start" /\ flow[x].pc = "flavor" /\ Moved(x, pc)
        /\ UNCHANGED <<doc, store, image, server, launch, past>>
    BY <1>1 DEF FlavorAccepted, At
  <2>2. pc \in {"restart", "sending"} /\ (Picking(flow[x]) => pc = "restart") /\ Modal(x)
    BY <2>1 DEF Picking, Modal, InFlight
  <2> HIDE DEF pc
  <2>3. /\ Others(x) /\ Sound(flow'[x]) /\ flow'[x].pc = pc
        /\ flow'[x].kind = flow[x].kind /\ flow'[x].was = flow[x].was
    BY <1>0, <2>1, <2>2, MovedThread
  <2>4. DashShape'
    BY <1>0, <2>1 DEF DashShape
  <2> QED
    BY <1>0, <2>1, <2>2, <2>3, <2>4, MovingKeeps DEF Asking
<1>2. CASE FlavorDeclined(x)
  <2>1. /\ flow[x].kind = "start" /\ flow[x].pc = "flavor" /\ Ended(x)
        /\ store' = [store EXCEPT !.pending = @ \/ flow[x].was.mode = "off"]
        /\ UNCHANGED <<doc, image, server, launch, past>>
    BY <1>2 DEF FlavorDeclined, At
  <2>2. /\ DOMAIN store' = DOMAIN store /\ store'.settings = store.settings
        /\ store'.pending = (store.pending \/ flow[x].was.mode = "off")
    BY <1>0, <2>1 DEF DashShape
  <2>3. /\ store'.pending \in BOOLEAN /\ (store.pending => store'.pending)
        /\ (Picking(flow[x]) => store'.pending)
    BY <2>2 DEF Picking
  <2> QED
    BY <2>1, <2>2, <2>3, EndingKeeps
<1>3. CASE Cancelled(x)
  <2>1. /\ flow[x].pc \notin {"restart", "flavor"} /\ Ended(x)
        /\ UNCHANGED <<doc, store, image, server, launch, past>>
    BY <1>3 DEF Cancelled
  <2> QED
    BY <1>0, <2>1, EndingKeeps DEF Picking, DashShape
<1>4. CASE StopConfirmed(x)
  <2>1. /\ flow[x].kind = "stopSandbox" /\ flow[x].pc = "asking"
        /\ UNCHANGED <<doc, store, image, server, launch, past>>
    BY <1>4 DEF StopConfirmed, At
  <2>2. ~Picking(flow[x]) /\ Modal(x)
    BY <2>1 DEF Picking, Modal, InFlight
  <2>3. CASE Ended(x)
    BY <1>0, <2>1, <2>2, <2>3, EndingKeeps DEF DashShape
  <2>4. CASE Moved(x, "sending")
    <3>1. /\ Others(x) /\ Sound(flow'[x]) /\ flow'[x].pc = "sending"
          /\ flow'[x].kind = flow[x].kind /\ flow'[x].was = flow[x].was
      BY <1>0, <2>1, <2>4, MovedThread
    <3>2. DashShape'
      BY <1>0, <2>1 DEF DashShape
    <3> QED
      BY <1>0, <2>1, <2>2, <3>1, <3>2, MovingKeeps DEF Asking
  <2> QED
    BY <1>4, <2>3, <2>4 DEF StopConfirmed
<1>5. CASE BuildEnds(x)
  <2>1. flow[x].kind = "install" /\ flow[x].pc = "building" /\ UNCHANGED <<doc, server, launch>>
    BY <1>5 DEF BuildEnds, At
  <2>2. ~Picking(flow[x])
    BY <2>1 DEF Picking
  <2>3. CASE UNCHANGED <<store, image, past>> /\ Ended(x)
    BY <1>0, <2>1, <2>2, <2>3, EndingKeeps DEF DashShape
  <2>4. CASE /\ store' = [store EXCEPT !.golden = "unknown"] /\ Moved(x, "offer")
             /\ past' = [past EXCEPT !.crossed = @ \/ \E y \in Threads : Modal(y)]
    <3>1. /\ Others(x) /\ Sound(flow'[x]) /\ flow'[x].pc = "offer"
          /\ flow'[x].kind = flow[x].kind /\ flow'[x].was = flow[x].was
      BY <1>0, <2>1, <2>4, MovedThread
    <3>2. /\ DOMAIN store' = DOMAIN store /\ store'.settings = store.settings
          /\ store'.pending = store.pending
      BY <1>0, <2>4 DEF DashShape
    <3>3. /\ DOMAIN past' = DOMAIN past
          /\ past'.crossed = (past.crossed \/ \E y \in Threads : Modal(y))
      BY <1>0, <2>4 DEF DashShape
    <3>4. past'.crossed \in BOOLEAN /\ (past.crossed => past'.crossed)
      BY <1>0, <3>3 DEF DashShape
    <3>5. ~past'.crossed => \A y \in Threads : ~Modal(y)
      BY <3>3
    <3>6. DashShape'
      BY <1>0, <2>1, <3>2, <3>3, <3>4 DEF DashShape
    <3> QED
      BY <1>0, <2>1, <2>2, <3>1, <3>2, <3>4, <3>5, <3>6, MovingKeeps DEF Asking
  <2> QED
    BY <1>5, <2>3, <2>4 DEF BuildEnds
<1>6. CASE OfferAccepted(x)
  <2>1. /\ flow[x].kind = "install" /\ flow[x].pc = "offer" /\ store' = Looked
        /\ UNCHANGED <<doc, image, server, launch, past>>
    BY <1>6 DEF OfferAccepted, At
  <2>2. ~Picking(flow[x]) /\ Modal(x)
    BY <2>1 DEF Picking, Modal, InFlight
  <2>3. /\ DOMAIN store' = DOMAIN store /\ store'.settings = store.settings
        /\ store'.pending = store.pending
    BY <1>0, <2>1 DEF Looked, DashShape
  <2>4. CASE Ended(x)
    BY <1>0, <2>1, <2>2, <2>3, <2>4, EndingKeeps DEF DashShape
  <2>5. CASE flow' = [flow EXCEPT ![x] = [NoFlow EXCEPT !.kind = "start", !.was = store.settings,
                        !.pc = IF store.settings.mode = "off" THEN "pick" ELSE "flavor"]]
    <3> DEFINE pc == IF store.settings.mode = "off" THEN "pick" ELSE "flavor"
    <3>1. pc \in {"pick", "flavor"} /\ (pc = "pick" => doc.mode = "off")
      BY <1>0
    <3>2. /\ Others(x)
          /\ flow'[x] = [[[NoFlow EXCEPT !.kind = "start"] EXCEPT !.was = store.settings] EXCEPT !.pc = pc]
      BY <1>0, <2>5 DEF Others
    <3> HIDE DEF pc
    <3>3. /\ DOMAIN flow'[x] = {"kind", "pc", "was", "next"} /\ flow'[x].kind = "start"
          /\ flow'[x].pc = pc /\ flow'[x].was = doc /\ flow'[x].next = NoFlow.next
      BY <1>0, <3>2, NoFlowIsSound
    <3>4. Sound(flow'[x])
      BY <1>0, <3>1, <3>3, NoFlowIsSound DEF Sound, DashShape
    <3>5. DashShape'
      BY <1>0, <2>1, <2>3 DEF DashShape
    <3> QED
      BY <1>0, <2>1, <2>2, <2>3, <3>1, <3>2, <3>3, <3>4, <3>5, MovingKeeps
  <2> QED
    BY <1>6, <2>4, <2>5 DEF OfferAccepted
<1> QED
  BY <1>1, <1>2, <1>3, <1>4, <1>5, <1>6

\* What happens beside the actions.
LEMMA BesideKeeps ==
  ASSUME ActionsTakeTurns, ServerIsAccounted,
         \/ Rendered \/ SessionEnds \/ LineArrives \/ ImageBuilt \/ UNCHANGED dashVars
  PROVE  ActionsTakeTurns' /\ ServerIsAccounted'
<1>0. DashShape /\ DOMAIN flow = Threads /\ store.settings = doc
  BY DEF ActionsTakeTurns
<1>1. UNCHANGED <<doc, launch, flow>>
  BY DEF Rendered, SessionEnds, LineArrives, ImageBuilt, dashVars
<1>2. /\ DOMAIN store' = DOMAIN store /\ store'.settings = store.settings
      /\ store'.pending = store.pending
  BY <1>0 DEF Rendered, SessionEnds, LineArrives, ImageBuilt, dashVars, Looked, DashShape
<1>3. /\ DOMAIN server' = DOMAIN server /\ server'.up = server.up
      /\ server'.mode = server.mode /\ server'.default = server.default
  BY <1>0 DEF Rendered, SessionEnds, LineArrives, ImageBuilt, dashVars, DashShape
<1>4. DOMAIN past' = DOMAIN past /\ past'.crossed = past.crossed
  BY <1>0 DEF Rendered, SessionEnds, LineArrives, ImageBuilt, dashVars, DashShape
<1>5. DashShape'
  BY <1>0, <1>1, <1>2, <1>3, <1>4 DEF DashShape
<1>6. \A y \in Threads : Modal(y)' <=> Modal(y)
  BY <1>1 DEF Modal, InFlight
<1>7. ActionsTakeTurns'
  BY <1>0, <1>1, <1>2, <1>4, <1>5, <1>6 DEF ActionsTakeTurns
<1>8. Effective(doc)' = Effective(doc) /\ (Restarts' <=> Restarts) /\ (ModeJustPicked' <=> ModeJustPicked)
  BY <1>1 DEF Effective, Restarts, ModeJustPicked
<1>9. ServerIsAccounted'
  BY <1>1, <1>2, <1>3, <1>4, <1>8 DEF ServerIsAccounted
<1> QED
  BY <1>7, <1>9

\* The actions the operator starts.
LEMMA StartingKeeps ==
  ASSUME ActionsTakeTurns, ServerIsAccounted,
         \/ EditSettings \/ AddChannel \/ RemoveChannel \/ TurnOff \/ StartSandbox
         \/ StopSandbox \/ RestartSandbox \/ InstallSandbox
  PROVE  ActionsTakeTurns' /\ ServerIsAccounted'
<1>1. CASE EditSettings
  BY <1>1, EnterKeeps DEF EditSettings
<1>2. CASE AddChannel
  BY <1>2, EnterKeeps DEF AddChannel
<1>3. CASE RemoveChannel
  BY <1>3, EnterKeeps DEF RemoveChannel
<1>4. CASE TurnOff
  <2> DEFINE pc == IF HasPublicChannel(store.settings) THEN "exposure" ELSE "saving"
  <2>1. /\ Enter("turnOff", pc) /\ pc \in {"exposure", "saving"}
        /\ pc = "saving" => ~HasPublicChannel(store.settings)
        /\ UNCHANGED <<doc, store, image, server, launch>>
    BY <1>4 DEF TurnOff
  <2> HIDE DEF pc
  <2> QED
    BY <2>1, EnterKeeps
<1>5. CASE StartSandbox
  <2> DEFINE pc == IF store.settings.mode = "off" THEN "pick" ELSE "flavor"
  <2>1. /\ Enter("start", pc) /\ pc \in {"pick", "flavor"}
        /\ pc = "pick" => store.settings.mode = "off"
        /\ store' = Looked /\ UNCHANGED <<doc, image, server, launch>>
    BY <1>5 DEF StartSandbox
  <2> HIDE DEF pc
  <2> QED
    BY <2>1, EnterKeeps
<1>6. CASE StopSandbox
  BY <1>6, EnterKeeps DEF StopSandbox
<1>7. CASE RestartSandbox
  BY <1>7, EnterKeeps DEF RestartSandbox
<1>8. CASE InstallSandbox
  BY <1>8, EnterKeeps DEF InstallSandbox
<1> QED
  BY <1>1, <1>2, <1>3, <1>4, <1>5, <1>6, <1>7, <1>8

LEMMA DashKeeps ==
  ASSUME ActionsTakeTurns, ServerIsAccounted, [DashNext]_dashVars
  PROVE  ActionsTakeTurns' /\ ServerIsAccounted'
<1>1. ASSUME NEW x \in Threads,
             \/ RestartRefused(x) \/ RestartStops(x) \/ Respawn(x) \/ CommandSettles(x)
             \/ WizardSaved(x) \/ ChannelAdded(x) \/ ChannelRemoved(x) \/ TurnedOff(x)
             \/ ExposureAccepted(x) \/ ModePicked(x) \/ FlavorAccepted(x) \/ FlavorDeclined(x)
             \/ Cancelled(x) \/ StopConfirmed(x) \/ BuildEnds(x) \/ OfferAccepted(x)
      PROVE  ActionsTakeTurns' /\ ServerIsAccounted'
  BY <1>1, RestartRefusedKeeps, RestartStopsKeeps, RespawnKeeps, CommandSettlesKeeps, AnswersKeep,
     ModePickedKeeps, OtherAnswersKeep
<1> QED
  BY <1>1, StartingKeeps, UseChannelKeeps, BesideKeeps DEF DashNext

\* With nothing under way, no restart is due and no mode was just picked.
LEMMA AccountedWhenQuiet == ServerIsAccounted => ServerRunsSavedModeAndChannel
<1> SUFFICES ASSUME ServerIsAccounted, launch.owned, server.up, ~past.crossed,
                    \A x \in Threads : flow[x] = NoFlow
             PROVE  \/ store.pending
                    \/ server.mode = Effective(doc).mode /\ server.default = Effective(doc).default
  BY DEF ServerRunsSavedModeAndChannel
<1>1. ~Restarts /\ ~ModeJustPicked
  BY NoFlowIsSound DEF Restarts, ModeJustPicked, Picking
<1> QED
  BY <1>1 DEF ServerIsAccounted

\* Where a step saves mode off, its thread held the answer to the question, or the copy on
\* which it based what it saves had the mode off, and was no longer the document.
LEMMA ExposureIsAsked ==
  ASSUME ActionsTakeTurns, [DashNext]_dashVars, HostExposed
  PROVE  \E x \in Threads :
           /\ flow'[x] # flow[x]
           /\ flow[x].pc = "exposure" \/ (past.crossed /\ flow[x].was.mode = "off")
<1>0. /\ DOMAIN doc = SettingsFields /\ store.settings = doc /\ DashShape /\ DOMAIN flow = Threads
      /\ \A x \in Threads : /\ Sound(flow[x]) /\ DOMAIN flow[x].was = SettingsFields
                            /\ ~past.crossed /\ flow[x].pc \in Asking => flow[x].was = doc
  BY DEF ActionsTakeTurns, DashShape, Sound
<1>1. doc' # doc /\ doc.mode # "off" /\ doc'.mode = "off" /\ doc'.channels \cap PublicChannels # {}
  BY DEF HostExposed
<1>2. ASSUME NEW x \in Threads, NEW s, NEW pc \in {"none", "restart", "flavor"}, Save(x, s, pc),
             flow[x].kind # "none", flow[x].pc \notin {"none", "restart", "flavor"}
      PROVE  doc' = s /\ flow'[x] # flow[x]
  <2>1. doc' = s
    BY <1>1, <1>2 DEF Save
  <2>2. CASE Ended(x)
    BY <1>0, <1>2, <2>1, <2>2, EndedThread
  <2>3. CASE flow' = [flow EXCEPT ![x].pc = pc, ![x].next = s]
    <3>1. flow'[x] = [[flow[x] EXCEPT !.pc = pc] EXCEPT !.next = s]
      BY <1>0, <2>3
    <3>2. flow'[x].pc = pc
      BY <1>0, <3>1 DEF Sound
    <3> QED
      BY <1>2, <2>1, <3>2
  <2> QED
    BY <1>1, <1>2, <2>1, <2>2, <2>3 DEF Save
<1>3. ~UseChannel
  <2>1. ASSUME UseChannel PROVE FALSE
    <3>1. PICK c : doc' = [store.settings EXCEPT !.default = c]
      BY <2>1 DEF UseChannel
    <3>2. doc'.mode = doc.mode
      BY <1>0, <3>1 DEF SettingsFields
    <3> QED
      BY <1>1, <3>2
  <2> QED
    BY <2>1
<1>4. PICK x \in Threads : WizardSaved(x) \/ ChannelAdded(x) \/ ChannelRemoved(x) \/ TurnedOff(x)
                           \/ ExposureAccepted(x) \/ ModePicked(x)
  BY <1>1, <1>3
     DEF DashNext, dashVars, EditSettings, AddChannel, RemoveChannel, TurnOff, StartSandbox,
         StopSandbox, RestartSandbox, InstallSandbox, Rendered, SessionEnds, LineArrives, ImageBuilt,
         RestartRefused, RestartStops, Respawn, CommandSettles, FlavorAccepted, FlavorDeclined,
         Cancelled, StopConfirmed, BuildEnds, OfferAccepted
<1> DEFINE was == flow[x].was
<1>w. DOMAIN was = SettingsFields
  BY <1>0
<1>5. ASSUME flow'[x] # flow[x], flow[x].pc \in Asking, was.mode = "off" \/ flow[x].pc = "exposure"
      PROVE  /\ flow'[x] # flow[x]
             /\ flow[x].pc = "exposure" \/ (past.crossed /\ flow[x].was.mode = "off")
  BY <1>0, <1>1, <1>5
<1>6. CASE WizardSaved(x)
  <2>1. flow[x].kind = "configure" /\ flow[x].pc = "wizard"
    BY <1>6 DEF WizardSaved, At
  <2>2. CASE \E mode \in Modes :
               LET next == [was EXCEPT !.mode = mode]
               IN IF was.mode # "off" /\ mode = "off" /\ HasPublicChannel(next)
                  THEN UNCHANGED doc
                  ELSE Save(x, next, IF mode # was.mode THEN "restart" ELSE "none")
    <3>1. PICK mode \in Modes :
            LET next == [was EXCEPT !.mode = mode]
            IN /\ ~(was.mode # "off" /\ mode = "off" /\ HasPublicChannel(next))
               /\ Save(x, next, IF mode # was.mode THEN "restart" ELSE "none")
      BY <1>1, <2>2
    <3> DEFINE next == [was EXCEPT !.mode = mode]
               pc == IF mode # was.mode THEN "restart" ELSE "none"
    <3>2. next.mode = mode
      BY <1>w DEF SettingsFields
    <3>3. /\ ~(was.mode # "off" /\ mode = "off" /\ HasPublicChannel(next))
          /\ Save(x, next, pc) /\ pc \in {"none", "restart", "flavor"}
      BY <3>1
    <3> HIDE DEF next, pc
    <3>4. doc' = next /\ flow'[x] # flow[x]
      BY <1>2, <2>1, <3>3
    <3>5. was.mode = "off"
      BY <1>1, <3>2, <3>3, <3>4 DEF HasPublicChannel
    <3> QED
      BY <1>5, <2>1, <3>4, <3>5 DEF Asking
  <2>3. CASE \E clients \in ClientLists : Save(x, [was EXCEPT !.clients = clients], "none")
    <3>1. PICK clients : Save(x, [was EXCEPT !.clients = clients], "none")
      BY <2>3
    <3>2. doc' = [was EXCEPT !.clients = clients] /\ flow'[x] # flow[x]
      BY <1>2, <2>1, <3>1
    <3>3. was.mode = "off"
      BY <1>1, <1>w, <3>2 DEF SettingsFields
    <3> QED
      BY <1>5, <2>1, <3>2, <3>3 DEF Asking
  <2> QED
    BY <1>6, <2>2, <2>3 DEF WizardSaved
<1>7. CASE ChannelAdded(x)
  <2>1. flow[x].kind = "channel" /\ flow[x].pc = "adding"
    BY <1>7 DEF ChannelAdded, At
  <2>2. PICK c \in Channels \ was.channels :
          LET first == was.channels = {}
              next == [was EXCEPT !.channels = @ \cup {c}, !.default = IF first THEN c ELSE @]
          IN Save(x, next, IF first THEN "restart" ELSE "none")
    BY ONLY <1>7 DEF ChannelAdded
  <2> DEFINE next == [was EXCEPT !.channels = @ \cup {c}, !.default = IF was.channels = {} THEN c ELSE @]
             pc == IF was.channels = {} THEN "restart" ELSE "none"
  <2>5. Save(x, next, pc) /\ pc \in {"none", "restart", "flavor"}
    BY ONLY <2>2
  <2>6. next.mode = was.mode
    BY ONLY <1>w DEF SettingsFields
  <2> HIDE DEF next, pc
  <2>3. doc' = next /\ flow'[x] # flow[x]
    BY <1>2, <2>1, <2>5
  <2>4. was.mode = "off"
    BY <1>1, <2>3, <2>6
  <2> QED
    BY <1>5, <2>1, <2>3, <2>4 DEF Asking
<1>8. CASE ChannelRemoved(x)
  <2>1. flow[x].kind = "channel" /\ flow[x].pc = "removing"
    BY <1>8 DEF ChannelRemoved, At
  <2>2. PICK c \in store.settings.channels :
          LET default == store.settings.default
              next == [store.settings EXCEPT !.channels = @ \ {c}, !.default = IF @ = c THEN "none" ELSE @]
          IN Save(x, next, IF default = c THEN "restart" ELSE "none")
    BY ONLY <1>8 DEF ChannelRemoved
  <2> DEFINE next == [store.settings EXCEPT !.channels = @ \ {c}, !.default = IF @ = c THEN "none" ELSE @]
             pc == IF store.settings.default = c THEN "restart" ELSE "none"
  <2>3. Save(x, next, pc) /\ pc \in {"none", "restart", "flavor"}
    BY ONLY <2>2
  <2>5. next.mode = doc.mode
    BY ONLY <1>0 DEF SettingsFields
  <2> HIDE DEF next, pc
  <2>4. doc'.mode = doc.mode
    BY <1>2, <2>1, <2>3, <2>5
  <2> QED
    BY <1>1, <2>4
<1>9. CASE TurnedOff(x)
  <2>1. flow[x].kind = "turnOff" /\ flow[x].pc \in {"exposure", "saving"}
        /\ Save(x, [was EXCEPT !.mode = "off"], "restart")
    BY <1>9 DEF TurnedOff, At
  <2>2. doc' = [was EXCEPT !.mode = "off"] /\ flow'[x] # flow[x]
    BY <1>2, <2>1
  <2>3. doc'.channels = was.channels
    BY <1>w, <2>2 DEF SettingsFields
  <2>4. flow[x].pc # "saving"
    BY <1>0, <1>1, <2>1, <2>3 DEF Sound, HasPublicChannel
  <2> QED
    BY <2>1, <2>2, <2>4
<1>10. CASE ExposureAccepted(x)
  <2>1. flow[x].kind = "configure" /\ flow[x].pc = "exposure" /\ Save(x, flow[x].next, "restart")
    BY <1>10 DEF ExposureAccepted, At
  <2>2. flow'[x] # flow[x]
    BY <1>2, <2>1
  <2> QED
    BY <2>1, <2>2
<1>11. CASE ModePicked(x)
  <2>1. /\ flow[x].kind = "start" /\ flow[x].pc = "pick"
        /\ \E mode \in {"vm", "agent"} : Save(x, [doc EXCEPT !.mode = mode], "flavor")
    BY <1>0, <1>11 DEF ModePicked, At
  <2>2. PICK mode \in {"vm", "agent"} : doc' = [doc EXCEPT !.mode = mode]
    BY <1>2, <2>1
  <2>3. doc'.mode = mode
    BY <1>0, <2>2 DEF SettingsFields
  <2> QED
    BY <1>1, <2>2, <2>3
<1> QED
  BY <1>4, <1>6, <1>7, <1>8, <1>9, <1>10, <1>11


-----------------------------------------------------------------------------
(* StatusFeed: the ring and the wires.                                     *)

WireLines == {"channel", "event", "vm", "result"} \X Nat

Connection == [open : BOOLEAN, sub : BOOLEAN, data : BOOLEAN, heard : BOOLEAN,
               wire : Seq(WireLines), first : Nat]
FeedReader == [at : {"idle", "reading", "done"}, got : Seq(Nat), vm : Nat, sent : BOOLEAN,
               result : {"none", "refused", "accepted", "shown", "closed", "left"}]

\* The cells of the ring, oldest first, are the latest events.
RingInOrder ==
  /\ DOMAIN ring = {"buf", "head", "len", "total"} /\ DOMAIN ring.buf = 0 .. RingCap - 1
  /\ ring.head \in 0 .. RingCap - 1 /\ ring.len \in 0 .. RingCap /\ ring.total \in Nat
  /\ ring.len <= ring.total
  /\ ring.len < RingCap => ring.head = ring.len /\ ring.total = ring.len
  /\ \A k \in 0 .. RingCap - 1 :
       /\ k < ring.head => ring.buf[k] = ring.total - ring.head + k + 1
       /\ k >= ring.head /\ ring.len = RingCap => ring.buf[k] = ring.total - ring.head - RingCap + k + 1

EventNumbers(w) == {w[i][2] : i \in Due(w, "event")}
Rising(w) == \A i, j \in Due(w, "event") : i < j => w[i][2] < w[j][2]

\* What a connection and its reader hold: the events since it was made, up to the last one
\* while it is subscribed.
Complete(k, r, total) ==
  /\ \A i \in 1 .. Len(r.got) : r.got[i] = k.first + i - 1
  /\ Rising(k.wire)
  /\ \E last \in (k.first + Len(r.got)) - 1 .. total :
       /\ EventNumbers(k.wire) = k.first + Len(r.got) .. last
       /\ k.sub = TRUE => last = total

Latest(k, r, vm) ==
  LET due == Due(k.wire, "vm")
  IN IF due = {} THEN r.vm = vm
     ELSE \E i \in due : k.wire[i][2] = vm /\ \A j \in due : j <= i

Owed(kind, k, r, total, vm) ==
  k.open = TRUE => /\ kind \in {"dashboard", "monitor"} => Complete(k, r, total)
                   /\ kind = "dashboard" => Latest(k, r, vm)

FeedInOrder ==
  /\ RingInOrder /\ vmLine \in Nat
  /\ conn \in [Clients -> Connection] /\ reader \in [Clients -> FeedReader]
  /\ \A c \in Clients : Owed(kinds[c], conn[c], reader[c], ring.total, vmLine)

LEMMA FreshRingInOrder ==
  ring = FreshRing => RingInOrder
<1>1. /\ DOMAIN FreshRing = {"buf", "head", "len", "total"} /\ DOMAIN FreshRing.buf = 0 .. RingCap - 1
      /\ FreshRing.head = 0 /\ FreshRing.len = 0 /\ FreshRing.total = 0
  BY DEF FreshRing
<1> QED
  BY <1>1, FeedAssumption DEF RingInOrder

LEMMA NoReaderIs == NoReader \in FeedReader /\ NoReader.got = <<>> /\ NoReader.vm = 0
BY DEF NoReader, FeedReader

LEMMA FeedStarts == FeedInit => FeedInOrder
<1> SUFFICES ASSUME FeedInit PROVE FeedInOrder
  OBVIOUS
<1>1. RingInOrder
  BY FreshRingInOrder DEF FeedInit
<1>2. NoConn \in Connection /\ NoReader \in FeedReader /\ NoConn.open = FALSE
  BY DEF NoConn, NoReader, Connection, FeedReader
<1> QED
  BY <1>1, <1>2 DEF FeedInit, FeedInOrder, Owed

LEMMA WithinTheRing ==
  ASSUME NEW n \in Nat \ {0}, NEW x \in Nat, x < n + n
  PROVE  x % n = IF x < n THEN x ELSE x - n
<1>1. CASE x < n
  BY <1>1
<1>2. CASE x >= n
  BY <1>2
<1> QED
  BY <1>1, <1>2

\* recent() is oldest to newest.
LEMMA RingReads ==
  ASSUME RingInOrder
  PROVE  /\ DOMAIN Recent = 1 .. ring.len
         /\ \A i \in 1 .. ring.len : Recent[i] = ring.total - ring.len + i
<1>0. RingCap \in Nat \ {0}
  BY FeedAssumption
<1>1. CASE ring.len < RingCap
  BY <1>0, <1>1 DEF Recent, RingInOrder
<1>2. CASE ring.len = RingCap
  <2>1. ASSUME NEW i \in 1 .. RingCap
        PROVE  ring.buf[(ring.head + i - 1) % RingCap] = ring.total - RingCap + i
    <3> DEFINE x == ring.head + i - 1
               k == IF x < RingCap THEN x ELSE x - RingCap
    <3>1. x \in Nat /\ x < RingCap + RingCap
      BY <1>0 DEF RingInOrder
    <3>2. k \in 0 .. RingCap - 1 /\ ring.buf[k] = ring.total - RingCap + i
      <4>1. k \in 0 .. RingCap - 1
        BY <1>0 DEF RingInOrder
      <4>2. CASE x < RingCap
        <5>1. k = x /\ k >= ring.head
          BY <4>2 DEF RingInOrder
        <5>2. ring.buf[k] = ring.total - ring.head - RingCap + k + 1
          BY <1>2, <4>1, <5>1 DEF RingInOrder
        <5> QED
          BY <1>0, <4>1, <5>1, <5>2 DEF RingInOrder
      <4>3. CASE x >= RingCap
        <5>1. k = x - RingCap /\ k < ring.head
          BY <1>0, <3>1, <4>3 DEF RingInOrder
        <5>2. ring.buf[k] = ring.total - ring.head + k + 1
          BY <4>1, <5>1 DEF RingInOrder
        <5> QED
          BY <1>0, <4>1, <5>1, <5>2 DEF RingInOrder
      <4> QED
        BY <1>0, <3>1, <4>2, <4>3
    <3>3. ring.buf[x % RingCap] = ring.buf[k]
      <4> HIDE DEF x
      <4> QED
        BY <1>0, <3>1, WithinTheRing
    <3> QED
      BY <3>2, <3>3
  <2>2. Recent = [i \in 1 .. RingCap |-> ring.buf[(ring.head + i - 1) % RingCap]]
    BY <1>0, <1>2 DEF Recent
  <2> QED
    BY <1>0, <1>2, <2>1, <2>2
<1> QED
  BY <1>0, <1>1, <1>2 DEF RingInOrder

LEMMA RingKeeps ==
  ASSUME RingInOrder, ring' = Recorded(ring.total + 1)
  PROVE  RingInOrder' /\ ring'.total = ring.total + 1
<1>0. RingCap \in Nat \ {0}
  BY FeedAssumption
<1>1. /\ DOMAIN ring' = {"buf", "head", "len", "total"}
      /\ ring'.buf = [ring.buf EXCEPT ![ring.head] = ring.total + 1]
      /\ ring'.head = (ring.head + 1) % RingCap
      /\ ring'.len = (IF ring.len < RingCap THEN ring.len + 1 ELSE RingCap)
      /\ ring'.total = ring.total + 1
  BY DEF Recorded
<1>2. ring'.head = IF ring.head + 1 < RingCap THEN ring.head + 1 ELSE 0
  <2> DEFINE x == ring.head + 1
  <2>1. x \in Nat /\ x <= RingCap /\ x < RingCap + RingCap /\ ring'.head = x % RingCap
    BY <1>0, <1>1 DEF RingInOrder
  <2> HIDE DEF x
  <2>2. x % RingCap = IF x < RingCap THEN x ELSE x - RingCap
    BY <1>0, <2>1, WithinTheRing
  <2>3. ring'.head = IF x < RingCap THEN x ELSE 0
    BY <1>0, <2>1, <2>2
  <2> QED
    BY <2>3 DEF x
<1>3. \A k \in 0 .. RingCap - 1 : ring'.buf[k] = IF k = ring.head THEN ring.total + 1 ELSE ring.buf[k]
  BY <1>0, <1>1 DEF RingInOrder
<1>4. /\ DOMAIN ring'.buf = 0 .. RingCap - 1
      /\ ring'.head \in 0 .. RingCap - 1 /\ ring'.len \in 0 .. RingCap /\ ring'.total \in Nat
      /\ ring'.len <= ring'.total
      /\ ring'.len < RingCap => ring'.head = ring'.len /\ ring'.total = ring'.len
  <2>1. DOMAIN ring'.buf = 0 .. RingCap - 1
    BY <1>1 DEF RingInOrder
  <2>2. ring'.head \in 0 .. RingCap - 1
    BY <1>0, <1>2 DEF RingInOrder
  <2> DEFINE t == ring.total  h == ring.head  l == ring.len
  <2>3. /\ l \in 0 .. RingCap /\ t \in Nat /\ l <= t /\ h \in 0 .. RingCap - 1
        /\ l < RingCap => h = l /\ t = l
    BY DEF RingInOrder
  <2>4. /\ ring'.total = t + 1 /\ ring'.len = (IF l < RingCap THEN l + 1 ELSE RingCap)
        /\ ring'.head = IF h + 1 < RingCap THEN h + 1 ELSE 0
    BY <1>1, <1>2
  <2> HIDE DEF t, h, l
  <2> QED
    BY <1>0, <2>1, <2>2, <2>3, <2>4
<1>5. ASSUME NEW k \in 0 .. RingCap - 1
      PROVE  /\ k < ring'.head => ring'.buf[k] = ring'.total - ring'.head + k + 1
             /\ k >= ring'.head /\ ring'.len = RingCap
                  => ring'.buf[k] = ring'.total - ring'.head - RingCap + k + 1
  <2> DEFINE b == ring.buf[k]  t == ring.total  h == ring.head
  <2>1. /\ k < h => b = t - h + k + 1
        /\ k >= h /\ ring.len = RingCap => b = t - h - RingCap + k + 1
        /\ ring.len < RingCap => h = ring.len /\ t = ring.len
        /\ h \in 0 .. RingCap - 1 /\ t \in Nat /\ ring.len \in 0 .. RingCap
    BY DEF RingInOrder
  <2>2. ring'.buf[k] = IF k = h THEN t + 1 ELSE b
    BY <1>3
  <2> HIDE DEF b, t, h
  <2>3. ring'.total = t + 1 /\ ring'.head = (IF h + 1 < RingCap THEN h + 1 ELSE 0)
    BY <1>1, <1>2 DEF t, h
  <2> QED
    BY <1>0, <1>1, <2>1, <2>2, <2>3
<1> QED
  BY <1>1, <1>4, <1>5 DEF RingInOrder
-----------------------------------------------------------------------------
(* What a line does to a wire.                                             *)

LEMMA LinesAre ==
  /\ \A l \in WireLines : l[1] \in {"channel", "event", "vm", "result"} /\ l[2] \in Nat
  /\ \A n \in Nat : /\ <<"event", n>> \in WireLines /\ <<"vm", n>> \in WireLines
                    /\ <<"channel", n>> \in WireLines /\ <<"result", n>> \in WireLines
BY DEF WireLines

LEMMA DueAreThere ==
  ASSUME NEW w \in Seq(WireLines), NEW kind
  PROVE  \A i \in Due(w, kind) : i \in 1 .. Len(w) /\ w[i] \in WireLines /\ w[i][2] \in Nat
<1>1. \A i \in 1 .. Len(w) : w[i] \in WireLines
  OBVIOUS
<1> QED
  BY <1>1, LinesAre DEF Due

\* l goes behind the lines of w.
LineIsAdded(w, l, kind) ==
  LET v == Append(w, l)
  IN /\ v \in Seq(WireLines)
     /\ \A i \in 1 .. Len(w) : v[i] = w[i]
     /\ v[Len(w) + 1] = l
     /\ l[1] = kind => Due(v, kind) = Due(w, kind) \cup {Len(w) + 1}
     /\ l[1] # kind => Due(v, kind) = Due(w, kind)

LEMMA AppendedLine ==
  ASSUME NEW w \in Seq(WireLines), NEW l \in WireLines, NEW kind
  PROVE  LineIsAdded(w, l, kind)
<1> DEFINE v == Append(w, l)
<1>1. /\ v \in Seq(WireLines) /\ Len(v) = Len(w) + 1 /\ v[Len(w) + 1] = l
      /\ \A i \in 1 .. Len(w) : v[i] = w[i]
  BY AppendProperties
<1> HIDE DEF v
<1>2. Len(w) \in Nat
  OBVIOUS
<1>3. l[1] = kind => Due(v, kind) = Due(w, kind) \cup {Len(w) + 1}
  BY <1>1, <1>2 DEF Due
<1>4. l[1] # kind => Due(v, kind) = Due(w, kind)
  BY <1>1, <1>2 DEF Due
<1> QED
  BY <1>1, <1>3, <1>4 DEF v, LineIsAdded

\* The first line of w is taken, the others move up.
LineIsRead(w, kind) ==
  /\ Tail(w) \in Seq(WireLines) /\ Head(w) = w[1] /\ w[1] \in WireLines
  /\ \A i \in Due(Tail(w), kind) : i + 1 \in Due(w, kind) /\ Tail(w)[i] = w[i + 1]
  /\ \A i \in Due(w, kind) : i # 1 => i - 1 \in Due(Tail(w), kind) /\ Tail(w)[i - 1] = w[i]
  /\ 1 \in Due(w, kind) <=> w[1][1] = kind

LEMMA ReadLine ==
  ASSUME NEW w \in Seq(WireLines), w # <<>>, NEW kind
  PROVE  LineIsRead(w, kind)
<1> DEFINE v == Tail(w)
<1>1. /\ v \in Seq(WireLines) /\ Len(v) = Len(w) - 1
      /\ \A i \in 1 .. Len(v) : v[i] = w[i + 1]
  BY HeadTailProperties
<1>2. Len(w) \in Nat /\ Len(w) >= 1 /\ Head(w) = w[1] /\ w[1] \in WireLines
  OBVIOUS
<1> HIDE DEF v
<1>3. \A i \in Due(v, kind) : i + 1 \in Due(w, kind) /\ v[i] = w[i + 1]
  BY <1>1, <1>2 DEF Due
<1>4. \A i \in Due(w, kind) : i # 1 => i - 1 \in Due(v, kind) /\ v[i - 1] = w[i]
  <2> SUFFICES ASSUME NEW i \in Due(w, kind), i # 1
               PROVE  i - 1 \in Due(v, kind) /\ v[i - 1] = w[i]
    OBVIOUS
  <2>1. i \in 1 .. Len(w) /\ w[i][1] = kind
    BY DEF Due
  <2>2. i - 1 \in 1 .. Len(v) /\ (i - 1) + 1 = i
    BY <1>1, <1>2, <2>1
  <2>3. v[i - 1] = w[i]
    BY <1>1, <2>2
  <2> QED
    BY <2>1, <2>2, <2>3 DEF Due
<1>5. 1 \in Due(w, kind) <=> w[1][1] = kind
  BY <1>2 DEF Due
<1> QED
  BY <1>1, <1>2, <1>3, <1>4, <1>5 DEF v, LineIsRead

-----------------------------------------------------------------------------
(* What a line does to what a client is owed.                              *)

LEMMA AnEventFollows ==
  ASSUME NEW k \in Connection, NEW k2 \in Connection, NEW r \in FeedReader, NEW total \in Nat,
         Complete(k, r, total), k.sub = TRUE, k2.first = k.first,
         k2.wire = Append(k.wire, <<"event", total + 1>>)
  PROVE  Complete(k2, r, total + 1)
<1> DEFINE w == k.wire  v == k2.wire  l == <<"event", total + 1>>
           due == Due(w, "event")  next == k.first + Len(r.got)
<1>1. w \in Seq(WireLines) /\ r.got \in Seq(Nat) /\ k.first \in Nat
  BY DEF Connection, FeedReader
<1>2. l \in WireLines /\ l[1] = "event" /\ l[2] = total + 1 /\ v = Append(w, l)
  <2>1. total + 1 \in Nat
    OBVIOUS
  <2> QED
    BY <2>1, LinesAre
<1>3. next \in Nat /\ Len(w) \in Nat
  BY <1>1
<1>4. /\ \A i \in 1 .. Len(r.got) : r.got[i] = k2.first + i - 1
      /\ Rising(w) /\ EventNumbers(w) = next .. total /\ next - 1 <= total
  <2>1. /\ \A i \in 1 .. Len(r.got) : r.got[i] = k.first + i - 1
        /\ Rising(k.wire)
    BY DEF Complete
  <2>2. PICK last \in next - 1 .. total : EventNumbers(k.wire) = next .. last /\ (k.sub = TRUE => last = total)
    BY DEF Complete
  <2>3. last = total /\ next - 1 <= total
    BY <1>3, <2>2
  <2> QED
    BY <2>1, <2>2, <2>3
<1>5. k2.first + Len(r.got) = next
  OBVIOUS
<1> HIDE DEF w, v, l, due, next
<1>6. /\ \A i \in 1 .. Len(w) : v[i] = w[i]
      /\ v[Len(w) + 1] = l /\ Due(v, "event") = due \cup {Len(w) + 1}
  <2> DEFINE kind == l[1]
  <2>0. LineIsAdded(w, l, kind)
    <3> HIDE DEF kind
    <3> QED
      BY <1>1, <1>2, AppendedLine
  <2>1. /\ \A i \in 1 .. Len(w) : Append(w, l)[i] = w[i]
        /\ Append(w, l)[Len(w) + 1] = l
    BY ONLY <2>0 DEF LineIsAdded
  <2>2. Due(Append(w, l), l[1]) = Due(w, l[1]) \cup {Len(w) + 1}
    BY ONLY <2>0 DEF LineIsAdded, kind
  <2> QED
    BY <1>2, <2>1, <2>2 DEF due
<1>7. \A i \in due : i \in 1 .. Len(w) /\ w[i][2] \in Nat
  BY <1>1, DueAreThere DEF due
<1>8. v[Len(w) + 1][2] = total + 1 /\ \A i \in due : v[i][2] = w[i][2]
  BY <1>2, <1>6, <1>7
<1>9. \A i \in due : w[i][2] \in next .. total
  BY <1>4 DEF EventNumbers, due
<1>10. Rising(v)
  <2> SUFFICES ASSUME NEW i \in Due(v, "event"), NEW j \in Due(v, "event"), i < j
               PROVE  v[i][2] < v[j][2]
    BY DEF Rising
  <2>1. i \in due
    BY <1>3, <1>6, <1>7
  <2>2. CASE j = Len(w) + 1
    BY <1>3, <1>8, <1>9, <2>1, <2>2
  <2>3. CASE j \in due
    BY <1>4, <1>8, <2>1, <2>3 DEF Rising, due
  <2> QED
    BY <1>6, <2>2, <2>3
<1>11. EventNumbers(v) = next .. total + 1
  <2>1. EventNumbers(v) = {w[i][2] : i \in due} \cup {total + 1}
    BY <1>6, <1>8 DEF EventNumbers
  <2>2. next .. total + 1 = (next .. total) \cup {total + 1}
    BY <1>3, <1>4
  <2> QED
    BY <1>4, <2>1, <2>2 DEF EventNumbers, due
<1>12. total + 1 \in next - 1 .. total + 1
  BY <1>3, <1>4
<1>13. Rising(k2.wire) /\ EventNumbers(k2.wire) = next .. total + 1
  BY <1>10, <1>11 DEF v
<1>14. \E last \in (k2.first + Len(r.got)) - 1 .. total + 1 :
         EventNumbers(k2.wire) = k2.first + Len(r.got) .. last /\ (k2.sub = TRUE => last = total + 1)
  BY <1>5, <1>12, <1>13
<1> QED
  BY <1>4, <1>13, <1>14 DEF Complete

LEMMA AnotherLineFollows ==
  ASSUME NEW k \in Connection, NEW k2 \in Connection, NEW r \in FeedReader, NEW total \in Nat,
         Complete(k, r, total), k2.sub = TRUE => k.sub = TRUE, k2.first = k.first,
         NEW l \in WireLines, l[1] # "event", k2.wire = Append(k.wire, l)
  PROVE  Complete(k2, r, total)
<1>1. k.wire \in Seq(WireLines)
  BY DEF Connection
<1>2. Due(k2.wire, "event") = Due(k.wire, "event") /\ \A i \in 1 .. Len(k.wire) : k2.wire[i] = k.wire[i]
  <2> DEFINE w == k.wire
  <2>1. w \in Seq(WireLines) /\ l \in WireLines /\ l[1] # "event" /\ k2.wire = Append(w, l)
    BY <1>1
  <2> HIDE DEF w
  <2>2. LineIsAdded(w, l, "event")
    BY ONLY <2>1, AppendedLine
  <2>3. Due(k2.wire, "event") = Due(w, "event") /\ \A i \in 1 .. Len(w) : k2.wire[i] = w[i]
    BY ONLY <2>1, <2>2 DEF LineIsAdded
  <2> QED
    BY ONLY <2>3 DEF w
<1>3. \A i \in Due(k.wire, "event") : k2.wire[i] = k.wire[i]
  BY <1>1, <1>2, DueAreThere
<1>4. EventNumbers(k2.wire) = EventNumbers(k.wire) /\ (Rising(k.wire) => Rising(k2.wire))
  <2> DEFINE due == Due(k.wire, "event")
  <2>1. \A i \in due : k2.wire[i][2] = k.wire[i][2]
    BY <1>3
  <2>2. Due(k2.wire, "event") = due
    BY <1>2
  <2>3. /\ \A x \in EventNumbers(k2.wire) : x \in EventNumbers(k.wire)
        /\ \A x \in EventNumbers(k.wire) : x \in EventNumbers(k2.wire)
    BY <2>1, <2>2 DEF EventNumbers
  <2>4. EventNumbers(k2.wire) = EventNumbers(k.wire)
    BY <2>3
  <2>5. Rising(k.wire) => Rising(k2.wire)
    BY <1>2, <2>1 DEF Rising, due
  <2> QED
    BY <2>4, <2>5
<1> QED
  BY <1>4 DEF Complete

LEMMA NotOwedAnyMore ==
  ASSUME NEW k, NEW r, NEW total \in Nat, Complete(k, r, total), k.sub = FALSE, k.first + Len(r.got) \in Nat
  PROVE  Complete(k, r, total + 1)
<1>1. PICK last \in (k.first + Len(r.got)) - 1 .. total :
        EventNumbers(k.wire) = k.first + Len(r.got) .. last
  BY DEF Complete
<1>2. last \in (k.first + Len(r.got)) - 1 .. total + 1
  OBVIOUS
<1> QED
  BY <1>1, <1>2 DEF Complete

LEMMA AVmLineFollows ==
  ASSUME NEW k \in Connection, NEW k2, NEW r, NEW n \in Nat, k2.wire = Append(k.wire, <<"vm", n>>)
  PROVE  Latest(k2, r, n)
<1>1. k.wire \in Seq(WireLines)
  BY DEF Connection
<1>2. <<"vm", n>> \in WireLines
  BY LinesAre
<1>3. /\ Due(k2.wire, "vm") = Due(k.wire, "vm") \cup {Len(k.wire) + 1}
      /\ k2.wire[Len(k.wire) + 1] = <<"vm", n>>
  <2> DEFINE l == <<"vm", n>>
  <2>1. l \in WireLines /\ l[1] = "vm" /\ k2.wire = Append(k.wire, l)
    BY <1>2
  <2> DEFINE w == k.wire
  <2>a. w \in Seq(WireLines) /\ l \in WireLines /\ l[1] = "vm" /\ k2.wire = Append(w, l)
    BY <1>1, <2>1
  <2> HIDE DEF l, w
  <2>b. LineIsAdded(w, l, "vm")
    BY ONLY <2>a, AppendedLine
  <2>2. Due(k2.wire, "vm") = Due(k.wire, "vm") \cup {Len(k.wire) + 1}
    BY ONLY <2>a, <2>b DEF LineIsAdded, w
  <2>3. k2.wire[Len(k.wire) + 1] = l
    BY ONLY <2>a, <2>b DEF LineIsAdded, w
  <2> QED
    BY <2>2, <2>3 DEF l
<1>4. \A i \in Due(k.wire, "vm") : i \in 1 .. Len(k.wire)
  BY <1>1, DueAreThere
<1>5. Len(k.wire) \in Nat
  BY <1>1
<1>6. \A j \in Due(k2.wire, "vm") : j <= Len(k.wire) + 1
  BY <1>3, <1>4, <1>5
<1>7. k2.wire[Len(k.wire) + 1][2] = n
  BY <1>3
<1> QED
  BY <1>3, <1>6, <1>7 DEF Latest

LEMMA NoVmLineFollows ==
  ASSUME NEW k \in Connection, NEW k2, NEW r, NEW vm, Latest(k, r, vm),
         NEW l \in WireLines, l[1] # "vm", k2.wire = Append(k.wire, l)
  PROVE  Latest(k2, r, vm)
<1>1. k.wire \in Seq(WireLines)
  BY DEF Connection
<1>2. Due(k2.wire, "vm") = Due(k.wire, "vm") /\ \A i \in 1 .. Len(k.wire) : k2.wire[i] = k.wire[i]
  <2> DEFINE w == k.wire
  <2>1. w \in Seq(WireLines) /\ l \in WireLines /\ l[1] # "vm" /\ k2.wire = Append(w, l)
    BY <1>1
  <2> HIDE DEF w
  <2>2. LineIsAdded(w, l, "vm")
    BY ONLY <2>1, AppendedLine
  <2>3. Due(k2.wire, "vm") = Due(w, "vm") /\ \A i \in 1 .. Len(w) : k2.wire[i] = w[i]
    BY ONLY <2>1, <2>2 DEF LineIsAdded
  <2> QED
    BY ONLY <2>3 DEF w
<1>3. \A i \in Due(k.wire, "vm") : k2.wire[i] = k.wire[i]
  BY <1>1, <1>2, DueAreThere
<1> QED
  BY <1>2, <1>3 DEF Latest

-----------------------------------------------------------------------------
(* What reading a line does to it.                                         *)

LEMMA AnEventIsRead ==
  ASSUME NEW k \in Connection, NEW k2 \in Connection, NEW r \in FeedReader, NEW r2 \in FeedReader,
         NEW total \in Nat, Complete(k, r, total), k.wire # <<>>, Head(k.wire)[1] = "event",
         k2.wire = Tail(k.wire), k2.first = k.first, k2.sub = k.sub,
         r2.got = Append(r.got, Head(k.wire)[2])
  PROVE  Complete(k2, r2, total)
<1> DEFINE w == k.wire  v == k2.wire  next == k.first + Len(r.got)  e == Head(k.wire)[2]
<1>1. w \in Seq(WireLines) /\ r.got \in Seq(Nat) /\ k.first \in Nat
  BY DEF Connection, FeedReader
<1>2. next \in Nat
  BY <1>1
<1>3. /\ Head(w) = w[1] /\ 1 \in Due(w, "event")
      /\ \A i \in Due(v, "event") : i + 1 \in Due(w, "event") /\ v[i] = w[i + 1]
      /\ \A i \in Due(w, "event") : i # 1 => i - 1 \in Due(v, "event") /\ v[i - 1] = w[i]
  <2>1. w # <<>> /\ v = Tail(w) /\ Head(w)[1] = "event"
    OBVIOUS
  <2> HIDE DEF w, v
  <2>2. /\ Head(w) = w[1] /\ (1 \in Due(w, "event") <=> w[1][1] = "event")
        /\ \A i \in Due(Tail(w), "event") : i + 1 \in Due(w, "event") /\ Tail(w)[i] = w[i + 1]
        /\ \A i \in Due(w, "event") : i # 1 => i - 1 \in Due(Tail(w), "event") /\ Tail(w)[i - 1] = w[i]
    <3>1. LineIsRead(w, "event")
      BY ONLY <1>1, <2>1, ReadLine
    <3> QED
      BY ONLY <3>1 DEF LineIsRead
  <2> QED
    BY <2>1, <2>2
<1>4. /\ \A i \in Due(w, "event") : i \in Nat /\ i >= 1 /\ w[i][2] \in Nat
      /\ \A i \in Due(v, "event") : i \in Nat /\ i >= 1
  <2>1. v \in Seq(WireLines)
    BY DEF Connection
  <2> HIDE DEF w, v
  <2>2. \A i \in Due(w, "event") : i \in 1 .. Len(w) /\ w[i][2] \in Nat
    BY <1>1, DueAreThere
  <2>3. \A i \in Due(v, "event") : i \in 1 .. Len(v)
    BY <2>1, DueAreThere
  <2> QED
    BY <2>2, <2>3
<1>5. Rising(w) /\ \A i \in 1 .. Len(r.got) : r.got[i] = k.first + i - 1
  BY DEF Complete
<1>6. PICK last \in next - 1 .. total : EventNumbers(w) = next .. last /\ (k.sub = TRUE => last = total)
  BY DEF Complete
<1>7. e = w[1][2] /\ e \in Nat
  BY <1>3, <1>4
<1>8. r2.got = Append(r.got, e) /\ k2.first = k.first /\ k2.sub = k.sub
  OBVIOUS
<1> HIDE DEF w, v, next, e
<1>9. \A i \in Due(w, "event") : i # 1 => e < w[i][2]
  BY <1>3, <1>4, <1>5, <1>7 DEF Rising
<1>10. e = next /\ next <= last
  <2>1. e \in next .. last
    BY <1>3, <1>6, <1>7 DEF EventNumbers
  <2>2. next \in next .. last
    BY <1>2, <1>6, <2>1
  <2>3. PICK i \in Due(w, "event") : w[i][2] = next
    BY <1>6, <2>2 DEF EventNumbers
  <2> QED
    BY <1>2, <1>4, <1>6, <1>7, <1>9, <2>1, <2>3
<1>11. Rising(v)
  <2> SUFFICES ASSUME NEW i \in Due(v, "event"), NEW j \in Due(v, "event"), i < j
               PROVE  v[i][2] < v[j][2]
    BY DEF Rising
  <2>1. i + 1 \in Due(w, "event") /\ j + 1 \in Due(w, "event") /\ i + 1 < j + 1
    BY <1>3, <1>4
  <2> QED
    BY <1>3, <1>5, <2>1 DEF Rising
<1>12. EventNumbers(v) = next + 1 .. last
  <2>1. ASSUME NEW x \in EventNumbers(v) PROVE x \in next + 1 .. last
    <3>1. PICK i \in Due(v, "event") : x = v[i][2]
      BY <2>1 DEF EventNumbers
    <3>2. i + 1 \in Due(w, "event") /\ x = w[i + 1][2] /\ i + 1 # 1
      BY <1>3, <1>4, <3>1
    <3>3. x \in next .. last /\ next < x
      BY <1>6, <1>9, <1>10, <3>2 DEF EventNumbers
    <3> QED
      BY <1>2, <1>6, <3>3
  <2>2. ASSUME NEW x \in next + 1 .. last PROVE x \in EventNumbers(v)
    <3>1. x \in next .. last /\ x # next
      BY <1>2, <2>2
    <3>2. PICK i \in Due(w, "event") : x = w[i][2]
      BY <1>6, <3>1 DEF EventNumbers
    <3>3. i # 1
      BY <1>7, <1>10, <3>1, <3>2
    <3> QED
      BY <1>3, <3>2, <3>3 DEF EventNumbers
  <2> QED
    BY <2>1, <2>2
<1>13. /\ Len(r2.got) = Len(r.got) + 1
       /\ \A i \in 1 .. Len(r2.got) : r2.got[i] = k2.first + i - 1
  <2>1. /\ Len(r2.got) = Len(r.got) + 1 /\ r2.got[Len(r.got) + 1] = e
        /\ \A i \in 1 .. Len(r.got) : r2.got[i] = r.got[i]
    BY <1>1, <1>7, <1>8, AppendProperties
  <2>2. e = k.first + (Len(r.got) + 1) - 1
    BY <1>1, <1>10 DEF next
  <2> DEFINE n == Len(r.got)  f == k.first  new == r2.got  old == r.got
  <2>3. /\ n \in Nat /\ f \in Nat /\ Len(new) = n + 1 /\ new[n + 1] = e /\ e = f + (n + 1) - 1
        /\ \A i \in 1 .. n : new[i] = old[i] /\ old[i] = f + i - 1
    BY <1>1, <1>5, <2>1, <2>2
  <2> HIDE DEF n, f, new, old
  <2>4. ASSUME NEW i \in 1 .. n + 1 PROVE new[i] = f + i - 1
    <3>1. i \in 1 .. n \/ i = n + 1
      BY ONLY <2>3, i \in 1 .. n + 1
    <3> QED
      BY ONLY <2>3, <3>1
  <2>5. Len(new) = n + 1 /\ \A i \in 1 .. Len(new) : new[i] = f + i - 1
    BY ONLY <2>3, <2>4
  <2> QED
    BY ONLY <1>8, <2>5 DEF n, f, new, old
<1>14. k2.first + Len(r2.got) = next + 1
  BY <1>1, <1>8, <1>13 DEF next
<1>15. \E l \in (k2.first + Len(r2.got)) - 1 .. total :
         EventNumbers(k2.wire) = k2.first + Len(r2.got) .. l /\ (k2.sub = TRUE => l = total)
  <2>1. last \in (next + 1) - 1 .. total
    BY <1>2, <1>6, <1>10
  <2> QED
    BY <1>6, <1>8, <1>12, <1>14, <2>1 DEF v
<1> QED
  BY <1>11, <1>13, <1>15 DEF Complete, v

LEMMA AnotherLineIsRead ==
  ASSUME NEW k \in Connection, NEW k2 \in Connection, NEW r, NEW r2,
         NEW total \in Nat, Complete(k, r, total), k.wire # <<>>, Head(k.wire)[1] # "event",
         k2.wire = Tail(k.wire), k2.first = k.first, k2.sub = k.sub, r2.got = r.got
  PROVE  Complete(k2, r2, total)
<1> DEFINE w == k.wire  v == k2.wire
<1>1. w \in Seq(WireLines)
  BY DEF Connection
<1>2. /\ Head(w) = w[1] /\ 1 \notin Due(w, "event")
      /\ \A i \in Due(v, "event") : i + 1 \in Due(w, "event") /\ v[i] = w[i + 1]
      /\ \A i \in Due(w, "event") : i # 1 => i - 1 \in Due(v, "event") /\ v[i - 1] = w[i]
  <2>1. w # <<>> /\ v = Tail(w) /\ Head(w)[1] # "event"
    OBVIOUS
  <2> HIDE DEF w, v
  <2>2. /\ Head(w) = w[1] /\ (1 \in Due(w, "event") <=> w[1][1] = "event")
        /\ \A i \in Due(Tail(w), "event") : i + 1 \in Due(w, "event") /\ Tail(w)[i] = w[i + 1]
        /\ \A i \in Due(w, "event") : i # 1 => i - 1 \in Due(Tail(w), "event") /\ Tail(w)[i - 1] = w[i]
    <3>1. LineIsRead(w, "event")
      BY ONLY <1>1, <2>1, ReadLine
    <3> QED
      BY ONLY <3>1 DEF LineIsRead
  <2> QED
    BY <2>1, <2>2
<1>3. \A i \in Due(v, "event") : i \in Nat
  <2>1. v \in Seq(WireLines)
    BY DEF Connection
  <2> HIDE DEF v
  <2>2. \A i \in Due(v, "event") : i \in 1 .. Len(v)
    BY <2>1, DueAreThere
  <2> QED
    BY <2>2
<1>4. Rising(w) => Rising(v)
  <2> HIDE DEF w, v
  <2> SUFFICES ASSUME Rising(w), NEW i \in Due(v, "event"), NEW j \in Due(v, "event"), i < j
               PROVE  v[i][2] < v[j][2]
    BY DEF Rising
  <2>1. i + 1 \in Due(w, "event") /\ j + 1 \in Due(w, "event") /\ i + 1 < j + 1
    BY <1>2, <1>3
  <2> QED
    BY <1>2, <2>1 DEF Rising
<1>5. EventNumbers(v) = EventNumbers(w)
  <2> HIDE DEF w, v
  <2>1. ASSUME NEW x \in EventNumbers(v) PROVE x \in EventNumbers(w)
    <3>1. PICK i \in Due(v, "event") : x = v[i][2]
      BY <2>1 DEF EventNumbers
    <3> QED
      BY <1>2, <3>1 DEF EventNumbers
  <2>2. ASSUME NEW x \in EventNumbers(w) PROVE x \in EventNumbers(v)
    <3>1. PICK i \in Due(w, "event") : x = w[i][2]
      BY <2>2 DEF EventNumbers
    <3> QED
      BY <1>2, <3>1 DEF EventNumbers
  <2> QED
    BY <2>1, <2>2
<1> QED
  BY <1>4, <1>5 DEF Complete

LEMMA LatestIsRead ==
  ASSUME NEW k \in Connection, NEW k2 \in Connection, NEW r, NEW r2, NEW vm,
         Latest(k, r, vm), k.wire # <<>>, k2.wire = Tail(k.wire),
         Head(k.wire)[1] = "vm" => r2.vm = Head(k.wire)[2],
         Head(k.wire)[1] # "vm" => r2.vm = r.vm
  PROVE  Latest(k2, r2, vm)
<1> DEFINE w == k.wire  v == k2.wire
<1>1. w \in Seq(WireLines) /\ v \in Seq(WireLines)
  BY DEF Connection
<1>2. /\ Head(w) = w[1] /\ (1 \in Due(w, "vm") <=> w[1][1] = "vm")
      /\ \A i \in Due(v, "vm") : i + 1 \in Due(w, "vm") /\ v[i] = w[i + 1]
      /\ \A i \in Due(w, "vm") : i # 1 => i - 1 \in Due(v, "vm") /\ v[i - 1] = w[i]
  <2>1. w # <<>> /\ v = Tail(w)
    OBVIOUS
  <2> HIDE DEF w, v
  <2>a. LineIsRead(w, "vm")
    BY ONLY <1>1, <2>1, ReadLine
  <2>2. Head(w) = w[1] /\ (1 \in Due(w, "vm") <=> w[1][1] = "vm")
    BY ONLY <2>a DEF LineIsRead
  <2>3. /\ \A i \in Due(Tail(w), "vm") : i + 1 \in Due(w, "vm") /\ Tail(w)[i] = w[i + 1]
        /\ \A i \in Due(w, "vm") : i # 1 => i - 1 \in Due(Tail(w), "vm") /\ Tail(w)[i - 1] = w[i]
    BY ONLY <2>a DEF LineIsRead
  <2> QED
    BY <2>1, <2>2, <2>3
<1>3. /\ \A i \in Due(v, "vm") : i \in Nat /\ i >= 1
      /\ \A i \in Due(w, "vm") : i \in Nat
  <2> HIDE DEF w, v
  <2>1. \A i \in Due(w, "vm") : i \in 1 .. Len(w)
    BY <1>1, DueAreThere
  <2>2. \A i \in Due(v, "vm") : i \in 1 .. Len(v)
    BY <1>1, DueAreThere
  <2> QED
    BY <2>1, <2>2
<1>4. /\ w[1][1] = "vm" => r2.vm = w[1][2]
      /\ w[1][1] # "vm" => r2.vm = r.vm
  BY <1>2
<1>5. /\ Due(w, "vm") = {} => r.vm = vm
      /\ Due(w, "vm") # {} => \E i \in Due(w, "vm") : w[i][2] = vm /\ \A j \in Due(w, "vm") : j <= i
  BY DEF Latest
<1> HIDE DEF w, v
<1>6. CASE Due(v, "vm") = {}
  <2>1. \A i \in Due(w, "vm") : i = 1
    BY <1>2, <1>6
  <2>2. r2.vm = vm
    BY <1>2, <1>4, <1>5, <2>1
  <2> QED
    BY <1>6, <2>2 DEF Latest, v
<1>7. CASE Due(v, "vm") # {}
  <2>1. PICK i \in Due(w, "vm") : w[i][2] = vm /\ \A j \in Due(w, "vm") : j <= i
    BY <1>2, <1>5, <1>7
  <2>2. PICK j \in Due(v, "vm") : TRUE
    BY <1>7
  <2>3. i # 1
    BY <1>2, <1>3, <2>1, <2>2
  <2>4. i - 1 \in Due(v, "vm") /\ v[i - 1][2] = vm
    BY <1>2, <2>1, <2>3
  <2>5. \A l \in Due(v, "vm") : l <= i - 1
    BY <1>2, <1>3, <2>1
  <2> QED
    BY <1>7, <2>4, <2>5 DEF Latest, v
<1> QED
  BY <1>6, <1>7

-----------------------------------------------------------------------------
(* The server's end of a connection.                                       *)

LEMMA FannedLine ==
  ASSUME NEW k \in Connection, NEW line \in WireLines
  PROVE  LET f == Fanned(k, line)
         IN /\ f \in Connection /\ f.wire = Append(k.wire, line)
            /\ f.first = k.first /\ f.open = k.open /\ (f.sub = TRUE => k.sub = TRUE)
<1> DEFINE v == Written(k, line)
<1>1. k.wire \in Seq(WireLines) /\ Append(k.wire, line) \in Seq(WireLines)
  BY AppendProperties DEF Connection
<1>2. /\ v \in Connection /\ v.wire = Append(k.wire, line)
      /\ v.first = k.first /\ v.open = k.open /\ v.sub = k.sub
  BY <1>1 DEF Written, Connection
<1> HIDE DEF v
<1>3. /\ CleanedUp(v) \in Connection /\ CleanedUp(v).wire = v.wire /\ CleanedUp(v).first = v.first
      /\ CleanedUp(v).open = v.open /\ CleanedUp(v).sub = FALSE
  BY <1>2 DEF CleanedUp, Connection
<1>4. Fanned(k, line) = IF Backed(v) THEN CleanedUp(v) ELSE v
  BY DEF Fanned, v
<1> QED
  BY <1>2, <1>3, <1>4

LEMMA DestroyedIs ==
  ASSUME NEW k, k.wire \in Seq(WireLines), NEW kept \in 0 .. Len(k.wire)
  PROVE  Destroyed(k, kept) \in Connection /\ Destroyed(k, kept).open = FALSE
<1>1. SubSeq(k.wire, 1, kept) \in Seq(WireLines)
  BY SubSeqProperties
<1> QED
  BY <1>1 DEF Destroyed, NoConn, Connection

LEMMA DumpIs ==
  ASSUME RingInOrder, vmLine \in Nat
  PROVE  LET p == IF vmLine = 0 THEN 1 ELSE 2
         IN /\ Dump \in Seq(WireLines) /\ Len(Dump) = p + ring.len
            /\ Dump[1] = <<"channel", 0>> /\ (p = 2 => Dump[2] = <<"vm", vmLine>>)
            /\ \A i \in 1 .. ring.len : Dump[p + i] = <<"event", ring.total - ring.len + i>>
<1> DEFINE a == <<<<"channel", 0>>>>
           b == IF vmLine = 0 THEN <<>> ELSE <<<<"vm", vmLine>>>>
           e == [i \in 1 .. ring.len |-> <<"event", Recent[i]>>]
           p == IF vmLine = 0 THEN 1 ELSE 2
<1>0. /\ <<"channel", 0>> \in WireLines /\ <<"vm", vmLine>> \in WireLines
  BY LinesAre
<1>00. ASSUME NEW l \in WireLines PROVE <<l>> \in Seq(WireLines) /\ Len(<<l>>) = 1 /\ <<l>>[1] = l
  OBVIOUS
<1>1. a \in Seq(WireLines) /\ Len(a) = 1 /\ a[1] = <<"channel", 0>>
  <2> DEFINE l == <<"channel", 0>>
  <2>1. l \in WireLines
    BY <1>0
  <2> HIDE DEF l
  <2>2. <<l>> \in Seq(WireLines) /\ Len(<<l>>) = 1 /\ <<l>>[1] = l
    BY <1>00, <2>1
  <2> QED
    BY <2>2 DEF l
<1>2. b \in Seq(WireLines) /\ Len(b) = p - 1 /\ (p = 2 => b[1] = <<"vm", vmLine>>)
  <2> DEFINE l == <<"vm", vmLine>>
  <2>1. l \in WireLines
    BY <1>0
  <2>2. b = IF vmLine = 0 THEN <<>> ELSE <<l>>
    OBVIOUS
  <2> HIDE DEF l
  <2>3. <<l>> \in Seq(WireLines) /\ Len(<<l>>) = 1 /\ <<l>>[1] = l
    BY <1>00, <2>1
  <2>4. <<>> \in Seq(WireLines) /\ Len(<<>>) = 0
    OBVIOUS
  <2>5. CASE vmLine = 0
    <3>1. b = <<>> /\ p = 1
      BY <2>5
    <3> QED
      BY <2>4, <3>1
  <2>6. CASE vmLine # 0
    <3>1. b = <<l>> /\ p = 2
      BY <2>2, <2>6
    <3> HIDE DEF b, p
    <3> QED
      BY <2>3, <3>1 DEF l
  <2> QED
    BY <2>5, <2>6
<1>3. ring.len \in Nat /\ ring.total \in Nat /\ ring.len <= ring.total
  BY FeedAssumption DEF RingInOrder
<1>4. \A i \in 1 .. ring.len : e[i] = <<"event", ring.total - ring.len + i>> /\ e[i] \in WireLines
  <2> SUFFICES ASSUME NEW i \in 1 .. ring.len
               PROVE  e[i] = <<"event", ring.total - ring.len + i>> /\ e[i] \in WireLines
    OBVIOUS
  <2>1. Recent[i] = ring.total - ring.len + i
    BY RingReads
  <2>2. Recent[i] \in Nat
    BY <1>3, <2>1
  <2> QED
    BY <2>1, <2>2, LinesAre
<1>5. e \in Seq(WireLines) /\ Len(e) = ring.len
  <2>1. e \in [1 .. ring.len -> WireLines]
    BY <1>4
  <2> HIDE DEF e
  <2>2. e \in Seq(WireLines)
    BY <1>3, <2>1
  <2>3. DOMAIN e = 1 .. ring.len
    BY <2>1
  <2> QED
    BY <1>3, <2>2, <2>3
<1>6. Dump = (a \o b) \o e
  BY DEF Dump
<1>7. p \in {1, 2}
  OBVIOUS
<1> HIDE DEF a, b, e, p
<1>8. /\ a \o b \in Seq(WireLines) /\ Len(a \o b) = p
      /\ (a \o b)[1] = <<"channel", 0>> /\ (p = 2 => (a \o b)[2] = <<"vm", vmLine>>)
  <2>1. /\ a \o b \in Seq(WireLines) /\ Len(a \o b) = Len(a) + Len(b)
        /\ \A i \in 1 .. Len(a) + Len(b) : (a \o b)[i] = IF i <= Len(a) THEN a[i] ELSE b[i - Len(a)]
    BY <1>1, <1>2, ConcatProperties
  <2>2. Len(a) = 1 /\ Len(b) = p - 1 /\ a[1] = <<"channel", 0>> /\ (p = 2 => b[1] = <<"vm", vmLine>>)
    BY <1>1, <1>2
  <2> DEFINE d == a \o b
  <2> HIDE DEF d
  <2>3. Len(d) = p /\ \A i \in 1 .. p : d[i] = IF i <= 1 THEN a[i] ELSE b[i - 1]
    BY <1>7, <2>1, <2>2 DEF d
  <2>4. d[1] = a[1] /\ (p = 2 => d[2] = b[1])
    BY ONLY <1>7, <2>3
  <2> QED
    BY <2>1, <2>2, <2>3, <2>4 DEF d
<1> DEFINE ab == a \o b
<1> HIDE DEF ab
<1>9. /\ ab \in Seq(WireLines) /\ Len(ab) = p
      /\ ab[1] = <<"channel", 0>> /\ (p = 2 => ab[2] = <<"vm", vmLine>>)
  BY <1>8 DEF ab
<1>10. /\ ab \o e \in Seq(WireLines) /\ Len(ab \o e) = p + ring.len
       /\ \A i \in 1 .. p + ring.len : (ab \o e)[i] = IF i <= p THEN ab[i] ELSE e[i - p]
  <2>1. ab \o e \in Seq(WireLines) /\ Len(ab \o e) = Len(ab) + Len(e)
    BY <1>5, <1>9, ConcatProperties
  <2>2. \A i \in 1 .. Len(ab) + Len(e) : (ab \o e)[i] = IF i <= Len(ab) THEN ab[i] ELSE e[i - Len(ab)]
    BY <1>5, <1>9, ConcatProperties
  <2> QED
    BY <1>5, <1>9, <2>1, <2>2
<1>11. /\ (ab \o e)[1] = <<"channel", 0>> /\ (p = 2 => (ab \o e)[2] = <<"vm", vmLine>>)
       /\ \A i \in 1 .. ring.len : (ab \o e)[p + i] = <<"event", ring.total - ring.len + i>>
  <2>1. /\ (ab \o e)[1] = ab[1] /\ (p = 2 => (ab \o e)[2] = ab[2])
    BY <1>3, <1>7, <1>10
  <2>2. ASSUME NEW i \in 1 .. ring.len PROVE (ab \o e)[p + i] = e[i]
    <3>1. p + i \in 1 .. p + ring.len /\ ~(p + i <= p) /\ (p + i) - p = i
      BY <1>3, <1>7
    <3> QED
      BY <1>10, <3>1
  <2> QED
    BY <1>4, <1>9, <2>1, <2>2
<1> QED
  BY <1>6, <1>10, <1>11 DEF ab, p

\* The dump, or as much of it as the socket took, is owed from its first event on.
LEMMA AcceptedIs ==
  ASSUME RingInOrder, vmLine \in Nat, NEW r, r.got = <<>>, r.vm = 0
  PROVE  /\ Accepted \in Connection
         /\ Complete(Accepted, r, ring.total) /\ Latest(Accepted, r, vmLine)
<1> DEFINE p == IF vmLine = 0 THEN 1 ELSE 2
           w == Accepted.wire
           m == Len(w)
           base == ring.total - ring.len
           whole == [NoConn EXCEPT !.open = TRUE, !.sub = TRUE, !.data = TRUE, !.heard = TRUE,
                                   !.wire = Dump, !.first = ring.total - ring.len + 1]
<1>1. /\ Dump \in Seq(WireLines) /\ Len(Dump) = p + ring.len
      /\ Dump[1] = <<"channel", 0>> /\ (p = 2 => Dump[2] = <<"vm", vmLine>>)
      /\ \A i \in 1 .. ring.len : Dump[p + i] = <<"event", base + i>>
  BY DumpIs
<1>2. /\ p \in {1, 2} /\ (p = 1 <=> vmLine = 0) /\ ring.len \in Nat /\ ring.total \in Nat /\ base \in Nat
      /\ HighWater \in Nat /\ HighWater >= 1 /\ ring.total = base + ring.len
  BY FeedAssumption DEF RingInOrder
<1>3. base + 1 \in Nat
  BY <1>2
<1> HIDE DEF p, base
<1>4. /\ whole \in Connection /\ whole.wire = Dump /\ whole.first = base + 1 /\ whole.sub = TRUE
  BY <1>1, <1>3 DEF NoConn, Connection, base
<1> HIDE DEF whole
<1>5. /\ Accepted \in Connection /\ Accepted.first = base + 1
      /\ m \in Nat /\ m <= p + ring.len /\ m >= p
      /\ \A i \in 1 .. m : w[i] = Dump[i]
      /\ Accepted.sub = TRUE => m = p + ring.len
  <2>1. CASE ~Backed(whole)
    <3>1. Accepted = whole
      BY <2>1 DEF Accepted, whole
    <3>2. w = Dump /\ m = p + ring.len /\ m \in Nat /\ m >= p
      BY <1>1, <1>2, <1>4, <3>1
    <3> HIDE DEF w, m
    <3> QED
      BY <1>1, <1>2, <1>4, <3>1, <3>2
  <2>2. CASE Backed(whole)
    <3> DEFINE cut == SubSeq(Dump, 1, HighWater + 1)
    <3>1. Len(Dump) > HighWater
      BY <1>4, <2>2 DEF Backed
    <3>2. /\ cut \in Seq(WireLines) /\ Len(cut) = HighWater + 1
          /\ \A i \in 1 .. HighWater + 1 : cut[i] = Dump[i]
      <4>1. \A i \in 1 .. HighWater + 1 : Dump[i] \in WireLines
        <5>1. HighWater + 1 <= Len(Dump)
          BY <1>1, <1>2, <3>1
        <5>2. \A i \in 1 .. Len(Dump) : Dump[i] \in WireLines
          BY <1>1
        <5> QED
          BY <1>1, <1>2, <5>1, <5>2
      <4>2. 1 \in Int /\ HighWater + 1 \in Int /\ 1 <= HighWater + 1
        BY <1>2
      <4>3. /\ cut \in Seq(WireLines) /\ Len(cut) = (HighWater + 1) - 1 + 1
            /\ \A i \in 1 .. (HighWater + 1) - 1 + 1 : cut[i] = Dump[1 + i - 1]
        BY <4>1, <4>2, SubSeqProperties
      <4> QED
        BY <1>2, <4>3
    <3>3. Accepted = [CleanedUp(whole) EXCEPT !.wire = cut, !.heard = FALSE]
      BY <2>2 DEF Accepted, whole
    <3> HIDE DEF cut
    <3>4. /\ CleanedUp(whole) \in Connection /\ CleanedUp(whole).first = base + 1
          /\ CleanedUp(whole).sub = FALSE
      BY <1>4 DEF CleanedUp, Connection
    <3>5. /\ Accepted \in Connection /\ Accepted.first = base + 1 /\ Accepted.sub = FALSE
          /\ Accepted.wire = cut
      BY <3>2, <3>3, <3>4 DEF Connection
    <3>6. w = cut /\ m = HighWater + 1
      BY ONLY <3>2, <3>5
    <3> HIDE DEF w, m
    <3> DEFINE h == HighWater  l == Len(Dump)
    <3>7. h \in Nat /\ h >= 1 /\ l > h /\ l = p + ring.len /\ p \in {1, 2} /\ ring.len \in Nat /\ m = h + 1
      BY ONLY <1>1, <1>2, <3>1, <3>6
    <3> HIDE DEF h, l
    <3>8. m \in Nat /\ m <= p + ring.len /\ m >= p
      BY ONLY <3>7
    <3>9. \A i \in 1 .. m : w[i] = Dump[i]
      BY ONLY <3>2, <3>6
    <3> QED
      BY ONLY <3>5, <3>8, <3>9
  <2> QED
    BY <2>1, <2>2
<1> DEFINE n == m - p
<1>6. n \in Nat /\ n <= ring.len /\ m = p + n
  BY <1>2, <1>5
<1>7. w \in Seq(WireLines) /\ Len(w) = m
  BY <1>5 DEF Connection
<1> HIDE DEF w, m, n
<1>8. /\ w[1][1] = "channel" /\ (p = 2 => w[2][1] = "vm" /\ w[2][2] = vmLine)
      /\ \A i \in 1 .. n : w[p + i][1] = "event" /\ w[p + i][2] = base + i
  <2>1. w[1] = <<"channel", 0>>
    BY <1>1, <1>2, <1>5
  <2>2. p = 2 => w[2] = <<"vm", vmLine>>
    BY <1>1, <1>2, <1>5
  <2>3. ASSUME NEW i \in 1 .. n PROVE w[p + i] = <<"event", base + i>>
    <3>1. p + i \in 1 .. m /\ i \in 1 .. ring.len
      BY <1>2, <1>6
    <3> QED
      BY <1>1, <1>5, <3>1
  <2> QED
    BY <2>1, <2>2, <2>3
<1>9. /\ \A i \in Due(w, "event") : i - p \in 1 .. n /\ w[i][2] = base + (i - p)
      /\ \A j \in 1 .. n : p + j \in Due(w, "event") /\ w[p + j][2] = base + j
  <2>1. ASSUME NEW i \in Due(w, "event") PROVE i - p \in 1 .. n /\ w[i][2] = base + (i - p)
    <3>1. i \in 1 .. m /\ w[i][1] = "event"
      BY <1>7 DEF Due
    <3>2. i # 1 /\ (p = 2 => i # 2)
      BY <1>8, <3>1
    <3>3. i - p \in 1 .. n /\ p + (i - p) = i
      BY <1>2, <1>6, <3>1, <3>2
    <3> QED
      BY <1>8, <3>3
  <2>2. ASSUME NEW j \in 1 .. n PROVE p + j \in Due(w, "event") /\ w[p + j][2] = base + j
    <3>1. p + j \in 1 .. m
      BY <1>2, <1>6
    <3> QED
      BY <1>7, <1>8, <3>1 DEF Due
  <2> QED
    BY <2>1, <2>2
<1>10. Complete(Accepted, r, ring.total)
  <2>1. Rising(w)
    <3> SUFFICES ASSUME NEW i \in Due(w, "event"), NEW j \in Due(w, "event"), i < j
                 PROVE  w[i][2] < w[j][2]
      BY DEF Rising
    <3>1. i \in 1 .. m /\ j \in 1 .. m
      BY <1>7 DEF Due
    <3> QED
      BY <1>2, <1>5, <1>9, <3>1
  <2>2. EventNumbers(w) = base + 1 .. base + n
    <3>1. ASSUME NEW x \in EventNumbers(w) PROVE x \in base + 1 .. base + n
      <4>1. PICK i \in Due(w, "event") : x = w[i][2]
        BY <3>1 DEF EventNumbers
      <4> QED
        BY <1>2, <1>6, <1>9, <4>1
    <3>2. ASSUME NEW x \in base + 1 .. base + n PROVE x \in EventNumbers(w)
      <4>1. x - base \in 1 .. n /\ base + (x - base) = x
        BY <1>2, <1>6, <3>2
      <4> QED
        BY <1>9, <4>1 DEF EventNumbers
    <3> QED
      BY <3>1, <3>2
  <2>3. Len(r.got) = 0 /\ Accepted.first + Len(r.got) = base + 1
    BY <1>3, <1>5
  <2>4. /\ base + n \in (base + 1) - 1 .. ring.total
        /\ Accepted.sub = TRUE => base + n = ring.total
    BY <1>2, <1>5, <1>6
  <2>5. \E last \in (Accepted.first + Len(r.got)) - 1 .. ring.total :
          EventNumbers(w) = Accepted.first + Len(r.got) .. last
          /\ (Accepted.sub = TRUE => last = ring.total)
    BY <2>2, <2>3, <2>4
  <2>6. \A i \in 1 .. Len(r.got) : r.got[i] = Accepted.first + i - 1
    BY <2>3
  <2> QED
    BY <2>1, <2>5, <2>6 DEF Complete, w
<1>11. Latest(Accepted, r, vmLine)
  <2>1. CASE p = 1
    <3>1. Due(w, "vm") = {}
      <4> SUFFICES ASSUME NEW i \in Due(w, "vm") PROVE FALSE
        OBVIOUS
      <4>1. i \in 1 .. m /\ w[i][1] = "vm"
        BY <1>7 DEF Due
      <4>2. i # 1
        BY <1>8, <4>1
      <4>3. i - 1 \in 1 .. n /\ p + (i - 1) = i
        BY <1>2, <1>6, <2>1, <4>1, <4>2
      <4> QED
        BY <1>8, <4>1, <4>3
    <3> QED
      BY <1>2, <2>1, <3>1 DEF Latest, w
  <2>2. CASE p = 2
    <3>1. 2 \in Due(w, "vm")
      BY <1>6, <1>7, <1>8, <2>2 DEF Due
    <3>2. ASSUME NEW j \in Due(w, "vm") PROVE j <= 2
      <4>1. j \in 1 .. m /\ w[j][1] = "vm"
        BY <1>7 DEF Due
      <4>2. CASE j > 2
        <5>1. j - 2 \in 1 .. n /\ p + (j - 2) = j
          BY <1>2, <1>6, <2>2, <4>1, <4>2
        <5> QED
          BY <1>8, <4>1, <5>1
      <4> QED
        BY <4>1, <4>2
    <3> QED
      BY <1>8, <2>2, <3>1, <3>2 DEF Latest, w
  <2> QED
    BY <1>2, <2>1, <2>2
<1> QED
  BY <1>5, <1>10, <1>11

-----------------------------------------------------------------------------
(* StatusFeed: the steps.                                                  *)

LEMMA FeedIs ==
  ASSUME FeedInOrder, NEW c \in Clients
  PROVE  /\ conn[c] \in Connection /\ reader[c] \in FeedReader
         /\ conn[c].open \in BOOLEAN /\ conn[c].sub \in BOOLEAN /\ conn[c].wire \in Seq(WireLines)
         /\ conn[c].first + Len(reader[c].got) \in Nat
         /\ ring.total \in Nat /\ vmLine \in Nat
         /\ Owed(kinds[c], conn[c], reader[c], ring.total, vmLine)
<1>1. conn[c] \in Connection /\ reader[c] \in FeedReader
  BY DEF FeedInOrder
<1>2. conn[c].first \in Nat /\ reader[c].got \in Seq(Nat)
  BY <1>1 DEF Connection, FeedReader
<1>3. conn[c].open \in BOOLEAN /\ conn[c].sub \in BOOLEAN /\ conn[c].wire \in Seq(WireLines)
  BY <1>1 DEF Connection
<1>4. conn[c].first + Len(reader[c].got) \in Nat
  BY <1>2
<1> QED
  BY <1>1, <1>3, <1>4 DEF FeedInOrder, RingInOrder

LEMMA FreshRingInOrderNext ==
  ring' = FreshRing => RingInOrder'
<1>1. /\ DOMAIN FreshRing = {"buf", "head", "len", "total"} /\ DOMAIN FreshRing.buf = 0 .. RingCap - 1
      /\ FreshRing.head = 0 /\ FreshRing.len = 0 /\ FreshRing.total = 0
  BY DEF FreshRing
<1> QED
  BY <1>1, FeedAssumption DEF RingInOrder

LEMMA EndedIsClosed ==
  ASSUME FeedInOrder, NEW c \in Clients, NEW k,
         k = IF conn[c].open THEN Destroyed(conn[c], Len(conn[c].wire)) ELSE conn[c]
  PROVE  k \in Connection /\ k.open = FALSE
<1>1. conn[c] \in Connection /\ conn[c].open \in BOOLEAN /\ conn[c].wire \in Seq(WireLines)
  BY FeedIs
<1>2. Len(conn[c].wire) \in 0 .. Len(conn[c].wire)
  BY <1>1
<1>3. /\ Destroyed(conn[c], Len(conn[c].wire)) \in Connection
      /\ Destroyed(conn[c], Len(conn[c].wire)).open = FALSE
  BY <1>1, <1>2, DestroyedIs
<1> QED
  BY <1>1, <1>3

\* A step at one client that leaves the ring and the vm state alone.
LEMMA OneClientMoves ==
  ASSUME FeedInOrder, NEW c \in Clients, NEW k2 \in Connection, NEW r2 \in FeedReader,
         ring' = ring, vmLine' = vmLine, kinds' = kinds,
         conn' = [conn EXCEPT ![c] = k2], reader' = [reader EXCEPT ![c] = r2],
         Owed(kinds[c], k2, r2, ring.total, vmLine)
  PROVE  FeedInOrder'
<1>1. /\ conn' \in [Clients -> Connection] /\ reader' \in [Clients -> FeedReader]
      /\ \A d \in Clients : /\ conn'[d] = IF d = c THEN k2 ELSE conn[d]
                            /\ reader'[d] = IF d = c THEN r2 ELSE reader[d]
  BY DEF FeedInOrder
<1>2. \A d \in Clients : Owed(kinds[d], conn'[d], reader'[d], ring.total, vmLine)
  BY <1>1 DEF FeedInOrder
<1>3. RingInOrder'
  BY DEF FeedInOrder, RingInOrder
<1> QED
  BY <1>1, <1>2, <1>3 DEF FeedInOrder

LEMMA OpenSocketKeepsTheFeed ==
  ASSUME FeedInOrder, OpenSocket PROVE FeedInOrder'
BY DEF FeedInOrder, OpenSocket, RingInOrder, Owed, Complete, Latest, Rising, EventNumbers, Due

LEMMA RecordKeepsTheFeed ==
  ASSUME FeedInOrder, Record PROVE FeedInOrder'
<1> DEFINE line == <<"event", ring.total + 1>>
<1>1. RingInOrder' /\ ring'.total = ring.total + 1
  BY RingKeeps DEF Record, FeedInOrder
<1>2. /\ \A c \in Clients : conn'[c] = IF conn[c].sub THEN Fanned(conn[c], line) ELSE conn[c]
      /\ DOMAIN conn' = Clients /\ conn' = [c \in Clients |-> conn'[c]]
      /\ vmLine' = vmLine /\ kinds' = kinds /\ reader' = reader
  BY DEF Record
<1>3. ring.total \in Nat /\ ring.total + 1 \in Nat
  BY DEF FeedInOrder, RingInOrder
<1>4. line \in WireLines /\ line[1] # "vm"
  BY <1>3, LinesAre
<1>5. ASSUME NEW c \in Clients
      PROVE  /\ conn'[c] \in Connection
             /\ Owed(kinds[c], conn'[c], reader[c], ring.total + 1, vmLine)
  <2>1. /\ conn[c] \in Connection /\ reader[c] \in FeedReader
        /\ conn[c].sub \in BOOLEAN
        /\ conn[c].first + Len(reader[c].got) \in Nat
        /\ Owed(kinds[c], conn[c], reader[c], ring.total, vmLine)
    BY FeedIs
  <2>2. CASE conn[c].sub = TRUE
    <3> DEFINE f == Fanned(conn[c], line)
    <3>1. conn'[c] = f
      BY <1>2, <2>2
    <3> HIDE DEF line
    <3>2. f \in Connection /\ f.wire = Append(conn[c].wire, line) /\ f.first = conn[c].first /\ f.open = conn[c].open
      BY <1>4, <2>1, FannedLine
    <3> HIDE DEF f
    <3>3. Complete(conn[c], reader[c], ring.total) => Complete(f, reader[c], ring.total + 1)
      BY <1>3, <2>1, <2>2, <3>2, AnEventFollows DEF line
    <3>4. Latest(conn[c], reader[c], vmLine) => Latest(f, reader[c], vmLine)
      BY <1>4, <2>1, <3>2, NoVmLineFollows
    <3> QED
      BY <2>1, <3>1, <3>2, <3>3, <3>4 DEF Owed
  <2>3. CASE conn[c].sub = FALSE
    <3>1. conn'[c] = conn[c]
      BY <1>2, <2>3
    <3>2. Complete(conn[c], reader[c], ring.total) => Complete(conn[c], reader[c], ring.total + 1)
      BY <1>3, <2>1, <2>3, NotOwedAnyMore
    <3> QED
      BY <2>1, <3>1, <3>2 DEF Owed
  <2> QED
    BY <2>1, <2>2, <2>3
<1>6. conn' \in [Clients -> Connection]
  BY <1>2, <1>5
<1> QED
  BY <1>1, <1>2, <1>5, <1>6 DEF FeedInOrder

LEMMA TransitionKeepsTheFeed ==
  ASSUME FeedInOrder, Transition PROVE FeedInOrder'
<1> DEFINE line == <<"vm", vmLine + 1>>
           w(c) == Written(conn[c], line)
<1>1. vmLine + 1 \in Nat /\ ring.total \in Nat
  BY DEF FeedInOrder, RingInOrder
<1>2. PICK kept \in 0 .. HighWater + MaxVmLines + 2 :
        conn' = [c \in Clients |->
                   LET x == Written(conn[c], <<"vm", vmLine + 1>>)
                   IN IF ~conn[c].open THEN conn[c]
                      ELSE IF ~Backed(x) THEN x
                      ELSE Destroyed(x, IF kept < Len(x.wire) THEN kept ELSE Len(x.wire))]
  BY DEF Transition
<1>3. vmLine' = vmLine + 1 /\ kinds' = kinds /\ reader' = reader /\ ring' = ring
  BY DEF Transition
<1>4. line \in WireLines /\ line[1] # "event"
  BY <1>1, LinesAre
<1>5. ASSUME NEW c \in Clients
      PROVE  /\ conn'[c] \in Connection
             /\ Owed(kinds[c], conn'[c], reader[c], ring.total, vmLine + 1)
  <2>1. /\ conn[c] \in Connection /\ reader[c] \in FeedReader /\ conn[c].open \in BOOLEAN
        /\ conn[c].wire \in Seq(WireLines)
        /\ Owed(kinds[c], conn[c], reader[c], ring.total, vmLine)
    BY FeedIs
  <2>2. conn'[c] = IF ~conn[c].open THEN conn[c]
                   ELSE IF ~Backed(w(c)) THEN w(c)
                   ELSE Destroyed(w(c), IF kept < Len(w(c).wire) THEN kept ELSE Len(w(c).wire))
    BY <1>2
  <2> DEFINE x == w(c)
  <2> HIDE DEF line
  <2>3. Append(conn[c].wire, line) \in Seq(WireLines)
    BY <1>4, <2>1
  <2>4. x \in Connection /\ x.wire = Append(conn[c].wire, line) /\ x.first = conn[c].first /\ x.sub = conn[c].sub
        /\ x.open = conn[c].open
    BY <2>1, <2>3 DEF Written, Connection
  <2>5. x.wire \in Seq(WireLines) /\ Len(x.wire) \in Nat
    BY <2>3, <2>4
  <2> HIDE DEF x, w
  <2>6. CASE conn[c].open = FALSE
    <3>1. conn'[c] = conn[c]
      BY <2>2, <2>6 DEF x
    <3> QED
      BY <2>1, <2>6, <3>1 DEF Owed
  <2>7. CASE conn[c].open = TRUE /\ ~Backed(x)
    <3>1. conn'[c] = x
      BY <2>2, <2>7 DEF x
    <3>2. Complete(conn[c], reader[c], ring.total) => Complete(x, reader[c], ring.total)
      BY <1>1, <1>4, <2>1, <2>4, AnotherLineFollows
    <3>3. Latest(x, reader[c], vmLine + 1)
      BY <1>1, <2>1, <2>4, AVmLineFollows DEF line
    <3> QED
      BY <2>1, <2>4, <2>7, <3>1, <3>2, <3>3 DEF Owed
  <2>8. CASE conn[c].open = TRUE /\ Backed(x)
    <3> DEFINE n == IF kept < Len(x.wire) THEN kept ELSE Len(x.wire)
    <3>1. conn'[c] = Destroyed(x, n)
      BY <2>2, <2>8 DEF x
    <3>2. n \in 0 .. Len(x.wire)
      BY <2>5
    <3> HIDE DEF n
    <3>3. Destroyed(x, n) \in Connection /\ Destroyed(x, n).open = FALSE
      BY <2>5, <3>2, DestroyedIs
    <3> QED
      BY <3>1, <3>3 DEF Owed
  <2> QED
    BY <2>1, <2>6, <2>7, <2>8
<1>6. conn' \in [Clients -> Connection]
  <2>1. DOMAIN conn' = Clients /\ conn' = [c \in Clients |-> conn'[c]]
    BY <1>2
  <2> QED
    BY <1>5, <2>1
<1>7. RingInOrder'
  BY <1>3 DEF FeedInOrder, RingInOrder
<1> QED
  BY <1>1, <1>3, <1>5, <1>6, <1>7 DEF FeedInOrder

LEMMA CloseSocketKeepsTheFeed ==
  ASSUME FeedInOrder, CloseSocket PROVE FeedInOrder'
<1>1. RingInOrder'
  BY FreshRingInOrderNext DEF CloseSocket
<1>2. /\ conn' = [c \in Clients |-> IF conn[c].open THEN Destroyed(conn[c], Len(conn[c].wire)) ELSE conn[c]]
      /\ vmLine' = 0 /\ kinds' = kinds /\ reader' = reader
  BY DEF CloseSocket
<1>3. ASSUME NEW c \in Clients PROVE conn'[c] \in Connection /\ conn'[c].open = FALSE
  BY <1>2, EndedIsClosed
<1>4. conn' \in [Clients -> Connection]
  BY <1>2, <1>3
<1> QED
  BY <1>1, <1>2, <1>3, <1>4 DEF FeedInOrder, Owed

LEMMA RunCommandKeepsTheFeed ==
  ASSUME FeedInOrder, NEW c \in Clients, RunCommand(c) PROVE FeedInOrder'
<1>1. PICK ok \in 0 .. 1 : conn' = [conn EXCEPT ![c] = Fanned(@, <<"result", ok>>)]
  BY DEF RunCommand
<1> DEFINE line == <<"result", ok>>
           f == Fanned(conn[c], line)
<1>2. /\ reader' = [reader EXCEPT ![c].sent = FALSE]
      /\ ring' = ring /\ vmLine' = vmLine /\ kinds' = kinds
  BY DEF RunCommand
<1>3. line \in WireLines /\ line[1] # "event" /\ line[1] # "vm"
  <2>1. ok \in Nat
    OBVIOUS
  <2>2. line \in WireLines
    BY <2>1, LinesAre
  <2> QED
    BY <2>2
<1>4. /\ conn[c] \in Connection /\ reader[c] \in FeedReader /\ ring.total \in Nat
      /\ Owed(kinds[c], conn[c], reader[c], ring.total, vmLine)
  BY FeedIs
<1>5. /\ conn' = [conn EXCEPT ![c] = f]
      /\ conn \in [Clients -> Connection] /\ reader \in [Clients -> FeedReader]
  BY <1>1 DEF FeedInOrder
<1> HIDE DEF line
<1>6. /\ f \in Connection /\ f.wire = Append(conn[c].wire, line) /\ f.first = conn[c].first
      /\ f.open = conn[c].open /\ (f.sub = TRUE => conn[c].sub = TRUE)
  BY <1>3, <1>4, FannedLine
<1> HIDE DEF f
<1> DEFINE r2 == [reader[c] EXCEPT !.sent = FALSE]
<1>7. r2 \in FeedReader /\ r2.got = reader[c].got /\ r2.vm = reader[c].vm
  BY <1>4 DEF FeedReader
<1>8. reader' = [reader EXCEPT ![c] = r2]
  BY <1>2
<1> HIDE DEF r2
<1>9. Complete(conn[c], reader[c], ring.total) => Complete(f, r2, ring.total)
  <2>1. Complete(conn[c], reader[c], ring.total) => Complete(f, reader[c], ring.total)
    BY <1>3, <1>4, <1>6, AnotherLineFollows
  <2> QED
    BY <1>7, <2>1 DEF Complete
<1>10. Latest(conn[c], reader[c], vmLine) => Latest(f, r2, vmLine)
  <2>1. Latest(conn[c], reader[c], vmLine) => Latest(f, reader[c], vmLine)
    BY <1>3, <1>4, <1>6, NoVmLineFollows
  <2> QED
    BY <1>7, <2>1 DEF Latest
<1>11. Owed(kinds[c], f, r2, ring.total, vmLine)
  BY <1>4, <1>6, <1>9, <1>10 DEF Owed
<1> QED
  BY <1>2, <1>5, <1>6, <1>7, <1>8, <1>11, OneClientMoves

LEMMA ConnectKeepsTheFeed ==
  ASSUME FeedInOrder, NEW c \in Clients, Connect(c) PROVE FeedInOrder'
<1>1. ring' = ring /\ vmLine' = vmLine /\ kinds' = kinds
  BY DEF Connect
<1>2. CASE socket.state = "up"
  <2> DEFINE r2 == [NoReader EXCEPT !.at = "reading", !.sent = (kinds[c] = "command")]
  <2>1. conn' = [conn EXCEPT ![c] = Accepted] /\ reader' = [reader EXCEPT ![c] = r2]
    BY <1>2 DEF Connect
  <2>2. r2 \in FeedReader /\ r2.got = <<>> /\ r2.vm = 0
    BY NoReaderIs DEF FeedReader
  <2> HIDE DEF r2
  <2>3. /\ Accepted \in Connection
        /\ Complete(Accepted, r2, ring.total) /\ Latest(Accepted, r2, vmLine)
    BY <2>2, AcceptedIs DEF FeedInOrder
  <2>4. Owed(kinds[c], Accepted, r2, ring.total, vmLine)
    BY <2>3 DEF Owed
  <2> QED
    BY <1>1, <2>1, <2>2, <2>3, <2>4, OneClientMoves
<1>3. CASE socket.state # "up"
  <2> DEFINE r2 == [reader[c] EXCEPT !.at = "done", !.result = "refused"]
  <2>1. conn' = conn /\ reader' = [reader EXCEPT ![c].at = "done", ![c].result = "refused"]
    BY <1>3 DEF Connect
  <2>2. /\ conn[c] \in Connection /\ reader[c] \in FeedReader
        /\ Owed(kinds[c], conn[c], reader[c], ring.total, vmLine)
    BY FeedIs
  <2>3. /\ conn' = [conn EXCEPT ![c] = conn[c]] /\ reader' = [reader EXCEPT ![c] = r2]
    BY <2>1 DEF FeedInOrder
  <2>4. r2 \in FeedReader /\ r2.got = reader[c].got /\ r2.vm = reader[c].vm
    BY <2>2 DEF FeedReader
  <2> HIDE DEF r2
  <2>5. Owed(kinds[c], conn[c], r2, ring.total, vmLine)
    BY <2>2, <2>4 DEF Owed, Complete, Latest
  <2> QED
    BY <1>1, <2>2, <2>3, <2>4, <2>5, OneClientMoves
<1> QED
  BY <1>2, <1>3

LEMMA SeesCloseKeepsTheFeed ==
  ASSUME FeedInOrder, NEW c \in Clients, SeesClose(c) PROVE FeedInOrder'
<1> DEFINE r2 == IF kinds[c] = "dashboard" THEN NoReader
                 ELSE [NoReader EXCEPT !.at = "done", !.result = "closed"]
<1>1. /\ ring' = ring /\ vmLine' = vmLine /\ kinds' = kinds /\ conn' = conn
      /\ reader' = [reader EXCEPT ![c] = r2] /\ ~conn[c].open
  BY DEF SeesClose
<1>2. conn[c] \in Connection /\ conn[c].open \in BOOLEAN /\ conn' = [conn EXCEPT ![c] = conn[c]]
  BY <1>1, FeedIs DEF FeedInOrder
<1>3. r2 \in FeedReader
  BY NoReaderIs DEF FeedReader
<1> HIDE DEF r2
<1>4. Owed(kinds[c], conn[c], r2, ring.total, vmLine)
  BY <1>1, <1>2 DEF Owed
<1> QED
  BY <1>1, <1>2, <1>3, <1>4, OneClientMoves

LEMMA ReadKeepsTheFeed ==
  ASSUME FeedInOrder, NEW c \in Clients, Read(c) PROVE FeedInOrder'
<1> DEFINE k == conn[c]  r == reader[c]  line == Head(conn[c].wire)  r2 == Took(c, line)
           kept == [k EXCEPT !.wire = Tail(@)]
           k2 == IF r2.at = "done" THEN NoConn ELSE kept
<1>1. /\ k \in Connection /\ r \in FeedReader /\ k.wire \in Seq(WireLines)
      /\ ring.total \in Nat
      /\ Owed(kinds[c], k, r, ring.total, vmLine)
  BY FeedIs
<1>2. /\ ring' = ring /\ vmLine' = vmLine /\ kinds' = kinds /\ k.wire # <<>>
      /\ reader' = [reader EXCEPT ![c] = r2] /\ r.at = "reading"
  BY DEF Read
<1>3. conn' = [conn EXCEPT ![c] = k2]
  <2>1. reader'[c] = r2
    <3> HIDE DEF r2
    <3> QED
      BY <1>2 DEF FeedInOrder
  <2>2. CASE r2.at = "done"
    <3>1. conn' = [conn EXCEPT ![c] = NoConn]
      <4> HIDE DEF r2
      <4> QED
        BY <2>1, <2>2 DEF Read
    <3> QED
      BY <2>2, <3>1
  <2>3. CASE r2.at # "done"
    <3>1. conn' = [conn EXCEPT ![c] = [conn[c] EXCEPT !.wire = Tail(@)]]
      <4> HIDE DEF r2
      <4> QED
        BY <2>1, <2>3 DEF Read
    <3>2. k2 = kept
      BY <2>3
    <3> HIDE DEF k2
    <3> QED
      BY <3>1, <3>2
  <2> QED
    BY <2>2, <2>3
<1>4. /\ line \in WireLines /\ line[1] \in {"channel", "event", "vm", "result"} /\ line[2] \in Nat
      /\ Tail(k.wire) \in Seq(WireLines)
  <2>1. line \in WireLines /\ Tail(k.wire) \in Seq(WireLines)
    BY <1>1, <1>2
  <2> HIDE DEF line
  <2> QED
    BY <2>1, LinesAre
<1>5. kept \in Connection /\ kept.wire = Tail(k.wire) /\ kept.first = k.first /\ kept.sub = k.sub /\ kept.open = k.open
  BY <1>1, <1>4 DEF Connection
<1> HIDE DEF kept, line
<1>6. /\ r2 \in FeedReader
      /\ line[1] = "event" /\ kinds[c] \in {"dashboard", "monitor"} => r2.got = Append(r.got, line[2])
      /\ line[1] # "event" => r2.got = r.got
      /\ line[1] = "vm" /\ kinds[c] = "dashboard" => r2.vm = line[2]
      /\ line[1] # "vm" => r2.vm = r.vm
  <2>1. r.got \in Seq(Nat) /\ Append(r.got, line[2]) \in Seq(Nat)
    BY <1>1, <1>4 DEF FeedReader
  <2>2. CASE line[1] = "event" /\ kinds[c] \in {"dashboard", "monitor"}
    <3>1. r2 = [reader[c] EXCEPT !.got = Append(@, line[2])]
      BY <2>2 DEF Took
    <3> QED
      BY <1>1, <2>1, <2>2, <3>1 DEF FeedReader
  <2>3. CASE line[1] = "vm" /\ kinds[c] = "dashboard"
    <3>1. r2 = [reader[c] EXCEPT !.vm = line[2]]
      BY <2>3 DEF Took
    <3> QED
      BY <1>1, <1>4, <2>3, <3>1 DEF FeedReader
  <2>4. CASE line[1] = "vm" /\ kinds[c] = "status"
    <3>1. r2 = [reader[c] EXCEPT !.vm = line[2], !.at = "done", !.result = "shown"]
      BY <2>4 DEF Took
    <3> QED
      BY <1>1, <1>4, <2>4, <3>1 DEF FeedReader
  <2>5. CASE line[1] = "result" /\ kinds[c] = "command"
    <3>1. r2 = [reader[c] EXCEPT !.at = "done", !.result = IF line[2] = 1 THEN "accepted" ELSE "refused"]
      BY <2>5 DEF Took
    <3> QED
      BY <1>1, <2>5, <3>1 DEF FeedReader
  <2>6. CASE /\ ~(line[1] = "event" /\ kinds[c] \in {"dashboard", "monitor"})
             /\ ~(line[1] = "vm" /\ kinds[c] = "dashboard") /\ ~(line[1] = "vm" /\ kinds[c] = "status")
             /\ ~(line[1] = "result" /\ kinds[c] = "command")
    <3>1. r2 = r
      BY <2>6 DEF Took
    <3> QED
      BY <1>1, <2>6, <3>1
  <2> QED
    BY <2>2, <2>3, <2>4, <2>5, <2>6
<1> HIDE DEF r2
<1>7. kinds[c] \in {"dashboard", "monitor"} /\ Complete(k, r, ring.total) => Complete(kept, r2, ring.total)
  <2>1. CASE line[1] = "event"
    BY <1>1, <1>2, <1>5, <1>6, <2>1, AnEventIsRead DEF line
  <2>2. CASE line[1] # "event"
    BY <1>1, <1>2, <1>5, <1>6, <2>2, AnotherLineIsRead DEF line
  <2> QED
    BY <2>1, <2>2
<1>8. kinds[c] = "dashboard" /\ Latest(k, r, vmLine) => Latest(kept, r2, vmLine)
  BY <1>1, <1>2, <1>5, <1>6, LatestIsRead DEF line
<1>9. NoConn \in Connection /\ NoConn.open = FALSE
  BY DEF NoConn, Connection
<1>10. k2 \in Connection /\ Owed(kinds[c], k2, r2, ring.total, vmLine)
  <2>1. CASE r2.at = "done"
    BY <1>9, <2>1 DEF Owed
  <2>2. CASE r2.at # "done"
    <3>1. k2 = kept
      BY <2>2
    <3> QED
      BY <1>1, <1>5, <1>7, <1>8, <3>1 DEF Owed
  <2> QED
    BY <2>1, <2>2
<1> HIDE DEF k2
<1> QED
  BY <1>2, <1>3, <1>6, <1>10, OneClientMoves

LEMMA LeaveKeepsTheFeed ==
  ASSUME FeedInOrder, NEW c \in Clients, Leave(c) PROVE FeedInOrder'
<1> DEFINE r2 == [NoReader EXCEPT !.at = "done", !.result = "left"]
<1>1. reader' = [reader EXCEPT ![c] = r2] /\ kinds' = kinds
  BY DEF Leave
<1>2. r2 \in FeedReader
  BY NoReaderIs DEF FeedReader
<1> HIDE DEF r2
<1>3. NoConn \in Connection /\ NoConn.open = FALSE
  BY DEF NoConn, Connection
<1>4. CASE UNCHANGED <<ring, vmLine, socket>> /\ conn' = [conn EXCEPT ![c] = NoConn]
  <2>1. Owed(kinds[c], NoConn, r2, ring.total, vmLine)
    BY <1>3 DEF Owed
  <2> QED
    BY <1>1, <1>2, <1>3, <1>4, <2>1, OneClientMoves
<1>5. CASE /\ ring' = FreshRing /\ vmLine' = 0
           /\ conn' = [k \in Clients |-> IF k = c THEN NoConn
                                         ELSE IF conn[k].open THEN Destroyed(conn[k], Len(conn[k].wire))
                                         ELSE conn[k]]
  <2>1. RingInOrder'
    BY <1>5, FreshRingInOrderNext
  <2>2. ASSUME NEW k \in Clients PROVE conn'[k] \in Connection /\ conn'[k].open = FALSE
    BY <1>3, <1>5, EndedIsClosed
  <2>3. conn' \in [Clients -> Connection]
    BY <1>5, <2>2
  <2>4. reader' \in [Clients -> FeedReader]
    BY <1>1, <1>2 DEF FeedInOrder
  <2> QED
    BY <1>1, <1>5, <2>1, <2>2, <2>3, <2>4 DEF FeedInOrder, Owed
<1>6. \/ UNCHANGED <<ring, vmLine, socket>> /\ conn' = [conn EXCEPT ![c] = NoConn]
      \/ /\ ring' = FreshRing /\ vmLine' = 0
         /\ conn' = [k \in Clients |-> IF k = c THEN NoConn
                                       ELSE IF conn[k].open THEN Destroyed(conn[k], Len(conn[k].wire))
                                       ELSE conn[k]]
  BY DEF Leave
<1> QED
  BY <1>4, <1>5, <1>6

LEMMA FeedKeeps ==
  ASSUME FeedInOrder, [FeedNext]_feedVars PROVE FeedInOrder'
<1>1. CASE UNCHANGED feedVars
  <2>1. ring' = ring /\ vmLine' = vmLine /\ kinds' = kinds /\ conn' = conn /\ reader' = reader
    BY <1>1 DEF feedVars
  <2>2. RingInOrder'
    BY <2>1 DEF FeedInOrder, RingInOrder
  <2> QED
    BY <2>1, <2>2 DEF FeedInOrder
<1>2. CASE FeedNext
  <2>1. \/ OpenSocket \/ Record \/ Transition \/ CloseSocket
        \/ \E c \in Clients : RunCommand(c) \/ Connect(c) \/ Read(c) \/ SeesClose(c) \/ Leave(c)
    BY <1>2 DEF FeedNext
  <2> QED
    BY <2>1, OpenSocketKeepsTheFeed, RecordKeepsTheFeed, TransitionKeepsTheFeed, CloseSocketKeepsTheFeed,
       RunCommandKeepsTheFeed, ConnectKeepsTheFeed, ReadKeepsTheFeed, SeesCloseKeepsTheFeed, LeaveKeepsTheFeed
<1> QED
  BY <1>1, <1>2

LEMMA FeedSays == FeedInOrder => FeedIsComplete /\ ConnectedSeesLatestVm
<1> SUFFICES ASSUME FeedInOrder PROVE FeedIsComplete /\ ConnectedSeesLatestVm
  OBVIOUS
<1>1. ASSUME NEW c \in Clients, kinds[c] \in {"dashboard", "monitor"}, conn[c].open
      PROVE  Complete(conn[c], reader[c], ring.total) /\ conn[c].sub \in BOOLEAN
  BY <1>1, FeedIs DEF Owed
<1>2. FeedIsComplete
  BY <1>1 DEF FeedIsComplete, Complete, Rising, EventNumbers
<1>3. ConnectedSeesLatestVm
  <2>1. ASSUME NEW c \in Clients, kinds[c] = "dashboard", conn[c].open
        PROVE  Latest(conn[c], reader[c], vmLine)
    BY <2>1, FeedIs DEF Owed
  <2> QED
    BY <2>1 DEF ConnectedSeesLatestVm, Latest
<1> QED
  BY <1>2, <1>3

-----------------------------------------------------------------------------
(* Doctor: a prediction of the boot.                                       *)

\* The scans are one: their keys are the same function of the same images.
LEMMA ScansAreOne ==
  /\ ScansAgree
  /\ PreflightGolden <=> LocatesGolden
<1>1. GoldenManifestExists = PreflightGolden
  BY DEF GoldenManifestExists, PreflightGolden, Newest, SectionsKey, PreflightKey
<1>2. PreflightGolden = LocatesGolden
  BY DEF LocatesGolden, PreflightGolden, Newest, ServiceKey, PreflightKey
<1>3. PreflightGolden = ListedNewest
  BY DEF ListedNewest, PreflightGolden, Newest, ManageKey, PreflightKey
<1>4. GoldenExists => NewestGoldenId = Newest(ServiceKey)
  BY DEF NewestGoldenId, Newest, ServiceKey, InstallKey, Readable
<1> QED
  BY <1>1, <1>2, <1>3, <1>4 DEF ScansAgree

\* Only the preflight can fail where the configuration resolves; where it does not, the
\* checks that resolve it fail, and are always present.
LEMMA ChecksFail ==
  ASSUME NEW resolved, NEW host
  PROVE  (\E c \in VmChecks : CheckPresent(c, resolved, host) /\ RunCheck(c, resolved, host) = "fail") <=>
           \/ resolved = {}
           \/ /\ GoldenExists \/ \E c \in resolved : c.mode # "off"
              /\ \E c \in resolved : ~VmPreflight(c, host)
<1> DEFINE Fails(c) == CheckPresent(c, resolved, host) /\ RunCheck(c, resolved, host) = "fail"
<1>1. \A c \in VmChecks : c # "vm-preflight" /\ resolved # {} => RunCheck(c, resolved, host) # "fail"
  BY DEF VmChecks, RunCheck, VmGoldenCheck, VmRamCheck, VmFootprintCheck, VmRootCheck
<1>3. resolved = {} => RunCheck("vm-preflight", resolved, host) = "fail"
  BY DEF RunCheck
<1>4. resolved # {} => RunCheck("vm-preflight", resolved, host) = VmPreflightCheck(resolved, host)
  BY DEF RunCheck
<1>5. VmPreflightCheck(resolved, host) = "fail" <=> \E c \in resolved : ~VmPreflight(c, host)
  BY DEF VmPreflightCheck
<1>6. CheckPresent("vm-preflight", resolved, host) <=>
        resolved = {} \/ (\E c \in resolved : c.mode # "off") \/ GoldenExists
  BY DEF CheckPresent
<1>7. "vm-preflight" \in VmChecks
  BY DEF VmChecks
<1> HIDE DEF Fails
<1>8. Fails("vm-preflight") <=>
           \/ resolved = {}
           \/ /\ GoldenExists \/ \E c \in resolved : c.mode # "off"
              /\ \E c \in resolved : ~VmPreflight(c, host)
  BY <1>3, <1>4, <1>5, <1>6 DEF Fails
<1>9. resolved # {} => \A c \in VmChecks : Fails(c) => c = "vm-preflight"
  BY <1>1 DEF Fails
<1>10. (\E c \in VmChecks : Fails(c)) <=> Fails("vm-preflight")
  BY <1>7, <1>8, <1>9
<1> QED
  BY <1>8, <1>10 DEF Fails

LEMMA DoctorIsRight ==
  ASSUME NEW resolved, NEW host
  PROVE  /\ MainFails(resolved, host) => DoctorFails(resolved, host) \/ host.lacks \in {"token", "port"}
         /\ DoctorFails(resolved, host) =>
              MainFails(resolved, host) \/ config.is = "corrupt" \/ host.lacks \in {"rg", "fd"}
         /\ ~DoctorFails(resolved, host) =>
              \A c \in resolved : c.mode # "off" /\ c.image = Blank => FindsItsImage(c)
<1>1. DoctorFails(resolved, host) <=>
        \/ config.is = "corrupt" \/ host.lacks \in {"rg", "fd"}
        \/ \E c \in VmChecks : CheckPresent(c, resolved, host) /\ RunCheck(c, resolved, host) = "fail"
  <2>1. (ConfigCheck = "fail") <=> config.is = "corrupt"
    BY DEF ConfigCheck
  <2>2. CredentialsCheck(host) # "fail" /\ JwtSecretCheck(host) # "fail"
    BY DEF CredentialsCheck, JwtSecretCheck
  <2>3. BinaryCheck("rg", host) = "fail" \/ BinaryCheck("fd", host) = "fail" <=> host.lacks \in {"rg", "fd"}
    BY DEF BinaryCheck
  <2>4. "fail" \in {RunCheck(c, resolved, host) : c \in {v \in VmChecks : CheckPresent(v, resolved, host)}} <=>
          \E c \in VmChecks : CheckPresent(c, resolved, host) /\ RunCheck(c, resolved, host) = "fail"
    OBVIOUS
  <2> QED
    BY <2>1, <2>2, <2>3, <2>4 DEF DoctorFails, Reports
<1>2. ASSUME NEW c PROVE ~VmPreflight(c, host) => c.mode # "off"
  BY SMTT(30) DEF VmPreflight
<1>3. ASSUME NEW c, c.mode # "off", ~LocatesGolden PROVE ~VmPreflight(c, host)
  BY <1>3, ScansAreOne, SMTT(30) DEF VmPreflight
<1>4. MainFails(resolved, host) <=>
        resolved = {} \/ (\E c \in resolved : ~VmPreflight(c, host)) \/ host.lacks \in {"token", "port"}
  BY <1>2 DEF MainFails
<1>5. (\E c \in VmChecks : CheckPresent(c, resolved, host) /\ RunCheck(c, resolved, host) = "fail") <=>
        resolved = {} \/ \E c \in resolved : ~VmPreflight(c, host)
  BY <1>2, ChecksFail
<1>6. ASSUME NEW c \in resolved, ~DoctorFails(resolved, host), c.mode # "off", c.image = Blank
      PROVE  FindsItsImage(c)
  <2>1. VmPreflight(c, host)
    BY <1>1, <1>5, <1>6
  <2>2. LocatesGolden
    BY <1>3, <1>6, <2>1
  <2> QED
    BY <1>6, <2>2 DEF FindsItsImage
<1> QED
  BY <1>1, <1>4, <1>5, <1>6

LEMMA DoctorForetellsAnyBoot == DoctorForetellsBoot
BY DoctorIsRight DEF DoctorForetellsBoot

-----------------------------------------------------------------------------
(* Channels: the default is one of them.                                   *)

ChannelEntry == [id : ChannelIds, kind : ChannelKinds, options : SUBSET {"authtoken", "publicUrl", "upstream"}]
DefaultIsThere(s) == s.default # "none" => s.default \in IdsOf(s)
Filed == {s \in [channels : Seq(ChannelEntry), default : ChannelIds \cup {"none"}] : DefaultIsThere(s)}

ChannelsAreFiled ==
  /\ entries \in Filed
  /\ edit \in [copy : Filed, cli : Filed \cup {NoAdd}, dashboard : Filed \cup {NoAdd}]

LEMMA NoChannelsFiled == NoChannels \in Filed
<1>1. <<>> \in Seq(ChannelEntry)
  BY EmptySeq
<1> QED
  BY <1>1 DEF NoChannels, Filed, DefaultIsThere

LEMMA ChannelsStartFiled == ChannelsInit => ChannelsAreFiled
<1> SUFFICES ASSUME ChannelsInit PROVE ChannelsAreFiled
  OBVIOUS
<1>1. PICK ids \in {<<>>} \cup {<<id>> : id \in ChannelIds}
                \cup {p \in ChannelIds \X ChannelIds : p[1] # p[2]},
          kind \in ChannelKinds, options \in {{}, {"publicUrl"}} :
        entries = IF ids = <<>> THEN NoChannels
                  ELSE [channels |-> [i \in DOMAIN ids |-> Entry(ids[i], kind, options)], default |-> ids[1]]
  BY DEF ChannelsInit
<1>2. ASSUME ids = <<>> PROVE entries \in Filed
  BY <1>1, <1>2, NoChannelsFiled
<1>3. ASSUME ids # <<>> PROVE entries \in Filed
  <2>1. /\ DOMAIN ids = 1 .. Len(ids) /\ Len(ids) \in Nat /\ 1 \in DOMAIN ids
        /\ \A i \in DOMAIN ids : ids[i] \in ChannelIds
    BY <1>3
  <2> DEFINE chs == [i \in DOMAIN ids |-> Entry(ids[i], kind, options)]
  <2>2. chs \in Seq(ChannelEntry)
    <3>1. \A i \in DOMAIN ids : Entry(ids[i], kind, options) \in ChannelEntry
      BY <2>1 DEF Entry, ChannelEntry
    <3> QED
      BY <2>1, <3>1, IsASeq
  <2>3. DOMAIN chs = DOMAIN ids /\ chs[1].id = ids[1]
    BY <2>1 DEF Entry
  <2>4. entries.channels = chs /\ entries.default = ids[1]
        /\ entries = [channels |-> chs, default |-> ids[1]]
    BY <1>1, <1>3
  <2> HIDE DEF chs
  <2>5. ids[1] \in IdsOf(entries)
    BY <2>1, <2>3, <2>4 DEF IdsOf
  <2> QED
    BY <2>1, <2>2, <2>4, <2>5 DEF Filed, DefaultIsThere
<1>4. entries \in Filed
  BY <1>2, <1>3
<1> QED
  BY <1>4 DEF ChannelsInit, ChannelsAreFiled

LEMMA RemovedFiled ==
  ASSUME NEW s \in Filed, NEW id \in IdsOf(s)
  PROVE  removeChannel(s, id) \in Filed
<1> DEFINE at == CHOOSE i \in DOMAIN s.channels : s.channels[i].id = id
           rest == RemoveAt(s.channels, at)
           n == Len(s.channels)
<1>1. s.channels \in Seq(ChannelEntry) /\ DefaultIsThere(s) /\ s.default \in ChannelIds \cup {"none"}
  BY DEF Filed
<1>2. n \in Nat /\ DOMAIN s.channels = 1 .. n
  BY <1>1, LenProperties
<1>3. at \in 1 .. n /\ s.channels[at].id = id
  BY <1>2 DEF IdsOf
<1> HIDE DEF at
<1>4. /\ rest \in Seq(ChannelEntry)
      /\ Len(rest) = n - 1
      /\ \A i \in 1 .. n - 1 : rest[i] = IF i < at THEN s.channels[i] ELSE s.channels[i + 1]
  <2> DEFINE a == SubSeq(s.channels, 1, at - 1)
             b == SubSeq(s.channels, at + 1, n)
  <2>1. /\ a \in Seq(ChannelEntry) /\ Len(a) = at - 1
        /\ \A i \in 1 .. at - 1 : a[i] = s.channels[i]
    BY <1>1, <1>2, <1>3, SubSeqProperties
  <2>2. /\ b \in Seq(ChannelEntry) /\ Len(b) = n - at
        /\ \A i \in 1 .. n - at : b[i] = s.channels[at + i]
    BY <1>1, <1>2, <1>3, SubSeqProperties
  <2>3. rest = a \o b
    BY DEF RemoveAt
  <2> HIDE DEF a, b, rest
  <2>4. /\ a \o b \in Seq(ChannelEntry) /\ Len(a \o b) = Len(a) + Len(b)
        /\ \A i \in 1 .. Len(a) + Len(b) :
             (a \o b)[i] = IF i <= Len(a) THEN a[i] ELSE b[i - Len(a)]
    BY <2>1, <2>2, ConcatProperties
  <2>5. Len(rest) = n - 1 /\ rest \in Seq(ChannelEntry)
    BY <1>2, <1>3, <2>1, <2>2, <2>3, <2>4
  <2>6. ASSUME NEW i \in 1 .. n - 1
        PROVE  rest[i] = IF i < at THEN s.channels[i] ELSE s.channels[i + 1]
    <3>1. i \in 1 .. Len(a) + Len(b)
      BY <1>2, <1>3, <2>1, <2>2
    <3>2. CASE i < at
      <4>1. i <= Len(a) /\ i \in 1 .. at - 1
        BY <1>2, <1>3, <2>1, <3>2
      <4> QED
        BY <2>1, <2>3, <2>4, <3>1, <3>2, <4>1
    <3>3. CASE ~(i < at)
      <4>1. ~(i <= Len(a)) /\ i - Len(a) \in 1 .. n - at /\ at + (i - Len(a)) = i + 1
        BY <1>2, <1>3, <2>1, <3>3
      <4> QED
        BY <2>2, <2>3, <2>4, <3>1, <3>3, <4>1
    <3> QED
      BY <3>2, <3>3
  <2> QED
    BY <2>5, <2>6
<1> HIDE DEF rest
<1> DEFINE r == removeChannel(s, id)
<1>5. r = [channels |-> rest, default |-> IF s.default = id THEN "none" ELSE s.default]
  BY DEF removeChannel, rest, at
<1>6. r.channels = rest /\ r.default = IF s.default = id THEN "none" ELSE s.default
  BY <1>5
<1>7. ASSUME s.default # "none", s.default # id PROVE s.default \in IdsOf(r)
  <2>1. PICK j \in 1 .. n : s.channels[j].id = s.default
    BY <1>1, <1>2, <1>7 DEF DefaultIsThere, IdsOf
  <2>2. j # at
    BY <1>3, <1>7, <2>1
  <2>3. PICK k \in 1 .. n - 1 : rest[k] = s.channels[j]
    <3>1. CASE j < at
      BY <1>2, <1>3, <1>4, <2>1, <3>1
    <3>2. CASE j > at
      <4>1. j - 1 \in 1 .. n - 1 /\ ~(j - 1 < at) /\ (j - 1) + 1 = j
        BY <1>2, <1>3, <2>1, <3>2
      <4> QED
        BY <1>4, <4>1
    <3> QED
      BY <1>2, <1>3, <2>1, <2>2, <3>1, <3>2
  <2>4. DOMAIN rest = 1 .. n - 1
    BY <1>4, LenProperties
  <2> QED
    BY <1>6, <2>1, <2>3, <2>4 DEF IdsOf
<1>8. r \in [channels : Seq(ChannelEntry), default : ChannelIds \cup {"none"}]
  BY <1>1, <1>4, <1>5
<1>9. DefaultIsThere(r)
  BY <1>6, <1>7 DEF DefaultIsThere
<1> HIDE DEF r
<1>10. r \in Filed
  BY <1>8, <1>9 DEF Filed
<1> QED
  BY <1>10 DEF r

LEMMA AddedFiled ==
  ASSUME NEW s \in Filed, NEW e \in ChannelEntry, NEW def \in {e.id, s.default}
  PROVE  [channels |-> Append(s.channels, e), default |-> def] \in Filed
<1> DEFINE r == [channels |-> Append(s.channels, e), default |-> def]
           n == Len(s.channels)
<1>1. s.channels \in Seq(ChannelEntry) /\ DefaultIsThere(s) /\ s.default \in ChannelIds \cup {"none"}
  BY DEF Filed
<1>2. n \in Nat /\ DOMAIN s.channels = 1 .. n
  BY <1>1, LenProperties
<1>3. /\ Append(s.channels, e) \in Seq(ChannelEntry) /\ Len(Append(s.channels, e)) = n + 1
      /\ \A i \in 1 .. n : Append(s.channels, e)[i] = s.channels[i]
      /\ Append(s.channels, e)[n + 1] = e
  BY <1>1, AppendProperties
<1>4. DOMAIN Append(s.channels, e) = 1 .. n + 1
  BY <1>3, LenProperties
<1>5. r.channels = Append(s.channels, e) /\ r.default = def
  OBVIOUS
<1>6. e.id \in ChannelIds
  BY DEF ChannelEntry
<1> HIDE DEF r, n
<1>7. e.id \in IdsOf(r)
  <2>1. n + 1 \in DOMAIN r.channels /\ r.channels[n + 1].id = e.id
    BY <1>2, <1>3, <1>4, <1>5
  <2> QED
    BY <2>1 DEF IdsOf
<1>8. IdsOf(s) \subseteq IdsOf(r)
  <2>1. ASSUME NEW i \in 1 .. n PROVE i \in DOMAIN r.channels /\ r.channels[i].id = s.channels[i].id
    BY <1>2, <1>3, <1>4, <1>5
  <2> QED
    BY <1>2, <2>1 DEF IdsOf
<1>9. DefaultIsThere(r)
  BY <1>1, <1>5, <1>7, <1>8 DEF DefaultIsThere
<1>10. r \in [channels : Seq(ChannelEntry), default : ChannelIds \cup {"none"}]
  BY <1>1, <1>3, <1>6 DEF r
<1>11. r \in Filed
  BY <1>9, <1>10 DEF Filed
<1> QED
  BY <1>11 DEF r

LEMMA UsedFiled ==
  ASSUME NEW s \in Filed, NEW id \in IdsOf(s)
  PROVE  setDefaultChannel(s, id) \in Filed
<1>1. s.channels \in Seq(ChannelEntry) /\ s \in [channels : Seq(ChannelEntry), default : ChannelIds \cup {"none"}]
  BY DEF Filed
<1>2. PICK i \in DOMAIN s.channels : s.channels[i].id = id
  BY DEF IdsOf
<1>3. id \in ChannelIds
  <2>1. s.channels[i] \in ChannelEntry
    BY <1>1, <1>2, ElementOfSeq, LenProperties
  <2> QED
    BY <1>2, <2>1 DEF ChannelEntry
<1> DEFINE r == setDefaultChannel(s, id)
<1>4. r \in [channels : Seq(ChannelEntry), default : ChannelIds \cup {"none"}]
      /\ r.channels = s.channels /\ r.default = id
  BY <1>1, <1>3 DEF setDefaultChannel
<1> HIDE DEF r
<1>5. IdsOf(r) = IdsOf(s)
  BY <1>4 DEF IdsOf
<1>6. r \in Filed
  BY <1>4, <1>5 DEF Filed, DefaultIsThere
<1> QED
  BY <1>6 DEF r

Editors == {"cli", "dashboard"}

LEMMA PersistsFiled ==
  ASSUME ChannelsAreFiled, NEW who \in Editors, NEW s \in Filed, Persist(who, s)
  PROVE  ChannelsAreFiled'
<1>1. entries' = s /\ entries' \in Filed
  BY DEF Persist
<1>2. CASE who = "cli"
  <2>1. edit' = [edit EXCEPT !.cli = NoAdd]
    BY <1>2 DEF Persist
  <2> QED
    BY <1>1, <2>1 DEF ChannelsAreFiled
<1>3. CASE who = "dashboard"
  <2>1. edit' = [edit EXCEPT !.copy = s, !.dashboard = NoAdd]
    BY <1>3 DEF Persist
  <2> QED
    BY <1>1, <2>1 DEF ChannelsAreFiled
<1> QED
  BY <1>2, <1>3 DEF Editors

LEMMA AddsFiled ==
  ASSUME ChannelsAreFiled, NEW who \in Editors, NEW seed \in Filed, NEW kind \in ChannelKinds,
         NEW answers \in SUBSET Fields(kind), NEW force \in BOOLEAN,
         addChannel(who, seed, kind, answers, force)
  PROVE  ChannelsAreFiled'
<1>1. PICK id \in ChannelIds \ minted.ids :
        Persist(who,
          [channels |-> Append(seed.channels, Entry(id, kind, answers \ Secret)),
           default  |-> IF seed.channels = <<>> \/ force THEN id ELSE seed.default])
  BY DEF addChannel
<1> DEFINE e == Entry(id, kind, answers \ Secret)
           def == IF seed.channels = <<>> \/ force THEN id ELSE seed.default
<1>2. answers \ Secret \subseteq {"authtoken", "publicUrl", "upstream"}
  BY DEF Fields, staticFields, ChannelKinds
<1>3. e \in ChannelEntry /\ e.id = id
  BY <1>2 DEF Entry, ChannelEntry
<1>4. def \in {e.id, seed.default}
  BY <1>3
<1> HIDE DEF e, def
<1>5. [channels |-> Append(seed.channels, e), default |-> def] \in Filed
  BY <1>3, <1>4, AddedFiled
<1>6. Persist(who, [channels |-> Append(seed.channels, e), default |-> def])
  BY <1>1 DEF e, def
<1> HIDE <1>1
<1> QED
  BY <1>5, <1>6, PersistsFiled

LEMMA ChannelsKeepFiled ==
  ASSUME ChannelsAreFiled, [ChannelsNext]_channelVars
  PROVE  ChannelsAreFiled'
<1>1. ASSUME NEW who \in Editors
      PROVE  /\ SettingsOf(who) \in Filed
             /\ edit[who] # NoAdd => edit[who] \in Filed
  <2>1. edit["cli"] = edit.cli /\ edit["dashboard"] = edit.dashboard
    OBVIOUS
  <2> QED
    BY <2>1 DEF ChannelsAreFiled, SettingsOf, Editors
<1>2. ASSUME NEW who \in Editors, StartAdd(who) PROVE ChannelsAreFiled'
  <2>1. edit' = [edit EXCEPT ![who] = SettingsOf(who)] /\ entries' = entries
    BY <1>2 DEF StartAdd
  <2>2. edit' \in [copy : Filed, cli : Filed \cup {NoAdd}, dashboard : Filed \cup {NoAdd}]
    BY <1>1, <2>1 DEF ChannelsAreFiled, Editors
  <2> QED
    BY <2>1, <2>2 DEF ChannelsAreFiled
<1>3. ASSUME NEW who \in Editors, ChannelAnswered(who) PROVE ChannelsAreFiled'
  <2>1. PICK kind \in ChannelKinds : \E answers \in SUBSET Fields(kind) :
          addChannel(who, edit[who], kind, answers, FALSE)
    BY <1>3 DEF ChannelAnswered
  <2>2. edit[who] \in Filed
    BY <1>1, <1>3 DEF ChannelAnswered
  <2> QED
    BY <2>1, <2>2, AddsFiled
<1>4. ASSUME NEW who \in Editors, ChannelDropped(who) PROVE ChannelsAreFiled'
  <2>1. edit' = [edit EXCEPT ![who] = NoAdd] /\ entries' = entries
    BY <1>4 DEF ChannelDropped
  <2>2. edit' \in [copy : Filed, cli : Filed \cup {NoAdd}, dashboard : Filed \cup {NoAdd}]
    BY <2>1 DEF ChannelsAreFiled, Editors
  <2> QED
    BY <2>1, <2>2 DEF ChannelsAreFiled
<1>5. ASSUME NEW who \in Editors, RemoveEntry(who) PROVE ChannelsAreFiled'
  <2>1. PICK id \in IdsOf(SettingsOf(who)) : Persist(who, removeChannel(SettingsOf(who), id))
    BY <1>5 DEF RemoveEntry
  <2>2. removeChannel(SettingsOf(who), id) \in Filed
    BY <1>1, RemovedFiled
  <2> QED
    BY <2>1, <2>2, PersistsFiled
<1>6. ASSUME NEW who \in Editors, UseEntry(who) PROVE ChannelsAreFiled'
  <2>1. PICK id \in IdsOf(SettingsOf(who)) : Persist(who, setDefaultChannel(SettingsOf(who), id))
    BY <1>6 DEF UseEntry
  <2>2. setDefaultChannel(SettingsOf(who), id) \in Filed
    BY <1>1, UsedFiled
  <2> QED
    BY <2>1, <2>2, PersistsFiled
<1>7. ASSUME addChannelFlags PROVE ChannelsAreFiled'
  <2>1. PICK kind \in ChannelKinds, force \in BOOLEAN :
          \E answers \in SUBSET Fields(kind) : addChannel("cli", entries, kind, answers, force)
    BY <1>7 DEF addChannelFlags
  <2>2. "cli" \in Editors /\ entries \in Filed
    BY DEF Editors, ChannelsAreFiled
  <2> QED
    BY <2>1, <2>2, AddsFiled
<1>8. CASE UNCHANGED channelVars
  BY <1>8 DEF channelVars, ChannelsAreFiled
<1> QED
  BY <1>2, <1>3, <1>4, <1>5, <1>6, <1>7, <1>8 DEF ChannelsNext, Editors

\* What doctor asks of the default channel is what a boot asks of it.
LEMMA VerdictIsTheBoots ==
  ASSUME NEW host, NEW entry
  PROVE  LET boots == CASE entry.kind = "ngrok" -> NgrokStarts(mergeOptions(entry), host)
                        [] entry.kind = "cloudflare" -> CloudflareStarts(host)
                        [] OTHER -> StaticResolves(mergeOptions(entry))
         IN /\ ChannelCheck(entry, host) = "pass" => boots \/ ~host.edge
            /\ Mode(entry.kind) = "live" /\ boots => ChannelCheck(entry, host) = "pass"
<1>1. mergeOptions(entry) = entry.options \cup getCredentials(entry.id)
  BY DEF mergeOptions
<1>2. CASE entry.kind = "ngrok"
  BY <1>1, <1>2 DEF ChannelCheck, Mode, isAvailable, NgrokStarts
<1>3. CASE entry.kind = "cloudflare"
  BY <1>1, <1>3 DEF ChannelCheck, Mode, isAvailable, CloudflareStarts
<1>4. CASE entry.kind # "ngrok" /\ entry.kind # "cloudflare"
  BY <1>1, <1>4 DEF ChannelCheck, Mode, StaticProbe, StaticResolves
<1> QED
  BY <1>2, <1>3, <1>4

LEMMA DoctorForetellsTheChannel == ChannelsAreFiled => DoctorForetellsChannel
<1> SUFFICES ASSUME ChannelsAreFiled, NEW host \in Networks, entries.default # "none"
             PROVE  /\ entries.default \in IdsOf(entries)
                    /\ LET entry == EntryOf(entries, entries.default) IN
                         /\ ChannelCheck(entry, host) = "pass" => ChannelBoots(host) \/ ~host.edge
                         /\ Mode(entry.kind) = "live" /\ ChannelBoots(host) => ChannelCheck(entry, host) = "pass"
  BY DEF DoctorForetellsChannel
<1>1. entries.default \in IdsOf(entries)
  BY DEF ChannelsAreFiled, Filed, DefaultIsThere
<1>2. PICK entry : entry = EntryOf(entries, entries.default)
  OBVIOUS
<1>3. ChannelBoots(host) <=> CASE entry.kind = "ngrok" -> NgrokStarts(mergeOptions(entry), host)
                               [] entry.kind = "cloudflare" -> CloudflareStarts(host)
                               [] OTHER -> StaticResolves(mergeOptions(entry))
  BY <1>1, <1>2 DEF ChannelBoots
<1> QED
  BY <1>1, <1>2, <1>3, VerdictIsTheBoots

-----------------------------------------------------------------------------
(* The forms: what was saved loads back.                                   *)

IsSettings(s) == s = [channels |-> s.channels, clients |-> s.clients, vm |-> s.vm]
Sane(s) == IsSettings(s) /\ IsVmSettings(s.vm)

\* What is loaded, and so every form's seed, is valid; so is what was saved.
SavedIsSane ==
  /\ config.is = "document" => IsSettings(config.settings)
  /\ form # NoForm => Sane(form.seed)
  /\ saves > 0 => config = Document(lastSave.settings) /\ Sane(lastSave.settings)

LEMMA DefaultIsSane == Sane(DefaultSettings) /\ IsVmSettings(DefaultVm)
<1>1. IsVmSettings(DefaultVm)
  BY DEF IsVmSettings, DefaultVm, VmModes, VmPersist
<1>2. IsSettings(DefaultSettings) /\ DefaultSettings.vm = DefaultVm
  BY DEF IsSettings, DefaultSettings
<1> QED
  BY <1>1, <1>2 DEF Sane

LEMMA LoadIsSane ==
  ASSUME config.is = "document" => IsSettings(config.settings)
  PROVE  Sane(LoadSettings)
<1>1. CASE config.is = "document"
  <2> DEFINE s == config.settings
             vm == IF IsVmSettings(s.vm) THEN s.vm ELSE DefaultVm
  <2>1. IsVmSettings(vm)
    BY DefaultIsSane
  <2>2. LoadSettings = [s EXCEPT !.vm = vm]
    BY <1>1 DEF LoadSettings
  <2>3. s = [channels |-> s.channels, clients |-> s.clients, vm |-> s.vm]
    BY <1>1 DEF IsSettings
  <2> HIDE DEF s, vm
  <2>4. LoadSettings = [channels |-> s.channels, clients |-> s.clients, vm |-> vm]
    BY <2>2, <2>3
  <2>5. IsSettings(LoadSettings) /\ LoadSettings.vm = vm
    BY <2>4 DEF IsSettings
  <2> QED
    BY <2>1, <2>5 DEF Sane
<1>2. CASE config.is # "document"
  BY <1>2, DefaultIsSane DEF LoadSettings
<1> QED
  BY <1>1, <1>2

LEMMA SaneLoadsBack ==
  ASSUME NEW s, Sane(s), config = Document(s)
  PROVE  LoadSettings = s
<1>1. config.is = "document" /\ config.settings = s
  BY DEF Document
<1>2. LoadSettings = [s EXCEPT !.vm = s.vm]
  BY <1>1 DEF LoadSettings, Sane
<1>3. s = [channels |-> s.channels, clients |-> s.clients, vm |-> s.vm]
  BY DEF Sane, IsSettings
<1> QED
  BY <1>2, <1>3

\* trim() once more changes nothing.
LEMMA TrimIsDone == ASSUME NEW e PROVE Trim(Trim(e)) = Trim(e)
BY DEF Trim

LEMMA TrimmedOne == ASSUME NEW e PROVE Trimmed(<<e>>) = <<Trim(e)>>
<1>1. DOMAIN <<e>> = {1} /\ <<e>>[1] = e
  OBVIOUS
<1>2. DOMAIN <<Trim(e)>> = {1} /\ <<Trim(e)>>[1] = Trim(e)
  OBVIOUS
<1>3. <<Trim(e)>> = [i \in {1} |-> Trim(e)]
  BY <1>2
<1>4. Trimmed(<<e>>) = [i \in {1} |-> Trim(<<e>>[i])]
  BY <1>1 DEF Trimmed
<1> QED
  BY <1>1, <1>3, <1>4

\* The answers that reach a section's write: a text of one entry is a command
\* or blank.
IsCommand(text) == Trimmed(text) = Blank \/ Trim(text[1]) # ""

LEMMA OneEntryIsCommand == ASSUME NEW e PROVE IsCommand(<<e>>)
<1>1. Trimmed(<<e>>) = <<Trim(e)>> /\ <<e>>[1] = e
  BY TrimmedOne
<1>2. CASE Trim(e) = ""
  BY <1>1, <1>2 DEF IsCommand, Blank
<1>3. CASE Trim(e) # ""
  BY <1>1, <1>3 DEF IsCommand
<1> QED
  BY <1>2, <1>3

LEMMA NumbersAreNumbers ==
  ASSUME NEW text, NEW n \in IntegerOf(text)
  PROVE  n \in Int
BY DEF IntegerOf

LEMMA IntAnswerFits ==
  ASSUME NEW text, NEW fallback, NEW min \in Int, NEW n \in VmIntField(text, fallback, min)
  PROVE  n = fallback \/ (n \in Int /\ n >= min)
BY NumbersAreNumbers DEF VmIntField

LEMMA SelectAnswerFits ==
  ASSUME NEW text, NEW allowed, NEW fallback \in allowed, NEW v \in VmSelectValue(text, allowed, fallback)
  PROVE  v \in allowed
BY DEF VmSelectValue

LEMMA WrittenIsSane ==
  ASSUME NEW section, NEW before, Sane(before), NEW vals,
         section # "mcp" => IsCommand(vals.agentCmd),
         NEW s \in WriteSection(before, section, vals)
  PROVE  Sane(s)
<1>0. before = [channels |-> before.channels, clients |-> before.clients, vm |-> before.vm]
      /\ IsVmSettings(before.vm)
  BY DEF Sane, IsSettings
<1>1. CASE section = "mcp"
  <2>1. s = [before EXCEPT !.clients = EntriesOf(vals.allowedClients)]
    BY <1>1 DEF WriteSection
  <2>2. PICK c : c = EntriesOf(vals.allowedClients)
    OBVIOUS
  <2>3. s = [channels |-> before.channels, clients |-> c, vm |-> before.vm]
    BY <1>0, <2>1, <2>2
  <2> QED
    BY <1>0, <2>3 DEF Sane, IsSettings
<1>2. CASE section # "mcp"
  <2> DEFINE New(m, a, c, p, t) ==
               [before EXCEPT !.vm =
                 [mode |-> m, memoryMb |-> a, cpus |-> c, persist |-> p, idleTimeoutMs |-> t,
                  agentCmd |-> VmAnswer(vals.agentCmd, before.vm.agentCmd),
                  secretsDir |-> VmAnswer(vals.secretsDir, NoDir)]]
             Allowed == {m \in VmSelectValue(vals.mode, VmModes, before.vm.mode) :
                          m = "off" \/ GoldenManifestExists}
             Memories == VmIntField(vals.memoryMb, before.vm.memoryMb, 1)
             Cpus == VmIntField(vals.cpus, before.vm.cpus, 1)
             Persists == VmSelectValue(vals.persist, VmPersist, before.vm.persist)
             Idles == VmIntField(vals.idleTimeoutMs, before.vm.idleTimeoutMs, 0)
  <2>0. s \in {New(m, a, c, p, t) : m \in Allowed, a \in Memories, c \in Cpus, p \in Persists, t \in Idles}
    BY <1>2 DEF WriteSection
  <2> HIDE DEF New, Allowed, Memories, Cpus, Persists, Idles
  <2>1. PICK mode \in Allowed, memory \in Memories, cpus \in Cpus, persist \in Persists, idle \in Idles :
          s = New(mode, memory, cpus, persist, idle)
    BY <2>0
  <2> USE DEF New, Allowed, Memories, Cpus, Persists, Idles
  <2>2. mode \in VmModes /\ persist \in VmPersist
    BY <1>0, SelectAnswerFits DEF IsVmSettings
  <2>3. memory > 0
    <3>1. memory = before.vm.memoryMb \/ (memory \in Int /\ memory >= 1)
      BY IntAnswerFits
    <3>2. before.vm.memoryMb > 0
      BY <1>0 DEF IsVmSettings
    <3>3. CASE memory = before.vm.memoryMb
      BY <3>2, <3>3
    <3>4. CASE memory \in Int /\ memory >= 1
      BY <3>4
    <3> QED
      BY <3>1, <3>3, <3>4
  <2>4. cpus > 0
    <3>1. cpus = before.vm.cpus \/ (cpus \in Int /\ cpus >= 1)
      BY IntAnswerFits
    <3>2. before.vm.cpus > 0
      BY <1>0 DEF IsVmSettings
    <3>3. CASE cpus = before.vm.cpus
      BY <3>2, <3>3
    <3>4. CASE cpus \in Int /\ cpus >= 1
      BY <3>4
    <3> QED
      BY <3>1, <3>3, <3>4
  <2>5. idle >= 0
    <3>1. idle = before.vm.idleTimeoutMs \/ (idle \in Int /\ idle >= 0)
      BY IntAnswerFits
    <3> QED
      BY <1>0, <3>1 DEF IsVmSettings
  <2>6. PICK cmd : cmd = VmAnswer(vals.agentCmd, before.vm.agentCmd)
    OBVIOUS
  <2>7. cmd # ""
    BY <1>0, <1>2, <2>6 DEF VmAnswer, IsVmSettings, IsCommand
  <2>8. PICK dir_ : dir_ = VmAnswer(vals.secretsDir, NoDir)
    OBVIOUS
  <2> DEFINE vm == [mode |-> mode, memoryMb |-> memory, cpus |-> cpus, persist |-> persist,
                    idleTimeoutMs |-> idle, agentCmd |-> cmd, secretsDir |-> dir_]
  <2>9. IsVmSettings(vm)
    BY <2>2, <2>3, <2>4, <2>5, <2>7 DEF IsVmSettings
  <2>10. s = [before EXCEPT !.vm = vm]
    BY <2>1, <2>6, <2>8
  <2> HIDE DEF vm
  <2>11. s = [channels |-> before.channels, clients |-> before.clients, vm |-> vm]
    BY <1>0, <2>10
  <2> QED
    BY <2>9, <2>11 DEF Sane, IsSettings
<1> QED
  BY <1>1, <1>2

\* The command of the agent as the form has it: what was typed, or the seed.
LEMMA AgentCmdIsThere ==
  ASSUME NEW before, Sane(before), NEW raw, NEW key, NEW text, text \in Typed(key),
         NEW section, section # "mcp", NEW fields, fields = Seeded(VmFields, ReadSection(before, section)),
         raw = TerminalAnswers(fields, key, text) \/ raw = FlagAnswers(fields, key, text)
  PROVE  IsCommand(Reduced(fields, raw).agentCmd)
<1>1. before.vm.agentCmd # ""
  BY DEF Sane, IsVmSettings
<1>2. "agentCmd" \in DOMAIN VmFields /\ VmFields.agentCmd = TextField
  BY DEF VmFields
<1>3. DOMAIN fields = DOMAIN VmFields
  BY DEF Seeded
<1>4. /\ fields["agentCmd"].kind = "text"
      /\ fields["agentCmd"].default \in {NoDefault, <<before.vm.agentCmd>>}
  <2>1. ReadSection(before, section) = [k \in DOMAIN before.vm |-> IF k \in {"memoryMb", "cpus", "idleTimeoutMs"}
                              THEN <<Numeral(before.vm[k])>> ELSE <<before.vm[k]>>]
    BY DEF ReadSection
  <2>2. "agentCmd" \in DOMAIN ReadSection(before, section) => ReadSection(before, section)["agentCmd"] = <<before.vm.agentCmd>>
    BY <2>1
  <2>3. fields["agentCmd"] = IF "agentCmd" \in DOMAIN ReadSection(before, section)
                             THEN [TextField EXCEPT !.default = ReadSection(before, section)["agentCmd"]] ELSE TextField
    BY <1>2 DEF Seeded
  <2> QED
    BY <2>2, <2>3 DEF TextField
<1>5. raw["agentCmd"] \in {Blank, <<"other">>, <<before.vm.agentCmd>>}
  <2>1. key = "agentCmd" => text \in {Blank, <<"other">>}
    BY DEF Typed
  <2>2. Untouched(fields["agentCmd"]) \in {Blank, <<before.vm.agentCmd>>}
    BY <1>4 DEF Untouched
  <2>3. raw["agentCmd"] = IF key = "agentCmd" THEN text ELSE Untouched(fields["agentCmd"])
    BY <1>2, <1>3, <1>4 DEF TerminalAnswers, FlagAnswers
  <2> QED
    BY <2>1, <2>2, <2>3
<1>6. Reduced(fields, raw)["agentCmd"] =
        IF Trimmed(raw["agentCmd"]) # Blank THEN Trimmed(raw["agentCmd"])
        ELSE IF fields["agentCmd"].default # NoDefault THEN fields["agentCmd"].default ELSE Blank
  BY <1>2, <1>3 DEF Reduced
<1>7. Trimmed(raw["agentCmd"]) \in {<<Trim("")>>, <<Trim("other")>>, <<Trim(before.vm.agentCmd)>>}
  BY <1>5, TrimmedOne DEF Blank
<1>8. Reduced(fields, raw).agentCmd \in {<<Trim("")>>, <<Trim("other")>>, <<Trim(before.vm.agentCmd)>>,
                                         <<before.vm.agentCmd>>, <<"">>}
  BY <1>4, <1>6, <1>7 DEF Blank
<1> QED
  BY <1>8, OneEntryIsCommand

LEMMA SavesAreSane ==
  ASSUME SavedIsSane, NEW section, NEW key, NEW before, Sane(before), NEW raw,
         section # "mcp" =>
           IsCommand(Reduced(Seeded(FieldsOf(section), ReadSection(before, section)), raw).agentCmd),
         SaveSettings(section, key, before, raw)
  PROVE  config' = Document(lastSave'.settings) /\ Sane(lastSave'.settings)
<1> DEFINE vals == Reduced(Seeded(FieldsOf(section), ReadSection(before, section)), raw)
<1>1. PICK s \in WriteSection(before, section, vals) :
        /\ config' = Document(s)
        /\ lastSave' = [section |-> section, key |-> key, before |-> before, settings |-> s]
  BY DEF SaveSettings
<1>2. section # "mcp" => IsCommand(vals.agentCmd)
  OBVIOUS
<1> HIDE DEF vals
<1>3. Sane(s)
  BY <1>2, WrittenIsSane
<1>4. lastSave'.settings = s
  BY <1>1
<1> QED
  BY <1>1, <1>3, <1>4

LEMMA SettingsStartSane == SettingsInit => SavedIsSane
<1> SUFFICES ASSUME SettingsInit PROVE SavedIsSane
  OBVIOUS
<1>1. form = NoForm /\ saves = 0
  BY DEF SettingsInit
<1>2. PICK s \in {DefaultSettings,
               [DefaultSettings EXCEPT !.channels = "pub", !.clients = <<"a">>,
                                       !.vm.agentCmd = " other", !.vm.secretsDir = " "],
               [DefaultSettings EXCEPT !.vm.agentCmd = " ", !.vm.secretsDir = " other"],
               [DefaultSettings EXCEPT !.channels = "pub", !.vm.mode = "on"]} :
        config \in {Document(s), NoDocument("absent"), NoDocument("corrupt")}
  BY DEF SettingsInit
<1>3. IsSettings(s)
  BY DEF IsSettings, DefaultSettings
<1>4. config.is = "document" => config.settings = s
  BY <1>2 DEF Document, NoDocument
<1> QED
  BY <1>1, <1>3, <1>4 DEF SavedIsSane

LEMMA SettingsKeepSane ==
  ASSUME SavedIsSane, [SettingsNext]_<<config, form, saves, lastSave>>
  PROVE  SavedIsSane'
<1>1. Sane(LoadSettings)
  BY LoadIsSane DEF SavedIsSane
<1>2. ASSUME NEW section \in {"mcp", "vm"}, OpenSection(section) PROVE SavedIsSane'
  <2>1. form' = [section |-> section, seed |-> LoadSettings] /\ UNCHANGED <<config, saves, lastSave>>
    BY <1>2 DEF OpenSection
  <2>2. form'.seed = LoadSettings
    BY <2>1
  <2> QED
    BY <1>1, <2>1, <2>2 DEF SavedIsSane
<1>3. ASSUME NEW section \in {"mcp", "vm"}, NEW key, NEW text \in Typed(key), ConfigSetField(section, key, text)
      PROVE  SavedIsSane'
  <2> DEFINE fields == Seeded(FieldsOf(section), ReadSection(LoadSettings, section))
             raw == FlagAnswers(fields, key, text)
  <2>1. SaveSettings(section, key, LoadSettings, raw) /\ form' = form
    BY <1>3 DEF ConfigSetField
  <2>2. section # "mcp" => IsCommand(Reduced(fields, raw).agentCmd)
    BY <1>1, AgentCmdIsThere DEF FieldsOf
  <2> HIDE DEF raw
  <2>3. config' = Document(lastSave'.settings) /\ Sane(lastSave'.settings)
    BY <1>1, <2>1, <2>2, SavesAreSane
  <2> QED
    BY <2>1, <2>3 DEF SavedIsSane, Document, Sane
<1>4. ASSUME NEW key, NEW text \in Typed(key), SubmitSection(key, text)
      PROVE  SavedIsSane'
  <2> DEFINE fields == Seeded(FieldsOf(form.section), ReadSection(form.seed, form.section))
             raw == TerminalAnswers(fields, key, text)
  <2>1. SaveSettings(form.section, key, form.seed, raw) /\ form' = NoForm /\ form # NoForm
    BY <1>4 DEF SubmitSection
  <2>2. Sane(form.seed)
    BY <2>1 DEF SavedIsSane
  <2>3. form.section # "mcp" => IsCommand(Reduced(fields, raw).agentCmd)
    BY <1>4, <2>2, AgentCmdIsThere DEF FieldsOf
  <2> HIDE DEF raw
  <2>4. config' = Document(lastSave'.settings) /\ Sane(lastSave'.settings)
    BY <2>1, <2>2, <2>3, SavesAreSane
  <2> QED
    BY <2>1, <2>4 DEF SavedIsSane, Document, Sane
<1>5. CASE CancelSection
  BY <1>5 DEF CancelSection, SavedIsSane
<1>6. CASE UNCHANGED <<config, form, saves, lastSave>>
  BY <1>6 DEF SavedIsSane
<1> QED
  BY <1>2, <1>3, <1>4, <1>5, <1>6 DEF SettingsNext

LEMMA SaneIsLoadedBack == SavedIsSane => SettingsLoadBack
<1> SUFFICES ASSUME SavedIsSane, saves > 0 PROVE LoadSettings = lastSave.settings
  BY DEF SettingsLoadBack
<1>1. config = Document(lastSave.settings) /\ Sane(lastSave.settings)
  BY DEF SavedIsSane
<1> QED
  BY <1>1, SaneLoadsBack

-----------------------------------------------------------------------------
(* GuestForms: guest.json, the store and the editor.                       *)

\* guest.json as it was saved; the lines of the store, and the pairs of the open editor,
\* from which they are made.
Tokens == {"K", "L", "k", "v", "w", "", "\n"}
Values == {v \in Seq(Tokens) : v # <<>>}
IsEnv(env) == DOMAIN env \subseteq Tokens /\ env \in [DOMAIN env -> Values]
StoreIsWhole ==
  /\ lastGuest.key # "none" =>
       guest = [is |-> "document", config |-> lastGuest.config] /\ IsGuestConfig(lastGuest.config)
  /\ vault.env \subseteq Seq(Tokens)
  /\ LoadSecrets = lastSecrets
  /\ editor = [at |-> editor.at, env |-> editor.env, files |-> editor.files] /\ IsEnv(editor.env)

LEMMA OneToken == ASSUME NEW S, NEW t \in S PROVE <<t>> \in Seq(S)
OBVIOUS

LEMMA TwoTokens == ASSUME NEW S, NEW t \in S, NEW u \in S PROVE <<t, u>> \in Seq(S)
OBVIOUS

LEMMA TypedAreValues == {<<"">>, <<"v", "w">>, <<"\n">>} \subseteq Values
<1>1. "" \in Tokens /\ "v" \in Tokens /\ "w" \in Tokens /\ "\n" \in Tokens
  BY DEF Tokens
<1>2. <<"">> \in Seq(Tokens)
  BY <1>1, OneToken, Zenon
<1>3. <<"v", "w">> \in Seq(Tokens)
  BY <1>1, TwoTokens, Zenon
<1>4. <<"\n">> \in Seq(Tokens)
  BY <1>1, OneToken, Zenon
<1>5. <<"">> # <<>> /\ <<"v", "w">> # <<>> /\ <<"\n">> # <<>>
  OBVIOUS
<1> QED
  BY <1>2, <1>3, <1>4, <1>5 DEF Values

LEMMA NoEnvIs == IsEnv(NoEnv)
BY DEF IsEnv, NoEnv

LEMMA ParsedIsEnv ==
  ASSUME NEW lines \in SUBSET Seq(Tokens)
  PROVE  IsEnv(ParseEnv(lines))
<1>1. CASE \A l \in lines : Len(l) > 1 /\ l[1] \in EnvKeys
  <2> DEFINE heads == {l[1] : l \in lines}
             Of(k) == CHOOSE l \in lines : l[1] = k
  <2>1. ParseEnv(lines) = [k \in heads |-> Tail(Of(k))]
    BY <1>1 DEF ParseEnv
  <2>2. heads \subseteq Tokens
    BY <1>1 DEF EnvKeys
  <2>3. ASSUME NEW k \in heads PROVE Tail(Of(k)) \in Values
    <3>1. PICK l \in lines : l = Of(k) /\ Len(l) > 1
      BY <1>1
    <3> HIDE DEF Of
    <3>2. l \in Seq(Tokens) /\ Len(l) \in Nat /\ l # <<>>
      BY <3>1
    <3>3. Tail(l) \in Seq(Tokens) /\ Len(Tail(l)) = Len(l) - 1
      BY <3>2, HeadTailProperties
    <3>4. Tail(l) # <<>>
      <4>1. Len(Tail(l)) # 0
        BY <3>1, <3>2, <3>3
      <4> QED
        BY <3>3, <4>1, EmptySeq
    <3> QED
      BY <3>1, <3>3, <3>4 DEF Values
  <2> HIDE DEF heads, Of
  <2> QED
    BY <2>1, <2>2, <2>3 DEF IsEnv
<1>2. CASE ~(\A l \in lines : Len(l) > 1 /\ l[1] \in EnvKeys)
  BY <1>2, NoEnvIs DEF ParseEnv
<1> QED
  BY <1>1, <1>2

\* A pair is one line, split again at the first "=".
LEMMA LineOfPair ==
  ASSUME NEW k \in Tokens, NEW v \in Values
  PROVE  LET l == <<k>> \o v
         IN l \in Seq(Tokens) /\ Len(l) > 1 /\ l[1] = k /\ Tail(l) = v
<1> DEFINE l == <<k>> \o v
<1>1. v \in Seq(Tokens) /\ Len(v) \in Nat /\ Len(v) > 0
  BY DEF Values
<1>2. <<k>> \in Seq(Tokens) /\ Len(<<k>>) = 1 /\ <<k>>[1] = k
  OBVIOUS
<1>3. /\ l \in Seq(Tokens) /\ Len(l) = 1 + Len(v)
      /\ \A i \in 1 .. 1 + Len(v) : l[i] = IF i <= 1 THEN <<k>>[i] ELSE v[i - 1]
  BY <1>1, <1>2, ConcatProperties
<1> HIDE DEF l
<1>4. l[1] = k
  BY <1>1, <1>2, <1>3
<1>5. l # <<>>
  BY <1>1, <1>3
<1>6. /\ Tail(l) \in Seq(Tokens) /\ Len(Tail(l)) = Len(v)
      /\ \A i \in 1 .. Len(v) : Tail(l)[i] = l[i + 1]
  BY <1>1, <1>3, <1>5, HeadTailProperties
<1>7. \A i \in 1 .. Len(v) : Tail(l)[i] = v[i]
  <2> SUFFICES ASSUME NEW i \in 1 .. Len(v) PROVE Tail(l)[i] = v[i]
    OBVIOUS
  <2>1. i + 1 \in 1 .. 1 + Len(v) /\ ~(i + 1 <= 1) /\ (i + 1) - 1 = i
    BY <1>1
  <2> QED
    BY <1>3, <1>6, <2>1
<1>8. Tail(l) = v
  BY <1>1, <1>6, <1>7, SeqEqual
<1> QED
  BY <1>1, <1>3, <1>4, <1>8 DEF l

LEMMA EnvLoadsBack ==
  ASSUME NEW pairs, IsEnv(pairs), DOMAIN pairs \subseteq EnvKeys
  PROVE  SerializeEnv(pairs) \subseteq Seq(Tokens) /\ ParseEnv(SerializeEnv(pairs)) = pairs
<1> DEFINE lines == SerializeEnv(pairs)
           PairLine(k) == <<k>> \o pairs[k]
<1>1. lines = {PairLine(k) : k \in DOMAIN pairs}
  BY DEF SerializeEnv
<1>2. ASSUME NEW k \in DOMAIN pairs
      PROVE  PairLine(k) \in Seq(Tokens) /\ Len(PairLine(k)) > 1 /\ PairLine(k)[1] = k /\ Tail(PairLine(k)) = pairs[k]
  BY LineOfPair DEF IsEnv
<1> HIDE DEF lines, PairLine
<1>3. \A l \in lines : l \in Seq(Tokens) /\ Len(l) > 1 /\ l[1] \in EnvKeys
  BY <1>1, <1>2
<1>4. {l[1] : l \in lines} = DOMAIN pairs
  <2>1. \A k \in DOMAIN pairs : PairLine(k) \in lines /\ PairLine(k)[1] = k
    BY ONLY <1>1, <1>2
  <2>2. \A l \in lines : l[1] \in DOMAIN pairs
    BY ONLY <1>1, <1>2
  <2> DEFINE names == {l[1] : l \in lines}
  <2>3. \A k \in DOMAIN pairs : k \in names
    BY ONLY <2>1
  <2>4. \A k \in names : k \in DOMAIN pairs
    BY ONLY <2>2
  <2> HIDE DEF names
  <2>5. names = DOMAIN pairs
    BY ONLY <2>3, <2>4
  <2> QED
    BY ONLY <2>5 DEF names
<1> DEFINE Of(k) == CHOOSE l \in lines : l[1] = k
<1>5. ASSUME NEW k \in DOMAIN pairs PROVE Of(k) = PairLine(k)
  <2>1. PairLine(k) \in lines /\ PairLine(k)[1] = k
    BY <1>1, <1>2
  <2>2. \A l \in lines : l[1] = k => l = PairLine(k)
    BY <1>1, <1>2
  <2> QED
    BY <2>1, <2>2
<1>6. ParseEnv(lines) = [k \in DOMAIN pairs |-> pairs[k]]
  <2>1. ParseEnv(lines) = [k \in {l[1] : l \in lines} |-> Tail(Of(k))]
    BY <1>3 DEF ParseEnv
  <2> HIDE DEF Of
  <2>2. \A k \in DOMAIN pairs : Tail(Of(k)) = pairs[k]
    BY <1>2, <1>5
  <2>3. ParseEnv(lines) = [k \in DOMAIN pairs |-> Tail(Of(k))]
    BY <1>4, <2>1
  <2> QED
    BY <2>2, <2>3
<1>7. pairs = [k \in DOMAIN pairs |-> pairs[k]]
  BY DEF IsEnv
<1> QED
  BY <1>3, <1>6, <1>7 DEF lines

LEMMA StoreStarts == GuestInit => StoreIsWhole
<1> SUFFICES ASSUME GuestInit PROVE StoreIsWhole
  OBVIOUS
<1>1. lastGuest.key = "none" /\ editor = NoEditor /\ lastSecrets = LoadSecrets
  BY DEF GuestInit, NoGuestSave
<1>2. vault.env \in {{}, {<<"K", "v", "w">>}, {<<"K", "v">>, <<"L">>}}
  BY DEF GuestInit
<1>3. vault.env \subseteq Seq(Tokens)
  <2>1. "K" \in Tokens /\ "v" \in Tokens /\ "w" \in Tokens /\ "L" \in Tokens
    BY DEF Tokens
  <2>2. <<"K", "v", "w">> \in Seq(Tokens) /\ <<"K", "v">> \in Seq(Tokens) /\ <<"L">> \in Seq(Tokens)
    BY <2>1
  <2> QED
    BY <1>2, <2>2
<1>4. NoEditor = [at |-> "closed", env |-> NoEnv, files |-> <<>>]
  BY DEF NoEditor
<1> QED
  BY <1>1, <1>3, <1>4, NoEnvIs DEF StoreIsWhole

LEMMA SaveKeepsWhole ==
  ASSUME StoreIsWhole, SaveVault
  PROVE  vault'.env \subseteq Seq(Tokens) /\ LoadSecrets' = lastSecrets'
<1>1. PICK files \in {editor.files, vault.files} :
        /\ vault' = [env |-> SerializeEnv(editor.env), files |-> files]
        /\ lastSecrets' = [env |-> editor.env,
                           files |-> IF files = editor.files THEN files ELSE LoadSecrets.files]
  BY DEF SaveVault
<1>2. IsEnv(editor.env) /\ DOMAIN editor.env \subseteq EnvKeys /\ IsFileMap(editor.files)
  BY DEF StoreIsWhole, SaveVault, IsSecrets
<1>3. vault'.env = SerializeEnv(editor.env) /\ vault'.files = files
  BY <1>1
<1>4. LoadSecrets' = [env |-> ParseEnv(vault'.env),
                      files |-> IF IsFileMap(vault'.files) THEN vault'.files ELSE <<>>]
  BY DEF LoadSecrets
<1>5. LoadSecrets.files = IF IsFileMap(vault.files) THEN vault.files ELSE <<>>
  BY DEF LoadSecrets
<1>6. (IF IsFileMap(files) THEN files ELSE <<>>) = IF files = editor.files THEN files ELSE LoadSecrets.files
  BY <1>2, <1>5
<1> QED
  BY <1>1, <1>2, <1>3, <1>4, <1>6, EnvLoadsBack

LEMMA StoreRests ==
  ASSUME StoreIsWhole, UNCHANGED <<vault, lastSecrets>>
  PROVE  vault'.env \subseteq Seq(Tokens) /\ LoadSecrets' = lastSecrets'
BY DEF StoreIsWhole, LoadSecrets

EditorHolds == editor = [at |-> editor.at, env |-> editor.env, files |-> editor.files] /\ IsEnv(editor.env)

LEMMA NoEditorHolds ==
  ASSUME editor' = NoEditor
  PROVE  EditorHolds'
<1>1. NoEditor = [at |-> "closed", env |-> NoEnv, files |-> <<>>]
  BY DEF NoEditor
<1> QED
  BY <1>1, NoEnvIs DEF EditorHolds

LEMMA EditorSteps ==
  ASSUME StoreIsWhole,
         \/ OpenSecrets \/ EditAnyway \/ RestartFirst \/ LeaveSecrets \/ SaveVault
         \/ EditorTurn
         \/ UNCHANGED editor
  PROVE  EditorHolds'
<1>0. EditorHolds
  BY DEF StoreIsWhole, EditorHolds
<1>1. CASE OpenSecrets
  <2>1. editor' = [at    |-> IF sandbox.image # 0 THEN "asked" ELSE "menu",
                   env   |-> LoadSecrets.env,
                   files |-> LoadSecrets.files]
    BY <1>1 DEF OpenSecrets
  <2>2. editor'.env = ParseEnv(vault.env)
    BY <2>1 DEF LoadSecrets
  <2> QED
    BY <2>1, <2>2, ParsedIsEnv DEF StoreIsWhole, EditorHolds
<1>2. ASSUME editor' = [editor EXCEPT !.at = "menu"] PROVE EditorHolds'
  BY <1>0, <1>2 DEF EditorHolds
<1>3. CASE EditAnyway \/ RestartFirst \/ LeaveSecrets \/ SaveVault
  BY <1>2, <1>3, NoEditorHolds DEF EditAnyway, RestartFirst, LeaveSecrets, SaveVault
<1>4. ASSUME NEW key \in EnvKeys \cup {"k"}, NEW value \in {<<"">>, <<"v", "w">>, <<"\n">>}, AddEnv(key, value)
      PROVE  EditorHolds'
  <2>1. value \in Values /\ key \in Tokens
    BY TypedAreValues DEF Tokens, EnvKeys
  <2> DEFINE env == [k \in DOMAIN editor.env \cup {key} |-> IF k = key THEN value ELSE editor.env[k]]
  <2>2. IsEnv(env)
    BY <1>0, <2>1 DEF EditorHolds, IsEnv
  <2> HIDE DEF env
  <2>3. editor' = [editor EXCEPT !.env = env] \/ editor' = NoEditor
    BY <1>4 DEF AddEnv, env
  <2>4. CASE editor' = [editor EXCEPT !.env = env]
    BY <1>0, <2>2, <2>4 DEF EditorHolds
  <2> QED
    BY <2>3, <2>4, NoEditorHolds
<1>5. ASSUME NEW key \in EnvKeys, RemoveEnv(key) PROVE EditorHolds'
  <2> DEFINE env == [k \in DOMAIN editor.env \ {key} |-> editor.env[k]]
  <2>1. IsEnv(env)
    BY <1>0 DEF EditorHolds, IsEnv
  <2> HIDE DEF env
  <2>2. editor' = [editor EXCEPT !.env = env]
    BY <1>5 DEF RemoveEnv, env
  <2> QED
    BY <1>0, <2>1, <2>2 DEF EditorHolds
<1>6. ASSUME NEW f, AddFile(f) PROVE EditorHolds'
  <2>1. PICK files : editor' = [editor EXCEPT !.files = files] \/ editor' = NoEditor
    BY <1>6 DEF AddFile
  <2>2. CASE editor' = [editor EXCEPT !.files = files]
    BY <1>0, <2>2 DEF EditorHolds
  <2> QED
    BY <2>1, <2>2, NoEditorHolds
<1>7. ASSUME NEW i, RemoveFile(i) PROVE EditorHolds'
  <2>1. PICK files : editor' = [editor EXCEPT !.files = files]
    BY <1>7 DEF RemoveFile
  <2> QED
    BY <1>0, <2>1 DEF EditorHolds
<1>8. CASE UNCHANGED editor
  BY <1>0, <1>8 DEF EditorHolds
<1> QED
  BY <1>1, <1>3, <1>4, <1>5, <1>6, <1>7, <1>8 DEF EditorTurn

GuestSaveLoads ==
  lastGuest.key # "none" =>
    guest = [is |-> "document", config |-> lastGuest.config] /\ IsGuestConfig(lastGuest.config)

LEMMA GuestSteps ==
  ASSUME GuestSaveLoads,
         \/ OpenSetup \/ GoOnSetup \/ LeaveSetup
         \/ \E key \in DOMAIN DefaultGuest : \E text \in GuestTyped(key) : SaveSetup(key, text)
         \/ UNCHANGED <<guest, lastGuest>>
  PROVE  GuestSaveLoads'
<1>1. ASSUME UNCHANGED <<guest, lastGuest>> PROVE GuestSaveLoads'
  BY <1>1 DEF GuestSaveLoads, IsGuestConfig
<1>2. ASSUME NEW key, NEW text, SaveSetup(key, text) PROVE GuestSaveLoads'
  <2>1. PICK c : /\ IsGuestConfig(c)
                 /\ guest' = [is |-> "document", config |-> c]
                 /\ lastGuest' = [key |-> key, text |-> text, before |-> setup.seed, config |-> c]
    BY <1>2 DEF SaveSetup
  <2>2. lastGuest'.config = c
    BY <2>1
  <2> QED
    BY <2>1, <2>2 DEF GuestSaveLoads
<1>3. CASE OpenSetup \/ GoOnSetup \/ LeaveSetup
  BY <1>1, <1>3 DEF OpenSetup, GoOnSetup, LeaveSetup
<1> QED
  BY <1>1, <1>2, <1>3

LEMMA StoreKeeps ==
  ASSUME StoreIsWhole, [GuestNext \/ SecretsNext]_<<guestFormVars, secretsVars, runningVars, turns>>
  PROVE  StoreIsWhole'
<1>1. \/ OpenSetup \/ GoOnSetup \/ LeaveSetup
      \/ \E key \in DOMAIN DefaultGuest : \E text \in GuestTyped(key) : SaveSetup(key, text)
      \/ UNCHANGED <<guest, lastGuest>>
  BY DEF GuestNext, SecretsNext, guestFormVars
<1>2. \/ OpenSecrets \/ EditAnyway \/ RestartFirst \/ LeaveSecrets \/ SaveVault
      \/ EditorTurn
      \/ UNCHANGED editor
  BY DEF GuestNext, SecretsNext, secretsVars
<1>3. SaveVault \/ UNCHANGED <<vault, lastSecrets>>
  BY DEF GuestNext, SecretsNext, secretsVars, OpenSecrets, EditAnyway, RestartFirst, LeaveSecrets,
         EditorTurn, AddEnv, RemoveEnv, AddFile, RemoveFile
<1>4. vault'.env \subseteq Seq(Tokens) /\ LoadSecrets' = lastSecrets'
  BY <1>3, SaveKeepsWhole, StoreRests
<1>5. EditorHolds'
  BY <1>2, EditorSteps
<1>6. GuestSaveLoads'
  BY <1>1, GuestSteps DEF StoreIsWhole, GuestSaveLoads
<1> QED
  BY <1>4, <1>5, <1>6 DEF StoreIsWhole, EditorHolds, GuestSaveLoads

LEMMA StoreLoadsBack == StoreIsWhole => GuestLoadBack
<1> SUFFICES ASSUME StoreIsWhole PROVE GuestLoadBack
  OBVIOUS
<1>1. ASSUME lastGuest.key # "none" PROVE LoadGuest = lastGuest.config
  <2>1. guest.is = "document" /\ guest.config = lastGuest.config /\ IsGuestConfig(lastGuest.config)
    BY <1>1 DEF StoreIsWhole
  <2> QED
    BY <2>1 DEF LoadGuest
<1> QED
  BY <1>1 DEF GuestLoadBack, StoreIsWhole

-----------------------------------------------------------------------------
(* SettingsForms: the fields that were not asked for.                      *)

Numbers == {0, 1, 2, 4, 2048, 4096, 20000}
NumberFields == {"memoryMb", "cpus", "idleTimeoutMs"}
IsVm(vm) ==
  /\ vm = [mode |-> vm.mode, memoryMb |-> vm.memoryMb, cpus |-> vm.cpus, persist |-> vm.persist,
           idleTimeoutMs |-> vm.idleTimeoutMs, agentCmd |-> vm.agentCmd, secretsDir |-> vm.secretsDir]
  /\ \A k \in NumberFields : vm[k] \in Numbers

\* Every sandbox section, saved or seeded, has all its fields, whose numbers
\* have a numeral; and the last save changed one of them.
FieldsAreKept ==
  /\ config.is = "document" => IsVm(config.settings.vm)
  /\ form # NoForm => form.section \in {"mcp", "vm"} /\ IsVm(form.seed.vm)
  /\ OnlyTheTargetChanges

LEMMA VmFieldsAre ==
  /\ DOMAIN VmFields = {"mode", "memoryMb", "cpus", "persist", "idleTimeoutMs", "agentCmd", "secretsDir"}
  /\ \A k \in DOMAIN VmFields : VmFields[k].kind \in {"text", "select"}
BY DEF VmFields, TextField, SelectField

LEMMA VmHasItsFields == ASSUME NEW vm, IsVm(vm) PROVE DOMAIN vm = DOMAIN VmFields
BY VmFieldsAre DEF IsVm

LEMMA NumeralIsRead ==
  ASSUME NEW n \in Numbers
  PROVE  IntegerOf(<<Numeral(n)>>) = {n} /\ <<Numeral(n)>> # Blank /\ Trim(Numeral(n)) = Numeral(n)
<1> DEFINE Texts == {"0", "1", "2", "4", "2048", "4096", "20000"}
<1>1. \E t \in Texts : IntegerOf(<<t>>) = {n}
  <2>1. IntegerOf(<<"0">>) = {0} /\ IntegerOf(<<"1">>) = {1}
    BY DEF IntegerOf
  <2>2. IntegerOf(<<"2">>) = {2} /\ IntegerOf(<<"4">>) = {4}
    BY DEF IntegerOf
  <2>3. IntegerOf(<<"2048">>) = {2048} /\ IntegerOf(<<"4096">>) = {4096} /\ IntegerOf(<<"20000">>) = {20000}
    BY DEF IntegerOf
  <2> QED
    BY <2>1, <2>2, <2>3 DEF Numbers
<1>2. Numeral(n) \in Texts /\ IntegerOf(<<Numeral(n)>>) = {n}
  <2>1. Numeral(n) = CHOOSE t \in Texts : IntegerOf(<<t>>) = {n}
    BY DEF Numeral
  <2> QED
    BY <1>1, <2>1
<1>3. Trim(Numeral(n)) = Numeral(n)
  BY <1>2 DEF Trim
<1> QED
  BY <1>2, <1>3 DEF Blank

AsRead(vm, k) == IF k \in NumberFields THEN <<Numeral(vm[k])>> ELSE <<vm[k]>>

\* What a form of a section makes of an answer.
FormGives(section, before, key, text, vals) ==
  LET fields == Seeded(FieldsOf(section), ReadSection(before, section))
  IN vals \in {Reduced(fields, raw) : raw \in {TerminalAnswers(fields, key, text), FlagAnswers(fields, key, text)}}

\* A field that was not asked for goes back as it was read, or without its blanks.
LEMMA UntouchedAnswer ==
  ASSUME NEW before, IsVm(before.vm), NEW key, NEW text, NEW vals, NEW section, section # "mcp",
         FormGives(section, before, key, text, vals),
         NEW k \in DOMAIN VmFields, k # key
  PROVE  vals[k] \in {AsRead(before.vm, k), Trimmed(AsRead(before.vm, k))}
<1> DEFINE fields == Seeded(FieldsOf(section), ReadSection(before, section))
           read == AsRead(before.vm, k)
<1>1. DOMAIN fields = DOMAIN VmFields
  BY DEF Seeded, FieldsOf
<1>2. k \in DOMAIN before.vm
  BY VmHasItsFields
<1>3. k \in DOMAIN ReadSection(before, section) /\ ReadSection(before, section)[k] = read
  BY <1>2 DEF ReadSection, AsRead, NumberFields
<1>4. fields[k] = [VmFields[k] EXCEPT !.default = read]
  BY <1>3 DEF Seeded, FieldsOf
<1>5. fields[k].default = read
  BY <1>4, VmFieldsAre DEF VmFields, TextField, SelectField
<1>6. read # NoDefault
  BY DEF NoDefault, AsRead
<1> HIDE DEF read
<1>7. PICK raw \in {TerminalAnswers(fields, key, text), FlagAnswers(fields, key, text)} : vals = Reduced(fields, raw)
  BY DEF FormGives
<1> HIDE DEF fields
<1>8. raw[k] = read
  BY <1>1, <1>5, <1>6, <1>7 DEF TerminalAnswers, FlagAnswers, Untouched
<1>9. Reduced(fields, raw)[k] \in {read, Trimmed(read)}
  BY <1>1, <1>5, <1>6, <1>8 DEF Reduced
<1> QED
  BY <1>7, <1>9 DEF read

LEMMA IntAnswerIsNumber ==
  ASSUME NEW text, NEW fallback \in Numbers, NEW min \in Nat, NEW n \in VmIntField(text, fallback, min)
  PROVE  n \in Numbers
BY DEF VmIntField, IntegerOf, Numbers

LEMMA IntAnswerReturns ==
  ASSUME NEW m \in Numbers, NEW min \in Nat, NEW n \in VmIntField(<<Numeral(m)>>, m, min)
  PROVE  n = m
BY NumeralIsRead DEF VmIntField

LEMMA SelectAnswerReturns ==
  ASSUME NEW m, NEW allowed, NEW v \in VmSelectValue(<<m>>, allowed, m)
  PROVE  v = m
<1>1. CASE <<m>> = Blank
  BY <1>1 DEF VmSelectValue
<1>2. CASE <<m>> # Blank
  <2>1. <<m>> = <<v>>
    BY <1>2 DEF VmSelectValue
  <2> QED
    BY <2>1
<1> QED
  BY <1>1, <1>2

\* What comes back of a value that has no blanks around it.
LEMMA TidyAnswer ==
  ASSUME NEW e, Trim(e) = e, NEW answer \in {<<e>>, Trimmed(<<e>>)}
  PROVE  answer = <<e>>
BY TrimmedOne

\* And of one that may have.
LEMMA TextAnswer ==
  ASSUME NEW e, NEW answer \in {<<e>>, Trimmed(<<e>>)}, NEW fallback
  PROVE  VmAnswer(answer, fallback) \in {fallback, Trim(e)} /\ (Trim(e) # "" => VmAnswer(answer, fallback) = Trim(e))
<1>1. answer \in {<<e>>, <<Trim(e)>>}
  BY TrimmedOne
<1>2. Trimmed(answer) = <<Trim(e)>> /\ Trim(answer[1]) = Trim(e)
  <2>1. CASE answer = <<e>>
    BY <2>1, TrimmedOne
  <2>2. CASE answer = <<Trim(e)>>
    <3>1. Trimmed(answer) = <<Trim(Trim(e))>> /\ answer[1] = Trim(e)
      BY <2>2, TrimmedOne
    <3> QED
      BY <3>1, TrimIsDone
  <2> QED
    BY <1>1, <2>1, <2>2
<1>3. Trim(e) # "" => <<Trim(e)>> # Blank
  BY DEF Blank
<1> QED
  BY <1>2, <1>3 DEF VmAnswer

\* The texts that are trimmed by any save of their section.
FreeTexts == {"agentCmd", "secretsDir"}

LEMMA WrittenKeepsFields ==
  ASSUME NEW section \in {"mcp", "vm"}, NEW before, Sane(before), IsVm(before.vm),
         NEW key \in DOMAIN FieldsOf(section), NEW text, NEW vals, FormGives(section, before, key, text, vals),
         NEW s \in WriteSection(before, section, vals)
  PROVE  /\ IsVm(s.vm)
         /\ s.channels = before.channels
         /\ key # "allowedClients" => s.clients = before.clients
         /\ \A k \in DOMAIN before.vm \ {key} :
              s.vm[k] = before.vm[k] \/ (k \in FreeTexts /\ s.vm[k] = Trim(before.vm[k]))
<1>0. before = [channels |-> before.channels, clients |-> before.clients, vm |-> before.vm]
      /\ IsVmSettings(before.vm)
  BY DEF Sane, IsSettings
<1>1. CASE section = "mcp"
  <2>1. s = [before EXCEPT !.clients = EntriesOf(vals.allowedClients)]
    BY <1>1 DEF WriteSection
  <2>2. PICK c : c = EntriesOf(vals.allowedClients)
    OBVIOUS
  <2>3. s = [channels |-> before.channels, clients |-> c, vm |-> before.vm]
    BY <1>0, <2>1, <2>2
  <2>4. key = "allowedClients"
    BY <1>1 DEF FieldsOf, McpFields
  <2> QED
    BY <2>3, <2>4
<1>2. CASE section # "mcp"
  <2>2. ASSUME NEW k \in DOMAIN VmFields, k # key
        PROVE  vals[k] \in {AsRead(before.vm, k), Trimmed(AsRead(before.vm, k))}
    BY <1>2, <2>2, UntouchedAnswer
  <2> DEFINE New(m, a, c, p, t) ==
               [before EXCEPT !.vm =
                 [mode |-> m, memoryMb |-> a, cpus |-> c, persist |-> p, idleTimeoutMs |-> t,
                  agentCmd |-> VmAnswer(vals.agentCmd, before.vm.agentCmd),
                  secretsDir |-> VmAnswer(vals.secretsDir, NoDir)]]
             Allowed == {m \in VmSelectValue(vals.mode, VmModes, before.vm.mode) :
                          m = "off" \/ GoldenManifestExists}
             Memories == VmIntField(vals.memoryMb, before.vm.memoryMb, 1)
             Cpus == VmIntField(vals.cpus, before.vm.cpus, 1)
             Persists == VmSelectValue(vals.persist, VmPersist, before.vm.persist)
             Idles == VmIntField(vals.idleTimeoutMs, before.vm.idleTimeoutMs, 0)
  <2>0. s \in {New(m, a, c, p, t) : m \in Allowed, a \in Memories, c \in Cpus, p \in Persists, t \in Idles}
    BY <1>2 DEF WriteSection
  <2> HIDE DEF New, Allowed, Memories, Cpus, Persists, Idles
  <2>1. PICK mode \in Allowed, memory \in Memories, cpus \in Cpus, persist \in Persists, idle \in Idles :
          s = New(mode, memory, cpus, persist, idle)
    BY <2>0
  <2> USE DEF New, Allowed, Memories, Cpus, Persists, Idles
  <2>3. key # "mode" => mode = before.vm.mode
    <3>1. key # "mode" => vals.mode \in {<<before.vm.mode>>, Trimmed(<<before.vm.mode>>)}
      BY <2>2, VmFieldsAre DEF AsRead, NumberFields
    <3>2. Trim(before.vm.mode) = before.vm.mode
      BY <1>0 DEF IsVmSettings, VmModes, Trim
    <3> QED
      BY <3>1, <3>2, TidyAnswer, SelectAnswerReturns
  <2>4. key # "persist" => persist = before.vm.persist
    <3>1. key # "persist" => vals.persist \in {<<before.vm.persist>>, Trimmed(<<before.vm.persist>>)}
      BY <2>2, VmFieldsAre DEF AsRead, NumberFields
    <3>2. Trim(before.vm.persist) = before.vm.persist
      BY <1>0 DEF IsVmSettings, VmPersist, Trim
    <3> QED
      BY <3>1, <3>2, TidyAnswer, SelectAnswerReturns
  <2>5. before.vm.memoryMb \in Numbers /\ before.vm.cpus \in Numbers /\ before.vm.idleTimeoutMs \in Numbers
    BY DEF IsVm, NumberFields
  <2>6. memory \in Numbers /\ (key # "memoryMb" => memory = before.vm.memoryMb)
    <3>1. key # "memoryMb" => vals.memoryMb \in {<<Numeral(before.vm.memoryMb)>>, Trimmed(<<Numeral(before.vm.memoryMb)>>)}
      BY <2>2, VmFieldsAre DEF AsRead, NumberFields
    <3>2. key # "memoryMb" => vals.memoryMb = <<Numeral(before.vm.memoryMb)>>
      BY <2>5, <3>1, NumeralIsRead, TidyAnswer
    <3> QED
      BY <2>5, <3>2, IntAnswerIsNumber, IntAnswerReturns
  <2>7. cpus \in Numbers /\ (key # "cpus" => cpus = before.vm.cpus)
    <3>1. key # "cpus" => vals.cpus \in {<<Numeral(before.vm.cpus)>>, Trimmed(<<Numeral(before.vm.cpus)>>)}
      BY <2>2, VmFieldsAre DEF AsRead, NumberFields
    <3>2. key # "cpus" => vals.cpus = <<Numeral(before.vm.cpus)>>
      BY <2>5, <3>1, NumeralIsRead, TidyAnswer
    <3> QED
      BY <2>5, <3>2, IntAnswerIsNumber, IntAnswerReturns
  <2>8. idle \in Numbers /\ (key # "idleTimeoutMs" => idle = before.vm.idleTimeoutMs)
    <3>1. key # "idleTimeoutMs" => vals.idleTimeoutMs \in {<<Numeral(before.vm.idleTimeoutMs)>>, Trimmed(<<Numeral(before.vm.idleTimeoutMs)>>)}
      BY <2>2, VmFieldsAre DEF AsRead, NumberFields
    <3>2. key # "idleTimeoutMs" => vals.idleTimeoutMs = <<Numeral(before.vm.idleTimeoutMs)>>
      BY <2>5, <3>1, NumeralIsRead, TidyAnswer
    <3> QED
      BY <2>5, <3>2, IntAnswerIsNumber, IntAnswerReturns
  <2>9. PICK cmd : cmd = VmAnswer(vals.agentCmd, before.vm.agentCmd)
    OBVIOUS
  <2>10. key # "agentCmd" => cmd \in {before.vm.agentCmd, Trim(before.vm.agentCmd)}
    <3>1. key # "agentCmd" => vals.agentCmd \in {<<before.vm.agentCmd>>, Trimmed(<<before.vm.agentCmd>>)}
      BY <2>2, VmFieldsAre DEF AsRead, NumberFields
    <3> QED
      BY <2>9, <3>1, TextAnswer
  <2>11. PICK dir_ : dir_ = VmAnswer(vals.secretsDir, NoDir)
    OBVIOUS
  <2>12. key # "secretsDir" => dir_ \in {before.vm.secretsDir, Trim(before.vm.secretsDir)}
    <3>1. key # "secretsDir" => vals.secretsDir \in {<<before.vm.secretsDir>>, Trimmed(<<before.vm.secretsDir>>)}
      BY <2>2, VmFieldsAre DEF AsRead, NumberFields
    <3> QED
      BY <2>11, <3>1, TextAnswer DEF NoDir
  <2> DEFINE vm == [mode |-> mode, memoryMb |-> memory, cpus |-> cpus, persist |-> persist,
                    idleTimeoutMs |-> idle, agentCmd |-> cmd, secretsDir |-> dir_]
  <2>13. s = [before EXCEPT !.vm = vm]
    BY <2>1, <2>9, <2>11
  <2>14. IsVm(vm)
    BY <2>6, <2>7, <2>8 DEF IsVm, NumberFields
  <2>15. \A k \in DOMAIN VmFields \ {key} :
           vm[k] = before.vm[k] \/ (k \in FreeTexts /\ vm[k] = Trim(before.vm[k]))
    BY <2>3, <2>4, <2>6, <2>7, <2>8, <2>10, <2>12, VmFieldsAre DEF FreeTexts
  <2> HIDE DEF vm
  <2>16. s = [channels |-> before.channels, clients |-> before.clients, vm |-> vm]
    BY <1>0, <2>13
  <2>17. s.vm = vm /\ s.channels = before.channels /\ s.clients = before.clients
    BY <2>16
  <2> QED
    BY <2>14, <2>15, <2>17, VmHasItsFields
<1> QED
  BY <1>1, <1>2

LEMMA DefaultIsVm == IsVm(DefaultVm)
BY DEF IsVm, DefaultVm, NumberFields, Numbers

LEMMA AnyTextsAreVm ==
  ASSUME NEW cmd, NEW dir_
  PROVE  IsVm([DefaultVm EXCEPT !.agentCmd = cmd, !.secretsDir = dir_])
<1> DEFINE vm == [DefaultVm EXCEPT !.agentCmd = cmd, !.secretsDir = dir_]
           two == [mode |-> "off", memoryMb |-> 4096, cpus |-> 4, persist |-> "auto",
                   idleTimeoutMs |-> 0, agentCmd |-> cmd, secretsDir |-> dir_]
<1>1. PICK one : one = [DefaultVm EXCEPT !.agentCmd = cmd]
  OBVIOUS
<1>2. one = [mode |-> "off", memoryMb |-> 4096, cpus |-> 4, persist |-> "auto",
             idleTimeoutMs |-> 0, agentCmd |-> cmd, secretsDir |-> NoDir]
  BY <1>1 DEF DefaultVm
<1>3. [one EXCEPT !.secretsDir = dir_] = two
  BY <1>2
<1>4. vm = [one EXCEPT !.secretsDir = dir_]
  BY <1>1
<1> HIDE DEF vm, two
<1>5. vm = two
  BY <1>3, <1>4
<1>6. /\ vm = [mode |-> vm.mode, memoryMb |-> vm.memoryMb, cpus |-> vm.cpus, persist |-> vm.persist,
               idleTimeoutMs |-> vm.idleTimeoutMs, agentCmd |-> vm.agentCmd, secretsDir |-> vm.secretsDir]
      /\ vm["memoryMb"] = 4096 /\ vm["cpus"] = 4 /\ vm["idleTimeoutMs"] = 0
  BY <1>5 DEF two
<1>7. IsVm(vm)
  BY <1>6 DEF IsVm, NumberFields, Numbers
<1> QED
  BY <1>7 DEF vm

LEMMA LoadedIsVm ==
  ASSUME config.is = "document" => IsSettings(config.settings) /\ IsVm(config.settings.vm)
  PROVE  IsVm(LoadSettings.vm)
<1>1. CASE config.is = "document"
  <2> DEFINE s == config.settings
             vm == IF IsVmSettings(s.vm) THEN s.vm ELSE DefaultVm
  <2>1. IsVm(vm)
    BY <1>1, DefaultIsVm
  <2>2. LoadSettings = [s EXCEPT !.vm = vm]
    BY <1>1 DEF LoadSettings
  <2>3. s = [channels |-> s.channels, clients |-> s.clients, vm |-> s.vm]
    BY <1>1 DEF IsSettings
  <2> HIDE DEF s, vm
  <2>4. LoadSettings = [channels |-> s.channels, clients |-> s.clients, vm |-> vm]
    BY <2>2, <2>3
  <2> QED
    BY <2>1, <2>4
<1>2. CASE config.is # "document"
  <2>1. LoadSettings.vm = DefaultVm
    BY <1>2 DEF LoadSettings, DefaultSettings
  <2> QED
    BY <2>1, DefaultIsVm
<1> QED
  BY <1>1, <1>2

LEMMA FieldsStartKept == SettingsInit => FieldsAreKept
<1> SUFFICES ASSUME SettingsInit PROVE FieldsAreKept
  OBVIOUS
<1>1. form = NoForm /\ saves = 0
  BY DEF SettingsInit
<1>2. PICK s \in {DefaultSettings,
               [DefaultSettings EXCEPT !.channels = "pub", !.clients = <<"a">>,
                                       !.vm.agentCmd = " other", !.vm.secretsDir = " "],
               [DefaultSettings EXCEPT !.vm.agentCmd = " ", !.vm.secretsDir = " other"],
               [DefaultSettings EXCEPT !.channels = "pub", !.vm.mode = "on"]} :
        config \in {Document(s), NoDocument("absent"), NoDocument("corrupt")}
  BY DEF SettingsInit
<1>3. IsVm(s.vm)
  <2>1. CASE s = DefaultSettings
    BY <2>1, DefaultIsVm DEF DefaultSettings
  <2>2. CASE s = [DefaultSettings EXCEPT !.channels = "pub", !.clients = <<"a">>,
                                       !.vm.agentCmd = " other", !.vm.secretsDir = " "]
    <3>1. s.vm = [DefaultVm EXCEPT !.agentCmd = " other", !.secretsDir = " "]
      BY <2>2 DEF DefaultSettings
    <3>2. IsVm([DefaultVm EXCEPT !.agentCmd = " other", !.secretsDir = " "])
      BY AnyTextsAreVm
    <3> QED
      BY <3>1, <3>2
  <2>4. CASE s = [DefaultSettings EXCEPT !.vm.agentCmd = " ", !.vm.secretsDir = " other"]
    <3>1. s.vm = [DefaultVm EXCEPT !.agentCmd = " ", !.secretsDir = " other"]
      BY <2>4 DEF DefaultSettings
    <3>2. IsVm([DefaultVm EXCEPT !.agentCmd = " ", !.secretsDir = " other"])
      BY AnyTextsAreVm
    <3> QED
      BY <3>1, <3>2
  <2>3. CASE s = [DefaultSettings EXCEPT !.channels = "pub", !.vm.mode = "on"]
    <3>1. s.vm = [DefaultVm EXCEPT !.mode = "on"]
      BY <2>3 DEF DefaultSettings
    <3> QED
      BY <3>1 DEF IsVm, DefaultVm, NumberFields, Numbers
  <2> QED
    BY <1>2, <2>1, <2>2, <2>3, <2>4
<1>4. config.is = "document" => config.settings = s
  BY <1>2 DEF Document, NoDocument
<1> QED
  BY <1>1, <1>3, <1>4 DEF FieldsAreKept, OnlyTheTargetChanges

\* A save, with the settings it started from.
LEMMA SaveKeepsFields ==
  ASSUME NEW section \in {"mcp", "vm"}, NEW before, Sane(before), IsVm(before.vm),
         NEW key \in DOMAIN FieldsOf(section), NEW text, NEW raw,
         LET fields == Seeded(FieldsOf(section), ReadSection(before, section))
         IN raw \in {TerminalAnswers(fields, key, text), FlagAnswers(fields, key, text)},
         SaveSettings(section, key, before, raw)
  PROVE  (config' = Document(config'.settings)) /\ IsVm(config'.settings.vm) /\ OnlyTheTargetChanges'
<1> DEFINE vals == Reduced(Seeded(FieldsOf(section), ReadSection(before, section)), raw)
<1>1. PICK s \in WriteSection(before, section, vals) :
        /\ config' = Document(s)
        /\ lastSave' = [section |-> section, key |-> key, before |-> before, settings |-> s]
  BY DEF SaveSettings
<1>0. FormGives(section, before, key, text, vals)
  BY DEF FormGives
<1> HIDE DEF vals
<1>2. /\ IsVm(s.vm)
      /\ s.channels = before.channels
      /\ key # "allowedClients" => s.clients = before.clients
      /\ \A k \in DOMAIN before.vm \ {key} :
           s.vm[k] = before.vm[k] \/ (k \in FreeTexts /\ s.vm[k] = Trim(before.vm[k]))
  BY <1>0, WrittenKeepsFields
<1>3. lastSave'.settings = s /\ lastSave'.before = before /\ lastSave'.key = key
  BY <1>1
<1>4. config'.settings = s
  BY <1>1 DEF Document
<1> QED
  BY <1>1, <1>2, <1>3, <1>4 DEF OnlyTheTargetChanges, FreeTexts

LEMMA SettingsKeepFields ==
  ASSUME SavedIsSane, FieldsAreKept, [SettingsNext]_<<config, form, saves, lastSave>>
  PROVE  FieldsAreKept'
<1>1. Sane(LoadSettings) /\ IsVm(LoadSettings.vm)
  BY LoadIsSane, LoadedIsVm DEF SavedIsSane, FieldsAreKept
<1>2. ASSUME NEW section \in {"mcp", "vm"}, OpenSection(section) PROVE FieldsAreKept'
  <2>1. form' = [section |-> section, seed |-> LoadSettings] /\ UNCHANGED <<config, saves, lastSave>>
    BY <1>2 DEF OpenSection
  <2>2. form'.seed = LoadSettings /\ form'.section = section
    BY <2>1
  <2> QED
    BY <1>1, <2>1, <2>2 DEF FieldsAreKept, OnlyTheTargetChanges
<1>3. ASSUME NEW section \in {"mcp", "vm"}, NEW key \in DOMAIN FieldsOf(section), NEW text,
             ConfigSetField(section, key, text)
      PROVE  FieldsAreKept'
  <2> DEFINE fields == Seeded(FieldsOf(section), ReadSection(LoadSettings, section))
             raw == FlagAnswers(fields, key, text)
  <2>1. SaveSettings(section, key, LoadSettings, raw) /\ form' = form
    BY <1>3 DEF ConfigSetField
  <2>2. config' = Document(config'.settings) /\ IsVm(config'.settings.vm) /\ OnlyTheTargetChanges'
    BY <1>1, <2>1, SaveKeepsFields
  <2> QED
    BY <2>1, <2>2 DEF FieldsAreKept
<1>4. ASSUME NEW key, NEW text, SubmitSection(key, text)
      PROVE  FieldsAreKept'
  <2> DEFINE fields == Seeded(FieldsOf(form.section), ReadSection(form.seed, form.section))
             raw == TerminalAnswers(fields, key, text)
  <2>1. SaveSettings(form.section, key, form.seed, raw) /\ form' = NoForm /\ form # NoForm /\ key \in DOMAIN fields
    BY <1>4 DEF SubmitSection
  <2>2. Sane(form.seed) /\ IsVm(form.seed.vm) /\ form.section \in {"mcp", "vm"}
    BY <2>1 DEF SavedIsSane, FieldsAreKept
  <2>3. key \in DOMAIN FieldsOf(form.section)
    BY <2>1 DEF Seeded
  <2>4. config' = Document(config'.settings) /\ IsVm(config'.settings.vm) /\ OnlyTheTargetChanges'
    BY <2>1, <2>2, <2>3, SaveKeepsFields
  <2> QED
    BY <2>1, <2>4 DEF FieldsAreKept
<1>5. CASE CancelSection
  BY <1>5 DEF CancelSection, FieldsAreKept, OnlyTheTargetChanges
<1>6. CASE UNCHANGED <<config, form, saves, lastSave>>
  BY <1>6 DEF FieldsAreKept, OnlyTheTargetChanges
<1> QED
  BY <1>2, <1>3, <1>4, <1>5, <1>6 DEF SettingsNext

-----------------------------------------------------------------------------
(* FormWizard: what a filter leaves.                                       *)

\* The place of i among the members of S.
Rank(S, i) == Cardinality({j \in S : j <= i})

LEMMA RankGrows ==
  ASSUME NEW S \in SUBSET Nat, IsFiniteSet(S), NEW i \in S, NEW k \in S, i < k
  PROVE  Rank(S, i) < Rank(S, k)
<1> DEFINE A == {j \in S : j <= i}
           B == {j \in S : j <= k}
<1>1. A \subseteq B /\ B \subseteq S /\ k \in B /\ k \notin A
  <2>1. \A j \in S : j <= i => j <= k
    OBVIOUS
  <2>2. k <= k /\ ~(k <= i)
    OBVIOUS
  <2> QED
    BY <2>1, <2>2
<1>2. IsFiniteSet(B) /\ Cardinality(B) \in Nat
  BY <1>1, FS_Subset, FS_CardinalityType
<1>3. Cardinality(A) <= Cardinality(B) /\ (Cardinality(B) = Cardinality(A) => B = A) /\ Cardinality(A) \in Nat
  BY <1>1, <1>2, FS_Subset, FS_CardinalityType
<1> HIDE DEF A, B
<1>4. Cardinality(A) < Cardinality(B)
  BY <1>1, <1>2, <1>3
<1> QED
  BY <1>4 DEF A, B, Rank

LEMMA RankFits ==
  ASSUME NEW S \in SUBSET Nat, IsFiniteSet(S), NEW i \in S
  PROVE  Rank(S, i) \in 1..Cardinality(S)
<1> DEFINE A == {j \in S : j <= i}
<1>1. A \subseteq S /\ i \in A
  OBVIOUS
<1> HIDE DEF A
<1>2. IsFiniteSet(A) /\ Cardinality(A) <= Cardinality(S) /\ Cardinality(S) \in Nat
  BY <1>1, FS_Subset, FS_CardinalityType
<1>3. Cardinality(A) \in Nat /\ Cardinality(A) # 0
  BY <1>1, <1>2, FS_CardinalityType, FS_EmptySet
<1> QED
  BY <1>2, <1>3 DEF A, Rank

\* Every place in the order of a finite set is somebody's: the ranks differ and
\* there are as many of them as places.
LEMMA RankIsReached ==
  ASSUME NEW S \in SUBSET Nat, IsFiniteSet(S), NEW n \in 1..Cardinality(S)
  PROVE  \E i \in S : Rank(S, i) = n
<1> SUFFICES ASSUME \A i \in S : Rank(S, i) # n PROVE FALSE
  OBVIOUS
<1> DEFINE N == Cardinality(S)
           T == (1..N) \ {n}
           rank == [i \in S |-> Rank(S, i)]
<1>1. N \in Nat
  BY FS_CardinalityType
<1>2. IsFiniteSet(1..N) /\ Cardinality(1..N) = N
  BY <1>1, FS_Interval
<1>3. IsFiniteSet(T) /\ Cardinality(T) = N - 1
  <2> DEFINE U == 1..N
  <2>1. IsFiniteSet(U) /\ Cardinality(U) = N /\ n \in U
    BY <1>2
  <2> HIDE DEF U, N
  <2>2. IsFiniteSet(U \ {n}) /\ Cardinality(U \ {n}) = Cardinality(U) - 1
    BY ONLY <2>1, FS_RemoveElement
  <2> QED
    BY <2>1, <2>2 DEF U
<1>4. rank \in [S -> T] /\ \A i \in S : rank[i] = Rank(S, i)
  BY RankFits
<1> HIDE DEF T, N, rank
<1>5. Cardinality(T) < Cardinality(S)
  BY <1>1, <1>3 DEF N
<1>6. \E x, y \in S : x # y /\ rank[x] = rank[y]
  <2>1. \A f \in [S -> T] : \E x, y \in S : x # y /\ f[x] = f[y]
    BY ONLY <1>3, <1>5, IsFiniteSet(S), FS_PigeonHole
  <2> QED
    BY <1>4, <2>1
<1>7. PICK x \in S, y \in S : x < y /\ rank[x] = rank[y]
  BY <1>6
<1>8. rank[x] < rank[y] /\ rank[x] \in Nat
  BY <1>4, <1>7, RankGrows, RankFits
<1> QED
  BY <1>7, <1>8

LEMMA PickedIs ==
  ASSUME NEW list, NEW S \in SUBSET Nat, IsFiniteSet(S), NEW n \in 1..Cardinality(S)
  PROVE  \E i \in S : Picked(list, S)[n] = list[i] /\ Rank(S, i) = n
<1> DEFINE at == CHOOSE i \in S : Rank(S, i) = n
<1>1. at \in S /\ Rank(S, at) = n
  BY RankIsReached
<1>2. Picked(list, S)[n] = list[at]
  BY DEF Picked, Rank
<1> HIDE DEF at
<1> QED
  BY <1>1, <1>2

LEMMA PickedIsASeq ==
  ASSUME NEW T, NEW list \in Seq(T), NEW S \in SUBSET DOMAIN list
  PROVE  /\ IsFiniteSet(S) /\ S \in SUBSET Nat
         /\ Picked(list, S) \in Seq(T) /\ DOMAIN Picked(list, S) = 1..Cardinality(S)
<1>1. DOMAIN list = 1..Len(list) /\ Len(list) \in Nat
  OBVIOUS
<1>2. IsFiniteSet(S) /\ S \in SUBSET Nat /\ Cardinality(S) \in Nat
  <2>1. IsFiniteSet(1..Len(list)) /\ S \in SUBSET (1..Len(list))
    BY <1>1, FS_Interval
  <2>2. IsFiniteSet(S)
    BY <2>1, FS_Subset
  <2> QED
    BY <1>1, <2>1, <2>2, FS_CardinalityType
<1>3. \A n \in 1..Cardinality(S) : Picked(list, S)[n] \in T
  BY <1>2, PickedIs
<1>4. DOMAIN Picked(list, S) = 1..Cardinality(S)
  BY DEF Picked
<1>5. Picked(list, S) \in [1..Cardinality(S) -> T]
  BY <1>3, <1>4 DEF Picked
<1> QED
  BY <1>2, <1>4, <1>5, IsASeq

LEMMA PickedAll ==
  ASSUME NEW T, NEW list \in Seq(T)
  PROVE  Picked(list, DOMAIN list) = list
<1> DEFINE S == DOMAIN list
<1>1. S = 1..Len(list) /\ Len(list) \in Nat /\ list = [i \in 1..Len(list) |-> list[i]]
  OBVIOUS
<1>2. Cardinality(S) = Len(list)
  BY <1>1, FS_Interval
<1>3. ASSUME NEW i \in S PROVE Rank(S, i) = i
  <2>1. {j \in S : j <= i} = 1..i
    BY <1>1
  <2> QED
    <3>1. Cardinality(1..i) = i
      <4>1. i \in Int /\ 1 <= i
        BY <1>1
      <4>2. Cardinality(1..i) = IF 1 > i THEN 0 ELSE i - 1 + 1
        BY <4>1, FS_Interval
      <4> QED
        BY <4>1, <4>2
    <3> QED
      BY <2>1, <3>1, Zenon DEF Rank
<1>4. ASSUME NEW n \in 1..Len(list) PROVE Picked(list, S)[n] = list[n]
  <2>1. \E i \in S : Picked(list, S)[n] = list[i] /\ Rank(S, i) = n
    BY <1>2, PickedIs, PickedIsASeq
  <2> QED
    BY <1>3, <2>1
<1>5. Picked(list, S) = [n \in 1..Len(list) |-> Picked(list, S)[n]]
  BY <1>2 DEF Picked
<1> QED
  BY <1>1, <1>4, <1>5

\* What is listed is what was picked.
LEMMA PickedNames ==
  ASSUME NEW T, NEW list \in Seq(T), NEW S \in SUBSET DOMAIN list
  PROVE  Names(Picked(list, S)) = {list[i] : i \in S}
<1>1. /\ IsFiniteSet(S) /\ S \in SUBSET Nat
      /\ DOMAIN Picked(list, S) = 1..Cardinality(S)
  BY PickedIsASeq
<1>2. ASSUME NEW n \in 1..Cardinality(S) PROVE Picked(list, S)[n] \in {list[i] : i \in S}
  <2>1. PICK i \in S : Picked(list, S)[n] = list[i]
    BY <1>1, PickedIs
  <2> QED
    BY <2>1
<1>3. ASSUME NEW i \in S PROVE \E n \in 1..Cardinality(S) : Picked(list, S)[n] = list[i]
  <2>1. Rank(S, i) \in 1..Cardinality(S)
    BY <1>1, RankFits
  <2>2. PICK n \in 1..Cardinality(S) : n = Rank(S, i)
    BY <2>1
  <2>3. PICK k \in S : Picked(list, S)[n] = list[k] /\ Rank(S, k) = n
    BY <1>1, PickedIs
  <2>4. i \in Nat /\ k \in Nat
    BY <1>1
  <2>5. CASE i < k
    <3>1. Rank(S, i) < Rank(S, k)
      BY <1>1, <2>5, RankGrows
    <3> QED
      BY <2>2, <2>3, <3>1
  <2>6. CASE k < i
    <3>1. Rank(S, k) < Rank(S, i)
      BY <1>1, <2>6, RankGrows
    <3> QED
      BY <2>2, <2>3, <3>1
  <2>7. CASE i = k
    BY <2>3, <2>7
  <2> QED
    BY <2>4, <2>5, <2>6, <2>7
<1> QED
  BY <1>1, <1>2, <1>3 DEF Names

\* An entry that is somewhere in a list is somewhere for the first time.
LEMMA FirstIsThere ==
  ASSUME NEW T, NEW list \in Seq(T), NEW i \in DOMAIN list
  PROVE  \E j \in DOMAIN list : list[j] = list[i] /\ \A m \in 1..j-1 : list[m] # list[j]
<1> DEFINE S == {j \in DOMAIN list : list[j] = list[i]}
<1>1. i \in S /\ S \in SUBSET DOMAIN list
  OBVIOUS
<1>2. \A j \in DOMAIN list : j \in S <=> list[j] = list[i]
  OBVIOUS
<1> HIDE DEF S
<1>3. IsFiniteSet(S) /\ S \in SUBSET Nat
  BY <1>1, PickedIsASeq
<1>4. 1 \in 1..Cardinality(S)
  <2>1. Rank(S, i) \in 1..Cardinality(S)
    BY <1>1, <1>3, RankFits
  <2>2. Cardinality(S) \in Nat
    BY <1>3, FS_CardinalityType
  <2> QED
    BY <2>1, <2>2
<1>5. PICK j \in S : Rank(S, j) = 1
  BY <1>3, <1>4, RankIsReached
<1>6. ASSUME NEW m \in S PROVE ~(m < j)
  <2>1. Rank(S, m) \in 1..Cardinality(S) /\ Rank(S, j) \in 1..Cardinality(S)
    BY <1>3, RankFits
  <2>2. m < j => Rank(S, m) < Rank(S, j)
    BY <1>3, RankGrows
  <2>3. Cardinality(S) \in Nat
    BY <1>3, FS_CardinalityType
  <2> QED
    BY <1>5, <2>1, <2>2, <2>3
<1>7. j \in DOMAIN list /\ list[j] = list[i]
  BY <1>1, <1>2
<1>8. ASSUME NEW m \in 1..j-1 PROVE list[m] # list[j]
  <2>1. m \in DOMAIN list /\ m < j
    <3>1. DOMAIN list = 1..Len(list) /\ Len(list) \in Nat
      OBVIOUS
    <3> QED
      BY <1>7, <3>1
  <2>2. m \notin S
    BY <1>6, <2>1
  <2> QED
    BY <1>2, <1>7, <2>1, <2>2
<1> QED
  BY <1>7, <1>8

Clean(list) == \A i \in DOMAIN list : list[i] # "" /\ Trim(list[i]) = list[i]
NoneTwice(list) == \A i, j \in DOMAIN list : list[i] = list[j] => i = j

Texts == {"", " ", "p", "q", "p!", "c", " c", "d"}

LEMMA TrimIsThere == ASSUME NEW e \in Texts PROVE Trim(e) \in Texts
BY DEF Trim, Texts

LEMMA TrimmedIs ==
  ASSUME NEW text \in Seq(Texts)
  PROVE  /\ Trimmed(text) \in Seq(Texts) /\ DOMAIN Trimmed(text) = DOMAIN text
         /\ \A i \in DOMAIN text : Trimmed(text)[i] = Trim(text[i])
         /\ Trimmed(Trimmed(text)) = Trimmed(text)
<1>1. DOMAIN text = 1..Len(text) /\ Len(text) \in Nat
  OBVIOUS
<1>2. Trimmed(text) = [i \in 1..Len(text) |-> Trim(text[i])]
  BY <1>1 DEF Trimmed
<1>3. \A i \in DOMAIN text : Trim(text[i]) \in Texts
  BY TrimIsThere
<1>4. Trimmed(text) \in [1..Len(text) -> Texts]
  BY <1>1, <1>2, <1>3
<1>5. Trimmed(text) \in Seq(Texts)
  BY <1>1, <1>4, IsASeq
<1>6. DOMAIN Trimmed(text) = DOMAIN text /\ \A i \in DOMAIN text : Trimmed(text)[i] = Trim(text[i])
  BY DEF Trimmed
<1>7. Trimmed(Trimmed(text)) = Trimmed(text)
  <2>1. Trimmed(Trimmed(text)) = [i \in DOMAIN text |-> Trim(Trimmed(text)[i])]
    BY <1>6 DEF Trimmed
  <2>2. \A i \in DOMAIN text : Trim(Trimmed(text)[i]) = Trim(text[i])
    BY <1>6, TrimIsDone
  <2>3. Trimmed(text) = [i \in DOMAIN text |-> Trim(text[i])]
    BY DEF Trimmed
  <2> QED
    BY <2>1, <2>2, <2>3
<1> QED
  BY <1>5, <1>6, <1>7

LEMMA EntriesAreClean ==
  ASSUME NEW text \in Seq(Texts)
  PROVE  EntriesOf(text) \in Seq(Texts) /\ Clean(EntriesOf(text))
<1> DEFINE S == {i \in DOMAIN text : Trim(text[i]) # ""}
           t == Trimmed(text)
<1>1. EntriesOf(text) = Picked(t, S)
  BY DEF EntriesOf
<1>2. /\ t \in Seq(Texts) /\ S \in SUBSET DOMAIN t
      /\ \A i \in S : t[i] # "" /\ Trim(t[i]) = t[i]
  <2>1. t \in Seq(Texts) /\ DOMAIN t = DOMAIN text /\ \A i \in DOMAIN text : t[i] = Trim(text[i])
    BY TrimmedIs
  <2>2. \A i \in DOMAIN text : Trim(t[i]) = t[i]
    BY <2>1, TrimIsDone
  <2> QED
    BY <2>1, <2>2
<1> HIDE DEF S, t
<1>3. /\ IsFiniteSet(S) /\ S \in SUBSET Nat
      /\ Picked(t, S) \in Seq(Texts) /\ DOMAIN Picked(t, S) = 1..Cardinality(S)
  BY <1>2, PickedIsASeq
<1>4. ASSUME NEW n \in 1..Cardinality(S) PROVE Picked(t, S)[n] # "" /\ Trim(Picked(t, S)[n]) = Picked(t, S)[n]
  <2>1. PICK i \in S : Picked(t, S)[n] = t[i]
    BY <1>3, PickedIs
  <2> QED
    BY <1>2, <2>1
<1> QED
  BY <1>1, <1>3, <1>4 DEF Clean

\* Trimming a text first changes nothing of its entries.
LEMMA TrimmedEntries ==
  ASSUME NEW text \in Seq(Texts)
  PROVE  EntriesOf(Trimmed(text)) = EntriesOf(text)
<1> DEFINE t == Trimmed(text)
<1>1. /\ t \in Seq(Texts) /\ DOMAIN t = DOMAIN text /\ Trimmed(t) = t
      /\ \A i \in DOMAIN text : t[i] = Trim(text[i])
  BY TrimmedIs
<1>2. {i \in DOMAIN t : Trim(t[i]) # ""} = {i \in DOMAIN text : Trim(text[i]) # ""}
  BY <1>1, TrimIsDone
<1>3. EntriesOf(t) = Picked(Trimmed(t), {i \in DOMAIN t : Trim(t[i]) # ""})
  BY DEF EntriesOf
<1>4. EntriesOf(text) = Picked(t, {i \in DOMAIN text : Trim(text[i]) # ""})
  BY DEF EntriesOf
<1> HIDE DEF t
<1>5. EntriesOf(t) = EntriesOf(text)
  BY <1>1, <1>2, <1>3, <1>4
<1> QED
  BY <1>5 DEF t

\* A clean list goes through its text and back.
LEMMA EntriesComeBack ==
  ASSUME NEW list \in Seq(Texts), Clean(list)
  PROVE  EntriesOf(list) = list
<1>1. Trimmed(list) = list
  <2>1. Trimmed(list) = [i \in DOMAIN list |-> list[i]]
    BY DEF Trimmed, Clean
  <2>2. list = [i \in DOMAIN list |-> list[i]]
    OBVIOUS
  <2> QED
    BY <2>1, <2>2
<1>2. {i \in DOMAIN list : Trim(list[i]) # ""} = DOMAIN list
  BY DEF Clean
<1> QED
  BY <1>1, <1>2, PickedAll DEF EntriesOf

LEMMA TextIsThere ==
  ASSUME NEW list \in Seq(Texts)
  PROVE  TextOf(list) \in Seq(Texts) /\ TextOf(list) # NoDefault
<1>1. Blank \in Seq(Texts) /\ Blank # <<>>
  <2>1. "" \in Texts
    BY DEF Texts
  <2> QED
    BY <2>1, OneToken, Zenon DEF Blank
<1> QED
  BY <1>1 DEF TextOf, NoDefault

LEMMA TextEntries ==
  ASSUME NEW list \in Seq(Texts)
  PROVE  EntriesOf(TextOf(list)) = EntriesOf(list)
<1>1. CASE list = <<>>
  <2>1. TextOf(list) = Blank /\ Blank \in Seq(Texts)
    BY <1>1, TextIsThere DEF TextOf
  <2>2. {i \in DOMAIN Blank : Trim(Blank[i]) # ""} = {}
    <3>1. DOMAIN Blank = {1} /\ Blank[1] = "" /\ Trim("") = ""
      BY DEF Blank, Trim
    <3> QED
      BY <3>1
  <2>3. EntriesOf(Blank) = Picked(Trimmed(Blank), {})
    BY <2>2 DEF EntriesOf
  <2>4. Picked(Trimmed(Blank), {}) \in Seq(Texts) /\ DOMAIN Picked(Trimmed(Blank), {}) = 1..0
    <3>1. Trimmed(Blank) \in Seq(Texts)
      BY <2>1, TrimmedIs
    <3> QED
      BY <3>1, PickedIsASeq, FS_EmptySet
  <2>5. Len(Picked(Trimmed(Blank), {})) = 0
    BY <2>4
  <2>6. Picked(Trimmed(Blank), {}) = <<>>
    BY <2>4, <2>5, EmptySeq
  <2>7. EntriesOf(list) = list
    <3>1. DOMAIN list = {}
      BY <1>1
    <3>2. Clean(list)
      BY <3>1 DEF Clean
    <3> QED
      BY <3>2, EntriesComeBack
  <2> QED
    BY <1>1, <2>1, <2>3, <2>6, <2>7
<1>2. CASE list # <<>>
  BY <1>2 DEF TextOf
<1> QED
  BY <1>1, <1>2

\* Of the packages a text names, each is listed, and once.
LEMMA PackagesAreListedOnce ==
  ASSUME NEW text \in Seq(Texts)
  PROVE  /\ ParsePackages(text) \in Seq(Texts)
         /\ Clean(ParsePackages(text))
         /\ Names(ParsePackages(text)) = Names(EntriesOf(text))
<1> DEFINE all == EntriesOf(text)
           S == {i \in DOMAIN all : \A j \in 1..i-1 : all[j] # all[i]}
<1>1. ParsePackages(text) = Picked(all, S)
  BY DEF ParsePackages
<1>2. all \in Seq(Texts) /\ Clean(all)
  BY EntriesAreClean
<1> HIDE DEF all
<1>3. S \in SUBSET DOMAIN all
  OBVIOUS
<1>4. \A i \in DOMAIN all : \E j \in S : all[j] = all[i]
  BY <1>2, FirstIsThere
<1> HIDE DEF S
<1>5. /\ IsFiniteSet(S) /\ S \in SUBSET Nat
      /\ Picked(all, S) \in Seq(Texts) /\ DOMAIN Picked(all, S) = 1..Cardinality(S)
  BY <1>2, <1>3, PickedIsASeq
<1>6. ASSUME NEW n \in 1..Cardinality(S)
      PROVE  Picked(all, S)[n] # "" /\ Trim(Picked(all, S)[n]) = Picked(all, S)[n]
  <2>1. PICK i \in S : Picked(all, S)[n] = all[i]
    BY <1>5, PickedIs
  <2> QED
    BY <1>2, <1>3, <2>1 DEF Clean
<1>7. Names(Picked(all, S)) = Names(all)
  <2>1. Names(Picked(all, S)) = {all[i] : i \in S}
    BY <1>2, <1>3, PickedNames
  <2> QED
    BY <1>3, <1>4, <2>1 DEF Names
<1> QED
  BY <1>1, <1>5, <1>6, <1>7 DEF Clean, all

LEMMA PackagesComeBack ==
  ASSUME NEW text, NEW list \in Seq(Texts), EntriesOf(text) = list, NoneTwice(list)
  PROVE  ParsePackages(text) = list
<1>1. {i \in DOMAIN list : \A j \in 1..i-1 : list[j] # list[i]} = DOMAIN list
  <2>1. ASSUME NEW i \in DOMAIN list, NEW j \in 1..i-1 PROVE list[j] # list[i]
    <3>1. j \in DOMAIN list /\ j # i
      OBVIOUS
    <3> QED
      BY <3>1 DEF NoneTwice
  <2> QED
    BY <2>1
<1> QED
  BY <1>1, PickedAll DEF ParsePackages

-----------------------------------------------------------------------------
(* GuestForms: the fields that were not asked for.                         *)

HasItsLists(c) ==
  /\ DOMAIN c = DOMAIN DefaultGuest
  /\ c.extraPackages \in Seq(Texts) /\ Clean(c.extraPackages)
  /\ c.bootCommands \in Seq(Texts)

AnswersAreKept ==
  /\ guest.is = "document" => HasItsLists(guest.config)
  /\ setup.at = "fields" => HasItsLists(setup.seed)
  /\ OnlyTheAnswerChanges

LEMMA ThreeTokens == ASSUME NEW S, NEW t \in S, NEW u \in S, NEW v \in S PROVE <<t, u, v>> \in Seq(S)
OBVIOUS

LEMMA DefaultGuestIs ==
  /\ DOMAIN DefaultGuest = {"hostname", "timezone", "keyboard", "username", "extraPackages", "bootCommands",
                            "gitName", "gitEmail", "encrypt", "agent"}
  /\ DefaultGuest.extraPackages = <<>> /\ DefaultGuest.bootCommands = <<>>
  /\ HasItsLists(DefaultGuest)
<1>1. DOMAIN DefaultGuest = {"hostname", "timezone", "keyboard", "username", "extraPackages", "bootCommands",
                            "gitName", "gitEmail", "encrypt", "agent"}
  BY DEF DefaultGuest, TokenFields, ListFields
<1>2. DefaultGuest.extraPackages = <<>> /\ DefaultGuest.bootCommands = <<>>
  BY DEF DefaultGuest, TokenFields, ListFields
<1>3. <<>> \in Seq(Texts) /\ Clean(<<>>)
  BY DEF Clean
<1> QED
  BY <1>1, <1>2, <1>3 DEF HasItsLists

LEMMA TypedListsAreLists ==
  ASSUME NEW key \in ListFields, NEW text \in GuestTyped(key)
  PROVE  text \in Seq(Texts)
<1>1. "" \in Texts /\ "p" \in Texts /\ "q" \in Texts /\ "p!" \in Texts /\ "c" \in Texts
  BY DEF Texts
<1>2. <<"">> \in Seq(Texts) /\ <<"c">> \in Seq(Texts)
  BY <1>1, OneToken, Zenon
<1>3. <<"", "">> \in Seq(Texts) /\ <<"p", "p!">> \in Seq(Texts)
  BY <1>1, TwoTokens, Zenon
<1>4. <<"p", "q", "p">> \in Seq(Texts) /\ <<"c", "", "c">> \in Seq(Texts)
  BY <1>1, ThreeTokens, Zenon
<1>5. text \in {<<"">>, <<"c">>, <<"", "">>, <<"p", "p!">>, <<"p", "q", "p">>, <<"c", "", "c">>}
  BY DEF GuestTyped, ListFields, TokenFields, Blank
<1> QED
  BY <1>2, <1>3, <1>4, <1>5

SetupAnswers(seed, key, text) ==
  LET fields == Seeded(GuestFields, GuestTexts(seed))
  IN Reduced(fields, TerminalAnswers(fields, key, text))

\* A field that was not answered comes back as it was read, or trimmed.
LEMMA SetupAnswersAre ==
  ASSUME NEW seed, HasItsLists(seed), NEW key, NEW text, NEW k \in DOMAIN DefaultGuest
  PROVE  /\ k # key => SetupAnswers(seed, key, text)[k] \in {GuestTexts(seed)[k], Trimmed(GuestTexts(seed)[k])}
         /\ k = key => SetupAnswers(seed, key, text)[k] \in {Trimmed(text), GuestTexts(seed)[k]}
<1> DEFINE fields == Seeded(GuestFields, GuestTexts(seed))
           raw == TerminalAnswers(fields, key, text)
           read == GuestTexts(seed)[k]
<1>1. DOMAIN fields = DOMAIN DefaultGuest
  BY DEF Seeded, GuestFields
<1>2. k \in DOMAIN GuestTexts(seed)
  BY DEF GuestTexts, HasItsLists
<1>3. read # NoDefault
  <2>1. CASE k \in ListFields
    <3>1. seed[k] \in Seq(Texts)
      BY <2>1 DEF HasItsLists, ListFields
    <3> QED
      BY <1>2, <2>1, <3>1, TextIsThere DEF GuestTexts
  <2>2. CASE k \notin ListFields
    BY <1>2, <2>2 DEF GuestTexts, NoDefault
  <2> QED
    BY <2>1, <2>2
<1>4. fields[k].default = read
  <2>1. fields[k] = [GuestFields[k] EXCEPT !.default = read]
    BY <1>2 DEF Seeded, GuestFields
  <2>2. GuestFields[k] \in {ConfirmField, SelectField(GuestAgents), TextField}
    BY DEF GuestFields
  <2> HIDE DEF fields, read
  <2> QED
    BY <2>1, <2>2 DEF ConfirmField, SelectField, TextField
<1>5. SetupAnswers(seed, key, text) = Reduced(fields, raw)
  BY DEF SetupAnswers
<1>6. raw[k] = IF k = key THEN text ELSE Untouched(fields[k])
  BY <1>1 DEF TerminalAnswers
<1>7. Reduced(fields, raw)[k] = IF Trimmed(raw[k]) # Blank THEN Trimmed(raw[k])
                                ELSE IF fields[k].default # NoDefault THEN fields[k].default ELSE Blank
  BY <1>1 DEF Reduced
<1> HIDE DEF fields, raw, read
<1>8. Untouched(fields[k]) = read
  BY <1>3, <1>4 DEF Untouched
<1>9. /\ k # key => SetupAnswers(seed, key, text)[k] \in {read, Trimmed(read)}
      /\ k = key => SetupAnswers(seed, key, text)[k] \in {Trimmed(text), read}
  BY <1>3, <1>4, <1>5, <1>6, <1>7, <1>8
<1> QED
  BY <1>9 DEF read

\* A list that was not answered has the entries it had.
LEMMA ListAnswersAre ==
  ASSUME NEW seed, HasItsLists(seed), NEW key, NEW text, key \in ListFields => text \in Seq(Texts),
         NEW k \in ListFields
  PROVE  /\ SetupAnswers(seed, key, text)[k] \in Seq(Texts)
         /\ k # key => EntriesOf(SetupAnswers(seed, key, text)[k]) = EntriesOf(seed[k])
<1> DEFINE answer == SetupAnswers(seed, key, text)[k]
           read == TextOf(seed[k])
<1>1. k \in DOMAIN DefaultGuest /\ seed[k] \in Seq(Texts)
  BY DefaultGuestIs DEF ListFields, HasItsLists
<1>2. GuestTexts(seed)[k] = read
  BY <1>1 DEF GuestTexts, HasItsLists
<1>3. /\ k # key => answer \in {read, Trimmed(read)}
      /\ k = key => answer \in {Trimmed(text), read}
  BY <1>1, <1>2, SetupAnswersAre
<1>4. read \in Seq(Texts) /\ Trimmed(read) \in Seq(Texts)
  BY <1>1, TextIsThere, TrimmedIs
<1>5. k = key => Trimmed(text) \in Seq(Texts)
  BY TrimmedIs
<1>6. EntriesOf(read) = EntriesOf(seed[k]) /\ EntriesOf(Trimmed(read)) = EntriesOf(seed[k])
  BY <1>1, <1>4, TextEntries, TrimmedEntries
<1> HIDE DEF answer, read
<1>7. answer \in Seq(Texts) /\ (k # key => EntriesOf(answer) = EntriesOf(seed[k]))
  BY <1>3, <1>4, <1>5, <1>6
<1> QED
  BY <1>7 DEF answer

LEMMA CandidateIs ==
  ASSUME NEW seed, HasItsLists(seed), NEW key, NEW text, NEW c,
         key \in ListFields => text \in Seq(Texts),
         c = Candidate(seed, SetupAnswers(seed, key, text))
  PROVE  /\ HasItsLists(c)
         /\ \A k \in DOMAIN DefaultGuest \ {key} :
              Gist(k, c[k]) = Gist(k, seed[k]) /\ (IsTidy(k, seed[k]) => c[k] = seed[k])
<1>1. DOMAIN c = DOMAIN DefaultGuest
  BY DEF Candidate, HasItsLists
<1>2. "extraPackages" \in DOMAIN DefaultGuest /\ "bootCommands" \in DOMAIN DefaultGuest
  BY DefaultGuestIs
<1> DEFINE answers == SetupAnswers(seed, key, text)
<1>3. /\ c.extraPackages = ParsePackages(answers["extraPackages"])
      /\ c.bootCommands = EntriesOf(answers["bootCommands"])
  BY <1>2 DEF Candidate, HasItsLists
<1>4. \A k \in ListFields : answers[k] \in Seq(Texts) /\ (k # key => EntriesOf(answers[k]) = EntriesOf(seed[k]))
  BY ListAnswersAre
<1> HIDE DEF answers
<1>5. /\ answers["extraPackages"] \in Seq(Texts) /\ answers["bootCommands"] \in Seq(Texts)
      /\ "extraPackages" # key => EntriesOf(answers["extraPackages"]) = EntriesOf(seed["extraPackages"])
      /\ "bootCommands" # key => EntriesOf(answers["bootCommands"]) = EntriesOf(seed["bootCommands"])
  BY <1>4 DEF ListFields
<1>6. /\ c.extraPackages \in Seq(Texts) /\ Clean(c.extraPackages)
      /\ Names(c.extraPackages) = Names(EntriesOf(answers["extraPackages"]))
  BY <1>3, <1>5, PackagesAreListedOnce
<1>7. c.bootCommands \in Seq(Texts) /\ Clean(c.bootCommands)
  BY <1>3, <1>5, EntriesAreClean
<1>8. ASSUME NEW k \in DOMAIN DefaultGuest \ {key}
      PROVE  Gist(k, c[k]) = Gist(k, seed[k]) /\ (IsTidy(k, seed[k]) => c[k] = seed[k])
  <2>1. CASE k = "extraPackages"
    <3>1. EntriesOf(seed.extraPackages) = seed.extraPackages
      BY EntriesComeBack DEF HasItsLists
    <3>2. EntriesOf(answers["extraPackages"]) = seed.extraPackages
      BY <1>5, <1>8, <2>1, <3>1
    <3>3. Names(c.extraPackages) = Names(seed.extraPackages)
      BY <1>6, <3>2
    <3>4. NoneTwice(seed.extraPackages) => c.extraPackages = seed.extraPackages
      BY <1>3, <3>2, PackagesComeBack DEF HasItsLists
    <3>5. Gist(k, c[k]) = Names(c.extraPackages) /\ Gist(k, seed[k]) = Names(seed.extraPackages)
      BY <2>1 DEF Gist
    <3>6. IsTidy(k, seed[k]) => NoneTwice(seed.extraPackages)
      BY <2>1 DEF IsTidy, NoneTwice
    <3> QED
      BY <2>1, <3>3, <3>4, <3>5, <3>6
  <2>2. CASE k = "bootCommands"
    <3>1. c.bootCommands = EntriesOf(seed.bootCommands)
      BY <1>3, <1>5, <1>8, <2>2
    <3>2. EntriesOf(c.bootCommands) = c.bootCommands
      BY <1>7, EntriesComeBack
    <3>3. IsTidy(k, seed[k]) => EntriesOf(seed.bootCommands) = seed.bootCommands
      <4>1. IsTidy(k, seed[k]) => Clean(seed.bootCommands)
        BY <2>2 DEF IsTidy, Clean
      <4> QED
        BY <4>1, EntriesComeBack DEF HasItsLists
    <3>4. Gist(k, c[k]) = EntriesOf(c.bootCommands) /\ Gist(k, seed[k]) = EntriesOf(seed.bootCommands)
      BY <2>2 DEF Gist
    <3> QED
      BY <2>2, <3>1, <3>2, <3>3, <3>4
  <2>3. CASE k \notin {"extraPackages", "bootCommands"}
    <3>1. answers[k] \in {<<seed[k]>>, Trimmed(<<seed[k]>>)}
      <4>1. GuestTexts(seed)[k] = <<seed[k]>>
        BY <1>8, <2>3 DEF GuestTexts, HasItsLists, ListFields
      <4> QED
        BY <1>8, <4>1, SetupAnswersAre DEF answers
    <3>2. <<seed[k]>>[1] = seed[k] /\ Trimmed(<<seed[k]>>)[1] = Trim(seed[k])
      BY TrimmedOne
    <3>3. c[k] = answers[k][1]
      BY <1>8, <2>3 DEF Candidate, HasItsLists, answers
    <3>4. c[k] = seed[k] \/ c[k] = Trim(seed[k])
      BY <3>1, <3>2, <3>3
    <3>5. Trim(c[k]) = Trim(seed[k])
      BY <3>4, TrimIsDone
    <3>6. IsTidy(k, seed[k]) => Trim(seed[k]) = seed[k]
      BY <2>3 DEF IsTidy
    <3>7. Gist(k, c[k]) = Trim(c[k]) /\ Gist(k, seed[k]) = Trim(seed[k])
      BY <2>3 DEF Gist
    <3> QED
      BY <3>4, <3>5, <3>6, <3>7
  <2> QED
    BY <2>1, <2>2, <2>3
<1> QED
  BY <1>1, <1>6, <1>7, <1>8 DEF HasItsLists

LEMMA AnswersStartKept == GuestInit => AnswersAreKept
<1> SUFFICES ASSUME GuestInit PROVE AnswersAreKept
  OBVIOUS
<1>1. setup.at # "fields" /\ lastGuest.key = "none"
  BY DEF GuestInit, NoSetup, NoGuestSave
<1>2. ASSUME guest.is = "document" PROVE HasItsLists(guest.config)
  <2>1. CASE guest = [is |-> "document", config |-> [DefaultGuest EXCEPT !.username = "not a token"]]
    <3>1. guest.config = [DefaultGuest EXCEPT !.username = "not a token"]
      BY <2>1
    <3> QED
      BY <3>1, DefaultGuestIs DEF HasItsLists
  <2>2. CASE guest = [is |-> "document", config |-> [DefaultGuest EXCEPT !.gitName = "other", !.encrypt = "true",
                                                !.extraPackages = <<"p">>, !.bootCommands = <<"c", "d", "c">>]]
    <3>1. guest.config = [DefaultGuest EXCEPT !.gitName = "other", !.encrypt = "true",
                                                !.extraPackages = <<"p">>, !.bootCommands = <<"c", "d", "c">>]
      BY <2>2
    <3>2. DOMAIN guest.config = DOMAIN DefaultGuest /\ guest.config.extraPackages = <<"p">>
          /\ guest.config.bootCommands = <<"c", "d", "c">>
      BY <3>1, DefaultGuestIs
    <3>3. "p" \in Texts /\ "c" \in Texts /\ "d" \in Texts
      BY DEF Texts
    <3>4. <<"p">> \in Seq(Texts) /\ <<"c", "d", "c">> \in Seq(Texts)
      BY <3>3, OneToken, ThreeTokens, Zenon
    <3>5. Clean(<<"p">>)
      <4>1. DOMAIN <<"p">> = {1} /\ <<"p">>[1] = "p"
        OBVIOUS
      <4>2. "p" # "" /\ Trim("p") = "p"
        BY DEF Trim
      <4> DEFINE one == <<"p">>
      <4> HIDE DEF one
      <4>3. Clean(one)
        BY <4>1, <4>2 DEF Clean, one
      <4> QED
        BY <4>3 DEF one
    <3> QED
      BY <3>2, <3>4, <3>5 DEF HasItsLists
  <2>4. CASE guest = [is |-> "document", config |-> [DefaultGuest EXCEPT !.gitName = " other", !.gitEmail = " ",
                                                !.extraPackages = <<"p", "q", "p">>, !.bootCommands = <<"d", " c", " ">>]]
    <3>1. guest.config = [DefaultGuest EXCEPT !.gitName = " other", !.gitEmail = " ",
                                                !.extraPackages = <<"p", "q", "p">>, !.bootCommands = <<"d", " c", " ">>]
      BY <2>4
    <3>2. DOMAIN guest.config = DOMAIN DefaultGuest /\ guest.config.extraPackages = <<"p", "q", "p">>
          /\ guest.config.bootCommands = <<"d", " c", " ">>
      BY <3>1, DefaultGuestIs
    <3>3. "p" \in Texts /\ "q" \in Texts /\ " c" \in Texts /\ " " \in Texts /\ "d" \in Texts
      BY DEF Texts
    <3>4. <<"p", "q", "p">> \in Seq(Texts) /\ <<"d", " c", " ">> \in Seq(Texts)
      BY <3>3, ThreeTokens, Zenon
    <3>5. Clean(<<"p", "q", "p">>)
      <4>1. /\ DOMAIN <<"p", "q", "p">> = {1, 2, 3}
            /\ <<"p", "q", "p">>[1] = "p" /\ <<"p", "q", "p">>[2] = "q" /\ <<"p", "q", "p">>[3] = "p"
        OBVIOUS
      <4>2. "p" # "" /\ Trim("p") = "p" /\ "q" # "" /\ Trim("q") = "q"
        BY DEF Trim
      <4> DEFINE three == <<"p", "q", "p">>
      <4> HIDE DEF three
      <4>3. Clean(three)
        BY <4>1, <4>2 DEF Clean, three
      <4> QED
        BY <4>3 DEF three
    <3> QED
      BY <3>2, <3>4, <3>5 DEF HasItsLists
  <2>3. guest # [is |-> "absent"]
    BY <1>2
  <2> QED
    BY <2>1, <2>2, <2>3, <2>4 DEF GuestInit
<1> QED
  BY <1>1, <1>2 DEF AnswersAreKept, OnlyTheAnswerChanges

LEMMA AnswersStayKept ==
  ASSUME AnswersAreKept, [GuestNext \/ SecretsNext]_<<guestFormVars, secretsVars, runningVars, turns>>
  PROVE  AnswersAreKept'
<1>1. \/ OpenSetup \/ GoOnSetup \/ LeaveSetup
      \/ \E key \in DOMAIN DefaultGuest : \E text \in GuestTyped(key) : SaveSetup(key, text)
      \/ UNCHANGED guestFormVars
  BY DEF GuestNext, SecretsNext
<1>2. HasItsLists(LoadGuest)
  BY DefaultGuestIs DEF LoadGuest, AnswersAreKept
<1>3. CASE OpenSetup \/ GoOnSetup \/ LeaveSetup
  <2>1. UNCHANGED <<guest, lastGuest>>
    BY <1>3 DEF OpenSetup, GoOnSetup, LeaveSetup
  <2>2. setup' \in {[at |-> "warned"], [at |-> "closed"], [at |-> "fields", seed |-> LoadGuest]}
    BY <1>3 DEF OpenSetup, GoOnSetup, LeaveSetup, NoSetup
  <2>3. setup'.at = "fields" => setup'.seed = LoadGuest
    BY <2>2
  <2> QED
    BY <1>2, <2>1, <2>3 DEF AnswersAreKept, OnlyTheAnswerChanges
<1>4. ASSUME NEW key \in DOMAIN DefaultGuest, NEW text \in GuestTyped(key), SaveSetup(key, text)
      PROVE  AnswersAreKept'
  <2> DEFINE c == Candidate(setup.seed, SetupAnswers(setup.seed, key, text))
  <2>1. /\ setup.at = "fields" /\ setup' = NoSetup
        /\ guest' = [is |-> "document", config |-> c]
        /\ lastGuest' = [key |-> key, text |-> text, before |-> setup.seed, config |-> c]
    BY <1>4 DEF SaveSetup, SetupAnswers
  <2>2. HasItsLists(setup.seed)
    BY <2>1 DEF AnswersAreKept
  <2>3. key \in ListFields => text \in Seq(Texts)
    BY TypedListsAreLists
  <2>4. /\ HasItsLists(c)
        /\ \A k \in DOMAIN DefaultGuest \ {key} :
             Gist(k, c[k]) = Gist(k, setup.seed[k]) /\ (IsTidy(k, setup.seed[k]) => c[k] = setup.seed[k])
    BY <2>2, <2>3, CandidateIs
  <2> HIDE DEF c
  <2>5. guest'.config = c /\ lastGuest'.key = key /\ lastGuest'.before = setup.seed /\ lastGuest'.config = c
        /\ setup'.at # "fields"
    BY <2>1 DEF NoSetup
  <2> QED
    BY <2>4, <2>5 DEF AnswersAreKept, OnlyTheAnswerChanges
<1>5. CASE UNCHANGED guestFormVars
  BY <1>5 DEF guestFormVars, AnswersAreKept, OnlyTheAnswerChanges
<1> QED
  BY <1>1, <1>3, <1>4, <1>5

-----------------------------------------------------------------------------
(* The console.                                                            *)

ConsoleInv ==
  /\ CommandsHoldTheirGuest
  /\ FilledBeforeRenamed
  /\ PushedInOrder
  /\ ModalsHoldTheKeys
  /\ ActionsTakeTurns /\ ServerIsAccounted
  /\ DOMAIN live = ChannelIds
  /\ FeedInOrder
  /\ SavedIsSane /\ FieldsAreKept
  /\ StoreIsWhole /\ AnswersAreKept
  /\ ChannelsAreFiled

LEMMA ConsoleStarts == ConsoleInit => ConsoleInv
<1> SUFFICES ASSUME ConsoleInit PROVE ConsoleInv
  OBVIOUS
<1>1. BuildInit /\ HomeInit /\ ExtrasInit /\ ScreensInit /\ DashInit /\ ChannelsInit /\ FeedInit
  BY DEF ConsoleInit
<1>2. DOMAIN live = ChannelIds
  BY <1>1 DEF ChannelsInit
<1>3. SavedIsSane /\ FieldsAreKept
  BY SettingsStartSane, FieldsStartKept DEF ConsoleInit
<1>4. StoreIsWhole /\ AnswersAreKept /\ ChannelsAreFiled
  BY StoreStarts, AnswersStartKept, ChannelsStartFiled DEF ConsoleInit
<1> QED
  BY <1>1, <1>2, <1>3, <1>4, BuildStarts, HomeStarts, ExtrasStarts, ScreensStart, DashStarts, FeedStarts DEF ConsoleInv

LEMMA ConsoleKeeps == ConsoleInv /\ [ConsoleNext]_consoleVars => ConsoleInv'
<1> SUFFICES ASSUME ConsoleInv, [ConsoleNext]_consoleVars PROVE ConsoleInv'
  OBVIOUS
<1>1. /\ [BuildNext]_buildVars /\ [HomeNext]_homeVars /\ [ExtrasNext]_extrasVars
      /\ [ScreensNext]_screenVars /\ [DashNext]_dashVars /\ [ProbeNext]_probeVars
      /\ [FeedNext]_feedVars
  BY EachPartSteps
<1>2. CommandsHoldTheirGuest'
  BY <1>1, BuildKeeps DEF ConsoleInv
<1>3. FilledBeforeRenamed'
  BY <1>1, HomeKeeps DEF ConsoleInv
<1>4. PushedInOrder'
  BY <1>1, ExtrasKeeps DEF ConsoleInv
<1>5. ModalsHoldTheKeys'
  BY <1>1, ScreensKeep DEF ConsoleInv
<1>6. ActionsTakeTurns' /\ ServerIsAccounted'
  BY <1>1, DashKeeps DEF ConsoleInv
<1>7. DOMAIN live' = ChannelIds
  BY <1>1, ProbeKeeps DEF ConsoleInv
<1>8. FeedInOrder'
  BY <1>1, FeedKeeps DEF ConsoleInv
<1>9. SavedIsSane' /\ FieldsAreKept'
  BY EachFormSteps, SettingsKeepSane, SettingsKeepFields DEF ConsoleInv
<1>10. StoreIsWhole' /\ AnswersAreKept' /\ ChannelsAreFiled'
  BY EachFormSteps, StoreKeeps, AnswersStayKept, ChannelsKeepFiled DEF ConsoleInv
<1> QED
  BY <1>2, <1>3, <1>4, <1>5, <1>6, <1>7, <1>8, <1>9, <1>10 DEF ConsoleInv

\* What each part's invariant says of the properties.
LEMMA ConsoleIsInOrder ==
  ConsoleInv => /\ NoGuestOutlivesTheCommand /\ DocumentsStayWhole /\ KeysComeBack
                /\ ServerRunsSavedModeAndChannel /\ FeedIsComplete /\ ConnectedSeesLatestVm
                /\ SavesLoadBack /\ SavesChangeOneField /\ DoctorForetells
<1>1. ModalsHoldTheKeys => KeysComeBack
  BY DEF ModalsHoldTheKeys
<1>2. SavedIsSane /\ StoreIsWhole => SavesLoadBack
  BY SaneIsLoadedBack, StoreLoadsBack DEF SavesLoadBack
<1>3. FieldsAreKept /\ AnswersAreKept => SavesChangeOneField
  BY DEF FieldsAreKept, AnswersAreKept, SavesChangeOneField
<1>4. ChannelsAreFiled => DoctorForetells
  BY DoctorForetellsAnyBoot, ScansAreOne, DoctorForetellsTheChannel DEF DoctorForetells
<1> QED
  BY <1>1, <1>2, <1>3, <1>4, GuestIsHeld, HomeIsWhole, PushIsTrue, AccountedWhenQuiet, FeedSays DEF ConsoleInv, DocumentsStayWhole

LEMMA ConsoleInvHolds == ConsoleSpec => []ConsoleInv
<1>1. ConsoleInv /\ [ConsoleNext]_consoleVars => ConsoleInv'
  BY ConsoleKeeps
<1> QED
  BY <1>1, ConsoleStarts, PTL DEF ConsoleSpec

(* No QEMU that vm install, provision or build booted outlives its command *)
(* where it could have been ended, whichever step fails and however the    *)
(* guest ends; except where the command itself was killed, or an installer *)
(* cannot be told the recovery password it needs to power off (startQemu,  *)
(* install.ts, provision.ts).                                              *)
THEOREM GuestsEndWithTheirCommand == ConsoleSpec => []NoGuestOutlivesTheCommand
<1>1. ConsoleInv => NoGuestOutlivesTheCommand
  BY ConsoleIsInOrder
<1> QED
  BY <1>1, ConsoleInvHolds, PTL

(* No document under ~/.openhammer is ever part of one, for any number of  *)
(* processes that write it, die in the middle or meet the same temporary   *)
(* name; and what a push reported as delivered to the guest is there,      *)
(* whole (json-file.ts, secrets.ts, session.ts).                           *)
THEOREM DocumentsAreWhole == ConsoleSpec => []DocumentsStayWhole
<1>1. ConsoleInv => DocumentsStayWhole
  BY ConsoleIsInOrder
<1> QED
  BY <1>1, ConsoleInvHolds, PTL

(* The dashboard's keys are dead only while something it waits for will    *)
(* hand them back, or once it has quit, for menus of any length and        *)
(* whatever overlaps (suspend and resume of dashboard.ts).                 *)
THEOREM KeysAlwaysComeBack == ConsoleSpec => []KeysComeBack
<1>1. ConsoleInv => KeysComeBack
  BY ConsoleIsInOrder
<1> QED
  BY <1>1, ConsoleInvHolds, PTL

(* No client of the feed misses, repeats or reorders a request between the *)
(* dump it was sent and what followed, for a ring of any capacity, any     *)
(* number of clients and any number of requests (recent of telemetry.ts,   *)
(* handleConnection of status-socket.ts).                                  *)
THEOREM FeedsAreComplete == ConsoleSpec => []FeedIsComplete
<1>1. ConsoleInv => FeedIsComplete
  BY ConsoleIsInOrder
<1> QED
  BY <1>1, ConsoleInvHolds, PTL

(* A dashboard that is connected shows the latest state of the guest or    *)
(* has it on the way, also after it was dropped as a subscriber of the     *)
(* requests (emitVmState of status-socket.ts, the getter in main.ts).      *)
THEOREM LatestStateArrives == ConsoleSpec => []ConnectedSeesLatestVm
<1>1. ConsoleInv => ConnectedSeesLatestVm
  BY ConsoleIsInOrder
<1> QED
  BY <1>1, ConsoleInvHolds, PTL

(* While nothing is under way, and no two modals have crossed, the server  *)
(* the dashboard keeps runs with the saved mode and default channel or a   *)
(* change is shown as pending, for any channels and any number of actions; *)
(* the allowed clients, which a server reads once, are no part of the      *)
(* claim (restartServer and setVmApplyPending).                            *)
THEOREM SettingsReachTheServer == ConsoleSpec => []ServerRunsSavedModeAndChannel
<1>1. ConsoleInv => ServerRunsSavedModeAndChannel
  BY ConsoleIsInOrder
<1> QED
  BY <1>1, ConsoleInvHolds, PTL

(* What a form, config set or the secrets editor wrote is what the next    *)
(* process loads: no answer, of any kind of field, is written in a shape   *)
(* the loader would refuse and silently replace (settings-forms.ts,        *)
(* guest-setup.ts, secrets.ts).                                            *)
THEOREM SavesComeBack == ConsoleSpec => []SavesLoadBack
<1>1. ConsoleInv => SavesLoadBack
  BY ConsoleIsInOrder
<1> QED
  BY <1>1, ConsoleInvHolds, PTL

(* A save changes the field it was asked to change and no other, for any   *)
(* number of saves, from a form or a flag, over settings loaded before     *)
(* other saves.  Of a document edited by hand it may drop, in the fields   *)
(* it was not asked for, the blanks around a text, a blank line and a      *)
(* package named again, and nothing else (wizard.ts, sections.ts,          *)
(* guest-setup.ts).                                                        *)
THEOREM SavesTouchOneField == ConsoleSpec => []SavesChangeOneField
<1>1. ConsoleInv => SavesChangeOneField
  BY ConsoleIsInOrder
<1> QED
  BY <1>1, ConsoleInvHolds, PTL

(* Doctor exits 1 where a server started now would end with an error, save *)
(* for a token that cannot be written and an address that is taken, which  *)
(* it does not look at; and only there, where a tool lacks its program or  *)
(* where config.json reads as the defaults.  Where it exits 0 a session    *)
(* whose image is not pinned finds one; the scans of the images agree; and *)
(* a default channel doctor passes yields a handle.  For any images and    *)
(* any settings (doctor.ts against main.ts, service.ts and configs.ts).    *)
THEOREM DoctorIsBelieved == ConsoleSpec => []DoctorForetells
<1>1. ConsoleInv => DoctorForetells
  BY ConsoleIsInOrder
<1> QED
  BY <1>1, ConsoleInvHolds, PTL

(* What saves the sandbox as off while a channel is public is the answer   *)
(* to the host exposure question, or, once modals have overlapped, a modal *)
(* that writes back the off it had captured (apply and                     *)
(* createTurnOffSandboxAction).                                            *)
THEOREM ExposureIsConfirmed == ConsoleSpec => HostExposureIsConfirmed
<1> DEFINE Asked == HostExposed => \E x \in Threads :
                      /\ flow'[x] # flow[x]
                      /\ flow[x].pc = "exposure" \/ (past.crossed /\ flow[x].was.mode = "off")
<1>1. ConsoleInv /\ [ConsoleNext]_consoleVars => [Asked]_dashVars
  <2> SUFFICES ASSUME ConsoleInv, [ConsoleNext]_consoleVars PROVE Asked
    OBVIOUS
  <2>1. ActionsTakeTurns /\ [DashNext]_dashVars
    BY EachPartSteps DEF ConsoleInv
  <2> QED
    BY <2>1, ExposureIsAsked
<1>2. HostExposureIsConfirmed <=> [][Asked]_dashVars
  BY DEF HostExposureIsConfirmed
<1> HIDE DEF Asked
<1> QED
  BY <1>1, <1>2, ConsoleInvHolds, PTL DEF ConsoleSpec

(* What the server has reported of a channel no probe overwrites, for any  *)
(* number of sweeps under way at once, and after quit nothing is shown     *)
(* any more (channel-probe.ts).                                            *)
THEOREM ServerIsAuthoritative == ConsoleSpec => ServerStaysAuthoritative
<1> DEFINE Stays == \A id \in ChannelIds : /\ live[id].by = "server" => live'[id].by = "server"
                                           /\ probe.quit => live'[id] = live[id]
<1>1. ConsoleInv /\ [ConsoleNext]_consoleVars => [Stays]_probeVars
  <2> SUFFICES ASSUME ConsoleInv, [ConsoleNext]_consoleVars PROVE Stays
    OBVIOUS
  <2>1. DOMAIN live = ChannelIds /\ [ProbeNext]_probeVars
    BY EachPartSteps DEF ConsoleInv
  <2> QED
    BY <2>1, ProbeKeeps
<1>2. ServerStaysAuthoritative <=> [][Stays]_probeVars
  BY DEF ServerStaysAuthoritative
<1> HIDE DEF Stays
<1> QED
  BY <1>1, <1>2, ConsoleInvHolds, PTL DEF ConsoleSpec

=============================================================================
