---------------------------- MODULE OperatorConsole ----------------------------
(***************************************************************************)
(* What an operator of openhammer drives from a terminal, in one           *)
(* specification: the dashboard as the keeper of a server process, the     *)
(* feed it reads from that server, its settings and its screens, the       *)
(* commands that build a golden image, the files all of them write, and    *)
(* the forms that fill those files, with the doctor that judges them; and  *)
(* the way of one of these files, the secrets, into the guest.             *)
(*                                                                         *)
(* The parts meet in few places, each of which one of them has in its own  *)
(* state (the server's life in ServerProcess, StatusFeed and Dashboard,    *)
(* the image in Dashboard, GuestBuild and GoldenScan), so a behaviour here *)
(* runs one part, chosen in its first state, and the others rest.          *)
(***************************************************************************)
EXTENDS ServerControl, StatusFeed, Dashboard, DashboardScreens, GuestBuild, HomeFiles,
        Doctor, GuestForms, Channels, SessionExtras, TLC

VARIABLE part   \* the part that runs

consoleVars == <<controlVars, feedVars, dashVars, screenVars, buildVars, homeVars,
                 settingsVars, guestVars, channelVars, probeVars, extrasVars, part>>

Parts == {"control", "feed", "dashboard", "screens", "build", "home", "settings", "guest", "secrets",
          "channels", "probe", "extras"}

\* The clients of the feed are interchangeable numbers: beside the dashboard, which
\* need not connect, one of each other kind is enough.
DashboardAndOther == kinds[1] = "dashboard" /\ \A c \in Clients \ {1} : kinds[c] # "dashboard"

\* A part that rests is in one of its initial states; the two lists of clients are alike.
ConsoleInit ==
  /\ part \in Parts
  /\ ControlInit
  /\ FeedInit   /\ (part # "feed" => kinds = [c \in Clients |-> "dashboard"])
                /\ (part = "feed" => DashboardAndOther)
  /\ DashInit   /\ doc.clients = "any"
                /\ (part # "dashboard" => /\ doc = NoSettings /\ image = "none" /\ ~launch.owned
                                         /\ server = Booted(doc))
  /\ ScreensInit /\ (part # "screens" => lists.channels = 0 /\ ~lists.golden)
  /\ BuildInit  /\ (part # "build" => wanted.guest = CHOOSE g \in Guests : TRUE)
                /\ (part # "build" => wanted.flavor = "base")
  /\ HomeInit
  /\ SettingsInit /\ (part # "settings" => config = NoDocument("absent"))
  /\ GuestInit  /\ (part # "guest" => guest.is = "absent")
                /\ (part # "secrets" => vault = [env |-> {}, files |-> <<>>] /\ sandbox.image = 0)
  /\ ChannelsInit /\ (part \notin {"channels", "probe"} => entries = NoChannels)
                  /\ (part # "channels" => authtokens = {})
  /\ ExtrasInit /\ (part # "extras" => /\ secrets = [pair |-> "word", mapped |-> FALSE]
                                         /\ credential = "missing"
                                         /\ extras = NoExtras("vm"))

Resting(p) ==
  /\ IF p = "control"   THEN TRUE ELSE UNCHANGED controlVars
  /\ IF p = "feed"      THEN TRUE ELSE UNCHANGED feedVars
  /\ IF p = "dashboard" THEN TRUE ELSE UNCHANGED dashVars
  /\ IF p = "screens"   THEN TRUE ELSE UNCHANGED screenVars
  /\ IF p = "build"     THEN TRUE ELSE UNCHANGED buildVars
  /\ IF p = "home"      THEN TRUE ELSE UNCHANGED homeVars
  /\ IF p = "settings"  THEN TRUE ELSE UNCHANGED <<config, form, saves, lastSave>>
  /\ IF p \in {"guest", "secrets"}  THEN TRUE ELSE UNCHANGED <<guestFormVars, secretsVars, runningVars, turns>>
  /\ IF p \in {"settings", "guest"} THEN TRUE ELSE UNCHANGED goldenVars
  /\ IF p = "channels"  THEN TRUE ELSE UNCHANGED channelVars
  /\ IF p = "probe"     THEN TRUE ELSE UNCHANGED probeVars
  /\ IF p = "extras"    THEN TRUE ELSE UNCHANGED extrasVars

Runs(p) == part = p /\ UNCHANGED part

ConsoleNext ==
  \/ Runs("control")   /\ ControlNext  /\ Resting("control")
  \/ Runs("feed")      /\ FeedNext     /\ Resting("feed")
  \/ Runs("dashboard") /\ DashNext     /\ Resting("dashboard")
  \/ Runs("screens")   /\ ScreensNext  /\ Resting("screens")
  \/ Runs("build")     /\ BuildNext    /\ Resting("build")
  \/ Runs("home")      /\ HomeNext     /\ Resting("home")
  \/ Runs("settings")  /\ SettingsNext /\ Resting("settings")
  \/ Runs("guest")     /\ GuestNext    /\ Resting("guest")
  \/ Runs("secrets")   /\ SecretsNext  /\ Resting("secrets")
  \/ Runs("channels")  /\ ChannelsNext /\ Resting("channels")
  \/ Runs("probe")     /\ ProbeNext    /\ Resting("probe")
  \/ Runs("extras")    /\ ExtrasNext   /\ Resting("extras")

ConsoleSpec == ConsoleInit /\ [][ConsoleNext]_consoleVars

-----------------------------------------------------------------------------
(* No document is ever part of one: none under ~/.openhammer, whatever     *)
(* other processes write at the same time, and none in the guest that a    *)
(* push has reported as delivered.                                         *)
DocumentsStayWhole ==
  /\ part = "home" => HomeStaysWhole
  /\ part = "extras" => PushReportIsTrue

(* What a form, config set or the secrets editor wrote is what the next    *)
(* process loads: no answer is written in a shape the loader would refuse  *)
(* and silently replace.  Of config.json, guest.json and the secrets.      *)
SavesLoadBack ==
  /\ part = "settings" => SettingsLoadBack
  /\ part \in {"guest", "secrets"} => GuestLoadBack

(* A save changes the field it was asked to change and no other: the       *)
(* promise of cli.ts:497-498, and the forms'.  Where a document was edited *)
(* by hand, blanks and repeats that a form cannot hold may go with the     *)
(* save of another field, and what the field says stays.                   *)
SavesChangeOneField ==
  /\ part = "settings" => OnlyTheTargetChanges
  /\ part = "guest" => OnlyTheAnswerChanges

(* Doctor's verdict is what a server started now would meet: it exits 1    *)
(* where main() would end with an error, a token or an address that cannot *)
(* be had excepted, and otherwise only where a tool would lack its program *)
(* or config.json reads as the defaults; where it exits 0 the service      *)
(* finds its image, if none is pinned (Doctor).  Every scan of the images  *)
(* means the same one (GoldenScan), and a default channel doctor passes    *)
(* yields a handle (Channels).  An open form changes nothing of it.        *)
DoctorForetells ==
  /\ part = "settings" /\ form = NoForm => DoctorForetellsBoot /\ ScansAgree
  /\ part = "channels" => DoctorForetellsChannel
=============================================================================
