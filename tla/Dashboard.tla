------------------------------- MODULE Dashboard -------------------------------
(***************************************************************************)
(* The dashboard's actions (tui/dashboard.ts) on what they share: the      *)
(* settings document on disk, the store's copy of it (tui/dashboard/       *)
(* store.ts), the golden image, and the running server, which reads the    *)
(* document once, when it boots.                                           *)
(*                                                                         *)
(* Two actions may be under way at once: keys are dead while a modal is    *)
(* open, but a sandbox command and a golden build run without one, and the *)
(* question that ends a build opens over whatever is open then.  Beside    *)
(* them the vm-state lines arrive, and images are built in another         *)
(* terminal.                                                               *)
(*                                                                         *)
(* Left out: clients, login, doctor, guest setup and secrets, which do not *)
(* touch the settings; of the vm settings, all but the mode; and the       *)
(* commands that write the document from another terminal, whose changes   *)
(* the next action here overwrites with its own copy.                      *)
(***************************************************************************)
EXTENDS Naturals, FiniteSets

CONSTANTS Channels, PublicChannels,  \* channel entries; those not bound to loopback
          MaxActions,                \* bound: actions the operator starts
          MaxImages                  \* bound: images built in another terminal

ASSUME DashboardAssumption ==
  /\ PublicChannels \subseteq Channels /\ "none" \notin Channels
  /\ MaxActions \in Nat /\ MaxImages \in Nat

Threads == 1 .. 2
Modes == {"off", "vm", "agent"}
ClientLists == {"any", "some"}   \* mcp.allowedClients
Settings == {s \in [mode : Modes, channels : SUBSET Channels, default : Channels \cup {"none"},
                    clients : ClientLists] : s.default \in s.channels \cup {"none"}}
Images == {"none", "base", "agent"}  \* the flavor of the newest golden image

VARIABLES
  doc,     \* settings.json
  store,   \* DashboardStore: settings, vmApplyPending, hasGoldenCache, latestVmState
  image,   \* the newest golden image
  server,  \* the running server: up, the mode and channel it read when it booted; its session
  launch,  \* whether the dashboard owns it, and the flags it hands to every spawn
  flow,    \* the actions under way
  past     \* actions started, images built elsewhere, whether modals overlapped

dashVars == <<doc, store, image, server, launch, flow, past>>

\* was: the store's settings when the action read them; next: what it will save.
NoSettings == [mode |-> "off", channels |-> {}, default |-> "none", clients |-> "any"]
NoFlow == [kind |-> "none", pc |-> "none", was |-> NoSettings, next |-> NoSettings]

\* --vm and --channel win over the document, at every spawn.
Effective(s) ==
  [mode |-> IF launch.mode = "unset" THEN s.mode ELSE launch.mode,
   default |-> IF launch.channel = "unset" THEN s.default ELSE launch.channel]

Booted(s) ==
  [up |-> TRUE, mode |-> Effective(s).mode, default |-> Effective(s).default,
   session |-> IF Effective(s).mode = "off" THEN "none" ELSE "active"]

\* A server that boots in a sandboxed mode has found an image.
Bootable(s) == Effective(s).mode = "off" \/ image # "none"

DashInit ==
  /\ doc \in Settings /\ image \in Images
  /\ store = [settings |-> doc, pending |-> FALSE, golden |-> "unknown", session |-> "none"]
  /\ launch \in [owned : BOOLEAN, mode : {"unset", "vm"}, channel : {"unset"} \cup Channels]
  /\ ~launch.owned => launch.mode = "unset" /\ launch.channel = "unset"
  /\ \E s \in Settings : /\ launch.owned => s = doc
                         /\ Bootable(s) /\ server = Booted(s)
  /\ flow = [x \in Threads |-> NoFlow]
  /\ past = [started |-> 0, images |-> 0, crossed |-> FALSE]

-----------------------------------------------------------------------------
(* What the store derives, and when keys reach the dashboard.              *)

\* Broken variant: only the default channel counts.
HasPublicDefault(s) == s.default \in PublicChannels

HasPublicChannel(s) == s.channels \cap PublicChannels # {}

SessionActive == store.session = "active"

\* hasGolden is looked up once, by a render or by an action, and then kept.
HasGolden == IF store.golden = "unknown" THEN image # "none" ELSE store.golden = "yes"
Looked == [store EXCEPT !.golden = IF HasGolden THEN "yes" ELSE "no"]

\* A guarded command, or a build, runs without a modal.
InFlight(x) == \/ flow[x].pc = "sending" /\ flow[x].kind \in {"stopSandbox", "restartSandbox"}
               \/ flow[x].pc = "building"
Modal(x) == flow[x].kind # "none" /\ ~InFlight(x)

\* suspend and resume are not nested: the first of two modals to close hands
\* the keys back.
KeysReach == Cardinality({x \in Threads : Modal(x)}) <= (IF past.crossed THEN 1 ELSE 0)

\* The action enters its first await in a thread of its own.
Enter(kind, pc) ==
  /\ KeysReach /\ past.started < MaxActions
  /\ past' = [past EXCEPT !.started = @ + 1]
  /\ \E x \in Threads :
       /\ flow[x] = NoFlow /\ \A y \in Threads : y < x => flow[y] # NoFlow
       /\ flow' = [flow EXCEPT ![x] = [NoFlow EXCEPT !.kind = kind, !.pc = pc, !.was = store.settings]]

At(x, kind, pc) == flow[x].kind = kind /\ flow[x].pc = pc
Ended(x) == flow' = [flow EXCEPT ![x] = NoFlow]
Moved(x, pc) == flow' = [flow EXCEPT ![x].pc = pc]

\* persist, then setSettings; a write that throws ends the action before both.
Save(x, s, pc) ==
  \/ /\ doc' = s /\ store' = [store EXCEPT !.settings = s]
     /\ IF pc = "none" THEN Ended(x) ELSE flow' = [flow EXCEPT ![x].pc = pc, ![x].next = s]
  \/ UNCHANGED <<doc, store>> /\ Ended(x)

-----------------------------------------------------------------------------
(* restartServer and sendVmCommand.                                        *)

\* A server the dashboard did not start is not restarted.
RestartRefused(x) ==
  /\ flow[x].pc = "restart" /\ ~launch.owned
  /\ store' = [store EXCEPT !.pending = @ \/ flow[x].kind \in {"configure", "turnOff"}]
  /\ Ended(x) /\ UNCHANGED <<doc, image, server, launch, past>>

\* The old server ends; a command in flight loses its answer with it.
RestartStops(x) ==
  /\ flow[x].pc = "restart" /\ launch.owned
  /\ server' = [server EXCEPT !.up = FALSE]
  /\ flow' = [y \in Threads |-> IF y = x THEN [flow[y] EXCEPT !.pc = "respawn"]
                                ELSE IF flow[y].pc = "sending" THEN NoFlow ELSE flow[y]]
  /\ UNCHANGED <<doc, store, image, launch, past>>

\* The new one reads the document; the boot may fail, and must without an image.
Respawn(x) ==
  /\ flow[x].pc = "respawn"
  /\ \E ok \in {FALSE, Bootable(doc)} :
       /\ server' = IF ok THEN Booted(doc) ELSE server
       /\ store' = IF flow[x].kind \in {"configure", "turnOff"}
                   THEN [store EXCEPT !.pending = ~ok] ELSE store
  /\ Ended(x) /\ UNCHANGED <<doc, image, launch, past>>

\* vm-stop or vm-restart: refused without a sandbox; else it runs, and the
\* answer may be lost.  vm-restart boots with what the server read at its boot.
CommandSettles(x) ==
  /\ flow[x].pc = "sending"
  /\ \E runs \in {FALSE, server.up /\ server.mode # "off"} : \E heard \in BOOLEAN :
       /\ server' = IF ~runs THEN server
                    ELSE [server EXCEPT !.session = IF flow[x].kind = "stopSandbox" THEN "ended" ELSE "active"]
       /\ store' = IF runs /\ heard /\ flow[x].kind = "restartSandbox"
                   THEN [store EXCEPT !.pending = FALSE] ELSE store
  /\ Ended(x) /\ UNCHANGED <<doc, image, launch, past>>

-----------------------------------------------------------------------------
(* editSettings, configureVm; addChannel, removeChannel, useChannel.       *)

EditSettings ==
  Enter("configure", "wizard") /\ UNCHANGED <<doc, store, image, server, launch>>

\* The answers to one section are applied to the settings of before: a mode needs an
\* image; the allowed clients are saved, and nothing tells the server.
WizardSaved(x) ==
  /\ At(x, "configure", "wizard")
  /\ LET was == flow[x].was
     IN \/ \E mode \in Modes :
             LET next == [was EXCEPT !.mode = mode]
             IN /\ mode # "off" => image # "none"
                /\ IF was.mode # "off" /\ mode = "off" /\ HasPublicChannel(next)
                   THEN /\ flow' = [flow EXCEPT ![x].pc = "exposure", ![x].next = next]
                        /\ UNCHANGED <<doc, store>>
                   ELSE Save(x, next, IF mode # was.mode THEN "restart" ELSE "none")
        \/ \E clients \in ClientLists : Save(x, [was EXCEPT !.clients = clients], "none")
  /\ UNCHANGED <<image, server, launch, past>>

AddChannel ==
  /\ store.settings.channels # Channels
  /\ Enter("channel", "adding") /\ UNCHANGED <<doc, store, image, server, launch>>

ChannelAdded(x) ==
  /\ At(x, "channel", "adding")
  /\ \E c \in Channels \ flow[x].was.channels :
       LET first == flow[x].was.channels = {}
           next == [flow[x].was EXCEPT !.channels = @ \cup {c}, !.default = IF first THEN c ELSE @]
       IN Save(x, next, IF first THEN "restart" ELSE "none")
  /\ UNCHANGED <<image, server, launch, past>>

RemoveChannel ==
  /\ store.settings.channels # {}
  /\ Enter("channel", "removing") /\ UNCHANGED <<doc, store, image, server, launch>>

\* The settings are read again after the question.
ChannelRemoved(x) ==
  /\ At(x, "channel", "removing")
  /\ \E c \in store.settings.channels :
       LET default == store.settings.default
           next == [store.settings EXCEPT !.channels = @ \ {c}, !.default = IF @ = c THEN "none" ELSE @]
       IN Save(x, next, IF default = c THEN "restart" ELSE "none")
  /\ UNCHANGED <<image, server, launch, past>>

\* No question: saved at once, and the restart's outcome is not looked at.
UseChannel ==
  /\ KeysReach /\ past.started < MaxActions
  /\ past' = [past EXCEPT !.started = @ + 1]
  /\ \E c \in store.settings.channels \ {store.settings.default}, x \in Threads :
       /\ flow[x] = NoFlow /\ \A y \in Threads : y < x => flow[y] # NoFlow
       /\ doc' = [store.settings EXCEPT !.default = c]
       /\ store' = [store EXCEPT !.settings = doc']
       /\ flow' = [flow EXCEPT ![x] = [NoFlow EXCEPT !.kind = "channel", !.pc = "restart"]]
  /\ UNCHANGED <<image, server, launch>>

-----------------------------------------------------------------------------
(* turnOffSandbox and startSandbox.                                        *)

TurnOff ==
  /\ store.settings.mode # "off"
  /\ Enter("turnOff", IF HasPublicChannel(store.settings) THEN "exposure" ELSE "saving")
  /\ UNCHANGED <<doc, store, image, server, launch>>

\* The answer to the host exposure question, or none was needed.
TurnedOff(x) ==
  /\ At(x, "turnOff", "exposure") \/ At(x, "turnOff", "saving")
  /\ Save(x, [flow[x].was EXCEPT !.mode = "off"], "restart")
  /\ UNCHANGED <<image, server, launch, past>>

ExposureAccepted(x) ==
  /\ At(x, "configure", "exposure")
  /\ Save(x, flow[x].next, "restart")
  /\ UNCHANGED <<image, server, launch, past>>

\* Offered only while the latest line shows no session.
StartSandbox ==
  /\ ~SessionActive /\ Looked.golden = "yes"
  /\ Enter("start", IF store.settings.mode = "off" THEN "pick" ELSE "flavor")
  /\ store' = Looked
  /\ UNCHANGED <<doc, image, server, launch>>

ModePicked(x) ==
  /\ At(x, "start", "pick")
  /\ \E mode \in {"vm", "agent"} : Save(x, [store.settings EXCEPT !.mode = mode], "flavor")
  /\ UNCHANGED <<image, server, launch, past>>

\* Agent mode over another image asks; then the restart or the command.
FlavorAccepted(x) ==
  /\ At(x, "start", "flavor")
  /\ Moved(x, IF flow[x].was.mode = "off" THEN "restart" ELSE "sending")
  /\ UNCHANGED <<doc, store, image, server, launch, past>>

AgentOverBase(x) == image # "agent" /\ "agent" = IF flow[x].was.mode = "off" THEN flow[x].next.mode
                                                  ELSE flow[x].was.mode

\* Broken variant: the saved mode is not marked as not applied.
FlavorDeclinedSilently(x) ==
  /\ At(x, "start", "flavor") /\ AgentOverBase(x)
  /\ Ended(x)
  /\ UNCHANGED <<doc, store, image, server, launch, past>>

\* The picked mode stays saved, and is marked as not applied.
FlavorDeclined(x) ==
  /\ At(x, "start", "flavor") /\ AgentOverBase(x)
  /\ store' = [store EXCEPT !.pending = @ \/ flow[x].was.mode = "off"]
  /\ Ended(x)
  /\ UNCHANGED <<doc, image, server, launch, past>>

\* A wizard or a question is cancelled or declined: nothing is saved.
Cancelled(x) ==
  /\ flow[x].pc \in {"wizard", "adding", "removing", "exposure", "pick", "asking", "offer"}
  /\ Ended(x)
  /\ UNCHANGED <<doc, store, image, server, launch, past>>

-----------------------------------------------------------------------------
(* stopSandbox, restartSandbox and installSandbox, one at a time.          *)

StopSandbox == Enter("stopSandbox", "asking") /\ UNCHANGED <<doc, store, image, server, launch>>

StopConfirmed(x) ==
  /\ At(x, "stopSandbox", "asking")
  /\ IF \E y \in Threads : InFlight(y) THEN Ended(x) ELSE Moved(x, "sending")
  /\ UNCHANGED <<doc, store, image, server, launch, past>>

RestartSandbox ==
  /\ \A y \in Threads : ~InFlight(y)
  /\ Enter("restartSandbox", "sending") /\ UNCHANGED <<doc, store, image, server, launch>>

InstallSandbox ==
  /\ ~HasGolden /\ ~SessionActive /\ \A y \in Threads : ~InFlight(y)
  /\ Enter("install", "building") /\ store' = Looked
  /\ UNCHANGED <<doc, image, server, launch>>

\* The chain fails, or seals an image; the question opens over what is open.
BuildEnds(x) ==
  /\ At(x, "install", "building")
  /\ \/ UNCHANGED <<store, image, past>> /\ Ended(x)
     \/ /\ image' \in {"base", "agent"}
        /\ store' = [store EXCEPT !.golden = "unknown"]
        /\ Moved(x, "offer")
        /\ past' = [past EXCEPT !.crossed = @ \/ \E y \in Threads : Modal(y)]
  /\ UNCHANGED <<doc, server, launch>>

\* Yes: the start action, in the same thread, with the settings of now.
OfferAccepted(x) ==
  /\ At(x, "install", "offer")
  /\ IF HasGolden
     THEN flow' = [flow EXCEPT ![x] = [NoFlow EXCEPT !.kind = "start", !.was = store.settings,
                     !.pc = IF store.settings.mode = "off" THEN "pick" ELSE "flavor"]]
     ELSE Ended(x)
  /\ store' = Looked
  /\ UNCHANGED <<doc, image, server, launch, past>>

-----------------------------------------------------------------------------
(* What happens beside the actions.                                        *)

Rendered == store.golden = "unknown" /\ store' = Looked /\ UNCHANGED <<doc, image, server, launch, flow, past>>

\* The sandbox of the running server fails, or is reaped when idle.
SessionEnds ==
  /\ server.up /\ server.session = "active"
  /\ server' = [server EXCEPT !.session = "ended"]
  /\ UNCHANGED <<doc, store, image, launch, flow, past>>

\* A server without a sandbox sends no line: the store keeps the last one.
LineArrives ==
  /\ server.up /\ server.session \notin {"none", store.session}
  /\ store' = [store EXCEPT !.session = server.session]
  /\ UNCHANGED <<doc, image, server, launch, flow, past>>

\* `vm snapshot` in another terminal.
ImageBuilt ==
  /\ past.images < MaxImages
  /\ past' = [past EXCEPT !.images = @ + 1]
  /\ image' \in {"base", "agent"}
  /\ UNCHANGED <<doc, store, server, launch, flow>>

DashNext ==
  \/ EditSettings \/ AddChannel \/ RemoveChannel \/ UseChannel \/ TurnOff \/ StartSandbox
  \/ StopSandbox \/ RestartSandbox \/ InstallSandbox
  \/ Rendered \/ SessionEnds \/ LineArrives \/ ImageBuilt
  \/ \E x \in Threads :
       \/ RestartRefused(x) \/ RestartStops(x) \/ Respawn(x) \/ CommandSettles(x)
       \/ WizardSaved(x) \/ ChannelAdded(x) \/ ChannelRemoved(x) \/ TurnedOff(x) \/ ExposureAccepted(x)
       \/ ModePicked(x) \/ FlavorAccepted(x) \/ FlavorDeclined(x) \/ Cancelled(x)
       \/ StopConfirmed(x) \/ BuildEnds(x) \/ OfferAccepted(x)

DashSpec == DashInit /\ [][DashNext]_dashVars

-----------------------------------------------------------------------------
DashTypeOK ==
  /\ doc \in Settings /\ store.settings \in Settings /\ image \in Images
  /\ \A x \in Threads : flow[x].was \in Settings /\ flow[x].next \in Settings

(* While nothing is under way, the server the dashboard started runs with  *)
(* the saved mode and default channel (as far as its launch flags leave    *)
(* them to the document) or the dashboard shows that a change is still to  *)
(* be applied; a restart that failed leaves no server instead.  Modals     *)
(* that overlapped are the exception, and of the allowed clients nothing   *)
(* of the kind holds: they are saved, and the server keeps those it read   *)
(* at its boot.  About setVmApplyPending and restartIfDefaultChanged.      *)
ServerRunsSavedModeAndChannel ==
  launch.owned /\ server.up /\ ~past.crossed /\ (\A x \in Threads : flow[x] = NoFlow)
    => \/ store.pending
       \/ server.mode = Effective(doc).mode /\ server.default = Effective(doc).default

\* The mode off replaces a sandboxed one while some channel is public.
HostExposed == doc.mode # "off" /\ doc'.mode = "off" /\ doc'.channels \cap PublicChannels # {}

(* The action that saves mode off over a sandboxed mode, while some        *)
(* channel is public (the default one or not), is the answer to the host   *)
(* exposure question, whatever ran beside it; or modals have overlapped,   *)
(* and it writes back an off that it captured before another one picked a  *)
(* mode.  About the confirm in apply and in createTurnOffSandboxAction.    *)
HostExposureIsConfirmed ==
  [][HostExposed => \E x \in Threads :
       /\ flow'[x] # flow[x]
       /\ flow[x].pc = "exposure" \/ (past.crossed /\ flow[x].was.mode = "off")]_dashVars

(* dashboard.ts:728-732, of the settings actions: "`vm`/`agent` -> `off`   *)
(* with a public channel configured ... asks ONE confirm"; "anything but   *)
(* an explicit `true` ... cancels the whole apply - nothing is persisted". *)
EditsAskBeforeExposure ==
  [][HostExposed => \A x \in Threads :
       flow'[x] # flow[x] /\ flow[x].kind = "configure" => flow[x].pc = "exposure"]_dashVars
=============================================================================
