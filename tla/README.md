# OpenHammer in TLA+

OpenHammer is an MCP server that gives a remote assistant tools (bash, files, search) on the
operator's machine or inside a QEMU guest. This directory holds TLA+ models of its parts, the TLC
configurations that check them on small instances, and TLAPS proofs about them. Paths such as
`vm/service.ts` are relative to `src/src/`.

    tlc -config VmOverlap.cfg MCVmService          # one file per run, see "Runs"
    tlc -config VmTreeServers.cfg VmTree
    tlc -config OperatorConsole.cfg OperatorConsole
    tlapm VmServiceProofs.tla                      # likewise the other modules *Proofs.tla

## 1. Inventory

| Component | State it keeps | Operations | What makes it hard |
| --- | --- | --- | --- |
| VM session service, `vm/service.ts` | state, epoch, session and paths, QEMU handle, backend, port, relaunch flag, idle timer | `start`, `stop`, `ensureReady`, the boot, the relaunch, the idle reaper | a dozen awaits per boot, overtaken by stops, restarts, deaths and other tool calls |
| Session directories, `vm/session.ts` | `sessions/<id>/`: overlay, VARS, pidfile | prepare, sweep | leftovers of a killed server, recycled pids, retained overlays that must survive |
| QEMU process, `vm/qemu/process.ts` | child, exit info, QMP client | `startQemu`, `stopQemu` | exits at any await, failed starts, a process that survives SIGKILL |
| QMP client, `vm/qmp/*` | pending commands by id, receive buffer | `execute`, close | timeouts and late replies on a stream that is cut anywhere and dies at any time |
| Delegating backend, `vm/boot-backend.ts` | the last resolved backend | every tool call | a cached backend of a session that is gone |
| SSH backend, `vm/backend.ts`, `vm/ssh.ts`, `vm/fs-ssh.ts` | mux socket | shell, argv and file operations | abort, timeouts, loss of the master connection |
| Provisioning, `vm/provision/*` | build directories, golden images and their manifests | install, provision, snapshot, reset, gc | long pipelines that may crash between any two steps |
| OAuth server, `auth/oauth/*` | codes, pending and registered clients, refresh tokens | register, authorize, exchange, refresh, approve, revoke | single use, expiry, rotation, a client file shared by server and CLI |
| Gate, `auth/token.ts`, `auth/middleware.ts` | the secret resolved at boot, token file | mint, verify | a gate and a grant that resolve the secret at different times |
| Status socket, `observability/status-socket.ts` | clients, latest lines | broadcast, dump, operator commands | slow and vanishing clients, commands answered before they complete |
| Telemetry, `mcp/telemetry.ts` | ring of requests, subscribers | record, subscribe, close | wrap-around |
| Dashboard, `tui/dashboard/*` | child process, socket connection, probes, store | start, stop and restart of the server; commands | grace periods, reconnects, answers that arrive late |
| Tunnels, `tunnel/*` | a child process or a provider's forward | start, stop, boot resolution | a tunnel that answers after its timeout |
| Configuration, `config/*` | settings, credentials | read, merge, write | several processes, no lock |
| Tools, `tools/*` | none; the output accumulator per command | read, write, edit, bash, grep, find, ls | truncation boundaries, streaming |
| Server process, `main.ts` | the tunnel, the sandbox, the listener, the signal handlers | boot, shutdown | signals before there is a handler, a boot that fails half-way, a shutdown in the middle of a boot of the sandbox |
| Dashboard actions and screens, `tui/dashboard.ts`, `tui/dashboard/root.ts`, `screens.ts` | its copy of the settings, pending notes, the screen stack, suspended keys | one action per row | two actions at once, questions asked of settings that changed meanwhile |
| Wizards, `tui/wizard.ts`, `tui/wizards/*`, `config/sections.ts` | the seeded answers | seed, ask, reduce, write | what a form accepts against what a loader accepts |
| Doctor, `cli/doctor.ts`, and the preflight, `vm/preflight.ts` | none | one check per row | a prediction of a boot made by other code than the boot |
| Command line, `cli*` | none | parsing, one-shot commands | several processes on the same files |

How they interact: `main.ts` builds the service and calls `start()` without waiting; every tool call
goes through the delegating backend to `ensureReady()`; the status socket turns `vm-stop` and
`vm-restart` into `stop()` and `stop()` then `start()`, and streams the state transitions back to
the dashboard, which runs the server as its child; the service drives session directories, QEMU,
QMP and ssh. The behaviours that are hard to test are listed, each at its line, under "hazards" in
`PROJECT.json`.

What makes the components correct, in one line each:

- VM service: at most one guest; a stopped session stays stopped; calls reach the guest whose death
  is watched; one relaunch per start; the retained overlay survives.
- Sessions and sweep: no orphan QEMU survives the next boot, no live foreign process and no retained
  overlay is touched.
- Provisioning: an image with a manifest is complete and was provisioned; nothing in use is removed.
- QMP and QEMU: an answer settles the command it belongs to, or none; no child survives its failed start.
- OAuth: a code buys tokens once; a rotated refresh token is dead; a revoked client gets nothing.
- Configuration: no document is ever part of one; what was saved loads back; a save changes one field.
- Server process and its keeper: a shutdown takes the tunnel and the sandbox with it; every server the
  dashboard spawned is ended when it is.
- Dashboard: a running server has the saved mode and channel, or the screen says that it has not; a host is
  never exposed without a question; the keys come back.
- Doctor: of what it looks at, what it passes boots and what it fails does not.
- Tools: what is cut from an answer is said to be cut, and is nowhere lost.
- Status socket and dashboard: a client sees the latest state after it connects; a restart ends with
  one server running.
- Tunnels: no forward outlives the boot that asked for it.

## 2. Modules

| Module | Models |
| --- | --- |
| `VmService.tla` | `vm/service.ts` with the parts of `vm/session.ts`, `vm/qemu/process.ts` and `main.ts` it drives |
| `SandboxLifecycle.tla` | what the service promises: the state diagram at the head of `vm/service.ts` |
| `VmServiceRefinement.tla` | the mapping from the first to the second |
| `VmServiceProofs.tla` | theorems about `VmService`, whatever overlaps |
| `VmSerialProofs.tla` | its refinement, while operations do not overlap |
| `MCVmService.tla` | model checking instance of the above |
| `VmTree.tla` | the `~/.openhammer/vm` tree between operating-system processes: servers, commands, QEMUs, crashes |
| `VmTreeProofs.tla` | theorems about `VmTree` |
| `QemuProcess.tla` | one QEMU child, the QMP connection to it, its users and the stop ladder: `vm/qemu/process.ts`, `vm/qmp/*` |
| `QemuProcessProofs.tla` | theorems about `QemuProcess` |
| `OAuthServer.tla` | `auth/oauth/*`, the gate, and the credentials file shared with other processes |
| `OAuthServerProofs.tla` | theorems about `OAuthServer` |
| `Truncation.tla` | the pure operators of `tools/truncate.ts` and `tools/edit-diff.ts` |
| `BashTool.tla`, `SearchTools.tla`, `FileTools.tla` | one call of bash; of grep, find or ls; requests of read, edit and write on one file |
| `DelegatingBackend.tla` | `vm/boot-backend.ts` over a service that boots and stops |
| `ToolServer.tla` | the four above as calls of the MCP server (`mcp/server.ts`) |
| `ToolServerProofs.tla` | theorems about the four: the tail, the spill file, the pages, the edits, the search, the cached backend |
| `ServerProcess.tla` | `main.ts` as a process: boot, tunnel, the QEMUs of its sandbox, signals, shutdown |
| `ServerControl.tla` | the dashboard as the keeper of those processes: `tui/dashboard/server-control.ts` |
| `ServerControlProofs.tla` | theorems about the two |
| `StatusFeed.tla` | request ring, status socket and its clients |
| `Dashboard.tla` | the dashboard's actions on the settings, the server and the image: `tui/dashboard.ts` |
| `DashboardScreens.tla` | its screens, rows, modals and keys |
| `GuestBuild.tla` | install, provision and snapshot from the inside: the guest, the gate, the poweroff, the manifest |
| `HomeFiles.tla` | the documents under `~/.openhammer` between processes, one system call at a time |
| `FormWizard.tla` | the engine of the forms: seeds, blank answers, flags |
| `GoldenScan.tla` | which image is the newest: seven scans of the same directory |
| `SettingsForms.tla` | config.json, its sections, `config set` and the edit screens |
| `Doctor.tla` | `cli/doctor.ts` against what `main()` demands (`config.ts`, `vm/preflight.ts`, `main.ts`) and which image the service finds |
| `GuestForms.tla` | guest.json, the secrets store and provision.sh, and the commands to a running guest |
| `Channels.tla` | the channel list and its secrets, what a boot makes of them, the dashboard's probe |
| `SessionExtras.tla` | the push of the secrets into the guest, the agent's session, the shells after them |
| `OperatorConsole.tla` | the modules above from `ServerProcess` to `SessionExtras` in one specification |
| `OperatorConsoleProofs.tla` | theorems about its parts |

`VmService` looks at one server process and lets its activations interleave. `VmTree` looks at the
files and lets processes interleave: there a server is a single boot-and-stop loop, and a crash
replaces it by a new one. `QemuProcess` opens the steps `Spawn` and `LadderStops` of the service,
`DelegatingBackend` is the service's caller, `ServerProcess` the process around both.

### VmService: state and actions

The service is one JavaScript object, so code between two awaits is atomic and every await is a
point where anything else may run. An activation of `runBoot()`, `onDeathDetected()` or `stop()` is
a record with a `pc`; one action is the code from one await to the next. The service's fields are
variables of the same name (`session` stands for `sessionId` and `paths`, which are assigned
together; `reaperTimer` for `reaperTimer # null`). QEMU processes, handles, backends and ports are
numbered by the boot that made them, so `handle = 2` is the handle of the second boot.

| Action | Code |
| --- | --- |
| `Start`, `RestartStarts` | `start()`; in "booting" and "ready" it changes nothing |
| `Sweep` | the sweep returns, `locateGolden()`, `resolveSessionId()`, the reuse half of `prepareOrReuse()` |
| `Prepare` | `prepareSession()` settles, including its two partial failures |
| `Spawn`, `SpawnDone` | the child is spawned; `startQemu()` settles, or its `abandonQemu()` ends |
| `SshConfirm` | unlock, `awaitSshConfirmation()`, `this.sshPort` |
| `Extras` | backend, secrets, agent session; the last epoch check; publication |
| `Abandon`, `FailPower`, `FailSettle` | the two branches of the catch block |
| `ToolCall`, `DetectDeath` | `ensureReady()` on a live and on a dead guest |
| `GiveUp`, `ClaimRelaunch`, `Reap`, `DropDeadSession` | `onDeathDetected()` |
| `Stop`, `Restart`, `MuxClosed`, `Powerdown`, `Teardown` | `stop()`, and `vm-restart` of `main.ts` |
| `ReaperFires`, `ReaperStops` | the idle timer and `reapIdle()` |
| `QemuDies` | a guest powers off, crashes or is killed by the host |

The host appears as `qemu` (none, alive, wedged: it has survived SIGKILL, exited), `dir` (which of
the files `prepareSession()` writes exist, and which boot made the overlay) and `pidfile`. QEMU
writes its pidfile when it starts and may or may not remove it when it ends. The image lock of
QEMU keeps a second process off an overlay in use.

Every awaited operation may fail where the code handles failure; two constants switch on the
failures that the code logs or passes on: `"ladder"` (a process survives SIGKILL) and `"disk"`
(`qemu-img`, copies and removals fail).

`Overlap = FALSE`, in the run `VmSerial`, restricts the environment: a command, a tool call or the idle timer comes only
when no stop or relaunch is under way, and a start only when no boot is either. stop() may still
overtake a boot. This is how the documented state diagram is meant to be read; with `Overlap =
TRUE` nothing is restricted, which is what the code allows.

### VmTree: state and actions

`dir` is `sessions/<id>`: whether it is there, whether its name marks it as a build, its files, the
image its overlay is backed by, and the pid in its `qemu.pid`. `golden` is `images/golden-<id>` with the
files promoted so far. Directory 0 is the one that `MCP_VM_SESSION_ID` names; other directories and
the images are numbered in the order of the stamps in their names. `vm` are the QEMU processes: a
QEMU is starting until it holds its locks and has written its pidfile; once killed it is "dying"
until it is reaped, and then its number may come back as an "alien", a foreign program with the
recycled pid. `passed` on a directory and an image, `exposed` on a directory and `orphans` in the server are
history: the code has no such fields, the properties need them. An overlay is exposed when nothing makes gc
spare its image: it was made from an image that was already beyond those gc keeps, or `qemu-img info`
failed on it, and no gc has read it since.

| Action | Code |
| --- | --- |
| `BeginBoot`, `SweepRead`, `SweepJudge`, `SweepRemove` | `sweepStaleSessions()`: list; read a pidfile; `/proc` and SIGKILL, which no await separates; size and remove |
| `LocateFails`, `Reuse`, `MakeSession`, `CreateOverlay`, `CopyVars` | `locateGolden()`, `resolveSessionId()`, `prepareOrReuse()`, `prepareSession()` at its awaits |
| `Spawn`, `BootUp`, `BeginStop`, `LadderKills`, `StopDone` | spawn, ready, and any way a session ends; discard removes the directory |
| `ServerCrash` | the server dies at any point and starts anew with no memory |
| `InstallBegin` ... `GuestDone` | `runInstall()` and `runProvision()`: scan, directory, disk, guest, pin, the rest of the pass, teardown |
| `SnapshotBegin`, `SnapshotMakeGolden`, `SnapshotPromote` | `runSnapshot()`, one file at a time |
| `ResetBegin`, `ResetJudge`, `ResetRemove`, `ResetDone` | `vmReset()`; the size is measured between the verdict and the removal |
| `GcBegin`, `GcReadOverlay`, `GcPlan`, `GcRemove` | `vmGc()`: stale directories; one overlay after the other is asked for its backing file, which may fail; images to drop; the removal |
| `ToolCrash` | a command is interrupted at any point; nothing is undone |
| `QemuReady`, `QemuExits`, `Reaped`, `PidRecycled`, `AlienExits` | QEMU and the kernel, as the code meets them (external) |

Assumptions, each named here because a property could depend on it:

- one server and one command at a time, any number after one another; two commands at once are left
  out (the scan that each begins with sees only QEMUs, not commands);
- a pid is not recycled between the look into `/proc` and the kill (no await separates them);
- `/proc` of a killed, unreaped process may read as ours or as foreign (its command line is empty);
- the removals of gc do not fail half-way;
- the service is configured as retain with a session id ("pinned"), retain without one, or discard
  without one; discard with a session id, `MCP_VM_IMAGE` and session names given to commands are left out;
- the exit of a QEMU may or may not remove its pidfile.

### The other modules: state and actions

Everywhere, the code between two awaits is one action; a timer that is armed may fire at any moment;
data is abstracted to what the properties tell apart, and each module names at its head what it
leaves out. Actions have the name of the function they translate, or of what happens in it.

**QemuProcess.** `proc` is the child, `start` the activation of `startQemu()` (poll, connect,
handshake, retry, and the ladder of a failed start), `conn` the QMP client with its pending
commands by id and the tail of the buffer, `toClient` the bytes under way. Frames are two parts, so
that a chunk may end inside one. A command that times out leaves its entry's answer to come, and the
client must drop it. QEMU itself is external: it may answer late or never, write events or garbage,
hang, die, or be wedged in the kernel.

**OAuthServer.** A handler runs to the signature of the token, the only await it has. The
file is read twice and renamed over (`ReadState`, `ReadMap`, `Rename`, `WriteFails`) by the server
and by `openhammer auth`. `authorized` and `sold` are history. Codes hold what they were issued for; a presentation is right or
wrong in each respect the code compares, in the code's order. Expiry is an action.

**Tools.** A text is a sequence of bytes with two- and three-byte characters, because truncation
counts bytes and cuts at characters. `BashTool` has the process, the pipes and the rolling tail,
the spill file of the host and the `tee` of the guest; `SearchTools` the pipe of rg and fd and the
kill at the match limit, over any rows a search may print (`Rows`); `FileTools` a reader that pages, with
the pages it has joined (`got`), and an edit beside a write. A limit of read is absent or a number, 0 among
them (negative numbers and fractions are left out); a match of rg has a path that is text or one that is bytes. The operators of
`Truncation` are functions of the source, stated by the positions of line ends in the text (`Lines(s, i, j)`
is what lies between two of them) rather than by splitting and joining, checked against definitions that say what
they should mean (`Simultaneous` for the edits, `truncateTail` of the whole output for the rolling tail).

**ServerProcess, ServerControl.** `srv` is the process table: where each server is in `main()` or
`shutdown()`, its signal and tunnel. Of a boot of the sandbox it keeps where the QEMU is, which is what a shutdown
meets: not yet spawned (`boot`), to follow a stop() that is awaited (`again`), spawned while `startQemu()` is
awaited (`loose`), in `service.handle` (`held`), or beyond any SIGKILL (`wedged`). `quiet` is history: when
`close()` was called, no boot was under way. `keeper` is the dashboard: ensure, wait, restart, quit;
`guard` are the children its exit hook kills. Servers started by an operator compete for the port.

**StatusFeed.** `ring` is `RequestRecorder` with its cells; `conn` both ends of each connection:
what is on the wire, whether the server still subscribes it; `reader` what each client made of it. A client
is a dashboard, a monitor, a status query or a one-shot command; the run has one dashboard and any other. `write()` says that it is behind once `HighWater` lines are unread, which drops a
subscriber or, for vm states, the connection.

**Dashboard, DashboardScreens.** `Dashboard` is a pair of threads that run the settings actions over
`doc` (the file: mode, channels, default and allowed clients), `store` (the copy), `server` (what it booted with, or none) and `image`. A
thread's `was` is what the action captured before its question. `DashboardScreens` has the screen, the
focus, the rows there are, and who has taken the keys away.

**GuestBuild, HomeFiles.** In `GuestBuild` the guest comes up, goes down and is asked in the middle
of every step of install and provision; the gate answers twice or fails; the poweroff, its 180 s and
the ladder follow. A start fails, a QEMU outlives SIGKILL (`wedged`), and the file with the recovery password may go
(`RecoveryLost`), which install notices in front of the poweroff, outside any try. `HomeFiles` is temp file, fill, rename, by several processes, where each call may fail and each process die.

**FormWizard, GoldenScan, SettingsForms, Doctor, GuestForms.** A text is the sequence of its entries, which may have
blanks around them; forms answer one field and leave the others as the prompt seeds them. The documents of the first
state are defaults, texts a form would write, and ones edited by hand that the loaders accept: blank and untrimmed names,
commands over several lines, a package named twice. Loader, form, doctor and boot
are operators over the same documents, images, environments (`MCP_VM_IMAGE` among them) and hosts, each translated
from its own code: that they agree is what is checked. `GoldensNext` lets snapshots appear, be sealed, die between two files,
and gc collect, while forms are open.

**Channels.** `entries` and `authtokens` are the two files, `edit.copy` the dashboard's settings;
adds read before their questions and write after them. `live` is what the dashboard shows and who
said so. The edits and the probe are two parts of the run: the probe works on the list of its launch and
meets the edits only in what a later server reports, which `ServerBootsWith` leaves open.

**SessionExtras.** `extras` is the boot with what it loaded, `guestFiles` what is in the guest, and a push is
three commands per file. The host's store and credential change meanwhile; a retained overlay carries
what an earlier push or a crash left.

**OperatorConsole** is one specification whose variable `part` chooses, in the first state, which of
twelve parts runs; the others rest in an initial state. The parts meet in few places and
each place is in the state of one of them (the server's life in `ServerControl`, `StatusFeed`
and `Dashboard`; the image in `Dashboard`, `GuestBuild` and `GoldenScan`), so interleaving them
would multiply states and show nothing that one part alone does not. `SavesLoadBack`,
`SavesChangeOneField` and `DoctorForetells` say the same thing of several parts. `ToolServer` is built
the same way: the tools share no state beyond the backend.

## 3. Runs

| Run | Module and bounds | Shows |
| --- | --- | --- |
| `VmOverlap` | `MCVmService`: 2 calls, 2 stop() activations, 1 start, 2 stops, pinned retain, disk faults, fairness | `TypeOK`, `OneShotRelaunch`, `NeverResurrected`, `NoQemuOutlivesItsBoot` under every overlap; `StopSettlesEventually`, `AbandonedBootEnds` |
| `VmSerial` | `MCVmService`: 1 call, 1 stop(), 2 starts, 3 stops, discard, idle reaper, both faults, no overlap | `GuestsAccountedFor` (one guest at a time; handle, session and backend belong together; a settled service runs no unowned guest), `ImplementsLifecycle` |
| `VmRestarts` | `MCVmService`: 1 call, 1 stop(), 2 starts, 2 stops that overlap in every way, retain, disk faults | `RetainedOverlaySurvives` |
| `VmTreeServers` | `VmTree`: all three policies, install and reset, 2 named directories, 2 QEMUs, 3 image numbers | `TypeOK`, `FreshSessionKeepsItsDir`, `SweepReapsOrphans`, `RetainedSurvivesServers` |
| `VmTreePipeline` | `VmTree`: pinned, an installed build, provision, snapshot and gc with `KeepGoldens` = 1, 2 QEMUs, 3 images | `ManifestSealsGolden`, `OverlayHasGolden` |
| `QemuProcess` | 1 user, 1 stop sequence, 2 connects, 2 commands, 1 line unasked, a process that survives SIGKILL, fairness | `StreamIsReadRight`, `NoChildLeftBehind`, `EverythingSettles` |
| `OAuthServer` | 1 dynamic and 1 manual client, 1 code, 3 refresh tokens, 2 requests in flight, 1 restart, 1 other process, failing writes | `CodeBuysOnce`, `OneLiveRefresh`, `RegistrationsFollowLogins` |
| `ToolServer` | outputs of up to 10 bytes with limits of 2 bytes and 2 lines, chunks of 1 and 3; 3 search lines; a file of 6 bytes paged, of 3 characters edited; 3 sessions, 2 calls | `BashShowsTheTail`, `FullOutputIsKept`, `NothingIsDroppedSilently`, `ReadPagesCoverTheFile`, `EditsAreSimultaneous`, `RunsInTheReadySession` |
| `OperatorConsole` | 2 servers, the first with either tunnel, the second with cloudflared and a sandbox, 2 clients, a ring of 2 with 3 requests, 2 actions, 2 builds for 2 users and 1 agent, 2 writers, 2 channels, 2 sweeps, 2 saves of the settings and 1 of the guest | `NothingOutlivesShutdown`, `SpawnedServersAreEnded`, `FeedIsComplete`, `ConnectedSeesLatestVm`, `ServerRunsSavedModeAndChannel`, `HostExposureIsConfirmed`, `KeysComeBack`, `NoGuestOutlivesTheCommand`, `DocumentsStayWhole`, `SavesLoadBack`, `SavesChangeOneField`, `DoctorForetells`, `ServerStaysAuthoritative` |
| `VmStopIsNotFinal` | `MCVmService`: 1 call, 1 start, 1 stop, retain, fairness | violates `StopIsFinal` |
| `OAuthGateSecret` | `OAuthServer`: failing writes, 1 restart | violates `GrantVerifiesAtTheGate` |
| `ManifestOfToday` | `GuestBuild`: 2 users, 1 edit of guest.json | violates `ManifestNamesTheInstalledUser` |

Bounds. Each start gives at most two boots (`OneShotRelaunch`, proved), so `2 * MaxStarts` boots
never run out. One start with two calls, two stop() activations and two stops contains every pair of
operations that can meet in a boot and its relaunch; two starts and two stops are a boot that was
overtaken and its successor, over one retained directory (`VmRestarts`); two starts and three stops in the serial run let
a boot fail, be stopped and follow one another. `starts` and `epoch` are bounded by the guards
`starts < MaxStarts` and `epoch < MaxStops`.

In `VmTree`, servers and commands are unbounded in number: names, QEMUs and images are not. Two
named directories are a build and a session, or two sessions of successive boots; two QEMUs are an
orphan and its successor, or a command's guest and a session's. The code keeps two images by default
(`DEFAULT_KEEP_GOLDENS`) and takes any number from the command line; `VmTreePipeline` keeps one, so that with three images
a gc has something to remove before and after a promotion, and a boot may fall behind by one. The tree may start with a
retained session on the oldest image.

`OverlayHasGolden` names its two exceptions in the state, by `exposed`. The one is the failing `qemu-img info`, which gc
takes for "no reference", by design ("the keep-count is the real bound"). The other is a boot that falls behind: it
chooses the newest image, `KeepGoldens` others are promoted and a gc drops the image before the overlay refers to it. Both are
in the run. An exposed overlay is so until a gc reads it while its image is there, and is protected from then on.

`QemuProcess`: two commands of a user beside those of the handshake and the stop sequence are a late
reply and its successor; one event or line of garbage can fall between any two. `OAuthServer`: two
requests in flight share one code or one token; three refresh tokens are a family rotated twice.
`ToolServer`: outputs exceed the rolling window, which is twice the byte limit, before they end;
chunks of one byte cut inside characters, chunks of three span lines. `OperatorConsole`: two servers
are the one that is replaced and its replacement, or two that race for a port; servers share nothing but the port, so the
tunnels of one (`Forwarding`) and the sandbox of the other (`Sandboxed`) meet all there is to meet; three requests wrap a ring of two;
two actions are what two threads can hold; two writers are every pair of processes; the second save
of the settings starts from what the first wrote, the first from documents that include those edited by hand.

Deadlock is checked in the `VmTree` runs and in `QemuProcess`: there something can always happen. The
other systems may sit idle for ever, or come to the end of a bound, and say `CHECK_DEADLOCK FALSE`.

Fairness. In `VmService`, each activation goes on while it can: every await of `stop()`, of the
relaunch and of the boot ends, because the code bounds it by a timer (stop budgets, ladder steps,
ssh connects, boot deadline). The session-start extras run commands in the guest for which the host
sets no bound, so they are only required to end once the QEMU they talk to has exited. Commands, tool calls,
timers and deaths are not fair: they need not happen. In `QemuProcess`, armed timers fire, the
start's own steps go on, a signal that can kill does, Node reports an exit, and the socket of a dead peer closes; QEMU owes
nothing, neither an answer nor an end. The other modules have safety properties only and no fairness.

What the violations show:

- *A stop that does not stick* (`VmStopIsNotFinal`). A tool call that found the guest dead awaits a
  capture and the ladder and then boots again, without noticing that the session was stopped meanwhile.
- *A grant the gate does not know* (`OAuthGateSecret`). `main.ts` resolves the signing secret once. If
  its write fails at boot and works later, grants sign with a secret the gate never learns: the client
  is given a token that every request with it is refused.
- *A manifest of today* (`ManifestOfToday`). `snapshot` reads guest.json anew. If the user name was
  edited since the install, the manifest names a user the image does not have, and every session of that image
  logs in as that user.
What else the documents promise and the code does not keep is in section 5: of the disagreements, these
three are the ones a run keeps watch on.

## 4. Proofs

Each theorem is of the whole specification and of every value of the constants that satisfies the named
assumption of its module, so of any number of boots, calls, processes, clients, codes, servers,
directories and images. The arguments below are what one needs to know to read them; TLC checked each
invariant on a small instance before it was proved. All of them are safety: what an inductive invariant,
stronger than the property, keeps at every step. The refinement of `VmSerialProofs` and the
two action properties of `OperatorConsoleProofs` follow from such an invariant step by step.

### VmService

`VmServiceProofs.tla` assumes `ConstantsAssumption` only, hence any overlap of operations, any
persistence policy and any faults:

- `TypeCorrect`: `TypeOK` is inductive by itself. One lemma for each helper says what it does to the types;
  one for each method combines them.
- `TornDownStaysDown` (`NeverResurrected`) and `EndedBootsLeaveNoQemu` (`NoQemuOutlivesItsBoot`)
  follow from `SafetyInv`. Neither is inductive alone: a boot that begins could reuse the number of
  one that is serving, so `NumberedInOrder` says that numbers beyond `begun` are unborn; and a boot
  that ends must be known to own its QEMU only at the points in `RunsQemu`. Three lemmas cover
  the steps: one that moves no boot, one that moves a boot in flight, one that begins a boot.
- `RelaunchIsOneShot` (`OneShotRelaunch`) counts: boots begun, relaunches claimed but not begun, and
  the unspent allowance together never exceed two per start. Claiming moves one unit from the
  allowance to the claims, beginning moves it on; start() adds two.
- `RetainedOverlayIsKept` (`RetainedOverlaySurvives`, of steps) comes from `RetainedInv`: every handle is of a
  QEMU that was spawned (`HandlesAreSpawned`), so a ladder spawns nothing; and once one was spawned, the
  overlay is whole, the service knows the session that a sweep has to preserve, and no relaunch is about to remove it
  (`OverlayIsKept`). What is left is the boot that is already at its `qemu-img create`, which the property names.

`VmSerialProofs.tla` adds `~Overlap`: commands, calls and the timer wait for one another, while a stop() may still
overtake a boot and QEMU may die at any point. It is how the state diagram is meant, and without it the theorem is
false (section 5):

- `LifecycleIsImplemented` (`ImplementsLifecycle`): every step of the service is a step of `SandboxLifecycle`
  under the mapping of `VmServiceRefinement`, or leaves it as it is. One lemma for each action
  says which; `SerialInv` excludes the steps that would not be one. It says what a boot has published by each of its
  points, that a guest that is up is the session of a ready service, that a call
  that found a death acts on a dead session, and that a stop() under way holds the handle of the guest that is
  up, has withdrawn its backend and has made stale every boot that was in flight.

### VmTree

`VmTreeProofs.tla` assumes `TreeAssumption`. The first three theorems come from the invariant `TreeInv`:

- `TreeTypes`: `TypeOK` is not inductive alone: a boot writes into the directory of its id, so
  `ServerHasId` says that it has one by then.
- `ManifestSeals` (`ManifestSealsGolden`): besides the property, `ImagesInOrder` says that images
  beyond the last stamp do not exist and that the one being filled is there and has no manifest yet. The key
  lemma, `NextFileInOrder`, reads off `PromoteOrder` that the manifest comes when all else is there.
- `RetainedSurvives` (`RetainedSurvivesServers`): `PinnedIsSafe` says that the pinned directory is no
  build (snapshot moves files out of builds only), that the sweep never comes to remove it, and that a boot
  about to create an overlay has found none there.

The next two need `SessionInv`, which adds that names are given out in order (`NamesInOrder`):

- `FreshSessionKept` (`FreshSessionKeepsItsDir`): `FreshDirIsOwn` says that the only QEMU in the directory of a
  fresh session is the server's, that no command works there or is about to remove it, and that the directory has a
  base before gc may ask for one and a pid while its QEMU runs, which are the two things a gc spares it for.
- `OrphansReaped` (`SweepReapsOrphans`): `SweepMeetsOrphans` says that a live orphan whose pidfile names it is
  in a directory the sweep has still to judge, or has just read.

`OverlaysAreBacked` (`OverlayHasGolden`) is about a gc that looks, plans and removes while boots make overlays. `GcSpares` says
of every overlay that is not exposed what each of the three has done about it: its image is on the list of those to
spare, or the overlay is still to be read, or the image is among those gc keeps; and by the removal it is none of those to go.

### QemuProcess

`QemuTypes`, `StreamRead` (`StreamIsReadRight`) and `NoChildIsLeft` (`NoChildLeftBehind`) come from `QemuInv`,
for any set of users and of stop sequences. The bytes on their way, with the tail the client
keeps, form whole lines except for the first (`Whole(Wire)`), wherever they are cut. `RepliesFit` says that
an answer with the id of a pending entry was made for the command of that entry: it must hold of
commands on their way to QEMU, of answers on their way back and of entries at once, since a command that timed out
leaves the other two behind. `WaitersAsked` keeps apart who may wait on a connection that the start or
the handle owns; `ChildAccountedFor` says what was done to the child by each point of the start and the ladder.

### OAuthServer

`OAuthTypes`, `CodesBuyOnce` (`CodeBuysOnce`), `RefreshIsLinear` (`OneLiveRefresh`) and `RegistrationsAreHeld`
(`RegistrationsFollowLogins`) come from `OAuthInv`, for any number of clients, codes, tokens, requests and other
processes that write the file. `OneHolder` is the argument of the refresh chain: the right to the next
token of a family is in one place, either a token that was not used or one request between its check and its
answer. `WritesAreAuthorized` says of each process that what it has read of the file and what it will add were stood for by
a login, so that a rename, however late, writes nothing else.

### ServerProcess and ServerControl

`ControlTypes`, `ShutdownTakesAll` (`NothingOutlivesShutdown`) and `ChildrenAreEnded` (`SpawnedServersAreEnded`)
come from `ControlInv`, for any number of servers. `TunnelsInHand` says for each point of `main()` and `shutdown()` who
holds the handle of what was raised, and that from a quiet `close()` on nothing boots: without that, a restart ordered earlier
would begin a boot behind the powerdown. `ShutdownTakesAll` speaks of the QEMU only of such a `close()` and of a guest that a signal ends. `ChargeIsGuarded` says that the dashboard has at most one child it has not told to end (`Charge`)
and that the exit hook guards it; `OperationsInOrder` that a restart stops one child before it takes the next.

### ToolServer

`ToolServerProofs.tla` proves `[]ToolInv`, of outputs, files, limits and chunks of any size and of any rows; the state of a
tool that is not at work is proved untouched, so that one invariant has a part for each.

- `OutputIsKept` (`FullOutputIsKept`): `KeepsTheBytes` is an account of every byte received, in memory until the
  spill file is opened and in the file from then on, for output of any length and any chunks.
- `TheTailIsShown` (`BashShowsTheTail`): `TailInv` says of which text the rolling tail is the end and the counters are the
  counts (`Follows`): what was received, without the bytes of a character that is still incomplete; and that what
  was trimmed away leaves more than the limit of bytes behind it. An end that begins with a line and is that long is truncated to
  the same lines as the whole (`TailOfTail`). The window is twice the limit, so that a cut in the middle of a line is always too far back to
  show, as long as no line is longer than the limit, which is the hypothesis of the property.
- `PagesCoverTheFile` (`ReadPagesCoverTheFile`): `Paging` says what the reader holds, `reader.got`, is the file's lines
  up to the offset named next. A page ends at the end of a line (`LinesJoined`: the lines up to `i` and those after it are the text),
  offsets grow with every page, and a line too long for a page is the only reason to show none; of a limit of one line or
  more, or none (of 0, see section 5).
- `NothingIsDropped` (`NothingIsDroppedSilently`): `SearchInv` says how many lines were taken, that the rows kept are the
  matches among them that have a row, in order, up to where the limit stopped the count, which counts those without a row as well, and that the beginning of a line that waits
  and the bytes in the pipe are the rest of what the process writes, wherever the chunks cut it.
- `EditsAreAtOnce` (`EditsAreSimultaneous`): the code replaces one match after the other, from the last to the first.
  `Together` is what a set of matches makes of the text at once, and adding the match that comes first to
  the set is one replacement in the text so far (`FirstAdded`), because what lies before it is still as it was. So they agree for any
  number of edits that do not overlap (`AppliedTogether`, by the number of edits). Two facts about the
  text complete it: line ends that are put back are taken off again (`RestoredIs`), and fuzzy matching never
  makes a text longer, so that a match lies in the text (`FoundIs`). The hypotheses are what the code checks: every old text is found, no
  two matches overlap. `EditedIs` says it of any request and text over the characters of the model; the specification
  asks for one edit or two. `EditInv` needs little more than the property: the file is at all times a text, and the request is well-formed.
- `CacheIsTheReadySession` (`RunsInTheReadySession`) needs one fact more than the property: a backend that was closed has no cache.

### OperatorConsole

A behaviour of the console runs one part while the others rest. `EachPartSteps` says so once: each step is, for every
part, a step of it or none. `ConsoleInv` is the conjunction of the invariants of the parts.

- `GuestsEndWithTheirCommand` (`NoGuestOutlivesTheCommand`): a QEMU that is nobody's orphan belongs to the
  command under way, and only past its start, or is one that the command could not end: it outlived SIGKILL, or it
  is an installer whose recovery password was lost (`CommandsHoldTheirGuest`).
- `DocumentsAreWhole` (`DocumentsStayWhole`): what a process is about to rename is whole and its own; the files no
  longer on the list of a push are delivered.
- `KeysAlwaysComeBack` (`KeysComeBack`): the keys are dead for a reason, and each step that ends the reason gives them back.
- `SettingsReachTheServer` (`ServerRunsSavedModeAndChannel`) and `ExposureIsConfirmed` (`HostExposureIsConfirmed`, of
  steps): until two modals have overlapped there is one at a time, and the copy of the settings it captured
  is the saved document (`ActionsTakeTurns`); the mode and the default channel the server runs with are the saved ones, or a
  restart is due, or the difference is shown (`ServerIsAccounted`). Both say what they leave out: the allowed clients,
  and what overlapped modals write back.
- `FeedsAreComplete` (`FeedIsComplete`) and `LatestStateArrives` (`ConnectedSeesLatestVm`): `RingInOrder` is the arithmetic of
  the ring (the cells, oldest first, are the latest events, at any capacity); `Complete` says that what a reader has got and
  what is on its wire continue one another up to the last event, while it is subscribed.
- `ServerIsAuthoritative` (`ServerStaysAuthoritative`, of steps): beside the actions of `Channels` it needs
  only that every channel has a state.
- `SavesComeBack` (`SavesLoadBack`): whatever is loaded is valid, hence so is what a form is filled from, and an
  answer changes that only within what the loader accepts (`SavedIsSane`). Of the secrets, the lines of the store split again into
  the pairs they were made of (`StoreIsWhole`).
- `SavesTouchOneField` (`SavesChangeOneField`): a field that is not asked for goes through its text and comes back
  but for the blanks and repeats that a form cannot hold (`UntouchedAnswer`). A number does because its numeral is read as it; a list because the places a filter leaves
  are all reached: ranks in a finite set differ, so by the pigeonhole there is one for each place (`RankIsReached`). The
  invariants say that what is loaded has all its fields (`FieldsAreKept`) and lists of texts, of packages without blanks around a name (`AnswersAreKept`).
- `DoctorIsBelieved` (`DoctorForetells`): of the boot it needs no invariant (`DoctorIsRight`). What main() demands
  and what doctor looks at are two lists of causes; the theorem compares them and names where they differ: the token and the port, of which
  doctor does not ask, rg, fd and a document that does not load, for which main() does not end, and a pinned image. Of the default channel it needs that the default names an
  entry, in the file, in the copy of the dashboard and in every add under way (`ChannelsAreFiled`).

### What only TLC checks

- Liveness: `StopSettlesEventually`, `AbandonedBootEnds`, `EverythingSettles`. The prover has no rules for ENABLED.
- `GuestsAccountedFor`, which holds of operations that do not overlap.
- The three violations, which are of one behaviour each.

## 5. What the models also show

Behaviour met while modelling that is not a violated promise of a document, or that no run checks.
Definitions named here state what one would like to hold, and do not hold of the code: TLC finds each of them
violated under the constants of its module's run.

*The VM service.* `BootNeverRejects`: the teardown in the catch block of `runBoot()` throws when the guest outlives
SIGKILL, so the attempt has no outcome; the state stays "booting", and every later start waits for it. With overlapping operations `HandleMatchesBackend` fails: a restart leaves an
abandoned boot running, which overwrites session, paths and handle of its successor. A stop that
overtakes a boot before its QEMU exists leaves a directory that should be discarded. Two calls that
find one death may spend the relaunch and then report that the guest died again. A stop that ends
late reports "stopped" while a newer boot is in flight. `RetainedStateIsReused`: a boot looks for the overlay,
finds none and is stopped before its `qemu-img create`, which nothing cancels; the start that follows makes the overlay, its
guest runs on it and ends, and the first boot creates it anew (`service.ts:602`, `:745`, `session.ts:154`). `RetainedOverlaySurvives`,
which holds, says that this is the only way.

*The tree.* `SweepSparesLiveOwners`: a server that boots during a provision kills that guest.
`GoldenIsProvisioned`: the pin that snapshot reads as "provisioned" is written in the middle of the
pass (`provision.ts:646`). `RunningSessionKeepsItsDir`: reset may remove a retained directory that a server has begun
to use again; `FreshSessionKeepsItsDir` is of sessions that discard. A snapshot cut short leaves a newest image without a manifest, and every boot
fails until it is removed; such images count towards what gc keeps. The manifest also takes agent,
flavor and script hash from today's files. Two installs share the `.part` file of an ISO.

*Session extras.* The agent's tmux session is started by `runArgv`, whose wrapper does not source the pushed
environment (`backend.ts:121`); the agent has the pairs only if its own shell reads them. A push that failed half-way
leaves the two environment files different, and a retained overlay keeps a credential that the host has lost. `ShellsGetTheSecrets`: the store's pairs
are pushed as plain lines, "no quoting", because their readers are said to be line-based; a shell sources them, so that
`KEY=two words` runs a command and sets nothing.

*Provisioning.* `LadderIsMandatory`: the recovery password is read after the gate and in front of the ladder that is called
mandatory (`install.ts:629`, `:650`); when that fails, the command ends and QEMU runs on.

*QEMU.* A stale `qmp.sock` of a killed QEMU ends the wait for the socket at once.

*OAuth.* Updates of the client file by several processes lose one another. A refresh does not look at the
client again; the client_credentials grant ignores the grant types a dynamic client registered.

*Tools.* `FooterNamesTheFullOutput`: in the guest, the footer of bash names a file that nothing wrote
(`backend.ts:228`). Output after the shell's exit throws in a data handler; a single line longer than the
window is shown as "(no output)". `edit` counts overlapping occurrences once, takes an
oldText of blanks as empty, and rewrites mixed line endings. `NoticesLeadOn`: read with `limit` 0 shows no line and says
"continue" with the same offset. `EveryMatchHasARow`: grep counts a match in a file whose name is no text, and does not show it. `write` truncates before it writes. `ls`
with limit 0 calls a directory empty.

*Server and keeper.* `ShutdownEndsTheSandbox`: `stop()` returns at once while `startQemu()` is awaited, since there
is no handle yet; `process.exit(0)` follows, and the boot never comes to the check that would take its QEMU down. The same happens
to a boot that `vm-restart` ordered behind a stop. Two restarts of the server at once are left out of the model. The readiness timeout (10 s) is shorter than the tunnel's (15 s): the dashboard
kills a server that is booting and orphans its cloudflared; so does a SIGTERM before there are handlers, and the
SIGKILL after the grace period, which orphans QEMU as well. Another server may answer the readiness probe. After a failed restart
the keeper holds the child that stopped. A late forward of ngrok leaves a listener open.

*Dashboard.* `EditsAskBeforeExposure`: an edit that captured the mode "off" is still open when a finished
build offers its image and a mode is picked; the edit then saves its own copy, "off" among it, and compares it
with what it had captured, so no question is asked. The allowed clients are saved without a restart and without a pending note, while
the server keeps those it read at its boot (`dashboard.ts:740`, `main.ts:140`). Every write is of the whole copy, so it undoes what the command line changed: a removed
channel comes back without its secret, an added one goes and leaves its secret. Launch flags win over
saved settings at every respawn (`cli.ts:218`, against `dashboard.ts:576`). "Restart sandbox" clears the pending note though the server
keeps its configuration of boot time (`dashboard.ts:1090`). Start and Install stay hidden after Turn off. A
build that ends calls `back()` on whatever screen is shown; the "Back" row of the build and serial screens does nothing.

*Channels.* An entry of config.json without "options" makes the probe throw, which says that it never
does. The probe keeps the channel list of the launch; its sweeps have no timeout and may overlap, so that an older
answer replaces a newer one. Removing deletes the secret before the settings are saved; an add whose save fails leaves
a secret behind.

*Configuration.* One corrupt channel makes the next `config set` replace the document by defaults; a
corrupt line of the secrets drops every pair at the next save; a failed second write leaves a new half beside an
old one. `vm.secretsDir` is resolved and never read. With `MCP_VM_IMAGE` the preflight still demands an image in
`images/`, and passes when the pinned one is corrupt; doctor looks at neither the pinned image, nor the bearer token, nor the port. apply-to-running takes the user from the newest image, not from
the one the session booted. `BlankMeansNone`: the forms seed each prompt and
take the seed for a blank answer, so a list that was ever set cannot be cleared, though its help says "blank = none"
(`guest-setup.ts:236`). `PackagesRoundTrip`: the form's parser drops repeats, the loader accepts them, so that
saving any other field rewrites the list; blanks around a hand-edited text go the same way, against "only the target field
changes" (`cli.ts:497-498`). A one-line prompt cannot enter a second boot command.

## 6. Not modelled

- `scripts/vm-spike`: a harness that times virtual machines; no part of openhammer calls it.
- ISO download, cidata, encryption of the guest's disk, dry runs, QEMU arguments: data of one step each,
  produced by external programs. The one shared file of a download is named above.
- What a debug capture writes: a step of `VmService` that may fail.
- The ssh command line, quoting and the pool of master connections; a call is modelled by how it can end.
- The port found by `usernet.ts` beyond "found or not"; images and the guide of the tools; the context
  rows of grep; path resolution.
- Rendering, layout, keys that only move the cursor, wording, logging, argument parsing, printing.
- The protocol library of MCP, the discovery documents, the static token file.
- The parts of `listing` commands that read and print stored records.

`PROJECT.json` lists every component with its status and, where it is not "modelled", what is left out.

## 7. What is left

Every invariant and action property of the runs is a theorem but one, `GuestsAccountedFor`, and so is the refinement. Induction over texts and
over sets of edits goes by the least counterexample (`LeastNumber`, `CountUp`), since the library's induction theorems
take an operator and cannot be cited.

- The liveness properties, once the prover has rules for ENABLED.
- The components that are "partly" modelled in `PROJECT.json`, each with what is left out of it.
