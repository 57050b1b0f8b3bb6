----------------------------- MODULE ServerProcess -----------------------------
(***************************************************************************)
(* The server as an operating-system process (main.ts): its boot, the      *)
(* public channel it raises before it listens (tunnel/), the sandbox it    *)
(* boots behind, the signals it handles only once the boot is over, and    *)
(* the order of its shutdown.  Several servers, one after another or       *)
(* beside each other, compete for one port; each owns at most one          *)
(* cloudflared or ngrok tunnel, and the QEMU processes of its VmService,   *)
(* which the operating system does not end with it.                        *)
(*                                                                         *)
(* Left out: what the server serves, its configuration, the static         *)
(* channels, whose handle is a URL with nothing behind it, and of a boot   *)
(* of the sandbox (VmService) all but where its QEMU is.                   *)
(***************************************************************************)
EXTENDS Naturals, FiniteSets

CONSTANTS MaxServers,   \* bound: servers ever started
          Forwarding,   \* the servers that may resolve ngrok, as all may cloudflared, and
          Sandboxed     \* those that boot in a vm mode: settings may be saved between two

ASSUME ServerAssumption ==
  /\ MaxServers \in Nat \ {0}
  /\ Forwarding \subseteq 1 .. MaxServers /\ Sandboxed \subseteq 1 .. MaxServers

Servers == 1 .. MaxServers

\* The channels with a process or an agent behind them.
Tunnels == {"cloudflare", "ngrok"}
Resolvable(s) == IF s \in Forwarding THEN Tunnels ELSE {"cloudflare"}

VARIABLE srv   \* the server processes

(* "at" is the await of main() or of its shutdown() the process is in.     *)
(* tunnel is what exists outside the process: "racing" (spawned, no URL    *)
(* yet), "late" (forward() still connecting after raise() gave up) or      *)
(* "up"; channel says which of the two it is, handle whether main() holds  *)
(* it.  cut says whether a process ended before its shutdown was through.  *)
(* Of the sandbox: a runBoot() that has yet to spawn (boot), one that will *)
(* follow a stop() or a relaunch that is awaited (again), a QEMU whose     *)
(* startQemu() is awaited (loose), the QEMU of service.handle (held), one  *)
(* that no SIGKILL ends (wedged).  quiet is not in the code: close() was   *)
(* called with no boot under way, ordered or waiting for its QEMU.         *)
Phases == {"unborn", "config", "channel", "listen", "socket", "serving",
           "closing", "unchannel", "unguest", "powering", "exited"}

Process == [at : Phases, channel : {"none"} \cup Tunnels, by : {"nobody", "dashboard", "operator"},
            signal : {"none", "term", "kill"}, cut : BOOLEAN,
            tunnel : {"none", "racing", "late", "up"}, handle : BOOLEAN,
            boot : BOOLEAN, again : BOOLEAN, loose : BOOLEAN, held : BOOLEAN,
            wedged : BOOLEAN, quiet : BOOLEAN]

Unborn == [at |-> "unborn", channel |-> "none", by |-> "nobody", signal |-> "none", cut |-> FALSE,
           tunnel |-> "none", handle |-> FALSE, boot |-> FALSE, again |-> FALSE, loose |-> FALSE,
           held |-> FALSE, wedged |-> FALSE, quiet |-> FALSE]

ServersInit == srv = [s \in Servers |-> Unborn]

Alive(s)     == srv[s].at \notin {"unborn", "exited"}
Listening(s) == srv[s].at \in {"socket", "serving"}
Healthy      == \E s \in Servers : Listening(s)

Next_(s) == srv[s].at = "unborn" /\ \A t \in Servers : t < s => srv[t].at # "unborn"

\* The process table after s is spawned on somebody's behalf.
Spawned(s, who) == [srv EXCEPT ![s].at = "config", ![s].by = who]

\* The ngrok agent lives in the process; cloudflared and QEMU are processes of their own.
Exited(p, cut) ==
  LET left == [Unborn EXCEPT !.at = "exited", !.cut = cut, !.loose = p.loose, !.held = p.held,
                             !.wedged = p.wedged, !.quiet = p.quiet]
  IN IF p.channel = "ngrok" THEN left ELSE [left EXCEPT !.channel = p.channel, !.tunnel = p.tunnel]

\* No tunnel is left of the server, nor a channel to speak of.
NoTunnel(s) == [srv EXCEPT ![s].tunnel = "none", ![s].channel = "none"]

-----------------------------------------------------------------------------
(* The boot.                                                               *)

\* Settings, preflight and the bearer token: each may throw, before anything is
\* held.  A channel is selected, or none.
Configure(s) ==
  /\ srv[s].at = "config"
  /\ srv' \in {[srv EXCEPT ![s] = Exited(@, TRUE)], [srv EXCEPT ![s].at = "listen"]} \cup
               {[srv EXCEPT ![s].at = "channel", ![s].tunnel = "racing", ![s].channel = c] :
                  c \in Resolvable(s)}

\* The channel's tool is not installed or has no credentials, cloudflared died, or
\* forward() failed: the server goes on without a channel.
SkipChannel(s) ==
  /\ srv[s].at = "channel" /\ srv[s].tunnel = "racing"
  /\ srv' = [NoTunnel(s) EXCEPT ![s].at = "listen"]

\* The URL is first: cloudflared printed it, or forward() resolved in time.
TunnelRaised(s) ==
  /\ srv[s].at = "channel" /\ srv[s].tunnel = "racing"
  /\ srv' = [srv EXCEPT ![s].at = "listen", ![s].tunnel = "up", ![s].handle = TRUE]

\* Broken variant: the timeout gives up on cloudflared without killing it.
TunnelTimeoutKeeps(s) ==
  /\ srv[s].at = "channel" /\ srv[s].tunnel = "racing"
  /\ srv' = [srv EXCEPT ![s].at = "listen", ![s].tunnel = "late"]

\* Fifteen seconds: cloudflared is killed; a forward() that is still connecting is not.
TunnelTimeout(s) ==
  /\ srv[s].at = "channel" /\ srv[s].tunnel = "racing"
  /\ srv' = IF srv[s].channel = "cloudflare" THEN [NoTunnel(s) EXCEPT ![s].at = "listen"]
            ELSE [srv EXCEPT ![s].at = "listen", ![s].tunnel = "late"]

\* What gave up too early comes up after all, with nobody to close it.
LateTunnel(s) ==
  /\ srv[s].tunnel = "late" /\ Alive(s)
  /\ srv' \in {[srv EXCEPT ![s].tunnel = "up"], NoTunnel(s)}

\* cloudflared dies on its own; the handle is not told.
TunnelDies(s) ==
  /\ srv[s].tunnel = "up" /\ srv[s].channel = "cloudflare"
  /\ srv' = NoTunnel(s)

\* The OAuth secret is refused, or the port is taken: main() rejects and the
\* process exits with what it has raised.
ListenFails(s) ==
  /\ srv[s].at = "listen"
  /\ srv' = [srv EXCEPT ![s] = Exited(@, TRUE)]

\* service.start() is not awaited: the sandbox boots from here on.
Listen(s) ==
  /\ srv[s].at = "listen" /\ ~Healthy
  /\ srv' = [srv EXCEPT ![s].at = "socket", ![s].boot = s \in Sandboxed]

\* The status socket is up or given up on; the signal handlers are registered last.
HandleSignals(s) ==
  /\ srv[s].at = "socket"
  /\ srv' = [srv EXCEPT ![s].at = "serving"]

-----------------------------------------------------------------------------
(* The sandbox behind the server, as far as its QEMU goes.                 *)

\* The boot fails before its QEMU is there, or spawns it.
BootSpawns(s) ==
  /\ srv[s].boot /\ Alive(s)
  /\ srv' \in {[srv EXCEPT ![s].boot = FALSE], [srv EXCEPT ![s].boot = FALSE, ![s].loose = TRUE]}

\* startQemu() returns, and the service has its handle, or the QEMU is taken down:
\* by startQemu, which fails, or by a boot that a stop() has overtaken.
StartQemuReturns(s) ==
  /\ srv[s].loose /\ Alive(s)
  /\ \/ ~srv[s].held /\ srv' = [srv EXCEPT ![s].loose = FALSE, ![s].held = TRUE]
     \/ ~srv[s].wedged /\ srv' = [srv EXCEPT ![s].loose = FALSE]

\* It dies, or a stop() of the idle reaper, the status socket or a failed boot ends it.
HeldQemuEnds(s) ==
  /\ srv[s].held /\ ~srv[s].wedged /\ Alive(s)
  /\ srv' = [srv EXCEPT ![s].held = FALSE]

QemuWedges(s) ==
  /\ srv[s].held \/ srv[s].loose
  /\ ~srv[s].wedged /\ Alive(s)
  /\ srv' = [srv EXCEPT ![s].wedged = TRUE]

\* Broken variant: the status socket still takes commands while the channel stops.
OrdersBootToTheEnd(s) ==
  /\ s \in Sandboxed /\ srv[s].at \in {"socket", "serving", "closing", "unchannel", "unguest", "powering"}
  /\ ~srv[s].again /\ ~srv[s].boot
  /\ srv' = [srv EXCEPT ![s].again = TRUE]

\* A tool call meets a dead QEMU, or vm-restart comes in over the status socket: a
\* boot will follow what is awaited first.  Neither reaches a server that has closed
\* its listener and its status socket.
OrdersBoot(s) ==
  /\ s \in Sandboxed /\ srv[s].at \in {"socket", "serving", "closing"}
  /\ ~srv[s].again /\ ~srv[s].boot
  /\ srv' = [srv EXCEPT ![s].again = TRUE]

\* No shutdown takes an order back.  A stop() that failed leaves the service "ready",
\* where start() is a no-op.
BootsAgain(s) ==
  /\ srv[s].again /\ ~srv[s].held /\ Alive(s)
  /\ srv' = [srv EXCEPT ![s].again = FALSE, ![s].boot = TRUE]

-----------------------------------------------------------------------------
(* Signals and the shutdown.                                               *)

\* SIGKILL always ends it; SIGTERM ends it while no handler is registered.
DieOfSignal(s) ==
  /\ Alive(s)
  /\ \/ srv[s].signal = "kill"
     \/ srv[s].signal = "term" /\ srv[s].at \in {"config", "channel", "listen", "socket"}
  /\ srv' = [srv EXCEPT ![s] = Exited(@, TRUE)]

\* The first signal starts the shutdown; shuttingDown makes later ones no-ops.
Shutdown(s) ==
  /\ srv[s].at = "serving" /\ srv[s].signal = "term"
  /\ srv' = [srv EXCEPT ![s].at = "closing"]

\* The listener is closed and the requests in flight have ended.
CloseFastify(s) ==
  /\ srv[s].at = "closing"
  /\ srv' = [srv EXCEPT ![s].at = IF srv[s].handle THEN "unchannel" ELSE "unguest"]

\* handle.stop(): ngrok also disconnects every other listener of the process.
StopChannel(s) ==
  /\ srv[s].at = "unchannel"
  /\ srv' = [NoTunnel(s) EXCEPT ![s].at = "unguest", ![s].handle = FALSE]

\* backend.close() is service.stop(): without a handle it returns at once, whatever
\* boot is under way, and process.exit(0) follows; with one it presses the power button.
CloseBackend(s) ==
  LET p == [srv[s] EXCEPT !.quiet = ~srv[s].boot /\ ~srv[s].again /\ ~srv[s].loose]
  IN /\ p.at = "unguest"
     /\ srv' = [srv EXCEPT ![s] = IF p.held THEN [p EXCEPT !.at = "powering"] ELSE Exited(p, FALSE)]

\* Broken variant: the process exits before the stop is over.
StopUnawaited(s) ==
  /\ srv[s].at = "powering"
  /\ srv' = [srv EXCEPT ![s] = Exited(@, FALSE)]

\* The guest powers down or the ladder ends it, however long that takes; a ladder
\* that fails is swallowed.  Either way comes process.exit(0).
StopReturns(s) ==
  /\ srv[s].at = "powering"
  /\ srv[s].wedged \/ ~srv[s].held
  /\ srv' = [srv EXCEPT ![s] = Exited(@, FALSE)]

\* An uncaught exception.
ServerCrashes(s) ==
  /\ Alive(s)
  /\ srv' = [srv EXCEPT ![s] = Exited(@, TRUE)]

\* The operator starts one without the dashboard, or presses Ctrl-C there.
OperatorStarts(s) == Next_(s) /\ srv' = Spawned(s, "operator")
OperatorStops(s) ==
  /\ Alive(s) /\ srv[s].by = "operator" /\ srv[s].signal = "none"
  /\ srv' = [srv EXCEPT ![s].signal = "term"]

ServerStep(s) ==
  \/ Configure(s) \/ SkipChannel(s) \/ TunnelRaised(s) \/ TunnelTimeout(s)
  \/ LateTunnel(s) \/ TunnelDies(s) \/ ListenFails(s) \/ Listen(s)
  \/ BootSpawns(s) \/ StartQemuReturns(s) \/ HeldQemuEnds(s) \/ QemuWedges(s)
  \/ OrdersBoot(s) \/ BootsAgain(s) \/ HandleSignals(s) \/ DieOfSignal(s) \/ Shutdown(s)
  \/ CloseFastify(s) \/ StopChannel(s) \/ CloseBackend(s) \/ StopReturns(s) \/ ServerCrashes(s)
  \/ OperatorStarts(s) \/ OperatorStops(s)

-----------------------------------------------------------------------------
(* A tunnel or a QEMU is left behind by a server that has ended only when  *)
(* that server was killed or failed: a shutdown that runs to its end takes *)
(* the tunnel with it, whatever raced with what at the boot, and the QEMU  *)
(* too, if close() was called with no boot under way and no SIGKILL failed *)
(* to end it.  About shutdown() (main.ts:259), startTunnel and raise.      *)
QemuLeft(p) == p.loose \/ p.held
NothingOutlivesShutdown ==
  \A s \in Servers : srv[s].at = "exited" /\ ~srv[s].cut =>
    /\ srv[s].tunnel = "none"
    /\ srv[s].quiet /\ ~srv[s].wedged => ~QemuLeft(srv[s])

(* service.ts:533-537: stop() is "safe from any state; a boot in flight is *)
(* abandoned quietly", and the close() of main.ts:279-281 "IS the session  *)
(* stop": after it, no QEMU but one that no signal ends is left.           *)
ShutdownEndsTheSandbox ==
  \A s \in Servers : srv[s].at = "exited" /\ ~srv[s].cut
                       => srv[s].wedged \/ ~QemuLeft(srv[s])
=============================================================================
