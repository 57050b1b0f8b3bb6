----------------------------- MODULE ServerControl -----------------------------
(***************************************************************************)
(* The dashboard process as the keeper of a server (tui/dashboard/         *)
(* server-control.ts, and the lifecycle of runDashboard): it adopts a      *)
(* server that answers on the port or spawns one, waits until /health      *)
(* answers, restarts it, stops it with a grace period, and kills what it   *)
(* has spawned when it exits itself.  The servers are those of             *)
(* ServerProcess, running on their own beside it.                          *)
(*                                                                         *)
(* Keys do not reach the dashboard while a modal is open, except that one  *)
(* modal that closes over another hands them back early; so quit is        *)
(* possible in the middle of a restart.  Two restarts at once, which the   *)
(* same gap allows, are left out.                                          *)
(***************************************************************************)
EXTENDS ServerProcess

VARIABLES keeper,  \* the dashboard process
          guard    \* children whose SIGKILL is registered on process "exit"

controlVars == <<srv, keeper, guard>>

(* at: "off", "probing" (ensureServer asks for a server), "waiting" and    *)
(* "killing" (the first launch), "up", "gone".  renew is the restart       *)
(* operation, quit the quit operation.  launched is the child whose stop() *)
(* is state.launched (0: a server that was adopted, or none yet), stopped  *)
(* its flag; fresh is the child a launch waits for.                        *)
Keeper == [at : {"off", "probing", "waiting", "up", "gone"},
           renew : {"idle", "grace", "respawn", "waiting"},
           quit : {"no", "asked", "grace", "exiting"},
           owns : BOOLEAN, launched : 0 .. MaxServers, stopped : BOOLEAN,
           fresh : 0 .. MaxServers, crashed : BOOLEAN]

ControlInit ==
  /\ ServersInit
  /\ keeper = [at |-> "off", renew |-> "idle", quit |-> "no", owns |-> FALSE, launched |-> 0,
               stopped |-> FALSE, fresh |-> 0, crashed |-> FALSE]
  /\ guard = {}

Running == keeper.at \in {"probing", "waiting", "up"}

Signalled(table, kids, how) ==
  [s \in Servers |->
     IF s \in kids /\ table[s].at # "exited" /\ table[s].signal # "kill"
     THEN [table[s] EXCEPT !.signal = how] ELSE table[s]]

-----------------------------------------------------------------------------
(* ensureServer and launchServer.                                          *)

Open ==
  /\ keeper.at = "off"
  /\ keeper' = [keeper EXCEPT !.at = "probing"]
  /\ UNCHANGED <<srv, guard>>

\* A server already answers: it is used, and never stopped or restarted.
Adopt ==
  /\ keeper.at = "probing" /\ Healthy
  /\ keeper' = [keeper EXCEPT !.at = "up", !.owns = FALSE]
  /\ UNCHANGED <<srv, guard>>

\* Broken variant: the exit hook is registered only once the child is ready.
LaunchUnguarded(s) ==
  /\ \/ keeper.at = "probing" \/ keeper.renew = "respawn"
  /\ Next_(s)
  /\ srv' = Spawned(s, "dashboard")
  /\ keeper' = IF keeper.at = "probing"
               THEN [keeper EXCEPT !.at = "waiting", !.owns = TRUE, !.fresh = s]
               ELSE [keeper EXCEPT !.renew = "waiting", !.fresh = s]
  /\ UNCHANGED guard

\* The child is spawned, and from then on killed if the dashboard exits.
Launch(s) ==
  /\ \/ keeper.at = "probing" \/ keeper.renew = "respawn"
  /\ Next_(s)
  /\ srv' = Spawned(s, "dashboard")
  /\ keeper' = IF keeper.at = "probing"
               THEN [keeper EXCEPT !.at = "waiting", !.owns = TRUE, !.fresh = s]
               ELSE [keeper EXCEPT !.renew = "waiting", !.fresh = s]
  /\ guard' = guard \cup {s}

\* The entry is missing (not built): the dashboard ends, or the restart fails.
EntryMissing ==
  /\ \/ keeper.at = "probing" /\ keeper' = [keeper EXCEPT !.at = "gone"]
     \/ keeper.renew = "respawn" /\ keeper' = [keeper EXCEPT !.renew = "idle"]
  /\ UNCHANGED <<srv, guard>>

Waiting == keeper.at = "waiting" \/ keeper.renew = "waiting"

\* What answers /health need not be the child the launch waits for.
Ready ==
  /\ Waiting /\ Healthy
  /\ keeper' = [keeper EXCEPT !.at = "up", !.renew = "idle", !.launched = keeper.fresh,
                              !.stopped = FALSE]
  /\ UNCHANGED <<srv, guard>>

\* The child has exited, or ten seconds are over: it is killed, its hook taken
\* back.  A restart that fails keeps the old, already stopped, child as launched.
NotReady ==
  /\ Waiting
  /\ srv' = Signalled(srv, {keeper.fresh}, "kill")
  /\ guard' = guard \ {keeper.fresh}
  /\ keeper' = IF keeper.at = "waiting" THEN [keeper EXCEPT !.at = "gone"]
               ELSE [keeper EXCEPT !.renew = "idle"]

-----------------------------------------------------------------------------
(* stop(), restart() and the end of the dashboard.                         *)

\* stop() of the launched child: nothing for an adopted server or a second call.
StopsNothing == ~keeper.owns \/ keeper.stopped

Restart ==
  /\ keeper.at = "up" /\ keeper.renew = "idle" /\ keeper.quit = "no" /\ keeper.owns
  /\ IF StopsNothing
     THEN keeper' = [keeper EXCEPT !.renew = "respawn"] /\ UNCHANGED <<srv, guard>>
     ELSE /\ keeper' = [keeper EXCEPT !.renew = "grace", !.stopped = TRUE]
          /\ srv' = Signalled(srv, {keeper.launched}, "term")
          /\ guard' = guard \ {keeper.launched}

\* The child is gone, or three seconds are over and it is killed.
RestartGraceEnds ==
  /\ keeper.renew = "grace"
  /\ srv' \in {srv, Signalled(srv, {keeper.launched}, "kill")}
  /\ srv' = srv => srv[keeper.launched].at = "exited"
  /\ keeper' = [keeper EXCEPT !.renew = "respawn"]
  /\ UNCHANGED guard

Quit ==
  /\ keeper.at = "up" /\ keeper.quit = "no"
  /\ IF StopsNothing
     THEN keeper' = [keeper EXCEPT !.quit = "exiting"] /\ UNCHANGED <<srv, guard>>
     ELSE /\ keeper' = [keeper EXCEPT !.quit = "grace", !.stopped = TRUE]
          /\ srv' = Signalled(srv, {keeper.launched}, "term")
          /\ guard' = guard \ {keeper.launched}

QuitGraceEnds ==
  /\ keeper.quit = "grace"
  /\ srv' \in {srv, Signalled(srv, {keeper.launched}, "kill")}
  /\ srv' = srv => srv[keeper.launched].at = "exited"
  /\ keeper' = [keeper EXCEPT !.quit = "exiting"]
  /\ UNCHANGED guard

\* process.exit: the hooks that are still registered kill their children.
ProcessExit ==
  /\ keeper.quit = "exiting" /\ keeper.at = "up"
  /\ srv' = Signalled(srv, guard, "kill")
  /\ guard' = {}
  /\ keeper' = [keeper EXCEPT !.at = "gone", !.renew = "idle"]

\* The terminal is closed or the process killed: no exit hook runs.
KeeperDies ==
  /\ Running
  /\ keeper' = [keeper EXCEPT !.at = "gone", !.renew = "idle", !.crashed = TRUE]
  /\ guard' = {}
  /\ UNCHANGED srv

Supervise ==
  \/ Open \/ Adopt \/ EntryMissing \/ Ready \/ NotReady
  \/ Restart \/ RestartGraceEnds \/ Quit \/ QuitGraceEnds \/ ProcessExit \/ KeeperDies
  \/ \E s \in Servers : Launch(s)

ControlNext ==
  \/ Supervise
  \/ \E s \in Servers : ServerStep(s) /\ UNCHANGED <<keeper, guard>>

ControlSpec == ControlInit /\ [][ControlNext]_controlVars

-----------------------------------------------------------------------------
ControlTypeOK == srv \in [Servers -> Process] /\ keeper \in Keeper /\ guard \subseteq Servers

(* At any time at most one of the servers the dashboard has spawned runs   *)
(* without having been told to end, and none once the dashboard has        *)
(* exited, however a quit, a restart, a failed launch and the servers'     *)
(* own boots and shutdowns overlap; only a dashboard that is killed leaves *)
(* its server behind.  About launchServer, stop and restart                *)
(* (server-control.ts:263-378).                                            *)
Unended == {s \in Servers : srv[s].by = "dashboard" /\ Alive(s) /\ srv[s].signal = "none"}
SpawnedServersAreEnded ==
  /\ Cardinality(Unended) <= 1
  /\ keeper.at = "gone" /\ ~keeper.crashed => Unended = {}
=============================================================================
