--------------------------- MODULE DelegatingBackend ---------------------------
(***************************************************************************)
(* The tool backend of a server in VM mode (vm/boot-backend.ts): each call *)
(* asks the session service whether the sandbox is ready and runs on the   *)
(* backend of the session it names.  The synchronous methods cannot ask:   *)
(* they use the backend cached by the last answer, and drop it whenever    *)
(* the service leaves "ready".  The service is seen here by its state and  *)
(* the number of its session; VmService models it.                         *)
(***************************************************************************)
EXTENDS Integers, FiniteSets

CONSTANTS MaxSessions,   \* bound: boots of the service
          MaxCalls       \* bound: tool calls of a behaviour

NoSession == 0

VARIABLES
  service,   \* state of the session service
  session,   \* number of its latest session
  cached,    \* session whose backend is cached
  logged,    \* the not-ready probe line was logged in this episode
  gate,      \* calls waiting for ensureReady(), and calls made so far
  ran,       \* last operation that ran: the session and whether it was ready then
  closed     \* close() was called

gateVars == <<service, session, cached, logged, gate, ran, closed>>

GateInit ==
  /\ service = "stopped"
  /\ session = NoSession
  /\ cached = NoSession
  /\ logged = FALSE
  /\ gate = [waiting |-> 0, made |-> 0]
  /\ ran = [session |-> NoSession, live |-> TRUE]
  /\ closed = FALSE

\* ready(): ensureReady() answers and the cache follows; both happen before another event.
Ready(s) ==
  IF service = "ready" THEN /\ cached' = session /\ logged' = FALSE
  ELSE cached' = NoSession /\ UNCHANGED logged

\* Broken variant: the cache is kept when the service leaves "ready".
OnTransitionKeepsCache(to) ==
  IF closed THEN UNCHANGED <<cached, logged>>
  ELSE IF to = "ready" THEN cached' = session' /\ logged' = FALSE
  ELSE UNCHANGED <<cached, logged>>

\* The transition listener: warm the cache on the way into ready, drop it on the way out.
OnTransition(to) ==
  IF closed THEN UNCHANGED <<cached, logged>>
  ELSE IF to = "ready" THEN cached' = session' /\ logged' = FALSE
  ELSE cached' = NoSession /\ UNCHANGED logged

Boots ==
  /\ service \in {"stopped", "ready"} /\ session < MaxSessions /\ ~closed
  /\ service' = "booting"
  /\ OnTransition("booting")
  /\ UNCHANGED <<session, gate, ran, closed>>

BootEnds ==
  /\ service = "booting"
  /\ \/ service' = "ready" /\ session' = session + 1 /\ OnTransition("ready")
     \/ service' = "stopped" /\ OnTransition("failed") /\ UNCHANGED session
  /\ UNCHANGED <<gate, ran, closed>>

Stops ==
  /\ service = "ready"
  /\ service' = "stopped"
  /\ OnTransition("stopping")
  /\ UNCHANGED <<session, gate, ran, closed>>

\* runShell, runArgv and the file operations wait for ensureReady().
Calls ==
  /\ gate.made < MaxCalls
  /\ gate' = [waiting |-> gate.waiting + 1, made |-> gate.made + 1]
  /\ UNCHANGED <<service, session, cached, logged, ran, closed>>

\* The gate answers: the operation runs in the session it names, or the call is refused
\* with the line that says why (an error of a file operation, a rejection of a spawn).
GateAnswers ==
  /\ gate.waiting > 0
  /\ gate' = [gate EXCEPT !.waiting = @ - 1]
  /\ Ready(session)
  /\ ran' = IF service = "ready" THEN [session |-> session, live |-> TRUE] ELSE ran
  /\ UNCHANGED <<service, session, closed>>

\* probe, probeFlag, overflowPath and homedir answer from the cache; without one probe
\* answers FALSE and logs the reason once per episode.
Probe ==
  /\ IF cached = NoSession
     THEN logged' = TRUE /\ UNCHANGED ran
     ELSE ran' = [session |-> cached, live |-> service = "ready" /\ cached = session] /\ UNCHANGED logged
  /\ UNCHANGED <<service, session, cached, gate, closed>>

\* close() unsubscribes, drops the cache and stops the service.
CloseBackend ==
  /\ ~closed
  /\ closed' = TRUE
  /\ cached' = NoSession
  /\ service' = "stopped"
  /\ UNCHANGED <<session, logged, gate, ran>>

GateNext ==
  \/ Boots
  \/ BootEnds
  \/ Stops
  \/ Calls
  \/ GateAnswers
  \/ Probe
  \/ CloseBackend

GateSpec == GateInit /\ [][GateNext]_gateVars

-----------------------------------------------------------------------------

\* No operation runs in a session that is not the ready one: what the synchronous methods
\* find in the cache is the session the service has just now, however boots, stops,
\* relaunches, waiting calls and close() interleave (boot-backend.ts drops the cache on
\* every transition out of ready).
RunsInTheReadySession ==
  /\ ran.live
  /\ cached # NoSession => service = "ready" /\ cached = session
=============================================================================
