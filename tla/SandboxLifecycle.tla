--------------------------- MODULE SandboxLifecycle ---------------------------
(***************************************************************************)
(* What the VM session service promises its callers: the state diagram at  *)
(* the head of src/src/vm/service.ts, with the one-shot relaunch allowance *)
(* and the withdrawal of the tool backend that precedes every stop.        *)
(***************************************************************************)
VARIABLES
  state,      \* the published state
  allowance,  \* relaunches left before the next operator start: 0 or 1
  serving     \* tool calls are handed a backend

vars == <<state, allowance, serving>>

Init == state = "off" /\ allowance \in {0, 1} /\ ~serving

(* An operator start re-arms the relaunch. *)
Start ==
  /\ state \in {"off", "stopped", "failed"}
  /\ state' = "booting" /\ allowance' = 1 /\ ~serving'

BootReady ==
  /\ state = "booting"
  /\ state' = "ready" /\ serving' /\ UNCHANGED allowance

BootFails ==
  /\ state = "booting"
  /\ state' = "failed" /\ ~serving' /\ UNCHANGED allowance

(* A stop first takes the backend away, then ends the session. *)
Withdraw ==
  /\ serving
  /\ ~serving' /\ UNCHANGED <<state, allowance>>

Stopped ==
  /\ ~serving
  /\ state' = "stopped" /\ UNCHANGED <<allowance, serving>>

(* The guest died while ready: one relaunch, then the verdict. *)
Relaunch ==
  /\ state = "ready" /\ allowance = 1
  /\ state' = "booting" /\ allowance' = 0 /\ ~serving'

GiveUp ==
  /\ state = "ready" /\ allowance = 0
  /\ state' = "failed" /\ ~serving' /\ UNCHANGED allowance

Next == Start \/ BootReady \/ BootFails \/ Withdraw \/ Stopped \/ Relaunch \/ GiveUp

Spec == Init /\ [][Next]_vars
=============================================================================
