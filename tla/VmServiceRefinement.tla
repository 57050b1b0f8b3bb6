-------------------------- MODULE VmServiceRefinement --------------------------
(* VmService implements SandboxLifecycle when operations do not overlap.    *)
EXTENDS VmService

(* A claimed relaunch is spent, to the outside, when its boot begins.       *)
RelaunchPending == \E c \in Callers : call[c].pc \in {"reap", "rm"}
Allowance == IF relaunchUsed /\ ~RelaunchPending THEN 0 ELSE 1
Serving == state = "ready" /\ backend # None

Lifecycle == INSTANCE SandboxLifecycle WITH allowance <- Allowance, serving <- Serving

(* The service steps only along the documented state diagram, with at most  *)
(* one relaunch per operator start, and withdraws its backend before it     *)
(* reports a session stopped.                                               *)
ImplementsLifecycle == Lifecycle!Spec
=============================================================================
