---------------------------- MODULE MCVmService ----------------------------
(* Model checking of VmService.tla on small instances. *)
EXTENDS VmServiceRefinement, TLC

(* Tool calls are interchangeable, and so are stop() activations.  Not used *)
(* by the runs that check liveness.                                         *)
Symmetry == Permutations(Callers) \cup Permutations(Stoppers)
=============================================================================
