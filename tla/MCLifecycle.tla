----------------------------- MODULE MCLifecycle -----------------------------
(* An instance of Lifecycle for TLC: the combined process (RUN_WORKER_IN_API) *)
(* with two worker slots.                                                     *)
EXTENDS Lifecycle, TLC

CONSTANTS api, s1, s2, r1, r2, t1, t2, t3, g, demo

MCProcOf == [s \in Slots |-> api]

\* Slots of one process, and rows, are alike.
Symmetry == Permutations(Slots) \cup Permutations(Rows)
=============================================================================
