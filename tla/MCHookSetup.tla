--------------------------- MODULE MCHookSetup ---------------------------
(* Bounded instances of HookSetup for TLC. *)
EXTENDS HookSetup, TLC

Symmetry == Permutations(Runs)
=============================================================================
