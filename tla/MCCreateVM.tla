---------------------------- MODULE MCCreateVM ----------------------------
(* Bounded instances of CreateVM for TLC. *)
EXTENDS CreateVM, TLC

Symmetry == Permutations(Creates)
=============================================================================
