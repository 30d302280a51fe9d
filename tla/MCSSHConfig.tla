--------------------------- MODULE MCSSHConfig ---------------------------
(* Bounded instances of SSHConfig for TLC. *)
EXTENDS SSHConfig, TLC

Symmetry == Permutations(Finishes)
=============================================================================
