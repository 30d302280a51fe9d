----------------------- MODULE MCDirectoryTransfer -----------------------
(* Bounded instances of DirectoryTransfer for TLC. *)
EXTENDS DirectoryTransfer, TLC

Symmetry == Permutations(Runs)
=============================================================================
