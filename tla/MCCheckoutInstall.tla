------------------------ MODULE MCCheckoutInstall ------------------------
(* Bounded instances of CheckoutInstall for TLC. *)
EXTENDS CheckoutInstall, TLC

Symmetry == Permutations(Runs)
=============================================================================
