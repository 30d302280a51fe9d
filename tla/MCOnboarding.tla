-------------------------- MODULE MCOnboarding --------------------------
(* Bounded instances of Onboarding for TLC. *)
EXTENDS Onboarding

CONSTANTS p1, p2
=============================================================================
