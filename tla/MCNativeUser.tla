-------------------------- MODULE MCNativeUser --------------------------
(* Bounded instances of NativeUser for TLC. *)
EXTENDS NativeUser, TLC

CONSTANTS p1, p2, a, b

\* The first launcher serves both accounts, the second competes for one.
TwoLaunchers == p1 :> {a, b} @@ p2 :> {a}
OneLauncher == p1 :> {a}
=============================================================================
