------------------------------ MODULE Delivery ------------------------------
(***************************************************************************)
(* What transferring a saved project into a guest directory promises,      *)
(* whatever the transport does: the target goes from nothing (or an empty  *)
(* directory) to the whole saved content in one step, only the user        *)
(* changes it otherwise, and success is reported only for a project that   *)
(* has really been delivered.                                              *)
(***************************************************************************)
VARIABLES
  content,    \* what is at the target path
  delivered,  \* has the whole content ever been put there?
  confirmed   \* has the host ever been told that it was?

vars == <<content, delivered, confirmed>>

Contents == {"absent", "empty", "snapshot", "user"}

\* Nothing the user would miss can be renamed over.
Vacant == content \in {"absent", "empty"}

Init ==
  /\ content \in {"absent", "empty", "user"}
  /\ delivered = FALSE
  /\ confirmed = FALSE

Deliver ==
  /\ Vacant
  /\ content' = "snapshot"
  /\ delivered' = TRUE
  /\ UNCHANGED confirmed

Confirm ==
  /\ delivered
  /\ confirmed' = TRUE
  /\ UNCHANGED <<content, delivered>>

User ==
  /\ content' \in Contents \ {"snapshot"}
  /\ UNCHANGED <<delivered, confirmed>>

Next == Deliver \/ Confirm \/ User

Spec == Init /\ [][Next]_vars
=============================================================================
