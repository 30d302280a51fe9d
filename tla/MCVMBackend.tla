---------------------------- MODULE MCVMBackend ----------------------------
(***************************************************************************)
(* Ways to use one name, each small; together they make every action       *)
(* happen, alone and beside another invocation.                            *)
(***************************************************************************)
EXTENDS VMBackend

CONSTANTS p1, p2, c1, c2

\* f: what p1 is used for, what it selects, and the same for p2.  most: kills,
\* stops, instances, meddles.
Use(backend, starts, rough, f, most) ==
  [backend |-> backend, starts |-> starts, rough |-> rough,
   serves |-> [p \in Procs |-> IF p = p1 THEN f[1] ELSE f[3]],
   selects |-> [p \in Procs |-> IF p = p1 THEN f[2] ELSE f[4]],
   kills |-> most[1], stops |-> most[2], instances |-> most[3], meddles |-> most[4]]

Kept == {"preserve"}

MCSettings == {
  \* One invocation at a time, and the operator who replaces the instance.
  Use("incus", "none", FALSE, <<{"create", "configure"}, Kept \cup {"embedded", c1}, {}, {}>>, <<1, 0, 2, 0>>),
  Use("incus", "none", FALSE, <<{"create", "configure"}, Kept \cup {"embedded", c1}, {}, {}>>, <<0, 1, 2, 0>>),
  \* The same under a second one that configures.
  Use("lima", "none", FALSE, <<{"create", "configure"}, Kept, {"configure"}, Kept>>, <<0, 0, 2, 0>>),
  \* Scripts that overlap, and orphans.
  Use("lima", "embedded", FALSE, <<{"configure"}, {c1}, {"configure"}, Kept>>, <<1, 0, 1, 0>>),
  \* Verifiers beside each other, the user and agents that do anything.
  Use("lima", c1, TRUE, <<{"verify"}, Kept, {"verify"}, Kept>>, <<0, 0, 1, 1>>),
  Use("lima", c2, TRUE, <<{"verify"}, Kept, {}, {}>>, <<0, 0, 1, 1>>),
  \* Verifiers that are killed.
  Use("incus", c2, FALSE, <<{"verify"}, Kept, {"verify"}, Kept>>, <<1, 0, 1, 1>>),
  \* A script beside a verifier, and the user at its canary.
  Use("lima", c1, FALSE, <<{"configure"}, {c2}, {"verify"}, Kept>>, <<0, 0, 1, 1>>)}
=============================================================================
