-------------------------- MODULE DirectoryTransfer --------------------------
(***************************************************************************)
(* The transfer of a local directory into the guest                        *)
(* (internal/launch/directory.go, installDirectory and directoryScript):   *)
(* the saved archive is the input of a guest script that stages it, checks *)
(* its digest, renames it to ~/projects/NAME and records a marker.         *)
(*                                                                         *)
(* Each step of the script that touches a path shared with other runs or   *)
(* with the user is an action; what a run does in its private staging      *)
(* directory is folded into the step that ends it.                         *)
(***************************************************************************)
EXTENDS GuestScript

CONSTANT MaxMeddles  \* bound: what the user does at the target path

ASSUME MeddlesAssumption == MaxMeddles \in Nat

VARIABLES
  tree,      \* what is at ~/projects/NAME
  stamp,     \* does it hold .devwright-directory-source?
  marker,    \* ~/.local/state/devwright/directory-source
  carries,   \* does the archive itself contain a file named like the stamp?
  delivered, \* history: a whole snapshot has been renamed to the target
  meddled,   \* history: the user created, replaced, removed or unstamped it
  meddles

vars == <<scriptVars, tree, stamp, marker, carries, delivered, meddled, meddles>>

Labels == {"start", "compare", "drain", "receiving", "hashing", "looking",
           "extracting", "moving", "verifying", "marking", "writing",
           "unstamping"}
Trees == {"absent", "empty", "snapshot", "user"}

TypeOK ==
  /\ ScriptTypeOK(Labels)
  /\ tree \in Trees
  /\ stamp \in BOOLEAN
  /\ marker \in {"absent", "empty", "digest"}
  /\ carries \in BOOLEAN
  /\ delivered \in BOOLEAN
  /\ meddled \in BOOLEAN
  /\ meddles \in 0..MaxMeddles

Init ==
  /\ ScriptInit
  /\ tree = "absent"
  /\ stamp = FALSE
  /\ marker = "absent"
  /\ carries \in BOOLEAN
  /\ delivered = FALSE
  /\ meddled = FALSE
  /\ meddles = 0

\* What a step of the host, or one that only reads, leaves alone.
Files == <<tree, stamp, marker, delivered, meddled, meddles, carries>>

-----------------------------------------------------------------------------
(* The guest script.                                                       *)

Local(r, from, to) == Step(r, from, to) /\ UNCHANGED Files

\* [ -f "$marker" ]
FindMarker(r) ==
  Local(r, "start", IF marker = "absent" THEN "receiving" ELSE "compare")

\* test "$(cat "$marker")" = DIGEST
CompareMarker(r) ==
  Local(r, "compare", IF marker = "digest" THEN "drain" ELSE "failed")

\* cat >/dev/null; exit 0
Drain(r) == EndOfInput(r) /\ Local(r, "drain", "ok")

\* stage=$(mktemp -d ...); cat > "$stage/project.tar.gz"
Receive(r) == EndOfInput(r) /\ Local(r, "receiving", "hashing")

\* What r has staged and will rename to the target: the archive as it came.
Staged(r) == IF stdin[r] = "whole" THEN "snapshot" ELSE "partial"

\* Defect: the digest is not checked, a cut stream is unpacked as far as it goes.
HashUnchecked(r) == Local(r, "hashing", "looking")

\* test "$(sha256sum ...)" = DIGEST
Hash(r) ==
  Local(r, "hashing", IF stdin[r] = "whole" THEN "looking" ELSE "failed")

\* [ ! -e "$target" ] && [ ! -L "$target" ]
Look(r) ==
  Local(r, "looking", IF tree = "absent" THEN "extracting" ELSE "verifying")

\* tar --extract into the staging directory, refuse a carried stamp, stamp it.
Extract(r) ==
  Local(r, "extracting", IF carries THEN "failed" ELSE "moving")

\* Defect: the project is renamed to its place before it is stamped.
MoveUnstamped(r) ==
  /\ tree \in {"absent", "empty"}
  /\ Step(r, "moving", "verifying")
  /\ tree' = Staged(r)
  /\ delivered' = TRUE
  /\ UNCHANGED <<stamp, marker, meddled, meddles, carries>>

\* Defect: what is at the target is removed before the rename.
MoveForced(r) ==
  /\ Step(r, "moving", "verifying")
  /\ tree' = Staged(r)
  /\ stamp' = TRUE
  /\ delivered' = TRUE
  /\ UNCHANGED <<marker, meddled, meddles, carries>>

\* mv -T: rename(2) succeeds over nothing and over an empty directory.
Move(r) ==
  \/ /\ tree \in {"absent", "empty"}
     /\ Step(r, "moving", "verifying")
     /\ tree' = Staged(r)
     /\ stamp' = TRUE
     /\ delivered' = (delivered \/ tree' = "snapshot")
     /\ UNCHANGED <<marker, meddled, meddles, carries>>
  \/ /\ tree \notin {"absent", "empty"}
     /\ Local(r, "moving", "failed")

\* Defect: the stamp is removed once it is read, before the marker exists.
VerifyAndUnstamp(r) ==
  /\ Step(r, "verifying", IF stamp THEN "marking" ELSE "failed")
  /\ stamp' = FALSE
  /\ UNCHANGED <<tree, marker, delivered, meddled, meddles, carries>>

\* test "$(cat "$target/$stamp")" = DIGEST
Verify(r) == Local(r, "verifying", IF stamp THEN "marking" ELSE "failed")

\* printf ... > "$marker": the shell truncates the file, then printf writes.
OpenMarker(r) ==
  /\ Step(r, "marking", "writing")
  /\ marker' = "empty"
  /\ UNCHANGED <<tree, stamp, delivered, meddled, meddles, carries>>

\* Defect: a write to a full disk that is taken for a complete one.
WriteShort(r) ==
  /\ Step(r, "writing", "unstamping")
  /\ marker' \in {"digest", "partial"}
  /\ UNCHANGED <<tree, stamp, delivered, meddled, meddles, carries>>

WriteMarker(r) ==
  /\ Step(r, "writing", "unstamping")
  /\ marker' = "digest"
  /\ UNCHANGED <<tree, stamp, delivered, meddled, meddles, carries>>

\* rm -- "$target/$stamp", which fails when another run has removed it.
Unstamp(r) ==
  /\ Step(r, "unstamping", IF stamp THEN "ok" ELSE "failed")
  /\ stamp' = FALSE
  /\ UNCHANGED <<tree, marker, delivered, meddled, meddles, carries>>

Script(r) ==
  \/ FindMarker(r) \/ CompareMarker(r) \/ Drain(r)
  \/ Receive(r) \/ Hash(r) \/ Look(r) \/ Extract(r) \/ Move(r)
  \/ Verify(r) \/ OpenMarker(r) \/ WriteMarker(r) \/ Unstamp(r)

-----------------------------------------------------------------------------
(* The host, the faults and the user.                                      *)

Host(r) == (BeginScript(r) \/ Stream(r) \/ Exit(r)) /\ UNCHANGED Files

Faulty ==
  /\ Disconnect \/ PowerLoss \/ \E r \in Runs : CommandFails(r)
  /\ UNCHANGED Files

Meddle ==
  /\ meddles < MaxMeddles
  /\ meddles' = meddles + 1
  /\ UNCHANGED <<scriptVars, marker, delivered, carries>>

\* The user works in the delivered project.
UserEdits ==
  /\ Meddle
  /\ tree = "snapshot"
  /\ tree' = "user"
  /\ UNCHANGED <<stamp, meddled>>

UserCreates ==
  /\ Meddle
  /\ tree = "absent"
  /\ tree' \in {"empty", "user"}
  /\ meddled' = TRUE
  /\ UNCHANGED stamp

\* The user puts a tree of their own at the target, or cleans untracked files.
UserReplaces ==
  /\ Meddle
  /\ tree # "absent"
  /\ tree' \in {"user", tree}
  /\ stamp' = FALSE
  /\ meddled' = TRUE

UserRemoves ==
  /\ Meddle
  /\ tree # "absent"
  /\ tree' = "absent"
  /\ stamp' = FALSE
  /\ meddled' = TRUE

User == UserEdits \/ UserCreates \/ UserReplaces \/ UserRemoves

-----------------------------------------------------------------------------
Next ==
  \/ \E r \in Runs : Host(r) \/ Script(r)
  \/ Faulty
  \/ User

Spec == Init /\ [][Next]_vars

\* Guest processes are scheduled, ssh sends what it has, and the operator runs
\* finish again until one succeeds.  Faults and the user owe nothing.
Fairness ==
  /\ \A r \in Runs : /\ WF_vars(Script(r))
                     /\ WF_vars(Host(r) /\ pc[r] # Idle)
  /\ WF_vars(~ready /\ \E r \in Runs : Host(r) /\ pc[r] = Idle)

FairSpec == Spec /\ Fairness

-----------------------------------------------------------------------------
(* Properties.                                                             *)

\* directory.go:131: the stamp closes the gap between the rename and the
\* marker.  As long as no marker file exists, a project that has been put in
\* place still carries the stamp by which a later run recognises it, however
\* runs overlap, fail or are cut off; only the user can take it away.
StampClosesGap == (delivered /\ marker = "absent" /\ ~meddled) => stamp

\* Work the user has put at the target is never replaced by a run, not even
\* by one that looked before the user created it.
UserWorkSurvives ==
  [][tree = "user" /\ tree' # "user" => UserRemoves]_vars

\* Overlapping runs (an orphan and its retry) put the project in place once;
\* it is delivered again only to a user who has interfered at the target.
DeliveredOnce ==
  [][tree' = "snapshot" /\ tree # "snapshot" => ~delivered \/ meddled]_vars

\* The transfer implements the abstract promise.
Promise == INSTANCE Delivery WITH
             content <- tree, delivered <- delivered, confirmed <- ready
ImplementsDelivery == Promise!Spec

\* Whatever interrupts it and however runs overlap, if the operator keeps
\* running finish one reports success, unless the user interfered at the
\* target, the archive itself carries the stamp's name, or a fault between
\* opening the marker and writing it has left it empty for good.
OnlyTornMarkerBlocks ==
  carries \/ <>(ready \/ meddled) \/ <>[](marker = "empty")

\* README.md:222 and the comment at directory.go:131: onboarding is resumed
\* after an interruption, a torn marker included.
EventuallyReady == carries \/ <>(ready \/ meddled)
=============================================================================
