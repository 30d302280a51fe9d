------------------------------ MODULE CreateVM ------------------------------
(***************************************************************************)
(* `devwright create NAME` up to its finish (internal/launch/create.go):   *)
(* the source is snapshotted into a temporary directory, `limactl create`  *)
(* makes the instance, and the snapshot is copied into the instance's      *)
(* devwright/ directory, the manifest onboarding.json last.  Several       *)
(* creates may be given one name, each may fail or be killed anywhere, and *)
(* the user deletes an instance that cannot be finished.                   *)
(***************************************************************************)
EXTENDS Naturals

CONSTANTS
  Creates,     \* invocations of create with the same NAME
  None,
  MaxFaults,   \* bound: failing and killed creates
  MaxDeletes   \* bound: `limactl delete NAME`

ASSUME NoneAssumption == None \notin Creates
ASSUME BoundsAssumption == MaxFaults \in Nat /\ MaxDeletes \in Nat

VARIABLES
  pc, copying,
  plan,      \* plan[c]: what c has put in its temporary directory
  instance,  \* the create whose `limactl create` made the instance
  state,     \* the create that made the instance's devwright/ directory
  files,     \* files[f]: who copied f there, and whether all of it
  manifest,  \* the create that wrote onboarding.json
  hasty,     \* history: an instance was deleted while its create was at work
  evicted,   \* history: a directory was deleted under the create copying to it
  faults, deletes

vars == <<pc, copying, plan, instance, state, files, manifest, hasty,
          evicted, faults, deletes>>

\* The order of the copying loop.  A project is a bundle or an archive.
Order == <<"project", "dotfiles", "hook">>
FileNames == {Order[i] : i \in 1..3}
Absent == [by |-> None, whole |-> FALSE]
Plans == {P \in SUBSET FileNames : "project" \in P}

Places == {"idle", "listed", "prepared", "created", "known", "copying", "saved"}

TypeOK ==
  /\ pc \in [Creates -> Places]
  /\ copying \in [Creates -> 1..4]
  /\ plan \in [Creates -> Plans]
  /\ instance \in Creates \cup {None}
  /\ state \in Creates \cup {None}
  /\ files \in [FileNames -> [by : Creates \cup {None}, whole : BOOLEAN]]
  /\ manifest \in Creates \cup {None}
  /\ hasty \in BOOLEAN /\ evicted \in BOOLEAN
  /\ faults \in 0..MaxFaults
  /\ deletes \in 0..MaxDeletes

Init ==
  /\ pc = [c \in Creates |-> "idle"]
  /\ copying = [c \in Creates |-> 1]
  /\ plan = [c \in Creates |-> {"project"}]
  /\ instance = None
  /\ state = None
  /\ files = [f \in FileNames |-> Absent]
  /\ manifest = None
  /\ hasty = FALSE
  /\ evicted = FALSE
  /\ faults = 0
  /\ deletes = 0

Goto(c, from, to) == pc[c] = from /\ pc' = [pc EXCEPT ![c] = to]
Saved == <<instance, state, files, manifest>>
Bounds == <<hasty, evicted, faults, deletes>>

-----------------------------------------------------------------------------
\* limactl list: refuse a name that is taken before preparing anything.
CheckName(c) ==
  /\ instance = None
  /\ Goto(c, "idle", "listed")
  /\ copying' = [copying EXCEPT ![c] = 1]
  /\ UNCHANGED <<plan, Saved, Bounds>>

\* Snapshot the project, read the recipe, the declarations and the hook,
\* snapshot the dotfiles: all in c's own temporary directory.
Prepare(c) ==
  /\ Goto(c, "listed", "prepared")
  /\ plan' \in {[plan EXCEPT ![c] = P] : P \in Plans}
  /\ UNCHANGED <<copying, Saved, Bounds>>

\* Defect: limactl create takes over an instance of the same name.
CreateInstanceAgain(c) ==
  /\ Goto(c, "prepared", "created")
  /\ instance' = c
  /\ UNCHANGED <<copying, plan, state, files, manifest, Bounds>>

\* limactl create, which itself refuses a name that has been taken since.
CreateInstance(c) ==
  /\ \/ /\ instance = None
        /\ Goto(c, "prepared", "created")
        /\ instance' = c
     \/ /\ instance # None
        /\ Goto(c, "prepared", "idle")
        /\ UNCHANGED instance
  /\ UNCHANGED <<copying, plan, state, files, manifest, Bounds>>

\* info, then os.Mkdir(state), which fails when the directory exists.
MakeState(c) ==
  /\ \/ /\ instance # None /\ state = None
        /\ Goto(c, "created", "known")
        /\ state' = c
     \/ /\ instance = None \/ state # None
        /\ Goto(c, "created", "idle")
        /\ UNCHANGED state
  /\ UNCHANGED <<copying, plan, instance, files, manifest, Bounds>>

\* The next file that c has prepared; copyFile opens it with O_EXCL ...
OpenCopy(c) ==
  /\ copying[c] <= 3
  /\ LET f == Order[copying[c]] IN
     \/ /\ f \notin plan[c]
        /\ Goto(c, "known", "known")
        /\ copying' = [copying EXCEPT ![c] = @ + 1]
        /\ UNCHANGED files
     \/ /\ f \in plan[c] /\ state # None /\ files[f] = Absent
        /\ Goto(c, "known", "copying")
        /\ files' = [files EXCEPT ![f] = [by |-> c, whole |-> FALSE]]
        /\ UNCHANGED copying
     \/ /\ f \in plan[c] /\ (state = None \/ files[f] # Absent)
        /\ Goto(c, "known", "idle")
        /\ UNCHANGED <<files, copying>>
  /\ UNCHANGED <<plan, instance, state, manifest, Bounds>>

\* Defect: each copy is counted twice.
CloseCopyTwice(c) ==
  /\ Goto(c, "copying", "known")
  /\ files' = [files EXCEPT ![Order[copying[c]]] =
                 IF @.by = c THEN [by |-> c, whole |-> TRUE] ELSE @]
  /\ copying' = [copying EXCEPT ![c] = @ + 2]
  /\ UNCHANGED <<plan, instance, state, manifest, Bounds>>

\* ... and copies it to the end.
CloseCopy(c) ==
  /\ Goto(c, "copying", "known")
  /\ files' = [files EXCEPT ![Order[copying[c]]] =
                 IF @.by = c THEN [by |-> c, whole |-> TRUE] ELSE @]
  /\ copying' = [copying EXCEPT ![c] = @ + 1]
  /\ UNCHANGED <<plan, instance, state, manifest, Bounds>>

\* Defect: the manifest is written before the last file is copied.
WriteManifestEarly(c) ==
  /\ copying[c] >= 3
  /\ state # None
  /\ Goto(c, "known", "saved")
  /\ manifest' = c
  /\ UNCHANGED <<copying, plan, instance, state, files, Bounds>>

\* writeJSON(onboarding.json), by a rename; finish follows.
WriteManifest(c) ==
  /\ copying[c] = 4
  /\ \/ /\ state # None
        /\ Goto(c, "known", "saved")
        /\ manifest' = c
     \/ /\ state = None
        /\ Goto(c, "known", "idle")
        /\ UNCHANGED manifest
  /\ UNCHANGED <<copying, plan, instance, state, files, Bounds>>

\* c fails or is killed: what it has left on the disk stays there.
Fail(c) ==
  /\ faults < MaxFaults
  /\ faults' = faults + 1
  /\ pc[c] \notin {"idle", "saved"}
  /\ pc' = [pc EXCEPT ![c] = "idle"]
  /\ UNCHANGED <<copying, plan, Saved, hasty, evicted, deletes>>

\* The user deletes the instance, and its directory with it.
Delete ==
  /\ instance # None
  /\ hasty' = (hasty \/ pc[instance] \notin {"idle", "saved"})
  /\ evicted' = (evicted \/ (state # None /\ pc[state] \in {"known", "copying"}))
  /\ deletes < MaxDeletes
  /\ deletes' = deletes + 1
  /\ instance' = None
  /\ state' = None
  /\ files' = [f \in FileNames |-> Absent]
  /\ manifest' = None
  /\ pc' = [c \in Creates |-> IF pc[c] = "saved" THEN "idle" ELSE pc[c]]
  /\ UNCHANGED <<copying, plan, faults>>

Create(c) ==
  \/ CheckName(c) \/ Prepare(c) \/ CreateInstance(c) \/ MakeState(c)
  \/ OpenCopy(c) \/ CloseCopy(c) \/ WriteManifest(c)

Next == (\E c \in Creates : Create(c) \/ Fail(c)) \/ Delete

Spec == Init /\ [][Next]_vars

-----------------------------------------------------------------------------
(* Properties.                                                             *)

\* finish trusts the manifest: where there is one, every file it stands for
\* is there, whole and from the create that wrote it, and nothing is there
\* that this create did not prepare (finish runs a hook because its file
\* exists, not because the manifest names it).  That is so even when an
\* instance is deleted under its create and made again by another one, and
\* whichever of the two makes the directory; only a directory deleted under the
\* create that copies to it can be one in which the files of two are mixed.
ManifestIsComplete ==
  manifest # None /\ ~evicted =>
    \A f \in FileNames :
      files[f] = IF f \in plan[manifest] THEN [by |-> manifest, whole |-> TRUE]
                                         ELSE Absent

\* The instance, its saved state and its manifest are those of one create,
\* however many are given the name and whichever of them fail.
OneCreate ==
  ~hasty => /\ state # None => state = instance
            /\ manifest # None => manifest = instance
=============================================================================
