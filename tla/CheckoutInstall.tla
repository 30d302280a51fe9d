--------------------------- MODULE CheckoutInstall ---------------------------
(***************************************************************************)
(* The transfer of a Git snapshot into the guest and the dotfiles          *)
(* installer that runs from it (internal/launch/onboard.go,                *)
(* installCheckout).  The script receives a bundle, clones it in a private *)
(* staging directory, writes the commit into .git/devwright-source and     *)
(* renames the checkout to its place; a checkout already there must carry  *)
(* the same source.  A shared checkout belongs to root and is then made    *)
(* readable by the development user's group; an installer runs until it    *)
(* has once succeeded, which .git/devwright-installed records.             *)
(***************************************************************************)
EXTENDS GuestScript

CONSTANT MaxMeddles  \* bound: what the user does at the target path

ASSUME MeddlesAssumption == MaxMeddles \in Nat

VARIABLES
  shared,     \* the root-owned dotfiles checkout (--dotfiles-root)
  installer,  \* an installer was saved with it (dotfiles, not the project)
  tree,       \* what is at the target path
  source,     \* .git/devwright-source there names the saved commit
  readable,   \* the group has been granted access to the checkout
  installed,  \* .git/devwright-installed exists there
  succeeded,  \* history: the installer has succeeded from this checkout
  delivered,  \* history: a whole checkout has been renamed to the target
  meddled,    \* history: the user created, replaced or removed the target
  exchanged,  \* history: that happened under a run past its comparison
  meddles

mode == <<shared, installer>>
vars == <<scriptVars, mode, tree, source, readable, installed, succeeded,
          delivered, meddled, exchanged, meddles>>

\* Past the comparison with devwright-source, at the installer and its marker.
AtInstaller == {"deciding", "installing", "touching"}
Labels == {"start", "receiving", "looking", "cloning", "moving", "checking",
           "granting", "deciding", "installing", "touching"}
Trees == {"absent", "empty", "snapshot", "user"}

TypeOK ==
  /\ ScriptTypeOK(Labels)
  /\ tree \in Trees
  /\ {shared, installer, source, readable, installed, succeeded, delivered,
      meddled, exchanged} \subseteq BOOLEAN
  /\ meddles \in 0..MaxMeddles

Init ==
  /\ ScriptInit
  /\ shared \in BOOLEAN
  /\ installer \in BOOLEAN
  /\ tree = "absent"
  /\ source = FALSE
  /\ readable = FALSE
  /\ installed = FALSE
  /\ succeeded = FALSE
  /\ delivered = FALSE
  /\ meddled = FALSE
  /\ exchanged = FALSE
  /\ meddles = 0

Files == <<mode, tree, source, readable, installed, succeeded, delivered, meddled,
           exchanged, meddles>>

-----------------------------------------------------------------------------
(* The guest script.                                                       *)

Local(r, from, to) == Step(r, from, to) /\ UNCHANGED Files

\* mkdir -p; stage=$(mktemp -d ...)
Stage(r) == Local(r, "start", "receiving")

\* cat > "$stage/repository.bundle"
Receive(r) == EndOfInput(r) /\ Local(r, "receiving", "looking")

\* Defect: the script clones again whatever is at the target.
LookAway(r) == Local(r, "looking", "cloning")

\* [ ! -e "$target" ]
Look(r) ==
  Local(r, "looking", IF tree = "absent" THEN "cloning" ELSE "checking")

\* What r has staged and will rename to the target: the commit of the bundle.
Staged(r) == IF stdin[r] = "whole" THEN "snapshot" ELSE "partial"

\* Defect: the staged checkout is not compared with the saved commit.
CloneUnchecked(r) == Local(r, "cloning", "moving")

\* git clone, branch -m, remote, rev-parse HEAD = COMMIT, devwright-source: a
\* bundle that was cut does not clone.
Clone(r) ==
  Local(r, "cloning", IF stdin[r] = "whole" THEN "moving" ELSE "failed")

\* Defect: what is at the target is removed before the rename.
MoveForced(r) ==
  /\ Step(r, "moving", "checking")
  /\ tree' = Staged(r)
  /\ source' = TRUE
  /\ delivered' = TRUE
  /\ readable' = FALSE
  /\ installed' = FALSE
  /\ succeeded' = FALSE
  /\ UNCHANGED <<mode, meddled, exchanged, meddles>>

\* mv -T: rename(2) succeeds over nothing and over an empty directory.
Move(r) ==
  \/ /\ tree \in {"absent", "empty"}
     /\ Step(r, "moving", "checking")
     /\ tree' = Staged(r)
     /\ source' = TRUE
     /\ delivered' = (delivered \/ tree' = "snapshot")
     /\ readable' = FALSE
     /\ installed' = FALSE
     /\ succeeded' = FALSE
     /\ UNCHANGED <<mode, meddled, exchanged, meddles>>
  \/ /\ tree \notin {"absent", "empty"}
     /\ Local(r, "moving", "failed")

\* Defect: a checkout that was found in place is not made readable.
CheckSourceUngranted(r) ==
  Local(r, "checking", IF ~source THEN "failed"
                       ELSE IF installer THEN "deciding" ELSE "ok")

\* test "$(cat "$target/.git/devwright-source")" = COMMIT
CheckSource(r) ==
  Local(r, "checking", IF ~source THEN "failed"
                       ELSE IF shared THEN "granting"
                       ELSE IF installer THEN "deciding" ELSE "ok")

\* chgrp -hR; chmod -R g+rX,g-w,o-rwx
Grant(r) ==
  /\ Step(r, "granting", IF installer THEN "deciding" ELSE "ok")
  /\ readable' = TRUE
  /\ UNCHANGED <<mode, tree, source, installed, succeeded, delivered, meddled, exchanged,
                 meddles>>

\* Defect: the marker is touched before the installer is run.
DecideAndTouch(r) ==
  /\ Step(r, "deciding", IF installed THEN "ok" ELSE "installing")
  /\ installed' = TRUE
  /\ UNCHANGED <<mode, tree, source, readable, succeeded, delivered, meddled, exchanged,
                 meddles>>

\* [ ! -f "$target/.git/devwright-installed" ]
Decide(r) ==
  Local(r, "deciding", IF installed THEN "ok" ELSE "installing")

\* The installer succeeds; CommandFails is its failure.
Install(r) ==
  /\ Step(r, "installing", "touching")
  /\ succeeded' = (succeeded \/ source)
  /\ UNCHANGED <<mode, tree, source, readable, installed, delivered, meddled, exchanged,
                 meddles>>

\* touch "$target/.git/devwright-installed", which fails where the user has
\* left no .git directory.
Touch(r) ==
  \/ /\ tree \in {"snapshot", "user"}
     /\ Step(r, "touching", "ok")
     /\ installed' = TRUE
     /\ UNCHANGED <<mode, tree, source, readable, succeeded, delivered, meddled, exchanged,
                 meddles>>
  \/ /\ ~source
     /\ Local(r, "touching", "failed")

Script(r) ==
  \/ Stage(r) \/ Receive(r) \/ Look(r) \/ Clone(r) \/ Move(r) \/ CheckSource(r)
  \/ Grant(r) \/ Decide(r) \/ Install(r) \/ Touch(r)

-----------------------------------------------------------------------------
(* The host, the faults and the user.                                      *)

Host(r) == (BeginScript(r) \/ Stream(r) \/ Exit(r)) /\ UNCHANGED Files

Faulty ==
  /\ Disconnect \/ PowerLoss \/ \E r \in Runs : CommandFails(r)
  /\ UNCHANGED Files

\* Only root could meddle with the shared checkout.
Meddle ==
  /\ ~shared
  /\ meddles < MaxMeddles
  /\ meddles' = meddles + 1
  /\ UNCHANGED <<scriptVars, mode, delivered, readable>>

\* The user works in the checkout and leaves .git alone.
UserEdits ==
  /\ Meddle
  /\ tree = "snapshot"
  /\ tree' = "user"
  /\ UNCHANGED <<source, installed, succeeded, meddled, exchanged>>

\* The user creates, replaces or removes what is at the target path.
UserReplaces ==
  /\ Meddle
  /\ tree' \in {"absent", "empty", "user"}
  /\ <<tree, tree'>> # <<"absent", "absent">>
  /\ source' = FALSE
  /\ installed' = FALSE
  /\ succeeded' = FALSE
  /\ meddled' = TRUE
  /\ exchanged' = (exchanged \/ \E r \in Runs : pc[r] \in AtInstaller)

User == UserEdits \/ UserReplaces

-----------------------------------------------------------------------------
Next ==
  \/ \E r \in Runs : Host(r) \/ Script(r)
  \/ Faulty
  \/ User

Spec == Init /\ [][Next]_vars

\* Guest processes are scheduled, ssh sends what it has, and the operator runs
\* finish again until one succeeds.
Fairness ==
  /\ \A r \in Runs : /\ WF_vars(Script(r))
                     /\ WF_vars(Host(r) /\ pc[r] # Idle)
  /\ WF_vars(~ready /\ \E r \in Runs : Host(r) /\ pc[r] = Idle)

FairSpec == Spec /\ Fairness

-----------------------------------------------------------------------------
(* Properties.                                                             *)

\* README.md:201: one completion marker is written only after the entire
\* installer succeeds.  The marker found in a checkout vouches for that very
\* checkout, whichever of several overlapping runs touched it, and also when
\* the user has removed or replaced a checkout and another was delivered since;
\* unless that was done under a run past its comparison, which then touches
\* whatever it finds.
InstalledHonest == (installed /\ ~exchanged) => succeeded

\* The installer is executed only from the delivered commit, and from the
\* shared checkout only when the development user, to whom it may switch,
\* can already read it: the script is past the grant whoever cloned it.
InstallerFindsCheckout ==
  \A r \in Runs : (pc[r] \in {"deciding", "installing"} /\ ~exchanged) =>
    source /\ delivered /\ (shared => readable)

\* The transfer implements the abstract promise.
Promise == INSTANCE Delivery WITH
             content <- tree, delivered <- delivered, confirmed <- ready
ImplementsDelivery == Promise!Spec

\* Every interruption can be resumed.
EventuallyReady == <>(ready \/ meddled)

\* onboard.go:38-39: a second onboarding operation is refused while one is
\* running for the VM.  So no two installers run at the same time, as long as no
\* run outlives its connection: the lock is held by the host process.
OneInstaller ==
  \A r, q \in Runs : pc[r] = "installing" /\ pc[q] = "installing" => r = q
=============================================================================
