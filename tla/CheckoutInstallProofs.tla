----------------------- MODULE CheckoutInstallProofs -----------------------
(***************************************************************************)
(* What the checkout transfer and its installer guarantee for any number   *)
(* of overlapping runs, faults and interventions of the user.  How far a   *)
(* run is tells what must have happened at the target, whoever did it; and *)
(* as long as the user has not exchanged the checkout under it, what a run *)
(* has found there the others cannot take away, because a rename needs a   *)
(* place that is vacant.                                                   *)
(***************************************************************************)
EXTENDS CheckoutInstall, TLAPS

\* The places past the comparison of devwright-source.
Compared == {"granting", "deciding", "installing", "touching", "ok"}

\* A checkout with the saved commit was delivered, and is there.
Genuine ==
  /\ source => delivered /\ tree \notin {"absent", "empty"}
  /\ exchanged => meddled
  /\ shared => ~meddled

\* What the place of a run is evidence of.
RunsHonest ==
  \A r \in Runs :
    /\ pc[r] = "moving" => stdin[r] = "whole"
    /\ pc[r] \in Compared => delivered
    /\ pc[r] = "granting" => shared /\ source
    /\ pc[r] \in AtInstaller /\ ~exchanged => source /\ (shared => readable)
    /\ pc[r] = "touching" /\ ~exchanged => succeeded

IInv ==
  /\ TypeOK
  /\ Genuine
  /\ RunsHonest
  /\ InstalledHonest
  /\ ready => delivered

USE DEF ScriptTypeOK, Files, mode, scriptVars, hostVars, Idle, Ended, Labels, Trees, Compared,
        AtInstaller

-----------------------------------------------------------------------------
\* Before the first run there is nothing that could vouch for anything.
LEMMA InitIInv == Init => IInv
<1>. SUFFICES ASSUME Init PROVE IInv
  OBVIOUS
<1>1. faults \in 0..MaxFaults /\ meddles \in 0..MaxMeddles
  BY FaultsAssumption, MeddlesAssumption DEF Init, ScriptInit
<1>2. TypeOK
  BY <1>1 DEF Init, ScriptInit, TypeOK
<1>3. RunsHonest
  BY DEF Init, ScriptInit, RunsHonest
<1>. QED BY <1>2, <1>3 DEF Init, ScriptInit, IInv, Genuine, InstalledHonest

\* A step that changes nothing but the place of a run keeps the invariant,
\* provided the evidence the new place stands for is there.
LEMMA LocalIInv ==
  ASSUME IInv, NEW r \in Runs, NEW from, NEW to \in Labels \cup Ended,
         Local(r, from, to),
         to = "moving" => stdin[r] = "whole",
         to \in Compared => delivered,
         to = "granting" => shared /\ source,
         to \in AtInstaller /\ ~exchanged => source /\ (shared => readable),
         to # "touching"
  PROVE  IInv'
<1>1. TypeOK'
  BY DEF IInv, TypeOK, Local, Step, Goto
<1>2. RunsHonest'
  BY DEF IInv, TypeOK, RunsHonest, Local, Step, Goto
<1>. QED BY <1>1, <1>2 DEF IInv, Genuine, InstalledHonest, Local, Step

\* A rename into a vacant place takes no run's evidence away: a run with evidence
\* has found the source, and where that is no place is vacant.
LEMMA MoveIInv ==
  ASSUME IInv, NEW r \in Runs, Move(r)
  PROVE  IInv'
<1>1. CASE tree \notin {"absent", "empty"}
  BY <1>1, LocalIInv DEF Move
<1>2. CASE tree \in {"absent", "empty"}
  <2>1. Staged(r) = "snapshot"
    BY <1>2 DEF Move, Step, Staged, IInv, RunsHonest
  <2>2. /\ tree' = "snapshot" /\ source' /\ delivered' /\ ~installed'
        /\ pc' = [pc EXCEPT ![r] = "checking"]
        /\ UNCHANGED <<stdin, ready, meddled, exchanged, mode>>
    BY <1>2, <2>1 DEF Move, Step, Goto
  <2>3. ~source
    BY <1>2 DEF IInv, Genuine
  <2>4. TypeOK'
    BY <1>2, <2>2 DEF Move, Step, IInv, TypeOK
  <2>5. RunsHonest'
    BY <2>2, <2>3 DEF IInv, TypeOK, RunsHonest
  <2>. QED BY <2>2, <2>4, <2>5 DEF IInv, Genuine, InstalledHonest
<1>. QED BY <1>1, <1>2

\* Every step of the guest script keeps the invariant.
LEMMA ScriptIInv ==
  ASSUME IInv, NEW r \in Runs, Script(r)
  PROVE  IInv'
<1>1. CASE Stage(r)
  BY <1>1, LocalIInv DEF Stage
<1>2. CASE Receive(r)
  BY <1>2, LocalIInv DEF Receive
<1>3. CASE Look(r)
  BY <1>3, LocalIInv DEF Look
<1>4. CASE Clone(r)
  BY <1>4, LocalIInv DEF Clone
<1>5. CASE Move(r)
  BY <1>5, MoveIInv
<1>6. CASE CheckSource(r)
  BY <1>6, LocalIInv DEF CheckSource, IInv, Genuine, Local, Step
<1>7. CASE Grant(r)
  <2>1. delivered /\ pc' = [pc EXCEPT ![r] = IF installer THEN "deciding" ELSE "ok"]
    BY <1>7 DEF Grant, Step, Goto, IInv, RunsHonest
  <2>2. TypeOK' /\ RunsHonest'
    BY <1>7, <2>1 DEF Grant, Step, IInv, TypeOK, RunsHonest
  <2>. QED BY <1>7, <2>2 DEF Grant, Step, IInv, Genuine, InstalledHonest
<1>8. CASE Decide(r)
  <2>1. delivered /\ (~exchanged => source /\ (shared => readable))
    BY <1>8 DEF Decide, Local, Step, IInv, RunsHonest
  <2>. QED BY <1>8, <2>1, LocalIInv DEF Decide
<1>9. CASE Install(r)
  <2>1. delivered /\ (~exchanged => source /\ (shared => readable))
    BY <1>9 DEF Install, Step, IInv, RunsHonest
  <2>2. ~exchanged => succeeded'
    BY <1>9, <2>1 DEF Install, IInv, Genuine
  <2>3. TypeOK' /\ RunsHonest'
    BY <1>9, <2>1, <2>2 DEF Install, Step, Goto, IInv, TypeOK, RunsHonest
  <2>. QED BY <1>9, <2>2, <2>3 DEF Install, Step, IInv, Genuine, InstalledHonest
<1>10. CASE Touch(r)
  <2>1. delivered /\ (~exchanged => succeeded)
    BY <1>10 DEF Touch, Local, Step, IInv, RunsHonest
  <2>2. CASE Local(r, "touching", "failed")
    BY <2>2, LocalIInv
  <2>3. CASE ~Local(r, "touching", "failed")
    <3>1. /\ pc' = [pc EXCEPT ![r] = "ok"] /\ installed' = TRUE
          /\ UNCHANGED <<hostVars, mode, tree, source, readable, succeeded, delivered,
                         meddled, exchanged, meddles>>
      BY <1>10, <2>3 DEF Touch, Step, Goto
    <3>2. TypeOK' /\ RunsHonest'
      BY <2>1, <3>1 DEF IInv, TypeOK, RunsHonest
    <3>. QED BY <2>1, <3>1, <3>2 DEF IInv, Genuine, InstalledHonest
  <2>. QED BY <2>2, <2>3
<1>. QED BY <1>1, <1>2, <1>3, <1>4, <1>5, <1>6, <1>7, <1>8, <1>9, <1>10 DEF Script

\* The host and the faults only move runs to places that promise nothing, and
\* success is reported for a run that has compared the commit.
LEMMA HostIInv ==
  ASSUME IInv, (\E r \in Runs : Host(r)) \/ Faulty
  PROVE  IInv'
<1>0. UNCHANGED Files
  BY DEF Host, Faulty
<1>1. ASSUME NEW r \in Runs, BeginScript(r) \/ Stream(r) PROVE IInv'
  <2>1. TypeOK' /\ RunsHonest'
    BY <1>0, <1>1 DEF BeginScript, Stream, Goto, IInv, TypeOK, RunsHonest
  <2>. QED BY <1>0, <1>1, <2>1
           DEF BeginScript, Stream, IInv, Genuine, InstalledHonest
<1>2. ASSUME NEW r \in Runs, Exit(r) PROVE IInv'
  <2>1. TypeOK' /\ RunsHonest'
    BY <1>0, <1>2 DEF Exit, Goto, IInv, TypeOK, RunsHonest
  <2>2. ready' => delivered
    BY <1>2 DEF Exit, IInv, RunsHonest
  <2>. QED BY <1>0, <2>1, <2>2 DEF IInv, Genuine, InstalledHonest
<1>3. CASE Disconnect
  <2>1. TypeOK' /\ RunsHonest'
    BY <1>0, <1>3, FaultsAssumption DEF Disconnect, Fault, IInv, TypeOK, RunsHonest
  <2>. QED BY <1>0, <1>3, <2>1 DEF Disconnect, IInv, Genuine, InstalledHonest
<1>4. ASSUME NEW r \in Runs, CommandFails(r) PROVE IInv'
  <2>1. TypeOK' /\ RunsHonest'
    BY <1>0, <1>4, FaultsAssumption DEF CommandFails, Fault, Goto, IInv, TypeOK, RunsHonest
  <2>. QED BY <1>0, <1>4, <2>1 DEF CommandFails, IInv, Genuine, InstalledHonest
<1>5. CASE PowerLoss
  <2>1. TypeOK' /\ RunsHonest'
    BY <1>0, <1>5, FaultsAssumption DEF PowerLoss, Fault, IInv, TypeOK, RunsHonest
  <2>. QED BY <1>0, <1>5, <2>1 DEF PowerLoss, IInv, Genuine, InstalledHonest
<1>. QED BY <1>1, <1>2, <1>3, <1>4, <1>5 DEF Host, Faulty

\* The user disturbs a run's evidence only by an exchange under it, which is known
\* as one.
LEMMA UserIInv == ASSUME IInv, User PROVE IInv'
<1>1. TypeOK'
  <2>1. CASE UserEdits
    BY <2>1, MeddlesAssumption DEF UserEdits, Meddle, IInv, TypeOK
  <2>2. CASE UserReplaces
    <3>1. meddles' \in 0..MaxMeddles
      BY <2>2, MeddlesAssumption DEF UserReplaces, Meddle, IInv, TypeOK
    <3>2. tree' \in Trees /\ source' = FALSE /\ installed' = FALSE
          /\ succeeded' = FALSE /\ meddled' = TRUE /\ exchanged' \in BOOLEAN
      BY <2>2 DEF UserReplaces
    <3>. QED BY <2>2, <3>1, <3>2 DEF UserReplaces, Meddle, IInv, TypeOK
  <2>. QED BY <2>1, <2>2 DEF User
<1>2. RunsHonest'
  BY DEF TypeOK, User, UserEdits, UserReplaces, Meddle, IInv, RunsHonest
<1>. QED BY <1>1, <1>2
         DEF User, UserEdits, UserReplaces, Meddle, IInv, Genuine, InstalledHonest

\* The invariant is inductive.
LEMMA NextIInv == IInv /\ [Next]_vars => IInv'
<1>. SUFFICES ASSUME IInv, [Next]_vars PROVE IInv'
  OBVIOUS
<1>1. CASE UNCHANGED vars
  BY <1>1 DEF vars, IInv, TypeOK, Genuine, RunsHonest, InstalledHonest
<1>. QED BY <1>1, ScriptIInv, HostIInv, UserIInv DEF Next

-----------------------------------------------------------------------------
\* The inductive invariant holds in every reachable state.
THEOREM Invariance == Spec => []IInv
BY InitIInv, NextIInv, PTL DEF Spec

\* Every run is at one of the script's places and the checkout is absent,
\* empty, as delivered or the user's: a partial one is never at the target.
THEOREM TypeCorrect == Spec => []TypeOK
<1>1. IInv => TypeOK
  BY DEF IInv
<1>. QED BY <1>1, Invariance, PTL

\* The marker in a checkout vouches for that very checkout: its installer has
\* succeeded there.
THEOREM MarkerVouches == Spec => []InstalledHonest
<1>1. IInv => InstalledHonest
  BY DEF IInv
<1>. QED BY <1>1, Invariance, PTL

\* An installer is executed from the delivered commit, and from a shared one
\* only after the group was let in.
THEOREM InstallerIsAtHome == Spec => []InstallerFindsCheckout
<1>1. IInv => InstallerFindsCheckout
  BY DEF IInv, Genuine, RunsHonest, InstallerFindsCheckout
<1>. QED BY <1>1, Invariance, PTL

\* The transfer of a checkout keeps the abstract promise: whole or not at all,
\* never over the user's files, and success only after a delivery.
THEOREM Implementation == Spec => ImplementsDelivery
<1>1. Init => Promise!Init
  BY DEF Init, ScriptInit, Promise!Init
<1>2. IInv /\ [Next]_vars => [Promise!Next]_(Promise!vars)
  <2>. SUFFICES ASSUME IInv, Next PROVE Promise!Next \/ UNCHANGED Promise!vars
    BY DEF vars, Promise!vars
  <2>. USE DEF Promise!vars
  <2>1. ASSUME NEW r \in Runs, Move(r) PROVE Promise!Next \/ UNCHANGED Promise!vars
    <3>1. CASE tree \in {"absent", "empty"}
      <4>1. Staged(r) = "snapshot"
        BY <2>1, <3>1 DEF Move, Step, Staged, IInv, RunsHonest
      <4>. QED BY <2>1, <3>1, <4>1
               DEF Move, Step, Promise!Next, Promise!Deliver, Promise!Vacant
    <3>2. CASE tree \notin {"absent", "empty"}
      BY <2>1, <3>2 DEF Move, Local, Step
    <3>. QED BY <3>1, <3>2
  <2>2. ASSUME NEW r \in Runs, Script(r), ~Move(r) PROVE UNCHANGED Promise!vars
    BY <2>2 DEF Script, Stage, Receive, Look, Clone, CheckSource, Grant, Decide,
                Install, Touch, Local, Step
  <2>3. ASSUME NEW r \in Runs, Exit(r), UNCHANGED Files
        PROVE  Promise!Next \/ UNCHANGED Promise!vars
    <3>1. CASE ready' = ready
      BY <2>3, <3>1
    <3>2. CASE ready' # ready
      <4>1. ready' /\ delivered
        BY <2>3, <3>2 DEF Exit, IInv, TypeOK, RunsHonest
      <4>. QED BY <2>3, <4>1 DEF Promise!Next, Promise!Confirm, IInv, TypeOK
    <3>. QED BY <3>1, <3>2
  <2>4. ASSUME NEW r \in Runs, BeginScript(r) \/ Stream(r), UNCHANGED Files
        PROVE  UNCHANGED Promise!vars
    BY <2>4 DEF BeginScript, Stream
  <2>5. CASE Faulty
    BY <2>5 DEF Faulty, Disconnect, PowerLoss, CommandFails
  <2>6. CASE User
    BY <2>6 DEF User, UserEdits, UserReplaces, Meddle, Promise!Next, Promise!User,
                Promise!Contents
  <2>. QED BY <2>1, <2>2, <2>3, <2>4, <2>5, <2>6 DEF Next, Host
<1>. QED BY <1>1, <1>2, Invariance, PTL DEF Spec, ImplementsDelivery, Promise!Spec

-----------------------------------------------------------------------------
\* Without lost connections every run at work has the lock's holder waiting.
Attached == \A r \in Runs : pc[r] # Idle => attached = r

\* A second onboarding operation is refused while one is running: that much is
\* true as long as no connection is lost under a run, which is the only way to
\* two installers at the same time.
THEOREM OnlyDisconnectsOverlap ==
  ASSUME "disconnect" \notin FaultKinds PROVE Spec => []OneInstaller
<1>1. Init => Attached
  BY DEF Init, ScriptInit, Attached
<1>2. TypeOK /\ Attached /\ [Next]_vars => Attached'
  <2>. SUFFICES ASSUME TypeOK, Attached, [Next]_vars PROVE Attached'
    OBVIOUS
  <2>. USE RunsAssumption DEF TypeOK, Attached
  <2>1. ASSUME NEW r \in Runs, Script(r) PROVE Attached'
    BY <2>1 DEF Script, Stage, Receive, Look, Clone, Move, CheckSource, Grant, Decide,
                Install, Touch, Local, Step, Goto
  <2>2. ASSUME NEW r \in Runs, Host(r) PROVE Attached'
    BY <2>2 DEF Host, BeginScript, Stream, Exit, Goto
  <2>3. CASE Faulty
    BY <2>3 DEF Faulty, Disconnect, PowerLoss, CommandFails, Fault, Goto
  <2>4. CASE User
    BY <2>4 DEF User, UserEdits, UserReplaces, Meddle
  <2>5. CASE UNCHANGED vars
    BY <2>5 DEF vars
  <2>. QED BY <2>1, <2>2, <2>3, <2>4, <2>5 DEF Next
<1>3. Attached => OneInstaller
  BY DEF Attached, OneInstaller
<1>. QED BY <1>1, <1>2, <1>3, TypeCorrect, PTL DEF Spec
=============================================================================
