---------------------- MODULE DirectoryTransferProofs ----------------------
(***************************************************************************)
(* What the directory transfer guarantees for any number of overlapping    *)
(* runs, faults and interventions of the user.  The argument rests on one  *)
(* inductive invariant, IInv: how far a run is in the script tells what    *)
(* must already have happened at the target, whoever made it happen.       *)
(***************************************************************************)
EXTENDS DirectoryTransfer, TLAPS

\* The marker is evidence: it exists only if a whole snapshot was renamed to
\* the target, so a finish that skips the transfer skips nothing.
MarkerHonest == marker # "absent" => delivered

\* A run that is past the check of the stamp, or that has compared the
\* marker, is evidence that the snapshot has been put in place; one that is
\* past the check of the digest has received the whole archive.
RunsHonest ==
  \A r \in Runs :
    /\ pc[r] \in {"looking", "extracting", "moving"} => stdin[r] = "whole"
    /\ pc[r] \in {"drain", "marking", "writing", "unstamping", "ok"} => delivered
    /\ pc[r] \in {"writing", "unstamping"} => marker # "absent"

\* The target is vacant after a delivery only if the user made it so.
VacantByUser == (delivered /\ tree \in {"absent", "empty"}) => meddled

IInv ==
  /\ TypeOK
  /\ StampClosesGap
  /\ MarkerHonest
  /\ RunsHonest
  /\ VacantByUser
  /\ stamp => delivered
  /\ ready => delivered

USE DEF ScriptTypeOK, Files, scriptVars, hostVars, Idle, Ended, Labels, Trees

\* The initial states have delivered nothing and hold no evidence of it.
LEMMA InitIInv == Init => IInv
<1> SUFFICES ASSUME Init PROVE IInv
  OBVIOUS
<1>1. faults \in 0..MaxFaults /\ meddles \in 0..MaxMeddles
  BY FaultsAssumption, MeddlesAssumption DEF Init, ScriptInit
<1>2. TypeOK
  BY <1>1 DEF Init, ScriptInit, TypeOK
<1>3. RunsHonest
  BY DEF Init, ScriptInit, RunsHonest
<1>4. QED
  BY <1>2, <1>3 DEF Init, ScriptInit, IInv, StampClosesGap, MarkerHonest, VacantByUser

\* A step of a run that changes nothing but its place in the script keeps the
\* invariant, provided the evidence its new place stands for is there.
LEMMA LocalIInv ==
  ASSUME IInv, NEW r \in Runs, NEW from, NEW to \in Labels \cup Ended,
         Local(r, from, to),
         to \in {"drain", "marking", "ok"} => delivered,
         to \in {"looking", "extracting", "moving"} => stdin[r] = "whole",
         to \notin {"writing", "unstamping"}
  PROVE  IInv'
<1>1. TypeOK'
  BY DEF IInv, TypeOK, Local, Step, Goto
<1>2. RunsHonest'
  BY DEF IInv, TypeOK, RunsHonest, Local, Step, Goto
<1>3. QED
  BY <1>1, <1>2 DEF IInv, StampClosesGap, MarkerHonest, VacantByUser, Local, Step

\* Every step of the guest script keeps the invariant.
LEMMA ScriptIInv ==
  ASSUME IInv, NEW r \in Runs, Script(r)
  PROVE  IInv'
<1>1. CASE FindMarker(r)
  BY <1>1, LocalIInv DEF FindMarker
<1>2. CASE CompareMarker(r)
  BY <1>2, LocalIInv DEF CompareMarker, IInv, MarkerHonest
<1>3. CASE Drain(r)
  <2>1. delivered
    BY <1>3 DEF Drain, Local, Step, IInv, RunsHonest
  <2>2. QED
    BY <1>3, <2>1, LocalIInv DEF Drain
<1>4. CASE Receive(r)
  BY <1>4, LocalIInv DEF Receive
<1>5. CASE Hash(r)
  BY <1>5, LocalIInv DEF Hash
<1>6. CASE Look(r)
  <2>1. stdin[r] = "whole"
    BY <1>6 DEF Look, Local, Step, IInv, RunsHonest
  <2>2. QED
    BY <1>6, <2>1, LocalIInv DEF Look
<1>7. CASE Extract(r)
  <2>1. stdin[r] = "whole"
    BY <1>7 DEF Extract, Local, Step, IInv, RunsHonest
  <2>2. QED
    BY <1>7, <2>1, LocalIInv DEF Extract
<1>8. CASE Move(r)
  <2>0. Staged(r) = "snapshot"
    BY <1>8 DEF Move, Local, Step, Staged, IInv, RunsHonest
  <2>1. TypeOK'
    BY <1>8, <2>0 DEF IInv, TypeOK, Move, Local, Step, Goto
  <2>2. RunsHonest'
    BY <1>8 DEF IInv, TypeOK, RunsHonest, Move, Local, Step, Goto
  <2>3. QED
    BY <1>8, <2>0, <2>1, <2>2
       DEF IInv, TypeOK, StampClosesGap, MarkerHonest, VacantByUser, Move, Local, Step
<1>9. CASE Verify(r)
  BY <1>9, LocalIInv DEF Verify, IInv
<1>10. CASE OpenMarker(r)
  <2>1. TypeOK' /\ delivered
    BY <1>10 DEF IInv, TypeOK, RunsHonest, OpenMarker, Local, Step, Goto
  <2>2. RunsHonest'
    BY <1>10, <2>1 DEF IInv, TypeOK, RunsHonest, OpenMarker, Local, Step, Goto
  <2>3. QED
    BY <1>10, <2>1, <2>2
       DEF IInv, StampClosesGap, MarkerHonest, VacantByUser, OpenMarker, Local, Step
<1>11. CASE WriteMarker(r)
  <2>1. TypeOK' /\ delivered
    BY <1>11 DEF IInv, TypeOK, RunsHonest, WriteMarker, Local, Step, Goto
  <2>2. RunsHonest'
    BY <1>11, <2>1 DEF IInv, TypeOK, RunsHonest, WriteMarker, Local, Step, Goto
  <2>3. QED
    BY <1>11, <2>1, <2>2
       DEF IInv, StampClosesGap, MarkerHonest, VacantByUser, WriteMarker, Local, Step
<1>12. CASE Unstamp(r)
  <2>1. TypeOK' /\ delivered /\ marker # "absent"
    BY <1>12 DEF IInv, TypeOK, RunsHonest, Unstamp, Local, Step, Goto
  <2>2. RunsHonest'
    BY <1>12, <2>1 DEF IInv, TypeOK, RunsHonest, Unstamp, Local, Step, Goto
  <2>3. QED
    BY <1>12, <2>1, <2>2
       DEF IInv, StampClosesGap, MarkerHonest, VacantByUser, Unstamp, Local, Step
<1>13. QED
  BY <1>1, <1>2, <1>3, <1>4, <1>5, <1>6, <1>7, <1>8, <1>9, <1>10, <1>11,
     <1>12 DEF Script

\* The host and the faults only move runs to places that promise nothing.
LEMMA HostIInv ==
  ASSUME IInv, (\E r \in Runs : Host(r)) \/ Faulty
  PROVE  IInv'
<1>0. UNCHANGED Files
  BY DEF Host, Faulty
<1>1. ASSUME NEW r \in Runs, BeginScript(r) \/ Stream(r)
      PROVE  IInv'
  BY <1>0, <1>1 DEF BeginScript, Stream, Goto, IInv, TypeOK, StampClosesGap,
     MarkerHonest, RunsHonest, VacantByUser
<1>2. ASSUME NEW r \in Runs, Exit(r)
      PROVE  IInv'
  <2>1. TypeOK'
    BY <1>0, <1>2 DEF Exit, Goto, IInv, TypeOK
  <2>2. RunsHonest'
    BY <1>0, <1>2 DEF Exit, Goto, IInv, TypeOK, RunsHonest
  <2>3. ready' => delivered'
    BY <1>0, <1>2 DEF Exit, IInv, RunsHonest
  <2>4. QED
    BY <1>0, <1>2, <2>1, <2>2, <2>3
       DEF Exit, IInv, StampClosesGap, MarkerHonest, VacantByUser
<1>3. ASSUME NEW r \in Runs, CommandFails(r)
      PROVE  IInv'
  BY <1>0, <1>3, FaultsAssumption DEF CommandFails, Fault, Goto, IInv, TypeOK,
     StampClosesGap, MarkerHonest, RunsHonest, VacantByUser
<1>4. CASE Disconnect
  BY <1>0, <1>4, FaultsAssumption, RunsAssumption DEF Disconnect, Fault, IInv,
     TypeOK, StampClosesGap, MarkerHonest, RunsHonest, VacantByUser
<1>5. CASE PowerLoss
  BY <1>0, <1>5, FaultsAssumption DEF PowerLoss, Fault, IInv, TypeOK,
     StampClosesGap, MarkerHonest, RunsHonest, VacantByUser
<1>6. QED
  BY <1>1, <1>2, <1>3, <1>4, <1>5 DEF Host, Faulty

\* Whatever the user does at the target, the evidence stays honest.
LEMMA UserIInv ==
  ASSUME IInv, User
  PROVE  IInv'
<1>1. TypeOK'
  <2>1. meddles' \in 0..MaxMeddles /\ faults' \in 0..MaxFaults
    BY MeddlesAssumption DEF IInv, TypeOK, User, Meddle, UserEdits,
       UserCreates, UserReplaces, UserRemoves
  <2>2. tree' \in Trees /\ stamp' \in BOOLEAN /\ meddled' \in BOOLEAN
    BY DEF IInv, TypeOK, User, UserEdits, UserCreates, UserReplaces,
       UserRemoves
  <2>3. QED
    BY <2>1, <2>2 DEF IInv, TypeOK, User, Meddle, UserEdits, UserCreates,
       UserReplaces, UserRemoves
<1>2. /\ marker' = marker /\ delivered' = delivered /\ ready' = ready
      /\ pc' = pc /\ stdin' = stdin
  BY DEF User, Meddle, UserEdits, UserCreates, UserReplaces, UserRemoves
<1>3. (StampClosesGap /\ VacantByUser /\ (stamp => delivered))'
  BY <1>2 DEF IInv, TypeOK, StampClosesGap, VacantByUser, User, UserEdits,
     UserCreates, UserReplaces, UserRemoves
<1>4. QED
  BY <1>1, <1>2, <1>3 DEF IInv, MarkerHonest, RunsHonest

\* Every step keeps the inductive invariant.
LEMMA NextIInv == IInv /\ [Next]_vars => IInv'
<1> SUFFICES ASSUME IInv, [Next]_vars PROVE IInv'
  OBVIOUS
<1>1. CASE UNCHANGED vars
  BY <1>1 DEF vars, IInv, TypeOK, StampClosesGap, MarkerHonest, RunsHonest,
     VacantByUser
<1>2. CASE Next
  BY <1>2, ScriptIInv, HostIInv, UserIInv DEF Next
<1>3. QED
  BY <1>1, <1>2

\* The inductive invariant holds in every reachable state.
THEOREM Invariance == Spec => []IInv
  BY InitIInv, NextIInv, PTL DEF Spec

\* Type correctness of the transfer for every value of its constants.
THEOREM TypeCorrect == Spec => []TypeOK
<1>1. IInv => TypeOK
  BY DEF IInv
<1>2. QED
  BY Invariance, <1>1, PTL

\* directory.go:131 for every number of runs and faults: until a marker file
\* exists, a delivered project carries its stamp unless the user took it.
THEOREM GapClosed == Spec => []StampClosesGap
<1>1. IInv => StampClosesGap
  BY DEF IInv
<1>2. QED
  BY Invariance, <1>1, PTL

\* The marker is written only after a whole snapshot has been put in place.
THEOREM MarkerIsEvidence == Spec => []MarkerHonest
<1>1. IInv => MarkerHonest
  BY DEF IInv
<1>2. QED
  BY Invariance, <1>1, PTL

-----------------------------------------------------------------------------
\* A step of a run leaves the target alone or renames the snapshot over
\* nothing; the lemma is what both action properties need of the script.
LEMMA TreeSteps ==
  ASSUME IInv, [Next]_vars
  PROVE  \/ tree' = tree
         \/ User
         \/ tree \in {"absent", "empty"} /\ tree' = "snapshot"
<1>1. CASE UNCHANGED vars
  BY <1>1 DEF vars
<1>2. ASSUME NEW r \in Runs, Script(r)
      PROVE  tree' = tree \/ (tree \in {"absent", "empty"} /\ tree' = "snapshot")
  BY <1>2 DEF Script, FindMarker, CompareMarker, Drain, Receive, Hash, Look,
     Extract, Move, Staged, Verify, OpenMarker, WriteMarker, Unstamp, Local,
     Step, IInv, RunsHonest
<1>3. CASE (\E r \in Runs : Host(r)) \/ Faulty
  BY <1>3 DEF Host, Faulty
<1>4. QED
  BY <1>1, <1>2, <1>3 DEF Next

\* No run replaces what the user has put at the target.
THEOREM UserWorkIsSafe == Spec => UserWorkSurvives
<1>1. IInv /\ [Next]_vars => [tree = "user" /\ tree' # "user" => UserRemoves]_vars
  <2> SUFFICES ASSUME IInv, [Next]_vars, tree = "user", tree' # "user"
               PROVE  UserRemoves
    OBVIOUS
  <2>1. User
    BY TreeSteps
  <2>2. QED
    BY <2>1 DEF User, UserEdits, UserCreates, UserReplaces
<1>2. QED
  BY <1>1, Invariance, PTL DEF Spec, UserWorkSurvives

\* Overlapping runs deliver once unless the user emptied the target.
THEOREM DeliveredOnlyOnce == Spec => DeliveredOnce
<1>1. IInv /\ [Next]_vars
        => [tree' = "snapshot" /\ tree # "snapshot" => ~delivered \/ meddled]_vars
  <2> SUFFICES ASSUME IInv, [Next]_vars, tree' = "snapshot", tree # "snapshot",
                      delivered
               PROVE  meddled
    OBVIOUS
  <2>1. ~User
    BY DEF User, UserEdits, UserCreates, UserReplaces, UserRemoves
  <2>2. tree \in {"absent", "empty"}
    BY <2>1, TreeSteps
  <2>3. QED
    BY <2>2 DEF IInv, VacantByUser
<1>2. QED
  BY <1>1, Invariance, PTL DEF Spec, DeliveredOnce

-----------------------------------------------------------------------------
\* The transfer implements the abstract promise of Delivery: the renaming is
\* its Deliver, the report of a successful script its Confirm.
THEOREM Implementation == Spec => ImplementsDelivery
<1>1. Init => Promise!Init
  BY DEF Init, ScriptInit, Promise!Init
<1>2. IInv /\ [Next]_vars => [Promise!Next]_(Promise!vars)
  <2> SUFFICES ASSUME IInv, [Next]_vars
               PROVE  Promise!Next \/ UNCHANGED <<tree, delivered, ready>>
    BY DEF Promise!vars
  <2> USE DEF Promise!Next, Promise!Deliver, Promise!Confirm, Promise!User,
              Promise!Vacant, Promise!Contents
  <2>1. CASE UNCHANGED vars
    BY <2>1 DEF vars
  <2>2. ASSUME NEW r \in Runs, Script(r)
        PROVE  Promise!Deliver \/ UNCHANGED <<tree, delivered, ready>>
    BY <2>2 DEF Script, FindMarker, CompareMarker, Drain, Receive, Hash, Look,
       Extract, Move, Staged, Verify, OpenMarker, WriteMarker, Unstamp, Local,
       Step, IInv, RunsHonest
  <2>3. ASSUME NEW r \in Runs, Host(r)
        PROVE  Promise!Confirm \/ UNCHANGED <<tree, delivered, ready>>
    BY <2>3 DEF Host, BeginScript, Stream, Exit, IInv, TypeOK, RunsHonest
  <2>4. CASE Faulty
    BY <2>4 DEF Faulty, Disconnect, CommandFails, PowerLoss
  <2>5. CASE User
    <3>1. delivered' = delivered /\ ready' = ready
      BY <2>5 DEF User, Meddle, UserEdits, UserCreates, UserReplaces, UserRemoves
    <3>2. tree' = tree \/ tree' \in {"absent", "empty", "user"}
      BY <2>5 DEF User, UserEdits, UserCreates, UserReplaces, UserRemoves
    <3>3. QED
      BY <3>1, <3>2
  <2>6. QED
    BY <2>1, <2>2, <2>3, <2>4, <2>5 DEF Next
<1>3. QED
  BY <1>1, <1>2, Invariance, PTL DEF Spec, ImplementsDelivery, Promise!Spec
=============================================================================
