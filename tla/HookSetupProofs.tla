-------------------------- MODULE HookSetupProofs --------------------------
(***************************************************************************)
(* What the project hook guarantees for any number of runs, faults and     *)
(* commands: once its marker exists no later finish executes any of it,    *)
(* and without lost connections the marker means what it says.             *)
(***************************************************************************)
EXTENDS HookSetup, TLAPS

\* A run that began under the marker has executed nothing and never gets past
\* the test of it.
SettledHonest ==
  \A r \in Runs : settled[r] =>
    marker /\ executed[r] = 0 /\ pc[r] \in {Idle, "start"} \cup Ended

IInv == TypeOK /\ SettledHonest

\* A run that has come to the end of the hook is counted.
Complete ==
  \A r \in Runs :
    /\ stdin[r] # "cut"
    /\ pc[r] # Idle => stdin[r] # "none"
    /\ pc[r] = "hook" /\ executed[r] = HookLength => completions > 0
    /\ pc[r] = "entering" => executed[r] = 0
    /\ pc[r] = "start" => executed[r] = 0
    /\ pc[r] = "touching" => completions > 0

USE DEF ScriptTypeOK, scriptVars, hostVars, Idle, Ended, Labels

-----------------------------------------------------------------------------
\* No run has begun yet.
LEMMA InitIInv == Init => IInv
<1>. SUFFICES ASSUME Init PROVE IInv
  OBVIOUS
<1>1. faults \in 0..MaxFaults /\ 0 \in 0..HookLength
  BY FaultsAssumption, HookAssumption DEF Init, ScriptInit
<1>2. TypeOK
  <2>1. executed \in [Runs -> 0..HookLength] /\ settled \in [Runs -> BOOLEAN]
    BY <1>1 DEF Init
  <2>2. marker \in BOOLEAN
    BY DEF Init
  <2>3. completions \in 0..2
    BY DEF Init
  <2>4. ScriptTypeOK(Labels)
    BY <1>1 DEF Init, ScriptInit
  <2>. QED BY <2>1, <2>2, <2>3, <2>4 DEF TypeOK
<1>. QED BY <1>2 DEF Init, IInv, SettledHonest

\* Every step of the guest script keeps the invariant: only a run that found no
\* marker gets to the hook.
LEMMA ScriptIInv == ASSUME IInv, NEW r \in Runs, Script(r) PROVE IInv'
<1>. USE DEF IInv, TypeOK, SettledHonest
<1>1. CASE FindMarker(r)
  BY <1>1 DEF FindMarker, Local, Step, Goto
<1>2. CASE Enter(r)
  BY <1>2 DEF Enter, Local, Step, Goto
<1>3. CASE Execute(r)
  <2>1. executed' \in [Runs -> 0..HookLength]
    BY <1>3, HookAssumption DEF Execute
  <2>2. completions' \in 0..2
    BY <1>3 DEF Execute
  <2>3. SettledHonest'
    BY <1>3 DEF Execute
  <2>. QED BY <1>3, <2>1, <2>2, <2>3 DEF Execute
<1>4. CASE HookEnds(r)
  BY <1>4 DEF HookEnds, Local, Step, Goto
<1>5. CASE HookCutShort(r)
  BY <1>5 DEF HookCutShort, Local, Step, Goto
<1>6. CASE Touch(r)
  BY <1>6 DEF Touch, Step, Goto
<1>. QED BY <1>1, <1>2, <1>3, <1>4, <1>5, <1>6 DEF Script

\* A run begins with nothing executed, and the host and the faults take it only
\* to places outside the hook.
LEMMA HostIInv == ASSUME IInv, (\E r \in Runs : Host(r)) \/ Faulty PROVE IInv'
<1>. USE DEF IInv, TypeOK, SettledHonest
<1>1. ASSUME NEW r \in Runs, Begin(r) PROVE IInv'
  <2>1. executed' \in [Runs -> 0..HookLength]
    BY <1>1, HookAssumption DEF Begin
  <2>. QED BY <1>1, <2>1 DEF Begin, BeginScript, Goto
<1>2. ASSUME NEW r \in Runs, Stream(r) \/ Exit(r),
             UNCHANGED <<executed, marker, settled, completions>>
      PROVE  IInv'
  BY <1>2 DEF Stream, Exit, Goto
<1>3. CASE Faulty
  BY <1>3, FaultsAssumption DEF Faulty, Disconnect, PowerLoss, CommandFails, Fault, Goto
<1>. QED BY <1>1, <1>2, <1>3 DEF Host

\* The invariant is inductive.
LEMMA NextIInv == IInv /\ [Next]_vars => IInv'
<1>. SUFFICES ASSUME IInv, [Next]_vars PROVE IInv'
  OBVIOUS
<1>1. CASE UNCHANGED vars
  BY <1>1 DEF vars, IInv, TypeOK, SettledHonest
<1>. QED BY <1>1, ScriptIInv, HostIInv DEF Next

-----------------------------------------------------------------------------
\* The inductive invariant holds in every reachable state.
THEOREM Invariance == Spec => []IInv
BY InitIInv, NextIInv, PTL DEF Spec

\* Every run is at one of the script's places and executes no more commands
\* than the hook has.
THEOREM TypeCorrect == Spec => []TypeOK
<1>1. IInv => TypeOK
  BY DEF IInv
<1>. QED BY <1>1, Invariance, PTL

\* A finish that starts after the marker was touched executes nothing.
THEOREM Skipping == Spec => []SkippedOnceSettled
<1>1. IInv => SkippedOnceSettled
  BY DEF IInv, SettledHonest, SkippedOnceSettled
<1>. QED BY <1>1, Invariance, PTL

-----------------------------------------------------------------------------
\* The hook runs once successfully: a marker without a run of the whole hook is
\* the work of a lost connection and of nothing else.
THEOREM OnlyDisconnectsCutShort ==
  ASSUME "disconnect" \notin FaultKinds PROVE Spec => []MarkerMeansRan
<1>. DEFINE Counted == Complete /\ MarkerMeansRan
<1>1. Init => Counted
  BY HookAssumption DEF Init, ScriptInit, Complete, MarkerMeansRan
<1>2. TypeOK /\ Counted /\ [Next]_vars => Counted'
  <2>. SUFFICES ASSUME TypeOK, Counted, [Next]_vars PROVE Counted'
    OBVIOUS
  <2>. USE HookAssumption DEF TypeOK, Complete, MarkerMeansRan
  <2>1. ASSUME NEW r \in Runs, FindMarker(r) \/ Enter(r) \/ Execute(r)
        PROVE  Counted'
    BY <2>1 DEF FindMarker, Enter, Execute, Local, Step, Goto
  <2>2. ASSUME NEW r \in Runs, HookEnds(r) PROVE Counted'
    BY <2>2 DEF HookEnds, EndOfInput, Local, Step, Goto
  <2>3. ASSUME NEW r \in Runs, HookCutShort(r) PROVE Counted'
    BY <2>3 DEF HookCutShort
  <2>4. ASSUME NEW r \in Runs, Touch(r) PROVE Counted'
    BY <2>4 DEF Touch, Step, Goto
  <2>5. ASSUME NEW r \in Runs, Host(r) PROVE Counted'
    BY <2>5 DEF Host, Begin, BeginScript, Stream, Exit, Goto
  <2>6. CASE Faulty
    BY <2>6 DEF Faulty, Disconnect, PowerLoss, CommandFails, Fault, Goto
  <2>7. CASE UNCHANGED vars
    BY <2>7 DEF vars
  <2>. QED BY <2>1, <2>2, <2>3, <2>4, <2>5, <2>6, <2>7 DEF Next, Script
<1>. QED BY <1>1, <1>2, TypeCorrect, PTL DEF Spec
=============================================================================
