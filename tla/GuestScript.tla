----------------------------- MODULE GuestScript -----------------------------
(***************************************************************************)
(* How `devwright finish` executes one guest script over ssh               *)
(* (internal/launch/onboard.go: app.ssh and the lock of app.finish).       *)
(*                                                                         *)
(* finish starts a run of the script and streams its input on stdin.  The  *)
(* flock admits one finish at a time, so at most one run is attached to a  *)
(* host process.  A killed finish releases the lock although its script,   *)
(* which has no terminal, goes on in the guest with its stdin cut: the     *)
(* next finish may run the same script beside it.                          *)
(*                                                                         *)
(* A module extends this one, gives the script its labels and the files it *)
(* works on, and conjoins to each of these actions what they leave alone.  *)
(***************************************************************************)
EXTENDS Naturals

CONSTANTS
  Runs,        \* executions of the guest script that can exist at once
  NoRun,       \* no host process is attached
  FaultKinds,  \* which of "disconnect", "command" and "power" can happen
  MaxFaults    \* bound: how many of them happen

ASSUME RunsAssumption == NoRun \notin Runs
ASSUME FaultsAssumption ==
  FaultKinds \subseteq {"disconnect", "command", "power"} /\ MaxFaults \in Nat

VARIABLES
  pc,        \* pc[r]: where run r is in the script
  stdin,     \* stdin[r]: "open" while the input is still being sent
  attached,  \* the run whose ssh client the lock holder waits for
  ready,     \* has a finish ever seen the script succeed?
  faults

hostVars == <<stdin, attached, ready, faults>>
scriptVars == <<pc, hostVars>>

Idle == "idle"
Ended == {"ok", "failed"}

\* Labels: the labels of the script the run executes.
ScriptTypeOK(Labels) ==
  /\ pc \in [Runs -> {Idle} \cup Ended \cup Labels]
  /\ stdin \in [Runs -> {"none", "open", "whole", "cut"}]
  /\ attached \in Runs \cup {NoRun}
  /\ ready \in BOOLEAN
  /\ faults \in 0..MaxFaults

ScriptInit ==
  /\ pc = [r \in Runs |-> Idle]
  /\ stdin = [r \in Runs |-> "none"]
  /\ attached = NoRun
  /\ ready = FALSE
  /\ faults = 0

Goto(r, label) == pc' = [pc EXCEPT ![r] = label]

\* A step of the script itself: the host is not involved.
Step(r, from, to) ==
  /\ pc[r] = from
  /\ Goto(r, to)
  /\ UNCHANGED hostVars

\* The script has read its input to the end: all of it, or what was sent.
EndOfInput(r) == stdin[r] # "open"

-----------------------------------------------------------------------------
(* The host side of a run.                                                 *)

\* finish holds the lock and starts the script.
BeginScript(r) ==
  /\ attached = NoRun
  /\ pc[r] = Idle
  /\ Goto(r, "start")
  /\ attached' = r
  /\ stdin' = [stdin EXCEPT ![r] = "open"]
  /\ UNCHANGED <<ready, faults>>

\* The ssh client has sent the whole input and closes the stream.
Stream(r) ==
  /\ attached = r
  /\ stdin[r] = "open"
  /\ stdin' = [stdin EXCEPT ![r] = "whole"]
  /\ UNCHANGED <<pc, attached, ready, faults>>

\* The script has ended.  Only an attached run has somebody to report to.
Exit(r) ==
  /\ pc[r] \in Ended
  /\ Goto(r, Idle)
  /\ stdin' = [stdin EXCEPT ![r] = "none"]
  /\ attached' = IF attached = r THEN NoRun ELSE attached
  /\ ready' = (ready \/ (attached = r /\ pc[r] = "ok"))
  /\ UNCHANGED faults

-----------------------------------------------------------------------------
(* Faults.                                                                 *)

Fault(kind) ==
  /\ kind \in FaultKinds
  /\ faults < MaxFaults
  /\ faults' = faults + 1

\* The finish process or its connection dies: the kernel drops the flock and
\* the script reads end of file where the input was cut.
Disconnect ==
  /\ Fault("disconnect")
  /\ attached # NoRun
  /\ attached' = NoRun
  /\ stdin' = [stdin EXCEPT ![attached] = IF @ = "open" THEN "cut" ELSE @]
  /\ UNCHANGED <<pc, ready>>

\* A command of the script fails (a full disk, a killed process): set -e ends
\* the run and its trap removes the staging directory.
CommandFails(r) ==
  /\ Fault("command")
  /\ pc[r] \notin {Idle} \cup Ended
  /\ Goto(r, "failed")
  /\ UNCHANGED <<stdin, attached, ready>>

\* The VM stops; `limactl start` brings back its disk and none of its runs.
PowerLoss ==
  /\ Fault("power")
  /\ \E r \in Runs : pc[r] # Idle
  /\ pc' = [r \in Runs |-> Idle]
  /\ stdin' = [r \in Runs |-> "none"]
  /\ attached' = NoRun
  /\ UNCHANGED ready
=============================================================================
