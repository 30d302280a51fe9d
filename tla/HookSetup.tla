------------------------------ MODULE HookSetup ------------------------------
(***************************************************************************)
(* The project hook, the last step of finish (internal/launch/onboard.go,  *)
(* app.finish): setup-project.sh is streamed to `/bin/bash -s` in the      *)
(* guest, which runs its commands as they arrive and, once the stream      *)
(* ends, exits with success; then a marker is touched that makes every     *)
(* later finish skip the hook.                                             *)
(***************************************************************************)
EXTENDS GuestScript

CONSTANT HookLength  \* commands in the saved hook

ASSUME HookAssumption == HookLength \in Nat \ {0}

VARIABLES
  executed,    \* executed[r]: commands of the hook that run r has completed
  marker,      \* ~/.local/state/devwright/project-setup-complete
  settled,     \* settled[r]: history, the marker existed when run r began
  completions  \* history: runs that executed the whole hook (2: more than one)

vars == <<scriptVars, executed, marker, settled, completions>>

Labels == {"start", "entering", "hook", "touching"}

TypeOK ==
  /\ ScriptTypeOK(Labels)
  /\ executed \in [Runs -> 0..HookLength]
  /\ marker \in BOOLEAN
  /\ settled \in [Runs -> BOOLEAN]
  /\ completions \in 0..2

Init ==
  /\ ScriptInit
  /\ executed = [r \in Runs |-> 0]
  /\ marker = FALSE
  /\ settled = [r \in Runs |-> FALSE]
  /\ completions = 0

-----------------------------------------------------------------------------
(* The guest script.                                                       *)

Local(r, from, to) ==
  Step(r, from, to) /\ UNCHANGED <<executed, marker, settled, completions>>

\* Defect: the hook is executed whatever the marker says.
FindNoMarker(r) == Local(r, "start", "entering")

\* Defect: set -e takes the marker that is found for an error.
FindMarkerFails(r) == Local(r, "start", IF marker THEN "failed" ELSE "entering")

\* [ ! -f "$marker" ] || exit 0
FindMarker(r) == Local(r, "start", IF marker THEN "ok" ELSE "entering")

\* mkdir -p, cd to the project, source the credential loader.
Enter(r) == Local(r, "entering", "hook")

\* Defect: the hook goes on past its last command.
ExecuteAgain(r) ==
  /\ pc[r] = "hook"
  /\ executed' = [executed EXCEPT ![r] = @ + 1]
  /\ UNCHANGED <<scriptVars, marker, settled, completions>>

\* The inner shell has read one more command and it succeeds.
Execute(r) ==
  /\ pc[r] = "hook"
  /\ executed[r] < HookLength
  /\ executed' = [executed EXCEPT ![r] = @ + 1]
  /\ completions' = IF executed'[r] = HookLength /\ completions < 2
                    THEN completions + 1 ELSE completions
  /\ UNCHANGED <<scriptVars, marker, settled>>

\* The inner shell reads end of file.  It exits with success wherever between
\* two commands the stream ends.
HookEnds(r) ==
  /\ EndOfInput(r)
  /\ stdin[r] = "whole" => executed[r] = HookLength
  /\ Local(r, "hook", "touching")

\* A stream that is cut within a command is a syntax error.
HookCutShort(r) ==
  /\ stdin[r] = "cut"
  /\ executed[r] < HookLength
  /\ Local(r, "hook", "failed")

\* touch "$marker"
Touch(r) ==
  /\ Step(r, "touching", "ok")
  /\ marker' = TRUE
  /\ UNCHANGED <<executed, settled, completions>>

Script(r) == FindMarker(r) \/ Enter(r) \/ Execute(r) \/ HookEnds(r)
             \/ HookCutShort(r) \/ Touch(r)

-----------------------------------------------------------------------------
Begin(r) ==
  /\ BeginScript(r)
  /\ executed' = [executed EXCEPT ![r] = 0]
  /\ settled' = [settled EXCEPT ![r] = marker]
  /\ UNCHANGED <<marker, completions>>

Host(r) ==
  \/ Begin(r)
  \/ (Stream(r) \/ Exit(r)) /\ UNCHANGED <<executed, marker, settled, completions>>

Faulty ==
  /\ Disconnect \/ PowerLoss \/ \E r \in Runs : CommandFails(r)
  /\ UNCHANGED <<executed, marker, settled, completions>>

Next == (\E r \in Runs : Host(r) \/ Script(r)) \/ Faulty

Spec == Init /\ [][Next]_vars

\* Guest processes are scheduled, ssh sends what it has, and the operator runs
\* finish again until one succeeds.
Fairness ==
  /\ \A r \in Runs : /\ WF_vars(Script(r))
                     /\ WF_vars(Host(r) /\ pc[r] # Idle)
  /\ WF_vars(~ready /\ \E r \in Runs : Begin(r))

FairSpec == Spec /\ Fairness

-----------------------------------------------------------------------------
(* Properties.                                                             *)

\* README.md:124: the hook "runs once successfully; finish retries a failed
\* hook".  So the marker that stops the retries may exist only when the whole
\* hook has been executed by some run.
MarkerMeansRan == marker => completions > 0

\* Once the marker exists, a finish that starts later executes no command of
\* the hook, however many orphans of earlier ones are still at work.
SkippedOnceSettled == \A r \in Runs : settled[r] => executed[r] = 0

\* However often finish is interrupted, one finally succeeds.
EventuallyReady == <>ready
=============================================================================
