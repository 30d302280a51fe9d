----------------------------- MODULE Onboarding -----------------------------
(***************************************************************************)
(* Onboarding one VM (internal/launch/onboard.go: finish, ready,           *)
(* installDotfiles, setupCredentials, credentials; cli.go: the commands).  *)
(* Several devwright processes work on the VM: `finish` (and the end of    *)
(* `create`, which is a finish) under a flock, and `credentials`, which    *)
(* takes no lock.  A guest script is one job here, with the effect that    *)
(* DirectoryTransfer, CheckoutInstall and HookSetup describe in detail;    *)
(* the job of a process that is killed goes on as an orphan.               *)
(***************************************************************************)
EXTENDS Naturals

CONSTANTS
  Procs,      \* devwright processes
  Attended,   \* those that have a terminal to prompt on
  NoProc,
  NCreds,     \* number of declared credentials
  MaxFaults   \* bound: failing calls, killed processes and VM stops

ASSUME ProcsAssumption == NoProc \notin Procs /\ Attended \subseteq Procs
ASSUME NumbersAssumption == NCreds \in Nat /\ MaxFaults \in Nat

VARIABLES
  manifest,  \* the optional steps in the saved onboarding.json
  step,      \* step[p]: where process p is
  todo,      \* todo[p]: credentials p has still to look at
  replace,   \* replace[p]: p is `credentials --replace`
  holder,    \* who holds the flock
  job,       \* job[p]: the guest script p waits for
  orphans,   \* guest scripts that have outlived their process
  vm,        \* what `limactl list` says
  errors,    \* cloud-init of this boot has reported errors
  done,      \* steps whose effect is in place
  present,   \* credentials installed in the guest
  reported,  \* a finish has printed "Ready"
  faults

procVars == <<step, todo, replace, holder, job>>
guestVars == <<orphans, vm, errors, done, present>>
vars == <<manifest, procVars, guestVars, reported, faults>>

\* The declared credentials, in the order of the declaration.
Creds == 1..NCreds

\* The order in which finish makes its calls; "ready" is the gate before them.
Order == <<"project", "dotfiles", "loader", "alias", "creds", "hook">>
Optional == {"dotfiles", "hook"}
Steps == {Order[i] : i \in 1..6}
Scripts == Steps \ {"alias", "creds"}
Effects == Steps \ {"creds"}

Planned(s) == s \in Steps /\ (s \in Optional => s \in manifest)
Rank(s) == CHOOSE i \in 1..6 : Order[i] = s
\* The planned step that follows those up to rank i, or "report".
After(i) ==
  IF \E j \in (i + 1)..6 : Planned(Order[j])
  THEN Order[CHOOSE j \in (i + 1)..6 :
               /\ Planned(Order[j])
               /\ \A k \in (i + 1)..(j - 1) : ~Planned(Order[k])]
  ELSE "report"

\* A finish holds the lock in these places; the others are `credentials`.
Locked == {"starting", "ready", "prompt", "install", "report"} \cup Steps
CredCommand == {"cmdCreds", "cmdPrompt", "cmdInstall"}

TypeOK ==
  /\ manifest \subseteq Optional
  /\ step \in [Procs -> {"idle"} \cup Locked \cup CredCommand]
  /\ todo \in [Procs -> SUBSET Creds]
  /\ replace \in [Procs -> BOOLEAN]
  /\ holder \in Procs \cup {NoProc}
  /\ job \in [Procs -> Scripts \cup {"none"}]
  /\ orphans \subseteq Scripts
  /\ vm \in {"stopped", "running"}
  /\ errors \in BOOLEAN
  /\ done \subseteq Effects
  /\ present \subseteq Creds
  /\ reported \in BOOLEAN
  /\ faults \in 0..MaxFaults

Init ==
  /\ manifest \in SUBSET Optional
  /\ step = [p \in Procs |-> "idle"]
  /\ todo = [p \in Procs |-> {}]
  /\ replace = [p \in Procs |-> FALSE]
  /\ holder = NoProc
  /\ job = [p \in Procs |-> "none"]
  /\ orphans = {}
  /\ vm = "stopped"
  /\ errors = FALSE
  /\ done = {}
  /\ present = {}
  /\ reported = FALSE
  /\ faults = 0

Goto(p, s) == step' = [step EXCEPT ![p] = s]
Fault == faults < MaxFaults /\ faults' = faults + 1
Unlock(p) == holder' = IF holder = p THEN NoProc ELSE holder

\* p returns an error: its deferred calls release the lock.
Return(p) ==
  /\ Goto(p, "idle")
  /\ Unlock(p)
  /\ job' = [job EXCEPT ![p] = "none"]
  /\ UNCHANGED <<todo, replace>>

-----------------------------------------------------------------------------
(* finish                                                                  *)

\* Defect: the result of flock is ignored.
LockBlind(p) ==
  /\ step[p] = "idle"
  /\ holder' = p
  /\ Goto(p, "starting")
  /\ UNCHANGED <<manifest, todo, replace, job, guestVars, reported, faults>>

\* saved, open the lock file, flock LOCK_EX|LOCK_NB.
Lock(p) ==
  /\ step[p] = "idle"
  /\ holder = NoProc
  /\ holder' = p
  /\ Goto(p, "starting")
  /\ UNCHANGED <<manifest, todo, replace, job, guestVars, reported, faults>>

\* limactl start, info: a stopped VM boots, a running one is left alone.
StartVM(p) ==
  /\ step[p] = "starting"
  /\ Goto(p, "ready")
  /\ vm' = "running"
  /\ \/ vm = "stopped" /\ errors' = FALSE /\ UNCHANGED faults
     \/ vm = "stopped" /\ Fault /\ errors' = TRUE
     \/ vm = "running" /\ UNCHANGED <<errors, faults>>
  /\ UNCHANGED <<manifest, todo, replace, holder, job, orphans, done, present,
                 reported>>

\* ready (cloud-init status, readiness probes) and the basic readiness check.
CheckReady(p) ==
  /\ step[p] = "ready"
  /\ \/ vm = "running" /\ ~errors
        /\ Goto(p, After(0))
        /\ UNCHANGED <<todo, replace, holder, job>>
     \/ (vm = "stopped" \/ errors) /\ Return(p)
  /\ UNCHANGED <<manifest, guestVars, reported, faults>>

\* installDirectory or installRepository, installDotfiles, setupCredentials
\* and the hook: ssh starts the guest script ...
Call(p) ==
  /\ step[p] \in Scripts
  /\ job[p] = "none"
  /\ vm = "running"
  /\ job' = [job EXCEPT ![p] = step[p]]
  /\ UNCHANGED <<manifest, step, todo, replace, holder, guestVars, reported, faults>>

\* ... and returns its success.
CallReturns(p) ==
  /\ job[p] # "none"
  /\ done' = done \cup {job[p]}
  /\ job' = [job EXCEPT ![p] = "none"]
  /\ Goto(p, After(Rank(step[p])))
  /\ UNCHANGED <<manifest, todo, replace, holder, orphans, vm, errors, present,
                 reported, faults>>

\* Defect: the declarations are counted from zero.
InstallAliasOffByOne(p) ==
  /\ step[p] = "alias"
  /\ done' = done \cup {"alias"}
  /\ Goto(p, "creds")
  /\ todo' = [todo EXCEPT ![p] = 0..NCreds]
  /\ replace' = [replace EXCEPT ![p] = FALSE]
  /\ UNCHANGED <<manifest, holder, job, orphans, vm, errors, present, reported,
                 faults>>

\* installSSH writes the alias on the host.
InstallAlias(p) ==
  /\ step[p] = "alias"
  /\ done' = done \cup {"alias"}
  /\ Goto(p, "creds")
  /\ todo' = [todo EXCEPT ![p] = Creds]
  /\ replace' = [replace EXCEPT ![p] = FALSE]
  /\ UNCHANGED <<manifest, holder, job, orphans, vm, errors, present, reported,
                 faults>>

\* "Ready: ssh lima-NAME"
Report(p) ==
  /\ step[p] = "report"
  /\ reported' = TRUE
  /\ Return(p)
  /\ UNCHANGED <<manifest, guestVars, faults>>

-----------------------------------------------------------------------------
(* credentials, called by finish and by the command of that name           *)

Looking(p) == step[p] \in {"creds", "cmdCreds"}
Prompting(p) == step[p] \in {"prompt", "cmdPrompt"}
Installing(p) == step[p] \in {"install", "cmdInstall"}
\* The same place in the command as in finish.
Place(p, s) ==
  IF holder = p THEN s
  ELSE CASE s = "creds" -> "cmdCreds"
         [] s = "prompt" -> "cmdPrompt"
         [] s = "install" -> "cmdInstall"

\* The credential p has come to.
Current(p) == CHOOSE c \in todo[p] : \A d \in todo[p] : c <= d

\* `devwright credentials NAME [--replace]`
BeginCredentials(p) ==
  /\ step[p] = "idle"
  /\ Goto(p, "cmdCreds")
  /\ todo' = [todo EXCEPT ![p] = Creds]
  /\ \E b \in BOOLEAN : replace' = [replace EXCEPT ![p] = b]
  /\ UNCHANGED <<manifest, holder, job, guestVars, reported, faults>>

\* Defect: a process without a terminal leaves the missing credential out.
ProbeSkips(p) ==
  /\ Looking(p)
  /\ todo[p] # {}
  /\ vm = "running"
  /\ IF p \in Attended /\ Current(p) \notin present
     THEN Goto(p, Place(p, "prompt")) /\ UNCHANGED todo
     ELSE todo' = [todo EXCEPT ![p] = @ \ {Current(p)}] /\ UNCHANGED step
  /\ UNCHANGED <<manifest, replace, holder, job, guestVars, reported, faults>>

\* The probe sources the loader, which is what makes a file count.  The next
\* credential that is present is skipped, the next missing one prompted for.
Probe(p) ==
  /\ Looking(p)
  /\ todo[p] # {}
  /\ vm = "running"
  /\ LET found == "loader" \in done /\ Current(p) \in present /\ ~replace[p] IN
     \/ /\ found
        /\ todo' = [todo EXCEPT ![p] = @ \ {Current(p)}]
        /\ UNCHANGED <<step, replace, holder, job>>
     \/ /\ ~found
        /\ p \in Attended
        /\ Goto(p, Place(p, "prompt"))
        /\ UNCHANGED <<todo, replace, holder, job>>
     \/ /\ ~found
        /\ p \notin Attended
        /\ Return(p)
  /\ UNCHANGED <<manifest, guestVars, reported, faults>>

\* The user types a value.
Answer(p) ==
  /\ Prompting(p)
  /\ Goto(p, Place(p, "install"))
  /\ UNCHANGED <<manifest, todo, replace, holder, job, guestVars, reported, faults>>

\* The script renames the private file into credentials.d.
Install(p) ==
  /\ Installing(p)
  /\ vm = "running"
  /\ present' = present \cup {Current(p)}
  /\ todo' = [todo EXCEPT ![p] = @ \ {Current(p)}]
  /\ Goto(p, Place(p, "creds"))
  /\ UNCHANGED <<manifest, replace, holder, job, orphans, vm, errors, done,
                 reported, faults>>

CredentialsDone(p) ==
  /\ Looking(p)
  /\ todo[p] = {}
  /\ Goto(p, IF holder = p THEN After(Rank("creds")) ELSE "idle")
  /\ UNCHANGED <<manifest, todo, replace, holder, job, guestVars, reported, faults>>

-----------------------------------------------------------------------------
(* Faults                                                                  *)

\* Defect: the error of a guest script is dropped and finish goes on.
CallFailureIgnored(p) ==
  /\ Fault
  /\ job[p] # "none"
  /\ job' = [job EXCEPT ![p] = "none"]
  /\ Goto(p, After(Rank(step[p])))
  /\ UNCHANGED <<manifest, todo, replace, holder, guestVars, reported>>

\* The call p is in fails, perhaps after its effect is in place.
CallFails(p) ==
  /\ Fault
  /\ step[p] # "idle"
  /\ done' \in {done, done \cup ({job[p]} \ {"none"})}
  /\ Return(p)
  /\ UNCHANGED <<manifest, orphans, vm, errors, present, reported>>

\* ssh refuses: the VM was stopped under a finish that had seen it running.
CallRefused(p) ==
  /\ vm = "stopped"
  /\ step[p] \in Scripts \/ Looking(p) \/ Installing(p)
  /\ Return(p)
  /\ UNCHANGED <<manifest, guestVars, reported, faults>>

\* Defect: a lock that is the existence of a file and outlives its process.
KillKeepsLock(p) ==
  /\ Fault
  /\ step[p] # "idle"
  /\ Goto(p, "idle")
  /\ job' = [job EXCEPT ![p] = "none"]
  /\ orphans' = orphans \cup ({job[p]} \ {"none"})
  /\ UNCHANGED <<manifest, todo, replace, holder, vm, errors, done, present, reported>>

\* p is killed: the kernel drops its lock and its guest script goes on.
Kill(p) ==
  /\ Fault
  /\ step[p] # "idle"
  /\ Return(p)
  /\ orphans' = orphans \cup ({job[p]} \ {"none"})
  /\ UNCHANGED <<manifest, vm, errors, done, present, reported>>

OrphanEnds(k) ==
  /\ k \in orphans
  /\ orphans' = orphans \ {k}
  /\ done' \in {done, done \cup {k}}
  /\ UNCHANGED <<manifest, procVars, vm, errors, present, reported, faults>>

\* The VM is stopped, or restarted to retry a provisioning that had errors:
\* the scripts end, and the ssh client of each with them.  A process between
\* two calls notices nothing.
StopVM ==
  /\ Fault \/ (errors /\ UNCHANGED faults)
  /\ vm = "running"
  /\ vm' = "stopped"
  /\ orphans' = {}
  /\ step' = [p \in Procs |-> IF job[p] # "none" THEN "idle" ELSE step[p]]
  /\ holder' = IF holder # NoProc /\ job[holder] # "none" THEN NoProc ELSE holder
  /\ job' = [p \in Procs |-> "none"]
  /\ UNCHANGED <<manifest, todo, replace, errors, done, present, reported>>

\* The user starts the VM with limactl.
UserStart ==
  /\ vm = "stopped"
  /\ vm' = "running"
  /\ \/ errors' = FALSE /\ UNCHANGED faults
     \/ errors' = TRUE /\ Fault
  /\ UNCHANGED <<manifest, procVars, orphans, done, present, reported>>

-----------------------------------------------------------------------------
FinishStep(p) ==
  \/ StartVM(p) \/ CheckReady(p) \/ Call(p) \/ CallReturns(p)
  \/ InstallAlias(p) \/ Report(p) \/ CallRefused(p)

CredentialStep(p) == Probe(p) \/ Answer(p) \/ Install(p) \/ CredentialsDone(p)

Next ==
  \/ \E p \in Procs : \/ Lock(p) \/ FinishStep(p)
                      \/ BeginCredentials(p) \/ CredentialStep(p)
                      \/ CallFails(p) \/ Kill(p)
  \/ \E k \in Scripts : OrphanEnds(k)
  \/ StopVM \/ UserStart

Spec == Init /\ [][Next]_vars

\* Processes make their calls and users answer prompts; somebody with a
\* terminal runs finish again until it succeeds (the lock may often be taken,
\* so they get it only by trying again and again) and restarts a VM whose
\* provisioning had errors.  Nothing is owed by faults, orphans or unattended
\* processes that have not been started.
Fairness ==
  /\ \A p \in Procs : WF_vars(FinishStep(p)) /\ WF_vars(CredentialStep(p))
  /\ \A p \in Attended : SF_vars(~reported /\ Lock(p))
  /\ WF_vars(errors /\ StopVM)

FairSpec == Spec /\ Fairness

-----------------------------------------------------------------------------
(* Properties.                                                             *)

\* Scripts at work in the guest, for a living process or not.
Running == (orphans \cup {job[p] : p \in Procs}) \ {"none"}

\* What has been done in the guest is always a prefix of finish's sequence,
\* however many processes were killed in it and whatever their orphans do
\* later: a step is never at work, let alone done, before those it needs, and
\* "Ready" is printed after all of them, which nothing takes back.
InOrder ==
  \A t \in Effects : Planned(t) =>
    /\ \A s \in done \cup Running : Rank(t) < Rank(s) => t \in done
    /\ reported => t \in done

\* README.md:123: the hook runs after checkout, dotfiles and credentials.  It
\* is never at work, and "Ready" never printed, while a declared credential is
\* still missing.
HookHasCredentials ==
  reported \/ "hook" \in (done \cup Running) => present = Creds

\* The flock: the steps of two finishes never interleave, and at most one
\* script has a process waiting for it.
OneFinish ==
  \A p, q \in Procs : step[p] \in Locked /\ step[q] \in Locked => p = q
LockCovers == \A p \in Procs : step[p] \in Locked <=> holder = p
OneScriptPerLock ==
  OneFinish /\ LockCovers /\ \A p \in Procs : job[p] # "none" => holder = p

\* README.md:222: onboarding is resumed with finish after any interruption.
EventuallyReported == <>reported
=============================================================================
