# A TLA+ model of devwright

devwright makes development VMs with Lima and onboards a project into them: it
snapshots a source directory or Git repository on the host, creates the VM,
transfers the snapshot into the guest, runs dotfiles and project hooks there,
asks for credentials and installs an SSH alias. An older backend, kept beside it,
manages native OS accounts through a root helper. This directory models the parts
of the program whose correctness depends on *order*: what happens when several
`devwright` processes, the guest scripts or helpers they start and the user work on
the same VM or account, and any of them is interrupted.

## The system

`cmd/devwright` runs `internal/launch`; everything in the first table is in that
package. The Go files of the repository's root package are the native-user and
VM backends of earlier versions, which the binary no longer imports but which are
kept and tested; `internal/verification` holds the policy checks.

| Component | State it keeps | Operations | Hard behaviour | What makes it correct |
|---|---|---|---|---|
| `create` (create.go) | a temporary directory; the Lima instance; `devwright/` beside it with the snapshots and, last, `onboarding.json` | check the name, snapshot, `limactl create`, make the directory, copy, write the manifest | failures and kills between steps, two creates of one name, deletion and retry | a manifest stands only beside the complete files of the create that wrote it |
| `finish` (onboard.go) | a flock per VM | start the VM, readiness gate, then project, dotfiles, credential loader, SSH alias, credentials, hook, "Ready" | killed processes whose guest scripts go on; VM stops; prompts; resumption | steps in order, one finish at a time, "Ready" only when all is in place, resumable |
| directory transfer (directory.go) | in the guest: `~/projects/NAME`, the stamp in it, the marker | receive, check digest, unpack, rename, mark, unstamp | overlapping runs, cut streams, torn writes, a user at the target | delivered once, whole, never over the user's work |
| checkout transfer and dotfiles (onboard.go) | the checkout, `.git/devwright-source`, `.git/devwright-installed` | receive, clone, rename, compare, grant, install, mark | as above, and an installer that may switch users | the installer runs from the saved commit, readable to the user; its marker is honest |
| project hook (onboard.go) | `project-setup-complete` | test the marker, stream the hook, touch the marker | a stream that is cut in the middle of a script that is executed as it arrives | the marker means that the hook has run |
| credentials (onboard.go, scripts/credentials.sh) | loader, `environment.sh`, `credentials.d/*.sh` | probe, prompt, install, rotate | a command without the lock beside a finish; no terminal | the hook never runs without them |
| SSH alias (onboard.go) | `~/.ssh/config`, `~/.ssh/devwright/NAME.config`, backups | check, read, back up, replace | finishes of several VMs, and `install-ssh` (ssh.go) of the other program, share one file; symlinks; the user's editor | the user's text is kept, backed up first; the alias is reachable |
| preferences, `init`, names (cli.go, project_name.go) | `~/.config/devwright` | single-shot reads and writes | – | names are valid path components |
| native user backend (user_*.go) | registry with phases and tombstones, OS accounts and groups, SSH drop-in, sudo rule, home or archive | create, configure, check, list, delete, purge | two parties (launcher and root helper) that die separately; crash and resume in every phase, identifier reuse, rollback, sessions that begin during a deletion | a phase says the truth; sudo is denied before anybody can enter; an identity is never reused; the key is kept; deletion can always be finished |
| VM backends (vm.go, incus.go, dotfiles.go, lima/, incus/) | the instance; for Incus, a key and a pinned host key in `~/.ssh/devwright/incus/NAME`; in the guest, each agent's policy, its checksum and the operator's saved selection | create, bootstrap, configure, wait, verify | no lock at all: invocations overlap, a killed one leaves its script running as root, the operator deletes and replaces the instance meanwhile; waits | an instance of another shape is never provisioned; the selection is honoured; every invocation ends |
| verification (internal/verification) | a canary at `~/.pgpass`, while it runs | compare checksums, ask the agents for their policy, run a probe in their sandboxes, judge | agents that answer late, wrongly, twice or never; a policy that is replaced meanwhile; verifiers that share the canary's path; kills | a verdict is earned; the user's `~/.pgpass` is never touched; checks end |

The components interact through the file system and through one call: `app.ssh`
(onboard.go:20) runs a shell script in the guest with a stream as its stdin. That
call is where the interesting behaviour comes from. The script has no terminal,
so it does not end with its ssh client; the flock of finish (onboard.go:33-41)
belongs to the host process, so it does. A killed finish therefore leaves an
*orphan*: a script that reads the end of a cut stream and goes on, beside the same
script started by the next finish.

The native user backend has the same shape with other parts: the launcher
(`user_backend.go`) works in the operator's home without any lock, and each of its
calls is one root helper (`user_admin.go`) that holds a flock on the registry from
reading its request to its last save. sudo keeps the helper at work when the
launcher dies. The registry's phase is saved before the first change and after the
last, so what a phase says of an account must hold at every point in between.

The VM backends send a whole script to a root shell in the guest (vm.go:196), through
ssh and, for Incus, `incus exec`. Provisioning installs the policies of the two
agents and the verifier, which the same invocation then runs as `dev` (vm.go:181):
the verifier reads what the script, or another invocation's, has written.

## Modules

| Module | Models | Extends / instantiates |
|---|---|---|
| `Delivery` | the abstract promise of a transfer: from nothing to the whole content in one step, changed only by the user, success reported only after that | – |
| `GuestScript` | `app.ssh` with the lock of `finish`: begin, stream, exit, disconnect, failing command, VM stop | – |
| `DirectoryTransfer` | `installDirectory`, `directoryScript` | `GuestScript`; implements `Delivery` |
| `CheckoutInstall` | `installRepository`, `installDotfiles`, `installCheckout` | `GuestScript`; implements `Delivery` |
| `HookSetup` | the hook at the end of `finish` | `GuestScript` |
| `Onboarding` | `finish` and `credentials` as processes; a guest script is one job that may outlive its process | – |
| `SSHConfig` | `installSSH` of several VMs, and `install-ssh`, over one file | – |
| `CreateVM` | `create` up to its finish | – |
| `NativeUser` | launcher and helper of the native user backend on Linux: create, configure, delete, sessions, faults | – |
| `Verification` | the verifier of a guest: checksums, the app-server client, the canary, the sessions, the verdict; agents that do as they like | – |
| `VMBackend` | create, configure and verify of a Lima or Incus instance, the provisioning script, the operator and the guest; it starts the verifiers of `Verification` and provisions beside them | `Verification` |
| `NativeUserProofs` | the theorems about `NativeUser` | `NativeUser`, `TLAPS` |
| `DirectoryTransferProofs` | the theorems about `DirectoryTransfer` | `DirectoryTransfer`, `TLAPS` |
| `SSHConfigProofs` | the theorems about `SSHConfig` | `SSHConfig`, `TLAPS` |
| `CreateVMProofs` | the theorems about `CreateVM` | `CreateVM`, `TLAPS` |
| `CheckoutInstallProofs` | the theorems about `CheckoutInstall` | `CheckoutInstall`, `TLAPS` |
| `HookSetupProofs` | the theorems about `HookSetup` | `HookSetup`, `TLAPS` |
| `OnboardingProofs` | the theorems about `Onboarding` | `Onboarding`, `WellFoundedInduction`, `TLAPS` |
| `VMBackendProofs` | the theorems about `VMBackend` and `Verification` | `VMBackend`, `TLAPS` |
| `MC*` | bounded instances: symmetry sets and model values for the process names | the module of that name |

State and code correspond as follows. In the script modules `pc[r]` is a label
before a command of the shell script, named for it; `tree`, `stamp`, `marker`,
`source`, `installed` are what `test` and `cat` see at the script's paths. A tree
is `absent`, `empty`, the `snapshot` as delivered, a `user`'s (edited or of their
own) or `partial`, which must never occur. What a run does inside its private
staging directory touches nobody and is folded into the step that ends it; every
access to a shared path is a step of its own, so the test of the target and the
rename are separate. `mv -T` is rename(2): it succeeds over nothing and over an
empty directory. `printf > marker` is two steps, since the shell truncates first.
`delivered`, `meddled`, `exchanged`, `completions`, `succeeded`, `written`, `hasty` and
`evicted` are history: no guard of the code reads them.

In `Onboarding`, `step[p]` is the call a process is in, `job[p]` the guest script
it waits for and `done` the effects that are in place; the detailed modules say
what a script's effect is and why running it again is harmless. `SSHConfig` tells
texts apart only by their age, `CreateVM` files only by who copied them and
whether to the end.

In `NativeUser`, `step[p]` is where a launcher is in `user_backend.go` and `helper.at`
the next change the one helper makes; a check that precedes a change (`Permitted`)
is evaluated with it, since only sessions can interfere while the flock is held, and
where they can (`noProcesses`) the looks are steps of their own. `reg` is what the
registry's files say, `host` what exists under an account's names and paths, `loaded`
the drop-ins sshd has read, `busy` the identifiers with processes. A helper that
fails takes back what the code takes back (`HelperFails`), one that is killed does
not (`HelperDies`). `cut`, the names whose reload was lost in that way, is history.

In `VMBackend`, `op[p].at` is the next command of an invocation in `execute`; the
action of that name is its success, `Fails` its error, after which nothing is undone.
`inst.gen` tells instances of one name apart, `inst.ours` those of the recipe's
shape, and `dir.pin` is the instance whose host key is pinned. `job[p]` is the script that p
has sent; it belongs to the guest and survives p (`Interrupted`), with all of its text
or with a part of it (`cut`). In `install_managed_policy` the saved selection, the picked
file, the policy and its checksum change in steps of their own, since two scripts may be
at it together. A policy is `embedded` or one of the operator's files; those in `Locked` set
`allowManagedReadPathsOnly` as well. Customs have the shape for which the
verifier has expectations: a sandbox that confines writes and denies reading `~/.pgpass`.
`chosen` and `alone` are history: what the operator's selection may be by now, and
whether anybody else has bootstrapped or provisioned since the invocation began. So are
`unearned` and `disturbed` of a verifier.

In `Verification`, `ver[v].at` is the next check, first of Codex, then of Claude Code.
The line the app-server has written is a reply to the request that waits, agreeing with
the policy or not, or anything else. A probe's report is what the sandbox lets through
by the policy that is *in effect* when it runs; what the verifier expects comes from the
policy it has *read*. `seen.secret` is what the probe says of the canary and `seen.real`
what would have been possible: they differ when no canary is there.

Operators whose comment begins with *Defect* are not part of a specification: each
is a plausible mistake in the operator that follows it, kept so that every
property can be shown to fail when the code is wrong in that way (`PROJECT.json`,
"mutants").

## What the runs check

| Run | Checks | Shows |
|---|---|---|
| `DirectoryTransfer.cfg` | `TypeOK`, `StampClosesGap`, `UserWorkSurvives`, `DeliveredOnce`, `ImplementsDelivery`, `OnlyTornMarkerBlocks` | the transfer is safe under two overlapping runs, two faults and two interventions of the user, and a retried finish succeeds unless the marker was torn, the user interfered or the archive carries the stamp's name |
| `DirectoryTransferTorn.cfg` | `EventuallyReady` is violated | one fault between truncating and writing the marker blocks every later finish |
| `HookSetup.cfg` | `TypeOK`, `SkippedOnceSettled`, `EventuallyReady` | with three faults and a hook of three commands, what the hook's marker does guarantee |
| `HookSetupCut.cfg` | `MarkerMeansRan` is violated | a dropped connection makes the marker lie |
| `CheckoutInstall.cfg` | `TypeOK`, `InstalledHonest`, `InstallerFindsCheckout`, `ImplementsDelivery`, `EventuallyReady` | the same for all four kinds of checkout (shared or not, with an installer or not) |
| `Onboarding.cfg` | `TypeOK`, `InOrder`, `HookHasCredentials`, `OneScriptPerLock`, `EventuallyReported` | an attended and an unattended process, two credentials, two faults |
| `SSHConfig.cfg` | `TypeOK`, `UserTextKept`, `AliasReachable`, `BackupFirst` | two finishes and an `install-ssh`, two edits, two faults: text and symlink are the user's, whoever renames last |
| `CreateVM.cfg` | `TypeOK`, `ManifestIsComplete`, `OneCreate` | three creates, two faults, two deletions: a manifest stands beside the files of one create, even when it has ended up in another's instance |
| `NativeUser.cfg` | `TypeOK`, `PhaseIsTrue`, `LoadedUnlessCut`, `DeniedBeforeOpen`, `NeverRecycled`, `KeyIsKept`, `MovedWhenIdle` | two launchers that compete for one of two accounts, two faults, sessions at any time, the identifier below the managed ones taken |
| `VMBackend.cfg` | `TypeOK`, `SelectionHonoured`, `ForeignNeverProvisioned`, `VerdictRests`, `UserFileKept`, `OperationsEnd` | one name in eight settings (below): a success means the selected policies, no script runs in another's instance, a passing verdict is earned, `~/.pgpass` is the user's, every invocation ends |
| `NativeUserStuck.cfg` | `DeletionEnds` is violated | a creation cut between the account and its home can never be deleted |
| `NativeUserUnloaded.cfg` | `LoadedOnceConfigured` is violated | a helper killed before its reload leaves a drop-in that no later configure loads |

Four runs are expected to fail, and what they show is in `PROJECT.json` under
"findings": the hook marker touched after a cut stream (against README.md:124), the
torn directory marker (against directory.go:131 and README.md:222), the deletion that
fails for ever on an account without a home (against docs/backends.md:297-299;
`configure` repairs that account first), and the account that is recorded as
configured although its SSH drop-in was never loaded (against docs/backends.md:224-225
and 297).

What the passing runs exempt, they name: `exchanged` (the user takes a checkout away
under a run past its comparison, which then marks what it finds), `hasty` and `evicted`
(an instance, or the directory being copied to, is deleted under its create), `cut` (the
case of `NativeUserUnloaded`), `disturbed` (the user was at a verifier's canary) and `alone`
(below). None is idle: TLC, under the same cfg, refutes each of these properties as soon
as its exemption is dropped.

### Bounds, and why they are enough

Two runs are an orphan and its retry. A third run could only be a second orphan;
the proofs cover any number. Two faults suffice to interrupt a run and its retry,
and each fault is possible at every step. Faults are bounded in the guards
(`MaxFaults`) because an operator whose every attempt is interrupted never
succeeds; so are the user's interventions (`MaxMeddles`, `MaxEdits`, `MaxDeletes`).
Two credentials distinguish the first from the rest; a hook of three commands has
a beginning, an inside and an end. Three installers in `SSHConfig` let a stale read
be separated from its rename by two other renames; one of them is an `install-ssh`,
which compares lines and orders its writes differently. `SSHConfig` and `CreateVM` turn
deadlock checking off: a foreign alias file refuses every finish, and a name stays
taken once the bounded deletions are used up. Symmetry is used only in those two,
which check no liveness. In `NativeUser` the second launcher serves one account, so
both the race for a name and the interference of two names occur; two accounts and
three identifiers, one of them foreign, let an identifier be offered again after a
deletion. `NativeUserStuck` and `NativeUserUnloaded` are the smallest instance that shows their
counterexamples.

`VMBackend` would be far too large with everything at once, so a behaviour is in one of
the `Settings` that `MCVMBackend` lists, which name what each of two invocations is used for
and bound kills, stops, instances and the user's interventions: an Incus name that is
created, killed or stopped, deleted, given away and created again; a Lima name on which
one creates and another configures; two scripts that overlap, one of them an orphan; two
verifiers with agents that misbehave and a user at `~/.pgpass`; verifiers that are killed;
and a verifier beside a script that changes the policy and a user who removes the canary. An instance can always be deleted, and at most two
get the name: the third is to the second what the second is to the first. Two
invocations suffice for a race; a third, a retry, is what either of them does next, since
an invocation that has ended begins again.

`SSHConfig.cfg` has `ConcurrentEditor = FALSE`: the user's editor is closed while a
finish is in `installSSH`. With `TRUE`, `UserTextKept` fails: the code reads the file
and renames over it without looking again.

### Fairness

Guest processes are scheduled (`WF` of `Script`), the ssh client sends what it has
and the host process notices the end (`WF` of `Host`), and the operator runs finish
again until one has succeeded (`WF` of beginning a run while `~ready`): README.md:222
tells them to. In `Onboarding` somebody with a terminal retries (`SF` of `Lock`, since
an unattended process may hold the lock now and then), users answer prompts, and a
VM whose provisioning had errors is restarted (README.md:234). In `NativeUserStuck` launcher and helper
go on (`WF`), and a deletion that is not finished is tried again until it has got the
lock (`SF` of `Retry`): docs/backends.md:297-299 tells the operator to. In `VMBackend` an invocation, its timers
and the commands of a script go on (`WF` of `Invocation`, `Script` and `OwnSteps`); limactl, incus and
ssh are taken to end, with success or an error, as the code does, which gives them
no deadline. Of the agents nothing is assumed where `setting.rough` holds, so a verifier
gets past one that is silent by its deadline only (`NoAnswer`, `Deadline`), and nothing of a
guest that boots, so that `wait` ends by `WaitExpires`. Nothing is assumed of
faults, orphans of a stopped VM, unattended processes or the user at the target.

## What is proved

`DirectoryTransferProofs` proves, for every set of runs, every number of faults and
interventions and every choice of fault kinds: `TypeOK`, `StampClosesGap`,
`UserWorkSurvives`, `DeliveredOnce`, and that `DirectoryTransfer` implements
`Delivery`. None of these is inductive. `StampClosesGap` alone says nothing of a
run that is about to remove the stamp, and whether that run may do so depends on a
marker another run may have written. `IInv` adds what a run's place in the script
is evidence of (`RunsHonest`): past the digest its archive is whole, past the stamp
or the marker the snapshot has been delivered, past the redirection a marker
exists. With `MarkerHonest` and `VacantByUser` (a target that is vacant after a
delivery was emptied by the user) it is inductive; `LocalIInv` disposes of the
steps that only read, and one step per remaining action does the rest. The proofs
assume only the named ASSUMEs on the constants.

`NativeUserProofs` proves for `NativeUser`, for every set of launchers and names, every
bound on identifiers and faults: `TypeOK`, `PhaseIsTrue`, `DeniedBeforeOpen`,
`NeverRecycled`, `KeyIsKept`, `LoadedUnlessCut` and the action property `MovedWhenIdle`. Only
`NeverRecycled` comes near to being inductive. A phase is made true by the steps
before the one that saves it, so `IInv` says for every place of the helper what the
record says there (`Told`) and which resources the account has by then (`Had`):
a deletion is a chain of places, each with one resource less, and the sets `NoHome`,
`NoUser`, ... name its tails. `MovedWhenIdle` needs more than `Had`, since a session
may begin while the helper works: an account whose key is blank cannot be entered,
and another account's session runs under another identifier, which is where
`NeverRecycled` is needed. `KeyIsKept` needs what launchers know without a lock
(`KeysSound`): one that is past the marker finds a key directory that only a
deletion, with its tombstone, takes away. The proof disposes of the steps by kind:
a step that changes resources (`ChangeIInv`), one that only goes on (`MovedIInv`), one
that saves (`SavedIInv`), one that ends with success (`DoneIInv`) or without (`EndIInv`),
and the launcher's (`GoingOn`, `CalledIInv`).

`LoadedUnlessCut` is proved on top of that from a second invariant, `RulesRead`: every
drop-in that exists has been read by sshd or its reload was lost, except for the one
the helper is about to load. It rests on three lemmas about where drop-ins are made,
where sshd reads them and how the helper leaves the place in between.

`SSHConfigProofs` proves for `SSHConfig`, for every set of VMs and commands and any
number of edits and faults, `TypeOK`, and under the assumption `~ConcurrentEditor`
(the user does not save while an installer is at work) `UserTextKept`,
`AliasReachable` and `BackupFirst`. The assumption is needed: nothing locks
`~/.ssh/config`, and an installer that has read it renames over whatever is saved
meanwhile. `IInv` says what an installer past its read still knows of the file it is
about to replace (`Knows`): its text is the one it read, an Include line it saw is
still there, and if it decided to add one the file is no symlink; and what it has
done by its place (`Done`). That survives other installers because they replace the
file only by the same text under an Include line.

`CreateVMProofs` proves for `CreateVM`, for any number of creates, failures and
deletions, `TypeOK`, `ManifestIsComplete` and `OneCreate`. The place of a create is
evidence: once it has made the directory, that is its own (`Owned`) and nobody else
copies to it (`AloneAtWork`), unless it is deleted under the copying (`evicted`).
`CopiedSoFar` is the invariant of the copying loop: files before the one it is at are as
planned, those after it absent. None of that depends on whose instance the directory
is in: a create whose instance was deleted may go on in the next one of the name,
and then it is the other create that fails. Only `OneCreate`, which says that they are the
same, is about histories without such a deletion (`hasty`); `AtHome` is the invariant for it.

`CheckoutInstallProofs` proves for `CheckoutInstall` `TypeOK`, `InstalledHonest`,
`InstallerFindsCheckout` and that it implements `Delivery`. As for directories, the
place of a run is evidence (`RunsHonest`): past the comparison with `devwright-source`
the commit was delivered and is there, past the grant a shared checkout is readable,
and at the touch the installer has succeeded. Other runs cannot take that evidence
away: a rename needs a vacant place, and where the source is, it is not vacant
(`Genuine`). The user can, but only under a run that is past the comparison
(`exchanged`); whatever the user has done before that, the marker is honest.

`HookSetupProofs` proves `TypeOK` and `SkippedOnceSettled`; what makes the latter
inductive is that a run that began under the marker has executed nothing and never gets
past the test of it (`SettledHonest`).

Two theorems say what a lost connection does. `OnlyDisconnectsOverlap` and
`OnlyDisconnectsCutShort` prove `OneInstaller` (two installers are never at work together)
and `MarkerMeansRan` for every instance in which none is lost, whatever fails or stops
besides: then every script at work has the lock's holder waiting for it (`Attached`),
and no stream ends early (`Complete`). `HookSetupCut` refutes `MarkerMeansRan` with one lost
connection. `OneInstaller` fails with one as well, since the flock covers the host's
process and not the guest's script; the model allows that overlap, and the other
properties hold in spite of it.

`OnboardingProofs` proves for `Onboarding`, for any number of processes, credentials and
faults, `TypeOK`, `OneScriptPerLock`, `InOrder` and `HookHasCredentials`. `InOrder` speaks
of scripts and not of the process that starts the next one, so `IInv` adds what the
place of a process says: the steps behind it are done (`Progress`), a script it
waits for is the one of its step (`Waiting`), and the credentials it has no longer
to look at are there (`Provided`). An orphan was started when that much was true
already, and nothing that is done is undone. The next step and the next credential
are chosen with CHOOSE; `AfterTable` and `CurrentFacts` say what is chosen, the latter by the
well-foundedness of `<`.

`VMBackendProofs` proves for `VMBackend` and the verifiers in it, for any number of
invocations, policies, instances and kills, `TypeOK`, `VerdictRests`,
`ForeignNeverProvisioned`, `SelectionHonoured` and the action property `UserFileKept`. `IInv` has
a part for each:

* `VerInv`: of the verifiers one at most owns the canary (`OneCanary`), whose canary is then
  in place unless the user was there (`Canaried`), so that the probe's report is the truth or
  an error (`Honest`). `UserFileKept` follows from `Canaried`: what a verifier removes is its canary.
* `ForeignKept`: root's keys come into an instance of another shape only by somebody's
  bootstrap (`Intruded`). Whoever is still `alone` then has yet to look (`BeforeLook`), or
  looks again after its own bootstrap, and goes no further.
* `SelectionKept`: whatever a script has saved, picked or put in place has been selected
  by somebody (`Selected`). An invocation that has sent its script alone has no other
  script beside it from then on (`Alone`), and the place of its script says how much of
  its selection is in place (`Halfway`), all of it in the end (`Settled`).

The proof goes from the verifier's steps, which only see `target`, `sum` and `~/.pgpass`,
to the backend's; those that leave all parts but one alone are disposed of together.
Of the constants it assumes that there is an invocation at all, that `None`
is none of the values it is compared with, and that the operator's policies are
distinct from the words `embedded`, `none` and `preserve`.

Every invariant and every action property that the passing runs check is proved, and
both refinements of `Delivery`. What stays model-checked only is liveness, since
fairness is beyond the prover: `EventuallyReady`, `EventuallyReported`, `OperationsEnd`
and `OnlyTornMarkerBlocks`.

## What is not modelled

File contents below the level above: archive formats, Git, quoting, YAML, the
template, the recipe and the probes' text. The file system is taken to be atomic
and ordered per call; a stopped VM keeps what was written before. The host's
source tree is not a variable, so a project edited between its snapshot and the
reading of its hook (create.go:107-141) is out of scope, as is the content of a
credential.

Of the native user backend: macOS Directory Services, the actions that only read
(list, check, shell, ssh-config), its `known_hosts`, the verification over
ssh at the end of create and configure, the contents of the home, and administrators
who change a managed account by hand. The registry's atomic replace is one step, and so are ssh-keygen's test
for a key and its writing of one (`Keygen`).

Of the VM backends: `render` and `ssh-config`, which print; the preflight of the
managers' versions; dotfiles and user configurations, which the script installs
after the policies; one selection is given for both agents. The name is configured by
`alone` invocations where `SelectionHonoured` and `ForeignNeverProvisioned` speak of
them: two that overlap may mix their selections, and an instance that another create has
bootstrapped meanwhile may be provisioned, which the program says nothing about. An
operator who edits the instance in place after the last look (vm.go:274), mounts for instance, is
left out. Of the verifier: native accounts (native.go), versions, formats. A verifier
that is killed leaves its canary, which later ones take for the user's file: they skip the
read (behavior.go:93) and pass with less said. The model keeps that behaviour
(`OrphanEnds`); `VerdictRests` claims nothing of a read that was skipped.

## Plan

Done: the launcher's core (transfer, checkout, hook, onboarding, alias, create), the
native user backend, and the VM backends with the guest's verifier, each with
the proofs of its invariants and action properties.

1. *Credential files*: `credentials.sh`, `environment.sh` and the loader's append, with
   cut streams, as a refinement of the one step `Onboarding` has for them.
2. *Native user backend*: an abstract account registry (free, held, reserved) which
   `NativeUser` implements, and the theorem that a deleted account stays deleted;
   `known_hosts`.
3. *Verification*: native accounts; a canary that was left behind.
4. *Pure algorithms*: project names, group policy, the expectations table, as
   operators checked against reference definitions.
5. *Proofs*: that `NativeUser` implements the registry of item 2; further liveness side
   conditions, such as which faults a stuck deletion needs, in the manner of
   `OnlyDisconnectsCutShort`.
