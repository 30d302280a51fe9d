------------------------------ MODULE VMBackend ------------------------------
(***************************************************************************)
(* The Lima and Incus backends (vm.go, incus.go and the scripts they send, *)
(* lima/ and incus/).  Invocations of devwright create, configure and      *)
(* verify one name; the instance, the host's SSH state for an Incus        *)
(* instance and the policies in the guest outlive them.  Nothing locks:    *)
(* invocations overlap, a provisioning script goes on for a while when the *)
(* invocation that streams it dies, and the operator stops, deletes and    *)
(* replaces the instance with the manager's own tools.                     *)
(*                                                                         *)
(* Any command of an invocation may fail, and then the invocation ends     *)
(* (Fails): an action below is the success of its command, its guard what  *)
(* success needs.                                                          *)
(***************************************************************************)
EXTENDS Verification

CONSTANTS
  None,
  Settings  \* what is used how, and the bounds; a behaviour is in one of them

\* The policy an invocation selects: none in particular, the embedded default
\* or a file of the operator's.
Selections == {"preserve"} \cup Policies

\* serves[p], selects[p]: what p is used for and what it selects.  starts: the policy
\* that create has left behind, or "none": there is no instance yet.  rough: see Verification.  Bounds:
\* kills (of invocations), stops (of the VM), instances (that are given the name)
\* and meddles (of the user, at ~/.pgpass).
ASSUME SettingsAssumption ==
  /\ Procs # {}
  /\ Settings \subseteq
       [backend : {"lima", "incus"}, starts : Recorded, rough : BOOLEAN,
        serves : [Procs -> SUBSET {"create", "configure", "verify"}],
        selects : [Procs -> SUBSET Selections],
        kills : Nat, stops : Nat, instances : Nat \ {0}, meddles : Nat]

\* None is nobody's key, no instance and no directory.
ASSUME NoneAssumption ==
  /\ None \notin Procs \cup {"lima"}
  /\ None \notin [gen : Nat, ours : BOOLEAN, running : BOOLEAN, ready : BOOLEAN,
                  keys : Procs \cup {"lima", None}]
  /\ None \notin [key : Procs \cup {None}, pin : Nat]

VARIABLES
  inst,      \* the instance, or None
  made,      \* how many instances there have been
  dir,       \* ~/.ssh/devwright/incus/NAME, or None
  saved,     \* saved[a]: custom-STEM.EXT in the guest
  guest,     \* dev's sudo is denied; the verifier is installed
  job,       \* job[p]: the provisioning script of p in the guest
  op,        \* op[p]: the invocation
  chosen,    \* history: what the operator's selection may be
  kills, stops, meddles

instance == <<setting, inst, made>>
guestFiles == <<target, sum, saved, guest>>
bounds == <<kills, stops, meddles>>
vars == <<instance, dir, guestFiles, job, verifierVars, op, chosen, bounds>>

\* A script saves the selection, picks the file to install, and replaces the
\* policy and its checksum, first for Codex, then for Claude Code.
ScriptPlaces == {"begin", "save", "pick", "swap", "sum", "rest"}
OpPlaces == {"idle", "look", "make", "info", "start", "reinfo", "wait", "mkdir",
             "keygen", "exec", "pin", "check", "recheck", "provision",
             "streaming", "verify", "verifying"}

NoJob == [at |-> "idle", agent |-> "codex", selects |-> "preserve",
          picked |-> "none", cut |-> FALSE]

\* alone is history: since p began, no other invocation has bootstrapped or
\* provisioned the guest, nor was a script running there when p sent its own.
NoOp == [at |-> "idle", does |-> "verify", selects |-> "preserve", alone |-> TRUE]

TypeOK ==
  /\ VerifierTypeOK
  /\ setting \in Settings
  /\ inst \in [gen : 1..setting.instances, ours : BOOLEAN, running : BOOLEAN,
               ready : BOOLEAN, keys : Procs \cup {"lima", None}] \cup {None}
  /\ made \in 0..setting.instances
  /\ dir \in [key : Procs \cup {None}, pin : 0..setting.instances] \cup {None}
  /\ saved \in [Agents -> Customs \cup {"none"}]
  /\ guest \in [denied : BOOLEAN, verifier : BOOLEAN]
  /\ job \in [Procs -> [at : ScriptPlaces \cup {"idle", "exited", "failed"},
                        agent : Agents, selects : Selections,
                        picked : Recorded, cut : BOOLEAN]]
  /\ op \in [Procs -> [at : OpPlaces, does : {"create", "configure", "verify"},
                       selects : Selections, alone : BOOLEAN]]
  /\ chosen \subseteq Policies
  /\ kills \in 0..setting.kills /\ stops \in 0..setting.stops
  /\ meddles \in 0..setting.meddles

Creator == CHOOSE p \in Procs : TRUE

\* Nothing, or what create leaves behind.
Init ==
  /\ VerifierInit
  /\ setting \in Settings
  /\ LET new == setting.starts = "none"
         incus == setting.backend = "incus"
     IN /\ target = [a \in Agents |-> setting.starts]
        /\ sum = target
        /\ saved = [a \in Agents |-> IF setting.starts \in Customs THEN setting.starts ELSE "none"]
        /\ chosen = {IF new THEN "embedded" ELSE setting.starts}
        /\ guest = [denied |-> ~new, verifier |-> ~new]
        /\ made = IF new THEN 0 ELSE 1
        /\ inst = IF new THEN None
                  ELSE [gen |-> 1, ours |-> TRUE, running |-> TRUE, ready |-> TRUE,
                        keys |-> IF incus THEN Creator ELSE "lima"]
        /\ dir = IF new \/ ~incus THEN None ELSE [key |-> Creator, pin |-> 1]
  /\ job = [p \in Procs |-> NoJob]
  /\ op = [p \in Procs |-> NoOp]
  /\ kills = 0 /\ stops = 0 /\ meddles = 0

-----------------------------------------------------------------------------
(* What the commands need                                                  *)

Incus == setting.backend = "incus"
Running == inst # None /\ inst.running

\* incus exec needs the guest's agent; Lima's SSH is up when limactl start ends.
Executable == Running /\ inst.ready

\* info and checkInstance: the recipe's own shape, no mounts, no provisioning.
Ours == inst # None /\ inst.ours

\* root's login: Lima's keys or, for Incus, the key of the directory, and the
\* host key that is pinned there.
RootSSH ==
  /\ Executable
  /\ IF Incus THEN dir # None /\ dir.pin = inst.gen /\ dir.key = inst.keys /\ dir.key # None
              ELSE inst.keys = "lima"

DevSSH == IF Incus THEN RootSSH ELSE Executable

Goes(p, s) == op' = [op EXCEPT ![p].at = s]
Ends(p) == op' = [op EXCEPT ![p] = NoOp]

\* What an invocation does with an instance that is up, after it has waited
\* for an Incus guest.
Ready(does) ==
  CASE does = "create" -> IF Incus THEN "mkdir" ELSE "exec"
    [] does = "configure" -> "provision"
    [] does = "verify" -> "verify"
Up(does) == IF Incus THEN "wait" ELSE Ready(does)

-----------------------------------------------------------------------------
(* execute                                                                 *)

\* create takes no --reset option, and verify selects nothing.
Begin(p) ==
  /\ op[p] = NoOp /\ job[p] = NoJob /\ ver[p].at = "idle"
  /\ \E does \in setting.serves[p], s \in setting.selects[p] :
       /\ does = "create" => s # "embedded"
       /\ does = "verify" => s = "preserve"
       /\ op' = [op EXCEPT ![p] =
            [at |-> IF does # "create" THEN "info" ELSE IF Incus THEN "look" ELSE "make",
             does |-> does, selects |-> s, alone |-> TRUE]]
  /\ UNCHANGED <<instance, dir, guestFiles, job, verifierVars, chosen, bounds>>

\* createIncus: never reuse a key that belongs to a deleted instance.
Look(p) ==
  /\ op[p].at = "look" /\ dir = None
  /\ Goes(p, "make")
  /\ UNCHANGED <<instance, dir, guestFiles, job, verifierVars, chosen, bounds>>

NewInstance(ours) ==
  /\ inst = None /\ made < setting.instances
  /\ made' = made + 1
  /\ inst' = [gen |-> made + 1, ours |-> ours, running |-> ~ours, ready |-> ~ours,
              keys |-> None]

\* Both managers refuse a name that exists.
Make(p) ==
  /\ op[p].at = "make"
  /\ NewInstance(TRUE)
  /\ Goes(p, "info")
  /\ UNCHANGED <<setting, dir, guestFiles, job, verifierVars, chosen, bounds>>

\* A stopped instance is started by create and configure only.
Info(p) ==
  /\ op[p].at = "info" /\ Ours
  /\ IF op[p].does = "create" \/ (op[p].does = "configure" /\ ~Running)
     THEN Goes(p, "start")
     ELSE Running /\ Goes(p, Up(op[p].does))
  /\ UNCHANGED <<instance, dir, guestFiles, job, verifierVars, chosen, bounds>>

\* limactl start waits for the guest and accepts one that runs; incus start does
\* neither.
Start(p) ==
  /\ op[p].at = "start" /\ inst # None
  /\ Incus => ~inst.running
  /\ inst' = [inst EXCEPT !.running = TRUE, !.ready = ~Incus]
  /\ Goes(p, "reinfo")
  /\ UNCHANGED <<setting, made, dir, guestFiles, job, verifierVars, chosen, bounds>>

Reinfo(p) ==
  /\ op[p].at = "reinfo" /\ Ours /\ Running
  /\ Goes(p, Up(op[p].does))
  /\ UNCHANGED <<instance, dir, guestFiles, job, verifierVars, chosen, bounds>>

\* waitIncus polls until the guest is up.
WaitReady(p) ==
  /\ op[p].at = "wait" /\ Executable
  /\ Goes(p, Ready(op[p].does))
  /\ UNCHANGED <<instance, dir, guestFiles, job, verifierVars, chosen, bounds>>

\* Defect: the wait has no deadline and ends only when the query fails.
WaitForever(p) ==
  /\ op[p].at = "wait" /\ inst = None
  /\ Ends(p)
  /\ UNCHANGED <<instance, dir, guestFiles, job, verifierVars, chosen, bounds>>

\* A query fails or three minutes have passed.
WaitExpires(p) ==
  /\ op[p].at = "wait"
  /\ Ends(p)
  /\ UNCHANGED <<instance, dir, guestFiles, job, verifierVars, chosen, bounds>>

-----------------------------------------------------------------------------
(* bootstrap: creation only                                                *)

Mkdir(p) ==
  /\ op[p].at = "mkdir" /\ dir = None
  /\ dir' = [key |-> None, pin |-> 0]
  /\ Goes(p, "keygen")
  /\ UNCHANGED <<instance, guestFiles, job, verifierVars, chosen, bounds>>

\* ssh-keygen does not replace a key.
Keygen(p) ==
  /\ op[p].at = "keygen" /\ dir # None /\ dir.key = None
  /\ dir' = [dir EXCEPT !.key = p]
  /\ Goes(p, "exec")
  /\ UNCHANGED <<instance, guestFiles, job, verifierVars, chosen, bounds>>

\* The bootstrap script authorises p's key for root, through incus exec or as
\* dev with the sudo Lima gives it.  It runs in whatever instance has the name.
Exec(p) ==
  /\ op[p].at = "exec" /\ Executable
  /\ ~Incus => ~guest.denied
  /\ inst' = [inst EXCEPT !.keys = IF Incus THEN p ELSE "lima"]
  /\ op' = [q \in Procs |-> IF q = p
              THEN [op[q] EXCEPT !.at = IF Incus THEN "pin" ELSE "check"]
              ELSE [op[q] EXCEPT !.alone = @ /\ op[q] = NoOp]]
  /\ UNCHANGED <<setting, made, dir, guestFiles, job, verifierVars, chosen, bounds>>

\* The host key comes from the manager and is pinned.
Pin(p) ==
  /\ op[p].at = "pin" /\ Executable /\ dir # None
  /\ dir' = [dir EXCEPT !.pin = inst.gen]
  /\ Goes(p, "check")
  /\ UNCHANGED <<instance, guestFiles, job, verifierVars, chosen, bounds>>

\* Root administration works before provisioning removes dev's sudo.
Check(p) ==
  /\ op[p].at = "check" /\ RootSSH
  /\ Goes(p, "recheck")
  /\ UNCHANGED <<instance, dir, guestFiles, job, verifierVars, chosen, bounds>>

\* Defect: the configuration is not looked at again after the bootstrap.
RecheckDropped(p) ==
  /\ op[p].at = "recheck"
  /\ Goes(p, "provision")
  /\ UNCHANGED <<instance, dir, guestFiles, job, verifierVars, chosen, bounds>>

Recheck(p) ==
  /\ op[p].at = "recheck" /\ Ours
  /\ Goes(p, "provision")
  /\ UNCHANGED <<instance, dir, guestFiles, job, verifierVars, chosen, bounds>>

-----------------------------------------------------------------------------
(* configure and verify                                                    *)

Active(p) == job[p].at \in ScriptPlaces

\* The script goes to the standard input of a root shell.
Provision(p) ==
  /\ op[p].at = "provision" /\ RootSSH
  /\ job' = [job EXCEPT ![p] = [NoJob EXCEPT !.at = "begin", !.selects = op[p].selects]]
  /\ op' = [q \in Procs |-> IF q = p
              THEN [op[q] EXCEPT !.at = "streaming",
                                 !.alone = @ /\ \A o \in Procs : ~Active(o)]
              ELSE [op[q] EXCEPT !.alone = @ /\ op[q] = NoOp]]
  /\ chosen' = chosen \cup ({op[p].selects} \ {"preserve"})
  /\ UNCHANGED <<instance, dir, guestFiles, verifierVars, bounds>>

Provisioned(p) ==
  /\ op[p].at = "streaming" /\ job[p].at = "exited"
  /\ Goes(p, "verify")
  /\ job' = [job EXCEPT ![p] = NoJob]
  /\ UNCHANGED <<instance, dir, guestFiles, verifierVars, chosen, bounds>>

\* The script failed, or the guest it ran in is gone.
NotProvisioned(p) ==
  /\ op[p].at = "streaming" /\ job[p].at \in {"failed", "idle"}
  /\ Ends(p)
  /\ job' = [job EXCEPT ![p] = NoJob]
  /\ UNCHANGED <<instance, dir, guestFiles, verifierVars, chosen, bounds>>

VerifyGuest(p) ==
  /\ op[p].at = "verify" /\ DevSSH /\ guest.verifier
  /\ Goes(p, "verifying")
  /\ StartVerifier(p)
  /\ UNCHANGED <<instance, dir, guestFiles, job, chosen, bounds>>

\* Success: a run that nobody disturbed has settled the selection.
Verified(p) ==
  /\ op[p].at = "verifying" /\ ver[p].at = "passed"
  /\ Ends(p)
  /\ ver' = [ver EXCEPT ![p] = Unstarted]
  /\ chosen' = IF op[p].alone /\ op[p].selects # "preserve" THEN {op[p].selects} ELSE chosen
  /\ UNCHANGED <<instance, dir, guestFiles, job, pgpass, bounds>>

NotVerified(p) ==
  /\ op[p].at = "verifying" /\ ver[p].at \in {"failed", "idle"}
  /\ Ends(p)
  /\ ver' = [ver EXCEPT ![p] = Unstarted]
  /\ UNCHANGED <<instance, dir, guestFiles, job, pgpass, chosen, bounds>>

\* A command fails: the error is returned at once and nothing is undone.
Fails(p) ==
  /\ op[p].at \notin {"idle", "wait", "streaming", "verifying"}
  /\ Ends(p)
  /\ UNCHANGED <<instance, dir, guestFiles, job, verifierVars, chosen, bounds>>

-----------------------------------------------------------------------------
(* The provisioning script in the guest                                    *)

Steps(p, s) == job' = [job EXCEPT ![p].at = s]

\* The script ends; an orphan's status goes nowhere.
Exits(p, s) ==
  job' = [job EXCEPT ![p] =
            IF op[p].at = "streaming" THEN [NoJob EXCEPT !.at = s] ELSE NoJob]

\* dev loses its sudo and its other groups, the packages are installed.
ScriptBegins(p) ==
  /\ job[p].at = "begin"
  /\ guest' = [guest EXCEPT !.denied = TRUE]
  /\ Steps(p, "save")
  /\ UNCHANGED <<instance, dir, target, sum, saved, verifierVars, op, chosen, bounds>>

\* Defect: the default is installed once, and the saved file stays.
SaveOnce(p) ==
  /\ job[p].at = "save"
  /\ saved' = [saved EXCEPT ![job[p].agent] =
       IF job[p].selects \in Customs THEN job[p].selects ELSE @]
  /\ Steps(p, "pick")
  /\ UNCHANGED <<instance, dir, target, sum, guest, verifierVars, op, chosen, bounds>>

\* install_managed_policy: a custom file replaces the saved one by a rename, the
\* default removes it, and without an option it is left alone.
Save(p) ==
  /\ job[p].at = "save"
  /\ saved' = [saved EXCEPT ![job[p].agent] =
       CASE job[p].selects = "preserve" -> @
         [] job[p].selects = "embedded" -> "none"
         [] OTHER -> job[p].selects]
  /\ Steps(p, "pick")
  /\ UNCHANGED <<instance, dir, target, sum, guest, verifierVars, op, chosen, bounds>>

\* The saved file goes before the default and is copied to a temporary one.
Pick(p) ==
  /\ job[p].at = "pick"
  /\ job' = [job EXCEPT ![p].at = "swap", ![p].picked =
       IF saved[job[p].agent] = "none" THEN "embedded" ELSE saved[job[p].agent]]
  /\ UNCHANGED <<instance, dir, guestFiles, verifierVars, op, chosen, bounds>>

Swap(p) ==
  /\ job[p].at = "swap"
  /\ target' = [target EXCEPT ![job[p].agent] = job[p].picked]
  /\ job' = [job EXCEPT ![p].at = "sum", ![p].picked = "none"]
  /\ UNCHANGED <<instance, dir, sum, saved, guest, verifierVars, op, chosen, bounds>>

\* sha256sum reads the policy that is there by now.
Record(p) ==
  /\ job[p].at = "sum"
  /\ sum' = [sum EXCEPT ![job[p].agent] = target[job[p].agent]]
  /\ job' = [job EXCEPT ![p].agent = "claude",
       ![p].at = IF job[p].agent = "codex" THEN "save" ELSE "rest"]
  /\ UNCHANGED <<instance, dir, target, saved, guest, verifierVars, op, chosen, bounds>>

\* The agents, the dotfiles, the credential loader and, by a rename, the verifier.
ScriptRests(p) ==
  /\ job[p].at = "rest" /\ ~job[p].cut
  /\ guest' = [guest EXCEPT !.verifier = TRUE]
  /\ Exits(p, "exited")
  /\ UNCHANGED <<instance, dir, target, sum, saved, verifierVars, op, chosen, bounds>>

\* set -e: any command may fail, and a script may end where it was cut.
ScriptStops(p) ==
  /\ Active(p)
  /\ Exits(p, "failed")
  /\ UNCHANGED <<instance, dir, guestFiles, verifierVars, op, chosen, bounds>>

Script(p) ==
  \/ ScriptBegins(p) \/ Save(p) \/ Pick(p) \/ Swap(p) \/ Record(p)
  \/ ScriptRests(p) \/ ScriptStops(p)

-----------------------------------------------------------------------------
(* The guest, the operator and the user                                    *)

GuestBoots ==
  /\ Running /\ ~inst.ready
  /\ inst' = [inst EXCEPT !.ready = TRUE]
  /\ UNCHANGED <<setting, made, dir, guestFiles, job, verifierVars, op, chosen, bounds>>

\* The invocation dies, or its connection, while the guest works for it.  The
\* script has been received whole, or not.
Interrupted(p) ==
  /\ kills < setting.kills /\ kills' = kills + 1
  /\ op[p].at \in {"streaming", "verifying"}
  /\ Ends(p)
  /\ IF Active(p) THEN \E cut \in BOOLEAN : job' = [job EXCEPT ![p].cut = cut]
                  ELSE job' = [job EXCEPT ![p] = NoJob]
  /\ UNCHANGED <<instance, dir, guestFiles, verifierVars, chosen, stops, meddles>>

\* A verifier nobody listens to ends, or dies of its next line of output: then
\* its canary stays.
OrphanEnds(v) ==
  /\ op[v].at # "verifying" /\ ver[v].at # "idle"
  /\ ver' = [ver EXCEPT ![v] = Unstarted]
  /\ UNCHANGED <<instance, dir, guestFiles, job, pgpass, op, chosen, bounds>>

NothingRuns ==
  /\ job' = [p \in Procs |-> NoJob]
  /\ ver' = [v \in Procs |-> Unstarted]

VMStops ==
  /\ stops < setting.stops /\ stops' = stops + 1
  /\ Running
  /\ inst' = [inst EXCEPT !.running = FALSE, !.ready = FALSE]
  /\ NothingRuns
  /\ UNCHANGED <<setting, made, dir, guestFiles, pgpass, op, chosen, kills, meddles>>

Delete ==
  /\ inst # None /\ inst' = None
  /\ NothingRuns
  /\ target' = [a \in Agents |-> "none"] /\ sum' = [a \in Agents |-> "none"]
  /\ saved' = [a \in Agents |-> "none"]
  /\ guest' = [denied |-> FALSE, verifier |-> FALSE]
  /\ pgpass' = "none" /\ chosen' = {"embedded"}
  /\ UNCHANGED <<setting, made, dir, op, bounds>>

\* The operator gives the name to an instance of their own.
MakeForeign ==
  /\ NewInstance(FALSE)
  /\ UNCHANGED <<setting, dir, guestFiles, job, verifierVars, op, chosen, bounds>>

\* What createIncus tells the operator to do.
MoveAside ==
  /\ dir # None /\ inst = None
  /\ dir' = None
  /\ UNCHANGED <<instance, guestFiles, job, verifierVars, op, chosen, bounds>>

UserMeddles ==
  /\ meddles < setting.meddles /\ meddles' = meddles + 1
  /\ Running
  /\ UserPgpass
  /\ UNCHANGED <<instance, dir, guestFiles, job, op, chosen, kills, stops>>

-----------------------------------------------------------------------------
Invocation(p) ==
  \/ Look(p) \/ Make(p) \/ Info(p) \/ Start(p) \/ Reinfo(p)
  \/ WaitReady(p) \/ WaitExpires(p)
  \/ Mkdir(p) \/ Keygen(p) \/ Exec(p) \/ Pin(p) \/ Check(p) \/ Recheck(p)
  \/ Provision(p) \/ Provisioned(p) \/ NotProvisioned(p)
  \/ VerifyGuest(p) \/ Verified(p) \/ NotVerified(p) \/ Fails(p)

Outside == <<instance, dir, guestFiles, job, op, chosen, bounds>>

Next ==
  \/ \E p \in Procs : Begin(p) \/ Invocation(p) \/ Script(p) \/ Interrupted(p)
  \/ \E v \in Procs : (Verify(v) /\ UNCHANGED Outside) \/ OrphanEnds(v)
  \/ GuestBoots \/ VMStops \/ Delete \/ MakeForeign \/ MoveAside \/ UserMeddles

\* An invocation and its timers run, and so does the verifier; the commands of
\* a script end.  Nothing is assumed of the agents or of a guest that boots.
Fairness ==
  \A p \in Procs :
    /\ WF_vars(Invocation(p)) /\ WF_vars(Script(p))
    /\ WF_vars(OwnSteps(p) /\ UNCHANGED Outside)

Spec == Init /\ [][Next]_vars /\ Fairness

-----------------------------------------------------------------------------
(* Properties                                                              *)

\* When a create or configure that nobody disturbed is about to report success,
\* both agents have the policy the operator selected: the file given now or, when
\* none was given, one of the last selection or of a run that was cut short since.
\* (install_managed_policy; docs: "Future configure runs restore that saved
\* selection".)  A policy, its saved copy or a picked file left behind by an
\* interrupted, failed or stopped run does not come back later.
SelectionHonoured ==
  \A p \in Procs :
    op[p].at = "verifying" /\ ver[p].at = "passed" /\ op[p].does # "verify" /\ op[p].alone =>
      \A a \in Agents :
        target[a] \in IF op[p].selects = "preserve" THEN chosen ELSE {op[p].selects}

\* A script never runs as root in an instance that is not of this recipe, even
\* when the operator gives the name to another one while create or configure is
\* on its way; unless another create has bootstrapped that one meanwhile.
ForeignNeverProvisioned ==
  \A p \in Procs : op[p].at = "streaming" /\ Active(p) /\ op[p].alone => inst.ours

\* A ~/.pgpass of the user's own goes away by the user's hand or with the VM; a
\* verifier takes it for its canary only when the user put it there meanwhile.
\* (withBehaviorFixture; docs: "An existing ~/.pgpass is never read or
\* overwritten.")
UserFileKept ==
  [][pgpass = "user" /\ pgpass' # "user" =>
       \/ UserMeddles \/ Delete
       \/ \E v \in Procs : Clean(v) /\ ver[v].disturbed]_vars

\* Every invocation ends: a guest that never boots, an agent that never answers
\* and a session that never finishes do not hold it for ever.
OperationsEnd == \A p \in Procs : op[p].at # "idle" ~> op[p].at = "idle"
=============================================================================
