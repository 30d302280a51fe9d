----------------------------- MODULE NativeUser -----------------------------
(***************************************************************************)
(* The native user backend on Linux (user_admin.go, user_system.go,        *)
(* user_ssh.go, user_backend.go): a managed OS account per name.  The      *)
(* operator's launcher keeps the client key; a root helper, one at a time  *)
(* under a flock, keeps a registry record per account and the account's    *)
(* resources.  Launcher and helper can each fail or be killed at any step, *)
(* and a launcher that dies leaves its helper at work.  Actions that only  *)
(* read (list, check, shell, ssh-config) are left out.                     *)
(***************************************************************************)
EXTENDS Naturals

CONSTANTS
  Procs,     \* launchers
  NoProc,
  Names,     \* environment names
  Serves,    \* Serves[p]: the names launcher p is used for
  MaxId,     \* bound: numeric identifiers are 1..MaxId
  Taken,     \* identifiers of accounts and groups that are not devwright's
  MaxFaults  \* bound: failing and killed launchers and helpers

ASSUME ProcsAssumption == NoProc \notin Procs
ASSUME NamesAssumption == Names # {} /\ Serves \in [Procs -> SUBSET Names]
ASSUME IdsAssumption == MaxId \in Nat /\ Taken \subseteq Nat /\ MaxFaults \in Nat

VARIABLES
  reg,     \* reg[n]: the registry record, users/NAME.json
  host,    \* host[n]: what the system has under the account's names and paths
  loaded,  \* names whose drop-in the running sshd has read
  busy,    \* identifiers with running processes
  client,  \* client[n]: the operator's ~/.ssh/devwright/user/NAME
  step,    \* step[p]: where launcher p is
  target,  \* target[p]: the name it works on
  helper,  \* the helper that holds the flock
  cut,     \* names whose reload was lost with a killed helper
  faults

launcherVars == <<step, target>>
vars == <<reg, host, loaded, busy, client, launcherVars, helper, cut, faults>>

Ids == 1..MaxId
Live == {"creating", "configuring", "configured", "deleting"}
Unregistered == [phase |-> "none", uid |-> 0, archive |-> FALSE]
NoAccount == [group |-> 0, user |-> 0, shell |-> "none", home |-> "none",
              built |-> FALSE, sudo |-> FALSE, keys |-> "none", rule |-> FALSE,
              archive |-> FALSE]
NoHelper == [at |-> "none", name |-> CHOOSE n \in Names : TRUE, purge |-> FALSE,
             caller |-> NoProc, existed |-> FALSE, before |-> FALSE]

Records == [phase : Live \cup {"none", "deleted"}, uid : Ids \cup {0},
            archive : BOOLEAN]
Accounts == [group : Ids \cup {0}, user : Ids \cup {0},
             shell : {"none", "bash", "nologin"},
             home : {"none", "root", "user"}, built : BOOLEAN, sudo : BOOLEAN,
             keys : {"none", "key", "blank"}, rule : BOOLEAN, archive : BOOLEAN]
Places == {"none", "create", "configure", "group", "user", "mkdir", "chown",
           "identity", "restrict", "keys", "rule", "reload", "setup", "audit",
           "delete", "disable", "blank", "recheck", "record", "move",
           "userdel", "groupdel", "unkey", "unrule", "unsudo", "unload",
           "erase", "tombstone", "purge", "forget"}
Helpers == [at : Places, name : Names, purge : BOOLEAN,
            caller : Procs \cup {NoProc}, existed : BOOLEAN, before : BOOLEAN]
Steps == {"idle", "check", "look", "mkdir", "mark", "keygen", "call", "wait",
          "unmark", "rmdir"}

TypeOK ==
  /\ reg \in [Names -> Records]
  /\ host \in [Names -> Accounts]
  /\ loaded \subseteq Names
  /\ busy \subseteq Ids
  /\ client \in [Names -> {"none", "bare", "marked", "ready"}]
  /\ step \in [Procs -> Steps]
  /\ target \in [Procs -> Names]
  /\ helper \in Helpers
  /\ cut \subseteq Names
  /\ faults \in 0..MaxFaults

Init ==
  /\ reg = [n \in Names |-> Unregistered]
  /\ host = [n \in Names |-> NoAccount]
  /\ loaded = {}
  /\ busy = {}
  /\ client = [n \in Names |-> "none"]
  /\ step = [p \in Procs |-> "idle"]
  /\ target = [p \in Procs |-> NoHelper.name]
  /\ helper = NoHelper
  /\ cut = {}
  /\ faults = 0

-----------------------------------------------------------------------------
(* The launcher                                                            *)

Fault == faults < MaxFaults /\ faults' = faults + 1
Free == helper.at = "none"
Goto(p, s) ==
  /\ step' = [step EXCEPT ![p] = s]
  /\ target' = [target EXCEPT ![p] = IF s = "idle" THEN NoHelper.name ELSE @]

\* The helper ends; a launcher that still waits for it goes on at s.
Hangup(s) ==
  /\ helper' = NoHelper
  /\ IF helper.caller = NoProc THEN UNCHANGED launcherVars
     ELSE Goto(helper.caller, s)

\* Nothing of this name is on the host, and no record: what create-check and
\* create ask for.
Gone(n) ==
  /\ host[n].home = "none" /\ ~host[n].rule /\ host[n].keys = "none"
  /\ ~host[n].sudo /\ host[n].user = 0 /\ host[n].group = 0
Fresh(n) == reg[n].phase = "none" /\ Gone(n)

\* sudo runs the helper, which takes the flock and reads the request.
Helper(p, o, n, b) ==
  helper' = [NoHelper EXCEPT !.at = o, !.name = n, !.purge = b, !.caller = p]

\* `devwright configure NAME` and `devwright delete NAME [--remove-home]`:
\* nothing but the call.  A lock that is taken is an error without effect.
Begin(p, o, n, b) ==
  /\ step[p] = "idle"
  /\ Free
  /\ Helper(p, o, n, b)
  /\ step' = [step EXCEPT ![p] = "wait"]
  /\ target' = [target EXCEPT ![p] = n]
  /\ UNCHANGED <<reg, host, loaded, busy, client, cut, faults>>

\* `devwright create NAME`
BeginCreate(p, n) ==
  /\ step[p] = "idle"
  /\ step' = [step EXCEPT ![p] = "check"]
  /\ target' = [target EXCEPT ![p] = n]
  /\ UNCHANGED <<reg, host, loaded, busy, client, helper, cut, faults>>

\* The helper's create-check, a reading under the lock.
Check(p) ==
  /\ step[p] = "check"
  /\ Goto(p, IF Free /\ Fresh(target[p]) THEN "look" ELSE "idle")
  /\ UNCHANGED <<reg, host, loaded, busy, client, helper, cut, faults>>

Look(p) ==
  /\ step[p] = "look"
  /\ Goto(p, IF client[target[p]] = "none" THEN "mkdir" ELSE "idle")
  /\ UNCHANGED <<reg, host, loaded, busy, client, helper, cut, faults>>

\* MkdirAll is content with a directory that another create has made since.
Mkdir(p) ==
  /\ step[p] = "mkdir"
  /\ Goto(p, "mark")
  /\ client' = [client EXCEPT ![target[p]] = IF @ = "none" THEN "bare" ELSE @]
  /\ UNCHANGED <<reg, host, loaded, busy, helper, cut, faults>>

Mark(p) ==
  /\ step[p] = "mark"
  /\ Goto(p, IF client[target[p]] = "none" THEN "idle" ELSE "keygen")
  /\ client' = [client EXCEPT ![target[p]] = IF @ = "bare" THEN "marked" ELSE @]
  /\ UNCHANGED <<reg, host, loaded, busy, helper, cut, faults>>

\* ssh-keygen does not overwrite a key: its stdin is empty.
Keygen(p) ==
  /\ step[p] = "keygen"
  /\ Goto(p, IF client[target[p]] \in {"none", "ready"} THEN "idle" ELSE "call")
  /\ client' = [client EXCEPT ![target[p]] = IF @ = "marked" THEN "ready" ELSE @]
  /\ UNCHANGED <<reg, host, loaded, busy, helper, cut, faults>>

Call(p) ==
  /\ step[p] = "call"
  /\ \/ /\ Free
        /\ Helper(p, "create", target[p], FALSE)
        /\ Goto(p, "wait")
     \/ ~Free /\ Goto(p, "idle") /\ UNCHANGED helper
  /\ UNCHANGED <<reg, host, loaded, busy, client, cut, faults>>

\* removeUserClient, after the helper's success: the marker goes first.
Unmark(p) ==
  /\ step[p] = "unmark"
  /\ IF client[target[p]] \in {"marked", "ready"}
     THEN Goto(p, "rmdir") /\ client' = [client EXCEPT ![target[p]] = "bare"]
     ELSE Goto(p, "idle") /\ UNCHANGED client
  /\ UNCHANGED <<reg, host, loaded, busy, helper, cut, faults>>

Rmdir(p) ==
  /\ step[p] = "rmdir"
  /\ Goto(p, "idle")
  /\ client' = [client EXCEPT ![target[p]] = IF @ = "bare" THEN "none" ELSE @]
  /\ UNCHANGED <<reg, host, loaded, busy, helper, cut, faults>>

\* The launcher fails or is killed.  Its helper, if any, goes on.
LauncherStops(p) ==
  /\ Fault
  /\ step[p] # "idle"
  /\ Goto(p, "idle")
  /\ helper' = IF helper.caller = p THEN [helper EXCEPT !.caller = NoProc]
               ELSE helper
  /\ UNCHANGED <<reg, host, loaded, busy, client, cut>>

\* "move stale identity aside": the operator does, with nothing at work on n.
MoveAside(n) ==
  /\ client[n] # "none"
  /\ reg[n].phase = "none"
  /\ \A p \in Procs : step[p] # "idle" => target[p] # n
  /\ ~Free => helper.name # n
  /\ client' = [client EXCEPT ![n] = "none"]
  /\ UNCHANGED <<reg, host, loaded, busy, launcherVars, helper, cut, faults>>

-----------------------------------------------------------------------------
(* The helper: create and configure                                        *)

Record == reg[helper.name]
Account == host[helper.name]
At(s) == helper.at = s
Onto(s) == helper' = [helper EXCEPT !.at = s] /\ UNCHANGED launcherVars
Save(s) == reg' = [reg EXCEPT ![helper.name].phase = s]
\* What sshd reads: the drop-ins that are there.
Rules == {n \in Names : host[n].rule}

\* checkIdentity
Identified ==
  /\ Account.user = Record.uid
  /\ Account.group = Record.uid
  /\ Account.home = "user"

\* The files that audit compares with what they should be.
Filed(n) == host[n].sudo /\ host[n].keys = "key" /\ host[n].rule

\* Where the helper may go on; elsewhere it returns an error.
Permitted ==
  /\ At("create") => Fresh(helper.name)
  /\ At("configure") => Record.phase \in Live \ {"deleting"}
  /\ At("group") => Account.group \in {0, Record.uid}
  /\ At("user") => Account.user \in {0, Record.uid}
  /\ At("identity") => Identified
  /\ helper.at \in {"setup", "audit"} => Identified /\ Filed(helper.name)
  /\ At("delete") =>
       \/ Record.phase = "deleted"
       \/ /\ Record.phase \in Live
          /\ Account.user \in {0, Record.uid}
          /\ Account.user = 0 => Record.phase = "deleting"
          /\ Record.uid \notin busy
  /\ At("recheck") => Record.uid \notin busy
  /\ At("record") => Record.archive \/ ~Account.archive
  /\ At("move") =>
       IF Account.home = "none" THEN Account.archive \/ ~helper.existed
       ELSE Account.home = "user" /\ helper.existed /\ ~Account.archive
  /\ At("groupdel") => Account.group \in {0, Record.uid}

\* The step at s changes the account's resources and leads to t.
Change(s, t, resources) ==
  /\ At(s) /\ Permitted
  /\ host' = [host EXCEPT ![helper.name] = resources]
  /\ Onto(t)
  /\ UNCHANGED <<reg, loaded, busy, client, cut, faults>>

\* Defect: identifiers in use are those of what exists now.
UsedNow == Taken \cup {host[m].user : m \in Names} \cup {host[m].group : m \in Names}

\* allocateIDs: those of accounts, groups and records, tombstones included.
Used ==
  Taken \cup {host[m].user : m \in Names} \cup {host[m].group : m \in Names}
        \cup {reg[m].uid : m \in Names}

\* The checks once more, the least identifier that is not in use, the first save.
Reserve ==
  /\ At("create") /\ Permitted
  /\ \E i \in Ids \ Used :
       /\ \A j \in Ids \ Used : i <= j
       /\ reg' = [reg EXCEPT ![helper.name] =
                    [phase |-> "creating", uid |-> i, archive |-> FALSE]]
  /\ Onto("group")
  /\ UNCHANGED <<host, loaded, busy, client, cut, faults>>

\* configure goes on with a creation that was interrupted.
Configure ==
  /\ At("configure") /\ Permitted
  /\ Onto(IF Record.phase = "creating" THEN "group" ELSE "identity")
  /\ UNCHANGED <<reg, host, loaded, busy, client, cut, faults>>

\* createAccount: groupadd and useradd, unless an earlier call has made them ...
AddGroup == Change("group", "user", [Account EXCEPT !.group = Record.uid])

AddUser ==
  Change("user", "mkdir",
         [Account EXCEPT !.user = Record.uid,
                           !.shell = IF @ = "none" THEN "bash" ELSE @])

\* ... and the home, which is given to the user only by the call that made it.
MakeHome ==
  Change("mkdir", IF Account.home = "none" THEN "chown" ELSE "identity",
         [Account EXCEPT !.home = IF @ = "none" THEN "root" ELSE @])

ChownHome == Change("chown", "identity", [Account EXCEPT !.home = "user"])

\* checkIdentity, preflight, and the phase is saved before anything changes.
Identify ==
  /\ At("identity") /\ Permitted
  /\ Save("configuring")
  /\ Onto("restrict")
  /\ UNCHANGED <<host, loaded, busy, client, cut, faults>>

\* Defect: the sudo rule is forgotten.
RestrictLess == Change("restrict", "keys", Account)

\* restrictAccount: shell, password, mode, and the sudo rule that denies.
Restrict ==
  Change("restrict", "keys",
         [Account EXCEPT !.shell = "bash", !.sudo = TRUE])

\* installSSH: the key, the drop-in, and the reload if it was not there before.
WriteKeys == Change("keys", "rule", [Account EXCEPT !.keys = "key"])

WriteRule ==
  /\ At("rule")
  /\ host' = [host EXCEPT ![helper.name].rule = TRUE]
  /\ helper' = [helper EXCEPT !.at = "reload", !.before = Account.rule]
  /\ UNCHANGED <<reg, loaded, busy, client, launcherVars, cut, faults>>

Reload ==
  /\ At("reload")
  /\ loaded' = IF helper.before THEN loaded ELSE Rules
  /\ cut' = cut \ loaded'
  /\ Onto("setup")
  /\ UNCHANGED <<reg, host, busy, client, faults>>

\* installVerifier, audit, setupHome
SetupHome == Change("setup", "audit", [Account EXCEPT !.built = TRUE])

\* audit once more, and the phase is saved.  The launcher verifies over ssh.
Audit ==
  /\ At("audit") /\ Permitted
  /\ Save("configured")
  /\ Hangup("idle")
  /\ UNCHANGED <<host, loaded, busy, client, cut, faults>>

-----------------------------------------------------------------------------
(* The helper: delete                                                      *)

\* Defect: the phase is misspelt.
DeleteMisspelt ==
  /\ At("delete") /\ Permitted
  /\ Record.phase # "deleted"
  /\ Save("delete")
  /\ helper' = [helper EXCEPT !.at = "disable", !.existed = Account.user # 0]
  /\ UNCHANGED <<host, loaded, busy, client, launcherVars, cut, faults>>

\* Defect: the phase is not saved before the first change.
DeleteUnsaved ==
  /\ At("delete") /\ Permitted
  /\ Record.phase # "deleted"
  /\ helper' = [helper EXCEPT !.at = "disable", !.existed = Account.user # 0]
  /\ UNCHANGED <<reg, host, loaded, busy, client, launcherVars, cut, faults>>

\* lookup, noProcesses, and the phase is saved before anything changes.
Delete ==
  /\ At("delete") /\ Permitted
  /\ Record.phase # "deleted"
  /\ Save("deleting")
  /\ helper' = [helper EXCEPT !.at = "disable", !.existed = Account.user # 0]
  /\ UNCHANGED <<host, loaded, busy, client, launcherVars, cut, faults>>

Disable ==
  Change("disable", "blank",
         [Account EXCEPT !.shell = IF helper.existed THEN "nologin" ELSE @])

Blank ==
  Change("blank", "recheck",
         [Account EXCEPT !.keys = IF @ = "none" THEN @ ELSE "blank"])

\* Defect: the processes are looked at only once.
RecheckNothing ==
  /\ At("recheck")
  /\ Onto("record")
  /\ UNCHANGED <<reg, host, loaded, busy, client, cut, faults>>

\* noProcesses again: a session may have begun before the account was closed.
Recheck == Change("recheck", "record", Account)

\* Where the home goes is recorded before it goes there.
RecordArchive ==
  /\ At("record") /\ Permitted
  /\ reg' = [reg EXCEPT ![helper.name].archive = TRUE]
  /\ Onto("move")
  /\ UNCHANGED <<host, loaded, busy, client, cut, faults>>

\* The rename, unless an earlier call has made it.  Without a home there must
\* be an archive, or no account.
MoveHome ==
  Change("move", "userdel",
         IF Account.home = "none" THEN Account
         ELSE [Account EXCEPT !.home = "none", !.built = FALSE, !.archive = TRUE])

UserDel ==
  Change("userdel", "groupdel",
         [Account EXCEPT !.user = 0, !.shell = "none"])

GroupDel == Change("groupdel", "unkey", [Account EXCEPT !.group = 0])

RemoveKeys == Change("unkey", "unrule", [Account EXCEPT !.keys = "none"])

RemoveRule == Change("unrule", "unsudo", [Account EXCEPT !.rule = FALSE])

RemoveSudo == Change("unsudo", "unload", [Account EXCEPT !.sudo = FALSE])

\* reloadSSH: sshd reads the drop-ins of every account.
Unload ==
  /\ At("unload")
  /\ loaded' = Rules
  /\ cut' = cut \ loaded'
  /\ Onto(IF helper.purge THEN "erase" ELSE "tombstone")
  /\ UNCHANGED <<reg, host, busy, client, faults>>

\* --remove-home
Erase == Change("erase", "tombstone", [Account EXCEPT !.archive = FALSE])

\* The record stays: it reserves the name and the identifiers.
Tombstone ==
  /\ At("tombstone")
  /\ reg' = [reg EXCEPT ![helper.name].phase = "deleted",
                        ![helper.name].archive = @ /\ ~helper.purge]
  /\ Hangup("unmark")
  /\ UNCHANGED <<host, loaded, busy, client, cut, faults>>

\* delete of what is deleted: purgeArchive if asked, and the client's files.
DeleteAgain ==
  /\ At("delete")
  /\ Record.phase = "deleted"
  /\ IF helper.purge /\ Record.archive THEN Onto("purge") ELSE Hangup("unmark")
  /\ UNCHANGED <<reg, host, loaded, busy, client, cut, faults>>

Purge == Change("purge", "forget", [Account EXCEPT !.archive = FALSE])

Forget ==
  /\ At("forget")
  /\ reg' = [reg EXCEPT ![helper.name].archive = FALSE]
  /\ Hangup("unmark")
  /\ UNCHANGED <<host, loaded, busy, client, cut, faults>>

-----------------------------------------------------------------------------
(* Errors, deaths and sessions                                             *)

\* Defect: the launcher cleans up after a helper that has failed, too.
RefuseAndUnmark ==
  /\ ~Free /\ ~Permitted
  /\ Hangup("unmark")
  /\ UNCHANGED <<reg, host, loaded, busy, client, cut, faults>>

\* The helper refuses to go on.
Refuse ==
  /\ ~Free /\ ~Permitted
  /\ Hangup("idle")
  /\ UNCHANGED <<reg, host, loaded, busy, client, cut, faults>>

\* What setupHome has started may outlive the helper.
Leftover ==
  \/ UNCHANGED busy
  \/ At("setup") /\ busy' = busy \cup {Record.uid}

\* Defect: a drop-in stays when the call that wrote it fails.
HelperFailsUntidy ==
  /\ Fault
  /\ ~Free
  /\ Hangup("idle")
  /\ Leftover
  /\ UNCHANGED <<reg, host, loaded, client, cut>>

\* A command fails or a signal that is caught ends it: the helper returns an
\* error, and installSSH takes back a drop-in that was not there before.
HelperFails ==
  /\ Fault
  /\ ~Free
  /\ Hangup("idle")
  /\ host' = [host EXCEPT ![helper.name].rule =
                @ /\ (At("reload") => helper.before)]
  /\ Leftover
  /\ UNCHANGED <<reg, loaded, client, cut>>

\* The helper is killed, or hung up with its terminal: nothing is taken back.
HelperDies ==
  /\ Fault
  /\ ~Free
  /\ Hangup("idle")
  /\ cut' = IF At("reload") /\ ~helper.before THEN cut \cup {helper.name} ELSE cut
  /\ Leftover
  /\ UNCHANGED <<reg, host, loaded, client>>

\* Who can open a session: an account that sshd knows, with shell and key.
Open(n) ==
  host[n].user # 0 /\ host[n].shell = "bash" /\ host[n].keys = "key" /\ n \in loaded

Login(n) ==
  /\ Open(n)
  /\ busy' = busy \cup {host[n].user}
  /\ UNCHANGED <<reg, host, loaded, client, launcherVars, helper, cut, faults>>

Logout(i) ==
  /\ i \in busy
  /\ busy' = busy \ {i}
  /\ UNCHANGED <<reg, host, loaded, client, launcherVars, helper, cut, faults>>

-----------------------------------------------------------------------------
LauncherStep(p) ==
  \/ Check(p) \/ Look(p) \/ Mkdir(p) \/ Mark(p) \/ Keygen(p) \/ Call(p)
  \/ Unmark(p) \/ Rmdir(p)

HelperStep ==
  \/ Reserve \/ Configure \/ AddGroup \/ AddUser \/ MakeHome \/ ChownHome
  \/ Identify \/ Restrict \/ WriteKeys \/ WriteRule \/ Reload \/ SetupHome
  \/ Audit
  \/ Delete \/ Disable \/ Blank \/ Recheck \/ RecordArchive \/ MoveHome
  \/ UserDel \/ GroupDel \/ RemoveKeys \/ RemoveRule \/ RemoveSudo \/ Unload
  \/ Erase \/ Tombstone \/ DeleteAgain \/ Purge \/ Forget
  \/ Refuse

Next ==
  \/ \E p \in Procs : \E n \in Serves[p] :
       \/ BeginCreate(p, n)
       \/ Begin(p, "configure", n, FALSE)
       \/ \E b \in BOOLEAN : Begin(p, "delete", n, b)
  \/ \E p \in Procs : LauncherStep(p) \/ LauncherStops(p)
  \/ HelperStep \/ HelperFails \/ HelperDies
  \/ \E n \in Names : MoveAside(n) \/ Login(n)
  \/ \E i \in Ids : Logout(i)

Spec == Init /\ [][Next]_vars

\* delete of n, when the lock is free, as long as n is still being deleted.
Retry(n) ==
  /\ reg[n].phase = "deleting"
  /\ \E p \in Procs, b \in BOOLEAN : n \in Serves[p] /\ Begin(p, "delete", n, b)

\* Launchers and helpers go on; an interrupted deletion is
\* tried again until it has got the lock.
Fairness ==
  /\ WF_vars(HelperStep)
  /\ \A p \in Procs : WF_vars(LauncherStep(p))
  /\ \A n \in Names : SF_vars(Retry(n))

FairSpec == Spec /\ Fairness

-----------------------------------------------------------------------------
(* Properties                                                              *)

\* What a phase says of an account is true of the system whatever was
\* interrupted: one that is "configured" is whole, one that is "deleted" has
\* left nothing behind but an archive that the record names.
PhaseIsTrue ==
  \A n \in Names :
    /\ reg[n].phase = "configured" =>
         /\ host[n].user = reg[n].uid /\ host[n].group = reg[n].uid
         /\ host[n].shell = "bash" /\ host[n].home = "user" /\ host[n].built
         /\ Filed(n)
    /\ reg[n].phase = "deleted" =>
         /\ Gone(n) /\ n \notin loaded
         /\ host[n].archive => reg[n].archive

\* docs/backends.md:224-225: sshd is reloaded "when needed".  A configured
\* account's drop-in is in force, unless the helper was killed between writing
\* and loading it and no later call has reloaded sshd for some account.
LoadedUnlessCut ==
  \A n \in Names : reg[n].phase = "configured" => n \in loaded \cup cut

\* docs/backends.md:224-225: the tool "reloads an already active Linux
\* ssh.service/sshd.service when needed", and 297: "Interrupted configuration
\* remains recorded and can be retried with configure".  So what is recorded as
\* configured is in force.
LoadedOnceConfigured ==
  \A n \in Names : reg[n].phase = "configured" => n \in loaded

\* user_admin.go:443: an account that can be entered is denied sudo already,
\* in every order in which its files come and go and whoever reloads sshd.
DeniedBeforeOpen == \A n \in Names : Open(n) => host[n].sudo

\* docs/backends.md:280: "refuses running processes".  A home is moved away
\* only from under an account that runs nothing and cannot be entered again.
MovedWhenIdle ==
  [][\A n \in Names : host'[n].archive /\ ~host[n].archive =>
       reg[n].uid \notin busy /\ ~Open(n)]_vars

\* docs/backends.md:295-296: "Deleted records reserve their names and numeric
\* IDs": no identifier is ever given to a second account, even though the
\* system itself knows nothing of a deleted one.
NeverRecycled ==
  \A m, n \in Names : m # n /\ reg[m].uid = reg[n].uid => reg[m].uid = 0

\* The operator keeps the key of every account that still has one, although
\* launchers make and remove the key directory without any lock.
KeyIsKept == \A n \in Names : reg[n].phase \in Live => client[n] = "ready"

\* docs/backends.md:297-299: "interrupted deletion can be retried with
\* `delete`".  It comes to an end unless somebody keeps entering the account.
\* The code does not keep this: deletion insists on a home that belongs to the
\* user, and a creation may have been interrupted before there was one.
DeletionEnds ==
  \A n \in Names :
    reg[n].phase = "deleting" ~>
      reg[n].phase = "deleted" \/ reg[n].uid \in busy
=============================================================================
