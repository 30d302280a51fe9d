-------------------------- MODULE NativeUserProofs --------------------------
(***************************************************************************)
(* What the native user backend guarantees for any number of launchers,    *)
(* accounts, identifiers and faults.  The argument rests on one inductive  *)
(* invariant, IInv: the place of the one helper that holds the lock tells  *)
(* what the record says and which resources the account has by then, and   *)
(* the place of a launcher what it knows of its key directory.             *)
(***************************************************************************)
EXTENDS NativeUser, TLAPS

\* The places of a deletion, by what is gone when the helper is there.
NoSudo == {"unload", "erase", "tombstone"}
NoRule == NoSudo \cup {"unsudo"}
NoKeys == NoRule \cup {"unrule"}
NoGroup == NoKeys \cup {"unkey"}
NoUser == NoGroup \cup {"groupdel"}
NoHome == NoUser \cup {"userdel"}
Closed == NoHome \cup {"recheck", "record", "move"}
Deletion == Closed \cup {"disable", "blank"}

Creation == {"group", "user", "mkdir", "chown"}
Denied == {"keys", "rule", "reload", "setup", "audit"}
Configuration == Denied \cup {"restrict"}

\* What every record and account satisfy at any time.
AccountsSound ==
  \A n \in Names :
    /\ reg[n].phase = "none" => ~reg[n].archive
    /\ reg[n].phase # "none" => reg[n].uid # 0
    /\ host[n].user \in {0, reg[n].uid}
    /\ host[n].keys = "key" => host[n].sudo
    /\ host[n].archive => reg[n].archive

\* What a record r says when the helper is at place q ...
Told(q, r) ==
  /\ q \in Creation => r.phase = "creating"
  /\ q = "identity" => r.phase \in {"creating", "configuring", "configured"}
  /\ q \in Configuration => r.phase = "configuring"
  /\ q \in Deletion => r.phase = "deleting"
  /\ q \in {"purge", "forget"} => r.phase = "deleted"
  /\ q = "move" => r.archive

\* ... and which resources a the account has then.
Had(q, a) ==
  /\ q \in Denied => a.sudo /\ a.shell = "bash"
  /\ q = "audit" => a.built
  /\ q \in Closed => a.keys # "key"
  /\ q \in NoHome => a.home = "none"
  /\ q \in NoUser => a.user = 0
  /\ q \in NoGroup => a.group = 0
  /\ q \in NoKeys => a.keys = "none"
  /\ q \in NoRule => ~a.rule
  /\ q \in NoSudo => ~a.sudo
  /\ q = "forget" => ~a.archive

RecordSound == Told(helper.at, Record)

ResourcesSound ==
  /\ Had(helper.at, Account)
  /\ helper.at \in {"record", "move"} => Record.uid \notin busy
  /\ helper.at \in {"erase", "tombstone"} => helper.name \notin loaded
  /\ At("tombstone") /\ helper.purge => ~Account.archive

\* Nobody creates an account without its key, nor removes the key of one that
\* is not deleted.
KeysSound ==
  /\ ~Free /\ helper.caller # NoProc =>
       step[helper.caller] = "wait" /\ target[helper.caller] = helper.name
  /\ At("create") => client[helper.name] = "ready" \/ Record.phase = "deleted"
  /\ \A p \in Procs :
       \/ reg[target[p]].phase = "deleted"
       \/ /\ step[p] = "keygen" => client[target[p]] \in {"marked", "ready"}
          /\ step[p] = "call" => client[target[p]] = "ready"
          /\ step[p] \notin {"unmark", "rmdir"}

IInv ==
  /\ TypeOK
  /\ AccountsSound
  /\ RecordSound
  /\ ResourcesSound
  /\ KeysSound
  /\ NeverRecycled
  /\ KeyIsKept
  /\ PhaseIsTrue

USE NamesAssumption, ProcsAssumption, IdsAssumption
USE DEF Ids, Live, Records, Accounts, Places, Helpers, Steps,
        Record, Account, At, Free, Gone, Fresh, Filed, Identified,
        NoSudo, NoRule, NoKeys, NoGroup, NoUser, NoHome, Closed, Deletion,
        Creation, Denied, Configuration

\* No helper: a helper that nobody has called for.
LEMMA NoHelperType == NoHelper \in Helpers /\ NoHelper.at = "none"
BY DEF NoHelper

\* Initially there are no records, accounts and keys.
LEMMA InitIInv == Init => IInv
<1> SUFFICES ASSUME Init PROVE IInv
  OBVIOUS
<1>1. TypeOK
  BY NoHelperType DEF Init, TypeOK, Unregistered, NoAccount
<1>2. AccountsSound /\ NeverRecycled /\ KeyIsKept /\ PhaseIsTrue
  BY DEF Init, AccountsSound, NeverRecycled, KeyIsKept, PhaseIsTrue, Unregistered,
         NoAccount
<1>3. RecordSound /\ ResourcesSound /\ KeysSound
  BY NoHelperType, <1>1 DEF Init, TypeOK, RecordSound, ResourcesSound, KeysSound,
         Told, Had
<1>4. QED
  BY <1>1, <1>2, <1>3 DEF IInv

\* A launcher goes on, or ends, and a helper ends, within the types.
LEMMA GotoType ==
  ASSUME TypeOK, NEW p \in Procs, NEW s \in Steps, Goto(p, s)
  PROVE  step' \in [Procs -> Steps] /\ target' \in [Procs -> Names]
BY NoHelperType DEF TypeOK, Goto

\* A hangup leaves everything of its kind.
LEMMA HangupType ==
  ASSUME TypeOK, NEW s \in Steps, Hangup(s)
  PROVE  /\ step' \in [Procs -> Steps] /\ target' \in [Procs -> Names]
         /\ helper' \in Helpers /\ helper'.at = "none"
<1>1. helper' \in Helpers /\ helper'.at = "none"
  BY NoHelperType DEF Hangup
<1>2. step' \in [Procs -> Steps] /\ target' \in [Procs -> Names]
  <2>1. CASE helper.caller = NoProc
    BY <2>1 DEF Hangup, TypeOK, launcherVars
  <2>2. CASE helper.caller # NoProc
    BY <2>2, GotoType DEF Hangup, TypeOK
  <2> QED
    BY <2>1, <2>2
<1> QED
  BY <1>1, <1>2

\* When a helper ends, what is known of places is owed to nobody but the
\* launcher, which goes on to remove its key only after a deletion.
LEMMA HangupKeys ==
  ASSUME TypeOK, KeysSound, NEW s \in {"idle", "unmark"}, Hangup(s), ~Free,
         UNCHANGED client,
         \A n \in Names : reg[n].phase = "deleted" => reg'[n].phase = "deleted",
         s = "unmark" => reg'[helper.name].phase = "deleted"
  PROVE  KeysSound'
<1>1. helper'.at = "none" /\ NoHelper.name \in Names
  BY NoHelperType DEF Hangup
<1> SUFFICES ASSUME NEW p \in Procs, reg'[target'[p]].phase # "deleted"
             PROVE  /\ step'[p] = "keygen" => client[target'[p]] \in {"marked", "ready"}
                    /\ step'[p] = "call" => client[target'[p]] = "ready"
                    /\ step'[p] \notin {"unmark", "rmdir"}
  BY <1>1 DEF KeysSound
<1>2. CASE helper.caller = p
  <2>1. step'[p] = s /\ (s = "unmark" => target'[p] = helper.name)
    BY <1>2 DEF Hangup, Goto, TypeOK, KeysSound
  <2> QED
    BY <2>1
<1>3. CASE helper.caller # p
  <2>1. step'[p] = step[p] /\ target'[p] = target[p]
    BY <1>3 DEF Hangup, Goto, TypeOK, launcherVars
  <2> QED
    BY <2>1 DEF KeysSound, TypeOK
<1> QED
  BY <1>2, <1>3

\* Taking back a drop-in changes nothing but the drop-in.
LEMMA WithoutRule ==
  ASSUME NEW h \in [Names -> Accounts], NEW n \in Names, NEW g,
         g = [h EXCEPT ![n].rule = FALSE]
  PROVE  /\ g \in [Names -> Accounts]
         /\ \A m \in Names :
              /\ g[m].user = h[m].user /\ g[m].keys = h[m].keys
              /\ g[m].sudo = h[m].sudo /\ g[m].archive = h[m].archive
         /\ \A m \in Names \ {n} : g[m] = h[m]
<1>1. [h[n] EXCEPT !.rule = FALSE] \in Accounts
  OBVIOUS
<1>2. /\ \A m \in Names \ {n} : g[m] = h[m]
      /\ g[n] = [h[n] EXCEPT !.rule = FALSE]
  OBVIOUS
<1>3. g \in [Names -> Accounts]
  BY <1>1, <1>2
<1>4. /\ g[n].user = h[n].user /\ g[n].keys = h[n].keys
      /\ g[n].sudo = h[n].sudo /\ g[n].archive = h[n].archive
  BY <1>2
<1> QED
  BY <1>2, <1>3, <1>4

\* A helper that ends and changes nothing else, or only takes back a drop-in of
\* an account that is being configured, leaves the invariant in place.
LEMMA EndIInv ==
  ASSUME IInv, ~Free, Hangup("idle"), UNCHANGED <<reg, loaded, client>>,
         busy' \subseteq Ids, cut' \subseteq Names, faults' \in 0..MaxFaults,
         \/ UNCHANGED host
         \/ /\ At("reload")
            /\ host' = [host EXCEPT ![helper.name].rule = FALSE]
  PROVE  IInv'
<1>0. host' \in [Names -> Accounts]
  <2>1. CASE UNCHANGED host
    BY <2>1 DEF IInv, TypeOK
  <2>2. CASE host' = [host EXCEPT ![helper.name].rule = FALSE]
    BY <2>2, WithoutRule DEF IInv, TypeOK
  <2> QED
    BY <2>1, <2>2
<1>1. TypeOK'
  BY <1>0, HangupType DEF IInv, TypeOK
<1>2. AccountsSound' /\ NeverRecycled' /\ KeyIsKept'
  <2>1. \A n \in Names : /\ host'[n].user = host[n].user /\ host'[n].keys = host[n].keys
                         /\ host'[n].sudo = host[n].sudo
                         /\ host'[n].archive = host[n].archive
    <3>1. CASE UNCHANGED host
      BY <3>1
    <3>2. CASE host' = [host EXCEPT ![helper.name].rule = FALSE]
      BY <3>2, WithoutRule DEF IInv, TypeOK
    <3> QED
      BY <3>1, <3>2
  <2> QED
    BY <2>1 DEF IInv, AccountsSound, NeverRecycled, KeyIsKept
<1>3. RecordSound' /\ ResourcesSound'
  BY HangupType DEF IInv, RecordSound, ResourcesSound, Told, Had
<1>4. KeysSound'
  BY HangupKeys DEF IInv
<1>5. PhaseIsTrue'
  BY DEF IInv, TypeOK, PhaseIsTrue, RecordSound, Told
<1> QED
  BY <1>1, <1>2, <1>3, <1>4, <1>5 DEF IInv

\* A launcher that goes on keeps the invariant, if it touches only its own key
\* directory and takes away no key but that of a deleted account.
LEMMA GoingOn ==
  ASSUME IInv, NEW p \in Procs, NEW s \in Steps, Goto(p, s), step[p] # "wait",
         UNCHANGED <<reg, host, loaded, busy, cut, helper, faults>>,
         client' \in [Names -> {"none", "bare", "marked", "ready"}],
         \A n \in Names : reg[n].phase # "deleted" =>
           /\ client[n] = "ready" => client'[n] = "ready"
           /\ client[n] = "marked" => client'[n] \in {"marked", "ready"},
         \/ reg[target[p]].phase = "deleted"
         \/ /\ s = "keygen" => client'[target[p]] \in {"marked", "ready"}
            /\ s = "call" => client'[target[p]] = "ready"
            /\ s \notin {"unmark", "rmdir"}
  PROVE  IInv'
<1>1. TypeOK'
  BY GotoType DEF IInv, TypeOK
<1>2. AccountsSound' /\ RecordSound' /\ ResourcesSound' /\ NeverRecycled' /\ PhaseIsTrue'
  BY DEF IInv, AccountsSound, RecordSound, ResourcesSound, NeverRecycled, PhaseIsTrue
<1>3. KeyIsKept'
  BY DEF IInv, KeyIsKept
<1>4. /\ step'[p] = s /\ (s # "idle" => target'[p] = target[p])
      /\ \A q \in Procs \ {p} : step'[q] = step[q] /\ target'[q] = target[q]
  BY DEF Goto, IInv, TypeOK
<1>5. KeysSound'
  <2>1. At("create") => client'[helper.name] = "ready" \/ Record.phase = "deleted"
    BY DEF IInv, TypeOK, KeysSound
  <2>2. ~Free /\ helper.caller # NoProc =>
          step'[helper.caller] = "wait" /\ target'[helper.caller] = helper.name
    BY <1>4 DEF IInv, TypeOK, KeysSound
  <2>3. ASSUME NEW q \in Procs, reg[target'[q]].phase # "deleted"
        PROVE  /\ step'[q] = "keygen" => client'[target'[q]] \in {"marked", "ready"}
               /\ step'[q] = "call" => client'[target'[q]] = "ready"
               /\ step'[q] \notin {"unmark", "rmdir"}
    <3>1. CASE q = p
      BY <1>4, <2>3, <3>1
    <3>2. CASE q # p
      BY <1>4, <2>3, <3>2 DEF IInv, TypeOK, KeysSound
    <3> QED
      BY <3>1, <3>2
  <2> QED
    BY <2>1, <2>2, <2>3 DEF KeysSound
<1> QED
  BY <1>1, <1>2, <1>3, <1>5 DEF IInv

\* A helper that is called takes the place its request names.
LEMMA CalledIInv ==
  ASSUME IInv, NEW p \in Procs, NEW n \in Names, NEW b \in BOOLEAN, Free,
         NEW o \in {"create", "configure", "delete"}, Helper(p, o, n, b),
         step' = [step EXCEPT ![p] = "wait"], target' = [target EXCEPT ![p] = n],
         UNCHANGED <<reg, host, loaded, busy, client, cut, faults>>,
         o = "create" => client[n] = "ready" \/ reg[n].phase = "deleted"
  PROVE  IInv'
<1>1. /\ helper' = [at |-> o, name |-> n, purge |-> b, caller |-> p,
                    existed |-> FALSE, before |-> FALSE]
  BY DEF Helper, NoHelper
<1>2. TypeOK'
  BY <1>1 DEF IInv, TypeOK
<1>3. AccountsSound' /\ NeverRecycled' /\ PhaseIsTrue' /\ KeyIsKept'
  BY DEF IInv, AccountsSound, NeverRecycled, PhaseIsTrue, KeyIsKept
<1>4. RecordSound' /\ ResourcesSound'
  BY <1>1 DEF RecordSound, ResourcesSound, Told, Had
<1>5. KeysSound'
  BY <1>1 DEF IInv, TypeOK, KeysSound
<1> QED
  BY <1>2, <1>3, <1>4, <1>5 DEF IInv

\* A launcher's own steps: reading, making its directory, removing it.
LEMMA LauncherIInv ==
  ASSUME IInv, NEW p \in Procs, LauncherStep(p) PROVE IInv'
<1>1. CASE Check(p)
  BY <1>1, GoingOn DEF Check, IInv, TypeOK
<1>2. CASE Look(p)
  BY <1>2, GoingOn DEF Look, IInv, TypeOK
<1>3. CASE Mkdir(p)
  BY <1>3, GoingOn DEF Mkdir, IInv, TypeOK
<1>4. CASE Mark(p)
  BY <1>4, GoingOn DEF Mark, IInv, TypeOK
<1>5. CASE Keygen(p)
  BY <1>5, GoingOn DEF Keygen, IInv, TypeOK, KeysSound
<1>6. CASE Call(p)
  <2>1. TypeOK /\ UNCHANGED <<reg, host, loaded, busy, client, cut, faults>>
    BY <1>6 DEF Call, IInv
  <2>2. CASE Free /\ Helper(p, "create", target[p], FALSE) /\ Goto(p, "wait")
    <3>1. step' = [step EXCEPT ![p] = "wait"] /\ target' = [target EXCEPT ![p] = target[p]]
      BY <2>2 DEF Goto
    <3>2. client[target[p]] = "ready" \/ reg[target[p]].phase = "deleted"
      BY <1>6 DEF Call, IInv, KeysSound
    <3> QED
      BY <2>1, <2>2, <3>1, <3>2, CalledIInv DEF TypeOK
  <2>3. CASE Goto(p, "idle") /\ UNCHANGED helper
    BY <1>6, <2>1, <2>3, GoingOn DEF Call, TypeOK
  <2> QED
    BY <1>6, <2>2, <2>3 DEF Call
<1>7. CASE Unmark(p)
  <2>1. TypeOK /\ reg[target[p]].phase = "deleted"
    BY <1>7 DEF Unmark, IInv, KeysSound
  <2>2. \A n \in Names : reg[n].phase # "deleted" => client'[n] = client[n]
    BY <1>7, <2>1 DEF Unmark, TypeOK
  <2>3. client' \in [Names -> {"none", "bare", "marked", "ready"}]
    BY <1>7, <2>1 DEF Unmark, TypeOK
  <2>4. PICK s \in {"rmdir", "idle"} : Goto(p, s)
    BY <1>7 DEF Unmark
  <2>5. /\ UNCHANGED <<reg, host, loaded, busy, cut, helper, faults>>
        /\ step[p] = "unmark"
    BY <1>7 DEF Unmark
  <2> QED
    BY <2>1, <2>2, <2>3, <2>4, <2>5, GoingOn
<1>8. CASE Rmdir(p)
  BY <1>8, GoingOn DEF Rmdir, IInv, TypeOK, KeysSound
<1> QED
  BY <1>1, <1>2, <1>3, <1>4, <1>5, <1>6, <1>7, <1>8 DEF LauncherStep


\* What a change of resources and place makes of both.
LEMMA ChangedTo ==
  ASSUME TypeOK, NEW s, NEW t, NEW a, Change(s, t, a)
  PROVE  /\ helper.at = s /\ helper'.at = t
         /\ helper'.name = helper.name /\ helper'.purge = helper.purge
         /\ Account' = a /\ Record' = Record
         /\ UNCHANGED <<loaded, busy>>
BY DEF Change, Onto, TypeOK

\* A helper that changes the resources of its account and goes on keeps the
\* invariant if the new resources fit the record and the new place.
LEMMA ChangeIInv ==
  ASSUME IInv, NEW s \in Places \ {"none"}, NEW t \in Places \ {"none", "create"},
         NEW a \in Accounts, Change(s, t, a),
         Record.phase # "configured",
         Record.phase = "deleted" =>
           /\ a.home = "none" /\ ~a.rule /\ a.keys = "none" /\ ~a.sudo
           /\ a.user = 0 /\ a.group = 0 /\ ~a.archive,
         a.user \in {0, Record.uid}, a.keys = "key" => a.sudo,
         a.archive => Record.archive,
         Told(t, Record), Had(t, a),
         t \in {"record", "move"} => Record.uid \notin busy,
         t \in {"erase", "tombstone"} => helper.name \notin loaded,
         t = "tombstone" => ~a.archive \/ ~helper.purge
  PROVE  IInv'
<1>1. TypeOK'
  BY DEF Change, Onto, IInv, TypeOK, launcherVars
<1>2. /\ host' = [host EXCEPT ![helper.name] = a] /\ helper.name \in Names
      /\ UNCHANGED <<reg, loaded, busy, client, step, target>>
  BY DEF Change, Onto, IInv, TypeOK, launcherVars
<1>3. host'[helper.name] = a /\ \A n \in Names \ {helper.name} : host'[n] = host[n]
  BY <1>2 DEF IInv, TypeOK
<1>4. AccountsSound' /\ PhaseIsTrue'
  BY <1>2, <1>3 DEF IInv, AccountsSound, PhaseIsTrue
<1>5. NeverRecycled' /\ KeyIsKept'
  BY <1>2 DEF IInv, NeverRecycled, KeyIsKept
<1>6. KeysSound'
  BY <1>2 DEF Change, Onto, IInv, TypeOK, KeysSound
<1>7. RecordSound' /\ ResourcesSound'
  BY ChangedTo DEF IInv, RecordSound, ResourcesSound
<1> QED
  BY <1>1, <1>4, <1>5, <1>6, <1>7 DEF IInv

\* What an account that differs from another only in some of its resources has.
Alike(a, b, but) ==
  /\ "group" \in but \/ a.group = b.group
  /\ "user" \in but \/ a.user = b.user
  /\ "shell" \in but \/ a.shell = b.shell
  /\ "home" \in but \/ (a.home = b.home /\ a.built = b.built /\ a.archive = b.archive)
  /\ "sudo" \in but \/ a.sudo = b.sudo
  /\ "keys" \in but \/ a.keys = b.keys
  /\ "rule" \in but \/ a.rule = b.rule

\* The creation: a group, a user, a home of its own.
LEMMA CreationIInv ==
  ASSUME IInv, AddGroup \/ AddUser \/ MakeHome \/ ChownHome
  PROVE  IInv'
<1>0. /\ TypeOK /\ Account \in Accounts /\ Record \in Records
      /\ Told(helper.at, Record) /\ Had(helper.at, Account)
      /\ helper.at \in {"record", "move"} => Record.uid \notin busy
      /\ helper.at \in {"erase", "tombstone"} => helper.name \notin loaded
      /\ Account.user \in {0, Record.uid}
      /\ Account.keys = "key" => Account.sudo
      /\ Account.archive => Record.archive
  BY DEF IInv, TypeOK, AccountsSound, RecordSound, ResourcesSound
<1>1. CASE AddGroup
  <2>1. PICK a \in Accounts : /\ Change("group", "user", a)
                            /\ Alike(a, Account, {"group"})
                            /\ a.group = Record.uid
    <3> DEFINE a == [Account EXCEPT !.group = Record.uid]
    <3>1. a \in Accounts /\ Change("group", "user", a)
      BY <1>0, <1>1 DEF AddGroup
    <3>2. Alike(a, Account, {"group"}) /\ a.group = Record.uid
      BY <1>0 DEF Alike
    <3> QED
      BY <3>1, <3>2
  <2>2. At("group") /\ Record.phase = "creating"
    BY <1>0, <2>1 DEF Change, Told
  <2>3. Told("user", Record) /\ Had("user", a)
    BY <1>0, <2>1, <2>2 DEF Change, Told, Had, Alike
  <2> QED
    BY <1>0, <2>1, <2>2, <2>3, ChangeIInv DEF Alike
<1>2. CASE AddUser
  <2>1. PICK a \in Accounts : /\ Change("user", "mkdir", a)
                            /\ Alike(a, Account, {"user", "shell"})
                            /\ a.user = Record.uid
    <3> DEFINE a == [Account EXCEPT !.user = Record.uid,
                              !.shell = IF @ = "none" THEN "bash" ELSE @]
    <3>1. a \in Accounts /\ Change("user", "mkdir", a)
      BY <1>0, <1>2 DEF AddUser
    <3>2. Alike(a, Account, {"user", "shell"}) /\ a.user = Record.uid
      BY <1>0 DEF Alike
    <3> QED
      BY <3>1, <3>2
  <2>2. At("user") /\ Record.phase = "creating"
    BY <1>0, <2>1 DEF Change, Told
  <2>3. Told("mkdir", Record) /\ Had("mkdir", a)
    BY <1>0, <2>1, <2>2 DEF Change, Told, Had, Alike
  <2> QED
    BY <1>0, <2>1, <2>2, <2>3, ChangeIInv DEF Alike
<1>3. CASE MakeHome
  <2>1. PICK a \in Accounts : /\ Change("mkdir", IF Account.home = "none" THEN "chown" ELSE "identity", a)
                            /\ Alike(a, Account, {"home"})
                            /\ a.archive = Account.archive
    <3> DEFINE a == [Account EXCEPT !.home = IF @ = "none" THEN "root" ELSE @]
    <3>1. a \in Accounts /\ Change("mkdir", IF Account.home = "none" THEN "chown" ELSE "identity", a)
      BY <1>0, <1>3 DEF MakeHome
    <3>2. Alike(a, Account, {"home"}) /\ a.archive = Account.archive
      BY <1>0 DEF Alike
    <3> QED
      BY <3>1, <3>2
  <2>2. At("mkdir") /\ Record.phase = "creating"
    BY <1>0, <2>1 DEF Change, Told
  <2>3. Told(IF Account.home = "none" THEN "chown" ELSE "identity", Record) /\ Had(IF Account.home = "none" THEN "chown" ELSE "identity", a)
    BY <1>0, <2>1, <2>2 DEF Change, Told, Had, Alike
  <2> QED
    BY <1>0, <2>1, <2>2, <2>3, ChangeIInv DEF Alike
<1>4. CASE ChownHome
  <2>1. PICK a \in Accounts : /\ Change("chown", "identity", a)
                            /\ Alike(a, Account, {"home"})
                            /\ a.archive = Account.archive
    <3> DEFINE a == [Account EXCEPT !.home = "user"]
    <3>1. a \in Accounts /\ Change("chown", "identity", a)
      BY <1>0, <1>4 DEF ChownHome
    <3>2. Alike(a, Account, {"home"}) /\ a.archive = Account.archive
      BY <1>0 DEF Alike
    <3> QED
      BY <3>1, <3>2
  <2>2. At("chown") /\ Record.phase = "creating"
    BY <1>0, <2>1 DEF Change, Told
  <2>3. Told("identity", Record) /\ Had("identity", a)
    BY <1>0, <2>1, <2>2 DEF Change, Told, Had, Alike
  <2> QED
    BY <1>0, <2>1, <2>2, <2>3, ChangeIInv DEF Alike
<1> QED
  BY <1>1, <1>2, <1>3, <1>4

\* The configuration: sudo is denied before the key is there.
LEMMA ConfigurationIInv ==
  ASSUME IInv, Restrict \/ WriteKeys \/ SetupHome
  PROVE  IInv'
<1>0. /\ TypeOK /\ Account \in Accounts /\ Record \in Records
      /\ Told(helper.at, Record) /\ Had(helper.at, Account)
      /\ helper.at \in {"record", "move"} => Record.uid \notin busy
      /\ helper.at \in {"erase", "tombstone"} => helper.name \notin loaded
      /\ Account.user \in {0, Record.uid}
      /\ Account.keys = "key" => Account.sudo
      /\ Account.archive => Record.archive
  BY DEF IInv, TypeOK, AccountsSound, RecordSound, ResourcesSound
<1>1. CASE Restrict
  <2>1. PICK a \in Accounts : /\ Change("restrict", "keys", a)
                            /\ Alike(a, Account, {"shell", "sudo"})
                            /\ a.shell = "bash" /\ a.sudo
    <3> DEFINE a == [Account EXCEPT !.shell = "bash", !.sudo = TRUE]
    <3>1. a \in Accounts /\ Change("restrict", "keys", a)
      BY <1>0, <1>1 DEF Restrict
    <3>2. Alike(a, Account, {"shell", "sudo"}) /\ a.shell = "bash" /\ a.sudo
      BY <1>0 DEF Alike
    <3> QED
      BY <3>1, <3>2
  <2>2. At("restrict") /\ Record.phase = "configuring"
    BY <1>0, <2>1 DEF Change, Told
  <2>3. Told("keys", Record) /\ Had("keys", a)
    BY <1>0, <2>1, <2>2 DEF Change, Told, Had, Alike
  <2> QED
    BY <1>0, <2>1, <2>2, <2>3, ChangeIInv DEF Alike
<1>2. CASE WriteKeys
  <2>1. PICK a \in Accounts : /\ Change("keys", "rule", a)
                            /\ Alike(a, Account, {"keys"})
                            /\ a.keys = "key"
    <3> DEFINE a == [Account EXCEPT !.keys = "key"]
    <3>1. a \in Accounts /\ Change("keys", "rule", a)
      BY <1>0, <1>2 DEF WriteKeys
    <3>2. Alike(a, Account, {"keys"}) /\ a.keys = "key"
      BY <1>0 DEF Alike
    <3> QED
      BY <3>1, <3>2
  <2>2. At("keys") /\ Record.phase = "configuring"
    BY <1>0, <2>1 DEF Change, Told
  <2>3. Told("rule", Record) /\ Had("rule", a)
    BY <1>0, <2>1, <2>2 DEF Change, Told, Had, Alike
  <2> QED
    BY <1>0, <2>1, <2>2, <2>3, ChangeIInv DEF Alike, Had
<1>3. CASE SetupHome
  <2>1. PICK a \in Accounts : /\ Change("setup", "audit", a)
                            /\ Alike(a, Account, {"home"})
                            /\ a.built /\ a.archive = Account.archive
    <3> DEFINE a == [Account EXCEPT !.built = TRUE]
    <3>1. a \in Accounts /\ Change("setup", "audit", a)
      BY <1>0, <1>3 DEF SetupHome
    <3>2. Alike(a, Account, {"home"}) /\ a.built /\ a.archive = Account.archive
      BY <1>0 DEF Alike
    <3> QED
      BY <3>1, <3>2
  <2>2. At("setup") /\ Record.phase = "configuring"
    BY <1>0, <2>1 DEF Change, Told
  <2>3. Told("audit", Record) /\ Had("audit", a)
    BY <1>0, <2>1, <2>2 DEF Change, Told, Had, Alike
  <2> QED
    BY <1>0, <2>1, <2>2, <2>3, ChangeIInv DEF Alike
<1> QED
  BY <1>1, <1>2, <1>3

\* The deletion: what is closed or gone stays so until the end.
LEMMA DeletionIInv ==
  ASSUME IInv, Disable \/ Blank \/ Recheck \/ MoveHome \/ UserDel \/ GroupDel \/ RemoveKeys \/ RemoveRule \/ RemoveSudo \/ Erase
  PROVE  IInv'
<1>0. /\ TypeOK /\ Account \in Accounts /\ Record \in Records
      /\ Told(helper.at, Record) /\ Had(helper.at, Account)
      /\ helper.at \in {"record", "move"} => Record.uid \notin busy
      /\ helper.at \in {"erase", "tombstone"} => helper.name \notin loaded
      /\ Account.user \in {0, Record.uid}
      /\ Account.keys = "key" => Account.sudo
      /\ Account.archive => Record.archive
  BY DEF IInv, TypeOK, AccountsSound, RecordSound, ResourcesSound
<1>1. CASE Disable
  <2>1. PICK a \in Accounts : /\ Change("disable", "blank", a)
                            /\ Alike(a, Account, {"shell"})
                            /\ a.user = Account.user
    <3> DEFINE a == [Account EXCEPT !.shell = IF helper.existed THEN "nologin" ELSE @]
    <3>1. a \in Accounts /\ Change("disable", "blank", a)
      BY <1>0, <1>1 DEF Disable
    <3>2. Alike(a, Account, {"shell"}) /\ a.user = Account.user
      BY <1>0 DEF Alike
    <3> QED
      BY <3>1, <3>2
  <2>2. At("disable") /\ Record.phase = "deleting"
    BY <1>0, <2>1 DEF Change, Told
  <2>3. Told("blank", Record) /\ Had("blank", a)
    BY <1>0, <2>1, <2>2 DEF Change, Told, Had, Alike
  <2> QED
    BY <1>0, <2>1, <2>2, <2>3, ChangeIInv DEF Alike
<1>2. CASE Blank
  <2>1. PICK a \in Accounts : /\ Change("blank", "recheck", a)
                            /\ Alike(a, Account, {"keys"})
                            /\ a.keys # "key"
    <3> DEFINE a == [Account EXCEPT !.keys = IF @ = "none" THEN @ ELSE "blank"]
    <3>1. a \in Accounts /\ Change("blank", "recheck", a)
      BY <1>0, <1>2 DEF Blank
    <3>2. Alike(a, Account, {"keys"}) /\ a.keys # "key"
      BY <1>0 DEF Alike
    <3> QED
      BY <3>1, <3>2
  <2>2. At("blank") /\ Record.phase = "deleting"
    BY <1>0, <2>1 DEF Change, Told
  <2>3. Told("recheck", Record) /\ Had("recheck", a)
    BY <1>0, <2>1, <2>2 DEF Change, Told, Had, Alike
  <2> QED
    BY <1>0, <2>1, <2>2, <2>3, ChangeIInv DEF Alike
<1>3. CASE Recheck
  <2>1. PICK a \in Accounts : /\ Change("recheck", "record", a)
                            /\ Alike(a, Account, {})
                            /\ a = Account
    <3> DEFINE a == Account
    <3>1. a \in Accounts /\ Change("recheck", "record", a)
      BY <1>0, <1>3 DEF Recheck
    <3>2. Alike(a, Account, {}) /\ a = Account
      BY <1>0 DEF Alike
    <3> QED
      BY <3>1, <3>2
  <2>2. At("recheck") /\ Record.phase = "deleting"
    BY <1>0, <2>1 DEF Change, Told
  <2>3. Told("record", Record) /\ Had("record", a)
    BY <1>0, <2>1, <2>2 DEF Change, Told, Had, Alike
  <2> QED
    BY <1>0, <2>1, <2>2, <2>3, ChangeIInv DEF Alike, Change, Permitted
<1>4. CASE MoveHome
  <2>1. PICK a \in Accounts : /\ Change("move", "userdel", a)
                            /\ Alike(a, Account, {"home"})
                            /\ a.home = "none"
    <3> DEFINE a == IF Account.home = "none" THEN Account
                 ELSE [Account EXCEPT !.home = "none", !.built = FALSE, !.archive = TRUE]
    <3>1. a \in Accounts /\ Change("move", "userdel", a)
      BY <1>0, <1>4 DEF MoveHome
    <3>2. Alike(a, Account, {"home"}) /\ a.home = "none"
      BY <1>0 DEF Alike
    <3> QED
      BY <3>1, <3>2
  <2>2. At("move") /\ Record.phase = "deleting"
    BY <1>0, <2>1 DEF Change, Told
  <2>3. Told("userdel", Record) /\ Had("userdel", a)
    BY <1>0, <2>1, <2>2 DEF Change, Told, Had, Alike
  <2> QED
    BY <1>0, <2>1, <2>2, <2>3, ChangeIInv DEF Alike, Told
<1>5. CASE UserDel
  <2>1. PICK a \in Accounts : /\ Change("userdel", "groupdel", a)
                            /\ Alike(a, Account, {"user", "shell"})
                            /\ a.user = 0
    <3> DEFINE a == [Account EXCEPT !.user = 0, !.shell = "none"]
    <3>1. a \in Accounts /\ Change("userdel", "groupdel", a)
      BY <1>0, <1>5 DEF UserDel
    <3>2. Alike(a, Account, {"user", "shell"}) /\ a.user = 0
      BY <1>0 DEF Alike
    <3> QED
      BY <3>1, <3>2
  <2>2. At("userdel") /\ Record.phase = "deleting"
    BY <1>0, <2>1 DEF Change, Told
  <2>3. Told("groupdel", Record) /\ Had("groupdel", a)
    BY <1>0, <2>1, <2>2 DEF Change, Told, Had, Alike
  <2> QED
    BY <1>0, <2>1, <2>2, <2>3, ChangeIInv DEF Alike
<1>6. CASE GroupDel
  <2>1. PICK a \in Accounts : /\ Change("groupdel", "unkey", a)
                            /\ Alike(a, Account, {"group"})
                            /\ a.group = 0
    <3> DEFINE a == [Account EXCEPT !.group = 0]
    <3>1. a \in Accounts /\ Change("groupdel", "unkey", a)
      BY <1>0, <1>6 DEF GroupDel
    <3>2. Alike(a, Account, {"group"}) /\ a.group = 0
      BY <1>0 DEF Alike
    <3> QED
      BY <3>1, <3>2
  <2>2. At("groupdel") /\ Record.phase = "deleting"
    BY <1>0, <2>1 DEF Change, Told
  <2>3. Told("unkey", Record) /\ Had("unkey", a)
    BY <1>0, <2>1, <2>2 DEF Change, Told, Had, Alike
  <2> QED
    BY <1>0, <2>1, <2>2, <2>3, ChangeIInv DEF Alike
<1>7. CASE RemoveKeys
  <2>1. PICK a \in Accounts : /\ Change("unkey", "unrule", a)
                            /\ Alike(a, Account, {"keys"})
                            /\ a.keys = "none"
    <3> DEFINE a == [Account EXCEPT !.keys = "none"]
    <3>1. a \in Accounts /\ Change("unkey", "unrule", a)
      BY <1>0, <1>7 DEF RemoveKeys
    <3>2. Alike(a, Account, {"keys"}) /\ a.keys = "none"
      BY <1>0 DEF Alike
    <3> QED
      BY <3>1, <3>2
  <2>2. At("unkey") /\ Record.phase = "deleting"
    BY <1>0, <2>1 DEF Change, Told
  <2>3. Told("unrule", Record) /\ Had("unrule", a)
    BY <1>0, <2>1, <2>2 DEF Change, Told, Had, Alike
  <2> QED
    BY <1>0, <2>1, <2>2, <2>3, ChangeIInv DEF Alike
<1>8. CASE RemoveRule
  <2>1. PICK a \in Accounts : /\ Change("unrule", "unsudo", a)
                            /\ Alike(a, Account, {"rule"})
                            /\ ~a.rule
    <3> DEFINE a == [Account EXCEPT !.rule = FALSE]
    <3>1. a \in Accounts /\ Change("unrule", "unsudo", a)
      BY <1>0, <1>8 DEF RemoveRule
    <3>2. Alike(a, Account, {"rule"}) /\ ~a.rule
      BY <1>0 DEF Alike
    <3> QED
      BY <3>1, <3>2
  <2>2. At("unrule") /\ Record.phase = "deleting"
    BY <1>0, <2>1 DEF Change, Told
  <2>3. Told("unsudo", Record) /\ Had("unsudo", a)
    BY <1>0, <2>1, <2>2 DEF Change, Told, Had, Alike
  <2> QED
    BY <1>0, <2>1, <2>2, <2>3, ChangeIInv DEF Alike
<1>9. CASE RemoveSudo
  <2>1. PICK a \in Accounts : /\ Change("unsudo", "unload", a)
                            /\ Alike(a, Account, {"sudo"})
                            /\ ~a.sudo
    <3> DEFINE a == [Account EXCEPT !.sudo = FALSE]
    <3>1. a \in Accounts /\ Change("unsudo", "unload", a)
      BY <1>0, <1>9 DEF RemoveSudo
    <3>2. Alike(a, Account, {"sudo"}) /\ ~a.sudo
      BY <1>0 DEF Alike
    <3> QED
      BY <3>1, <3>2
  <2>2. At("unsudo") /\ Record.phase = "deleting"
    BY <1>0, <2>1 DEF Change, Told
  <2>3. Told("unload", Record) /\ Had("unload", a)
    BY <1>0, <2>1, <2>2 DEF Change, Told, Had, Alike
  <2> QED
    BY <1>0, <2>1, <2>2, <2>3, ChangeIInv DEF Alike, Had
<1>10. CASE Erase
  <2>1. PICK a \in Accounts : /\ Change("erase", "tombstone", a)
                            /\ Alike(a, Account, {"home"})
                            /\ a.home = Account.home /\ ~a.archive
    <3> DEFINE a == [Account EXCEPT !.archive = FALSE]
    <3>1. a \in Accounts /\ Change("erase", "tombstone", a)
      BY <1>0, <1>10 DEF Erase
    <3>2. Alike(a, Account, {"home"}) /\ a.home = Account.home /\ ~a.archive
      BY <1>0 DEF Alike
    <3> QED
      BY <3>1, <3>2
  <2>2. At("erase") /\ Record.phase = "deleting"
    BY <1>0, <2>1 DEF Change, Told
  <2>3. Told("tombstone", Record) /\ Had("tombstone", a)
    BY <1>0, <2>1, <2>2 DEF Change, Told, Had, Alike
  <2> QED
    BY <1>0, <2>1, <2>2, <2>3, ChangeIInv DEF Alike
<1> QED
  BY <1>1, <1>2, <1>3, <1>4, <1>5, <1>6, <1>7, <1>8, <1>9, <1>10

\* The helper's next place, with everything else of it as it is.
Moved(t) ==
  /\ ~Free
  /\ helper' \in Helpers /\ helper'.at = t
  /\ helper'.name = helper.name /\ helper'.purge = helper.purge
  /\ helper'.caller = helper.caller
  /\ UNCHANGED launcherVars

\* Going on to a place, with the launchers as they were, is moving there.
LEMMA OntoMoved == ASSUME TypeOK, ~Free, NEW t \in Places, Onto(t) PROVE Moved(t)
BY DEF TypeOK, Onto, Moved

\* A helper that goes on and changes nothing but what sshd has read.
LEMMA MovedIInv ==
  ASSUME IInv, NEW t \in Places \ {"none", "create", "record", "move"}, Moved(t),
         UNCHANGED <<reg, host, busy, client, faults>>,
         loaded' \subseteq Names, cut' \subseteq Names, PhaseIsTrue',
         Told(t, Record), Had(t, Account),
         t \in {"erase", "tombstone"} => helper.name \notin loaded',
         t = "tombstone" => ~Account.archive \/ ~helper.purge
  PROVE  IInv'
<1>1. TypeOK'
  BY DEF Moved, IInv, TypeOK, launcherVars
<1>2. AccountsSound' /\ NeverRecycled' /\ KeyIsKept'
  BY DEF IInv, AccountsSound, NeverRecycled, KeyIsKept
<1>3. KeysSound'
  BY DEF Moved, IInv, TypeOK, KeysSound, launcherVars
<1>4. RecordSound' /\ ResourcesSound'
  BY DEF Moved, RecordSound, ResourcesSound
<1> QED
  BY <1>1, <1>2, <1>3, <1>4 DEF IInv

\* A helper that saves its record and goes on.
LEMMA SavedIInv ==
  ASSUME IInv, NEW t \in Places \ {"none", "create", "erase", "tombstone"}, Moved(t),
         NEW r \in Records, reg' = [reg EXCEPT ![helper.name] = r],
         UNCHANGED <<host, loaded, busy, client, cut, faults>>,
         Record.phase \in Live, r.phase \in Live \ {"configured"},
         r.uid = Record.uid, Account.archive => r.archive,
         Told(t, r), Had(t, Account),
         t \in {"record", "move"} => r.uid \notin busy
  PROVE  IInv'
<1>1. helper.name \in Names /\ reg' \in [Names -> Records] /\ reg'[helper.name] = r
  BY DEF IInv, TypeOK
<1>2. \A n \in Names \ {helper.name} : reg'[n] = reg[n]
  BY DEF IInv, TypeOK
<1>3. TypeOK'
  BY <1>1 DEF Moved, IInv, TypeOK, launcherVars
<1>4. AccountsSound'
  BY <1>1, <1>2 DEF IInv, AccountsSound
<1>5. NeverRecycled'
  <2>1. \A n \in Names : reg'[n].uid = reg[n].uid
    BY <1>1, <1>2
  <2> QED
    BY <2>1 DEF IInv, NeverRecycled
<1>6. KeyIsKept'
  BY <1>1, <1>2 DEF IInv, KeyIsKept
<1>7. KeysSound'
  <2>1. \A n \in Names : reg[n].phase = "deleted" <=> reg'[n].phase = "deleted"
    BY <1>1, <1>2
  <2> QED
    BY <1>1, <2>1 DEF Moved, IInv, TypeOK, KeysSound, launcherVars
<1>8. PhaseIsTrue'
  BY <1>1, <1>2 DEF IInv, PhaseIsTrue
<1>9. RecordSound' /\ ResourcesSound'
  BY <1>1 DEF Moved, RecordSound, ResourcesSound
<1> QED
  BY <1>3, <1>4, <1>5, <1>6, <1>7, <1>8, <1>9 DEF IInv

\* A helper that saves its record and ends, with success.
LEMMA DoneIInv ==
  ASSUME IInv, ~Free, NEW s \in {"idle", "unmark"}, Hangup(s),
         NEW r \in Records, reg' = [reg EXCEPT ![helper.name] = r],
         UNCHANGED <<host, loaded, busy, client, cut, faults>>,
         \/ Record.phase \in Live /\ r.phase = "configured" /\ s = "idle"
         \/ Record.phase \in Live \cup {"deleted"} /\ r.phase = "deleted",
         r.uid = Record.uid, Account.archive => r.archive,
         r.phase = "configured" =>
           /\ Account.user = r.uid /\ Account.group = r.uid
           /\ Account.shell = "bash" /\ Account.home = "user" /\ Account.built
           /\ Account.sudo /\ Account.keys = "key" /\ Account.rule,
         r.phase = "deleted" => Gone(helper.name) /\ helper.name \notin loaded
  PROVE  IInv'
<1>1. helper.name \in Names /\ reg' \in [Names -> Records] /\ reg'[helper.name] = r
  BY DEF IInv, TypeOK
<1>2. \A n \in Names \ {helper.name} : reg'[n] = reg[n]
  BY DEF IInv, TypeOK
<1>3. TypeOK'
  BY <1>1, HangupType DEF IInv, TypeOK
<1>4. AccountsSound'
  BY <1>1, <1>2 DEF IInv, AccountsSound
<1>5. NeverRecycled'
  <2>1. \A n \in Names : reg'[n].uid = reg[n].uid
    BY <1>1, <1>2
  <2> QED
    BY <2>1 DEF IInv, NeverRecycled
<1>6. KeyIsKept'
  BY <1>1, <1>2 DEF IInv, KeyIsKept
<1>7. KeysSound'
  BY <1>1, <1>2, HangupKeys DEF IInv
<1>8. PhaseIsTrue'
  BY <1>1, <1>2 DEF IInv, PhaseIsTrue
<1>9. RecordSound' /\ ResourcesSound'
  BY HangupType DEF IInv, RecordSound, ResourcesSound, Told, Had
<1> QED
  BY <1>3, <1>4, <1>5, <1>6, <1>7, <1>8, <1>9 DEF IInv

\* The first save: the least identifier that is in no account and no record.
LEMMA ReserveIInv == ASSUME IInv, Reserve PROVE IInv'
<1>1. Fresh(helper.name) /\ helper.name \in Names /\ At("create")
  BY DEF Reserve, Permitted, IInv, TypeOK
<1>2. PICK i \in Ids \ Used :
        reg' = [reg EXCEPT ![helper.name] =
                  [phase |-> "creating", uid |-> i, archive |-> FALSE]]
  BY DEF Reserve
<1>3. /\ Moved("group") /\ UNCHANGED <<host, loaded, busy, client, cut, faults>>
  BY OntoMoved DEF Reserve, IInv
<1>4. /\ reg'[helper.name] = [phase |-> "creating", uid |-> i, archive |-> FALSE]
      /\ \A n \in Names \ {helper.name} : reg'[n] = reg[n]
      /\ reg' \in [Names -> Records]
  BY <1>1, <1>2 DEF IInv, TypeOK
<1>5. TypeOK'
  BY <1>3, <1>4 DEF Moved, IInv, TypeOK, launcherVars
<1>6. ~Account.archive
  BY <1>1 DEF IInv, AccountsSound
<1>7. AccountsSound'
  BY <1>1, <1>3, <1>4, <1>6 DEF IInv, AccountsSound
<1>8. NeverRecycled'
  <2>1. \A m \in Names : reg[m].uid # i
    BY <1>2 DEF Used
  <2> QED
    BY <1>1, <1>4, <2>1 DEF IInv, NeverRecycled
<1>9. client[helper.name] = "ready"
  BY <1>1 DEF IInv, KeysSound
<1>10. KeyIsKept'
  BY <1>3, <1>4, <1>9 DEF IInv, KeyIsKept
<1>11. KeysSound'
  <2>1. \A n \in Names : reg[n].phase = "deleted" => reg'[n].phase = "deleted"
    BY <1>1, <1>4
  <2> QED
    BY <1>3, <2>1 DEF Moved, IInv, TypeOK, KeysSound, launcherVars
<1>12. PhaseIsTrue'
  BY <1>3, <1>4 DEF IInv, PhaseIsTrue
<1>13. RecordSound' /\ ResourcesSound'
  BY <1>3, <1>4 DEF Moved, RecordSound, ResourcesSound, Told, Had
<1> QED
  BY <1>5, <1>7, <1>8, <1>10, <1>11, <1>12, <1>13 DEF IInv

\* The other places where the helper of create or configure only goes on.
LEMMA OnwardIInv == ASSUME IInv, Configure \/ WriteRule \/ Reload PROVE IInv'
<1>0. /\ TypeOK /\ AccountsSound /\ PhaseIsTrue /\ helper.name \in Names
      /\ Told(helper.at, Record) /\ Had(helper.at, Account)
  BY DEF IInv, TypeOK, RecordSound, ResourcesSound
<1>1. CASE Configure
  <2> DEFINE t == IF Record.phase = "creating" THEN "group" ELSE "identity"
  <2>1. Moved(t)
    BY <1>0, <1>1, OntoMoved DEF Configure
  <2>2. Told(t, Record) /\ Had(t, Account)
    BY <1>0, <1>1 DEF Configure, Permitted, Told, Had
  <2>3. PhaseIsTrue' /\ UNCHANGED <<reg, host, loaded, busy, client, cut, faults>>
    BY <1>0, <1>1 DEF Configure, PhaseIsTrue
  <2> QED
    BY <1>0, <2>1, <2>2, <2>3, MovedIInv DEF TypeOK
<1>2. CASE WriteRule
  <2>0. Account \in Accounts
    BY <1>0 DEF TypeOK
  <2>1. PICK a \in Accounts : /\ a = [Account EXCEPT !.rule = TRUE]
                            /\ Alike(a, Account, {"rule"})
    <3> DEFINE a == [Account EXCEPT !.rule = TRUE]
    <3>1. a \in Accounts /\ Alike(a, Account, {"rule"})
      BY <2>0 DEF Alike
    <3> QED
      BY <3>1
  <2>2. host' = [host EXCEPT ![helper.name] = a]
    BY <1>2, <2>1 DEF WriteRule
  <2>3. host'[helper.name] = a /\ \A n \in Names \ {helper.name} : host'[n] = host[n]
    BY <1>0, <2>2 DEF TypeOK
  <2>4. At("rule") /\ Moved("reload")
    BY <1>0, <1>2 DEF WriteRule, Moved, TypeOK
  <2>5. UNCHANGED <<reg, loaded, busy, client, cut, faults>>
    BY <1>2 DEF WriteRule
  <2>6. TypeOK'
    BY <1>0, <2>2, <2>4, <2>5 DEF Moved, TypeOK, launcherVars
  <2>7. AccountsSound' /\ PhaseIsTrue'
    BY <1>0, <2>1, <2>3, <2>4, <2>5 DEF AccountsSound, PhaseIsTrue, Told, Alike
  <2>8. NeverRecycled' /\ KeyIsKept'
    BY <2>5 DEF IInv, NeverRecycled, KeyIsKept
  <2>9. KeysSound'
    BY <2>4, <2>5 DEF Moved, IInv, TypeOK, KeysSound, launcherVars
  <2>10. RecordSound' /\ ResourcesSound'
    BY <1>0, <2>1, <2>3, <2>4, <2>5
       DEF Moved, RecordSound, ResourcesSound, Told, Had, Alike
  <2> QED
    BY <2>6, <2>7, <2>8, <2>9, <2>10 DEF IInv
<1>3. CASE Reload
  <2>1. At("reload") /\ Moved("setup")
    BY <1>0, <1>3, OntoMoved DEF Reload
  <2>2. Told("setup", Record) /\ Had("setup", Account)
    BY <1>0, <2>1 DEF Told, Had
  <2>3. /\ loaded' \in {loaded, Rules} /\ cut' \subseteq cut
        /\ UNCHANGED <<reg, host, busy, client, faults>>
    BY <1>3 DEF Reload
  <2>4. PhaseIsTrue' /\ loaded' \subseteq Names /\ cut' \subseteq Names
    BY <1>0, <2>3 DEF PhaseIsTrue, Rules, TypeOK
  <2> QED
    BY <2>1, <2>2, <2>3, <2>4, MovedIInv
<1> QED
  BY <1>1, <1>2, <1>3

\* The phase of a record is saved before the account is changed.
LEMMA SaveIInv == ASSUME IInv, Identify \/ Delete \/ RecordArchive PROVE IInv'
<1>0. /\ TypeOK /\ AccountsSound /\ helper.name \in Names /\ reg \in [Names -> Records]
      /\ Told(helper.at, Record) /\ Had(helper.at, Account)
      /\ Account.archive => Record.archive
      /\ helper.at \in {"record", "move"} => Record.uid \notin busy
  BY DEF IInv, TypeOK, AccountsSound, RecordSound, ResourcesSound
<1>1. CASE Identify
  <2>1. At("identity") /\ Moved("restrict")
        /\ UNCHANGED <<host, loaded, busy, client, cut, faults>>
    BY <1>0, <1>1, OntoMoved DEF Identify
  <2>2. PICK r \in Records : /\ reg' = [reg EXCEPT ![helper.name] = r]
                             /\ r.phase = "configuring" /\ r.uid = Record.uid
                             /\ r.archive = Record.archive
    <3> DEFINE r == [Record EXCEPT !.phase = "configuring"]
    <3>1. reg' = [reg EXCEPT ![helper.name] = r]
      BY <1>1 DEF Identify, Save
    <3>2. r \in Records /\ r.phase = "configuring" /\ r.uid = Record.uid
          /\ r.archive = Record.archive
      BY <1>0
    <3> QED
      BY <1>0, <3>1, <3>2
  <2>3. Told("restrict", r) /\ Had("restrict", Account) /\ Record.phase \in Live
    BY <1>0, <2>1, <2>2 DEF Told, Had
  <2> QED
    BY <1>0, <2>1, <2>2, <2>3, SavedIInv
<1>2. CASE Delete
  <2>1. At("delete") /\ Moved("disable")
        /\ UNCHANGED <<host, loaded, busy, client, cut, faults>>
    BY <1>0, <1>2 DEF Delete, Moved, TypeOK
  <2>2. PICK r \in Records : /\ reg' = [reg EXCEPT ![helper.name] = r]
                             /\ r.phase = "deleting" /\ r.uid = Record.uid
                             /\ r.archive = Record.archive
    <3> DEFINE r == [Record EXCEPT !.phase = "deleting"]
    <3>1. reg' = [reg EXCEPT ![helper.name] = r]
      BY <1>2 DEF Delete, Save
    <3>2. r \in Records /\ r.phase = "deleting" /\ r.uid = Record.uid
          /\ r.archive = Record.archive
      BY <1>0
    <3> QED
      BY <1>0, <3>1, <3>2
  <2>3. Told("disable", r) /\ Had("disable", Account) /\ Record.phase \in Live
    BY <1>0, <1>2, <2>2 DEF Delete, Permitted, Told, Had
  <2> QED
    BY <1>0, <2>1, <2>2, <2>3, SavedIInv
<1>3. CASE RecordArchive
  <2>1. At("record") /\ Moved("move")
        /\ UNCHANGED <<host, loaded, busy, client, cut, faults>>
    BY <1>0, <1>3, OntoMoved DEF RecordArchive
  <2>2. PICK r \in Records : /\ reg' = [reg EXCEPT ![helper.name] = r]
                             /\ r.phase = Record.phase /\ r.uid = Record.uid
                             /\ r.archive = TRUE
    <3> DEFINE r == [Record EXCEPT !.archive = TRUE]
    <3>1. reg' = [reg EXCEPT ![helper.name] = r]
      BY <1>3 DEF RecordArchive
    <3>2. r \in Records /\ r.phase = Record.phase /\ r.uid = Record.uid
          /\ r.archive = TRUE
      BY <1>0
    <3> QED
      BY <1>0, <3>1, <3>2
  <2>3. Record.phase = "deleting"
    BY <1>0, <2>1 DEF Told
  <2>4. Told("move", r) /\ Had("move", Account)
    BY <1>0, <2>1, <2>2, <2>3 DEF Told, Had
  <2> QED
    BY <1>0, <2>1, <2>2, <2>3, <2>4, SavedIInv
<1> QED
  BY <1>1, <1>2, <1>3

\* The last steps of a call: the phase that is saved is true.
LEMMA DoneStepIInv ==
  ASSUME IInv, Audit \/ Tombstone \/ DeleteAgain \/ Forget PROVE IInv'
<1>0. /\ TypeOK /\ AccountsSound /\ helper.name \in Names /\ reg \in [Names -> Records]
      /\ Told(helper.at, Record) /\ Had(helper.at, Account)
      /\ Account.archive => Record.archive
      /\ helper.at \in {"erase", "tombstone"} => helper.name \notin loaded
      /\ At("tombstone") /\ helper.purge => ~Account.archive
      /\ Record.phase = "deleted" => Gone(helper.name) /\ helper.name \notin loaded
  BY DEF IInv, TypeOK, AccountsSound, RecordSound, ResourcesSound, PhaseIsTrue
<1>1. CASE Audit
  <2>1. PICK r \in Records : /\ reg' = [reg EXCEPT ![helper.name] = r]
                             /\ r.phase = "configured" /\ r.uid = Record.uid
                             /\ r.archive = Record.archive
    <3> DEFINE r == [Record EXCEPT !.phase = "configured"]
    <3>1. reg' = [reg EXCEPT ![helper.name] = r]
      BY <1>1 DEF Audit, Save
    <3>2. r \in Records /\ r.phase = "configured" /\ r.uid = Record.uid
          /\ r.archive = Record.archive
      BY <1>0
    <3> QED
      BY <1>0, <3>1, <3>2
  <2>2. /\ Hangup("idle") /\ At("audit") /\ Identified /\ Filed(helper.name)
        /\ UNCHANGED <<host, loaded, busy, client, cut, faults>>
    BY <1>1 DEF Audit, Permitted
  <2>3. Record.phase = "configuring" /\ Account.shell = "bash" /\ Account.built
    BY <1>0, <2>2 DEF Told, Had
  <2> QED
    BY <1>0, <2>1, <2>2, <2>3, DoneIInv
<1>2. CASE Tombstone
  <2>1. PICK r \in Records : /\ reg' = [reg EXCEPT ![helper.name] = r]
                             /\ r.phase = "deleted" /\ r.uid = Record.uid
                             /\ r.archive = (Record.archive /\ ~helper.purge)
    <3> DEFINE r == [Record EXCEPT !.phase = "deleted", !.archive = @ /\ ~helper.purge]
    <3>1. reg' = [reg EXCEPT ![helper.name] = r]
      BY <1>0, <1>2 DEF Tombstone
    <3>2. r \in Records /\ r.phase = "deleted" /\ r.uid = Record.uid
          /\ r.archive = (Record.archive /\ ~helper.purge)
      BY <1>0
    <3> QED
      BY <1>0, <3>1, <3>2
  <2>2. /\ Hangup("unmark") /\ At("tombstone")
        /\ UNCHANGED <<host, loaded, busy, client, cut, faults>>
    BY <1>2 DEF Tombstone
  <2>3. Record.phase = "deleting" /\ Gone(helper.name) /\ helper.name \notin loaded
    BY <1>0, <2>2 DEF Told, Had
  <2> QED
    BY <1>0, <2>1, <2>2, <2>3, DoneIInv
<1>3. CASE DeleteAgain
  <2>1. CASE helper.purge /\ Record.archive
    <3>1. Moved("purge") /\ UNCHANGED <<reg, host, loaded, busy, client, cut, faults>>
      BY <1>0, <1>3, <2>1, OntoMoved DEF DeleteAgain
    <3>2. Told("purge", Record) /\ Had("purge", Account) /\ PhaseIsTrue'
      BY <1>3, <3>1 DEF DeleteAgain, Told, Had, IInv, PhaseIsTrue
    <3> QED
      BY <1>0, <3>1, <3>2, MovedIInv DEF TypeOK
  <2>2. CASE ~(helper.purge /\ Record.archive)
    <3>1. /\ Hangup("unmark") /\ At("delete") /\ Record.phase = "deleted"
          /\ UNCHANGED <<reg, host, loaded, busy, client, cut, faults>>
      BY <1>3, <2>2 DEF DeleteAgain
    <3>2. reg' = [reg EXCEPT ![helper.name] = Record] /\ Record \in Records
      BY <1>0, <3>1
    <3> QED
      BY <1>0, <3>1, <3>2, DoneIInv
  <2> QED
    BY <2>1, <2>2
<1>4. CASE Forget
  <2>1. PICK r \in Records : /\ reg' = [reg EXCEPT ![helper.name] = r]
                             /\ r.phase = Record.phase /\ r.uid = Record.uid
    <3> DEFINE r == [Record EXCEPT !.archive = FALSE]
    <3>1. reg' = [reg EXCEPT ![helper.name] = r]
      BY <1>4 DEF Forget
    <3>2. r \in Records /\ r.phase = Record.phase /\ r.uid = Record.uid
      BY <1>0
    <3> QED
      BY <1>0, <3>1, <3>2
  <2>2. /\ Hangup("unmark") /\ At("forget")
        /\ UNCHANGED <<host, loaded, busy, client, cut, faults>>
    BY <1>4 DEF Forget
  <2>3. Record.phase = "deleted" /\ ~Account.archive
    BY <1>0, <2>2 DEF Told, Had
  <2> QED
    BY <1>0, <2>1, <2>2, <2>3, DoneIInv
<1> QED
  BY <1>1, <1>2, <1>3, <1>4

\* The other steps of delete.
LEMMA LastIInv == ASSUME IInv, Unload \/ Purge PROVE IInv'
<1>0. /\ TypeOK /\ AccountsSound /\ PhaseIsTrue /\ helper.name \in Names
      /\ Account \in Accounts /\ Record \in Records
      /\ Told(helper.at, Record) /\ Had(helper.at, Account)
  BY DEF IInv, TypeOK, RecordSound, ResourcesSound
<1>1. CASE Unload
  <2> DEFINE t == IF helper.purge THEN "erase" ELSE "tombstone"
  <2>1. At("unload") /\ Moved(t)
    BY <1>0, <1>1, OntoMoved DEF Unload
  <2>2. Told(t, Record) /\ Had(t, Account) /\ ~Account.rule
    BY <1>0, <2>1 DEF Told, Had
  <2>3. /\ loaded' = Rules /\ cut' \subseteq cut
        /\ UNCHANGED <<reg, host, busy, client, faults>>
    BY <1>1 DEF Unload
  <2>4. PhaseIsTrue' /\ loaded' \subseteq Names /\ cut' \subseteq Names
        /\ helper.name \notin loaded'
    BY <1>0, <2>2, <2>3 DEF PhaseIsTrue, Rules, TypeOK
  <2> QED
    BY <2>1, <2>2, <2>3, <2>4, MovedIInv
<1>2. CASE Purge
  <2>1. PICK a \in Accounts : /\ Change("purge", "forget", a)
                            /\ Alike(a, Account, {"home"})
                            /\ a.home = Account.home /\ ~a.archive
    <3> DEFINE a == [Account EXCEPT !.archive = FALSE]
    <3>1. a \in Accounts /\ Change("purge", "forget", a)
      BY <1>0, <1>2 DEF Purge
    <3>2. Alike(a, Account, {"home"}) /\ a.home = Account.home /\ ~a.archive
      BY <1>0 DEF Alike
    <3> QED
      BY <3>1, <3>2
  <2>2. At("purge") /\ Record.phase = "deleted"
    BY <1>0, <2>1 DEF Change, Told
  <2>3. Told("forget", Record) /\ Had("forget", a) /\ Gone(helper.name)
        /\ Account.user = 0
    BY <1>0, <2>1, <2>2 DEF Told, Had, Alike, PhaseIsTrue
  <2> QED
    BY <1>0, <2>1, <2>2, <2>3, ChangeIInv DEF Alike
<1> QED
  BY <1>1, <1>2

\* Errors and deaths.
LEMMA FaultIInv == ASSUME IInv, Refuse \/ HelperFails \/ HelperDies PROVE IInv'
<1>0. /\ TypeOK /\ helper.name \in Names /\ host \in [Names -> Accounts]
      /\ Account \in Accounts
  BY DEF IInv, TypeOK
<1>1. ASSUME Leftover PROVE busy' \subseteq Ids
  <2>1. At("setup") => Record.uid \in Ids
    BY DEF IInv, TypeOK, AccountsSound, RecordSound, Told
  <2>2. busy \subseteq Ids
    BY <1>0 DEF TypeOK
  <2>3. busy' = busy \/ (At("setup") /\ busy' = busy \cup {Record.uid})
    BY <1>1 DEF Leftover
  <2> QED
    BY <2>1, <2>2, <2>3
<1>2. ASSUME Fault PROVE faults' \in 0..MaxFaults
  BY <1>0, <1>2 DEF Fault, TypeOK
<1>3. CASE Refuse
  BY <1>0, <1>3, EndIInv DEF Refuse, TypeOK
<1>4. CASE HelperFails
  <2>1. \/ UNCHANGED host
        \/ At("reload") /\ host' = [host EXCEPT ![helper.name].rule = FALSE]
    <3>1. host' = [host EXCEPT ![helper.name] =
                     [Account EXCEPT !.rule = @ /\ (At("reload") => helper.before)]]
      BY <1>4 DEF HelperFails
    <3>2. CASE At("reload") /\ ~helper.before
      <4>1. [Account EXCEPT !.rule = @ /\ (At("reload") => helper.before)]
              = [Account EXCEPT !.rule = FALSE]
        BY <1>0, <3>2
      <4> QED
        BY <3>1, <3>2, <4>1
    <3>3. CASE ~(At("reload") /\ ~helper.before)
      <4>1. [Account EXCEPT !.rule = @ /\ (At("reload") => helper.before)] = Account
        BY <1>0, <3>3
      <4> QED
        BY <1>0, <3>1, <4>1
    <3> QED
      BY <3>2, <3>3
  <2>2. /\ ~Free /\ Hangup("idle") /\ UNCHANGED <<reg, loaded, client, cut>>
        /\ Leftover /\ Fault
    BY <1>4 DEF HelperFails
  <2> QED
    BY <1>0, <1>1, <1>2, <2>1, <2>2, EndIInv DEF TypeOK
<1>5. CASE HelperDies
  <2>1. cut' \subseteq Names
    BY <1>0, <1>5 DEF HelperDies, TypeOK
  <2>2. /\ ~Free /\ Hangup("idle") /\ UNCHANGED <<reg, host, loaded, client>>
        /\ Leftover /\ Fault
    BY <1>5 DEF HelperDies
  <2> QED
    BY <1>1, <1>2, <2>1, <2>2, EndIInv
<1> QED
  BY <1>3, <1>4, <1>5

\* The operator's and the sessions' steps.
LEMMA BeginIInv ==
  ASSUME IInv, NEW p \in Procs, NEW n \in Serves[p],
         \/ BeginCreate(p, n)
         \/ \E o \in {"configure", "delete"}, b \in BOOLEAN : Begin(p, o, n, b)
  PROVE  IInv'
<1>0. n \in Names
  OBVIOUS
<1>1. CASE BeginCreate(p, n)
  <2>1. /\ step' = [step EXCEPT ![p] = "check"] /\ target' = [target EXCEPT ![p] = n]
        /\ step[p] = "idle"
        /\ UNCHANGED <<reg, host, loaded, busy, client, helper, cut, faults>>
    BY <1>1 DEF BeginCreate
  <2>2. TypeOK'
    BY <1>0, <2>1 DEF IInv, TypeOK
  <2>3. /\ AccountsSound' /\ RecordSound' /\ ResourcesSound' /\ NeverRecycled'
        /\ KeyIsKept' /\ PhaseIsTrue'
    BY <2>1 DEF IInv, AccountsSound, RecordSound, ResourcesSound, NeverRecycled,
       KeyIsKept, PhaseIsTrue
  <2>4. KeysSound'
    BY <2>1 DEF IInv, TypeOK, KeysSound
  <2> QED
    BY <2>2, <2>3, <2>4 DEF IInv
<1>2. ASSUME NEW o \in {"configure", "delete"}, NEW b \in BOOLEAN, Begin(p, o, n, b)
      PROVE  IInv'
  BY <1>0, <1>2, CalledIInv DEF Begin
<1> QED
  BY <1>1, <1>2

\* The end of a launcher.
LEMMA StopsIInv == ASSUME IInv, NEW p \in Procs, LauncherStops(p) PROVE IInv'
<1>1. Goto(p, "idle") /\ UNCHANGED <<reg, host, loaded, busy, client, cut>>
  BY DEF LauncherStops
<1>2. /\ step'[p] = "idle"
      /\ \A q \in Procs \ {p} : step'[q] = step[q] /\ target'[q] = target[q]
  BY <1>1 DEF Goto, IInv, TypeOK
<1>3. /\ helper' \in Helpers /\ helper'.at = helper.at /\ helper'.name = helper.name
      /\ helper'.purge = helper.purge
      /\ helper'.caller \in {helper.caller, NoProc} \ {p}
  BY DEF LauncherStops, IInv, TypeOK
<1>4. TypeOK'
  BY <1>1, <1>3, GotoType DEF LauncherStops, Fault, IInv, TypeOK
<1>5. /\ AccountsSound' /\ RecordSound' /\ ResourcesSound' /\ NeverRecycled'
      /\ KeyIsKept' /\ PhaseIsTrue'
  BY <1>1, <1>3 DEF IInv, AccountsSound, RecordSound, ResourcesSound, NeverRecycled,
     KeyIsKept, PhaseIsTrue
<1>6. KeysSound'
  <2>1. ~Free' /\ helper'.caller # NoProc =>
          step'[helper'.caller] = "wait" /\ target'[helper'.caller] = helper'.name
    BY <1>2, <1>3 DEF IInv, TypeOK, KeysSound
  <2>2. helper'.at = "create" =>
          client[helper'.name] = "ready" \/ reg[helper'.name].phase = "deleted"
    BY <1>3 DEF IInv, KeysSound
  <2>3. ASSUME NEW q \in Procs, reg[target'[q]].phase # "deleted"
        PROVE  /\ step'[q] = "keygen" => client[target'[q]] \in {"marked", "ready"}
               /\ step'[q] = "call" => client[target'[q]] = "ready"
               /\ step'[q] \notin {"unmark", "rmdir"}
    <3>1. CASE q = p
      BY <1>2, <3>1
    <3>2. CASE q # p
      BY <1>2, <2>3, <3>2 DEF IInv, KeysSound
    <3> QED
      BY <3>1, <3>2
  <2> QED
    BY <1>1, <2>1, <2>2, <2>3 DEF KeysSound
<1> QED
  BY <1>4, <1>5, <1>6 DEF IInv

\* The operator moves an archive aside.
LEMMA MoveAsideIInv == ASSUME IInv, NEW n \in Names, MoveAside(n) PROVE IInv'
<1>1. /\ UNCHANGED <<reg, host, loaded, busy, step, target, helper, cut, faults>>
      /\ client' = [client EXCEPT ![n] = "none"]
      /\ reg[n].phase = "none" /\ (~Free => helper.name # n)
      /\ \A p \in Procs : step[p] # "idle" => target[p] # n
  BY DEF MoveAside, launcherVars
<1>2. TypeOK'
  BY <1>1 DEF IInv, TypeOK
<1>3. AccountsSound' /\ RecordSound' /\ ResourcesSound' /\ NeverRecycled' /\ PhaseIsTrue'
  BY <1>1 DEF IInv, AccountsSound, RecordSound, ResourcesSound, NeverRecycled, PhaseIsTrue
<1>4. \A m \in Names \ {n} : client'[m] = client[m]
  BY <1>1 DEF IInv, TypeOK
<1>5. KeyIsKept'
  BY <1>1, <1>4 DEF IInv, KeyIsKept
<1>6. KeysSound'
  BY <1>1, <1>4 DEF IInv, TypeOK, KeysSound
<1> QED
  BY <1>2, <1>3, <1>5, <1>6 DEF IInv

\* A session begins with an identifier that is the account's, and nobody else's.
LEMMA SessionIInv ==
  ASSUME IInv, \/ \E n \in Names : Login(n)
               \/ \E i \in Ids : Logout(i)
  PROVE  IInv'
<1>1. UNCHANGED <<reg, host, loaded, client, step, target, helper, cut, faults>>
  BY DEF Login, Logout, launcherVars
<1>2. /\ busy' \subseteq Ids
      /\ helper.at \in {"record", "move"} => Record.uid \notin busy'
  <2>1. CASE \E i \in Ids : Logout(i)
    BY <2>1 DEF Logout, IInv, TypeOK, ResourcesSound
  <2>2. ASSUME NEW n \in Names, Login(n)
        PROVE  /\ busy' \subseteq Ids
               /\ helper.at \in {"record", "move"} => Record.uid \notin busy'
    <3>1. /\ busy' = busy \cup {host[n].user} /\ host[n].user # 0
          /\ host[n].keys = "key" /\ host[n] \in Accounts
      BY <2>2 DEF Login, Open, IInv, TypeOK
    <3>2. host[n].user = reg[n].uid
      BY <3>1 DEF IInv, AccountsSound
    <3>3. ASSUME helper.at \in {"record", "move"} PROVE Record.uid # host[n].user
      <4>1. helper.name # n /\ helper.name \in Names
        BY <3>1, <3>3 DEF IInv, TypeOK, ResourcesSound, Had
      <4> QED
        BY <3>1, <3>2, <4>1 DEF IInv, NeverRecycled
    <3> QED
      BY <3>1, <3>3 DEF IInv, TypeOK, ResourcesSound
  <2> QED
    BY <2>1, <2>2
<1>3. TypeOK'
  BY <1>1, <1>2 DEF IInv, TypeOK
<1>4. /\ AccountsSound' /\ RecordSound' /\ KeysSound' /\ NeverRecycled'
      /\ KeyIsKept' /\ PhaseIsTrue'
  BY <1>1 DEF IInv, AccountsSound, RecordSound, KeysSound, NeverRecycled,
     KeyIsKept, PhaseIsTrue
<1>5. ResourcesSound'
  BY <1>1, <1>2 DEF IInv, ResourcesSound
<1> QED
  BY <1>3, <1>4, <1>5 DEF IInv

\* Every step of the specification keeps the invariant.
LEMMA NextIInv == ASSUME IInv, [Next]_vars PROVE IInv'
<1>1. ASSUME NEW p \in Procs, NEW n \in Serves[p],
             \/ BeginCreate(p, n)
             \/ Begin(p, "configure", n, FALSE)
             \/ \E b \in BOOLEAN : Begin(p, "delete", n, b)
      PROVE  IInv'
  BY <1>1, BeginIInv
<1>2. ASSUME NEW p \in Procs, LauncherStep(p) \/ LauncherStops(p) PROVE IInv'
  BY <1>2, LauncherIInv, StopsIInv
<1>3. CASE HelperStep
  BY <1>3, ReserveIInv, OnwardIInv, CreationIInv, SaveIInv, ConfigurationIInv,
     DeletionIInv, LastIInv, DoneStepIInv, FaultIInv DEF HelperStep
<1>4. CASE HelperFails \/ HelperDies
  BY <1>4, FaultIInv
<1>5. ASSUME NEW n \in Names, MoveAside(n) \/ Login(n) PROVE IInv'
  BY <1>5, MoveAsideIInv, SessionIInv
<1>6. CASE \E i \in Ids : Logout(i)
  BY <1>6, SessionIInv
<1>7. CASE UNCHANGED vars
  BY <1>7 DEF vars, launcherVars, IInv, TypeOK, AccountsSound, RecordSound, Told,
     ResourcesSound, Had, KeysSound, NeverRecycled, KeyIsKept, PhaseIsTrue
<1> QED
  BY <1>1, <1>2, <1>3, <1>4, <1>5, <1>6, <1>7 DEF Next

\* IInv holds in every reachable state: the base of what follows.
THEOREM Invariance == Spec => []IInv
<1>1. Init => IInv
  BY InitIInv
<1>2. IInv /\ [Next]_vars => IInv'
  BY NextIInv
<1> QED
  BY <1>1, <1>2, PTL DEF Spec

\* The variables have their types.
THEOREM TypeCorrect == Spec => []TypeOK
<1>1. IInv => TypeOK
  BY DEF IInv
<1> QED
  BY <1>1, Invariance, PTL

\* What a record says of an account is true, wherever helpers have failed or been
\* killed: a "configured" one is whole, a "deleted" one has left nothing.
THEOREM PhaseTruth == Spec => []PhaseIsTrue
<1>1. IInv => PhaseIsTrue
  BY DEF IInv
<1> QED
  BY <1>1, Invariance, PTL

\* An account that can be entered is denied sudo: the rule is written before the
\* key, and the key goes before the rule.
THEOREM Denial == Spec => []DeniedBeforeOpen
<1>1. IInv => DeniedBeforeOpen
  BY DEF IInv, AccountsSound, DeniedBeforeOpen, Open
<1> QED
  BY <1>1, Invariance, PTL

\* No identifier is given to a second account, deleted accounts included.
THEOREM Reservation == Spec => []NeverRecycled
<1>1. IInv => NeverRecycled
  BY DEF IInv
<1> QED
  BY <1>1, Invariance, PTL

\* The operator has the key of every account that is not deleted, whatever any
\* number of launchers did to its directory at the same time.
THEOREM KeyRetention == Spec => []KeyIsKept
<1>1. IInv => KeyIsKept
  BY DEF IInv
<1> QED
  BY <1>1, Invariance, PTL

\* No step but the rename makes an archive.
LEMMA OnlyMove ==
  ASSUME TypeOK, [Next]_vars, NEW n \in Names, host'[n].archive, ~host[n].archive
  PROVE  helper.name = n /\ At("move")
<1>0. /\ helper.name \in Names /\ host \in [Names -> Accounts] /\ Account \in Accounts
      /\ Record \in Records /\ host' # host
  BY DEF TypeOK
<1>1. ASSUME NEW s, NEW t, NEW a, Change(s, t, a)
      PROVE  helper.name = n /\ At(s) /\ a.archive /\ ~Account.archive
  BY <1>0, <1>1 DEF Change
<1>2. CASE MoveHome
  BY <1>1, <1>2 DEF MoveHome
<1>3. CASE AddGroup \/ AddUser \/ MakeHome \/ ChownHome
  <2>1. CASE AddGroup
    BY <1>0, <1>1, <2>1 DEF AddGroup
  <2>2. CASE AddUser
    <3> DEFINE a == [Account EXCEPT !.user = Record.uid,
                              !.shell = IF @ = "none" THEN "bash" ELSE @]
    <3>1. a.archive = Account.archive
      BY <1>0
    <3>2. PICK q, t : Change(q, t, a)
      BY <2>2 DEF AddUser
    <3> QED
      BY <1>1, <3>1, <3>2
  <2>3. CASE MakeHome
    BY <1>0, <1>1, <2>3 DEF MakeHome
  <2>4. CASE ChownHome
    BY <1>0, <1>1, <2>4 DEF ChownHome
  <2> QED
    BY <1>3, <2>1, <2>2, <2>3, <2>4
<1>4. CASE Restrict \/ WriteKeys \/ SetupHome
  <2>1. CASE Restrict
    <3> DEFINE a == [Account EXCEPT !.shell = "bash", !.sudo = TRUE]
    <3>1. a.archive = Account.archive
      BY <1>0
    <3>2. PICK q, t : Change(q, t, a)
      BY <2>1 DEF Restrict
    <3> QED
      BY <1>1, <3>1, <3>2
  <2>2. CASE WriteKeys
    BY <1>0, <1>1, <2>2 DEF WriteKeys
  <2>3. CASE SetupHome
    BY <1>0, <1>1, <2>3 DEF SetupHome
  <2> QED
    BY <1>4, <2>1, <2>2, <2>3
<1>5. CASE Disable \/ Blank \/ Recheck \/ UserDel \/ GroupDel
  <2>1. CASE Disable
    BY <1>0, <1>1, <2>1 DEF Disable
  <2>2. CASE Blank
    BY <1>0, <1>1, <2>2 DEF Blank
  <2>3. CASE Recheck
    BY <1>0, <1>1, <2>3 DEF Recheck
  <2>4. CASE UserDel
    <3> DEFINE a == [Account EXCEPT !.user = 0, !.shell = "none"]
    <3>1. a.archive = Account.archive
      BY <1>0
    <3>2. PICK q, t : Change(q, t, a)
      BY <2>4 DEF UserDel
    <3> QED
      BY <1>1, <3>1, <3>2
  <2>5. CASE GroupDel
    BY <1>0, <1>1, <2>5 DEF GroupDel
  <2> QED
    BY <1>5, <2>1, <2>2, <2>3, <2>4, <2>5
<1>6. CASE RemoveKeys \/ RemoveRule \/ RemoveSudo \/ Erase \/ Purge
  BY <1>0, <1>1, <1>6 DEF RemoveKeys, RemoveRule, RemoveSudo, Erase, Purge
<1>7. ASSUME NEW b, host' = [host EXCEPT ![helper.name] = [Account EXCEPT !.rule = b]]
      PROVE  FALSE
  BY <1>0, <1>7
<1>8. CASE WriteRule
  BY <1>7, <1>8 DEF WriteRule
<1>9. CASE HelperFails
  BY <1>7, <1>9 DEF HelperFails
<1>10. CASE \E p \in Procs : LauncherStep(p) \/ LauncherStops(p)
  BY <1>0, <1>10 DEF LauncherStep, LauncherStops, Check, Look, Mkdir, Mark, Keygen,
     Call, Unmark, Rmdir
<1>11. CASE \E p \in Procs : \E m \in Serves[p] :
              \/ BeginCreate(p, m)
              \/ Begin(p, "configure", m, FALSE)
              \/ \E b \in BOOLEAN : Begin(p, "delete", m, b)
  BY <1>0, <1>11 DEF BeginCreate, Begin
<1>12. CASE Reserve \/ Configure \/ Identify \/ Reload \/ Audit \/ Delete \/ RecordArchive
  BY <1>0, <1>12 DEF Reserve, Configure, Identify, Reload, Audit, Delete, RecordArchive
<1>13. CASE Unload \/ Tombstone \/ DeleteAgain \/ Forget \/ Refuse \/ HelperDies
  BY <1>0, <1>13 DEF Unload, Tombstone, DeleteAgain, Forget, Refuse, HelperDies
<1>14. CASE \/ \E m \in Names : MoveAside(m) \/ Login(m)
            \/ \E i \in Ids : Logout(i)
            \/ UNCHANGED vars
  BY <1>0, <1>14 DEF MoveAside, Login, Logout, vars
<1> QED
  BY <1>2, <1>3, <1>4, <1>5, <1>6, <1>8, <1>9, <1>10, <1>11, <1>12, <1>13, <1>14
     DEF Next, HelperStep

\* A home is moved away only when nothing runs under its account and nobody can
\* enter it: that was looked at before, and holds still.
THEOREM IdleMove == Spec => MovedWhenIdle
<1> DEFINE Idle == \A n \in Names : host'[n].archive /\ ~host[n].archive =>
                     reg[n].uid \notin busy /\ ~Open(n)
<1>1. ASSUME IInv, [Next]_vars PROVE Idle
  <2> SUFFICES ASSUME NEW n \in Names, host'[n].archive, ~host[n].archive
               PROVE  reg[n].uid \notin busy /\ ~Open(n)
    OBVIOUS
  <2>1. helper.name = n /\ At("move")
    BY <1>1, OnlyMove DEF IInv
  <2> QED
    BY <1>1, <2>1 DEF IInv, ResourcesSound, Had, Open
<1> QED
  BY <1>1, Invariance, PTL DEF Spec, MovedWhenIdle

\* What keeps LoadedUnlessCut: a drop-in that is there has been read by sshd, or its
\* reload was lost, or the helper that wrote it is about to reload.
RulesRead ==
  \A n \in Names :
    host[n].rule /\ ~(At("reload") /\ helper.name = n /\ ~helper.before) =>
      n \in loaded \cup cut

\* No step but WriteRule makes a drop-in.
LEMMA OnlyWriteRule ==
  ASSUME TypeOK, [Next]_vars, NEW n \in Names, host'[n].rule, ~host[n].rule
  PROVE  helper.name = n /\ WriteRule
<1>0. /\ helper.name \in Names /\ host \in [Names -> Accounts] /\ Account \in Accounts
      /\ Record \in Records /\ host' # host
  BY DEF TypeOK
<1>1. ASSUME NEW q, NEW t, NEW a, Change(q, t, a), a.rule => Account.rule
      PROVE  FALSE
  BY <1>0, <1>1 DEF Change
<1>2. CASE WriteRule
  BY <1>0, <1>2 DEF WriteRule
<1>3. CASE AddGroup \/ AddUser \/ MakeHome \/ ChownHome
  <2>1. CASE AddGroup
    BY <1>0, <1>1, <2>1 DEF AddGroup
  <2>2. CASE AddUser
    <3> DEFINE a == [Account EXCEPT !.user = Record.uid,
                              !.shell = IF @ = "none" THEN "bash" ELSE @]
    <3>1. a.rule = Account.rule
      BY <1>0
    <3>2. PICK q, t : Change(q, t, a)
      BY <2>2 DEF AddUser
    <3> QED
      BY <1>1, <3>1, <3>2
  <2>3. CASE MakeHome
    BY <1>0, <1>1, <2>3 DEF MakeHome
  <2>4. CASE ChownHome
    BY <1>0, <1>1, <2>4 DEF ChownHome
  <2> QED
    BY <1>3, <2>1, <2>2, <2>3, <2>4
<1>4. CASE Restrict \/ WriteKeys \/ SetupHome
  <2>1. CASE Restrict
    <3> DEFINE a == [Account EXCEPT !.shell = "bash", !.sudo = TRUE]
    <3>1. a.rule = Account.rule
      BY <1>0
    <3>2. PICK q, t : Change(q, t, a)
      BY <2>1 DEF Restrict
    <3> QED
      BY <1>1, <3>1, <3>2
  <2>2. CASE WriteKeys
    BY <1>0, <1>1, <2>2 DEF WriteKeys
  <2>3. CASE SetupHome
    BY <1>0, <1>1, <2>3 DEF SetupHome
  <2> QED
    BY <1>4, <2>1, <2>2, <2>3
<1>5. CASE Disable \/ Blank \/ Recheck \/ MoveHome
  <2>1. CASE Disable
    BY <1>0, <1>1, <2>1 DEF Disable
  <2>2. CASE Blank
    BY <1>0, <1>1, <2>2 DEF Blank
  <2>3. CASE Recheck
    BY <1>0, <1>1, <2>3 DEF Recheck
  <2>4. CASE MoveHome
    <3> DEFINE a == IF Account.home = "none" THEN Account
                    ELSE [Account EXCEPT !.home = "none", !.built = FALSE,
                                           !.archive = TRUE]
    <3>1. a.rule = Account.rule
      BY <1>0
    <3>2. PICK q, t : Change(q, t, a)
      BY <2>4 DEF MoveHome
    <3> QED
      BY <1>1, <3>1, <3>2
  <2> QED
    BY <1>5, <2>1, <2>2, <2>3, <2>4
<1>6. CASE UserDel \/ GroupDel \/ RemoveKeys \/ RemoveRule \/ RemoveSudo \/ Erase \/ Purge
  <2>1. CASE UserDel
    <3> DEFINE a == [Account EXCEPT !.user = 0, !.shell = "none"]
    <3>1. a.rule = Account.rule
      BY <1>0
    <3>2. PICK q, t : Change(q, t, a)
      BY <2>1 DEF UserDel
    <3> QED
      BY <1>1, <3>1, <3>2
  <2>2. CASE GroupDel
    BY <1>0, <1>1, <2>2 DEF GroupDel
  <2>3. CASE RemoveKeys
    BY <1>0, <1>1, <2>3 DEF RemoveKeys
  <2>4. CASE RemoveRule
    BY <1>0, <1>1, <2>4 DEF RemoveRule
  <2>5. CASE RemoveSudo
    BY <1>0, <1>1, <2>5 DEF RemoveSudo
  <2>6. CASE Erase \/ Purge
    BY <1>0, <1>1, <2>6 DEF Erase, Purge
  <2> QED
    BY <1>6, <2>1, <2>2, <2>3, <2>4, <2>5, <2>6
<1>7. ASSUME NEW b, host' = [host EXCEPT ![helper.name] = [Account EXCEPT !.rule = b]],
             b => Account.rule
      PROVE  FALSE
  BY <1>0, <1>7
<1>8. CASE HelperFails
  <2>1. host' = [host EXCEPT ![helper.name] =
                   [Account EXCEPT !.rule = @ /\ (At("reload") => helper.before)]]
    BY <1>8 DEF HelperFails
  <2> QED
    BY <1>0, <1>7, <2>1
<1>9. CASE \E p \in Procs : LauncherStep(p) \/ LauncherStops(p)
  BY <1>0, <1>9 DEF LauncherStep, LauncherStops, Check, Look, Mkdir, Mark, Keygen,
     Call, Unmark, Rmdir
<1>10. CASE \E p \in Procs : \E m \in Serves[p] :
              \/ BeginCreate(p, m)
              \/ Begin(p, "configure", m, FALSE)
              \/ \E b \in BOOLEAN : Begin(p, "delete", m, b)
  BY <1>0, <1>10 DEF BeginCreate, Begin
<1>11. CASE Reserve \/ Configure \/ Identify \/ Reload \/ Audit \/ Delete \/ RecordArchive
  BY <1>0, <1>11 DEF Reserve, Configure, Identify, Reload, Audit, Delete, RecordArchive
<1>12. CASE Unload \/ Tombstone \/ DeleteAgain \/ Forget \/ Refuse \/ HelperDies
  BY <1>0, <1>12 DEF Unload, Tombstone, DeleteAgain, Forget, Refuse, HelperDies
<1>13. CASE \/ \E m \in Names : MoveAside(m) \/ Login(m)
            \/ \E i \in Ids : Logout(i)
            \/ UNCHANGED vars
  BY <1>0, <1>13 DEF MoveAside, Login, Logout, vars
<1> QED
  BY <1>2, <1>3, <1>4, <1>5, <1>6, <1>8, <1>9, <1>10, <1>11, <1>12, <1>13
     DEF Next, HelperStep

\* What sshd has read, and what was lost, changes only where the helper reloads or
\* is killed before it has.
LEMMA OnlyReloads ==
  ASSUME TypeOK, [Next]_vars
  PROVE  \/ UNCHANGED <<loaded, cut>>
         \/ Reload \/ Unload \/ HelperDies
<1>1. ASSUME NEW q, NEW t, NEW a, Change(q, t, a) PROVE UNCHANGED <<loaded, cut>>
  BY <1>1 DEF Change
<1>2. CASE AddGroup \/ AddUser \/ MakeHome \/ ChownHome
  BY <1>1, <1>2 DEF AddGroup, AddUser, MakeHome, ChownHome
<1>3. CASE Restrict \/ WriteKeys \/ SetupHome \/ Disable \/ Blank \/ Recheck \/ MoveHome
  BY <1>1, <1>3 DEF Restrict, WriteKeys, SetupHome, Disable, Blank, Recheck, MoveHome
<1>4. CASE UserDel \/ GroupDel \/ RemoveKeys \/ RemoveRule \/ RemoveSudo \/ Erase \/ Purge
  BY <1>1, <1>4 DEF UserDel, GroupDel, RemoveKeys, RemoveRule, RemoveSudo, Erase, Purge
<1>5. CASE HelperFails \/ WriteRule
  BY <1>5 DEF HelperFails, WriteRule
<1>6. CASE \E p \in Procs : LauncherStep(p) \/ LauncherStops(p)
  BY <1>6 DEF LauncherStep, LauncherStops, Check, Look, Mkdir, Mark, Keygen,
     Call, Unmark, Rmdir
<1>7. CASE \E p \in Procs : \E m \in Serves[p] :
              \/ BeginCreate(p, m)
              \/ Begin(p, "configure", m, FALSE)
              \/ \E b \in BOOLEAN : Begin(p, "delete", m, b)
  BY <1>7 DEF BeginCreate, Begin
<1>8. CASE Reserve \/ Configure \/ Identify \/ Audit \/ Delete \/ RecordArchive
  BY <1>8 DEF Reserve, Configure, Identify, Audit, Delete, RecordArchive
<1>9. CASE Tombstone \/ DeleteAgain \/ Forget \/ Refuse
  BY <1>9 DEF Tombstone, DeleteAgain, Forget, Refuse
<1>10. CASE \/ \E m \in Names : MoveAside(m) \/ Login(m)
            \/ \E i \in Ids : Logout(i)
            \/ UNCHANGED vars
  BY <1>10 DEF MoveAside, Login, Logout, vars
<1> QED
  BY <1>2, <1>3, <1>4, <1>5, <1>6, <1>7, <1>8, <1>9, <1>10 DEF Next, HelperStep

\* A helper that has written a drop-in leaves the place before the reload only by
\* reloading, by failing or by being killed.
LEMMA OnlyFromReload ==
  ASSUME TypeOK, [Next]_vars, At("reload")
  PROVE  \/ UNCHANGED <<helper.at, helper.name, helper.before>>
         \/ Reload \/ HelperFails \/ HelperDies
<1>1. ASSUME NEW q, NEW t, NEW a, Change(q, t, a), q # "reload" PROVE FALSE
  BY <1>1 DEF Change
<1>2. ~(AddGroup \/ AddUser \/ MakeHome \/ ChownHome)
  BY <1>1 DEF AddGroup, AddUser, MakeHome, ChownHome
<1>3. ~(Restrict \/ WriteKeys \/ SetupHome \/ Disable \/ Blank \/ Recheck \/ MoveHome)
  BY <1>1 DEF Restrict, WriteKeys, SetupHome, Disable, Blank, Recheck, MoveHome
<1>4. ~(UserDel \/ GroupDel \/ RemoveKeys \/ RemoveRule \/ RemoveSudo \/ Erase \/ Purge)
  BY <1>1 DEF UserDel, GroupDel, RemoveKeys, RemoveRule, RemoveSudo, Erase, Purge
<1>5. ~(WriteRule \/ Refuse)
  BY DEF WriteRule, Refuse, Permitted
<1>6. CASE \E p \in Procs : LauncherStep(p) \/ LauncherStops(p)
  BY <1>6 DEF TypeOK, LauncherStep, LauncherStops, Check, Look, Mkdir, Mark, Keygen,
     Call, Unmark, Rmdir
<1>7. CASE \E p \in Procs : \E m \in Serves[p] :
              \/ BeginCreate(p, m)
              \/ Begin(p, "configure", m, FALSE)
              \/ \E b \in BOOLEAN : Begin(p, "delete", m, b)
  BY <1>7 DEF BeginCreate, Begin
<1>8. ~(Reserve \/ Configure \/ Identify \/ Audit \/ Delete \/ RecordArchive)
  BY DEF Reserve, Configure, Identify, Audit, Delete, RecordArchive
<1>9. ~(Unload \/ Tombstone \/ DeleteAgain \/ Forget)
  BY DEF Unload, Tombstone, DeleteAgain, Forget
<1>10. CASE \/ \E m \in Names : MoveAside(m) \/ Login(m)
            \/ \E i \in Ids : Logout(i)
            \/ UNCHANGED vars
  BY <1>10 DEF MoveAside, Login, Logout, vars
<1> QED
  BY <1>2, <1>3, <1>4, <1>5, <1>6, <1>7, <1>8, <1>9, <1>10 DEF Next, HelperStep

\* Every step keeps RulesRead.
LEMMA RulesReadStep == ASSUME TypeOK, RulesRead, [Next]_vars PROVE RulesRead'
<1> SUFFICES ASSUME NEW n \in Names, host'[n].rule,
                    ~(helper'.at = "reload" /\ helper'.name = n /\ ~helper'.before)
             PROVE  n \in loaded' \cup cut'
  BY DEF RulesRead
<1>1. CASE Reload
  <2>1. host[n].rule /\ loaded' = (IF helper.before THEN loaded ELSE Rules)
        /\ cut' = cut \ loaded' /\ At("reload")
    BY <1>1 DEF Reload
  <2> QED
    BY <2>1 DEF RulesRead, Rules
<1>2. CASE Unload
  BY <1>2 DEF Unload, Rules
<1>3. CASE HelperDies
  <2>1. host[n].rule /\ UNCHANGED loaded
    BY <1>3 DEF HelperDies
  <2>2. cut \subseteq cut'
    BY <1>3 DEF HelperDies
  <2>3. At("reload") /\ ~helper.before => helper.name \in cut'
    BY <1>3 DEF HelperDies
  <2> QED
    BY <2>1, <2>2, <2>3 DEF RulesRead
<1>4. CASE UNCHANGED <<loaded, cut>> /\ ~Reload /\ ~HelperDies
  <2>1. CASE ~host[n].rule
    <3>1. WriteRule /\ helper.name = n
      BY <2>1, OnlyWriteRule
    <3>2. helper'.at = "reload" /\ helper'.name = n /\ helper'.before = host[n].rule
      BY <3>1 DEF WriteRule, TypeOK
    <3> QED
      BY <2>1, <3>2
  <2>2. CASE host[n].rule /\ ~(At("reload") /\ helper.name = n /\ ~helper.before)
    BY <1>4, <2>2 DEF RulesRead
  <2>3. CASE host[n].rule /\ At("reload") /\ helper.name = n /\ ~helper.before
    <3>1. HelperFails
      BY <1>4, <2>3, OnlyFromReload
    <3>2. host' = [host EXCEPT ![n] =
                     [host[n] EXCEPT !.rule = @ /\ (At("reload") => helper.before)]]
      BY <2>3, <3>1 DEF HelperFails
    <3>3. host \in [Names -> Accounts]
      BY DEF TypeOK
    <3> QED
      BY <2>3, <3>2, <3>3
  <2> QED
    BY <2>1, <2>2, <2>3
<1> QED
  BY <1>1, <1>2, <1>3, <1>4, OnlyReloads

\* The drop-in of a configured account is in force, unless the helper was killed
\* between writing and loading it and nothing has been reloaded since.
THEOREM Loading == Spec => []LoadedUnlessCut
<1>1. Init => RulesRead
  BY DEF Init, RulesRead, NoAccount
<1>2. RulesRead /\ IInv /\ [Next]_vars => RulesRead'
  BY RulesReadStep DEF IInv
<1>3. IInv /\ RulesRead => LoadedUnlessCut
  BY DEF IInv, RulesRead, LoadedUnlessCut, PhaseIsTrue, RecordSound, Told
<1> QED
  BY <1>1, <1>2, <1>3, Invariance, PTL DEF Spec

=============================================================================
