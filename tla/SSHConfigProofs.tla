--------------------------- MODULE SSHConfigProofs ---------------------------
(***************************************************************************)
(* What the SSH aliases guarantee for any number of VMs, commands, edits   *)
(* and faults, as long as the user's editor is closed while an installer   *)
(* is at work.  An installer that is past its read knows the file it is    *)
(* going to replace (Knows): others may have replaced it meanwhile, but    *)
(* only by the same text under an Include line.                            *)
(***************************************************************************)
EXTENDS SSHConfig, TLAPS

Read == Places \ {"idle", "reading"}
Writing == {"aliasing", "backup", "replacing"}

\* What installer f, past its read, knows of the file.
Knows(f) ==
  /\ old[f].text = main.text
  /\ old[f].include # "none" => main.include # "none"
  /\ pc[f] \in Writing /\ ~Included(f) => ~main.link
  /\ pc[f] \in {"linkcheck", "backup", "replacing"} => ~Included(f)

\* What it has done by then.
Done(f) ==
  /\ pc[f] \in {"replacing", "done"} => alias[f] = "ours"
  /\ pc[f] = "backup" /\ f \in Finishes => alias[f] = "ours"
  /\ pc[f] = "replacing" => old[f].text = 0 \/ old[f].text \in backups
  /\ pc[f] = "aliasing" /\ f \in Commands =>
       Included(f) \/ old[f].text = 0 \/ old[f].text \in backups
  /\ pc[f] = "done" => main.include # "none"

IInv ==
  /\ TypeOK
  /\ UserTextKept
  /\ \A f \in Installers : pc[f] \in Read => Knows(f) /\ Done(f)

-----------------------------------------------------------------------------
\* The configuration is type correct from the start ...
LEMMA InitIInv == Init => IInv
<1>. SUFFICES ASSUME Init PROVE IInv
  OBVIOUS
<1>1. TypeOK
  BY BoundsAssumption DEF Init, TypeOK, Places, Content, Texts, Includes
<1>2. UserTextKept
  BY DEF Init, UserTextKept
<1>3. \A f \in Installers : pc[f] \notin Read
  BY DEF Init, Read
<1>. QED BY <1>1, <1>2, <1>3 DEF IInv

\* ... and every step of it.
LEMMA NextTypeOK == TypeOK /\ [Next]_vars => TypeOK'
<1>. SUFFICES ASSUME TypeOK, [Next]_vars PROVE TypeOK'
  OBVIOUS
<1>. USE BoundsAssumption DEF TypeOK, Places, Content, Texts, Includes, Goto
<1>1. CASE Edit
  BY <1>1 DEF Edit
<1>2. ASSUME NEW f \in Installers, InstallSSH(f) PROVE TypeOK'
  <2>1. CASE CheckAlias(f)
    BY <2>1 DEF CheckAlias
  <2>2. CASE ReadMain(f)
    BY <2>2 DEF ReadMain
  <2>3. CASE CheckLink(f)
    BY <2>3 DEF CheckLink, AfterChecks
  <2>4. CASE WriteAlias(f)
    BY <2>4 DEF WriteAlias, AfterAlias
  <2>5. CASE SaveBackup(f)
    BY <2>5 DEF SaveBackup
  <2>6. CASE ReplaceMain(f)
    BY <2>6 DEF ReplaceMain
  <2>7. CASE Leave(f)
    BY <2>7 DEF Leave
  <2>. QED BY <1>2, <2>1, <2>2, <2>3, <2>4, <2>5, <2>6, <2>7 DEF InstallSSH
<1>3. ASSUME NEW f \in Installers, Fail(f) PROVE TypeOK'
  BY <1>3 DEF Fail
<1>4. CASE UNCHANGED vars
  BY <1>4 DEF vars
<1>. QED BY <1>1, <1>2, <1>3, <1>4 DEF Next

\* An installer that does not read or replace the file, nor goes on to where it
\* must know more, keeps what it knows; the others know what they knew.
LEMMA NextIInv ==
  ASSUME ~ConcurrentEditor, IInv, [Next]_vars
  PROVE  IInv'
<1>1. TypeOK'
  BY NextTypeOK DEF IInv
<1>. USE DEF IInv
<1>2. CASE Edit
  <2>1. \A f \in Installers : pc'[f] = "idle"
    BY <1>2 DEF Edit
  <2>2. UserTextKept'
    BY <1>2 DEF Edit, UserTextKept
  <2>. QED BY <1>1, <2>1, <2>2 DEF Read
<1>3. ASSUME NEW f \in Installers, InstallSSH(f) \/ Fail(f) PROVE IInv'
  <2>. DEFINE Kept == \A g \in Installers \ {f} :
                        pc'[g] \in Read => Knows(g)' /\ Done(g)'
  <2>. USE DEF TypeOK, Goto, Installers
  <2>1. CASE ReplaceMain(f)
    <3>1. Knows(f) /\ Done(f) /\ ~Included(f)
      BY <2>1 DEF ReplaceMain, Read, Places, Knows
    <3>2. main'.text = main.text /\ main'.link = main.link /\ main'.include = "line"
      BY <2>1, <3>1 DEF ReplaceMain, Knows, Writing
    <3>3. UserTextKept'
      BY <2>1, <3>2 DEF ReplaceMain, UserTextKept
    <3>4. Kept
      BY <2>1, <3>2 DEF ReplaceMain, Knows, Done, Included
    <3>5. Knows(f)' /\ Done(f)'
      BY <2>1, <3>1, <3>2 DEF ReplaceMain, Knows, Done, Included, Writing
    <3>. QED BY <1>1, <3>3, <3>4, <3>5
  <2>2. CASE ReadMain(f)
    <3>1. UserTextKept'
      BY <2>2 DEF ReadMain, UserTextKept
    <3>2. Kept
      BY <2>2 DEF ReadMain, Knows, Done, Included
    <3>3. Knows(f)'
      BY <2>2 DEF ReadMain, Knows, Included, Writing
    <3>4. Done(f)'
      BY <2>2 DEF ReadMain, Done, Included
    <3>. QED BY <1>1, <3>1, <3>2, <3>3, <3>4
  <2>3. CASE CheckAlias(f) \/ Leave(f) \/ Fail(f)
    <3>1. UserTextKept'
      BY <2>3 DEF CheckAlias, Leave, Fail, UserTextKept
    <3>2. Kept
      BY <2>3 DEF CheckAlias, Leave, Fail, Knows, Done, Included
    <3>3. pc'[f] \notin Read
      BY <2>3 DEF CheckAlias, Leave, Fail, Read
    <3>. QED BY <1>1, <3>1, <3>2, <3>3
  <2>4. CASE CheckLink(f)
    <3>1. UserTextKept'
      BY <2>4 DEF CheckLink, UserTextKept
    <3>2. Kept
      BY <2>4 DEF CheckLink, Knows, Done, Included
    <3>3. Knows(f) /\ ~Included(f)
      BY <2>4 DEF CheckLink, Knows, Read, Places
    <3>4. pc'[f] \in Read => Knows(f)'
      BY <2>4, <3>3 DEF CheckLink, AfterChecks, Knows, Included, Read, Writing
    <3>5. pc'[f] \in Read => Done(f)'
      BY <2>4, <3>3, InstallerAssumption DEF CheckLink, AfterChecks, Done, Included, Read
    <3>. QED BY <1>1, <3>1, <3>2, <3>4, <3>5
  <2>5. CASE WriteAlias(f)
    <3>1. UserTextKept'
      BY <2>5 DEF WriteAlias, UserTextKept
    <3>2. Kept
      BY <2>5 DEF WriteAlias, Knows, Done, Included
    <3>3. Knows(f) /\ Done(f)
      BY <2>5 DEF WriteAlias, Read, Places
    <3>4. /\ pc[f] = "aliasing" /\ pc'[f] = AfterAlias(f) /\ alias'[f] = "ours"
          /\ pc'[f] \in {"backup", "replacing"} => ~Included(f)
      BY <2>5 DEF WriteAlias, AfterAlias, Places
    <3>5. pc'[f] = "replacing" => old[f].text = 0 \/ old[f].text \in backups
      BY <3>3, <3>4 DEF AfterAlias, Done
    <3>6. Knows(f)'
      BY <2>5, <3>3, <3>4 DEF WriteAlias, Knows, Included, Writing, AfterAlias
    <3>7. Done(f)'
      BY <2>5, <3>3, <3>4, <3>5 DEF WriteAlias, AfterAlias, Knows, Done, Included
    <3>. QED BY <1>1, <3>1, <3>2, <3>6, <3>7
  <2>6. CASE SaveBackup(f)
    <3>1. UserTextKept'
      BY <2>6 DEF SaveBackup, UserTextKept
    <3>2. Kept
      BY <2>6 DEF SaveBackup, Knows, Done, Included
    <3>3. Knows(f) /\ Done(f)
      BY <2>6 DEF SaveBackup, Read, Places
    <3>4. Knows(f)'
      BY <2>6, <3>3 DEF SaveBackup, Knows, Included, Writing
    <3>5. Done(f)'
      BY <2>6, <3>3 DEF SaveBackup, Knows, Done, Included
    <3>. QED BY <1>1, <3>1, <3>2, <3>4, <3>5
  <2>. QED BY <1>3, <2>1, <2>2, <2>3, <2>4, <2>5, <2>6 DEF InstallSSH
<1>4. CASE UNCHANGED vars
  BY <1>1, <1>4 DEF vars, UserTextKept, Knows, Done, Included
<1>. QED BY <1>2, <1>3, <1>4 DEF Next

-----------------------------------------------------------------------------
\* The configuration, aliases and backups are type correct, whoever edits.
THEOREM TypeCorrect == Spec => []TypeOK
<1>1. Init => TypeOK
  BY InitIInv DEF IInv
<1>. QED BY <1>1, NextTypeOK, PTL DEF Spec

\* The inductive invariant holds in every reachable state.
THEOREM Invariance == ASSUME ~ConcurrentEditor PROVE Spec => []IInv
<1>1. IInv /\ [Next]_vars => IInv'
  BY NextIInv
<1>. QED BY <1>1, InitIInv, PTL DEF Spec

\* The text in place is the one the user wrote last, and a symlink of the
\* user's is still one, however many installers rename over each other.
THEOREM TextIsKept == ASSUME ~ConcurrentEditor PROVE Spec => []UserTextKept
<1>1. IInv => UserTextKept
  BY DEF IInv
<1>. QED BY <1>1, Invariance, PTL

\* A finished installer's alias is included.
THEOREM Reachability == ASSUME ~ConcurrentEditor PROVE Spec => []AliasReachable
<1>1. IInv => AliasReachable
  BY DEF IInv, AliasReachable, Done, Read, Places
<1>. QED BY <1>1, Invariance, PTL

\* What an installer replaces has been backed up.
THEOREM BackedUp == ASSUME ~ConcurrentEditor PROVE Spec => BackupFirst
<1>. DEFINE Backed == main.text = 0 \/ main.text \in backups \/ main.include = "line"
<1>1. ASSUME IInv, [Next]_vars, main' # main, written' = written PROVE Backed
  <2>1. PICK f \in Installers : ReplaceMain(f)
    <3>1. ~Edit
      BY <1>1 DEF Edit, IInv, TypeOK, Texts
    <3>2. ~UNCHANGED vars
      BY <1>1 DEF vars
    <3>3. PICK f \in Installers : InstallSSH(f) \/ Fail(f)
      BY <1>1, <3>1, <3>2 DEF Next
    <3>4. ~(CheckAlias(f) \/ ReadMain(f) \/ CheckLink(f) \/ WriteAlias(f)
            \/ SaveBackup(f) \/ Leave(f) \/ Fail(f))
      BY <1>1 DEF CheckAlias, ReadMain, CheckLink, WriteAlias, SaveBackup, Leave, Fail
    <3>. QED BY <3>3, <3>4 DEF InstallSSH
  <2>2. Knows(f) /\ Done(f) /\ pc[f] = "replacing"
    BY <1>1, <2>1 DEF ReplaceMain, Goto, IInv, Read, Places
  <2>. QED BY <2>2 DEF Knows, Done
<1>2. IInv /\ [Next]_vars => [main' # main /\ written' = written => Backed]_vars
  BY <1>1
<1>. QED BY <1>2, Invariance, PTL DEF Spec, BackupFirst
=============================================================================
