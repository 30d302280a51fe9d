------------------------------ MODULE SSHConfig ------------------------------
(***************************************************************************)
(* The SSH aliases on the host.  finish installs one for its VM            *)
(* (internal/launch/onboard.go, installSSH; cli.go, atomic) and so does    *)
(* the command install-ssh of the other program (ssh.go, installSSHText,   *)
(* atomicWrite).  Locks are per VM at most, so the installers of several   *)
(* VMs change ~/.ssh/config at the same time: each reads it, writes its    *)
(* own alias file, saves a backup of what it read and renames a new file,  *)
(* the Include line before what it read, over it.  The user edits the same *)
(* file with an editor that knows no lock.                                 *)
(***************************************************************************)
EXTENDS Naturals

CONSTANTS
  Finishes,         \* finishes of different VMs
  Commands,         \* install-ssh, for others yet
  MaxEdits,         \* bound: edits of the user
  MaxFaults,        \* bound: failing and killed installers
  ConcurrentEditor  \* may the user edit while an installer is at work?

ASSUME BoundsAssumption == MaxEdits \in Nat /\ MaxFaults \in Nat
ASSUME InstallerAssumption == Finishes \cap Commands = {}
ASSUME EditorAssumption == ConcurrentEditor \in BOOLEAN

VARIABLES
  main,     \* ~/.ssh/config: the user's text, the Include line, a symlink?
  alias,    \* alias[f]: ~/.ssh/devwright/NAME.config or NAME.incus.config
  backups,  \* the texts saved in config.before-devwright-*
  pc, old,  \* old[f]: what installer f has read of main
  written,  \* history: the text and kind of file the user has written last
  faults

vars == <<main, alias, backups, pc, old, written, faults>>

Texts == 0..(MaxEdits + 1)  \* 0: empty or missing; a larger one is newer
Includes == {"none", "line", "crlf"}  \* the Include line; with a carriage return
Content == [text : Texts, include : Includes]
Installers == Finishes \cup Commands
Places == {"idle", "reading", "linkcheck", "aliasing", "backup", "replacing", "done"}

TypeOK ==
  /\ main \in [text : Texts, include : Includes, link : BOOLEAN]
  /\ alias \in [Installers -> {"absent", "ours", "foreign"}]
  /\ backups \subseteq Texts
  /\ pc \in [Installers -> Places]
  /\ old \in [Installers -> Content]
  /\ written \in [text : Texts, link : BOOLEAN]
  /\ faults \in 0..MaxFaults

Init ==
  /\ main \in [text : {0, 1}, include : Includes, link : BOOLEAN]
  /\ written = [text |-> main.text, link |-> main.link]
  /\ alias \in [Installers -> {"absent", "foreign"}]
  /\ backups = {}
  /\ pc = [f \in Installers |-> "idle"]
  /\ old = [f \in Installers |-> [text |-> 0, include |-> "none"]]
  /\ faults = 0

Goto(f, from, to) == pc[f] = from /\ pc' = [pc EXCEPT ![f] = to]

-----------------------------------------------------------------------------
(* installSSH, installSSHText                                              *)

\* finish compares whole lines, install-ssh without a carriage return.
Included(f) ==
  old[f].include \in (IF f \in Commands THEN {"line", "crlf"} ELSE {"line"})

\* install-ssh makes its backup before the alias, finish after it.  There is
\* nothing to save of a file that is empty or missing.
AfterChecks(f) ==
  IF f \in Commands /\ ~Included(f) /\ old[f].text # 0 THEN "backup" ELSE "aliasing"
AfterAlias(f) ==
  IF Included(f) THEN "done"
  ELSE IF f \in Finishes /\ old[f].text # 0 THEN "backup" ELSE "replacing"

\* An alias file without the installer's own header is refused; finish's is not
\* install-ssh's.
CheckAlias(f) ==
  /\ alias[f] # "foreign"
  /\ Goto(f, "idle", "reading")
  /\ UNCHANGED <<main, alias, backups, old, written, faults>>

\* os.ReadFile(main), which follows a symlink.
ReadMain(f) ==
  /\ old' = [old EXCEPT ![f] = [text |-> main.text, include |-> main.include]]
  /\ Goto(f, "reading", IF Included(f)' THEN "aliasing" ELSE "linkcheck")
  /\ UNCHANGED <<main, alias, backups, written, faults>>

\* Defect: finish goes on to a place it knows nothing of.
CheckLinkStrays(f) ==
  /\ Goto(f, "linkcheck", IF main.link THEN "refused" ELSE AfterChecks(f))
  /\ UNCHANGED <<main, alias, backups, old, written, faults>>

\* A symlink is the user's to change: the installer returns an error.
CheckLink(f) ==
  /\ Goto(f, "linkcheck", IF main.link THEN "idle" ELSE AfterChecks(f))
  /\ UNCHANGED <<main, alias, backups, old, written, faults>>

\* Defect: an alias that is in place already is taken for an Include line.
WriteAliasOnce(f) ==
  /\ Goto(f, "aliasing", IF alias[f] = "ours" THEN "done" ELSE AfterAlias(f))
  /\ alias' = [alias EXCEPT ![f] = "ours"]
  /\ UNCHANGED <<main, backups, old, written, faults>>

\* Defect: no backup is made when another installer has saved one before.
WriteAliasOneBackup(f) ==
  /\ Goto(f, "aliasing", IF AfterAlias(f) = "backup" /\ backups # {}
                         THEN "replacing" ELSE AfterAlias(f))
  /\ alias' = [alias EXCEPT ![f] = "ours"]
  /\ UNCHANGED <<main, backups, old, written, faults>>

WriteAlias(f) ==
  /\ Goto(f, "aliasing", AfterAlias(f))
  /\ alias' = [alias EXCEPT ![f] = "ours"]
  /\ UNCHANGED <<main, backups, old, written, faults>>

SaveBackup(f) ==
  /\ Goto(f, "backup", IF f \in Commands THEN "aliasing" ELSE "replacing")
  /\ backups' = backups \cup {old[f].text}
  /\ UNCHANGED <<main, alias, old, written, faults>>

\* Defect: the new file is the Include line without what was read.
ReplaceMainAfresh(f) ==
  /\ Goto(f, "replacing", "done")
  /\ main' = [text |-> 0, include |-> "line", link |-> FALSE]
  /\ UNCHANGED <<alias, backups, old, written, faults>>

\* atomic, atomicWrite (main, Include line and what was read): a rename replaces
\* whatever is at the path by now, a symlink included.
ReplaceMain(f) ==
  /\ Goto(f, "replacing", "done")
  /\ main' = [text |-> old[f].text, include |-> "line", link |-> FALSE]
  /\ UNCHANGED <<alias, backups, old, written, faults>>

\* The installer ends; a later one comes back here.
Leave(f) ==
  /\ Goto(f, "done", "idle")
  /\ UNCHANGED <<main, alias, backups, old, written, faults>>

\* An error or a kill: the temporary file of atomic is never at the path.
Fail(f) ==
  /\ faults < MaxFaults
  /\ faults' = faults + 1
  /\ pc[f] \notin {"idle", "done"}
  /\ pc' = [pc EXCEPT ![f] = "idle"]
  /\ UNCHANGED <<main, alias, backups, old, written>>

-----------------------------------------------------------------------------
(* The user: a new text, with or without the Include line; a symlink to a  *)
(* file in a dotfiles repository, or a file of its own again.              *)
Edit ==
  /\ written.text <= MaxEdits
  /\ ~ConcurrentEditor => \A f \in Installers : pc[f] = "idle"
  /\ main' \in [text : {written.text + 1}, include : Includes, link : BOOLEAN]
  /\ written' = [text |-> main'.text, link |-> main'.link]
  /\ UNCHANGED <<alias, backups, pc, old, faults>>

InstallSSH(f) ==
  \/ CheckAlias(f) \/ ReadMain(f) \/ CheckLink(f) \/ WriteAlias(f)
  \/ SaveBackup(f) \/ ReplaceMain(f) \/ Leave(f)

Next == (\E f \in Installers : InstallSSH(f) \/ Fail(f)) \/ Edit

Spec == Init /\ [][Next]_vars

-----------------------------------------------------------------------------
(* Properties.                                                             *)

\* README.md:244: existing SSH configuration is preserved.  However installers
\* interleave, what is in place is the text the user wrote last, and a symlink
\* the user made is still one.
UserTextKept == main.text = written.text /\ main.link = written.link

\* README.md:245: a backup is made when the Include line is added.  A text is in
\* the backups before a file an installer wrote takes its place, whichever of
\* them does it, even one that is killed on the way.
BackupFirst ==
  [][main' # main /\ written' = written =>
       main.text = 0 \/ main.text \in backups \/ main.include = "line"]_vars

\* An installer that has finished leaves a configuration that includes its alias,
\* whatever others have renamed over it meanwhile.
AliasReachable ==
  \A f \in Installers : pc[f] = "done" => main.include # "none" /\ alias[f] = "ours"
=============================================================================
