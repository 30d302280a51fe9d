-------------------------- MODULE OnboardingProofs --------------------------
(***************************************************************************)
(* What onboarding guarantees for any number of processes, credentials and *)
(* faults.  The place of the process that holds the lock tells which steps *)
(* are behind it and which credentials are there; a script it started and  *)
(* left behind as an orphan was started when that much was true already,   *)
(* and nothing that is done is undone.                                     *)
(***************************************************************************)
EXTENDS Onboarding, WellFoundedInduction, TLAPS

\* A process waits for the script of the step it is at.
Waiting == \A p \in Procs : job[p] # "none" => job[p] = step[p]

\* Step t of finish is behind place s.
Before(t, s) ==
  \/ s \in Steps /\ Rank(t) < Rank(s)
  \/ s \in {"prompt", "install"} /\ Rank(t) < Rank("creds")
  \/ s = "report"

Progress ==
  \A p \in Procs, t \in Effects : Planned(t) /\ Before(t, step[p]) => t \in done

\* finish has installed the credentials it has no longer to look at.
ProvidedTo(p) ==
  /\ step[p] \in {"creds", "prompt", "install"} => Creds \ todo[p] \subseteq present
  /\ step[p] \in {"hook", "report"} => present = Creds
  /\ Prompting(p) \/ Installing(p) => todo[p] # {}

Provided == \A p \in Procs : ProvidedTo(p)

IInv ==
  /\ TypeOK
  /\ OneScriptPerLock /\ Waiting
  /\ InOrder /\ Progress
  /\ HookHasCredentials /\ Provided

-----------------------------------------------------------------------------
\* The order of the steps.
LEMMA StepFacts ==
  /\ Steps = {"project", "dotfiles", "loader", "alias", "creds", "hook"}
  /\ Rank("project") = 1 /\ Rank("dotfiles") = 2 /\ Rank("loader") = 3
  /\ Rank("alias") = 4 /\ Rank("creds") = 5 /\ Rank("hook") = 6
<1>1. /\ Order[1] = "project" /\ Order[2] = "dotfiles" /\ Order[3] = "loader"
      /\ Order[4] = "alias" /\ Order[5] = "creds" /\ Order[6] = "hook"
  BY DEF Order
<1>2. 1..6 = {1, 2, 3, 4, 5, 6}
  OBVIOUS
<1>3. Steps = {"project", "dotfiles", "loader", "alias", "creds", "hook"}
  BY <1>1, <1>2 DEF Steps
<1>4. \A i, j \in 1..6 : Order[i] = Order[j] => i = j
  BY <1>1, <1>2
<1>5. \A i \in 1..6 : Rank(Order[i]) = i
  BY <1>4 DEF Rank
<1>. QED BY <1>1, <1>2, <1>3, <1>5

\* The next step is the first planned one ...
LEMMA AfterIs ==
  ASSUME NEW i \in 0..5, NEW j \in (i + 1)..6, Planned(Order[j]),
         \A k \in (i + 1)..(j - 1) : ~Planned(Order[k])
  PROVE  After(i) = Order[j]
<1>. DEFINE First(n) == Planned(Order[n]) /\ \A k \in (i + 1)..(n - 1) : ~Planned(Order[k])
<1>1. First(j)
  OBVIOUS
<1>2. ASSUME NEW n \in (i + 1)..6, First(n) PROVE n = j
  <2>1. ~(n < j)
    BY <1>2
  <2>2. ~(j < n)
    BY <1>2
  <2>. QED BY <2>1, <2>2
<1>3. (CHOOSE n \in (i + 1)..6 : First(n)) = j
  BY <1>1, <1>2
<1>4. \E n \in (i + 1)..6 : Planned(Order[n])
  OBVIOUS
<1>. QED BY <1>3, <1>4 DEF After

\* ... which is one of these; "report" follows the last.
LEMMA AfterTable ==
  /\ After(0) = "project"
  /\ After(1) = IF "dotfiles" \in manifest THEN "dotfiles" ELSE "loader"
  /\ After(2) = "loader"
  /\ After(3) = "alias"
  /\ After(5) = IF "hook" \in manifest THEN "hook" ELSE "report"
  /\ After(6) = "report"
<1>1. /\ Order[1] = "project" /\ Order[2] = "dotfiles" /\ Order[3] = "loader"
      /\ Order[4] = "alias" /\ Order[5] = "creds" /\ Order[6] = "hook"
  BY DEF Order
<1>2. /\ Planned("project") /\ Planned("loader") /\ Planned("alias") /\ Planned("creds")
      /\ Planned("dotfiles") <=> "dotfiles" \in manifest
      /\ Planned("hook") <=> "hook" \in manifest
  BY StepFacts DEF Planned, Optional
<1>3. After(0) = "project"
  BY <1>1, <1>2, AfterIs
<1>4. After(1) = IF "dotfiles" \in manifest THEN "dotfiles" ELSE "loader"
  <2>1. CASE "dotfiles" \in manifest
    BY <1>1, <1>2, <2>1, AfterIs
  <2>2. CASE "dotfiles" \notin manifest
    <3>1. \A k \in (1 + 1)..(3 - 1) : ~Planned(Order[k])
      BY <1>1, <1>2, <2>2
    <3>2. After(1) = Order[3]
      BY <1>1, <1>2, <3>1, AfterIs
    <3>. QED BY <1>1, <2>2, <3>2
  <2>. QED BY <2>1, <2>2
<1>5. After(2) = "loader"
  BY <1>1, <1>2, AfterIs
<1>6. After(3) = "alias"
  BY <1>1, <1>2, AfterIs
<1>7. After(5) = IF "hook" \in manifest THEN "hook" ELSE "report"
  <2>1. CASE "hook" \in manifest
    BY <1>1, <1>2, <2>1, AfterIs
  <2>2. CASE "hook" \notin manifest
    <3>1. ~\E j \in (5 + 1)..6 : Planned(Order[j])
      BY <1>1, <1>2, <2>2
    <3>. QED BY <2>2, <3>1 DEF After
  <2>. QED BY <2>1, <2>2
<1>8. After(6) = "report"
  <2>1. ~\E j \in (6 + 1)..6 : Planned(Order[j])
    OBVIOUS
  <2>. QED BY <2>1 DEF After
<1>. QED BY <1>3, <1>4, <1>5, <1>6, <1>7, <1>8

\* The credential a process has come to is one that it has still to look at.
LEMMA CurrentFacts ==
  ASSUME TypeOK, NEW p \in Procs, todo[p] # {}
  PROVE  Current(p) \in todo[p] /\ Current(p) \in Creds
<1>1. todo[p] \subseteq Nat /\ todo[p] \subseteq Creds
  BY NumbersAssumption DEF TypeOK, Creds
<1>2. PICK c \in todo[p] : \A d \in todo[p] : ~(<<d, c>> \in OpToRel(<, Nat))
  BY <1>1, NatLessThanWellFounded, WFMin
<1>3. ASSUME NEW d \in todo[p] PROVE c <= d
  <2>1. c \in Nat /\ d \in Nat /\ <<d, c>> \notin OpToRel(<, Nat)
    BY <1>1, <1>2
  <2>. QED BY <2>1 DEF OpToRel
<1>4. Current(p) \in todo[p]
  BY <1>3 DEF Current
<1>. QED BY <1>1, <1>4

-----------------------------------------------------------------------------
(* The places                                                              *)

\* Where the calls of finish take it.
LEMMA AfterPlaces ==
  ASSUME NEW s \in Steps \ {"alias"}
  PROVE  /\ After(Rank(s)) \in Locked
         /\ After(0) \in Locked
BY StepFacts, AfterTable DEF Locked

\* The lock comes with a place of finish and the place of a credential stays
\* in the program it is in.
LEMMA PlaceTyped ==
  ASSUME OneScriptPerLock, NEW p \in Procs, NEW s \in {"creds", "prompt", "install"}
  PROVE  Place(p, s) \in IF holder = p THEN Locked ELSE CredCommand
BY StepFacts DEF Place, Locked, CredCommand

\* Every process stays at one of the places of its program.
LEMMA NextTyped ==
  TypeOK /\ OneScriptPerLock /\ Waiting /\ Provided /\ [Next]_vars => TypeOK'
<1>. SUFFICES ASSUME TypeOK, OneScriptPerLock, Waiting, Provided, [Next]_vars
              PROVE  TypeOK'
  OBVIOUS
<1>. DEFINE Anywhere == {"idle"} \cup Locked \cup CredCommand
<1>. USE NumbersAssumption DEF TypeOK, Goto, Fault, Unlock, Return, guestVars, procVars
<1>1. /\ {"starting", "ready", "prompt", "install", "report", "alias", "creds"} \subseteq Locked
      /\ Locked \subseteq Anywhere /\ CredCommand \subseteq Anywhere
      /\ "idle" \in Anywhere /\ "cmdCreds" \in Anywhere
      /\ Scripts \subseteq Steps \ {"alias"} /\ Scripts \subseteq Effects
      /\ "alias" \in Effects
  BY StepFacts DEF Locked, CredCommand, Scripts, Effects
<1>2. ASSUME NEW p \in Procs, Lock(p) \/ StartVM(p) \/ CheckReady(p) \/ Call(p)
                              \/ CallRefused(p) \/ Report(p)
      PROVE  TypeOK'
  <2>1. CASE Lock(p)
    BY <1>1, <2>1 DEF Lock
  <2>2. CASE StartVM(p)
    <3>1. errors' \in BOOLEAN
      BY <2>2 DEF StartVM
    <3>2. faults' \in 0..MaxFaults
      BY <2>2 DEF StartVM
    <3>3. step' \in [Procs -> Anywhere] /\ vm' \in {"stopped", "running"}
      BY <1>1, <2>2 DEF StartVM
    <3>. QED BY <2>2, <3>1, <3>2, <3>3 DEF StartVM
  <2>3. CASE CheckReady(p)
    <3>1. After(0) \in Anywhere
      BY <1>1, AfterPlaces, StepFacts
    <3>. QED BY <1>1, <2>3, <3>1 DEF CheckReady
  <2>4. CASE Call(p)
    BY <1>1, <2>4 DEF Call
  <2>5. CASE CallRefused(p)
    BY <1>1, <2>5 DEF CallRefused
  <2>6. CASE Report(p)
    BY <1>1, <2>6 DEF Report
  <2>. QED BY <1>2, <2>1, <2>2, <2>3, <2>4, <2>5, <2>6
<1>3. ASSUME NEW p \in Procs, CallReturns(p) \/ InstallAlias(p) PROVE TypeOK'
  <2>1. CASE CallReturns(p)
    <3>1. step[p] \in Steps \ {"alias"} /\ job[p] \in Effects
      BY <1>1, <2>1 DEF CallReturns, Waiting
    <3>2. After(Rank(step[p])) \in Anywhere
      BY <1>1, <3>1, AfterPlaces
    <3>. QED BY <2>1, <3>1, <3>2 DEF CallReturns
  <2>2. CASE InstallAlias(p)
    BY <1>1, <2>2 DEF InstallAlias
  <2>. QED BY <1>3, <2>1, <2>2
<1>4. ASSUME NEW p \in Procs, BeginCredentials(p) \/ CredentialStep(p) PROVE TypeOK'
  <2>1. \A s \in {"creds", "prompt", "install"} : Place(p, s) \in Anywhere
    BY <1>1, PlaceTyped
  <2>2. CASE BeginCredentials(p)
    BY <1>1, <2>2 DEF BeginCredentials
  <2>3. CASE Probe(p)
    BY <1>1, <2>1, <2>3 DEF Probe
  <2>4. CASE Answer(p)
    BY <1>1, <2>1, <2>4 DEF Answer
  <2>5. CASE Install(p)
    <3>1. Current(p) \in Creds
      BY <2>5, CurrentFacts DEF Install, Provided, ProvidedTo
    <3>. QED BY <1>1, <2>1, <2>5, <3>1 DEF Install
  <2>6. CASE CredentialsDone(p)
    <3>1. After(Rank("creds")) \in Anywhere
      BY <1>1, AfterPlaces, StepFacts
    <3>. QED BY <1>1, <2>6, <3>1 DEF CredentialsDone
  <2>. QED BY <1>4, <2>2, <2>3, <2>4, <2>5, <2>6 DEF CredentialStep
<1>5. ASSUME NEW p \in Procs, CallFails(p) \/ Kill(p) PROVE TypeOK'
  <2>1. job[p] \in Effects \cup {"none"} /\ job[p] \in Scripts \cup {"none"}
    BY <1>1
  <2>2. CASE CallFails(p)
    BY <1>1, <2>1, <2>2 DEF CallFails
  <2>3. CASE Kill(p)
    BY <1>1, <2>1, <2>3 DEF Kill
  <2>. QED BY <1>5, <2>2, <2>3
<1>6. ASSUME NEW k \in Scripts, OrphanEnds(k) PROVE TypeOK'
  BY <1>1, <1>6 DEF OrphanEnds
<1>7. CASE StopVM
  BY <1>1, <1>7 DEF StopVM
<1>8. CASE UserStart
  <2>1. errors' \in BOOLEAN
    BY <1>8 DEF UserStart
  <2>2. faults' \in 0..MaxFaults
    BY <1>8 DEF UserStart
  <2>. QED BY <1>8, <2>1, <2>2 DEF UserStart
<1>9. CASE UNCHANGED vars
  BY <1>9 DEF vars
<1>. QED BY <1>2, <1>3, <1>4, <1>5, <1>6, <1>7, <1>8, <1>9 DEF Next, FinishStep

-----------------------------------------------------------------------------
(* The lock                                                                *)

\* The lock goes with the place: it is taken by who starts, dropped by who
\* returns or dies, and keeps everybody else among the places of `credentials`.
LEMMA NextLock ==
  TypeOK /\ OneScriptPerLock /\ Waiting /\ [Next]_vars => OneScriptPerLock' /\ Waiting'
<1>. SUFFICES ASSUME TypeOK, OneScriptPerLock, Waiting, [Next]_vars
              PROVE  OneScriptPerLock' /\ Waiting'
  OBVIOUS
<1>. USE ProcsAssumption
     DEF TypeOK, OneScriptPerLock, OneFinish, LockCovers, Waiting, Goto, Unlock, Return,
         guestVars, procVars
<1>1. /\ {"starting", "ready", "prompt", "install", "report", "alias", "creds"} \subseteq Locked
      /\ "idle" \notin Locked /\ CredCommand \cap Locked = {} /\ "cmdCreds" \in CredCommand
      /\ Scripts \subseteq Locked /\ "none" \notin Scripts /\ "alias" \notin Scripts
      /\ {"starting", "ready", "report"} \cap Scripts = {} /\ CredCommand \cap Scripts = {}
      /\ {"creds", "prompt", "install"} \subseteq Locked \ Scripts /\ "idle" \notin Scripts
  BY StepFacts DEF Locked, CredCommand, Scripts
<1>2. \A p \in Procs : step[p] \notin Scripts => job[p] = "none"
  BY <1>1
<1>3. ASSUME NEW p \in Procs,
             Lock(p) \/ StartVM(p) \/ CheckReady(p) \/ Call(p) \/ Report(p) \/ CallRefused(p)
      PROVE  OneScriptPerLock' /\ Waiting'
  <2>1. CASE Lock(p)
    BY <1>1, <1>2, <2>1 DEF Lock
  <2>2. CASE StartVM(p)
    BY <1>1, <1>2, <2>2 DEF StartVM
  <2>3. CASE CheckReady(p)
    <3>1. After(0) \in Locked
      BY AfterPlaces, StepFacts
    <3>. QED BY <1>1, <1>2, <2>3, <3>1 DEF CheckReady
  <2>4. CASE Call(p)
    BY <1>1, <1>2, <2>4 DEF Call
  <2>5. CASE Report(p) \/ CallRefused(p)
    BY <1>1, <2>5 DEF Report, CallRefused
  <2>. QED BY <1>3, <2>1, <2>2, <2>3, <2>4, <2>5
<1>4. ASSUME NEW p \in Procs, CallReturns(p) \/ InstallAlias(p)
      PROVE  OneScriptPerLock' /\ Waiting'
  <2>1. CASE CallReturns(p)
    <3>1. step[p] \in Scripts /\ step[p] \in Steps \ {"alias"}
      BY <1>1, <2>1 DEF CallReturns, Scripts
    <3>2. After(Rank(step[p])) \in Locked
      BY <3>1, AfterPlaces
    <3>. QED BY <1>1, <2>1, <3>1, <3>2 DEF CallReturns
  <2>2. CASE InstallAlias(p)
    BY <1>1, <1>2, <2>2 DEF InstallAlias
  <2>. QED BY <1>4, <2>1, <2>2
<1>5. ASSUME NEW p \in Procs, BeginCredentials(p) \/ CredentialStep(p)
      PROVE  OneScriptPerLock' /\ Waiting'
  <2>1. \A s \in {"creds", "prompt", "install"} :
          Place(p, s) \in IF holder = p THEN Locked ELSE CredCommand
    BY PlaceTyped
  <2>2. Looking(p) \/ Prompting(p) \/ Installing(p) => job[p] = "none"
    BY <1>1, <1>2 DEF Looking, Prompting, Installing, CredCommand
  <2>3. CASE BeginCredentials(p)
    BY <1>1, <1>2, <2>3 DEF BeginCredentials
  <2>4. CASE Probe(p)
    BY <1>1, <2>1, <2>2, <2>4 DEF Probe
  <2>5. CASE Answer(p)
    BY <1>1, <2>1, <2>2, <2>5 DEF Answer
  <2>6. CASE Install(p)
    BY <1>1, <2>1, <2>2, <2>6 DEF Install
  <2>7. CASE CredentialsDone(p)
    <3>1. After(Rank("creds")) \in Locked
      BY AfterPlaces, StepFacts
    <3>. QED BY <1>1, <2>2, <2>7, <3>1 DEF CredentialsDone
  <2>. QED BY <1>5, <2>3, <2>4, <2>5, <2>6, <2>7 DEF CredentialStep
<1>6. ASSUME NEW p \in Procs, CallFails(p) \/ Kill(p)
      PROVE  OneScriptPerLock' /\ Waiting'
  BY <1>1, <1>6 DEF CallFails, Kill
<1>7. ASSUME NEW k \in Scripts, OrphanEnds(k) PROVE OneScriptPerLock' /\ Waiting'
  BY <1>7 DEF OrphanEnds
<1>8. CASE StopVM
  BY <1>1, <1>8 DEF StopVM
<1>9. CASE UserStart \/ UNCHANGED vars
  BY <1>9 DEF UserStart, vars
<1>. QED BY <1>3, <1>4, <1>5, <1>6, <1>7, <1>8, <1>9 DEF Next, FinishStep

-----------------------------------------------------------------------------
(* The order of the steps                                                  *)

\* What finish goes on to has only the step it comes from, and those before
\* that one, behind it.
LEMMA AfterOrder ==
  ASSUME NEW t \in Effects, Planned(t)
  PROVE  /\ ~Before(t, After(0))
         /\ \A s \in Steps \ {"alias"} : Before(t, After(Rank(s))) => Before(t, s) \/ t = s
BY StepFacts, AfterTable DEF Before, Planned, Effects, Optional

\* A process that goes on to place s keeps the order among the places, if what
\* is behind s is done.
LEMMA ProgressKept ==
  ASSUME TypeOK, Progress, manifest' = manifest, done \subseteq done',
         NEW p \in Procs, NEW s, step' = [step EXCEPT ![p] = s],
         \A t \in Effects : Planned(t) /\ Before(t, s) => t \in done'
  PROVE  Progress'
<1>1. \A q \in Procs : step'[q] = IF q = p THEN s ELSE step[q]
  BY DEF TypeOK
<1>. SUFFICES ASSUME NEW q \in Procs, NEW t \in Effects,
                     Planned(t)', Before(t, step'[q])
              PROVE  t \in done'
  BY DEF Progress, Before
<1>2. Planned(t)
  BY DEF Planned
<1>. QED BY <1>1, <1>2 DEF Progress

\* What is done or at work stays in order when only steps whose predecessors
\* are done join it.
LEMMA OrderKept ==
  ASSUME InOrder, manifest' = manifest, done \subseteq done', NEW N,
         done' \cup Running' \subseteq done \cup Running \cup N,
         \A s \in N, t \in Effects : Planned(t) /\ Rank(t) < Rank(s) => t \in done',
         reported' => reported \/ \A t \in Effects : Planned(t) => t \in done'
  PROVE  InOrder'
<1>1. \A t \in Effects : Planned(t)' <=> Planned(t)
  BY DEF Planned
<1>2. ASSUME NEW t \in Effects, Planned(t), NEW s \in done' \cup Running', Rank(t) < Rank(s)
      PROVE  t \in done'
  <2>1. CASE s \in N
    BY <1>2, <2>1
  <2>2. CASE s \in done \cup Running
    BY <1>2, <2>2 DEF InOrder
  <2>. QED BY <1>2, <2>1, <2>2
<1>3. ASSUME NEW t \in Effects, Planned(t), reported' PROVE t \in done'
  BY <1>3 DEF InOrder
<1>. QED BY <1>1, <1>2, <1>3 DEF InOrder

\* A step that begins nothing and completes only what it has at work keeps the order.
LEMMA OrderStays ==
  ASSUME InOrder, manifest' = manifest, done \subseteq done',
         done' \cup Running' \subseteq done \cup Running,
         reported' => reported \/ \A t \in Effects : Planned(t) => t \in done'
  PROVE  InOrder'
<1>. DEFINE N == {}
<1>1. /\ done' \cup Running' \subseteq done \cup Running \cup N
      /\ \A s \in N, t \in Effects : Planned(t) /\ Rank(t) < Rank(s) => t \in done'
  OBVIOUS
<1>. HIDE DEF N
<1>. QED BY <1>1, OrderKept

\* No step begins before those it needs are done, and none is undone.
LEMMA NextOrder ==
  TypeOK /\ OneScriptPerLock /\ Waiting /\ InOrder /\ Progress /\ [Next]_vars
    => InOrder' /\ Progress'
<1>. SUFFICES ASSUME TypeOK, OneScriptPerLock, Waiting, InOrder, Progress, [Next]_vars
              PROVE  InOrder' /\ Progress'
  OBVIOUS
<1>. USE DEF Goto, Return, guestVars, procVars
<1>1. \A t \in Effects, s \in {"idle", "starting", "ready"} \cup CredCommand : ~Before(t, s)
  BY StepFacts DEF Before, CredCommand
<1>2. Scripts \subseteq Steps /\ "none" \notin Scripts /\ "alias" \notin Scripts
      /\ Scripts \subseteq Effects /\ "alias" \in Effects /\ "none" \notin Steps
  BY StepFacts DEF Scripts, Effects
\* A process that returns, or begins, has nothing behind it.
<1>3. ASSUME NEW p \in Procs, NEW s \in {"idle", "starting", "ready"} \cup CredCommand,
             step' = [step EXCEPT ![p] = s], manifest' = manifest, done \subseteq done'
      PROVE  Progress'
  BY <1>1, <1>3, ProgressKept
\* A step that starts no script and completes none.
<1>4. ASSUME manifest' = manifest, done' = done, reported' = reported,
             Running' \subseteq Running
      PROVE  InOrder'
  BY <1>4 DEF InOrder, Planned
<1>5. \A p \in Procs : job' = [job EXCEPT ![p] = "none"] /\ orphans' = orphans
                         => Running' \subseteq Running
  BY DEF Running, TypeOK
<1>6. UNCHANGED <<job, orphans>> => Running' = Running
  BY DEF Running
<1>7. ASSUME NEW p \in Procs, Lock(p) \/ StartVM(p) \/ CallRefused(p) \/ BeginCredentials(p)
      PROVE  InOrder' /\ Progress'
  <2>1. PICK s \in {"idle", "starting", "ready"} \cup CredCommand :
             step' = [step EXCEPT ![p] = s]
    BY <1>7 DEF Lock, StartVM, CallRefused, BeginCredentials, CredCommand
  <2>2. /\ manifest' = manifest /\ done' = done /\ reported' = reported
        /\ Running' \subseteq Running
    BY <1>5, <1>6, <1>7 DEF Lock, StartVM, CallRefused, BeginCredentials
  <2>. QED BY <1>3, <1>4, <2>1, <2>2
<1>8. ASSUME NEW p \in Procs, CheckReady(p) PROVE InOrder' /\ Progress'
  <2>1. manifest' = manifest /\ done' = done /\ reported' = reported
        /\ Running' \subseteq Running
    BY <1>5, <1>6, <1>8 DEF CheckReady
  <2>2. CASE step' = [step EXCEPT ![p] = After(0)]
    BY <1>4, <2>1, <2>2, AfterOrder, ProgressKept
  <2>3. CASE step' = [step EXCEPT ![p] = "idle"]
    BY <1>3, <1>4, <2>1, <2>3
  <2>. QED BY <1>8, <2>2, <2>3 DEF CheckReady
<1>9. ASSUME NEW p \in Procs, Call(p) PROVE InOrder' /\ Progress'
  <2>1. Running' \subseteq Running \cup {step[p]}
    BY <1>9 DEF Call, Running, TypeOK
  <2>2. \A t \in Effects : Planned(t) /\ Rank(t) < Rank(step[p]) => t \in done
    BY <1>2, <1>9 DEF Call, Progress, Before
  <2>3. manifest' = manifest /\ done' = done /\ reported' = reported /\ step' = step
    BY <1>9 DEF Call
  <2>4. done' \cup Running' \subseteq done \cup Running \cup {step[p]}
    BY <2>1, <2>3
  <2>5. InOrder'
    BY <2>2, <2>3, <2>4, OrderKept
  <2>. QED BY <2>3, <2>5 DEF Progress, Planned, Before
<1>10. ASSUME NEW p \in Procs, CallReturns(p) PROVE InOrder' /\ Progress'
  <2>1. step[p] = job[p] /\ step[p] \in Scripts /\ job[p] \in Running
    BY <1>10 DEF CallReturns, Waiting, TypeOK, Running
  <2>2. /\ manifest' = manifest /\ done' = done \cup {job[p]} /\ reported' = reported
        /\ step' = [step EXCEPT ![p] = After(Rank(step[p]))] /\ Running' \subseteq Running
    BY <1>5, <1>10 DEF CallReturns
  <2>3. \A t \in Effects : Planned(t) /\ Before(t, After(Rank(step[p]))) => t \in done'
    BY <1>2, <2>1, <2>2, AfterOrder DEF Progress
  <2>4. done' \cup Running' \subseteq done \cup Running
    BY <2>1, <2>2
  <2>5. InOrder'
    BY <2>2, <2>4, OrderStays
  <2>6. Progress'
    BY <2>2, <2>3, ProgressKept
  <2>. QED BY <2>5, <2>6
<1>11. ASSUME NEW p \in Procs, InstallAlias(p) PROVE InOrder' /\ Progress'
  <2>1. /\ step[p] = "alias" /\ manifest' = manifest /\ done' = done \cup {"alias"}
        /\ reported' = reported /\ step' = [step EXCEPT ![p] = "creds"] /\ Running' = Running
    BY <1>6, <1>11 DEF InstallAlias
  <2>2. \A t \in Effects : Planned(t) /\ Rank(t) < Rank("alias") => t \in done
    BY <2>1, StepFacts DEF Progress, Before
  <2>3. \A t \in Effects : Before(t, "creds") => Rank(t) < Rank("alias") \/ t = "alias"
    BY StepFacts DEF Before, Effects
  <2>4. done' \cup Running' \subseteq done \cup Running \cup {"alias"}
    BY <2>1
  <2>5. InOrder'
    BY <2>1, <2>2, <2>4, OrderKept
  <2>6. Progress'
    BY <2>1, <2>2, <2>3, ProgressKept
  <2>. QED BY <2>5, <2>6
<1>12. ASSUME NEW p \in Procs, Report(p) PROVE InOrder' /\ Progress'
  <2>1. /\ step[p] = "report" /\ manifest' = manifest /\ done' = done
        /\ step' = [step EXCEPT ![p] = "idle"] /\ Running' \subseteq Running
    BY <1>5, <1>12 DEF Report
  <2>2. \A t \in Effects : Planned(t) => t \in done
    BY <2>1 DEF Progress, Before
  <2>3. done' \cup Running' \subseteq done \cup Running
    BY <2>1
  <2>4. InOrder'
    BY <2>1, <2>2, <2>3, OrderStays
  <2>. QED BY <1>3, <2>1, <2>4
\* Looking for a credential, prompting and installing have the same behind them.
<1>13. ASSUME NEW p \in Procs, Probe(p) \/ Answer(p) \/ Install(p)
       PROVE  InOrder' /\ Progress'
  <2>1. manifest' = manifest /\ done' = done /\ reported' = reported
        /\ Running' \subseteq Running
    BY <1>5, <1>6, <1>13 DEF Probe, Answer, Install
  <2>2. PICK s : /\ step' = [step EXCEPT ![p] = s]
                 /\ \/ s \in {"idle", "starting", "ready"} \cup CredCommand
                    \/ s = step[p]
                    \/ /\ s \in {"creds", "prompt", "install"}
                       /\ step[p] \in {"creds", "prompt", "install"}
    <3>1. ASSUME NEW s \in {"creds", "prompt", "install"},
                 Looking(p) \/ Prompting(p) \/ Installing(p)
          PROVE  \/ Place(p, s) \in CredCommand
                 \/ Place(p, s) = s /\ step[p] \in {"creds", "prompt", "install"}
      <4>1. CASE holder = p
        BY <3>1, <4>1, StepFacts
           DEF Place, Looking, Prompting, Installing, OneScriptPerLock, LockCovers, Locked
      <4>2. CASE holder # p
        BY <4>2, PlaceTyped
      <4>. QED BY <4>1, <4>2
    <3>2. step = [step EXCEPT ![p] = step[p]]
      BY DEF TypeOK
    <3>3. CASE Probe(p)
      BY <3>1, <3>2, <3>3 DEF Probe
    <3>4. CASE Answer(p)
      BY <3>1, <3>4 DEF Answer
    <3>5. CASE Install(p)
      BY <3>1, <3>5 DEF Install
    <3>. QED BY <1>13, <3>3, <3>4, <3>5
  <2>3. \A t \in Effects : Before(t, s) => Before(t, step[p])
    BY <1>1, <2>2, StepFacts DEF Before
  <2>4. \A t \in Effects : Planned(t) /\ Before(t, s) => t \in done'
    BY <2>1, <2>3 DEF Progress
  <2>5. Progress'
    BY <2>1, <2>2, <2>4, ProgressKept
  <2>. QED BY <1>4, <2>1, <2>5
<1>14. ASSUME NEW p \in Procs, CredentialsDone(p) PROVE InOrder' /\ Progress'
  <2>1. manifest' = manifest /\ done' = done /\ reported' = reported
        /\ Running' \subseteq Running
    BY <1>6, <1>14 DEF CredentialsDone
  <2>2. CASE holder = p
    <3>1. step[p] = "creds" /\ step' = [step EXCEPT ![p] = After(Rank("creds"))]
      BY <1>14, <2>2, StepFacts
         DEF CredentialsDone, Looking, OneScriptPerLock, LockCovers, Locked
    <3>2. \A t \in Effects : Planned(t) /\ Before(t, After(Rank("creds"))) => t \in done'
      BY <2>1, <3>1, StepFacts, AfterOrder DEF Progress, Effects
    <3>. QED BY <1>4, <2>1, <3>1, <3>2, ProgressKept
  <2>3. CASE holder # p
    BY <1>3, <1>4, <1>14, <2>1, <2>3 DEF CredentialsDone
  <2>. QED BY <2>2, <2>3
<1>15. ASSUME NEW p \in Procs, CallFails(p) \/ Kill(p) PROVE InOrder' /\ Progress'
  <2>1. {job[p]} \ {"none"} \subseteq Running
    BY DEF Running
  <2>2. /\ manifest' = manifest /\ done \subseteq done' /\ reported' = reported
        /\ done' \subseteq done \cup Running /\ step' = [step EXCEPT ![p] = "idle"]
    BY <1>15, <2>1 DEF CallFails, Kill
  <2>3. Running' \subseteq Running
    BY <1>15, <2>1 DEF CallFails, Kill, Running, TypeOK
  <2>4. done' \cup Running' \subseteq done \cup Running
    BY <2>2, <2>3
  <2>5. InOrder'
    BY <2>2, <2>4, OrderStays
  <2>. QED BY <1>3, <2>2, <2>5
<1>16. ASSUME NEW k \in Scripts, OrphanEnds(k) PROVE InOrder' /\ Progress'
  <2>1. /\ manifest' = manifest /\ done \subseteq done' /\ reported' = reported
        /\ done' \subseteq done \cup {k} /\ step' = step
        /\ k \in Running /\ Running' \subseteq Running
    BY <1>2, <1>16 DEF OrphanEnds, Running
  <2>2. done' \cup Running' \subseteq done \cup Running
    BY <2>1
  <2>3. InOrder'
    BY <2>1, <2>2, OrderStays
  <2>. QED BY <2>1, <2>3 DEF Progress, Planned, Before
<1>17. CASE StopVM
  <2>1. manifest' = manifest /\ done' = done /\ reported' = reported /\ Running' = {}
    BY <1>17 DEF StopVM, Running
  <2>2. \A p \in Procs : step'[p] \in {"idle", step[p]}
    BY <1>17 DEF StopVM
  <2>3. \A p \in Procs, t \in Effects : Before(t, step'[p]) => Before(t, step[p])
    BY <1>1, <2>2
  <2>. QED BY <1>4, <2>1, <2>3 DEF Progress, Planned, Before
<1>18. CASE UserStart \/ UNCHANGED vars
  BY <1>4, <1>6, <1>18 DEF UserStart, vars, Progress, Planned, Before
<1>. QED BY <1>7, <1>8, <1>9, <1>10, <1>11, <1>12, <1>13, <1>14, <1>15, <1>16, <1>17, <1>18
         DEF Next, FinishStep, CredentialStep

-----------------------------------------------------------------------------
(* The credentials                                                         *)

\* No credential is taken away: what a process does leaves the others what
\* they were provided with.
LEMMA ProvidedKept ==
  ASSUME Provided, present \subseteq present', present' \subseteq Creds, NEW p \in Procs,
         \A q \in Procs \ {p} : step'[q] = step[q] /\ todo'[q] = todo[q],
         ProvidedTo(p)'
  PROVE  Provided'
<1>1. ASSUME NEW q \in Procs \ {p} PROVE ProvidedTo(q)'
  BY <1>1 DEF Provided, ProvidedTo, Prompting, Installing
<1>. QED BY <1>1 DEF Provided

\* The hook begins, and "Ready" is printed, behind the credentials.
LEMMA HookKept ==
  ASSUME HookHasCredentials, present \subseteq present', present' \subseteq Creds,
         reported' \/ "hook" \in done' \cup Running'
           => reported \/ "hook" \in done \cup Running \/ present = Creds
  PROVE  HookHasCredentials'
BY DEF HookHasCredentials

\* finish comes to the hook with every credential in place.
LEMMA NextCreds ==
  TypeOK /\ TypeOK' /\ OneScriptPerLock /\ Waiting /\ HookHasCredentials /\ Provided
    /\ [Next]_vars => HookHasCredentials' /\ Provided'
<1>. SUFFICES ASSUME TypeOK, TypeOK', OneScriptPerLock, Waiting, HookHasCredentials,
                     Provided, [Next]_vars
              PROVE  HookHasCredentials' /\ Provided'
  OBVIOUS
<1>. USE DEF Goto, Return, guestVars, procVars
<1>. DEFINE Bare == {"idle", "starting", "ready", "project", "dotfiles", "loader", "alias",
                     "cmdCreds"}
<1>1. present' \subseteq Creds
  BY DEF TypeOK
<1>2. \A p \in Procs : job' = [job EXCEPT ![p] = "none"] /\ orphans' = orphans
                         => Running' \subseteq Running
  BY DEF Running, TypeOK
<1>3. UNCHANGED <<job, orphans>> => Running' = Running
  BY DEF Running
\* Steps that neither come to the credentials nor go on from them.
<1>4. ASSUME NEW p \in Procs, NEW s \in Bare, step' = [step EXCEPT ![p] = s],
             present' = present,
             \A q \in Procs \ {p} : todo'[q] = todo[q]
      PROVE  Provided'
  <2>1. ProvidedTo(p)'
    BY <1>4 DEF ProvidedTo, Prompting, Installing, TypeOK
  <2>2. \A q \in Procs \ {p} : step'[q] = step[q]
    BY <1>4 DEF TypeOK
  <2>. QED BY <1>1, <1>4, <2>1, <2>2, ProvidedKept
<1>5. ASSUME done' \subseteq done \cup Running \cup {"alias"}, Running' \subseteq Running,
             reported' = reported, present \subseteq present'
      PROVE  HookHasCredentials'
  BY <1>1, <1>5, HookKept
<1>6. ASSUME NEW p \in Procs,
             Lock(p) \/ StartVM(p) \/ CheckReady(p) \/ CallRefused(p) \/ BeginCredentials(p)
             \/ CallFails(p) \/ Kill(p)
      PROVE  HookHasCredentials' /\ Provided'
  <2>1. PICK s \in Bare : step' = [step EXCEPT ![p] = s]
    BY <1>6, AfterTable
       DEF Lock, StartVM, CheckReady, CallRefused, BeginCredentials, CallFails, Kill
  <2>2. present' = present /\ \A q \in Procs \ {p} : todo'[q] = todo[q]
    BY <1>6 DEF Lock, StartVM, CheckReady, CallRefused, BeginCredentials, CallFails, Kill,
                TypeOK
  <2>3. {job[p]} \ {"none"} \subseteq Running
    BY DEF Running
  <2>4. done' \subseteq done \cup Running /\ reported' = reported
    BY <1>6, <2>3
       DEF Lock, StartVM, CheckReady, CallRefused, BeginCredentials, CallFails, Kill
  <2>5. Running' \subseteq Running
    <3>1. CASE Kill(p)
      BY <2>3, <3>1 DEF Kill, Running, TypeOK
    <3>2. CASE ~Kill(p)
      BY <1>2, <1>3, <1>6, <3>2
         DEF Lock, StartVM, CheckReady, CallRefused, BeginCredentials, CallFails
    <3>. QED BY <3>1, <3>2
  <2>. QED BY <1>4, <1>5, <2>1, <2>2, <2>4, <2>5
<1>7. ASSUME NEW p \in Procs, Call(p) PROVE HookHasCredentials' /\ Provided'
  <2>1. Running' \subseteq Running \cup {step[p]}
    BY <1>7 DEF Call, Running, TypeOK
  <2>2. step[p] = "hook" => present = Creds
    BY DEF Provided, ProvidedTo
  <2>3. UNCHANGED <<done, reported, present, step, todo>>
    BY <1>7 DEF Call
  <2>4. HookHasCredentials'
    BY <1>1, <2>1, <2>2, <2>3, HookKept
  <2>. QED BY <2>3, <2>4 DEF Provided, ProvidedTo, Prompting, Installing
<1>8. ASSUME NEW p \in Procs, CallReturns(p) PROVE HookHasCredentials' /\ Provided'
  <2>1. step[p] = job[p] /\ step[p] \in Scripts /\ job[p] \in Running
    BY <1>8 DEF CallReturns, Waiting, TypeOK, Running
  <2>2. /\ done' = done \cup {job[p]} /\ UNCHANGED <<reported, present, todo>>
        /\ step' = [step EXCEPT ![p] = After(Rank(step[p]))] /\ Running' \subseteq Running
    BY <1>2, <1>8 DEF CallReturns
  <2>3. HookHasCredentials'
    BY <1>5, <2>1, <2>2
  <2>4. CASE step[p] = "hook"
    <3>1. step' = [step EXCEPT ![p] = "report"] /\ present' = Creds
      BY <2>2, <2>4, StepFacts, AfterTable DEF Provided, ProvidedTo
    <3>2. ProvidedTo(p)' /\ \A q \in Procs \ {p} : step'[q] = step[q] /\ todo'[q] = todo[q]
      BY <2>2, <3>1 DEF ProvidedTo, Prompting, Installing, TypeOK
    <3>. QED BY <1>1, <2>2, <2>3, <3>2, ProvidedKept
  <2>5. CASE step[p] # "hook"
    <3>1. After(Rank(step[p])) \in Bare
      BY <2>1, <2>5, StepFacts, AfterTable DEF Scripts
    <3>. QED BY <1>4, <2>2, <2>3, <3>1
  <2>. QED BY <2>4, <2>5
<1>9. ASSUME NEW p \in Procs, InstallAlias(p) PROVE HookHasCredentials' /\ Provided'
  <2>1. /\ done' = done \cup {"alias"} /\ reported' = reported /\ present' = present
        /\ Running' = Running /\ step' = [step EXCEPT ![p] = "creds"]
        /\ todo' = [todo EXCEPT ![p] = Creds]
    BY <1>3, <1>9 DEF InstallAlias
  <2>2. ProvidedTo(p)' /\ \A q \in Procs \ {p} : step'[q] = step[q] /\ todo'[q] = todo[q]
    BY <2>1 DEF ProvidedTo, Prompting, Installing, TypeOK
  <2>. QED BY <1>1, <1>5, <2>1, <2>2, ProvidedKept
<1>10. ASSUME NEW p \in Procs, Report(p) PROVE HookHasCredentials' /\ Provided'
  <2>1. /\ step[p] = "report" /\ UNCHANGED <<done, present, todo>>
        /\ Running' \subseteq Running /\ step' = [step EXCEPT ![p] = "idle"]
    BY <1>2, <1>10 DEF Report
  <2>2. present = Creds
    BY <2>1 DEF Provided, ProvidedTo
  <2>. QED BY <1>1, <1>4, <2>1, <2>2, HookKept
<1>11. ASSUME NEW p \in Procs, CredentialStep(p) PROVE HookHasCredentials' /\ Provided'
  <2>1. /\ done' = done /\ reported' = reported /\ Running' \subseteq Running
        /\ present \subseteq present'
    BY <1>2, <1>3, <1>11 DEF CredentialStep, Probe, Answer, Install, CredentialsDone
  <2>2. HookHasCredentials'
    BY <1>5, <2>1
  <2>3. \A q \in Procs \ {p} : step'[q] = step[q] /\ todo'[q] = todo[q]
    BY <1>11 DEF CredentialStep, Probe, Answer, Install, CredentialsDone, TypeOK
  <2>4. CASE holder = p
    <3>1. step[p] \in Locked
      BY <2>4 DEF OneScriptPerLock, LockCovers
    <3>2. /\ Looking(p) => step[p] = "creds"
          /\ Prompting(p) => step[p] = "prompt"
          /\ Installing(p) => step[p] = "install"
      BY <3>1, StepFacts DEF Looking, Prompting, Installing, Locked
    <3>3. Creds \ todo[p] \subseteq present
      BY <1>11, <3>2
         DEF CredentialStep, Probe, Answer, Install, CredentialsDone, Provided, ProvidedTo
    <3>4. CASE Probe(p)
      <4>0. present' = present
        BY <3>4 DEF Probe
      <4>1. ASSUME todo' = [todo EXCEPT ![p] = todo[p] \ {Current(p)}],
                   step' = step, Current(p) \in present
            PROVE ProvidedTo(p)'
        BY <3>1, <3>2, <3>3, <3>4, <4>0, <4>1, StepFacts
           DEF Probe, ProvidedTo, Looking, Prompting, Installing, TypeOK
      <4>2. ASSUME step' = [step EXCEPT ![p] = "prompt"], todo' = todo
            PROVE ProvidedTo(p)'
        BY <3>3, <3>4, <4>0, <4>2 DEF Probe, ProvidedTo, Prompting, Installing, TypeOK
      <4>3. ASSUME step' = [step EXCEPT ![p] = "idle"]
            PROVE ProvidedTo(p)'
        BY <4>3 DEF ProvidedTo, Prompting, Installing, TypeOK
      <4>4. Place(p, "prompt") = "prompt"
        BY <2>4 DEF Place
      <4>5. ProvidedTo(p)'
        BY <3>4, <4>1, <4>2, <4>3, <4>4 DEF Probe, Goto, Return
      <4>. QED BY <1>1, <2>1, <2>2, <2>3, <4>5, ProvidedKept
    <3>5. CASE Answer(p)
      <4>1. /\ step' = [step EXCEPT ![p] = "install"] /\ UNCHANGED <<todo, present>>
            /\ todo[p] # {}
        BY <2>4, <3>5 DEF Answer, Place, Provided, ProvidedTo
      <4>2. ProvidedTo(p)'
        BY <3>3, <4>1 DEF ProvidedTo, Prompting, Installing, TypeOK
      <4>. QED BY <1>1, <2>1, <2>2, <2>3, <4>2, ProvidedKept
    <3>6. CASE Install(p)
      <4>1. /\ step' = [step EXCEPT ![p] = "creds"]
            /\ todo' = [todo EXCEPT ![p] = todo[p] \ {Current(p)}]
            /\ present' = present \cup {Current(p)}
        BY <2>4, <3>6 DEF Install, Place
      <4>2. ProvidedTo(p)'
        BY <3>3, <4>1 DEF ProvidedTo, Prompting, Installing, TypeOK
      <4>. QED BY <1>1, <2>1, <2>2, <2>3, <4>2, ProvidedKept
    <3>7. CASE CredentialsDone(p)
      <4>1. /\ step' = [step EXCEPT ![p] = After(5)] /\ present' = present /\ present = Creds
        BY <2>4, <3>3, <3>7, StepFacts DEF CredentialsDone, TypeOK
      <4>2. ProvidedTo(p)'
        BY <4>1, AfterTable DEF ProvidedTo, Prompting, Installing, TypeOK
      <4>. QED BY <1>1, <2>1, <2>2, <2>3, <4>2, ProvidedKept
    <3>. QED BY <1>11, <3>4, <3>5, <3>6, <3>7 DEF CredentialStep
  <2>5. CASE holder # p
    <3>1. step[p] \notin Locked
      BY <2>5 DEF OneScriptPerLock, LockCovers
    <3>2. /\ \A s \in {"creds", "prompt", "install"} :
               Place(p, s) = CASE s = "creds" -> "cmdCreds" [] s = "prompt" -> "cmdPrompt"
                               [] s = "install" -> "cmdInstall"
          /\ step[p] \notin {"creds", "prompt", "install", "hook", "report"}
      BY <2>5, <3>1, StepFacts DEF Place, Locked
    <3>3. ProvidedTo(p)'
      <4>1. CASE Probe(p)
        BY <3>2, <4>1 DEF Probe, ProvidedTo, Looking, Prompting, Installing, TypeOK
      <4>2. CASE Answer(p)
        BY <3>2, <4>2 DEF Answer, Provided, ProvidedTo, Prompting, Installing, TypeOK
      <4>3. CASE Install(p)
        BY <3>2, <4>3 DEF Install, ProvidedTo, Prompting, Installing, TypeOK
      <4>4. CASE CredentialsDone(p)
        BY <2>5, <4>4 DEF CredentialsDone, ProvidedTo, Prompting, Installing, TypeOK
      <4>. QED BY <1>11, <4>1, <4>2, <4>3, <4>4 DEF CredentialStep
    <3>. QED BY <1>1, <2>1, <2>2, <2>3, <3>3, ProvidedKept
  <2>. QED BY <2>4, <2>5
<1>12. ASSUME NEW k \in Scripts, OrphanEnds(k) PROVE HookHasCredentials' /\ Provided'
  <2>1. /\ UNCHANGED <<step, todo, present, reported>> /\ done' \subseteq done \cup Running
        /\ Running' \subseteq Running
    BY <1>12, StepFacts DEF OrphanEnds, Running, Scripts
  <2>. QED BY <1>5, <2>1 DEF Provided, ProvidedTo, Prompting, Installing
<1>13. CASE StopVM
  <2>1. UNCHANGED <<todo, present, reported, done>> /\ Running' = {}
    BY <1>13 DEF StopVM, Running
  <2>2. \A p \in Procs : step'[p] \in {"idle", step[p]}
    BY <1>13 DEF StopVM
  <2>. QED BY <1>5, <2>1, <2>2 DEF Provided, ProvidedTo, Prompting, Installing
<1>14. CASE UserStart \/ UNCHANGED vars
  <2>1. UNCHANGED <<step, todo, present, reported, done>> /\ Running' = Running
    BY <1>3, <1>14 DEF UserStart, vars
  <2>. QED BY <1>5, <2>1 DEF Provided, ProvidedTo, Prompting, Installing
<1>. QED BY <1>6, <1>7, <1>8, <1>9, <1>10, <1>11, <1>12, <1>13, <1>14 DEF Next, FinishStep

-----------------------------------------------------------------------------
\* Nothing is begun, done or held.
LEMMA InitIInv == Init => IInv
<1>. SUFFICES ASSUME Init PROVE IInv
  OBVIOUS
<1>1. TypeOK
  <2>1. errors \in BOOLEAN /\ reported \in BOOLEAN /\ replace \in [Procs -> BOOLEAN]
    BY DEF Init
  <2>2. step \in [Procs -> {"idle"} \cup Locked \cup CredCommand]
        /\ job \in [Procs -> Scripts \cup {"none"}] /\ todo \in [Procs -> SUBSET Creds]
    BY DEF Init
  <2>. QED BY <2>1, <2>2, NumbersAssumption DEF Init, TypeOK
<1>2. "idle" \notin Locked
  BY StepFacts DEF Locked
<1>3. OneScriptPerLock /\ Waiting
  BY <1>2, ProcsAssumption DEF Init, OneScriptPerLock, OneFinish, LockCovers, Waiting
<1>4. Running = {}
  BY DEF Init, Running
<1>5. InOrder /\ HookHasCredentials
  BY <1>4 DEF Init, InOrder, HookHasCredentials
<1>6. Progress /\ Provided
  BY StepFacts DEF Init, Progress, Before, Provided, ProvidedTo, Prompting, Installing
<1>. QED BY <1>1, <1>3, <1>5, <1>6 DEF IInv

\* The invariant is inductive.
LEMMA NextIInv == IInv /\ [Next]_vars => IInv'
BY NextTyped, NextLock, NextOrder, NextCreds DEF IInv

\* The inductive invariant holds in every reachable state.
THEOREM Invariance == Spec => []IInv
BY InitIInv, NextIInv, PTL DEF Spec

\* Every process is at a place of its program, with declared credentials ahead.
THEOREM TypeCorrect == Spec => []TypeOK
<1>1. IInv => TypeOK
  BY DEF IInv
<1>. QED BY <1>1, Invariance, PTL

\* The flock: one finish at a time, and at most one script somebody waits for.
THEOREM Exclusion == Spec => []OneScriptPerLock
<1>1. IInv => OneScriptPerLock
  BY DEF IInv
<1>. QED BY <1>1, Invariance, PTL

\* What is done and at work is a prefix of finish's sequence, orphans included,
\* and "Ready" is printed after all of it.
THEOREM Ordering == Spec => []InOrder
<1>1. IInv => InOrder
  BY DEF IInv
<1>. QED BY <1>1, Invariance, PTL

\* The hook never runs without the declared credentials.
THEOREM HookIsProvided == Spec => []HookHasCredentials
<1>1. IInv => HookHasCredentials
  BY DEF IInv
<1>. QED BY <1>1, Invariance, PTL
=============================================================================
