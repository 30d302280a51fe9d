--------------------------- MODULE CreateVMProofs ---------------------------
(***************************************************************************)
(* What create guarantees for any number of creates of one name, failures, *)
(* kills and deletions.  Unless a directory was deleted under the create   *)
(* that copies to it, the place of a create says that the directory is its *)
(* own (Owned) and which files it has copied, in whosever instance that    *)
(* is.  Unless an instance was deleted under its create, the instance is   *)
(* its own too (AtHome).                                                   *)
(***************************************************************************)
EXTENDS CreateVM, TLAPS

Copying == {"known", "copying"}
Saving == Copying \cup {"saved"}
Owning == Saving \cup {"created"}

\* The directory is that of the create at work in it.
Owned == \A c \in Creates : pc[c] \in Saving => state = c

\* Nothing is saved without the directory, nor that without an instance.
Nested ==
  /\ state = None => manifest = None /\ \A f \in FileNames : files[f] = Absent
  /\ state # None => instance # None
  /\ manifest # None => pc[manifest] = "saved"

Whole(c, f) == files[f] = IF f \in plan[c] THEN [by |-> c, whole |-> TRUE] ELSE Absent

\* The files before the one create c is at are as planned, those after it absent.
Copied(c) ==
  \A i \in 1..3 :
    /\ i < copying[c] => Whole(c, Order[i])
    /\ i > copying[c] \/ (i = copying[c] /\ pc[c] = "known") =>
         files[Order[i]] = Absent
    /\ i = copying[c] /\ pc[c] = "copying" =>
         Order[i] \in plan[c] /\ files[Order[i]] = [by |-> c, whole |-> FALSE]

CopiedSoFar == \A c \in Creates : pc[c] \in Copying => Copied(c)

\* The files of a create that has written the manifest are as it planned them.
Complete == manifest # None => \A f \in FileNames : Whole(manifest, f)

Sound == Owned /\ Nested /\ CopiedSoFar /\ Complete

Counted ==
  \A c \in Creates :
    /\ pc[c] = "copying" => copying[c] <= 3
    /\ pc[c] \in {"listed", "prepared", "created"} => copying[c] = 1

\* Each create works in the instance it has made.
AtHome ==
  /\ ~evicted
  /\ \A c \in Creates : pc[c] \in Owning => instance = c
  /\ state # None => state = instance

IInv ==
  /\ TypeOK
  /\ Counted
  /\ ~evicted => Sound
  /\ ~hasty => AtHome

-----------------------------------------------------------------------------
\* The copying loop takes each file once.
LEMMA OrderFacts ==
  /\ \A i \in 1..3 : Order[i] \in FileNames
  /\ \A f \in FileNames : \E i \in 1..3 : f = Order[i]
  /\ \A i, j \in 1..3 : Order[i] = Order[j] => i = j
<1>1. /\ Order[1] = "project" /\ Order[2] = "dotfiles" /\ Order[3] = "hook"
  BY DEF Order
<1>2. \A i \in 1..3 : i = 1 \/ i = 2 \/ i = 3
  OBVIOUS
<1>. QED BY <1>1, <1>2 DEF FileNames

\* Nothing is saved before the first create.
LEMMA InitIInv == Init => IInv
<1>. SUFFICES ASSUME Init PROVE IInv
  OBVIOUS
<1>1. TypeOK
  <2>1. {"project"} \in Plans
    BY DEF Plans, FileNames, Order
  <2>2. plan \in [Creates -> Plans]
    BY <2>1 DEF Init
  <2>3. files \in [FileNames -> [by : Creates \cup {None}, whole : BOOLEAN]]
    BY DEF Init, Absent
  <2>4. pc \in [Creates -> Places] /\ copying \in [Creates -> 1..4]
    BY DEF Init, Places
  <2>5. faults \in 0..MaxFaults /\ deletes \in 0..MaxDeletes
    BY BoundsAssumption DEF Init
  <2>7. hasty \in BOOLEAN /\ evicted \in BOOLEAN
    BY Zenon DEF Init
  <2>6. instance \in Creates \cup {None} /\ state \in Creates \cup {None}
        /\ manifest \in Creates \cup {None}
    BY DEF Init
  <2>. QED BY <2>2, <2>3, <2>4, <2>5, <2>6, <2>7 DEF TypeOK
<1>2. \A c \in Creates : pc[c] = "idle"
  BY DEF Init
<1>3. Counted /\ Owned /\ CopiedSoFar
  BY <1>2 DEF Counted, Owned, CopiedSoFar, Owning, Saving, Copying
<1>4. Nested /\ Complete
  BY DEF Init, Nested, Complete
<1>5. AtHome
  BY <1>2 DEF Init, AtHome, Owning, Saving, Copying
<1>. QED BY <1>1, <1>3, <1>4, <1>5 DEF IInv, Sound

\* A create goes on within its places, and copies one file after the other.
LEMMA NextTyped == TypeOK /\ Counted /\ [Next]_vars => TypeOK' /\ Counted'
<1>. SUFFICES ASSUME TypeOK, Counted, [Next]_vars PROVE TypeOK' /\ Counted'
  OBVIOUS
<1>. USE BoundsAssumption, NoneAssumption DEF TypeOK, Counted, Places, Goto, Saved, Bounds
<1>1. CASE Delete
  BY <1>1 DEF Delete, Absent
<1>2. ASSUME NEW c \in Creates, Create(c) PROVE TypeOK' /\ Counted'
  <2>1. CASE CheckName(c)
    BY <2>1 DEF CheckName
  <2>2. CASE Prepare(c)
    BY <2>2 DEF Prepare
  <2>3. CASE CreateInstance(c)
    BY <2>3 DEF CreateInstance
  <2>4. CASE MakeState(c)
    BY <2>4 DEF MakeState
  <2>5. CASE OpenCopy(c)
    <3>1. copying[c] \in 1..3 /\ Order[copying[c]] \in FileNames
      BY <2>5, OrderFacts DEF OpenCopy
    <3>2. \E q \in {"known", "copying", "idle"}, n \in 1..4 :
            /\ pc' = [pc EXCEPT ![c] = q] /\ copying' = [copying EXCEPT ![c] = n]
            /\ q = "copying" => n <= 3
      <4>1. copying[c] + 1 \in 1..4 /\ copying = [copying EXCEPT ![c] = copying[c]]
        BY <3>1
      <4>. QED BY <2>5, <3>1, <4>1 DEF OpenCopy
    <3>3. files' \in [FileNames -> [by : Creates \cup {None}, whole : BOOLEAN]]
      <4>1. \/ files' = files
            \/ files' = [files EXCEPT ![Order[copying[c]]] = [by |-> c, whole |-> FALSE]]
        BY <2>5 DEF OpenCopy
      <4>2. [by |-> c, whole |-> FALSE] \in [by : Creates \cup {None}, whole : BOOLEAN]
        BY Zenon
      <4>3. ASSUME NEW r \in [by : Creates \cup {None}, whole : BOOLEAN],
                   files' = [files EXCEPT ![Order[copying[c]]] = r]
            PROVE  files' \in [FileNames -> [by : Creates \cup {None}, whole : BOOLEAN]]
        BY <3>1, <4>3
      <4>. QED BY <4>1, <4>2, <4>3
    <3>. QED BY <2>5, <3>2, <3>3 DEF OpenCopy
  <2>6. CASE CloseCopy(c)
    <3>1. copying[c] \in 1..3 /\ Order[copying[c]] \in FileNames
      BY <2>6, OrderFacts DEF CloseCopy
    <3>2. /\ copying' \in [Creates -> 1..4]
          /\ pc' \in [Creates -> Places]
          /\ pc'[c] = "known" /\ \A d \in Creates \ {c} :
               pc'[d] = pc[d] /\ copying'[d] = copying[d]
      BY <2>6, <3>1 DEF CloseCopy
    <3>3. files' \in [FileNames -> [by : Creates \cup {None}, whole : BOOLEAN]]
      BY <2>6, <3>1 DEF CloseCopy
    <3>. QED BY <2>6, <3>2, <3>3 DEF CloseCopy
  <2>7. CASE WriteManifest(c)
    BY <2>7 DEF WriteManifest
  <2>. QED BY <1>2, <2>1, <2>2, <2>3, <2>4, <2>5, <2>6, <2>7 DEF Create
<1>3. ASSUME NEW c \in Creates, Fail(c) PROVE TypeOK' /\ Counted'
  BY <1>3 DEF Fail
<1>4. CASE UNCHANGED vars
  BY <1>4 DEF vars
<1>. QED BY <1>1, <1>2, <1>3, <1>4 DEF Next

-----------------------------------------------------------------------------
\* A create that has not made the directory yet, or gives up, leaves all that is
\* saved as it is.
LEMMA PassiveSound ==
  ASSUME TypeOK, Sound, NEW c \in Creates, NEW s \in Places \ Saving,
         pc[c] # "saved", pc' = [pc EXCEPT ![c] = s],
         \A d \in Creates \ {c} : plan'[d] = plan[d] /\ copying'[d] = copying[d],
         UNCHANGED Saved
  PROVE  Sound'
<1>. USE NoneAssumption DEF TypeOK, Saved, Owning, Saving, Copying
<1>1. Owned'
  BY DEF Sound, Owned
<1>2. Nested'
  BY DEF Sound, Nested, Absent
<1>3. CopiedSoFar'
  <2>1. \A d \in Creates : pc'[d] \in Copying =>
          pc[d] = pc'[d] /\ plan'[d] = plan[d] /\ copying'[d] = copying[d]
    OBVIOUS
  <2>2. ASSUME NEW d \in Creates, pc'[d] \in Copying PROVE Copied(d)'
    <3>1. Copied(d)
      BY <2>1, <2>2 DEF Sound, CopiedSoFar
    <3>. QED BY <2>1, <2>2, <3>1 DEF Copied, Whole, Absent
  <2>. QED BY <2>2 DEF CopiedSoFar
<1>4. Complete'
  <2>1. manifest # None => manifest \in Creates \ {c}
    BY DEF Sound, Nested
  <2>2. manifest # None => plan'[manifest] = plan[manifest]
    BY <2>1
  <2>. QED BY <2>2 DEF Sound, Complete, Whole, Absent
<1>. QED BY <1>1, <1>2, <1>3, <1>4 DEF Sound

\* The create that copies is the only one, and there is no manifest yet.
LEMMA AloneAtWork ==
  ASSUME TypeOK, Sound, NEW c \in Creates, pc[c] \in Copying
  PROVE  /\ state = c /\ instance # None /\ manifest = None
         /\ \A d \in Creates \ {c} : pc[d] \notin Saving
BY NoneAssumption DEF TypeOK, Sound, Owned, Nested, Saving, Copying

\* It goes on in its own directory: all the rest of what is known stays true.
LEMMA WorkSound ==
  ASSUME TypeOK, Sound, NEW c \in Creates, pc[c] \in Copying,
         NEW s \in Saving, pc' = [pc EXCEPT ![c] = s],
         UNCHANGED <<plan, instance, state>>,
         s \in Copying => manifest' = manifest /\ Copied(c)',
         s = "saved" => manifest' = c /\ \A f \in FileNames : Whole(c, f)'
  PROVE  Sound'
<1>. USE NoneAssumption DEF TypeOK, Owning, Saving, Copying
<1>1. /\ state = c /\ instance # None /\ manifest = None
      /\ \A d \in Creates \ {c} : pc[d] \notin Saving
  BY AloneAtWork
<1>2. pc'[c] = s /\ \A d \in Creates \ {c} : pc'[d] \notin Saving
  BY <1>1
<1>3. Owned' /\ Nested' /\ CopiedSoFar'
  BY <1>1, <1>2 DEF Owned, Nested, CopiedSoFar
<1>4. Complete'
  BY <1>1 DEF Complete
<1>. QED BY <1>3, <1>4 DEF Sound

\* What is saved stays sound over every step, until a directory is deleted under
\* the create that copies to it.
LEMMA NextSound ==
  ASSUME IInv, [Next]_vars, ~evicted' PROVE Sound'
<1>. USE NoneAssumption DEF TypeOK, Saved, Bounds, Goto
<1>0. IInv /\ TypeOK /\ Sound
  BY DEF IInv, Sound, Next, Create, vars, CheckName, Prepare, CreateInstance,
         MakeState, OpenCopy, CloseCopy, WriteManifest, Fail, Delete
<1>1. CASE Delete
  <2>1. \A d \in Creates : pc'[d] \notin Saving
    BY <1>0, <1>1 DEF Delete, Sound, Owned, Saving, Copying
  <2>2. Nested' /\ Complete'
    BY <1>1 DEF Delete, Nested, Complete, Absent
  <2>. QED BY <2>1, <2>2 DEF Sound, Owned, CopiedSoFar, Owning, Saving, Copying
<1>2. ASSUME NEW c \in Creates,
             CheckName(c) \/ Prepare(c) \/ Fail(c)
      PROVE  Sound'
  <2>1. PICK s \in {"idle", "listed", "prepared"} : pc' = [pc EXCEPT ![c] = s]
    BY <1>2 DEF CheckName, Prepare, Fail
  <2>2. s \in Places \ Saving /\ pc[c] # "saved"
    BY <1>2, <2>1 DEF CheckName, Prepare, Fail, Places, Owning, Saving, Copying
  <2>3. \A d \in Creates \ {c} : plan'[d] = plan[d] /\ copying'[d] = copying[d]
    BY <1>0, <1>2 DEF CheckName, Prepare, Fail
  <2>4. UNCHANGED Saved
    BY <1>2 DEF CheckName, Prepare, Fail
  <2>. QED BY <1>0, <2>1, <2>2, <2>3, <2>4, PassiveSound
<1>3. ASSUME NEW c \in Creates, CreateInstance(c) \/ MakeState(c) PROVE Sound'
  <2>1. CASE pc' = [pc EXCEPT ![c] = "idle"]
    <3>1. "idle" \in Places \ Saving /\ pc[c] # "saved" /\ UNCHANGED <<plan, copying>>
      BY <1>3 DEF CreateInstance, MakeState, Places, Owning, Saving, Copying
    <3>2. CASE UNCHANGED Saved
      BY <1>0, <2>1, <3>1, <3>2, PassiveSound
    <3>3. CASE ~UNCHANGED Saved
      BY <1>0, <1>3, <2>1, <3>3 DEF CreateInstance, MakeState
    <3>. QED BY <3>2, <3>3
  <2>2. CASE CreateInstance(c) /\ pc' = [pc EXCEPT ![c] = "created"]
    <3>1. instance = None /\ instance' = c /\ pc'[c] = "created"
          /\ UNCHANGED <<copying, plan, state, files, manifest>>
      BY <1>0, <2>2 DEF CreateInstance
    <3>2. state = None /\ \A d \in Creates : pc[d] \notin Saving
      BY <1>0, <3>1 DEF Sound, Owned, Nested
    <3>3. manifest = None
      BY <1>0, <3>2 DEF Sound, Nested
    <3>. QED BY <1>0, <2>2, <3>1, <3>2, <3>3
             DEF Sound, Owned, Nested, CopiedSoFar, Complete, Owning, Saving, Copying, Absent
  <2>3. CASE MakeState(c) /\ pc' = [pc EXCEPT ![c] = "known"]
    <3>1. state = None /\ state' = c /\ pc[c] = "created" /\ pc'[c] = "known"
          /\ UNCHANGED <<copying, plan, instance, files, manifest>>
      BY <1>0, <2>3 DEF MakeState
    <3>2. copying[c] = 1
      BY <1>0, <3>1 DEF IInv, Counted
    <3>3. \A f \in FileNames : files[f] = Absent
      BY <1>0, <3>1 DEF Sound, Nested
    <3>4. /\ instance # None /\ manifest = None
          /\ \A d \in Creates \ {c} : pc[d] \notin Saving
      BY <1>0, <2>3, <3>1 DEF MakeState, Sound, Owned, Nested
    <3>5. Copied(c)'
      <4>1. \A i \in 1..3 : files'[Order[i]] = Absent /\ ~(i < copying'[c])
        BY <3>1, <3>2, <3>3, OrderFacts
      <4>2. pc'[c] = "known"
        BY <3>1
      <4>. QED BY <4>1, <4>2 DEF Copied, Absent
    <3>6. \A d \in Creates \ {c} : pc'[d] \notin Saving
      BY <1>0, <2>3, <3>4
    <3>7. Owned' /\ Nested' /\ CopiedSoFar'
      BY <3>1, <3>4, <3>5, <3>6
         DEF Owned, Nested, CopiedSoFar, Owning, Saving, Copying
    <3>. QED BY <3>1, <3>4, <3>7 DEF Sound, Complete
  <2>. QED BY <1>3, <2>1, <2>2, <2>3 DEF CreateInstance, MakeState
<1>4. ASSUME NEW c \in Creates, OpenCopy(c) PROVE Sound'
  <2>. DEFINE k == copying[c]
  <2>1. k \in 1..3 /\ pc[c] = "known" /\ UNCHANGED <<plan, instance, state, manifest>>
        /\ Order[k] \in FileNames
    BY <1>0, <1>4, OrderFacts DEF OpenCopy
  <2>2. Copied(c)
    BY <1>0, <2>1 DEF Sound, CopiedSoFar, Copying
  <2>3. CASE pc' = [pc EXCEPT ![c] = "known"]
    <3>1. Order[k] \notin plan[c] /\ files' = files /\ copying'[c] = k + 1 /\ pc'[c] = "known"
      BY <1>0, <1>4, <2>3 DEF OpenCopy
    <3>2. files[Order[k]] = Absent
      BY <2>1, <2>2 DEF Copied
    <3>3. Copied(c)'
      BY <2>1, <2>2, <3>1, <3>2 DEF Copied, Whole, Absent
    <3>. QED BY <1>0, <2>1, <2>3, <3>3, WorkSound DEF Saving, Copying
  <2>4. CASE pc' = [pc EXCEPT ![c] = "copying"]
    <3>1. /\ Order[k] \in plan[c] /\ copying' = copying /\ pc'[c] = "copying"
          /\ files' = [files EXCEPT ![Order[k]] = [by |-> c, whole |-> FALSE]]
      BY <1>0, <1>4, <2>4 DEF OpenCopy
    <3>2. \A i \in 1..3 : files'[Order[i]] = IF i = k THEN [by |-> c, whole |-> FALSE]
                                                     ELSE files[Order[i]]
      BY <1>0, <2>1, <3>1, OrderFacts
    <3>3. Copied(c)'
      BY <2>1, <2>2, <3>1, <3>2 DEF Copied, Whole, Absent
    <3>. QED BY <1>0, <2>1, <2>4, <3>3, WorkSound DEF Saving, Copying
  <2>5. CASE pc' = [pc EXCEPT ![c] = "idle"]
    <3>1. "idle" \in Places \ Saving /\ UNCHANGED <<files, copying>>
      BY <1>0, <1>4, <2>5 DEF OpenCopy, Places, Owning, Saving, Copying
    <3>. QED BY <1>0, <2>1, <2>5, <3>1, PassiveSound
  <2>. QED BY <1>4, <2>3, <2>4, <2>5 DEF OpenCopy
<1>5. ASSUME NEW c \in Creates, CloseCopy(c) PROVE Sound'
  <2>. DEFINE k == copying[c]
  <2>1. /\ pc[c] = "copying" /\ pc'[c] = "known" /\ copying'[c] = k + 1
        /\ UNCHANGED <<plan, instance, state, manifest>>
    BY <1>0, <1>5 DEF CloseCopy
  <2>2. k \in 1..3 /\ Order[k] \in FileNames
    BY <1>0, <2>1, OrderFacts DEF IInv, Counted
  <2>3. Copied(c)
    BY <1>0, <2>1 DEF Sound, CopiedSoFar, Copying
  <2>4. Order[k] \in plan[c] /\ files[Order[k]] = [by |-> c, whole |-> FALSE]
    BY <2>1, <2>2, <2>3 DEF Copied
  <2>5. files' = [files EXCEPT ![Order[k]] = [by |-> c, whole |-> TRUE]]
    <3>1. files' = [files EXCEPT ![Order[k]] =
                      IF @.by = c THEN [by |-> c, whole |-> TRUE] ELSE @]
      BY <1>5, Zenon DEF CloseCopy
    <3>2. files[Order[k]].by = c
      BY <2>4
    <3>. QED BY <3>1, <3>2, Zenon
  <2>6. \A i \in 1..3 : files'[Order[i]] = IF i = k THEN [by |-> c, whole |-> TRUE]
                                                   ELSE files[Order[i]]
    BY <1>0, <2>2, <2>5, OrderFacts
  <2>7. Copied(c)'
    BY <2>1, <2>2, <2>3, <2>4, <2>6 DEF Copied, Whole, Absent
  <2>. QED BY <1>0, <1>5, <2>1, <2>7, WorkSound DEF CloseCopy, Saving, Copying
<1>6. ASSUME NEW c \in Creates, WriteManifest(c) PROVE Sound'
  <2>1. pc[c] = "known" /\ copying[c] = 4 /\ UNCHANGED <<plan, instance, state, files>>
    BY <1>6 DEF WriteManifest
  <2>2. state # None
    BY <1>0, <2>1 DEF Sound, Owned, Saving, Copying
  <2>3. pc' = [pc EXCEPT ![c] = "saved"] /\ manifest' = c
    BY <1>6, <2>2 DEF WriteManifest
  <2>4. \A i \in 1..3 : Whole(c, Order[i])
    <3>1. Copied(c)
      BY <1>0, <2>1 DEF Sound, CopiedSoFar, Copying
    <3>. QED BY <2>1, <3>1 DEF Copied
  <2>5. \A f \in FileNames : Whole(c, f)
    BY <2>4, OrderFacts
  <2>6. \A f \in FileNames : Whole(c, f)'
    BY <2>1, <2>5 DEF Whole, Absent
  <2>. QED BY <1>0, <2>1, <2>3, <2>6, WorkSound DEF Saving, Copying
<1>7. CASE UNCHANGED vars
  BY <1>0, <1>7 DEF vars, Sound, Owned, Nested, CopiedSoFar, Copied, Whole, Complete, Absent
<1>. QED BY <1>1, <1>2, <1>3, <1>4, <1>5, <1>6, <1>7 DEF Next, Create

\* A create stays in the instance it has made until that is deleted under it.
LEMMA NextAtHome ==
  ASSUME IInv, [Next]_vars, ~hasty' PROVE AtHome'
<1>. USE NoneAssumption DEF TypeOK, Saved, Bounds, Goto, Owning, Saving, Copying
<1>0. TypeOK /\ AtHome /\ Nested /\ Owned
  BY DEF IInv, AtHome, Sound, Next, Create, vars, CheckName, Prepare, CreateInstance,
         MakeState, OpenCopy, CloseCopy, WriteManifest, Fail, Delete
<1>1. CASE Delete
  <2>1. \A d \in Creates : pc'[d] \notin Owning
    BY <1>0, <1>1 DEF Delete, AtHome
  <2>2. ~evicted'
    BY <1>0, <1>1 DEF Delete, AtHome
  <2>. QED BY <1>1, <2>1, <2>2 DEF Delete, AtHome
<1>2. ASSUME NEW c \in Creates, CreateInstance(c) PROVE AtHome'
  BY <1>0, <1>2 DEF CreateInstance, AtHome, Nested
<1>3. ASSUME NEW c \in Creates, MakeState(c) PROVE AtHome'
  BY <1>0, <1>3 DEF MakeState, AtHome
<1>4. ASSUME NEW c \in Creates,
             CheckName(c) \/ Prepare(c) \/ OpenCopy(c) \/ CloseCopy(c)
               \/ WriteManifest(c) \/ Fail(c)
      PROVE  AtHome'
  <2>1. UNCHANGED <<instance, state, evicted>>
    BY <1>4 DEF CheckName, Prepare, OpenCopy, CloseCopy, WriteManifest, Fail
  <2>2. \A d \in Creates : pc'[d] \in Owning => pc[d] \in Owning
    BY <1>0, <1>4 DEF CheckName, Prepare, OpenCopy, CloseCopy, WriteManifest, Fail
  <2>. QED BY <1>0, <2>1, <2>2 DEF AtHome
<1>5. CASE UNCHANGED vars
  BY <1>0, <1>5 DEF vars, AtHome
<1>. QED BY <1>1, <1>2, <1>3, <1>4, <1>5 DEF Next, Create

\* The invariant is inductive.
LEMMA NextIInv == IInv /\ [Next]_vars => IInv'
BY NextTyped, NextSound, NextAtHome DEF IInv

-----------------------------------------------------------------------------
\* Every create is at one of its places, with its files named and counted.
THEOREM TypeCorrect == Spec => []TypeOK
<1>1. IInv => TypeOK
  BY DEF IInv
<1>. QED BY <1>1, InitIInv, NextIInv, PTL DEF Spec

\* The inductive invariant holds in every reachable state.
THEOREM Invariance == Spec => []IInv
BY InitIInv, NextIInv, PTL DEF Spec

\* The manifest stands beside the complete files of the create that wrote it, in
\* whosever instance that is.
THEOREM ManifestComplete == Spec => []ManifestIsComplete
<1>1. IInv => ManifestIsComplete
  BY DEF IInv, Sound, Complete, Whole, ManifestIsComplete
<1>. QED BY <1>1, Invariance, PTL

\* Instance, saved state and manifest are those of one create.
THEOREM OneCreateOnly == Spec => []OneCreate
<1>1. IInv => OneCreate
  BY DEF IInv, TypeOK, AtHome, Sound, Nested, OneCreate, Owning, Saving
<1>. QED BY <1>1, Invariance, PTL
=============================================================================
