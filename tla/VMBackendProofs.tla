--------------------------- MODULE VMBackendProofs ---------------------------
(***************************************************************************)
(* Proofs about VMBackend and the Verification it extends, for any number  *)
(* of invocations, policies and instances.  First one verifier, then those *)
(* of a guest: what a verifier claims rests on its canary.  Then the       *)
(* backend: who has been into an instance, and how far the selection of an *)
(* invocation that has been alone has come.                                *)
(***************************************************************************)
EXTENDS VMBackend, TLAPS

Ats == {"idle", "sum", "policy", "ask", "features", "fixture", "session", "clean",
        "passed", "failed"}
Views == [outside : Access, secret : Access \cup {"error"}, real : Access]
Verifiers ==
  [at : Ats, agent : Agents, override : BOOLEAN, policy : Recorded,
   request : Requests, line : {"none", "agrees", "differs", "other"},
   right : BOOLEAN, reports : 0..1, results : 0..1, seen : Views,
   owns : BOOLEAN, failed : BOOLEAN, unearned : BOOLEAN, disturbed : BOOLEAN]

-----------------------------------------------------------------------------
(* One verifier                                                            *)

\* A field at a time, each new value of its own kind.
LEMMA Updated ==
  ASSUME NEW r \in Verifiers
  PROVE  /\ \A x \in Ats : [r EXCEPT !.at = x] \in Verifiers
         /\ \A x \in Agents : [r EXCEPT !.agent = x] \in Verifiers
         /\ \A x \in BOOLEAN : [r EXCEPT !.override = x] \in Verifiers
         /\ \A x \in Recorded : [r EXCEPT !.policy = x] \in Verifiers
         /\ \A x \in Requests : [r EXCEPT !.request = x] \in Verifiers
         /\ \A x \in {"none", "agrees", "differs", "other"} : [r EXCEPT !.line = x] \in Verifiers
         /\ \A x \in BOOLEAN : [r EXCEPT !.right = x] \in Verifiers
         /\ \A x \in 0..1 : [r EXCEPT !.reports = x] \in Verifiers
         /\ \A x \in 0..1 : [r EXCEPT !.results = x] \in Verifiers
         /\ \A x \in Views : [r EXCEPT !.seen = x] \in Verifiers
         /\ \A x \in BOOLEAN : [r EXCEPT !.owns = x] \in Verifiers
         /\ \A x \in BOOLEAN : [r EXCEPT !.failed = x] \in Verifiers
         /\ \A x \in BOOLEAN : [r EXCEPT !.unearned = x] \in Verifiers
         /\ \A x \in BOOLEAN : [r EXCEPT !.disturbed = x] \in Verifiers
BY DEF Verifiers

\* The constants among those values.
LEMMA Values ==
  /\ 0 \in 0..1 /\ 1 \in 0..1 /\ Requests = {1, 2, 3}
  /\ Agents = {"codex", "claude"} /\ "none" \in Recorded /\ NotSeen \in Views
  /\ TRUE \in BOOLEAN /\ FALSE \in BOOLEAN
<1>1. NotSeen \in Views
  BY DEF NotSeen, Views, Access
<1>2. Requests = {1, 2, 3}
  BY DEF Requests
<1>. QED BY <1>1, <1>2 DEF Agents, Recorded

\* A verifier that has not started, or has ended.
LEMMA UnstartedTyped == Unstarted \in Verifiers
<1>1. 1 \in Requests /\ "codex" \in Agents /\ "none" \in Recorded /\ NotSeen \in Views
  BY Values
<1>. QED BY <1>1 DEF Verifiers, Unstarted, Ats

\* A failure keeps all but the verdict.
LEMMA FailingTyped ==
  ASSUME NEW r \in Verifiers
  PROVE  /\ Failing(r) \in Verifiers
         /\ \A s \in Ats : FailingTo(r, s) \in Verifiers
<1>1. [r EXCEPT !.failed = TRUE] \in Verifiers
  BY Updated, Values
<1>2. [[r EXCEPT !.failed = TRUE] EXCEPT !.unearned = FALSE] \in Verifiers
  BY <1>1, Updated, Values
<1>3. Failing(r) \in Verifiers
  BY <1>2 DEF Failing
<1>. QED BY <1>3, Updated DEF FailingTo

\* The next session of an agent, or the end of its sessions.
LEMMA NextSessionTyped ==
  ASSUME NEW r \in Verifiers PROVE NextSession(r) \in Verifiers
<1>. DEFINE again == ~r.override /\ Overridable(r)
            s == IF again THEN "session" ELSE "clean"
<1>1. again \in BOOLEAN
  OBVIOUS
<1>2. s \in Ats
  BY DEF Ats
<1>3. NextSession(r) = [r EXCEPT !.at = s, !.override = again, !.reports = 0,
                                 !.results = 0, !.seen = NotSeen]
  BY DEF NextSession
<1>. HIDE DEF again, s
<1>4. [r EXCEPT !.at = s] \in Verifiers
  BY <1>2, Updated
<1>5. [[r EXCEPT !.at = s] EXCEPT !.override = again] \in Verifiers
  BY <1>1, <1>4, Updated
<1>6. [[[r EXCEPT !.at = s] EXCEPT !.override = again] EXCEPT !.reports = 0] \in Verifiers
  BY <1>5, Updated, Values
<1>7. [[[[r EXCEPT !.at = s] EXCEPT !.override = again] EXCEPT !.reports = 0]
         EXCEPT !.results = 0] \in Verifiers
  BY <1>6, Updated, Values
<1>8. [[[[[r EXCEPT !.at = s] EXCEPT !.override = again] EXCEPT !.reports = 0]
         EXCEPT !.results = 0] EXCEPT !.seen = NotSeen] \in Verifiers
  BY <1>7, Updated, Values
<1>. QED BY <1>3, <1>8

-----------------------------------------------------------------------------
(* What a verifier's step does to what is claimed of it                    *)

\* Nothing is unearned and the probe's report is the truth or an error, unless
\* the canary has been in trouble ...
Honest(r) ==
  ~r.disturbed => ~r.unearned /\ r.seen.secret \in {r.seen.real, "error"}
\* ... and then the canary is there.
Canaried(r) == r.owns /\ ~r.disturbed => pgpass = "canary"

\* A step of v that leaves ~/.pgpass alone.
Onward(v, r) ==
  /\ ver' = [ver EXCEPT ![v] = r]
  /\ pgpass' = pgpass
  /\ r.owns = ver[v].owns /\ r.disturbed = ver[v].disturbed
  /\ ver[v].at # "idle"
  /\ Honest(ver[v]) /\ Canaried(ver[v]) => Honest(r)

\* Failing forgets what was unearned.
LEMMA FailingOnward ==
  ASSUME VerifierTypeOK, NEW v \in Procs, NEW s \in Ats, ver[v].at # "idle", pgpass' = pgpass,
         ver' = [ver EXCEPT ![v] = FailingTo(@, s)]
  PROVE  \E r \in Verifiers : Onward(v, r)
<1>1. ver[v] \in Verifiers
  BY DEF VerifierTypeOK, Verifiers, Ats, Views
<1>2. FailingTo(ver[v], s) \in Verifiers
  BY <1>1, FailingTyped
<1>3. Onward(v, FailingTo(ver[v], s))
  BY <1>1 DEF Onward, FailingTo, Failing, Honest, Verifiers
<1>. QED BY <1>2, <1>3

\* Only the place changes.
LEMMA PlaceOnward ==
  ASSUME VerifierTypeOK, NEW v \in Procs, NEW s \in Ats, ver[v].at # "idle", pgpass' = pgpass,
         Goto(v, s)
  PROVE  \E r \in Verifiers : Onward(v, r)
<1>. DEFINE r == [ver[v] EXCEPT !.at = s]
<1>1. ver[v] \in Verifiers
  BY DEF VerifierTypeOK, Verifiers, Ats, Views
<1>2. r \in Verifiers
  BY <1>1, Updated
<1>3. ver' = [ver EXCEPT ![v] = r]
  BY DEF Goto
<1>4. Onward(v, r)
  BY <1>1, <1>3 DEF Onward, Honest, Verifiers
<1>. QED BY <1>2, <1>4

\* The reading of the policy.
LEMMA ReadingOnward ==
  ASSUME VerifierTypeOK, NEW v \in Procs, Missing(v) \/ ReadSum(v) \/ ReadPolicy(v)
  PROVE  \E r \in Verifiers : Onward(v, r)
<1>1. ver[v] \in Verifiers
  BY DEF VerifierTypeOK, Verifiers, Ats, Views
<1>2. CASE Missing(v)
  BY <1>2, FailingOnward DEF Missing, Ats
<1>3. CASE ReadSum(v)
  <2>. DEFINE s == sum[ver[v].agent]
              r == [ver[v] EXCEPT !.policy = s, !.at = "policy"]
  <2>1. s \in Recorded
    BY <1>1 DEF VerifierTypeOK, Verifiers
  <2>2. ver' = [ver EXCEPT ![v] = r] /\ pgpass' = pgpass /\ ver[v].at # "idle"
    BY <1>3 DEF ReadSum, VerifierTypeOK
  <2>. HIDE DEF s
  <2>3. [ver[v] EXCEPT !.policy = s] \in Verifiers
    BY <1>1, <2>1, Updated
  <2>4. "policy" \in Ats
    BY DEF Ats
  <2>5. [[ver[v] EXCEPT !.policy = s] EXCEPT !.at = "policy"] \in Verifiers
    BY <2>3, <2>4, Updated
  <2>6. Onward(v, r)
    BY <1>1, <2>2 DEF Onward, Honest, Verifiers
  <2>. QED BY <2>5, <2>6
<1>4. CASE ReadPolicy(v)
  BY <1>4, FailingOnward, PlaceOnward DEF ReadPolicy, Ats
<1>. QED BY <1>2, <1>3, <1>4

\* The app-server's lines, and the other questions.
LEMMA AskingOnward ==
  ASSUME VerifierTypeOK, NEW v \in Procs,
         AppServerWrites(v) \/ NoAnswer(v) \/ Features(v) \/ Posture(v)
  PROVE  \E r \in Verifiers : Onward(v, r)
<1>1. ver[v] \in Verifiers
  BY DEF VerifierTypeOK, Verifiers, Ats, Views
<1>2. CASE AppServerWrites(v)
  <2>1. PICK l \in {"agrees", "differs", "other"} : ver' = [ver EXCEPT ![v].line = l]
    BY <1>2 DEF AppServerWrites
  <2>. DEFINE r == [ver[v] EXCEPT !.line = l]
  <2>2. r \in Verifiers
    BY <1>1, Updated
  <2>3. Onward(v, r)
    BY <1>1, <1>2, <2>1 DEF AppServerWrites, At, Onward, Honest, Verifiers
  <2>. QED BY <2>2, <2>3
<1>3. CASE NoAnswer(v)
  <2>. DEFINE f == FailingTo(ver[v], "fixture")
              r == [f EXCEPT !.line = "none", !.request = 1, !.right = TRUE]
  <2>1. f \in Verifiers
    BY <1>1, FailingTyped DEF Ats
  <2>2. ver' = [ver EXCEPT ![v] = r] /\ pgpass' = pgpass /\ ver[v].at # "idle"
    BY <1>3 DEF NoAnswer, At
  <2>3. /\ f.owns = ver[v].owns /\ f.disturbed = ver[v].disturbed /\ ~f.unearned
        /\ f.seen = ver[v].seen
    BY <1>1 DEF FailingTo, Failing, Verifiers
  <2>. HIDE DEF f
  <2>4. [f EXCEPT !.line = "none"] \in Verifiers
    BY <2>1, Updated
  <2>5. [[f EXCEPT !.line = "none"] EXCEPT !.request = 1] \in Verifiers
    BY <2>4, Updated, Values
  <2>6. [[[f EXCEPT !.line = "none"] EXCEPT !.request = 1] EXCEPT !.right = TRUE] \in Verifiers
    BY <2>5, Updated, Values
  <2>7. Onward(v, r)
    BY <2>1, <2>2, <2>3 DEF Onward, Honest, Verifiers
  <2>. QED BY <2>6, <2>7
<1>4. CASE Features(v) \/ Posture(v)
  BY <1>4, FailingOnward, PlaceOnward DEF Features, Posture, At, Ats
<1>. QED BY <1>2, <1>3, <1>4

\* A reply is for the request that was made: nothing is unearned by it.
LEMMA ReceiveOnward ==
  ASSUME VerifierTypeOK, NEW v \in Procs, Receive(v)
  PROVE  \E r \in Verifiers : Onward(v, r)
<1>1. ver[v] \in Verifiers
  BY DEF VerifierTypeOK, Verifiers, Ats, Views
<1>2. pgpass' = pgpass /\ ver[v].at # "idle"
  BY DEF Receive, At
<1>3. CASE ver[v].line \in {"agrees", "differs"} /\ Consume(v)
  <2>. DEFINE right == ver[v].right /\ (ver[v].request > 1 => ver[v].line # "differs")
              unearned == ver[v].unearned \/ ver[v].line = "other"
              asked == [ver[v] EXCEPT !.line = "none", !.right = TRUE, !.request = 1,
                                      !.unearned = unearned]
              next ==
                CASE ver[v].request < 3 -> [asked EXCEPT !.request = ver[v].request + 1,
                                                        !.right = right]
                  [] ver[v].request = 3 /\ right -> [asked EXCEPT !.at = "features"]
                  [] OTHER -> FailingTo(asked, "fixture")
  <2>1. right \in BOOLEAN /\ unearned \in BOOLEAN
    OBVIOUS
  <2>2. unearned = (ver[v].unearned \/ FALSE)
    BY <1>3
  <2>3. ver' = [ver EXCEPT ![v] = next]
    BY <1>3 DEF Consume
  <2>4. unearned <=> ver[v].unearned
    BY <2>2
  <2>. HIDE DEF right, unearned
  <2>5. [ver[v] EXCEPT !.line = "none"] \in Verifiers
    BY <1>1, Updated
  <2>6. [[ver[v] EXCEPT !.line = "none"] EXCEPT !.right = TRUE] \in Verifiers
    BY <2>5, Updated, Values
  <2>7. [[[ver[v] EXCEPT !.line = "none"] EXCEPT !.right = TRUE] EXCEPT !.request = 1]
           \in Verifiers
    BY <2>6, Updated, Values
  <2>8. asked \in Verifiers
    BY <2>1, <2>7, Updated
  <2>9. /\ asked.owns = ver[v].owns /\ asked.disturbed = ver[v].disturbed
        /\ asked.unearned <=> ver[v].unearned
        /\ asked.seen = ver[v].seen
    BY <1>1, <2>4 DEF Verifiers
  <2>. HIDE DEF asked
  <2>10. CASE ver[v].request < 3
    <3>. DEFINE n == ver[v].request + 1
                r == [asked EXCEPT !.request = n, !.right = right]
    <3>1. n \in Requests
      BY <1>1, <2>10 DEF Verifiers, Requests
    <3>2. ver[v].request \in {1, 2, 3}
      BY <1>1 DEF Verifiers, Requests
    <3>3. next = r
      BY <2>10, <3>2
    <3>. HIDE DEF next, n
    <3>4. [asked EXCEPT !.request = n] \in Verifiers
      BY <2>8, <3>1, Updated
    <3>5. [[asked EXCEPT !.request = n] EXCEPT !.right = right] \in Verifiers
      BY <2>1, <3>4, Updated
    <3>6. Onward(v, r)
      BY <1>2, <2>3, <2>8, <2>9, <3>3 DEF Onward, Honest, Verifiers
    <3>. QED BY <3>5, <3>6
  <2>11. CASE ver[v].request = 3 /\ right
    <3>. DEFINE r == [asked EXCEPT !.at = "features"]
    <3>1. ver' = [ver EXCEPT ![v] = r]
      BY <2>3, <2>11
    <3>2. r \in Verifiers
      BY <2>8, Updated DEF Ats
    <3>3. Onward(v, r)
      BY <1>2, <2>8, <2>9, <3>1 DEF Onward, Honest, Verifiers
    <3>. QED BY <3>2, <3>3
  <2>12. CASE ~(ver[v].request < 3) /\ ~(ver[v].request = 3 /\ right)
    <3>. DEFINE r == FailingTo(asked, "fixture")
    <3>1. ver' = [ver EXCEPT ![v] = r]
      BY <2>3, <2>12
    <3>2. r \in Verifiers
      BY <2>8, FailingTyped DEF Ats
    <3>3. Onward(v, r)
      BY <1>2, <2>8, <2>9, <3>1 DEF Onward, Honest, Verifiers, FailingTo, Failing
    <3>. QED BY <3>2, <3>3
  <2>. QED BY <2>10, <2>11, <2>12
<1>4. CASE ver[v].line = "other" /\ ver' = [ver EXCEPT ![v].line = "none"]
  <2>. DEFINE r == [ver[v] EXCEPT !.line = "none"]
  <2>1. r \in Verifiers
    BY <1>1, Updated
  <2>2. Onward(v, r)
    BY <1>1, <1>2, <1>4 DEF Onward, Honest, Verifiers
  <2>. QED BY <2>1, <2>2
<1>. QED BY <1>3, <1>4 DEF Receive

\* A probe's report is the truth about a canary that is there, or an error.
LEMMA ProbeOnward ==
  ASSUME VerifierTypeOK, NEW v \in Procs, AccessProbe(v)
  PROVE  \E r \in Verifiers : Onward(v, r)
<1>1. ver[v] \in Verifiers
  BY DEF VerifierTypeOK, Verifiers, Ats, Views
<1>2. PICK tight \in BOOLEAN, fails \in BOOLEAN :
        LET real == IF tight THEN Enforced(ver[v]) ELSE "allowed"
            told == IF fails THEN "error"
                    ELSE IF pgpass = "canary" THEN real ELSE "denied"
        IN ver' = [ver EXCEPT
               ![v].reports = 1,
               ![v].results = IF ver[v].agent = "codex" THEN 1 ELSE @,
               ![v].seen = [outside |-> IF tight THEN "denied" ELSE "allowed",
                            secret |-> IF ver[v].owns THEN told ELSE "denied",
                            real |-> IF ver[v].owns THEN real ELSE "denied"]]
  BY DEF AccessProbe
<1>. DEFINE outside == IF tight THEN "denied" ELSE "allowed"
            truth == IF tight THEN Enforced(ver[v]) ELSE "allowed"
            real == IF ver[v].owns THEN truth ELSE "denied"
            secret == IF ver[v].owns
                      THEN IF fails THEN "error"
                           ELSE IF pgpass = "canary" THEN truth ELSE "denied"
                      ELSE "denied"
            seen == [outside |-> outside, secret |-> secret, real |-> real]
            results == IF ver[v].agent = "codex" THEN 1 ELSE ver[v].results
            r == [ver[v] EXCEPT !.reports = 1, !.results = results, !.seen = seen]
<1>3. ver' = [ver EXCEPT ![v] = r]
  BY <1>1, <1>2 DEF Verifiers
<1>4. outside \in Access /\ real \in Access /\ secret \in Access \cup {"error"}
  BY DEF Enforced, Access
<1>5. seen \in Views
  BY <1>4 DEF Views
<1>6. results \in 0..1
  BY <1>1 DEF Verifiers
<1>7. Canaried(ver[v]) /\ ~ver[v].disturbed => secret \in {real, "error"}
  BY DEF Canaried
<1>8. seen.secret = secret /\ seen.real = real
  OBVIOUS
<1>. HIDE DEF seen, results, secret, real
<1>9. [ver[v] EXCEPT !.reports = 1] \in Verifiers
  BY <1>1, Updated, Values
<1>10. [[ver[v] EXCEPT !.reports = 1] EXCEPT !.results = results] \in Verifiers
  BY <1>6, <1>9, Updated
<1>11. r \in Verifiers
  BY <1>5, <1>10, Updated
<1>12. pgpass' = pgpass /\ ver[v].at # "idle"
  BY DEF AccessProbe
<1>13. /\ r.owns = ver[v].owns /\ r.disturbed = ver[v].disturbed
       /\ r.unearned = ver[v].unearned /\ r.seen = seen
  BY <1>1 DEF Verifiers
<1>14. Onward(v, r)
  BY <1>3, <1>7, <1>8, <1>12, <1>13 DEF Onward, Honest
<1>. QED BY <1>11, <1>14

\* A probe that errs contradicts every policy, and what the probe says of no
\* canary at all is skipped.
LEMMA ErrorContradicts ==
  ASSUME NEW r \in Verifiers, r.seen.secret \in {r.seen.real, "error"},
         ~Contradicts(r, r.seen.secret)
  PROVE  ~Contradicts(r, r.seen.real)
<1>1. CASE r.seen.secret = r.seen.real
  BY <1>1
<1>2. CASE r.seen.secret = "error" /\ r.owns
  <2>1. Observation(r, "error")["secret"] = "error"
    BY <1>2 DEF Observation
  <2>2. Status(Observation(r, "error")["secret"], Expectations(r)["secret"]) = "ERROR"
    BY <2>1 DEF Status, Access
  <2>3. Contradicts(r, "error")
    BY <2>2 DEF Contradicts, Kinds
  <2>. QED BY <1>2, <2>3
<1>3. CASE ~r.owns
  <2>1. Observation(r, r.seen.secret) = Observation(r, r.seen.real)
    BY <1>3 DEF Observation
  <2>. QED BY <2>1 DEF Contradicts
<1>. QED BY <1>1, <1>2, <1>3

\* The end of a session: what is not a failure has been earned.
LEMMA ReportOnward ==
  ASSUME VerifierTypeOK, NEW v \in Procs, NEW n, NEW error, Report(v, n, error),
         ver[v].at # "idle", pgpass' = pgpass
  PROVE  \E r \in Verifiers : Onward(v, r)
<1>1. ver[v] \in Verifiers
  BY DEF VerifierTypeOK, Verifiers, Ats, Views
<1>. DEFINE unearned == ver[v].unearned \/ n # 1 \/ Contradicts(ver[v], ver[v].seen.real)
            kept == [ver[v] EXCEPT !.unearned = unearned]
            fails == error \/ n # 1 \/ Contradicts(ver[v], ver[v].seen.secret)
            left == IF fails THEN Failing(kept) ELSE kept
<1>2. ver' = [ver EXCEPT ![v] = NextSession(left)]
  BY DEF Report
<1>3. unearned \in BOOLEAN
  OBVIOUS
<1>4. Honest(ver[v]) /\ ~ver[v].disturbed /\ ~fails => ~unearned
  BY <1>1, ErrorContradicts DEF Honest
<1>. HIDE DEF unearned, fails
<1>5. kept \in Verifiers
  BY <1>1, <1>3, Updated
<1>6. left \in Verifiers
  BY <1>5, FailingTyped
<1>7. /\ left.owns = ver[v].owns /\ left.disturbed = ver[v].disturbed
      /\ left.unearned => ~fails /\ unearned
  BY <1>1 DEF Failing, Verifiers
<1>. HIDE DEF left
<1>8. NextSession(left) \in Verifiers
  BY <1>6, NextSessionTyped
<1>9. LET r == NextSession(left)
      IN r.owns = left.owns /\ r.disturbed = left.disturbed /\ r.unearned = left.unearned
         /\ r.seen = NotSeen
  BY <1>6 DEF NextSession, Verifiers
<1>10. NotSeen.secret = NotSeen.real
  BY DEF NotSeen
<1>11. Onward(v, NextSession(left))
  BY <1>2, <1>4, <1>7, <1>9, <1>10 DEF Onward, Honest
<1>. QED BY <1>8, <1>11

\* The conversation, and the ends of a session.
LEMMA SessionOnward ==
  ASSUME VerifierTypeOK, NEW v \in Procs,
         ServeHTTP(v) \/ SessionEnds(v) \/ Deadline(v) \/ Rejected(v)
  PROVE  \E r \in Verifiers : Onward(v, r)
<1>1. ver[v] \in Verifiers
  BY DEF VerifierTypeOK, Verifiers, Ats, Views
<1>2. CASE ServeHTTP(v)
  <2>. DEFINE r == [ver[v] EXCEPT !.results = ver[v].reports]
  <2>1. ver[v].reports \in 0..1
    BY <1>1 DEF Verifiers
  <2>2. r \in Verifiers
    BY <1>1, <2>1, Updated
  <2>3. Onward(v, r)
    BY <1>1, <1>2 DEF ServeHTTP, At, Onward, Honest, Verifiers
  <2>. QED BY <2>2, <2>3
<1>3. CASE SessionEnds(v)
  BY <1>3, ReportOnward DEF SessionEnds
<1>4. CASE Deadline(v)
  BY <1>4, ReportOnward DEF Deadline
<1>5. CASE Rejected(v)
  <2>. DEFINE r == NextSession(ver[v])
  <2>1. r \in Verifiers
    BY <1>1, NextSessionTyped
  <2>2. /\ r.owns = ver[v].owns /\ r.disturbed = ver[v].disturbed
        /\ r.unearned = ver[v].unearned /\ r.seen = NotSeen
    BY <1>1 DEF NextSession, Verifiers
  <2>3. NotSeen.secret = NotSeen.real
    BY DEF NotSeen
  <2>4. ver' = [ver EXCEPT ![v] = r] /\ pgpass' = pgpass /\ ver[v].at # "idle"
    BY <1>5 DEF Rejected, At
  <2>5. Onward(v, r)
    BY <2>2, <2>3, <2>4 DEF Onward, Honest
  <2>. QED BY <2>1, <2>5
<1>. QED BY <1>2, <1>3, <1>4, <1>5

-----------------------------------------------------------------------------
(* The verifiers of a guest                                                *)

\* Two verifiers own the canary only when it is in trouble for both: the
\* second was made while the first stood, which the user had removed.
OneCanary ==
  \A u, v \in Procs : u # v /\ ver[u].owns /\ ver[v].owns => ver[u].disturbed

VerInv ==
  /\ ver \in [Procs -> Verifiers]
  /\ pgpass \in {"none", "user", "canary"}
  /\ \A v \in Procs : Canaried(ver[v]) /\ Honest(ver[v])
  /\ OneCanary

\* A step of v that leaves ~/.pgpass alone.
LEMMA OnwardKeeps ==
  ASSUME VerInv, NEW v \in Procs, NEW r \in Verifiers, Onward(v, r)
  PROVE  VerInv'
<1>1. ver'[v] = r /\ \A u \in Procs \ {v} : ver'[u] = ver[u]
  BY DEF Onward, VerInv
<1>2. ver' \in [Procs -> Verifiers]
  BY DEF Onward, VerInv
<1>3. \A u \in Procs : Canaried(ver[u])' /\ Honest(ver[u])'
  BY <1>1 DEF Onward, VerInv, Canaried, Honest
<1>4. OneCanary'
  BY <1>1 DEF Onward, VerInv, OneCanary
<1>. QED BY <1>2, <1>3, <1>4 DEF VerInv, Onward

\* v makes the canary, or gives up its own and goes on to the next agent.
LEMMA CanaryKeeps ==
  ASSUME VerInv, VerifierTypeOK, NEW v \in Procs, MakeFixture(v) \/ Clean(v)
  PROVE  VerInv' /\ ver[v].at # "idle"
<1>. USE DEF VerInv
<1>1. ver[v] \in Verifiers
  OBVIOUS
<1>2. CASE MakeFixture(v) /\ pgpass = "none"
  <2>. DEFINE stands == \E u \in Procs : Standing(u)
              disturbed == ver[v].disturbed \/ stands
              r == [ver[v] EXCEPT !.at = "session", !.owns = TRUE, !.disturbed = disturbed]
  <2>1. ver' = [ver EXCEPT ![v] = r] /\ pgpass' = "canary" /\ ver[v].at # "idle"
    BY <1>2 DEF MakeFixture
  <2>2. disturbed \in BOOLEAN /\ (~disturbed => ~ver[v].disturbed)
    OBVIOUS
  <2>3. \A u \in Procs : ver[u].owns => disturbed /\ ver[u].disturbed
    BY <1>2 DEF Standing, Canaried
  <2>. HIDE DEF disturbed
  <2>4. [ver[v] EXCEPT !.at = "session"] \in Verifiers
    BY <1>1, Updated DEF Ats
  <2>5. [[ver[v] EXCEPT !.at = "session"] EXCEPT !.owns = TRUE] \in Verifiers
    BY <2>4, Updated, Values
  <2>6. r \in Verifiers
    BY <2>2, <2>5, Updated
  <2>7. /\ r.owns /\ r.disturbed = disturbed
        /\ r.unearned = ver[v].unearned /\ r.seen = ver[v].seen
    BY <1>1 DEF Verifiers
  <2>. HIDE DEF r
  <2>8. ver'[v] = r /\ \A u \in Procs \ {v} : ver'[u] = ver[u]
    BY <2>1
  <2>9. \A u \in Procs : Canaried(ver[u])' /\ Honest(ver[u])'
    BY <2>1, <2>2, <2>7, <2>8 DEF Canaried, Honest
  <2>10. OneCanary'
    BY <2>3, <2>7, <2>8 DEF OneCanary
  <2>. QED BY <2>1, <2>6, <2>9, <2>10
<1>3. CASE MakeFixture(v) /\ pgpass # "none"
  <2>1. \E r \in Verifiers : Onward(v, r)
    BY <1>3, PlaceOnward DEF MakeFixture, Ats
  <2>. QED BY <1>3, <2>1, OnwardKeeps DEF MakeFixture
<1>4. CASE Clean(v)
  <2>. DEFINE s == IF ver[v].failed THEN "failed" ELSE "passed"
              r1 == [ver[v] EXCEPT !.agent = "claude", !.at = "sum", !.owns = FALSE,
                                   !.policy = "none"]
              r2 == [ver[v] EXCEPT !.at = s, !.owns = FALSE]
              r == IF ver[v].agent = "codex" THEN r1 ELSE r2
  <2>1. /\ ver' = [ver EXCEPT ![v] = r] /\ ver[v].at # "idle"
        /\ pgpass' = IF ver[v].owns THEN "none" ELSE pgpass
    BY <1>4 DEF Clean
  <2>2. r1 \in Verifiers
    <3>1. [ver[v] EXCEPT !.agent = "claude"] \in Verifiers
      BY <1>1, Updated, Values
    <3>2. [[ver[v] EXCEPT !.agent = "claude"] EXCEPT !.at = "sum"] \in Verifiers
      BY <3>1, Updated DEF Ats
    <3>3. [[[ver[v] EXCEPT !.agent = "claude"] EXCEPT !.at = "sum"] EXCEPT !.owns = FALSE]
             \in Verifiers
      BY <3>2, Updated, Values
    <3>. QED BY <3>3, Updated, Values
  <2>3. r2 \in Verifiers
    <3>1. s \in Ats
      BY DEF Ats
    <3>. HIDE DEF s
    <3>2. [ver[v] EXCEPT !.at = s] \in Verifiers
      BY <1>1, <3>1, Updated
    <3>. QED BY <3>2, Updated, Values
  <2>4. /\ ~r.owns /\ r.disturbed = ver[v].disturbed
        /\ r.unearned = ver[v].unearned /\ r.seen = ver[v].seen
    BY <1>1 DEF Verifiers
  <2>5. r \in Verifiers
    BY <2>2, <2>3
  <2>. HIDE DEF r
  <2>6. ver'[v] = r /\ \A u \in Procs \ {v} : ver'[u] = ver[u]
    BY <2>1
  <2>7. \A u \in Procs : Canaried(ver[u])' /\ Honest(ver[u])'
    BY <2>1, <2>4, <2>6 DEF Canaried, Honest, OneCanary
  <2>8. OneCanary'
    BY <2>4, <2>6 DEF OneCanary
  <2>. QED BY <2>1, <2>5, <2>7, <2>8
<1>. QED BY <1>2, <1>3, <1>4

\* Every step of a verifier.
LEMMA VerifyKeeps ==
  ASSUME VerInv, VerifierTypeOK, NEW v \in Procs, Verify(v)
  PROVE  VerInv' /\ ver[v].at # "idle"
<1>1. CASE \E r \in Verifiers : Onward(v, r)
  BY <1>1, OnwardKeeps DEF Onward
<1>2. CASE FixtureFails(v)
  BY <1>1, <1>2, FailingOnward DEF FixtureFails, Ats
<1>. QED BY <1>1, <1>2, ReadingOnward, AskingOnward, ReceiveOnward, ProbeOnward,
            SessionOnward, CanaryKeeps DEF Verify

\* A verifier that ends, one that starts, and the rest as they were.
LEMMA RestartKeeps ==
  ASSUME VerInv, ver' \in [Procs -> Verifiers], NEW P \in SUBSET Procs,
         \A v \in P : ver'[v] = ver[v],
         \A v \in Procs \ P : ver'[v] \in {Unstarted, [Unstarted EXCEPT !.at = "sum"]},
         pgpass' \in {pgpass, "none"}, pgpass' = pgpass \/ P = {}
  PROVE  VerInv'
<1>1. \A r \in {Unstarted, [Unstarted EXCEPT !.at = "sum"]} :
        ~r.owns /\ ~r.unearned /\ r.seen.secret = r.seen.real
  BY DEF Unstarted, NotSeen
<1>2. \A u \in Procs \ P : ~ver'[u].owns /\ Honest(ver[u])'
  BY <1>1 DEF Honest
<1>3. \A u \in Procs : Canaried(ver[u])' /\ Honest(ver[u])'
  BY <1>2 DEF Canaried, Honest, VerInv
<1>4. OneCanary'
  BY <1>2 DEF OneCanary, VerInv
<1>. QED BY <1>3, <1>4 DEF VerInv

\* The user's hand at ~/.pgpass troubles every canary.
LEMMA UserKeeps ==
  ASSUME VerInv, UserPgpass PROVE VerInv'
<1>. USE DEF VerInv
<1>1. \A u \in Procs : /\ ver'[u].owns = ver[u].owns
                       /\ ver'[u].unearned = ver[u].unearned /\ ver'[u].seen = ver[u].seen
                       /\ ver'[u].disturbed <=> ver[u].disturbed \/ ver[u].owns
  BY DEF UserPgpass, Standing, Verifiers
<1>2. \A u \in Procs : ver'[u] \in Verifiers
  <2>. TAKE u \in Procs
  <2>. DEFINE b == ver[u].disturbed \/ Standing(u)
  <2>1. b \in BOOLEAN /\ ver[u] \in Verifiers
    OBVIOUS
  <2>2. ver'[u] = [ver[u] EXCEPT !.disturbed = b]
    BY DEF UserPgpass
  <2>. HIDE DEF b
  <2>. QED BY <2>1, <2>2, Updated
<1>3. ver' \in [Procs -> Verifiers]
  BY <1>2 DEF UserPgpass
<1>4. \A u \in Procs : Canaried(ver[u])' /\ Honest(ver[u])'
  BY <1>1 DEF Canaried, Honest
<1>5. OneCanary'
  BY <1>1 DEF OneCanary
<1>. QED BY <1>3, <1>4, <1>5 DEF UserPgpass

\* No step of a verifier is one of another's.
LEMMA VerifyOne ==
  ASSUME VerInv, NEW v \in Procs, Verify(v)
  PROVE  \A u \in Procs \ {v} : ver'[u] = ver[u]
BY DEF VerInv, Verify, Missing, ReadSum, ReadPolicy, AppServerWrites, Receive, Consume,
       NoAnswer, Features, Posture, MakeFixture, FixtureFails, AccessProbe, ServeHTTP,
       SessionEnds, Deadline, Rejected, Report, Clean, Goto

-----------------------------------------------------------------------------
(* The inductive invariant                                                 *)

Insts == [gen : 1..setting.instances, ours : BOOLEAN, running : BOOLEAN, ready : BOOLEAN,
          keys : Procs \cup {"lima", None}]
Dirs == [key : Procs \cup {None}, pin : 0..setting.instances]
Jobs == [at : ScriptPlaces \cup {"idle", "exited", "failed"}, agent : Agents,
         selects : Selections, picked : Recorded, cut : BOOLEAN]
Ops == [at : OpPlaces, does : {"create", "configure", "verify"}, selects : Selections,
        alone : BOOLEAN]

\* A script is in an instance, and with an invocation only while that streams it.
JobsAtHome ==
  \A p \in Procs :
    /\ job[p].at # "idle" => inst # None
    /\ op[p].at \notin {"idle", "streaming"} => job[p].at = "idle"

\* Into an instance that is not of the recipe root's keys come only by somebody's
\* bootstrap, after which nobody has been alone but the bootstrapper, who looks
\* again before going on, and those who have not looked yet.
Intruded == inst # None /\ ~inst.ours /\ inst.keys # None
BeforeLook == {"idle", "look", "make", "info", "pin", "check", "recheck"}
ForeignKept ==
  \A p \in Procs : op[p].alone =>
    /\ Intruded => op[p].at \in BeforeLook
    /\ op[p].at = "streaming" /\ job[p].at # "idle" => inst.ours

\* Everything that may come up in the guest is what somebody may have selected.
Selected ==
  /\ \A a \in Agents : /\ saved[a] = "none" => "embedded" \in chosen
                       /\ saved[a] # "none" => saved[a] \in chosen
                       /\ target[a] \in chosen \cup {"none"}
  /\ \A p \in Procs : Active(p) =>
       /\ job[p].selects \in chosen \cup {"preserve"}
       /\ job[p].at = "swap" => job[p].picked \in chosen

\* An invocation that has sent its script while it was alone ...
Past(o) == o.alone /\ o.does # "verify" /\ o.at \in {"streaming", "verify", "verifying"}
\* ... has no script beside it, and no other such invocation.
Alone ==
  \A p, q \in Procs : Past(op[p]) /\ p # q => ~Active(q) /\ ~Past(op[q])

Want(s) == IF s = "preserve" THEN chosen ELSE {s}
Keeps(a, s) == s # "preserve" => saved[a] = (IF s = "embedded" THEN "none" ELSE s)
Settled(a, s) == Keeps(a, s) /\ target[a] \in Want(s)

\* How far the script j that selects s has come, agent by agent.
Halfway(j, s) ==
  /\ j.selects = s
  /\ j.at \in {"pick", "swap", "sum", "rest"} => Keeps(j.agent, s)
  /\ j.at = "swap" => j.picked \in Want(s)
  /\ j.at \in {"sum", "rest"} => target[j.agent] \in Want(s)
  /\ j.agent = "claude" => Settled("codex", s)
  /\ j.at = "rest" => j.agent = "claude"

\* Where such an invocation's selection has come to.
Coming(p) ==
  LET s == op[p].selects IN
  /\ op[p].at = "streaming" /\ Active(p) => Halfway(job[p], s)
  /\ \/ op[p].at = "streaming" /\ job[p].at = "exited"
     \/ op[p].at = "verify" /\ guest.verifier
     \/ op[p].at = "verifying" /\ ver[p].at # "idle"
     => \A a \in Agents : Settled(a, s)

SelectionKept ==
  /\ Selected /\ Alone
  /\ \A p \in Procs : /\ op[p].does = "verify" => op[p].selects = "preserve"
                      /\ Past(op[p]) => Coming(p)

IInv == TypeOK /\ VerInv /\ JobsAtHome /\ ForeignKept /\ SelectionKept

-----------------------------------------------------------------------------
(* Types                                                                   *)

LEMMA Constants ==
  ASSUME TypeOK
  PROVE  /\ setting.instances \in Nat \ {0} /\ setting.kills \in Nat /\ setting.stops \in Nat
         /\ setting.meddles \in Nat /\ setting.starts \in Recorded
         /\ setting.backend \in {"lima", "incus"}
         /\ setting.serves \in [Procs -> SUBSET {"create", "configure", "verify"}]
         /\ setting.selects \in [Procs -> SUBSET Selections]
<1>1. setting \in [backend : {"lima", "incus"}, starts : Recorded, rough : BOOLEAN,
        serves : [Procs -> SUBSET {"create", "configure", "verify"}],
        selects : [Procs -> SUBSET Selections],
        kills : Nat, stops : Nat, instances : Nat \ {0}, meddles : Nat]
  BY SettingsAssumption DEF TypeOK
<1>. QED BY <1>1

\* Sets that the provers need not look into.
LEMMA Names ==
  /\ "preserve" \in Selections /\ "embedded" \in Selections
  /\ Selections = {"preserve", "embedded"} \cup Customs
  /\ Recorded = {"embedded", "none"} \cup Customs /\ "none" \notin Customs
  /\ Policies = {"embedded"} \cup Customs /\ "embedded" \notin Customs
  /\ "preserve" \notin Customs
BY PolicyAssumption DEF Selections, Recorded, Policies

\* The same for an invocation ...
LEMMA OpUpdated ==
  ASSUME NEW o \in Ops
  PROVE  /\ \A x \in OpPlaces : [o EXCEPT !.at = x] \in Ops
         /\ \A x \in BOOLEAN : [o EXCEPT !.alone = x] \in Ops
BY DEF Ops

\* ... a script ...
LEMMA JobUpdated ==
  ASSUME NEW j \in Jobs
  PROVE  /\ \A x \in ScriptPlaces \cup {"idle", "exited", "failed"} :
              [j EXCEPT !.at = x] \in Jobs
         /\ \A x \in Agents : [j EXCEPT !.agent = x] \in Jobs
         /\ \A x \in Selections : [j EXCEPT !.selects = x] \in Jobs
         /\ \A x \in Recorded : [j EXCEPT !.picked = x] \in Jobs
         /\ \A x \in BOOLEAN : [j EXCEPT !.cut = x] \in Jobs
BY DEF Jobs

\* ... and an instance.
LEMMA InstUpdated ==
  ASSUME NEW i \in Insts
  PROVE  /\ \A x \in BOOLEAN : [i EXCEPT !.running = x] \in Insts
         /\ \A x \in BOOLEAN : [i EXCEPT !.ready = x] \in Insts
         /\ \A x \in Procs \cup {"lima", None} : [i EXCEPT !.keys = x] \in Insts
BY DEF Insts

\* An invocation and a script that are over.
LEMMA Idle == NoOp \in Ops /\ NoJob \in Jobs
<1>1. "preserve" \in Selections /\ "codex" \in Agents /\ "none" \in Recorded
  BY Values, Names
<1>2. NoOp \in Ops
  BY <1>1 DEF NoOp, Ops, OpPlaces
<1>3. NoJob \in Jobs
  BY <1>1 DEF NoJob, Jobs
<1>. QED BY <1>2, <1>3

\* TypeOK, part by part.
LEMMA TypeParts ==
  TypeOK <=>
    /\ VerifierTypeOK
    /\ setting \in Settings
    /\ inst \in Insts \cup {None} /\ made \in 0..setting.instances
    /\ dir \in Dirs \cup {None}
    /\ saved \in [Agents -> Customs \cup {"none"}]
    /\ guest \in [denied : BOOLEAN, verifier : BOOLEAN]
    /\ job \in [Procs -> Jobs] /\ op \in [Procs -> Ops]
    /\ chosen \subseteq Policies
    /\ kills \in 0..setting.kills /\ stops \in 0..setting.stops
    /\ meddles \in 0..setting.meddles
BY DEF TypeOK, Insts, Dirs, Jobs, Ops

\* VerifierTypeOK, part by part.
LEMMA VerTyped ==
  VerifierTypeOK <=> /\ target \in [Agents -> Recorded] /\ sum \in [Agents -> Recorded]
                     /\ pgpass \in {"none", "user", "canary"} /\ ver \in [Procs -> Verifiers]
BY DEF VerifierTypeOK, Verifiers, Ats, Views

\* Neither an instance nor a directory is None.
LEMMA NotNone == ASSUME TypeOK PROVE None \notin Insts /\ None \notin Dirs
<1>1. 1..setting.instances \subseteq Nat /\ 0..setting.instances \subseteq Nat
  BY Constants
<1>2. Insts \subseteq [gen : Nat, ours : BOOLEAN, running : BOOLEAN, ready : BOOLEAN,
                      keys : Procs \cup {"lima", None}]
  BY <1>1 DEF Insts
<1>3. Dirs \subseteq [key : Procs \cup {None}, pin : Nat]
  BY <1>1 DEF Dirs
<1>. QED BY <1>2, <1>3, NoneAssumption

-----------------------------------------------------------------------------
(* Steps at the host                                                       *)

\* What the selection's invariant reads is unchanged, but for invocations that
\* are not Past and verifiers that end.
LEMMA SelectionStays ==
  ASSUME TypeOK, SelectionKept, UNCHANGED <<target, saved, guest, job, chosen>>,
         \A p \in Procs :
           \/ op'[p] = op[p]
           \/ ~Past(op'[p]) /\ (op'[p].does = "verify" => op'[p].selects = "preserve"),
         \A p \in Procs : op[p].at = "verifying" /\ ver'[p].at # "idle" => ver[p].at # "idle"
  PROVE  SelectionKept'
<1>1. Selected'
  BY DEF Selected, SelectionKept, Active
<1>2. Alone'
  BY DEF Alone, SelectionKept, Active
<1>3. ASSUME NEW p \in Procs
      PROVE  /\ op'[p].does = "verify" => op'[p].selects = "preserve"
             /\ Past(op'[p]) => Coming(p)'
  <2>1. CASE op'[p] = op[p]
    BY <2>1 DEF SelectionKept, Coming, Halfway, Settled, Keeps, Want, Active
  <2>. QED BY <2>1
<1>. QED BY <1>1, <1>2, <1>3 DEF SelectionKept

\* What p may become in a step that sends nothing to a guest.
Quiet(p, o) ==
  /\ o.at \notin {"idle", "streaming"} => job[p].at = "idle"
  /\ Intruded /\ o.alone => o.at \in BeforeLook
  /\ o.at # "streaming" /\ ~Past(o)
  /\ o.does = "verify" => o.selects = "preserve"

\* The instance stays, or there was none and nobody has keys of the new one.
Stays ==
  \/ inst = None /\ inst' = None
  \/ inst # None /\ inst' # None /\ inst'.ours = inst.ours /\ inst'.keys = inst.keys
  \/ inst = None /\ inst' # None /\ inst'.keys = None

\* The operation of one invocation, the host's directory and what runs, when
\* nothing changes in the guest.
LEMMA HostStep ==
  ASSUME IInv, NEW p \in Procs, NEW o \in Ops, op' = [op EXCEPT ![p] = o],
         o = op[p] \/ Quiet(p, o),
         UNCHANGED <<setting, guestFiles, job, verifierVars, chosen, bounds>>,
         inst' \in Insts \cup {None}, made' \in 0..setting.instances, dir' \in Dirs \cup {None},
         Stays
  PROVE  IInv'
<1>. USE DEF IInv, guestFiles, verifierVars, bounds
<1>1. op \in [Procs -> Ops]
  BY TypeParts
<1>2. op'[p] = o /\ \A q \in Procs \ {p} : op'[q] = op[q]
  BY <1>1
<1>3. TypeOK'
  <2>1. op' \in [Procs -> Ops]
    BY <1>1
  <2>2. VerifierTypeOK'
    BY TypeParts DEF VerifierTypeOK
  <2>. QED BY <2>1, <2>2, TypeParts DEF TypeOK, Insts, Dirs, Jobs, Ops
<1>4. VerInv'
  BY DEF VerInv, OneCanary, Canaried, Honest
<1>5. JobsAtHome'
  BY <1>2 DEF JobsAtHome, Stays, Quiet
<1>6. ForeignKept'
  BY <1>2 DEF ForeignKept, JobsAtHome, Stays, Quiet, Intruded
<1>7. SelectionKept'
  BY <1>2, SelectionStays DEF Quiet
<1>. QED BY <1>3, <1>4, <1>5, <1>6, <1>7

\* An invocation goes on, the guest's files and what runs there as they were.
LEMMA GoStep ==
  ASSUME IInv, NEW p \in Procs, NEW s \in OpPlaces \ {"streaming"}, Goes(p, s),
         op[p].at \notin {"idle", "streaming"},
         s \in {"verify", "verifying"} => op[p].does = "verify",
         Intruded /\ op[p].alone => s \in BeforeLook,
         UNCHANGED <<setting, guestFiles, job, verifierVars, chosen, bounds>>,
         inst' \in Insts \cup {None}, made' \in 0..setting.instances, dir' \in Dirs \cup {None},
         Stays
  PROVE  IInv'
<1>. DEFINE o == [op[p] EXCEPT !.at = s]
<1>1. op[p] \in Ops
  BY TypeParts DEF IInv
<1>2. o \in Ops
  BY <1>1, OpUpdated
<1>3. /\ o.at = s /\ o.does = op[p].does /\ o.selects = op[p].selects
      /\ o.alone = op[p].alone
  BY <1>1 DEF Ops
<1>4. op' = [op EXCEPT ![p] = o]
  BY DEF Goes
<1>. HIDE DEF o
<1>5. Quiet(p, o)
  BY <1>3 DEF Quiet, Past, IInv, JobsAtHome, SelectionKept
<1>. QED BY <1>2, <1>4, <1>5, HostStep

\* An invocation ends.
LEMMA EndStep ==
  ASSUME IInv, NEW p \in Procs, Ends(p),
         UNCHANGED <<instance, dir, guestFiles, job, verifierVars, chosen, bounds>>
  PROVE  IInv'
<1>1. Quiet(p, NoOp)
  BY DEF Quiet, Past, NoOp, BeforeLook
<1>2. Stays
  BY DEF Stays, instance
<1>3. inst' \in Insts \cup {None} /\ made' \in 0..setting.instances /\ dir' \in Dirs \cup {None}
  BY TypeParts DEF IInv, instance
<1>. QED BY <1>1, <1>2, <1>3, Idle, HostStep DEF Ends, instance

\* Nothing happens to the invocations.
LEMMA OutsideStep ==
  ASSUME IInv,
         UNCHANGED <<setting, guestFiles, job, op, verifierVars, chosen, bounds>>,
         inst' \in Insts \cup {None}, made' \in 0..setting.instances, dir' \in Dirs \cup {None},
         Stays
  PROVE  IInv'
<1>1. PICK p \in Procs : TRUE
  BY SettingsAssumption
<1>2. op \in [Procs -> Ops]
  BY TypeParts DEF IInv
<1>3. op' = [op EXCEPT ![p] = op[p]] /\ op[p] \in Ops
  BY <1>2
<1>. QED BY <1>3, HostStep

\* An invocation begins: it has looked at nothing yet.
LEMMA BeginStep == ASSUME IInv, NEW p \in Procs, Begin(p) PROVE IInv'
<1>1. PICK does \in setting.serves[p], s \in setting.selects[p] :
        /\ does = "verify" => s = "preserve"
        /\ op' = [op EXCEPT ![p] =
             [at |-> IF does # "create" THEN "info" ELSE IF Incus THEN "look" ELSE "make",
              does |-> does, selects |-> s, alone |-> TRUE]]
  BY DEF Begin
<1>. DEFINE at == IF does # "create" THEN "info" ELSE IF Incus THEN "look" ELSE "make"
            o == [at |-> at, does |-> does, selects |-> s, alone |-> TRUE]
<1>2. does \in {"create", "configure", "verify"} /\ s \in Selections
  BY Constants DEF IInv
<1>3. at \in {"info", "look", "make"}
  OBVIOUS
<1>. HIDE DEF at
<1>4. o \in Ops
  BY <1>2, <1>3 DEF Ops, OpPlaces
<1>5. Quiet(p, o)
  BY <1>1, <1>3 DEF Quiet, Past, BeforeLook, Begin, NoJob
<1>6. Stays
  BY DEF Stays, instance, Begin
<1>7. inst' \in Insts \cup {None} /\ made' \in 0..setting.instances /\ dir' \in Dirs \cup {None}
  BY TypeParts DEF IInv, instance, Begin
<1>8. op' = [op EXCEPT ![p] = o]
  BY <1>1 DEF at
<1>. HIDE DEF o
<1>. QED BY <1>4, <1>5, <1>6, <1>7, <1>8, HostStep DEF Begin, instance

\* The steps that only look, or wait.
LEMMA LookStep ==
  ASSUME IInv, NEW p \in Procs,
         \/ Look(p) \/ Info(p) \/ Reinfo(p) \/ WaitReady(p) \/ WaitExpires(p)
         \/ Check(p) \/ Recheck(p) \/ Fails(p)
  PROVE  IInv'
<1>1. CASE WaitExpires(p) \/ Fails(p)
  BY <1>1, EndStep DEF WaitExpires, Fails
<1>2. CASE ~(WaitExpires(p) \/ Fails(p))
  <2>1. UNCHANGED <<instance, dir, guestFiles, job, verifierVars, chosen, bounds>>
    BY <1>2 DEF Look, Info, Reinfo, WaitReady, Check, Recheck
  <2>2. Stays
    BY <2>1 DEF Stays, instance
  <2>3. inst' \in Insts \cup {None} /\ made' \in 0..setting.instances /\ dir' \in Dirs \cup {None}
    BY <2>1, TypeParts DEF IInv, instance
  <2>4. op[p].does \in {"create", "configure", "verify"}
    BY TypeParts DEF IInv, Ops
  <2>5. \A d \in {"create", "configure", "verify"} :
          /\ Ready(d) \in {"mkdir", "exec", "provision", "verify"}
          /\ Ready(d) = "verify" => d = "verify"
    BY DEF Ready
  <2>6. ASSUME NEW s \in OpPlaces \ {"streaming"}, Goes(p, s),
               op[p].at \notin {"idle", "streaming"},
               s \in {"verify", "verifying"} => op[p].does = "verify",
               Intruded /\ op[p].alone => s \in BeforeLook
        PROVE  IInv'
    BY <2>1, <2>2, <2>3, <2>6, GoStep DEF instance
  <2>7. CASE Look(p)
    BY <2>6, <2>7 DEF Look, OpPlaces, BeforeLook
  <2>8. CASE Info(p)
    <3>1. ~Intruded
      BY <2>8 DEF Info, Ours, Intruded
    <3>. QED BY <2>4, <2>5, <2>6, <2>8, <3>1 DEF Info, Up, OpPlaces
  <2>9. CASE Reinfo(p)
    <3>1. ~Intruded
      BY <2>9 DEF Reinfo, Ours, Intruded
    <3>. QED BY <2>4, <2>5, <2>6, <2>9, <3>1 DEF Reinfo, Up, OpPlaces
  <2>10. CASE WaitReady(p)
    <3>1. op[p].alone => ~Intruded
      BY <2>10 DEF WaitReady, IInv, ForeignKept, BeforeLook
    <3>. QED BY <2>4, <2>5, <2>6, <2>10, <3>1 DEF WaitReady, OpPlaces
  <2>11. CASE Check(p)
    BY <2>6, <2>11 DEF Check, OpPlaces, BeforeLook
  <2>12. CASE Recheck(p)
    <3>1. ~Intruded
      BY <2>12 DEF Recheck, Ours, Intruded
    <3>. QED BY <2>6, <2>12, <3>1 DEF Recheck, OpPlaces
  <2>. QED BY <1>2, <2>7, <2>8, <2>9, <2>10, <2>11, <2>12
<1>. QED BY <1>1, <1>2

\* A new instance.
LEMMA NewTyped ==
  ASSUME IInv, NEW b \in BOOLEAN, NewInstance(b)
  PROVE  /\ inst' \in Insts /\ made' \in 0..setting.instances
         /\ inst = None /\ inst'.keys = None
<1>1. made + 1 \in 1..setting.instances /\ made' = made + 1
  BY Constants, TypeParts DEF IInv, NewInstance
<1>2. inst' = [gen |-> made + 1, ours |-> b, running |-> ~b, ready |-> ~b, keys |-> None]
  BY DEF NewInstance
<1>. DEFINE nb == ~b
<1>3. nb \in BOOLEAN
  OBVIOUS
<1>4. inst' = [gen |-> made + 1, ours |-> b, running |-> nb, ready |-> nb, keys |-> None]
  BY <1>2
<1>. HIDE DEF nb
<1>5. inst' \in Insts
  BY <1>1, <1>3, <1>4 DEF Insts
<1>. QED BY <1>1, <1>2, <1>5 DEF NewInstance

\* Steps that change the instance or the host's directory for it.
LEMMA InstanceStep ==
  ASSUME IInv, NEW p \in Procs,
         Make(p) \/ Start(p) \/ GuestBoots \/ MakeForeign
  PROVE  IInv'
<1>1. UNCHANGED <<setting, dir, guestFiles, job, verifierVars, chosen, bounds>>
  BY DEF Make, Start, GuestBoots, MakeForeign
<1>2. dir' \in Dirs \cup {None}
  <2>1. Dirs' = Dirs
    BY <1>1 DEF Dirs
  <2>. QED BY <1>1, <2>1, TypeParts DEF IInv
<1>3. inst # None => inst \in Insts
  BY TypeParts DEF IInv
<1>4. made \in 0..setting.instances
  BY TypeParts DEF IInv
<1>5. CASE Make(p)
  <2>1. NewInstance(TRUE)
    BY <1>5 DEF Make
  <2>2. /\ inst' \in Insts /\ made' \in 0..setting.instances
        /\ inst = None /\ inst'.keys = None
    BY <2>1, NewTyped
  <2>3. Stays /\ ~Intruded
    BY <2>1, <2>2, NotNone DEF Stays, Intruded, NewInstance, IInv
  <2>. QED BY <1>1, <1>2, <1>5, <2>2, <2>3, GoStep DEF Make, OpPlaces
<1>6. CASE Start(p)
  <2>. DEFINE ready == ~Incus
  <2>1. ready \in BOOLEAN
    OBVIOUS
  <2>2. inst' = [inst EXCEPT !.running = TRUE, !.ready = ready] /\ inst # None
    BY <1>6 DEF Start
  <2>. HIDE DEF ready
  <2>3. [inst EXCEPT !.running = TRUE] \in Insts
    BY <1>3, <2>2, InstUpdated, Values
  <2>4. [[inst EXCEPT !.running = TRUE] EXCEPT !.ready = ready] \in Insts
    BY <2>1, <2>3, InstUpdated
  <2>5. inst' \in Insts /\ made' \in 0..setting.instances
    BY <1>4, <1>6, <2>2, <2>4 DEF Start
  <2>6. inst'.ours = inst.ours /\ inst'.keys = inst.keys
    BY <1>3, <2>2 DEF Insts
  <2>7. Stays
    BY <2>2, <2>5, <2>6, NotNone DEF Stays, IInv
  <2>8. Intruded /\ op[p].alone => FALSE
    BY <1>6 DEF Start, IInv, ForeignKept, BeforeLook
  <2>. QED BY <1>1, <1>2, <1>6, <2>5, <2>7, <2>8, GoStep DEF Start, OpPlaces
<1>7. CASE GuestBoots
  <2>1. inst' = [inst EXCEPT !.ready = TRUE] /\ inst # None
    BY <1>7 DEF GuestBoots, Running
  <2>2. inst' \in Insts
    BY <1>3, <2>1, InstUpdated, Values
  <2>3. inst'.ours = inst.ours /\ inst'.keys = inst.keys
    BY <1>3, <2>1 DEF Insts
  <2>4. Stays
    BY <2>1, <2>2, <2>3, NotNone DEF Stays, IInv
  <2>. QED BY <1>1, <1>2, <1>4, <1>7, <2>2, <2>4, OutsideStep DEF GuestBoots
<1>8. CASE MakeForeign
  <2>1. /\ inst' \in Insts /\ made' \in 0..setting.instances
        /\ inst = None /\ inst'.keys = None
    BY <1>8, NewTyped DEF MakeForeign
  <2>2. Stays
    BY <2>1, NotNone DEF Stays, IInv
  <2>. QED BY <1>1, <1>2, <1>8, <2>1, <2>2, OutsideStep DEF MakeForeign
<1>. QED BY <1>5, <1>6, <1>7, <1>8

\* Steps that change the host's directory for the instance.
LEMMA DirectoryStep ==
  ASSUME IInv, NEW p \in Procs,
         Mkdir(p) \/ Keygen(p) \/ Pin(p) \/ MoveAside
  PROVE  IInv'
<1>1. UNCHANGED <<instance, guestFiles, job, verifierVars, chosen, bounds>>
  BY DEF Mkdir, Keygen, Pin, MoveAside
<1>2. Stays
  BY <1>1 DEF Stays, instance
<1>3. inst' \in Insts \cup {None} /\ made' \in 0..setting.instances
  BY <1>1, TypeParts DEF IInv, instance
<1>4. dir # None => dir \in Dirs
  BY TypeParts DEF IInv
<1>5. CASE Mkdir(p)
  <2>1. dir' \in Dirs
    BY <1>5, Constants DEF Mkdir, Dirs, IInv
  <2>2. ~(Intruded /\ op[p].alone)
    BY <1>5 DEF Mkdir, IInv, ForeignKept, BeforeLook
  <2>. QED BY <1>1, <1>2, <1>3, <1>5, <2>1, <2>2, GoStep DEF Mkdir, OpPlaces, instance
<1>6. CASE Keygen(p)
  <2>1. dir' \in Dirs
    BY <1>4, <1>6 DEF Keygen, Dirs
  <2>2. ~(Intruded /\ op[p].alone)
    BY <1>6 DEF Keygen, IInv, ForeignKept, BeforeLook
  <2>. QED BY <1>1, <1>2, <1>3, <1>6, <2>1, <2>2, GoStep DEF Keygen, OpPlaces, instance
<1>7. CASE Pin(p)
  <2>1. inst \in Insts
    BY <1>7, TypeParts DEF IInv, Pin, Executable, Running
  <2>2. inst.gen \in 0..setting.instances
    BY <2>1, Constants DEF Insts, IInv
  <2>3. dir' \in Dirs
    BY <1>4, <1>7, <2>2 DEF Pin, Dirs
  <2>. QED BY <1>1, <1>2, <1>3, <1>7, <2>3, GoStep DEF Pin, OpPlaces, instance, BeforeLook
<1>8. CASE MoveAside
  BY <1>1, <1>2, <1>3, <1>8, OutsideStep DEF MoveAside, instance
<1>. QED BY <1>5, <1>6, <1>7, <1>8

\* The bootstrap: from now on nobody else on their way is alone.
LEMMA ExecStep == ASSUME IInv, NEW p \in Procs, Exec(p) PROVE IInv'
<1>. USE DEF IInv, guestFiles, verifierVars, bounds, Exec
<1>1. op \in [Procs -> Ops] /\ inst \in Insts
  BY TypeParts DEF Executable, Running
<1>2. inst' \in Insts /\ inst'.ours = inst.ours
  <2>. DEFINE k == IF Incus THEN p ELSE "lima"
  <2>1. k \in Procs \cup {"lima", None} /\ inst' = [inst EXCEPT !.keys = k]
    OBVIOUS
  <2>. HIDE DEF k
  <2>2. [inst EXCEPT !.keys = k] \in Insts
    BY <1>1, <2>1, InstUpdated
  <2>3. [inst EXCEPT !.keys = k].ours = inst.ours
    BY <1>1 DEF Insts
  <2>. QED BY <2>1, <2>2, <2>3
<1>3. inst' # None /\ inst # None
  BY <1>2, NotNone DEF Executable, Running
<1>4. \A q \in Procs \ {p} : op'[q] \in Ops
  <2>. TAKE q \in Procs \ {p}
  <2>. DEFINE b == op[q].alone /\ op[q] = NoOp
  <2>1. op'[q] = [op[q] EXCEPT !.alone = b] /\ b \in BOOLEAN /\ op[q] \in Ops
    BY <1>1
  <2>. HIDE DEF b
  <2>. QED BY <2>1, OpUpdated
<1>5. op'[p] \in Ops
  <2>. DEFINE s == IF Incus THEN "pin" ELSE "check"
  <2>1. s \in OpPlaces /\ op'[p] = [op[p] EXCEPT !.at = s]
    BY <1>1 DEF OpPlaces
  <2>. QED BY <1>1, <2>1, OpUpdated
<1>6. op' \in [Procs -> Ops]
  BY <1>4, <1>5
<1>7. /\ op'[p].at \in {"pin", "check"}
      /\ op'[p].does = op[p].does /\ op'[p].selects = op[p].selects
  BY <1>1 DEF Ops
<1>8. ASSUME NEW q \in Procs \ {p}
      PROVE  /\ op'[q].at = op[q].at /\ op'[q].does = op[q].does
             /\ op'[q].selects = op[q].selects
             /\ op'[q].alone => op'[q].at = "idle"
  <2>. DEFINE b == op[q].alone /\ op[q] = NoOp
  <2>1. op'[q] = [op[q] EXCEPT !.alone = b] /\ op[q] \in Ops
    BY <1>1
  <2>2. b => op[q].at = "idle"
    BY DEF NoOp
  <2>. HIDE DEF b
  <2>. QED BY <2>1, <2>2 DEF Ops
<1>9. TypeOK'
  <2>1. VerifierTypeOK'
    BY TypeParts DEF VerifierTypeOK
  <2>. QED BY <1>2, <1>6, <2>1, TypeParts DEF TypeOK, Insts, Dirs, Jobs, Ops
<1>10. VerInv'
  BY DEF VerInv, OneCanary, Canaried, Honest
<1>11. JobsAtHome'
  BY <1>3, <1>7, <1>8 DEF JobsAtHome
<1>12. ForeignKept'
  BY <1>7, <1>8 DEF ForeignKept, BeforeLook
<1>13. SelectionKept'
  <2>1. \A q \in Procs : ~Past(op'[q]) /\ (op'[q].does = "verify" => op'[q].selects = "preserve")
    BY <1>7, <1>8 DEF Past, SelectionKept
  <2>. QED BY <2>1, SelectionStays
<1>. QED BY <1>9, <1>10, <1>11, <1>12, <1>13

-----------------------------------------------------------------------------
(* Steps of a provisioning script                                          *)

\* A script at work is in an instance and with an invocation that streams it,
\* or with none; it is the only one when that invocation is Past.
LEMMA ScriptStep ==
  ASSUME IInv, NEW p \in Procs, NEW j \in Jobs, Active(p), job' = [job EXCEPT ![p] = j],
         UNCHANGED <<instance, dir, verifierVars, op, chosen, bounds>>,
         target' \in [Agents -> Recorded], sum' \in [Agents -> Recorded],
         saved' \in [Agents -> Customs \cup {"none"}],
         guest' \in [denied : BOOLEAN, verifier : BOOLEAN],
         Selected',
         Past(op[p]) /\ op[p].at = "streaming" /\ Halfway(job[p], op[p].selects) => Coming(p)'
  PROVE  IInv'
<1>. USE DEF IInv, instance, verifierVars, bounds
<1>1. job \in [Procs -> Jobs]
  BY TypeParts
<1>2. job'[p] = j /\ \A q \in Procs \ {p} : job'[q] = job[q]
  BY <1>1
<1>3. job[p].at # "idle" /\ op[p].at \in {"idle", "streaming"} /\ inst # None
  BY DEF Active, ScriptPlaces, JobsAtHome
<1>4. TypeOK'
  <2>1. job' \in [Procs -> Jobs]
    BY <1>1
  <2>2. VerifierTypeOK'
    BY TypeParts DEF VerifierTypeOK
  <2>. QED BY <2>1, <2>2, TypeParts DEF TypeOK, Insts, Dirs, Jobs, Ops
<1>5. VerInv'
  BY DEF VerInv, OneCanary, Canaried, Honest
<1>6. JobsAtHome'
  BY <1>2, <1>3 DEF JobsAtHome
<1>7. ForeignKept'
  BY <1>2, <1>3 DEF ForeignKept, Intruded
<1>8. \A q \in Procs : Active(q)' => Active(q)
  BY <1>2 DEF Active
<1>9. Alone'
  BY <1>8 DEF Alone, SelectionKept
<1>10. ASSUME NEW q \in Procs, Past(op[q]) PROVE Coming(q)'
  <2>1. q = p
    BY <1>10 DEF SelectionKept, Alone
  <2>2. op[p].at = "streaming"
    BY <1>3, <1>10, <2>1 DEF Past
  <2>3. Halfway(job[p], op[p].selects)
    BY <1>10, <2>1, <2>2 DEF SelectionKept, Coming
  <2>. QED BY <1>10, <2>1, <2>2, <2>3
<1>11. SelectionKept'
  BY <1>9, <1>10 DEF SelectionKept
<1>. QED BY <1>4, <1>5, <1>6, <1>7, <1>11

\* The types of the guest's files.
LEMMA FilesTyped ==
  ASSUME IInv
  PROVE  /\ target \in [Agents -> Recorded] /\ sum \in [Agents -> Recorded]
         /\ saved \in [Agents -> Customs \cup {"none"}]
         /\ guest \in [denied : BOOLEAN, verifier : BOOLEAN]
         /\ chosen \subseteq Policies /\ job \in [Procs -> Jobs] /\ op \in [Procs -> Ops]
         /\ ver \in [Procs -> Verifiers]
BY TypeParts, VerTyped DEF IInv

\* A script that ends.
LEMMA ExitStep ==
  ASSUME IInv, NEW p \in Procs, ScriptRests(p) \/ ScriptStops(p)
  PROVE  IInv'
<1>. DEFINE s == IF ScriptRests(p) THEN "exited" ELSE "failed"
            j == IF op[p].at = "streaming" THEN [NoJob EXCEPT !.at = s] ELSE NoJob
<1>1. Active(p)
  BY DEF ScriptRests, ScriptStops, Active, ScriptPlaces
<1>2. job \in [Procs -> Jobs] /\ guest \in [denied : BOOLEAN, verifier : BOOLEAN]
  BY FilesTyped
<1>3. /\ job' = [job EXCEPT ![p] = j]
      /\ UNCHANGED <<instance, dir, target, sum, saved, verifierVars, op, chosen, bounds>>
  BY DEF ScriptRests, ScriptStops, Exits, guestFiles
<1>4. guest' \in [denied : BOOLEAN, verifier : BOOLEAN]
  BY <1>2 DEF ScriptRests, ScriptStops, guestFiles
<1>5. j \in Jobs
  BY Idle, JobUpdated
<1>6. j.at \in {"idle", "exited", "failed"} /\ (j.at = "exited" => ScriptRests(p))
  BY DEF NoJob
<1>7. Past(op[p]) /\ op[p].at = "streaming" /\ Halfway(job[p], op[p].selects) => Coming(p)'
  <2>1. SUFFICES ASSUME op[p].at = "streaming", Halfway(job[p], op[p].selects), j.at = "exited",
                        NEW a \in Agents
                 PROVE  Settled(a, op[p].selects)'
    BY <1>2, <1>3, <1>6 DEF Coming, Active, ScriptPlaces
  <2>2. job[p].at = "rest"
    BY <1>6, <2>1 DEF ScriptRests
  <2>. QED BY <1>3, <2>1, <2>2, Values DEF Halfway, Settled, Keeps, Want
<1>8. Selected'
  <2>1. ~Active(p)' /\ \A q \in Procs \ {p} : job'[q] = job[q]
    BY <1>2, <1>3, <1>6 DEF Active, ScriptPlaces
  <2>. QED BY <1>3, <2>1 DEF Selected, IInv, SelectionKept, Active
<1>. HIDE DEF j
<1>9. target' \in [Agents -> Recorded] /\ sum' \in [Agents -> Recorded]
      /\ saved' \in [Agents -> Customs \cup {"none"}]
  BY <1>3, FilesTyped
<1>. QED BY <1>1, <1>3, <1>4, <1>5, <1>7, <1>8, <1>9, ScriptStep

\* install_managed_policy, from the saved file to the checksum.
LEMMA InstallStep ==
  ASSUME IInv, NEW p \in Procs,
         ScriptBegins(p) \/ Save(p) \/ Pick(p) \/ Swap(p) \/ Record(p)
  PROVE  IInv'
<1>. DEFINE s == op[p].selects  a == job[p].agent
<1>1. Active(p)
  BY DEF ScriptBegins, Save, Pick, Swap, Record, Active, ScriptPlaces
<1>2. /\ target \in [Agents -> Recorded] /\ sum \in [Agents -> Recorded]
      /\ saved \in [Agents -> Customs \cup {"none"}]
      /\ guest \in [denied : BOOLEAN, verifier : BOOLEAN]
      /\ chosen \subseteq Policies /\ job \in [Procs -> Jobs]
  BY FilesTyped
<1>3. UNCHANGED <<instance, dir, verifierVars, op, chosen, bounds>>
  BY DEF ScriptBegins, Save, Pick, Swap, Record
<1>4. job[p] \in Jobs /\ a \in {"codex", "claude"} /\ job[p].selects \in Selections
      /\ job[p].picked \in Recorded
  BY <1>2, Values DEF Jobs
<1>5. Selected
  BY DEF IInv, SelectionKept
<1>6. /\ job[p].selects \in chosen \cup {"preserve"}
      /\ job[p].at = "swap" => job[p].picked \in chosen
  BY <1>1, <1>5 DEF Selected
<1>7. "none" \notin chosen /\ "preserve" \notin chosen
  BY <1>2, Names
<1>8. CASE ScriptBegins(p)
  <2>. DEFINE j == [job[p] EXCEPT !.at = "save"]
  <2>1. j \in Jobs
    BY <1>4, JobUpdated DEF ScriptPlaces
  <2>2. /\ job' = [job EXCEPT ![p] = j] /\ UNCHANGED <<target, sum, saved>>
        /\ guest' \in [denied : BOOLEAN, verifier : BOOLEAN]
    BY <1>2, <1>8 DEF ScriptBegins, Steps
  <2>3. j.at = "save" /\ j.agent = a /\ j.selects = job[p].selects
    BY <1>4 DEF Jobs
  <2>. HIDE DEF j
  <2>4. job'[p] = j /\ \A q \in Procs \ {p} : job'[q] = job[q]
    BY <1>2, <2>2
  <2>5. Selected'
    BY <1>3, <1>5, <1>6, <2>2, <2>3, <2>4 DEF Selected, Active
  <2>6. Halfway(job[p], s) /\ op[p].at = "streaming" => Coming(p)'
    BY <1>3, <2>2, <2>3, <2>4 DEF Coming, Halfway, Settled, Keeps, Want
  <2>. QED BY <1>1, <1>2, <1>3, <2>1, <2>2, <2>5, <2>6, ScriptStep
<1>9. CASE Save(p)
  <2>. DEFINE j == [job[p] EXCEPT !.at = "pick"]
              new == CASE job[p].selects = "preserve" -> saved[a]
                       [] job[p].selects = "embedded" -> "none"
                       [] OTHER -> job[p].selects
  <2>1. j \in Jobs
    BY <1>4, JobUpdated DEF ScriptPlaces
  <2>2. /\ job' = [job EXCEPT ![p] = j] /\ UNCHANGED <<target, sum, guest>>
        /\ saved' = [saved EXCEPT ![a] = new]
    BY <1>9 DEF Save, Steps
  <2>3. j.at = "pick" /\ j.agent = a /\ j.selects = job[p].selects
    BY <1>4 DEF Jobs
  <2>4. new \in Customs \cup {"none"}
    BY <1>2, <1>4, Names, Values
  <2>5. /\ new = "none" => "embedded" \in chosen
        /\ new # "none" => new \in chosen
        /\ job[p].selects # "preserve"
             => new = (IF job[p].selects = "embedded" THEN "none" ELSE job[p].selects)
    BY <1>4, <1>5, <1>6, <1>7, Values DEF Selected
  <2>. HIDE DEF j, new
  <2>6. job'[p] = j /\ \A q \in Procs \ {p} : job'[q] = job[q]
    BY <1>2, <2>2
  <2>7. saved'[a] = new /\ \A b \in Agents \ {a} : saved'[b] = saved[b]
    BY <1>2, <1>4, <2>2, Values
  <2>8. Selected'
    BY <1>3, <1>5, <1>6, <2>2, <2>3, <2>5, <2>6, <2>7 DEF Selected, Active
  <2>9. Halfway(job[p], s) /\ op[p].at = "streaming" => Coming(p)'
    BY <1>3, <2>2, <2>3, <2>5, <2>6, <2>7, Values
       DEF Coming, Halfway, Settled, Keeps, Want
  <2>10. saved' \in [Agents -> Customs \cup {"none"}]
    BY <1>2, <2>2, <2>4
  <2>. QED BY <1>1, <1>2, <1>3, <2>1, <2>2, <2>8, <2>9, <2>10, ScriptStep
<1>10. CASE Pick(p)
  <2>. DEFINE new == IF saved[a] = "none" THEN "embedded" ELSE saved[a]
              j == [job[p] EXCEPT !.at = "swap", !.picked = new]
  <2>1. new \in Recorded /\ "swap" \in ScriptPlaces
    BY <1>2, <1>4, Names, Values DEF ScriptPlaces
  <2>2. /\ job' = [job EXCEPT ![p] = j] /\ UNCHANGED <<target, sum, guest, saved>>
    BY <1>4, <1>10 DEF Pick, guestFiles, Jobs
  <2>3. new \in chosen /\ (s # "preserve" /\ Keeps(a, s) => new = s)
    BY <1>4, <1>5, <1>7, FilesTyped, Names, Values DEF Selected, Keeps, Ops
  <2>. HIDE DEF new
  <2>4. [job[p] EXCEPT !.at = "swap"] \in Jobs
    BY <1>4, <2>1, JobUpdated
  <2>5. j \in Jobs
    BY <2>1, <2>4, JobUpdated
  <2>6. j.at = "swap" /\ j.agent = a /\ j.selects = job[p].selects /\ j.picked = new
    BY <1>4 DEF Jobs
  <2>. HIDE DEF j
  <2>7. job'[p] = j /\ \A q \in Procs \ {p} : job'[q] = job[q]
    BY <1>2, <2>2
  <2>8. Selected'
    BY <1>3, <1>5, <1>6, <2>2, <2>3, <2>6, <2>7 DEF Selected, Active
  <2>9. Halfway(job[p], s) /\ op[p].at = "streaming" => Coming(p)'
    BY <1>3, <1>10, <2>2, <2>3, <2>6, <2>7 DEF Pick, Coming, Halfway, Settled, Keeps, Want
  <2>. QED BY <1>1, <1>2, <1>3, <2>2, <2>5, <2>8, <2>9, ScriptStep
<1>11. CASE Swap(p)
  <2>. DEFINE j == [job[p] EXCEPT !.at = "sum", !.picked = "none"]
  <2>1. "sum" \in ScriptPlaces /\ "none" \in Recorded
    BY Values DEF ScriptPlaces
  <2>2. /\ job' = [job EXCEPT ![p] = j] /\ UNCHANGED <<sum, guest, saved>>
        /\ target' = [target EXCEPT ![a] = job[p].picked] /\ job[p].at = "swap"
    BY <1>4, <1>11 DEF Swap, Jobs
  <2>3. [job[p] EXCEPT !.at = "sum"] \in Jobs
    BY <1>4, <2>1, JobUpdated
  <2>4. j \in Jobs
    BY <2>1, <2>3, JobUpdated
  <2>5. j.at = "sum" /\ j.agent = a /\ j.selects = job[p].selects
    BY <1>4 DEF Jobs
  <2>. HIDE DEF j
  <2>6. job'[p] = j /\ \A q \in Procs \ {p} : job'[q] = job[q]
    BY <1>2, <2>2
  <2>7. target'[a] = job[p].picked /\ \A b \in Agents \ {a} : target'[b] = target[b]
    BY <1>2, <1>4, <2>2, Values
  <2>8. Selected'
    BY <1>3, <1>5, <1>6, <2>2, <2>5, <2>6, <2>7 DEF Selected, Active
  <2>9. Halfway(job[p], s) /\ op[p].at = "streaming" => Coming(p)'
    BY <1>3, <2>2, <2>5, <2>6, <2>7, Values DEF Coming, Halfway, Settled, Keeps, Want
  <2>10. target' \in [Agents -> Recorded]
    BY <1>2, <1>4, <2>2
  <2>. QED BY <1>1, <1>2, <1>3, <2>2, <2>4, <2>8, <2>9, <2>10, ScriptStep
<1>12. CASE Record(p)
  <2>. DEFINE at == IF a = "codex" THEN "save" ELSE "rest"
              j == [job[p] EXCEPT !.agent = "claude", !.at = at]
  <2>1. at \in ScriptPlaces /\ "claude" \in Agents
    BY Values DEF ScriptPlaces
  <2>2. /\ job' = [job EXCEPT ![p] = j] /\ UNCHANGED <<target, guest, saved>>
        /\ sum' = [sum EXCEPT ![a] = target[a]] /\ job[p].at = "sum"
    BY <1>4, <1>12 DEF Record, Jobs
  <2>3. at = (IF a = "codex" THEN "save" ELSE "rest")
    OBVIOUS
  <2>. HIDE DEF at
  <2>4. [job[p] EXCEPT !.agent = "claude"] \in Jobs
    BY <1>4, <2>1, JobUpdated
  <2>5. j \in Jobs
    BY <2>1, <2>4, JobUpdated
  <2>6. j.at = at /\ j.agent = "claude" /\ j.selects = job[p].selects
    BY <1>4 DEF Jobs
  <2>. HIDE DEF j
  <2>7. job'[p] = j /\ \A q \in Procs \ {p} : job'[q] = job[q]
    BY <1>2, <2>2
  <2>8. Selected'
    BY <1>3, <1>5, <1>6, <2>2, <2>3, <2>6, <2>7 DEF Selected, Active
  <2>9. Halfway(job[p], s) /\ op[p].at = "streaming" => Coming(p)'
    BY <1>3, <1>4, <2>2, <2>3, <2>6, <2>7, Values DEF Coming, Halfway, Settled, Keeps, Want
  <2>10. sum' \in [Agents -> Recorded]
    BY <1>2, <1>4, <2>2, Values
  <2>. QED BY <1>1, <1>2, <1>3, <2>2, <2>5, <2>8, <2>9, <2>10, ScriptStep
<1>. QED BY <1>8, <1>9, <1>10, <1>11, <1>12

-----------------------------------------------------------------------------
(* Sending the script, and its end                                         *)

\* The script is sent: root's keys are there, so the instance is not one that
\* p has not looked at; from now on no other invocation on its way is alone.
LEMMA ProvisionStep == ASSUME IInv, NEW p \in Procs, Provision(p) PROVE IInv'
<1>. USE DEF IInv, instance, guestFiles, verifierVars, bounds, Provision
<1>1. op \in [Procs -> Ops] /\ job \in [Procs -> Jobs] /\ inst \in Insts
  BY FilesTyped, TypeParts DEF RootSSH, Executable, Running
<1>2. inst # None /\ inst.keys # None
  BY NoneAssumption DEF RootSSH, Executable, Running
<1>. DEFINE sel == op[p].selects
            j == [NoJob EXCEPT !.at = "begin", !.selects = sel]
            b == op[p].alone /\ \A o \in Procs : ~Active(o)
            mine == [op[p] EXCEPT !.at = "streaming", !.alone = b]
<1>3. sel \in Selections /\ "begin" \in ScriptPlaces /\ "streaming" \in OpPlaces /\ b \in BOOLEAN
  BY <1>1 DEF Ops, ScriptPlaces, OpPlaces
<1>4. op'[p] = mine /\ job' = [job EXCEPT ![p] = j]
  BY <1>1
<1>5. b => op[p].alone /\ \A o \in Procs : ~Active(o)
  OBVIOUS
<1>6. chosen' = chosen \cup ({sel} \ {"preserve"})
  OBVIOUS
<1>. HIDE DEF sel, b
<1>7. mine \in Ops
  <2>1. [op[p] EXCEPT !.at = "streaming"] \in Ops
    BY <1>1, <1>3, OpUpdated
  <2>. QED BY <1>3, <2>1, OpUpdated
<1>8. j \in Jobs
  <2>1. [NoJob EXCEPT !.at = "begin"] \in Jobs
    BY <1>3, Idle, JobUpdated
  <2>. QED BY <1>3, <2>1, JobUpdated
<1>9. /\ mine.at = "streaming" /\ mine.alone = b
      /\ mine.does = op[p].does /\ mine.selects = op[p].selects
  BY <1>1 DEF Ops
<1>10. j.at = "begin" /\ j.selects = sel /\ j.agent = "codex"
  BY DEF NoJob
<1>. HIDE DEF mine, j
<1>11. job'[p] = j /\ \A q \in Procs \ {p} : job'[q] = job[q]
  BY <1>1, <1>4
<1>12. \A q \in Procs \ {p} : op'[q] \in Ops
  <2>. TAKE q \in Procs \ {p}
  <2>. DEFINE c == op[q].alone /\ op[q] = NoOp
  <2>1. op'[q] = [op[q] EXCEPT !.alone = c] /\ c \in BOOLEAN /\ op[q] \in Ops
    BY <1>1
  <2>. HIDE DEF c
  <2>. QED BY <2>1, OpUpdated
<1>13. ASSUME NEW q \in Procs \ {p}
       PROVE  /\ op'[q].at = op[q].at /\ op'[q].does = op[q].does
              /\ op'[q].selects = op[q].selects
              /\ op'[q].alone => op'[q].at = "idle"
  <2>. DEFINE c == op[q].alone /\ op[q] = NoOp
  <2>1. op'[q] = [op[q] EXCEPT !.alone = c] /\ op[q] \in Ops
    BY <1>1
  <2>2. c => op[q] = NoOp
    OBVIOUS
  <2>3. NoOp.at = "idle"
    BY DEF NoOp
  <2>. HIDE DEF c
  <2>. QED BY <2>1, <2>2, <2>3 DEF Ops
<1>14. TypeOK'
  <2>1. op' \in [Procs -> Ops]
    BY <1>4, <1>7, <1>12
  <2>2. job' \in [Procs -> Jobs]
    BY <1>1, <1>4, <1>8
  <2>3. chosen' \subseteq Policies
    BY <1>3, <1>6, FilesTyped DEF Selections
  <2>4. VerifierTypeOK'
    BY TypeParts DEF VerifierTypeOK
  <2>. QED BY <2>1, <2>2, <2>3, <2>4, TypeParts DEF TypeOK, Insts, Dirs, Jobs, Ops
<1>15. VerInv'
  BY DEF VerInv, OneCanary, Canaried, Honest
<1>16. JobsAtHome'
  BY <1>2, <1>4, <1>9, <1>11, <1>13 DEF JobsAtHome
<1>17. op[p].alone => inst.ours
  BY <1>2 DEF ForeignKept, Intruded, BeforeLook
<1>18. ForeignKept'
  BY <1>4, <1>5, <1>9, <1>13, <1>17 DEF ForeignKept, Intruded, BeforeLook
<1>19. Selected'
  <2>1. sel \in chosen' \cup {"preserve"} /\ chosen \subseteq chosen'
    BY <1>6
  <2>. QED BY <1>10, <1>11, <2>1 DEF Selected, SelectionKept, Active
<1>20. Alone'
  <2>1. \A q \in Procs \ {p} : ~Past(op'[q])
    BY <1>13 DEF Past
  <2>2. Past(op'[p]) => \A q \in Procs \ {p} : ~Active(q)'
    BY <1>4, <1>5, <1>9, <1>11 DEF Past, Active
  <2>. QED BY <2>1, <2>2 DEF Alone
<1>21. ASSUME NEW q \in Procs
       PROVE  /\ op'[q].does = "verify" => op'[q].selects = "preserve"
              /\ Past(op'[q]) => Coming(q)'
  <2>1. CASE q = p
    <3>1. op'[p].does = "verify" => op'[p].selects = "preserve"
      BY <1>4, <1>9 DEF SelectionKept
    <3>2. Coming(p)'
      BY <1>4, <1>9, <1>10, <1>11 DEF Coming, Halfway, sel
    <3>. QED BY <2>1, <3>1, <3>2
  <2>2. CASE q # p
    BY <1>13, <2>2 DEF Past, SelectionKept
  <2>. QED BY <2>1, <2>2
<1>22. SelectionKept'
  BY <1>19, <1>20, <1>21 DEF SelectionKept
<1>. QED BY <1>14, <1>15, <1>16, <1>18, <1>22

\* p leaves the stream of its script, which has ended or goes on without it.
LEMMA LeaveStep ==
  ASSUME IInv, NEW p \in Procs, NEW o \in Ops, NEW k \in Jobs,
         op' = [op EXCEPT ![p] = o], job' = [job EXCEPT ![p] = k],
         UNCHANGED <<instance, dir, guestFiles, verifierVars, chosen, stops, meddles>>,
         kills' \in 0..setting.kills,
         \/ k.at = "idle"
         \/ Active(p) /\ k.at = job[p].at /\ k.selects = job[p].selects
            /\ k.picked = job[p].picked /\ o.at = "idle",
         \/ o = NoOp
         \/ /\ op[p].at = "streaming" /\ job[p].at = "exited"
            /\ o = [op[p] EXCEPT !.at = "verify"]
  PROVE  IInv'
<1>. USE DEF IInv, instance, guestFiles, verifierVars
<1>1. op \in [Procs -> Ops] /\ job \in [Procs -> Jobs]
  BY FilesTyped
<1>2. op'[p] = o /\ \A q \in Procs \ {p} : op'[q] = op[q]
  BY <1>1
<1>3. job'[p] = k /\ \A q \in Procs \ {p} : job'[q] = job[q]
  BY <1>1
<1>4. \/ o.at = "idle" /\ o.does = "verify" /\ o.selects = "preserve"
      \/ /\ op[p].at = "streaming" /\ job[p].at = "exited" /\ o.at = "verify"
         /\ o.does = op[p].does /\ o.selects = op[p].selects /\ o.alone = op[p].alone
  BY <1>1 DEF NoOp, Ops
<1>5. TypeOK'
  <2>1. op' \in [Procs -> Ops] /\ job' \in [Procs -> Jobs]
    BY <1>1
  <2>2. VerifierTypeOK'
    BY TypeParts DEF VerifierTypeOK
  <2>. QED BY <2>1, <2>2, TypeParts DEF TypeOK, Insts, Dirs, Jobs, Ops
<1>6. VerInv'
  BY DEF VerInv, OneCanary, Canaried, Honest
<1>7. JobsAtHome'
  BY <1>2, <1>3, <1>4 DEF JobsAtHome, Active, ScriptPlaces
<1>8. ForeignKept'
  BY <1>2, <1>3, <1>4 DEF ForeignKept, Intruded, BeforeLook
<1>9. \A q \in Procs : Active(q)' => Active(q)
  BY <1>3 DEF Active, ScriptPlaces
<1>10. Past(o) => Past(op[p])
  BY <1>4 DEF Past
<1>11. Selected'
  BY <1>3, <1>9 DEF Selected, SelectionKept, Active, ScriptPlaces
<1>12. Alone'
  BY <1>2, <1>9, <1>10 DEF Alone, SelectionKept
<1>13. ASSUME NEW q \in Procs
       PROVE  /\ op'[q].does = "verify" => op'[q].selects = "preserve"
              /\ Past(op'[q]) => Coming(q)'
  <2>1. CASE q = p
    <3>1. op'[p].does = "verify" => op'[p].selects = "preserve"
      BY <1>2, <1>4 DEF SelectionKept
    <3>2. ASSUME Past(o) PROVE Coming(p)'
      <4>1. /\ op[p].at = "streaming" /\ job[p].at = "exited" /\ o.at = "verify"
            /\ o.selects = op[p].selects
        BY <1>4, <3>2 DEF Past
      <4>2. \A a \in Agents : Settled(a, o.selects)
        BY <1>10, <3>2, <4>1 DEF SelectionKept, Coming
      <4>3. \A a \in Agents : Settled(a, o.selects)'
        BY <4>2 DEF Settled, Keeps, Want
      <4>. QED BY <1>2, <4>1, <4>3 DEF Coming
    <3>. QED BY <1>2, <2>1, <3>1, <3>2
  <2>2. CASE q # p
    BY <1>2, <1>3, <2>2 DEF SelectionKept, Coming, Halfway, Settled, Keeps, Want, Active
  <2>. QED BY <2>1, <2>2
<1>14. SelectionKept'
  BY <1>11, <1>12, <1>13 DEF SelectionKept
<1>. QED BY <1>5, <1>6, <1>7, <1>8, <1>14

\* The script's success, its failure, and the death of its invocation.
LEMMA StreamEnds ==
  ASSUME IInv, NEW p \in Procs,
         Provisioned(p) \/ NotProvisioned(p) \/ Interrupted(p)
  PROVE  IInv'
<1>1. op[p] \in Ops /\ job[p] \in Jobs
  BY FilesTyped
<1>2. kills \in 0..setting.kills /\ setting.kills \in Nat
  BY TypeParts, Constants DEF IInv
<1>3. NoJob.at = "idle" /\ NoOp.at = "idle"
  BY DEF NoJob, NoOp
<1>4. CASE Provisioned(p)
  <2>1. [op[p] EXCEPT !.at = "verify"] \in Ops
    BY <1>1, OpUpdated DEF OpPlaces
  <2>2. op' = [op EXCEPT ![p] = [op[p] EXCEPT !.at = "verify"]]
    BY <1>4 DEF Provisioned, Goes
  <2>. QED BY <1>2, <1>3, <1>4, <2>1, <2>2, Idle, LeaveStep DEF Provisioned, bounds
<1>5. CASE NotProvisioned(p)
  BY <1>2, <1>3, <1>5, Idle, LeaveStep DEF NotProvisioned, Ends, bounds
<1>6. CASE Interrupted(p)
  <2>1. kills' \in 0..setting.kills
    BY <1>2, <1>6 DEF Interrupted
  <2>2. CASE Active(p)
    <3>1. PICK cut \in BOOLEAN : job' = [job EXCEPT ![p].cut = cut]
      BY <1>6, <2>2 DEF Interrupted
    <3>. DEFINE k == [job[p] EXCEPT !.cut = cut]
    <3>2. k \in Jobs
      BY <1>1, JobUpdated
    <3>3. k.at = job[p].at /\ k.selects = job[p].selects /\ k.picked = job[p].picked
      BY <1>1 DEF Jobs
    <3>4. job' = [job EXCEPT ![p] = k]
      BY <3>1
    <3>. HIDE DEF k
    <3>. QED BY <1>3, <1>6, <2>1, <2>2, <3>2, <3>3, <3>4, Idle, LeaveStep
             DEF Interrupted, Ends
  <2>3. CASE ~Active(p)
    BY <1>3, <1>6, <2>1, <2>3, Idle, LeaveStep DEF Interrupted, Ends
  <2>. QED BY <2>2, <2>3
<1>. QED BY <1>4, <1>5, <1>6

-----------------------------------------------------------------------------
(* Verifiers, as the invocations see them                                  *)

\* A step among the verifiers, of which none begins.
LEMMA VerStep ==
  ASSUME IInv, VerInv', UNCHANGED <<instance, dir, guestFiles, job, op, chosen, kills, stops>>,
         meddles' \in 0..setting.meddles,
         \A v \in Procs : ver'[v].at # "idle" => ver[v].at # "idle"
  PROVE  IInv'
<1>. USE DEF IInv, instance, guestFiles
<1>1. TypeOK'
  <2>1. VerifierTypeOK'
    BY FilesTyped DEF VerifierTypeOK, VerInv, Verifiers, Ats, Views
  <2>. QED BY <2>1, TypeParts DEF TypeOK, Insts, Dirs, Jobs, Ops
<1>2. JobsAtHome' /\ ForeignKept'
  BY DEF JobsAtHome, ForeignKept, Intruded
<1>3. SelectionKept'
  BY SelectionStays
<1>. QED BY <1>1, <1>2, <1>3

\* Where a verifier that has ended is.
LEMMA UnstartedIs == Unstarted.at = "idle"
BY DEF Unstarted

\* A verifier's own steps, the end of an orphan and the user's hand.
LEMMA VerifierStep ==
  ASSUME IInv, NEW v \in Procs,
         (Verify(v) /\ UNCHANGED Outside) \/ OrphanEnds(v) \/ UserMeddles
  PROVE  IInv'
<1>1. VerInv /\ VerifierTypeOK /\ ver \in [Procs -> Verifiers] /\ meddles \in 0..setting.meddles
      /\ setting.meddles \in Nat
  BY TypeParts, FilesTyped, Constants DEF IInv
<1>2. CASE Verify(v) /\ UNCHANGED Outside
  <2>1. VerInv' /\ ver[v].at # "idle"
    BY <1>1, <1>2, VerifyKeeps
  <2>2. \A u \in Procs \ {v} : ver'[u] = ver[u]
    BY <1>1, <1>2, VerifyOne
  <2>. QED BY <1>1, <1>2, <2>1, <2>2, VerStep DEF Outside, bounds
<1>3. CASE OrphanEnds(v)
  <2>1. ver' = [ver EXCEPT ![v] = Unstarted] /\ pgpass' = pgpass
    BY <1>3 DEF OrphanEnds
  <2>2. ver' \in [Procs -> Verifiers] /\ ver'[v] = Unstarted
        /\ \A u \in Procs \ {v} : ver'[u] = ver[u]
    BY <1>1, <2>1, UnstartedTyped
  <2>3. VerInv'
    <3>. DEFINE P == Procs \ {v}
    <3>1. P \in SUBSET Procs /\ \A u \in Procs \ P : u = v
      OBVIOUS
    <3>. QED BY <1>1, <2>1, <2>2, <3>1, RestartKeeps
  <2>. QED BY <1>1, <1>3, <2>2, <2>3, UnstartedIs, VerStep DEF OrphanEnds, bounds
<1>4. CASE UserMeddles
  <2>1. VerInv'
    BY <1>1, <1>4, UserKeeps DEF UserMeddles
  <2>2. \A u \in Procs : ver'[u].at = ver[u].at
    BY <1>1, <1>4 DEF UserMeddles, UserPgpass, Verifiers
  <2>. QED BY <1>1, <1>4, <2>1, <2>2, VerStep DEF UserMeddles
<1>. QED BY <1>2, <1>3, <1>4

\* The acceptance checks start: a Past invocation's policies are settled.
LEMMA VerifyGuestStep == ASSUME IInv, NEW p \in Procs, VerifyGuest(p) PROVE IInv'
<1>. USE DEF IInv, instance, guestFiles, bounds
<1>. DEFINE o == [op[p] EXCEPT !.at = "verifying"]
            started == [Unstarted EXCEPT !.at = "sum"]
<1>1. op \in [Procs -> Ops] /\ ver \in [Procs -> Verifiers]
  BY FilesTyped
<1>2. /\ op' = [op EXCEPT ![p] = o] /\ op[p].at = "verify" /\ guest.verifier
      /\ ver' = [ver EXCEPT ![p] = started] /\ pgpass' = pgpass
      /\ UNCHANGED <<instance, dir, guestFiles, job, chosen, bounds>>
  BY DEF VerifyGuest, Goes, StartVerifier
<1>3. o \in Ops
  BY <1>1, OpUpdated DEF OpPlaces
<1>4. started \in Verifiers
  BY UnstartedTyped, Updated DEF Ats
<1>5. /\ o.at = "verifying" /\ o.does = op[p].does /\ o.selects = op[p].selects
      /\ o.alone = op[p].alone
  BY <1>1 DEF Ops
<1>. HIDE DEF o, started
<1>6. op'[p] = o /\ \A q \in Procs \ {p} : op'[q] = op[q]
  BY <1>1, <1>2
<1>7. ver'[p] = started /\ \A q \in Procs \ {p} : ver'[q] = ver[q]
  BY <1>1, <1>2
<1>8. VerInv'
  <2>. DEFINE P == Procs \ {p}
  <2>1. P \in SUBSET Procs /\ \A u \in Procs \ P : u = p
    OBVIOUS
  <2>2. ver' \in [Procs -> Verifiers]
    BY <1>1, <1>2, <1>4
  <2>. HIDE DEF P
  <2>3. \A v \in P : ver'[v] = ver[v]
    BY <1>7 DEF P
  <2>. QED BY <1>2, <1>7, <2>1, <2>2, <2>3, RestartKeeps DEF started
<1>9. TypeOK'
  <2>1. op' \in [Procs -> Ops]
    BY <1>1, <1>2, <1>3
  <2>2. VerifierTypeOK'
    BY <1>2, <1>8, FilesTyped DEF VerifierTypeOK, VerInv, Verifiers, Ats, Views
  <2>. QED BY <1>2, <2>1, <2>2, TypeParts DEF TypeOK, Insts, Dirs, Jobs, Ops
<1>10. JobsAtHome'
  BY <1>2, <1>5, <1>6 DEF JobsAtHome
<1>11. ForeignKept'
  BY <1>2, <1>5, <1>6 DEF ForeignKept, Intruded, BeforeLook
<1>12. Past(o) => Past(op[p])
  BY <1>2, <1>5 DEF Past
<1>13. Selected' /\ Alone'
  BY <1>2, <1>6, <1>12 DEF Selected, Alone, SelectionKept, Active
<1>14. ASSUME NEW q \in Procs
       PROVE  /\ op'[q].does = "verify" => op'[q].selects = "preserve"
              /\ Past(op'[q]) => Coming(q)'
  <2>1. CASE q = p
    <3>1. op'[p].does = "verify" => op'[p].selects = "preserve"
      BY <1>5, <1>6 DEF SelectionKept
    <3>2. ASSUME Past(o) PROVE Coming(p)'
      <4>1. \A a \in Agents : Settled(a, o.selects)
        BY <1>2, <1>5, <1>12, <3>2 DEF SelectionKept, Coming
      <4>2. op'[p].selects = o.selects /\ op'[p].at = "verifying"
        BY <1>5, <1>6
      <4>3. \A a \in Agents : Settled(a, op[p].selects)'
        BY <1>2, <4>1, <4>2 DEF Settled, Keeps, Want
      <4>. QED BY <4>2, <4>3 DEF Coming
    <3>. QED BY <1>6, <2>1, <3>1, <3>2
  <2>2. CASE q # p
    <3>1. op'[q] = op[q] /\ ver'[q] = ver[q] /\ job' = job
          /\ UNCHANGED <<target, saved, guest, chosen>>
      BY <1>2, <1>6, <1>7, <2>2
    <3>. QED BY <3>1 DEF SelectionKept, Coming, Halfway, Settled, Keeps, Want, Active
  <2>. QED BY <2>1, <2>2
<1>15. SelectionKept'
  BY <1>13, <1>14 DEF SelectionKept
<1>. QED BY <1>8, <1>9, <1>10, <1>11, <1>15

\* The end of an invocation that has had its verdict; the selection is settled
\* only by one that has been alone, whose policies are in place.
LEMMA VerdictStep ==
  ASSUME IInv, NEW p \in Procs, Verified(p) \/ NotVerified(p)
  PROVE  IInv'
<1>. USE DEF IInv, instance, guestFiles, bounds
<1>1. op \in [Procs -> Ops] /\ ver \in [Procs -> Verifiers]
  BY FilesTyped
<1>2. /\ op' = [op EXCEPT ![p] = NoOp] /\ op[p].at = "verifying"
      /\ ver' = [ver EXCEPT ![p] = Unstarted]
      /\ UNCHANGED <<instance, dir, guestFiles, job, pgpass, bounds>>
  BY DEF Verified, NotVerified, Ends
<1>3. op'[p] = NoOp /\ \A q \in Procs \ {p} : op'[q] = op[q]
  BY <1>1, <1>2
<1>4. ver'[p] = Unstarted /\ \A q \in Procs \ {p} : ver'[q] = ver[q]
  BY <1>1, <1>2
<1>5. ver' \in [Procs -> Verifiers]
  BY <1>1, <1>2, UnstartedTyped
<1>6. VerInv'
  <2>. DEFINE P == Procs \ {p}
  <2>1. P \in SUBSET Procs /\ \A u \in Procs \ P : u = p
    OBVIOUS
  <2>. HIDE DEF P
  <2>2. \A v \in P : ver'[v] = ver[v]
    BY <1>4 DEF P
  <2>. QED BY <1>2, <1>4, <1>5, <2>1, <2>2, RestartKeeps
<1>7. \/ chosen' = chosen
      \/ /\ Verified(p) /\ op[p].alone /\ op[p].selects # "preserve"
         /\ chosen' = {op[p].selects}
  BY DEF Verified, NotVerified
<1>8. TypeOK'
  <2>1. op' \in [Procs -> Ops]
    BY <1>1, <1>2, Idle
  <2>2. VerifierTypeOK'
    BY <1>2, <1>6, FilesTyped DEF VerifierTypeOK, VerInv, Verifiers, Ats, Views
  <2>3. chosen' \subseteq Policies
    BY <1>1, <1>7, FilesTyped, Names DEF Ops
  <2>. QED BY <1>2, <2>1, <2>2, <2>3, TypeParts DEF TypeOK, Insts, Dirs, Jobs, Ops
<1>9. NoOp.at = "idle" /\ ~Past(NoOp) /\ NoOp.does = "verify" /\ NoOp.selects = "preserve"
  BY DEF NoOp, Past
<1>10. JobsAtHome'
  BY <1>2, <1>3, <1>9 DEF JobsAtHome
<1>11. ForeignKept'
  BY <1>2, <1>3, <1>9 DEF ForeignKept, Intruded, BeforeLook
<1>12. CASE chosen' = chosen
  <2>1. \A q \in Procs : ver'[q].at # "idle" => ver[q].at # "idle"
    BY <1>4, UnstartedIs
  <2>2. SelectionKept'
    BY <1>2, <1>3, <1>9, <1>12, <2>1, SelectionStays
  <2>. QED BY <1>6, <1>8, <1>10, <1>11, <2>2
<1>13. CASE /\ Verified(p) /\ op[p].alone /\ op[p].selects # "preserve"
            /\ chosen' = {op[p].selects}
  <2>1. Past(op[p])
    <3>1. op[p].does # "verify"
      BY <1>13 DEF SelectionKept
    <3>. QED BY <1>2, <1>13, <3>1 DEF Past
  <2>2. \A a \in Agents : Settled(a, op[p].selects)
    BY <1>2, <1>13, <2>1 DEF SelectionKept, Coming, Verified
  <2>3. \A q \in Procs : ~Active(q) /\ (q # p => ~Past(op[q]))
    BY <1>2, <2>1 DEF SelectionKept, Alone, JobsAtHome, Active, ScriptPlaces
  <2>4. \A q \in Procs : ~Active(q)' /\ ~Past(op'[q])
    BY <1>2, <1>3, <1>9, <2>3 DEF Active
  <2>5. op[p].selects # "none"
    BY <1>1, Names DEF Ops
  <2>6. Selected'
    BY <1>2, <1>13, <2>2, <2>4, <2>5 DEF Selected, Settled, Keeps, Want
  <2>7. \A q \in Procs : op'[q].does = "verify" => op'[q].selects = "preserve"
    BY <1>3, <1>9 DEF SelectionKept
  <2>8. SelectionKept'
    BY <2>4, <2>6, <2>7 DEF SelectionKept, Alone
  <2>. QED BY <1>6, <1>8, <1>10, <1>11, <2>8
<1>. QED BY <1>7, <1>12, <1>13

-----------------------------------------------------------------------------
(* The operator                                                            *)

\* When nothing runs in the guest any more, nothing is on its way there.
LEMMA GoneStep == ASSUME IInv, VMStops \/ Delete PROVE IInv'
<1>. USE DEF IInv
<1>1. /\ inst \in Insts /\ stops \in 0..setting.stops /\ setting.stops \in Nat
      /\ made \in 0..setting.instances
  BY TypeParts, Constants DEF VMStops, Delete, Running
<1>2. \A q \in Procs : job'[q] = NoJob /\ ver'[q] = Unstarted
  BY DEF VMStops, Delete, NothingRuns
<1>3. job' \in [Procs -> Jobs] /\ ver' \in [Procs -> Verifiers]
  BY Idle, UnstartedTyped DEF VMStops, Delete, NothingRuns
<1>4. NoJob.at = "idle"
  BY DEF NoJob
<1>5. /\ inst' \in Insts \cup {None}
      /\ inst' = None \/ (inst'.ours = inst.ours /\ inst'.keys = inst.keys)
  <2>1. CASE VMStops
    <3>1. inst' = [inst EXCEPT !.running = FALSE, !.ready = FALSE]
      BY <2>1 DEF VMStops
    <3>2. [inst EXCEPT !.running = FALSE] \in Insts
      BY <1>1, InstUpdated, Values
    <3>3. [[inst EXCEPT !.running = FALSE] EXCEPT !.ready = FALSE] \in Insts
      BY <3>2, InstUpdated, Values
    <3>4. inst'.ours = inst.ours /\ inst'.keys = inst.keys
      BY <1>1, <3>1 DEF Insts
    <3>. QED BY <3>1, <3>3, <3>4
  <2>2. CASE Delete
    BY <2>2 DEF Delete
  <2>. QED BY <2>1, <2>2
<1>6. UNCHANGED <<setting, made, dir, op, kills, meddles>>
  BY DEF VMStops, Delete, bounds
<1>7. /\ target' \in [Agents -> Recorded] /\ sum' \in [Agents -> Recorded]
      /\ saved' \in [Agents -> Customs \cup {"none"}] /\ chosen' \subseteq Policies
      /\ guest' \in [denied : BOOLEAN, verifier : BOOLEAN]
      /\ pgpass' \in {pgpass, "none"}
  <2>1. CASE VMStops
    BY <2>1, FilesTyped DEF VMStops, guestFiles
  <2>2. CASE Delete
    <3>1. guest' \in [denied : BOOLEAN, verifier : BOOLEAN]
      BY <2>2 DEF Delete
    <3>2. /\ target' \in [Agents -> Recorded] /\ sum' \in [Agents -> Recorded]
          /\ saved' \in [Agents -> Customs \cup {"none"}] /\ chosen' \subseteq Policies
      BY <2>2, Names DEF Delete
    <3>. QED BY <2>2, <3>1, <3>2 DEF Delete
  <2>. QED BY <2>1, <2>2
<1>8. VerInv'
  <2>. DEFINE P == {}
  <2>1. P \in SUBSET Procs /\ P = {} /\ Procs \ P = Procs
    OBVIOUS
  <2>. HIDE DEF P
  <2>. QED BY <1>2, <1>3, <1>7, <2>1, RestartKeeps
<1>9. TypeOK'
  <2>1. VerifierTypeOK'
    BY <1>7, <1>8 DEF VerifierTypeOK, VerInv, Verifiers, Ats, Views
  <2>2. stops' \in 0..setting.stops
    BY <1>1 DEF VMStops, Delete, bounds
  <2>3. dir \in Dirs \cup {None} /\ op \in [Procs -> Ops] /\ kills \in 0..setting.kills
        /\ meddles \in 0..setting.meddles /\ setting \in Settings
    BY TypeParts
  <2>. QED BY <1>1, <1>3, <1>5, <1>6, <1>7, <2>1, <2>2, <2>3
           DEF TypeOK, Insts, Dirs, Jobs, Ops
<1>10. JobsAtHome'
  BY <1>2, <1>4 DEF JobsAtHome
<1>11. ForeignKept'
  BY <1>1, <1>2, <1>4, <1>5, <1>6, NotNone DEF ForeignKept, Intruded
<1>12. \A q \in Procs : ~Active(q)'
  BY <1>2, <1>4 DEF Active, ScriptPlaces
<1>13. Alone'
  BY <1>6, <1>12 DEF Alone, SelectionKept
<1>14. CASE VMStops
  <2>1. UNCHANGED <<target, sum, saved, guest, chosen>>
    BY <1>14 DEF VMStops, guestFiles
  <2>2. Selected'
    BY <1>12, <2>1 DEF Selected, SelectionKept
  <2>3. ASSUME NEW q \in Procs, Past(op[q]) PROVE Coming(q)'
    BY <1>2, <1>4, <1>6, <1>12, <2>1, <2>3, UnstartedIs
       DEF SelectionKept, Coming, Settled, Keeps, Want
  <2>4. SelectionKept'
    BY <1>6, <1>13, <2>2, <2>3 DEF SelectionKept
  <2>. QED BY <1>8, <1>9, <1>10, <1>11, <2>4
<1>15. CASE Delete
  <2>1. /\ \A a \in Agents : target'[a] = "none" /\ saved'[a] = "none"
        /\ chosen' = {"embedded"} /\ ~guest'.verifier
    BY <1>15 DEF Delete
  <2>2. Selected'
    BY <1>12, <2>1 DEF Selected
  <2>3. ASSUME NEW q \in Procs, Past(op[q]) PROVE Coming(q)'
    BY <1>2, <1>4, <1>6, <1>12, <2>1, UnstartedIs DEF Coming
  <2>4. SelectionKept'
    BY <1>6, <1>13, <2>2, <2>3 DEF SelectionKept
  <2>. QED BY <1>8, <1>9, <1>10, <1>11, <2>4
<1>. QED BY <1>14, <1>15

-----------------------------------------------------------------------------
(* The specification                                                       *)

\* Nothing is on its way, and the guest is as create has left it.
LEMMA InitIInv == Init => IInv
<1>. SUFFICES ASSUME Init PROVE IInv
  OBVIOUS
<1>. DEFINE new == setting.starts = "none"
            incus == setting.backend = "incus"
            keys == IF incus THEN Creator ELSE "lima"
<1>1. setting \in Settings
  BY DEF Init
<1>2. /\ setting.instances \in Nat \ {0} /\ setting.kills \in Nat /\ setting.stops \in Nat
      /\ setting.meddles \in Nat /\ setting.starts \in Recorded
  <2>1. setting \in [backend : {"lima", "incus"}, starts : Recorded, rough : BOOLEAN,
          serves : [Procs -> SUBSET {"create", "configure", "verify"}],
          selects : [Procs -> SUBSET Selections],
          kills : Nat, stops : Nat, instances : Nat \ {0}, meddles : Nat]
    BY <1>1, SettingsAssumption
  <2>. QED BY <2>1
<1>3. Creator \in Procs
  BY SettingsAssumption DEF Creator
<1>4. /\ target = [a \in Agents |-> setting.starts] /\ sum = target
      /\ saved = [a \in Agents |-> IF setting.starts \in Customs THEN setting.starts ELSE "none"]
      /\ chosen = {IF new THEN "embedded" ELSE setting.starts}
      /\ guest = [denied |-> ~new, verifier |-> ~new]
      /\ made = IF new THEN 0 ELSE 1
      /\ inst = IF new THEN None
                ELSE [gen |-> 1, ours |-> TRUE, running |-> TRUE, ready |-> TRUE, keys |-> keys]
      /\ dir = IF new \/ ~incus THEN None ELSE [key |-> Creator, pin |-> 1]
  BY DEF Init
<1>5. /\ job = [p \in Procs |-> NoJob] /\ op = [p \in Procs |-> NoOp]
      /\ ver = [v \in Procs |-> Unstarted] /\ pgpass = "none"
      /\ kills = 0 /\ stops = 0 /\ meddles = 0
  BY DEF Init, VerifierInit
<1>6. keys \in Procs \cup {"lima", None}
  BY <1>3
<1>. HIDE DEF keys
<1>7. inst \in Insts \cup {None} /\ (inst # None => inst.ours)
  BY <1>2, <1>4, <1>6 DEF Insts
<1>8. dir \in Dirs \cup {None} /\ made \in 0..setting.instances
  BY <1>2, <1>3, <1>4 DEF Dirs
<1>9. guest \in [denied : BOOLEAN, verifier : BOOLEAN]
  <2>. DEFINE b == ~new
  <2>1. b \in BOOLEAN /\ guest = [denied |-> b, verifier |-> b]
    BY <1>4
  <2>. HIDE DEF b
  <2>. QED BY <2>1
<1>10. /\ target \in [Agents -> Recorded] /\ sum \in [Agents -> Recorded]
       /\ saved \in [Agents -> Customs \cup {"none"}] /\ chosen \subseteq Policies
  BY <1>2, <1>4, Names
<1>11. job \in [Procs -> Jobs] /\ op \in [Procs -> Ops] /\ ver \in [Procs -> Verifiers]
  BY <1>5, Idle, UnstartedTyped
<1>12. TypeOK
  <2>1. VerifierTypeOK
    BY <1>5, <1>10, <1>11, VerTyped
  <2>. QED BY <1>1, <1>2, <1>5, <1>7, <1>8, <1>9, <1>10, <1>11, <2>1, TypeParts
<1>13. VerInv
  <2>1. ~Unstarted.owns /\ ~Unstarted.unearned /\ Unstarted.seen.secret = Unstarted.seen.real
    BY DEF Unstarted, NotSeen
  <2>. QED BY <1>5, <1>11, <2>1 DEF VerInv, OneCanary, Canaried, Honest
<1>14. NoJob.at = "idle" /\ NoOp.at = "idle" /\ NoOp.selects = "preserve"
  BY DEF NoJob, NoOp
<1>15. JobsAtHome
  BY <1>5, <1>14 DEF JobsAtHome
<1>16. ForeignKept
  BY <1>5, <1>7, <1>14 DEF ForeignKept, Intruded
<1>17. Selected
  BY <1>2, <1>4, <1>5, <1>14, Names DEF Selected, Active, ScriptPlaces
<1>18. SelectionKept
  BY <1>5, <1>14, <1>17 DEF SelectionKept, Alone, Past
<1>. QED BY <1>12, <1>13, <1>15, <1>16, <1>18 DEF IInv

\* Every step keeps the invariant.
LEMMA NextIInv == IInv /\ [Next]_vars => IInv'
<1>. SUFFICES ASSUME IInv, [Next]_vars PROVE IInv'
  OBVIOUS
<1>1. ASSUME NEW p \in Procs, Begin(p) \/ Invocation(p) PROVE IInv'
  BY <1>1, BeginStep, LookStep, InstanceStep, DirectoryStep, ExecStep, ProvisionStep,
     StreamEnds, VerifyGuestStep, VerdictStep DEF Invocation
<1>2. ASSUME NEW p \in Procs, Script(p) \/ Interrupted(p) PROVE IInv'
  BY <1>2, ExitStep, InstallStep, StreamEnds DEF Script
<1>3. ASSUME NEW v \in Procs, (Verify(v) /\ UNCHANGED Outside) \/ OrphanEnds(v) PROVE IInv'
  BY <1>3, VerifierStep
<1>4. CASE GuestBoots \/ VMStops \/ Delete \/ MakeForeign \/ MoveAside \/ UserMeddles
  <2>1. PICK p \in Procs : TRUE
    BY SettingsAssumption
  <2>. QED BY <1>4, <2>1, InstanceStep, DirectoryStep, GoneStep, VerifierStep
<1>5. CASE UNCHANGED vars
  <2>1. UNCHANGED <<setting, guestFiles, job, op, verifierVars, chosen, bounds, inst, made, dir>>
    BY <1>5 DEF vars, instance, guestFiles, verifierVars, bounds
  <2>2. Stays
    BY <2>1 DEF Stays
  <2>3. inst' \in Insts \cup {None} /\ made' \in 0..setting.instances /\ dir' \in Dirs \cup {None}
    BY <2>1, TypeParts DEF IInv
  <2>. QED BY <2>1, <2>2, <2>3, OutsideStep
<1>. QED BY <1>1, <1>2, <1>3, <1>4, <1>5 DEF Next

\* Every reachable state satisfies the inductive invariant.
THEOREM Invariance == Spec => []IInv
<1>. QED BY InitIInv, NextIInv, PTL DEF Spec

\* Types, of the verifiers too.
THEOREM TypeCorrect == Spec => []TypeOK
<1>1. IInv => TypeOK
  BY DEF IInv
<1>. QED BY <1>1, Invariance, PTL

\* A verifier passes only what it has seen (internal/verification), unless the
\* user's hand was at its canary.
THEOREM Verdict == Spec => []VerdictRests
<1>1. IInv => VerdictRests
  BY DEF IInv, VerInv, Honest, VerdictRests
<1>. QED BY <1>1, Invariance, PTL

\* A script never runs as root in an instance that is not of the recipe.
THEOREM Foreign == Spec => []ForeignNeverProvisioned
<1>1. IInv => ForeignNeverProvisioned
  BY DEF IInv, ForeignKept, ForeignNeverProvisioned, Active, ScriptPlaces
<1>. QED BY <1>1, Invariance, PTL

\* A create or configure that nobody disturbed reports success only over the
\* policy that was selected, for both agents.
THEOREM SelectionInPlace == Spec => []SelectionHonoured
<1>1. IInv => SelectionHonoured
  BY DEF IInv, SelectionKept, Past, Coming, Settled, Want, SelectionHonoured
<1>. QED BY <1>1, Invariance, PTL

\* The user's own ~/.pgpass goes away by the user's hand, with the VM, or by a
\* verifier under whose canary the user had put it.
THEOREM UserFile == Spec => UserFileKept
<1>1. ASSUME IInv, [Next]_vars, pgpass = "user", pgpass' # "user"
      PROVE  UserMeddles \/ Delete \/ \E v \in Procs : Clean(v) /\ ver[v].disturbed
  <2>1. ASSUME NEW p \in Procs, Begin(p) \/ Invocation(p) \/ Script(p) \/ Interrupted(p)
        PROVE  pgpass' = pgpass
    BY <2>1 DEF Begin, Invocation, Look, Make, Info, Start, Reinfo, WaitReady, WaitExpires,
       Mkdir, Keygen, Exec, Pin, Check, Recheck, Provision, Provisioned, NotProvisioned,
       VerifyGuest, StartVerifier, Verified, NotVerified, Fails, Script, ScriptBegins, Save,
       Pick, Swap, Record, ScriptRests, ScriptStops, Interrupted, verifierVars
  <2>2. ASSUME NEW v \in Procs, Verify(v) PROVE Clean(v) /\ ver[v].disturbed
    <3>1. Clean(v) /\ ver[v].owns
      BY <1>1, <2>2 DEF Verify, Missing, ReadSum, ReadPolicy, AppServerWrites, Receive,
         NoAnswer, Features, Posture, MakeFixture, FixtureFails, AccessProbe, ServeHTTP,
         SessionEnds, Deadline, Rejected, Clean
    <3>. QED BY <1>1, <3>1 DEF IInv, VerInv, Canaried
  <2>3. ASSUME NEW v \in Procs, OrphanEnds(v) PROVE pgpass' = pgpass
    BY <2>3 DEF OrphanEnds
  <2>4. CASE GuestBoots \/ VMStops \/ MakeForeign \/ MoveAside
    BY <1>1, <2>4 DEF GuestBoots, VMStops, MakeForeign, MoveAside, verifierVars
  <2>5. CASE UNCHANGED vars
    BY <1>1, <2>5 DEF vars, verifierVars
  <2>. QED BY <1>1, <2>1, <2>2, <2>3, <2>4, <2>5 DEF Next
<1>2. IInv /\ [Next]_vars =>
        [pgpass = "user" /\ pgpass' # "user" =>
           \/ UserMeddles \/ Delete
           \/ \E v \in Procs : Clean(v) /\ ver[v].disturbed]_vars
  BY <1>1
<1>. QED BY <1>2, Invariance, PTL DEF Spec, UserFileKept
=============================================================================
