---------------------------- MODULE Verification ----------------------------
(***************************************************************************)
(* The acceptance checks of a guest (internal/verification; the program    *)
(* devwright-verify without arguments).  A verifier compares both managed  *)
(* policies with the checksums provisioning recorded, asks each agent for  *)
(* the policy it has in effect, and measures what the agent's sandbox lets *)
(* through: a probe tries to write outside its workspace and to read a     *)
(* canary that the verifier has put at ~/.pgpass.  The agents are separate *)
(* programs: they answer late, twice, for another request or not at all.   *)
(*                                                                         *)
(* This module holds the verifiers of one guest; VMBackend starts them and *)
(* provisions the guest beside them.                                       *)
(***************************************************************************)
EXTENDS Naturals

CONSTANTS
  Procs,     \* invocations of devwright; each has at most one verifier
  Customs,   \* policies of the operator; they deny reading ~/.pgpass
  Locked     \* those that deny it against a lower-scope override as well

ASSUME PolicyAssumption ==
  Locked \subseteq Customs /\ Customs \cap {"embedded", "none", "preserve"} = {}

VARIABLES
  setting, \* fixed; setting.rough: agents and the guest may do anything, else
           \* they do in time what the policies in effect tell them to
  target,  \* target[a]: the managed policy in effect for agent a
  sum,     \* sum[a]: the policy whose checksum was recorded
  pgpass,  \* dev's ~/.pgpass: "none", the "user"'s own or a "canary"
  ver      \* ver[v]: the verifier started by v

guestVars == <<target, sum>>
verifierVars == <<pgpass, ver>>

Agents == {"codex", "claude"}
Policies == {"embedded"} \cup Customs
Recorded == Policies \cup {"none"}
Access == {"allowed", "denied"}
Kinds == {"workspace", "outside", "secret"}
Requests == 1..3   \* initialize, configRequirements/read, config/read

NotSeen == [outside |-> "denied", secret |-> "denied", real |-> "denied"]

\* at: the next step.  policy: the one that was read.  request, line, right:
\* the app-server client, the line its reader holds and whether the replies
\* agreed with the policy.  reports, results: the probe's reports the agent
\* holds and those that have reached the verifier.  seen: what the last one
\* says; its field real is the truth about the canary.  owns: the canary is
\* this verifier's.  failed: some failure was collected.  unearned and
\* disturbed are history, see VerdictRests.
Unstarted ==
  [at |-> "idle", agent |-> "codex", override |-> FALSE, policy |-> "none",
   request |-> 1, line |-> "none", right |-> TRUE,
   reports |-> 0, results |-> 0, seen |-> NotSeen,
   owns |-> FALSE, failed |-> FALSE, unearned |-> FALSE, disturbed |-> FALSE]

VerifierTypeOK ==
  /\ target \in [Agents -> Recorded] /\ sum \in [Agents -> Recorded]
  /\ pgpass \in {"none", "user", "canary"}
  /\ ver \in [Procs ->
       [at : {"idle", "sum", "policy", "ask", "features", "fixture", "session",
              "clean", "passed", "failed"},
        agent : Agents, override : BOOLEAN, policy : Recorded,
        request : Requests, line : {"none", "agrees", "differs", "other"},
        right : BOOLEAN, reports : 0..1, results : 0..1,
        seen : [outside : Access, secret : Access \cup {"error"}, real : Access],
        owns : BOOLEAN, failed : BOOLEAN, unearned : BOOLEAN,
        disturbed : BOOLEAN]]

VerifierInit ==
  /\ pgpass = "none"
  /\ ver = [v \in Procs |-> Unstarted]

Rough == setting.rough

At(v, a, s) == ver[v].agent = a /\ ver[v].at = s
Goto(v, s) == ver' = [ver EXCEPT ![v].at = s]

\* A failure is kept and the independent checks go on: failures are joined at
\* the end.  History is forgotten, since nothing is claimed any more.
Failing(r) == [r EXCEPT !.failed = TRUE, !.unearned = FALSE]
FailingTo(r, s) == [Failing(r) EXCEPT !.at = s]

StartVerifier(v) ==
  /\ ver' = [ver EXCEPT ![v] = [Unstarted EXCEPT !.at = "sum"]]
  /\ UNCHANGED pgpass

-----------------------------------------------------------------------------
(* Ownership, checksum and policy                                          *)

\* A fact of the guest that is not as it must be (the account, its groups, an
\* agent's installation, the owner of a path) ends the agent's checks.
Missing(v) ==
  /\ Rough
  /\ ver[v].at \in {"sum", "policy"}
  /\ ver' = [ver EXCEPT ![v] = FailingTo(@, "failed")]
  /\ UNCHANGED pgpass

ReadSum(v) ==
  /\ ver[v].at = "sum" /\ sum[ver[v].agent] # "none"
  /\ ver' = [ver EXCEPT ![v].policy = sum[ver[v].agent], ![v].at = "policy"]
  /\ UNCHANGED pgpass

\* The policy is read after its checksum.
ReadPolicy(v) ==
  /\ ver[v].at = "policy"
  /\ IF target[ver[v].agent] = ver[v].policy
     THEN Goto(v, "ask")
     ELSE ver' = [ver EXCEPT ![v] = FailingTo(@, "failed")]
  /\ UNCHANGED pgpass

-----------------------------------------------------------------------------
(* checkSelectedPolicy: Codex's app-server                                 *)

\* The app-server writes a line: a reply to the request, which agrees with the
\* policy or does not, or something else (a notification, an earlier reply again,
\* a request of the server's).  The reader passes one line at a time.
AppServerWrites(v) ==
  /\ At(v, "codex", "ask") /\ ver[v].line = "none"
  /\ \E l \in {"agrees"} \cup (IF Rough THEN {"differs", "other"} ELSE {}) :
       ver' = [ver EXCEPT ![v].line = l]
  /\ UNCHANGED pgpass

\* Defect: off by one, a request too many is made.
ConsumeMore(v) ==
  ver' = [ver EXCEPT ![v].line = "none", ![v].request = @ + 1]

\* The replies to the second and third request must agree with the policy.
Consume(v) ==
  LET right == ver[v].right /\ (ver[v].request > 1 => ver[v].line # "differs")
      asked == [ver[v] EXCEPT !.line = "none", !.right = TRUE, !.request = 1,
                              !.unearned = @ \/ ver[v].line = "other"]
  IN ver' = [ver EXCEPT ![v] =
       CASE ver[v].request < 3 -> [asked EXCEPT !.request = ver[v].request + 1,
                                               !.right = right]
         [] ver[v].request = 3 /\ right -> [asked EXCEPT !.at = "features"]
         [] OTHER -> FailingTo(asked, "fixture")]

\* A line that is not the reply to this request is dropped.
Receive(v) ==
  /\ At(v, "codex", "ask")
  /\ \/ ver[v].line \in {"agrees", "differs"} /\ Consume(v)
     \/ ver[v].line = "other" /\ ver' = [ver EXCEPT ![v].line = "none"]
  /\ UNCHANGED pgpass

\* The app-server ends, or twenty seconds have passed since the request.
NoAnswer(v) ==
  /\ Rough
  /\ At(v, "codex", "ask")
  /\ ver' = [ver EXCEPT ![v] = [FailingTo(@, "fixture") EXCEPT
               !.line = "none", !.request = 1, !.right = TRUE]]
  /\ UNCHANGED pgpass

\* `codex features list` agrees, or it does not, fails or is killed in time.
Features(v) ==
  /\ At(v, "codex", "features")
  /\ \/ Goto(v, "fixture")
     \/ Rough /\ ver' = [ver EXCEPT ![v] = FailingTo(@, "fixture")]
  /\ UNCHANGED pgpass

\* Claude Code's sandbox status agrees with the policy or, from a release that
\* does not report it, is not tested; the AppArmor profile agrees or does not.
Posture(v) ==
  /\ At(v, "claude", "ask")
  /\ \/ Goto(v, "fixture")
     \/ Rough /\ ver' = [ver EXCEPT ![v] = FailingTo(@, "fixture")]
  /\ UNCHANGED pgpass

-----------------------------------------------------------------------------
(* The fixture and the sessions                                            *)

Standing(v) == ver[v].owns

\* Sessions after the first: none without a canary, and none for Codex without
\* a managed profile to override.
Overridable(r) == r.owns /\ (r.agent = "codex" => r.policy \in Customs)

\* Defect: the canary is written without O_EXCL.
MakeFixtureOver(v) ==
  /\ ver[v].at = "fixture"
  /\ pgpass' = "canary"
  /\ ver' = [ver EXCEPT ![v].at = "session", ![v].owns = TRUE]

\* withBehaviorFixture: an existing ~/.pgpass stays and is not read.  A canary
\* made while an older one is in trouble is in trouble with it.
MakeFixture(v) ==
  /\ ver[v].at = "fixture"
  /\ IF pgpass = "none"
     THEN /\ pgpass' = "canary"
          /\ ver' = [ver EXCEPT ![v].at = "session", ![v].owns = TRUE,
               ![v].disturbed = @ \/ \E u \in Procs : Standing(u)]
     ELSE Goto(v, "session") /\ UNCHANGED pgpass

\* The directories or the canary cannot be written: no session.
FixtureFails(v) ==
  /\ Rough
  /\ ver[v].at = "fixture"
  /\ ver' = [ver EXCEPT ![v] = FailingTo(@, "clean")]
  /\ UNCHANGED pgpass

\* What a sandbox that enforces the policy in effect does to the canary.
Enforced(r) ==
  IF /\ target[r.agent] \in Customs
     /\ r.override => r.agent = "codex" \/ target[r.agent] \in Locked
  THEN "denied" ELSE "allowed"

\* AccessProbe, run by the agent in its sandbox, which holds or does not.  A
\* file that is not there, or not the canary, counts as a denied one.
AccessProbe(v) ==
  /\ ver[v].at = "session" /\ ver[v].reports = 0
  /\ \E tight, fails \in BOOLEAN :
       LET real == IF tight THEN Enforced(ver[v]) ELSE "allowed"
           told == IF fails THEN "error"
                   ELSE IF pgpass = "canary" THEN real ELSE "denied"
       IN /\ Rough \/ (tight /\ ~fails)
          /\ ver' = [ver EXCEPT
               ![v].reports = 1,
               \* Codex's stdout is the verifier's; Claude Code must send a turn
               ![v].results = IF ver[v].agent = "codex" THEN 1 ELSE @,
               ![v].seen = [outside |-> IF tight THEN "denied" ELSE "allowed",
                            secret |-> IF ver[v].owns THEN told ELSE "denied",
                            real |-> IF ver[v].owns THEN real ELSE "denied"]]
  /\ UNCHANGED pgpass

\* A turn that carries the conversation; one that is sent again changes nothing,
\* since messageStub keeps the latest view.
ServeHTTP(v) ==
  /\ At(v, "claude", "session")
  /\ ver[v].results # ver[v].reports
  /\ ver' = [ver EXCEPT ![v].results = ver[v].reports]
  /\ UNCHANGED pgpass

\* What the policy that was read lets the verifier expect; "" is unknown.
Expectations(r) ==
  IF r.policy \notin Customs
  THEN [k \in Kinds |-> ""]
  ELSE [workspace |-> "allowed", outside |-> "denied",
        secret |-> IF r.agent = "claude" /\ r.override /\ r.policy \notin Locked
                   THEN "" ELSE "denied"]

Observation(r, secret) ==
  [workspace |-> "allowed", outside |-> r.seen.outside,
   secret |-> IF r.owns THEN secret ELSE "skipped"]

\* reportObservation, one row.
Status(got, want) ==
  CASE got = "skipped" -> "SKIPPED"
    [] got = "error" -> "ERROR"
    [] got \in Access /\ want \notin {"", got} -> "FAIL"
    [] got \in Access /\ want = got -> "PASS"
    [] OTHER -> "OBSERVED"

Contradicts(r, secret) ==
  \E k \in Kinds :
    Status(Observation(r, secret)[k], Expectations(r)[k]) \in {"FAIL", "ERROR"}

NextSession(r) ==
  [r EXCEPT !.at = IF ~r.override /\ Overridable(r) THEN "session" ELSE "clean",
            !.override = ~r.override /\ Overridable(r),
            !.reports = 0, !.results = 0, !.seen = NotSeen]

\* Defect: a probe that did not report is passed over.
ReportLenient(v, n, error) ==
  LET r == ver[v]
      kept == [r EXCEPT !.unearned = @ \/ n # 1 \/ Contradicts(r, r.seen.real)]
  IN ver' = [ver EXCEPT ![v] = NextSession(
       IF error \/ (n > 0 /\ Contradicts(r, r.seen.secret))
       THEN Failing(kept) ELSE kept)]

\* The agent has exited or was killed.  parseObservation accepts exactly one
\* report; a row that contradicts the policy, a session that failed and a
\* missing report are failures.
Report(v, n, error) ==
  LET r == ver[v]
      kept == [r EXCEPT !.unearned = @ \/ n # 1 \/ Contradicts(r, r.seen.real)]
  IN ver' = [ver EXCEPT ![v] = NextSession(
       IF error \/ n # 1 \/ Contradicts(r, r.seen.secret)
       THEN Failing(kept) ELSE kept)]

\* The agent's process group ends: with success or an error, with output that
\* hides the results or with a conversation that holds them twice.
SessionEnds(v) ==
  /\ ver[v].at = "session"
  /\ \/ ver[v].results = 1 /\ Report(v, 1, FALSE)
     \/ Rough /\ \E error \in BOOLEAN : Report(v, ver[v].results, error)
     \/ Rough /\ ver[v].agent = "claude" /\ Report(v, 0, TRUE)
     \/ Rough /\ ver[v].agent = "claude" /\ ver[v].results = 1 /\ Report(v, 2, FALSE)
  /\ UNCHANGED pgpass

\* The deadline of a session: its whole process group is killed.
Deadline(v) ==
  /\ Rough
  /\ ver[v].at = "session"
  /\ Report(v, ver[v].results, TRUE)
  /\ UNCHANGED pgpass

\* Codex refuses an override of a managed profile without running the probe.
Rejected(v) ==
  /\ At(v, "codex", "session") /\ ver[v].override /\ ver[v].reports = 0
  /\ ver' = [ver EXCEPT ![v] = NextSession(@)]
  /\ UNCHANGED pgpass

\* The deferred removal takes whatever is at the path by now.  Codex's checks
\* are followed by Claude Code's.
Clean(v) ==
  /\ ver[v].at = "clean"
  /\ pgpass' = IF ver[v].owns THEN "none" ELSE pgpass
  /\ ver' = [ver EXCEPT ![v] =
       IF @.agent = "codex"
       THEN [@ EXCEPT !.agent = "claude", !.at = "sum", !.owns = FALSE, !.policy = "none"]
       ELSE [@ EXCEPT !.at = IF ver[v].failed THEN "failed" ELSE "passed", !.owns = FALSE]]

-----------------------------------------------------------------------------
Verify(v) ==
  \/ Missing(v) \/ ReadSum(v) \/ ReadPolicy(v)
  \/ AppServerWrites(v) \/ Receive(v) \/ NoAnswer(v) \/ Features(v) \/ Posture(v)
  \/ MakeFixture(v) \/ FixtureFails(v)
  \/ AccessProbe(v) \/ ServeHTTP(v) \/ SessionEnds(v) \/ Deadline(v) \/ Rejected(v)
  \/ Clean(v)

\* What goes on by itself: the verifier's own steps and its timers and, if they
\* are well-behaved, the agents.
OwnSteps(v) ==
  \/ ~Rough /\ Verify(v)
  \/ Missing(v) \/ ReadSum(v) \/ ReadPolicy(v) \/ NoAnswer(v) \/ Features(v)
  \/ Posture(v) \/ MakeFixture(v) \/ Deadline(v) \/ Clean(v)

-----------------------------------------------------------------------------
(* The user at ~/.pgpass, and properties.                                  *)

\* The user writes a ~/.pgpass of their own or removes what is there.
UserPgpass ==
  /\ \/ pgpass # "user" /\ pgpass' = "user"
     \/ pgpass # "none" /\ pgpass' = "none"
  /\ ver' = [v \in Procs |-> [ver[v] EXCEPT !.disturbed = @ \/ Standing(v)]]

\* A verifier that passes has earned it: Codex has said, when it was asked for
\* it, that the policy is in effect; every session has reported once; and no
\* access that the policy it read forbids was really possible, which is not
\* what the probe says when the canary is gone.  The user can remove the canary
\* under a session; nobody else does, not even other verifiers or killed ones.
VerdictRests ==
  \A v \in Procs : ver[v].at = "passed" /\ ~ver[v].disturbed => ~ver[v].unearned
=============================================================================
