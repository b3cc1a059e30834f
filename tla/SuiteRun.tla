------------------------------- MODULE SuiteRun -------------------------------
(***************************************************************************)
(* The end-to-end suite as a distributed program. e2e/__init__.py and      *)
(* runwide.py: workers send the run's requests, each signed in as a user   *)
(* it has made for itself, and the controller judges the whole run from    *)
(* the files they leave and from the gateway's log. e2e/identity.py and    *)
(* client.py: the callers of one worker share a session that refreshes.    *)
(*                                                                         *)
(* pytest-xdist, which starts workers and waits for them, CloudWatch and   *)
(* the deployment under test are other parties.  Runs follow one another,  *)
(* each with a run id of its own.                                          *)
(***************************************************************************)
EXTENDS Integers, FiniteSets

CONSTANTS
  Workers,            \* xdist workers; FirstWorker is gw0
  FirstWorker,
  ServedRoutes,
  Requests,           \* the requests a worker may make
  Allowlisted,        \* pytest_e2e_uncovered_routes
  Unavailable,        \* pytest_e2e_expected_unavailable
  CreateAttempts,     \* 1 + Len(GATEWAY_RETRY_DELAYS)
  SweepAge,           \* SWEEP_OLDER_THAN_SECONDS
  RunHours,           \* how long a run may last
  MaxRuns,            \* bound: runs
  MaxSent,            \* bound: requests a worker sends
  MaxSuiteFaults      \* bound: deaths, lost answers and failed calls

ASSUME SuiteAssumption ==
  /\ FirstWorker \in Workers /\ Allowlisted \subseteq ServedRoutes /\ Unavailable \subseteq ServedRoutes
  /\ RunHours \in Nat /\ SweepAge \in Nat /\ RunHours < SweepAge

VARIABLES
  suiteRun,     \* [n: the run's number, hours, at: "workers" | "judged" | "gone"]
  suiteWorker,  \* worker -> [at, user, tries, sent: the requests it recorded]
  ephemeral,    \* users the deployment holds: [run, worker, age]
  runFiles,     \* [run, worker] -> [sent, noted: the durable fallback], in run directories
  verdict,      \* the controller's: [failed, vacuous, swept, notes, delivered: what it was reached on]
  suiteFaults

suiteVars == <<suiteRun, suiteWorker, ephemeral, runFiles, verdict, suiteFaults>>

\* What the gateway logs of a request: the route it matched, if any, and its status.
\* Requests alike in both are one.
Answers == {"ok", "unavailable", "error"}
Undeclared == "undeclared"
ASSUME RequestsAssumption == Requests \subseteq [route : ServedRoutes \cup {Undeclared}, answer : Answers]

\* A user is named by the run and the worker that made it; the durable one by neither.
NoUser == [run |-> -1, worker |-> FirstWorker]
Durable == [run |-> 0, worker |-> FirstWorker]
FreshWorker == [at |-> "starting", user |-> NoUser, tries |-> 0, sent |-> {}]
NoVerdict == [failed |-> FALSE, vacuous |-> FALSE, swept |-> FALSE, notes |-> {}, delivered |-> {}]

SuiteInit ==
  /\ suiteRun = [n |-> 1, hours |-> 0, at |-> "workers"]
  /\ suiteWorker = [w \in Workers |-> FreshWorker]
  /\ ephemeral = {} /\ runFiles = <<>> /\ verdict = NoVerdict /\ suiteFaults = 0

Faulty == suiteFaults < MaxSuiteFaults /\ suiteFaults' = suiteFaults + 1

Step(w, from, change) ==
  /\ suiteRun.at = "workers" /\ suiteWorker[w].at = from
  /\ suiteWorker' = [suiteWorker EXCEPT ![w] = change]

\* The worker's address carries the run and the worker.
Address(w) == [run |-> suiteRun.n, worker |-> w]
Held(address) == \E u \in ephemeral : u.run = address.run /\ u.worker = address.worker
Made(address) == ephemeral \cup {[run |-> address.run, worker |-> address.worker, age |-> 0]}

-------------------------------------------------------------------------------
(* A worker's session: set up, requests, teardown.                         *)

\* e2e_hygiene at the start: the first worker asks for old users to be deleted.
SweepLeftovers(w) ==
  /\ Step(w, "starting", [suiteWorker[w] EXCEPT !.at = "creating"])
  /\ IF w = FirstWorker
     THEN \/ ephemeral' = {u \in ephemeral : u.age < SweepAge} /\ UNCHANGED suiteFaults
          \/ Faulty /\ UNCHANGED ephemeral
     ELSE UNCHANGED <<ephemeral, suiteFaults>>
  /\ UNCHANGED <<suiteRun, runFiles, verdict>>

\* attempt_ephemeral_user: created; or its answer lost, or a second creation of an
\* address refused, which raises and leaves the worker's cases without a session.
CreateUser(w) ==
  /\ \/ /\ ~Held(Address(w)) /\ UNCHANGED suiteFaults
        /\ Step(w, "creating", [suiteWorker[w] EXCEPT !.at = "testing", !.tries = 0, !.user = Address(w)])
        /\ ephemeral' = Made(Address(w))
     \/ /\ ~Held(Address(w)) /\ Faulty
        /\ Step(w, "creating", [suiteWorker[w] EXCEPT !.at = "testing", !.tries = 0])
        /\ ephemeral' = Made(Address(w))
     \/ /\ Held(Address(w)) /\ UNCHANGED <<ephemeral, suiteFaults>>
        /\ Step(w, "creating", [suiteWorker[w] EXCEPT !.at = "testing", !.tries = 0])
  /\ UNCHANGED <<suiteRun, runFiles, verdict>>

\* The gateway's own 403 is tried again, and raises in the end.
GatewayRefuses(w) ==
  /\ IF suiteWorker[w].tries + 1 < CreateAttempts
     THEN Step(w, "creating", [suiteWorker[w] EXCEPT !.tries = @ + 1])
     ELSE Step(w, "creating", [suiteWorker[w] EXCEPT !.at = "testing", !.tries = 0])
  /\ UNCHANGED <<suiteRun, ephemeral, runFiles, verdict, suiteFaults>>

\* The route is not offered, or no admin token could be minted: the durable user.
FallBack(w) ==
  /\ Step(w, "creating", [suiteWorker[w] EXCEPT !.at = "testing", !.tries = 0, !.user = Durable])
  /\ UNCHANGED <<suiteRun, ephemeral, runFiles, verdict, suiteFaults>>

SendRequest(w, q) ==
  /\ Cardinality(suiteWorker[w].sent) < MaxSent
  /\ Step(w, "testing", [suiteWorker[w] EXCEPT !.sent = @ \cup {q}])
  /\ UNCHANGED <<suiteRun, ephemeral, runFiles, verdict, suiteFaults>>

\* Teardown deletes the worker's own user, and a failure is only a warning.
DeleteUser(w) ==
  /\ Step(w, "testing", [suiteWorker[w] EXCEPT !.at = "finishing"])
  /\ \/ /\ UNCHANGED suiteFaults
        /\ ephemeral' = {u \in ephemeral : [run |-> u.run, worker |-> u.worker] # suiteWorker[w].user}
     \/ suiteWorker[w].user \notin {NoUser, Durable} /\ Faulty /\ UNCHANGED ephemeral
  /\ UNCHANGED <<suiteRun, runFiles, verdict>>

\* run_directory, keyed on the run's id.
RunDirectory == suiteRun.n

\* pytest_sessionfinish of a worker: its records, and its note of a fallback.
WriteRecords(w) ==
  /\ Step(w, "finishing", [suiteWorker[w] EXCEPT !.at = "finished"])
  /\ LET file == [sent |-> suiteWorker[w].sent, noted |-> suiteWorker[w].user = Durable]
         name == [run |-> RunDirectory, worker |-> w] IN
     runFiles' = [f \in DOMAIN runFiles \cup {name} |-> IF f = name THEN file ELSE runFiles[f]]
  /\ UNCHANGED <<suiteRun, ephemeral, verdict, suiteFaults>>

WorkerDies(w) ==
  /\ suiteRun.at = "workers" /\ suiteWorker[w].at \notin {"finished", "dead"} /\ Faulty
  /\ suiteWorker' = [suiteWorker EXCEPT ![w].at = "dead"]
  /\ UNCHANGED <<suiteRun, ephemeral, runFiles, verdict>>

-------------------------------------------------------------------------------
(* The controller.                                                         *)

FilesOfTheRun == {f \in DOMAIN runFiles : f.run = RunDirectory}

\* The two sweeps.  correlate returns this run's lines among those delivered: it waits
\* for the first, up to its budget, and not for the rest.
Correlated(requests, delivered) == requests \cap delivered
Excused(q) == q.answer = "unavailable" /\ q.route \in Unavailable
AnsweredWithServerError(entries) == {q \in entries : q.answer # "ok" /\ ~Excused(q)}
UnmatchedEntries(entries) == {q \in entries : q.route \notin ServedRoutes}

CoveredRoutes(requests) == {q.route : q \in requests} \cap ServedRoutes
Uncovered(requests) == ServedRoutes \ (CoveredRoutes(requests) \cup Allowlisted)

\* controller_verdicts; a run without a log group is judged on its coverage alone.
Judged(requests, swept, delivered) ==
  LET entries == Correlated(requests, delivered)
      vacuous == swept /\ requests # {} /\ entries = {} IN
  [failed |-> \/ vacuous
              \/ swept /\ (AnsweredWithServerError(entries) # {} \/ UnmatchedEntries(entries) # {})
              \/ requests = {} \/ Uncovered(requests) # {},
   vacuous |-> vacuous, swept |-> swept,
   notes |-> {f.worker : f \in {g \in FilesOfTheRun : runFiles[g].noted}}, delivered |-> delivered]

\* delivered: the access log lines that have reached the log group by then.
ControllerJudges(swept, delivered) ==
  /\ suiteRun.at = "workers" /\ \A w \in Workers : suiteWorker[w].at \in {"finished", "dead"}
  /\ verdict' = Judged(UNION {runFiles[f].sent : f \in FilesOfTheRun}, swept, delivered)
  /\ runFiles' = [f \in DOMAIN runFiles \ FilesOfTheRun |-> runFiles[f]]
  /\ suiteRun' = [suiteRun EXCEPT !.at = "judged"]
  /\ UNCHANGED <<suiteWorker, ephemeral, suiteFaults>>

\* The job is cancelled: no verdict, and the directory stays.
JobIsCancelled ==
  /\ suiteRun.at = "workers" /\ Faulty
  /\ suiteRun' = [suiteRun EXCEPT !.at = "gone"]
  /\ UNCHANGED <<suiteWorker, ephemeral, runFiles, verdict>>

NextRun ==
  /\ suiteRun.at \in {"judged", "gone"} /\ suiteRun.n < MaxRuns
  /\ suiteRun' = [n |-> suiteRun.n + 1, hours |-> 0, at |-> "workers"]
  /\ suiteWorker' = [w \in Workers |-> FreshWorker] /\ verdict' = NoVerdict
  /\ UNCHANGED <<ephemeral, runFiles, suiteFaults>>

HourPasses ==
  /\ suiteRun.at = "workers" => suiteRun.hours < RunHours
  /\ suiteRun.at # "workers" => suiteRun.n < MaxRuns
  /\ suiteRun' = [suiteRun EXCEPT !.hours = IF suiteRun.at = "workers" THEN @ + 1 ELSE @]
  /\ ephemeral # {}
  /\ ephemeral' = {[u EXCEPT !.age = IF @ < SweepAge THEN @ + 1 ELSE @] : u \in ephemeral}
  /\ UNCHANGED <<suiteWorker, runFiles, verdict, suiteFaults>>

WorkersThat(at) == {w \in Workers : suiteWorker[w].at = at}
SentBy(ws) == UNION {suiteWorker[w].sent : w \in ws}

SuiteNext ==
  \/ \E w \in Workers :
       \/ SweepLeftovers(w) \/ CreateUser(w) \/ GatewayRefuses(w) \/ FallBack(w)
       \/ DeleteUser(w) \/ WriteRecords(w) \/ WorkerDies(w)
       \/ \E q \in Requests : SendRequest(w, q)
  \/ ControllerJudges(FALSE, {}) \/ \E delivered \in SUBSET SentBy(Workers) : ControllerJudges(TRUE, delivered)
  \/ JobIsCancelled \/ NextRun \/ HourPasses

-------------------------------------------------------------------------------
(* Properties.                                                             *)

\* The controller's verdict is of its own run: green, every served route was exercised
\* by a worker that finished or is excused, and of the lines that had been delivered
\* none is bad; red, something of this run says so, which may be a worker that died.
\* Every worker that shared the durable account and finished is named.
VerdictsAreOfTheRun ==
  suiteRun.at = "judged" =>
    LET finished == SentBy(WorkersThat("finished")) IN
    /\ ~verdict.failed => Uncovered(finished) = {} /\ finished # {}
    /\ (~verdict.failed /\ verdict.swept) =>
         AnsweredWithServerError(finished \cap verdict.delivered) \cup UnmatchedEntries(finished \cap verdict.delivered) = {}
    /\ verdict.failed => \/ verdict.vacuous \/ finished = {} \/ Uncovered(finished) # {}
                         \/ AnsweredWithServerError(finished) \cup UnmatchedEntries(finished) # {}
    /\ verdict.notes = {w \in WorkersThat("finished") : suiteWorker[w].user = Durable}

\* A worker keeps the user it signed in as to its end, it is that worker's alone, and
\* no sweep of this run or a later one takes it; what is left when a run is over was
\* left by a worker that died, was cancelled or could not delete.
WorkersKeepTheirUsers ==
  /\ \A w \in WorkersThat("testing") : suiteWorker[w].user \notin {NoUser, Durable} =>
       /\ Held(suiteWorker[w].user)
       /\ \A v \in Workers \ {w} : suiteWorker[v].at = "testing" => suiteWorker[v].user # suiteWorker[w].user
  /\ suiteFaults = 0 => \A u \in ephemeral : u.run = suiteRun.n /\ suiteWorker[u.worker].at = "testing"

\* What a run says of itself.
RunsSpeakForThemselves == VerdictsAreOfTheRun /\ WorkersKeepTheirUsers

-------------------------------------------------------------------------------
(* The session a worker's callers share, against the deployment's refresh  *)
(* route.  Access tokens are numbered as they are minted; the oldest run   *)
(* out first.  A replay of refresh material revokes the family.            *)

CONSTANTS
  Threads,            \* callers of one session
  MaxMinted,          \* bound: access tokens
  MaxLostAnswers      \* bound: answers of the refresh route that do not arrive

VARIABLES
  session,      \* what the session holds: [token, material: the refresh generation]
  sessionLock,  \* the thread that holds _lock, or NoThread
  family,       \* the deployment's: [generation, revoked]
  tokens,       \* [minted, near: how many are near their expiry, expired]
  thread,       \* thread -> [at, named, sent, retrying]
  tally         \* [lost, bodiless, asked: refreshes a case asked for, turned: live tokens refused, rotations]

sessionVars == <<session, sessionLock, family, tokens, thread, tally>>

CONSTANT NoThread
ASSUME NoThreadIsDistinct == NoThread \notin Threads /\ MaxMinted \in Nat /\ MaxLostAnswers \in Nat
IdleThread == [at |-> "idle", named |-> 0, sent |-> 0, retrying |-> FALSE]

SessionInit ==
  /\ session = [token |-> 1, material |-> 1] /\ sessionLock = NoThread
  /\ family = [generation |-> 1, revoked |-> FALSE] /\ tokens = [minted |-> 1, near |-> 0, expired |-> 0]
  /\ thread = [t \in Threads |-> IdleThread] /\ tally = [lost |-> 0, bodiless |-> 0, asked |-> 0, turned |-> 0, rotations |-> 0]

Moves(t, from, change) == thread[t].at = from /\ thread' = [thread EXCEPT ![t] = change]
At(t, at) == [thread[t] EXCEPT !.at = at]
IsNearExpiry == session.token <= tokens.near

\* bearer_token, asked twice in a request: E2EClient.request names the credential it will
\* blame, and _send asks again for the one it sends.
Named(t) == [thread[t] EXCEPT !.at = "named", !.named = session.token]
BearerSent(t) == [thread[t] EXCEPT !.at = "sent", !.sent = session.token]
AskBearer(t) ==
  /\ \/ ~IsNearExpiry /\ (Moves(t, "idle", Named(t)) \/ Moves(t, "named", BearerSent(t)))
     \/ IsNearExpiry /\ (Moves(t, "idle", At(t, "wants to name")) \/ Moves(t, "named", At(t, "wants to send")))
  /\ UNCHANGED <<session, sessionLock, family, tokens, tally>>

\* The deployment's answer: the token is accepted, or refused as expired and, once,
\* handed to refresh_for_retry.
Answered(t) ==
  /\ Moves(t, "sent",
       IF thread[t].sent > tokens.expired \/ thread[t].retrying THEN IdleThread ELSE At(t, "wants to retry"))
  /\ UNCHANGED <<session, sessionLock, family, tokens, tally>>

\* is_expired_credential takes any bare refusal for an expiry, so a live token that the
\* gateway turns away is refreshed too.
TurnedAway(t) ==
  /\ tally.turned = 0 /\ thread[t].sent > tokens.expired /\ ~thread[t].retrying
  /\ Moves(t, "sent", At(t, "wants to retry")) /\ tally' = [tally EXCEPT !.turned = 1]
  /\ UNCHANGED <<session, sessionLock, family, tokens>>

\* A case that calls refresh() itself.
CaseRefreshes(t) ==
  /\ tally.asked = 0 /\ Moves(t, "idle", At(t, "wants to refresh")) /\ tally' = [tally EXCEPT !.asked = 1]
  /\ UNCHANGED <<session, sessionLock, family, tokens>>

\* What a thread does once it has the credential, by what it wanted it for.
Onward(t, token) ==
  CASE thread[t].at = "wants to name"  -> [thread[t] EXCEPT !.at = "named", !.named = token]
    [] thread[t].at = "wants to send"  -> [thread[t] EXCEPT !.at = "sent", !.sent = token]
    [] thread[t].at = "wants to retry" -> [thread[t] EXCEPT !.at = "sent", !.sent = token, !.retrying = TRUE]
    [] OTHER                           -> IdleThread

\* Under the lock each looks again: another may have refreshed while it waited.  The
\* variant does not.
StillNeeded_asBefore(t) == TRUE
StillNeeded(t) ==
  CASE thread[t].at \in {"wants to name", "wants to send"} -> IsNearExpiry
    [] thread[t].at = "wants to retry"                     -> thread[t].named = session.token
    [] OTHER                                               -> TRUE

TakeLock(t) ==
  /\ sessionLock = NoThread /\ thread[t].at \in {"wants to name", "wants to send", "wants to retry", "wants to refresh"}
  /\ IF StillNeeded(t)
     THEN sessionLock' = t /\ UNCHANGED thread
     ELSE thread' = [thread EXCEPT ![t] = Onward(t, session.token)] /\ UNCHANGED sessionLock
  /\ UNCHANGED <<session, family, tokens, tally>>

\* _absorb_refresh: the rotated material is kept even when there is no access token.
Absorbed(token, material) == [token |-> IF token = 0 THEN session.token ELSE token, material |-> material]

\* _post_refresh and the route: the material held is spent, and a spent one revokes.
Rotates == session.material = family.generation /\ ~family.revoked
Refreshes(t) ==
  /\ sessionLock = t /\ sessionLock' = NoThread
  /\ \/ /\ Rotates /\ tokens.minted < MaxMinted
        /\ family' = [family EXCEPT !.generation = @ + 1]
        /\ \/ /\ tokens' = [tokens EXCEPT !.minted = @ + 1]
              /\ session' = Absorbed(tokens.minted + 1, family.generation + 1)
              /\ thread' = [thread EXCEPT ![t] = Onward(t, tokens.minted + 1)]
              /\ tally' = [tally EXCEPT !.rotations = @ + 1]
           \/ /\ tally.bodiless = 0 /\ tally' = [tally EXCEPT !.rotations = @ + 1, !.bodiless = 1]
              /\ session' = Absorbed(0, family.generation + 1)
              /\ thread' = [thread EXCEPT ![t] = IdleThread] /\ UNCHANGED tokens
           \/ /\ tally.lost < MaxLostAnswers /\ tally' = [tally EXCEPT !.rotations = @ + 1, !.lost = @ + 1]
              /\ thread' = [thread EXCEPT ![t] = IdleThread] /\ UNCHANGED <<session, tokens>>
     \/ /\ ~Rotates /\ family' = [family EXCEPT !.revoked = TRUE]
        /\ thread' = [thread EXCEPT ![t] = IdleThread] /\ UNCHANGED <<session, tokens, tally>>

\* A token comes near its expiry, and expires; the one just minted is not yet near.
TokensAge ==
  /\ \/ tokens.near < tokens.minted /\ tokens' = [tokens EXCEPT !.near = @ + 1]
     \/ tokens.expired < tokens.near /\ tokens' = [tokens EXCEPT !.expired = @ + 1]
  /\ UNCHANGED <<session, sessionLock, family, thread, tally>>

SessionNext ==
  \/ \E t \in Threads : AskBearer(t) \/ Answered(t) \/ TurnedAway(t) \/ CaseRefreshes(t) \/ TakeLock(t) \/ Refreshes(t)
  \/ TokensAge

\* The callers together never present spent refresh material, unless an answer that
\* carried its successor was lost; and a token that ran out costs one refresh, however
\* many were refused with it, as does a refusal of a live one.
SessionsAreRefreshedOnce ==
  /\ family.revoked => tally.lost > 0
  /\ tally.rotations <= tokens.near + tally.asked + tally.turned + tally.bodiless + tally.lost

\* _send says that its caller resolves the token once, so the credential a refusal is
\* attributed to is the one that was sent (client.py:424-425).  It is resolved twice, and
\* this is not so: a thread may refresh in between.
TheBlamedTokenWasSent == \A t \in Threads : (thread[t].at = "sent" /\ ~thread[t].retrying) => thread[t].sent = thread[t].named

\* What the suite owes those who read it.
SuitesAreSound == RunsSpeakForThemselves /\ SessionsAreRefreshedOnce
===============================================================================
