---------------------------- MODULE LoginThrottle ----------------------------
(***************************************************************************)
(* Progressive lockout: identity/lockout.py and the attempts that login,   *)
(* the password step-up and every second-factor check of identity/flows.py *)
(* record under one identity key.                                          *)
(*                                                                         *)
(* An attempt is a process: it reads the key's recent rows, is refused or  *)
(* checks the password, and writes its outcome.  A row is keyed by the     *)
(* millisecond it was stamped at.  The query is not a consistent read: a   *)
(* row may be missing from it until it has settled.                        *)
(***************************************************************************)
EXTENDS Integers, FiniteSets

CONSTANTS
    Tries,          \* concurrent attempts on one identity
    Threshold,      \* LOCKOUT_THRESHOLD
    BaseDelay,      \* LOCKOUT_BASE_DELAY
    MaxDelay,       \* LOCKOUT_MAX_DELAY
    Lookback,       \* LOCKOUT_LOOKBACK
    Limit,          \* rows LoginAttemptStore.recent reads
    LastInstant,    \* bound on the clock
    Faults          \* "collide", "lag" and "lost" enable those faults

ASSUME ThrottleParameters ==
    /\ Threshold \in Nat \ {0} /\ Limit \in Nat \ {0}
    /\ BaseDelay \in Nat \ {0} /\ MaxDelay \in Nat
    /\ Lookback \in Nat /\ LastInstant \in Nat \ {0}

Instant == 1 .. LastInstant
Outcome == {"success", "failure", "locked"}

VARIABLES
    instant,    \* the clock
    row,        \* outcome stamped at each millisecond, or "none"
    settled,    \* stamps every read shows
    req         \* the attempts in flight

throttleVars == <<instant, row, settled, req>>

\* overtaken is history: a failure this attempt could not have read.
Attempt == [at : {"idle", "assess", "refuse", "check"}, moment : Instant, overtaken : BOOLEAN]
NoTry == [at |-> "idle", moment |-> 1, overtaken |-> FALSE]

Stamped == {t \in Instant : row[t] # "none"}

-----------------------------------------------------------------------------
(* lockout_state.                                                          *)

Newest(S, n) == {t \in S : Cardinality({u \in S : u > t}) < n}

\* Variant: a refused attempt counts as a failure.
Counted_refusals(S, at) ==
    {t \in S : /\ row[t] \in {"failure", "locked"} /\ t >= at - Lookback
               /\ \A u \in S : u > t => row[u] # "success"}

\* Variant: the row on the horizon itself is dropped.
Counted_strict(S, at) ==
    {t \in S : /\ row[t] = "failure" /\ t > at - Lookback
               /\ \A u \in S : u > t => row[u] # "success"}

\* The failures no success follows and the horizon has not passed.
Counted(S, at) ==
    {t \in S : /\ row[t] = "failure" /\ t >= at - Lookback
               /\ \A u \in S : u > t => row[u] # "success"}

Least(a, b) == IF a <= b THEN a ELSE b

Delay(failures) == Least(BaseDelay * 2 ^ Least(failures - Threshold, 32), MaxDelay)

\* When the rows S next let an attempt through, or 0.
RetryAt(S, at) ==
    LET F == Counted(S, at)
        last == CHOOSE t \in F : \A u \in F : u <= t
    IN  IF Cardinality(F) < Threshold THEN 0 ELSE last + Delay(Cardinality(F))

Locked(S, at) == RetryAt(S, at) > at

-----------------------------------------------------------------------------
ThrottleInit == /\ instant = 1
        /\ row = [t \in Instant |-> "none"]
        /\ settled = Instant
        /\ req = [p \in Tries |-> NoTry]

\* The key of a row is the clock when it is written, so a second row of the
\* same millisecond replaces the first.
Put(outcome) ==
    /\ "collide" \in Faults \/ row[instant] = "none"
    /\ row' = [row EXCEPT ![instant] = outcome]
    /\ settled' = IF "lag" \in Faults THEN settled \ {instant} ELSE settled

Overtake(r) == [r EXCEPT !.overtaken = @ \/ r.at = "check"]

Arrive(p) ==
    /\ req[p] = NoTry
    /\ req' = [req EXCEPT ![p] = [NoTry EXCEPT !.at = "assess", !.moment = instant]]
    /\ UNCHANGED <<instant, row, settled>>

\* Variant: a refusal is not raised.
Assess_unchecked(p) ==
    /\ req[p].at = "assess"
    /\ req' = [req EXCEPT ![p].at = "check"]
    /\ UNCHANGED <<instant, row, settled>>

\* The query that fails lets the attempt through.
Assess(p) ==
    /\ req[p].at = "assess"
    /\ \/ \E S \in SUBSET Stamped :
             /\ Stamped \cap settled \subseteq S
             /\ req' = [req EXCEPT
                   ![p].at = IF Locked(Newest(S, Limit), req[p].moment) THEN "refuse" ELSE "check",
                   ![p].overtaken = @ \/ \E t \in Stamped \ S : row[t] = "failure"]
       \/ /\ "lost" \in Faults
          /\ req' = [req EXCEPT ![p] = [@ EXCEPT !.at = "check", !.overtaken = TRUE]]
    /\ UNCHANGED <<instant, row, settled>>

\* Refused: the attempt itself is recorded, and counts for nothing.
Refuse(p) ==
    /\ req[p].at = "refuse"
    /\ Put("locked")
    /\ req' = [req EXCEPT ![p] = NoTry]
    /\ UNCHANGED instant

CheckSucceeds(p) ==
    /\ req[p].at = "check"
    /\ Put("success")
    /\ req' = [req EXCEPT ![p] = NoTry]
    /\ UNCHANGED instant

\* Wrong password or code, unknown account, or refused by may_authenticate.
CheckFails(p) ==
    /\ req[p].at = "check"
    /\ Put("failure")
    /\ req' = [q \in Tries |-> IF q = p THEN NoTry ELSE Overtake(req[q])]
    /\ UNCHANGED instant

\* The row of an attempt is written best effort: the write may raise, or the
\* process die before it.
RecordLost(p) ==
    /\ "lost" \in Faults
    /\ req[p].at \in {"refuse", "check"}
    /\ req' = [req EXCEPT ![p] = NoTry]
    /\ UNCHANGED <<instant, row, settled>>

InstantPasses == /\ instant < LastInstant
        /\ instant' = instant + 1
        /\ UNCHANGED <<row, settled, req>>

Settle(t) == /\ t \in Stamped \ settled
             /\ settled' = settled \cup {t}
             /\ UNCHANGED <<instant, row, req>>

Step(p) == \/ Arrive(p) \/ Assess(p) \/ Refuse(p)
           \/ CheckSucceeds(p) \/ CheckFails(p) \/ RecordLost(p)

ThrottleNext == \/ \E p \in Tries : Step(p)
        \/ \E t \in Instant : Settle(t)
        \/ InstantPasses

ThrottleSpec == ThrottleInit /\ [][ThrottleNext]_throttleVars

-----------------------------------------------------------------------------
(* Properties.                                                             *)

\* Type correctness of the rows and the attempts.
ThrottleTypeOK == /\ instant \in Instant
          /\ row \in [Instant -> Outcome \cup {"none"}]
          /\ settled \subseteq Instant
          /\ req \in [Tries -> Attempt]

\* An attempt whose password is checked while the table holds a lock over it
\* was overtaken by the failure that made the lock: N attempts at once may all
\* be checked, a later one may not (flows._refuse_when_locked).
PassedOnlyIfOvertaken ==
    \A p \in Tries : req[p].at = "check" /\ Locked(Stamped, req[p].moment) => req[p].overtaken

\* Being refused never costs the caller more delay, however often it asks
\* (lockout_state skips `locked` rows).
RefusalsNeverExtend ==
    [][\A p \in Tries : Refuse(p) =>
          RetryAt(Newest(Stamped, Limit), instant)' <= RetryAt(Newest(Stamped, Limit), instant)]_throttleVars

\* The rows implement the run of failures they stand for: concurrent attempts,
\* refusals and lost writes never invent a failure or forget one that a read of
\* enough rows would still find (lockout_state).
Streak == INSTANCE FailureStreak WITH now <- instant, MaxNow <- LastInstant, streak <- Counted(Newest(Stamped, Limit), instant)
KeepsTheStreak == Streak!Spec

\* A recorded failure joins the run and a recorded success ends it, whichever
\* attempts overlapped it (lockout_state, flows._record).
OutcomesReachTheStreak ==
    [][\A p \in Tries : /\ CheckFails(p) => Streak!Fail
                       /\ CheckSucceeds(p) => Streak!Succeed]_throttleVars

\* "Reading further cannot change the answer" (LoginAttemptStore.recent): the
\* rows past the limit never matter.
ReadingFurtherChangesNothing ==
    RetryAt(Newest(Stamped, Limit), instant) = RetryAt(Stamped, instant)

\* "Never overwrites: the range key is the timestamp" (LoginAttemptStore.record).
AttemptsAreKept == [][\A t \in Stamped : row'[t] = row[t]]_throttleVars
=============================================================================
