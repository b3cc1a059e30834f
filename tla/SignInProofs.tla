---------------------------- MODULE SignInProofs ----------------------------
(***************************************************************************)
(* Signing in: proofs about LoginThrottle, for any number of attempts, any *)
(* threshold, delays and lookback, and about Accounts, for any number of   *)
(* people, addresses, links and requests; and about BillingCustomers, who  *)
(* an account is billed through.  The refinement of the throttle asks for  *)
(* what README names as its two conditions: rows of one millisecond do not *)
(* replace each other, and the limit of the query is no smaller than the   *)
(* rows there can be.                                                      *)
(***************************************************************************)
EXTENDS MCSignIn, BillingCustomers, FiniteSetTheorems, TLAPS

-----------------------------------------------------------------------------
(* The throttle.                                                           *)

\* Nothing is stamped ahead of the clock.
NothingAhead == \A t \in Instant : t > instant => row[t] = "none"

IInv == ThrottleTypeOK /\ NothingAhead

\* Every stamp has a row of its own, and one query reads them all.
EnoughRows == "collide" \notin Faults /\ Limit >= LastInstant

-----------------------------------------------------------------------------
(* Types.                                                                  *)

\* The clock counts from one.
LEMMA Instants ==
    /\ 1 \in Instant /\ Instant \subseteq Int /\ LastInstant \in Nat
    /\ NoTry \in Attempt
    /\ \A m \in Instant : m < LastInstant => m + 1 \in Instant
<1>1. 1 \in Instant /\ Instant \subseteq Int /\ LastInstant \in Nat BY ThrottleParameters DEF Instant
<1>2. NoTry \in Attempt BY <1>1 DEF NoTry, Attempt
<1>3. \A m \in Instant : m < LastInstant => m + 1 \in Instant BY ThrottleParameters DEF Instant
<1> QED BY <1>1, <1>2, <1>3

\* A step of an attempt changes its own entry, and at most notes what overtook others.
LEMMA AttemptType ==
    ASSUME ThrottleTypeOK, NEW p \in Tries, Step(p)
    PROVE  req' \in [Tries -> Attempt]
<1>1. CASE Arrive(p)
  <2>1. [NoTry EXCEPT !.at = "assess", !.moment = instant] \in Attempt
    BY DEF ThrottleTypeOK, Attempt, NoTry
  <2> QED BY <1>1, <2>1 DEF ThrottleTypeOK, Arrive
<1>2. CASE Assess(p)
  <2>1. PICK a \in {"refuse", "check"}, o \in BOOLEAN :
            req' = [req EXCEPT ![p] = [req[p] EXCEPT !.at = a, !.overtaken = o]]
    <3>0. req \in [Tries -> Attempt] /\ req[p].overtaken \in BOOLEAN BY DEF ThrottleTypeOK, Attempt
    <3>1. CASE req' = [req EXCEPT ![p] = [@ EXCEPT !.at = "check", !.overtaken = TRUE]]
      BY <3>1
    <3>2. ASSUME NEW S \in SUBSET Stamped,
                 req' = [req EXCEPT
                   ![p].at = IF Locked(Newest(S, Limit), req[p].moment) THEN "refuse" ELSE "check",
                   ![p].overtaken = @ \/ \E t \in Stamped \ S : row[t] = "failure"]
          PROVE  \E a \in {"refuse", "check"}, o \in BOOLEAN :
                    req' = [req EXCEPT ![p] = [req[p] EXCEPT !.at = a, !.overtaken = o]]
      <4> DEFINE a == IF Locked(Newest(S, Limit), req[p].moment) THEN "refuse" ELSE "check"
                 o == req[p].overtaken \/ \E t \in Stamped \ S : row[t] = "failure"
      <4>1. a \in {"refuse", "check"} /\ o \in BOOLEAN BY <3>0
      <4>2. req' = [req EXCEPT ![p].at = a, ![p].overtaken = @ \/ \E t \in Stamped \ S : row[t] = "failure"]
        BY <3>2
      <4>3. req' = [req EXCEPT ![p] = [req[p] EXCEPT !.at = a, !.overtaken = o]]
        BY <3>0, <4>2
      <4> QED BY <4>1, <4>3
    <3> QED BY <1>2, <3>1, <3>2 DEF Assess
  <2>2. [req[p] EXCEPT !.at = a, !.overtaken = o] \in Attempt BY DEF ThrottleTypeOK, Attempt
  <2> QED BY <2>1, <2>2 DEF ThrottleTypeOK
<1>3. CASE Refuse(p) \/ CheckSucceeds(p) \/ RecordLost(p)
  BY <1>3, Instants DEF ThrottleTypeOK, Refuse, CheckSucceeds, RecordLost
<1>4. CASE CheckFails(p)
  <2>1. \A q \in Tries : Overtake(req[q]) \in Attempt BY DEF ThrottleTypeOK, Attempt, Overtake
  <2> QED BY <1>4, <2>1, Instants DEF ThrottleTypeOK, CheckFails
<1> QED BY <1>1, <1>2, <1>3, <1>4 DEF Step

\* A row is written at the clock and nowhere else.
LEMMA PutType ==
    ASSUME ThrottleTypeOK, NEW o \in Outcome, Put(o)
    PROVE  /\ row' \in [Instant -> Outcome \cup {"none"}] /\ settled' \subseteq Instant
           /\ row'[instant] = o /\ \A t \in Instant : t # instant => row'[t] = row[t]
BY DEF ThrottleTypeOK, Put

\* The three steps that write a row, and what they write.
Records(p, o) ==
    \/ o = "locked" /\ Refuse(p)
    \/ o = "success" /\ CheckSucceeds(p)
    \/ o = "failure" /\ CheckFails(p)

\* The steps that leave the rows and the clock alone.
Quiet == UNCHANGED <<instant, row>>

\* A step writes one row, moves the clock, or does neither.
LEMMA Steps ==
    ASSUME [ThrottleNext]_throttleVars
    PROVE  \/ \E p \in Tries, o \in Outcome : Records(p, o)
           \/ InstantPasses
           \/ Quiet
<1>1. CASE InstantPasses BY <1>1
<1>2. ASSUME NEW t \in Instant, Settle(t) PROVE Quiet BY <1>2 DEF Settle, Quiet
<1>3. CASE UNCHANGED throttleVars BY <1>3 DEF throttleVars, Quiet
<1>4. ASSUME NEW p \in Tries, Step(p)
      PROVE  Quiet \/ \E o \in Outcome : Records(p, o)
  <2>1. CASE Arrive(p) \/ Assess(p) \/ RecordLost(p)
    BY <2>1 DEF Arrive, Assess, RecordLost, Quiet
  <2>2. CASE Refuse(p) \/ CheckSucceeds(p) \/ CheckFails(p)
    BY <2>2 DEF Records, Outcome
  <2> QED BY <1>4, <2>1, <2>2 DEF Step
<1> QED BY <1>1, <1>2, <1>3, <1>4 DEF ThrottleNext

\* Recording an outcome is a write at the clock, which stands still.
LEMMA RecordsPut ==
    ASSUME NEW p, NEW o, Records(p, o)
    PROVE  Put(o) /\ instant' = instant
BY DEF Records, Refuse, CheckSucceeds, CheckFails

\* Nothing is stamped and nobody asks.
LEMMA InitIInv == ThrottleInit => IInv
BY Instants DEF ThrottleInit, IInv, ThrottleTypeOK, NothingAhead, Outcome

\* Every step keeps the invariant.
LEMMA NextIInv == IInv /\ [ThrottleNext]_throttleVars => IInv'
<1> SUFFICES ASSUME IInv, [ThrottleNext]_throttleVars PROVE IInv'
  OBVIOUS
<1>0. ThrottleTypeOK /\ NothingAhead /\ instant \in Instant BY DEF IInv, ThrottleTypeOK
<1>1. req' \in [Tries -> Attempt]
  <2>1. CASE \E p \in Tries : Step(p) BY <1>0, <2>1, AttemptType
  <2>2. CASE InstantPasses \/ (\E t \in Instant : Settle(t)) \/ UNCHANGED throttleVars
    BY <1>0, <2>2 DEF InstantPasses, Settle, throttleVars, ThrottleTypeOK
  <2> QED BY <2>1, <2>2 DEF ThrottleNext
<1>2. settled' \subseteq Instant
  <2>1. CASE \E p \in Tries : Step(p)
    BY <1>0, <2>1 DEF Step, Arrive, Assess, Refuse, CheckSucceeds, CheckFails, RecordLost, Put, ThrottleTypeOK
  <2>2. CASE InstantPasses \/ (\E t \in Instant : Settle(t)) \/ UNCHANGED throttleVars
    BY <1>0, <2>2 DEF InstantPasses, Settle, throttleVars, ThrottleTypeOK, Stamped
  <2> QED BY <2>1, <2>2 DEF ThrottleNext
<1>3. ASSUME NEW p \in Tries, NEW o \in Outcome, Records(p, o) PROVE IInv'
  <2>1. Put(o) /\ instant' = instant BY <1>3, RecordsPut
  <2>2. row' \in [Instant -> Outcome \cup {"none"}] /\ \A t \in Instant : t # instant => row'[t] = row[t]
    BY <1>0, <2>1, PutType
  <2>3. \A t \in Instant : t > instant => t # instant BY <1>0, Instants
  <2> QED BY <1>0, <1>1, <1>2, <2>1, <2>2, <2>3 DEF IInv, ThrottleTypeOK, NothingAhead
<1>4. CASE InstantPasses
  <2>1. instant' \in Instant /\ row' = row BY <1>0, <1>4, Instants DEF InstantPasses
  <2>2. \A t \in Instant : t > instant' => t > instant BY <1>0, <1>4, Instants DEF InstantPasses
  <2> QED BY <1>0, <1>1, <1>2, <2>1, <2>2 DEF IInv, ThrottleTypeOK, NothingAhead
<1>5. CASE Quiet BY <1>0, <1>1, <1>2, <1>5 DEF Quiet, IInv, ThrottleTypeOK, NothingAhead
<1> QED BY <1>3, <1>4, <1>5, Steps

\* So it holds in every reachable state.
LEMMA Inductive == ThrottleSpec => []IInv
BY InitIInv, NextIInv, PTL DEF ThrottleSpec

-----------------------------------------------------------------------------
(* The run of failures.                                                    *)

\* A query that reads as many rows as there are instants reads every row.
LEMMA NothingBeyondTheLimit ==
    ASSUME EnoughRows, NEW S \in SUBSET Instant
    PROVE  Newest(S, Limit) = S
<1> SUFFICES ASSUME NEW t \in S PROVE Cardinality({u \in S : u > t}) < Limit
  BY DEF Newest
<1> DEFINE U == {u \in S : u > t}
<1>1. t \in 1 .. LastInstant /\ LastInstant \in Int BY Instants DEF Instant
<1>2. U \in SUBSET ((t + 1) .. LastInstant)
  <2>1. ASSUME NEW u \in U PROVE u \in (t + 1) .. LastInstant
    <3>1. u \in 1 .. LastInstant /\ u > t BY <2>1 DEF Instant
    <3> QED BY <1>1, <3>1
  <2> QED BY <2>1
<1>3. /\ IsFiniteSet((t + 1) .. LastInstant)
      /\ Cardinality((t + 1) .. LastInstant) <= LastInstant - t
  <2>1. t + 1 \in Int BY <1>1
  <2>2. /\ IsFiniteSet((t + 1) .. LastInstant)
        /\ Cardinality((t + 1) .. LastInstant) = IF t + 1 > LastInstant THEN 0 ELSE LastInstant - (t + 1) + 1
    BY <1>1, <2>1, FS_Interval
  <2> QED BY <1>1, <2>2
<1>4. IsFiniteSet(U) /\ Cardinality(U) <= Cardinality((t + 1) .. LastInstant)
  BY <1>2, <1>3, FS_Subset
<1>5. Cardinality(U) \in Nat /\ Cardinality((t + 1) .. LastInstant) \in Nat
  BY <1>3, <1>4, FS_CardinalityType
<1> HIDE DEF U
<1>6. Cardinality(U) <= LastInstant - t BY <1>1, <1>3, <1>4, <1>5
<1>7. Cardinality(U) < Limit BY <1>1, <1>5, <1>6, ThrottleParameters DEF EnoughRows
<1> QED BY <1>7 DEF U

\* The failures of the last Lookback that no success follows.
Run == {t \in Instant : /\ row[t] = "failure" /\ t >= instant - Lookback
                     /\ \A u \in Instant : u > t => row[u] # "success"}

\* This is what the throttle computes from the rows it reads,
LEMMA RunIsCounted == EnoughRows => Counted(Newest(Stamped, Limit), instant) = Run
<1>1. Stamped \in SUBSET Instant BY DEF Stamped
<1>2. ASSUME EnoughRows PROVE Newest(Stamped, Limit) = Stamped
  BY <1>1, <1>2, NothingBeyondTheLimit
<1> QED BY <1>2 DEF Counted, Run, Stamped

\* and what it computes from them after a step.
LEMMA RunIsCountedNext == EnoughRows => Counted(Newest(Stamped, Limit), instant)' = Run'
<1>1. Stamped' \in SUBSET Instant BY DEF Stamped
<1>2. ASSUME EnoughRows PROVE Newest(Stamped', Limit) = Stamped'
  BY <1>1, <1>2, NothingBeyondTheLimit
<1>3. Newest(Stamped, Limit)' = Newest(Stamped', Limit) BY DEF Newest
<1> QED BY <1>2, <1>3 DEF Counted, Run, Stamped

\* A failure joins the run, a success ends it, a refusal leaves it alone.
LEMMA RecordsMoveTheRun ==
    ASSUME IInv, EnoughRows, NEW p \in Tries, NEW o \in Outcome, Records(p, o)
    PROVE  Run' = IF o = "failure" THEN Run \cup {instant} ELSE IF o = "success" THEN {} ELSE Run
<1>0. ThrottleTypeOK /\ NothingAhead /\ instant \in Instant /\ instant \in Int BY Instants DEF IInv, ThrottleTypeOK
<1>1. Put(o) /\ instant' = instant BY RecordsPut
<1>2. /\ row'[instant] = o /\ row[instant] = "none"
      /\ \A t \in Instant : t # instant => row'[t] = row[t]
  BY <1>0, <1>1, PutType DEF Put, EnoughRows
<1>3. \A t \in Instant : row[t] # "none" => t < instant
  BY <1>0, <1>2, Instants DEF NothingAhead
<1>4. instant >= instant - Lookback BY <1>0, ThrottleParameters
<1>5. \A t \in Instant : row'[t] # "none" => t <= instant
  <2> TAKE t \in Instant
  <2>1. t = instant \/ row'[t] = row[t] BY <1>2
  <2>2. t \in Int BY Instants
  <2> QED BY <1>0, <1>3, <2>1, <2>2
<1>6. CASE o = "failure"
  <2>1. ASSUME NEW t \in Run' PROVE t \in Run \cup {instant}
    <3>1. CASE t = instant BY <3>1
    <3>2. CASE t # instant
      <4>1. t \in Instant /\ row[t] = "failure" /\ t >= instant - Lookback
        BY <1>1, <1>2, <2>1, <3>2 DEF Run
      <4>2. \A u \in Instant : u > t => row[u] # "success"
        BY <1>2, <2>1 DEF Run
      <4> QED BY <4>1, <4>2 DEF Run
    <3> QED BY <3>1, <3>2
  <2>2. ASSUME NEW t \in Run PROVE t \in Run'
    <3>1. t # instant BY <1>2, <2>2 DEF Run
    <3>2. t \in Instant /\ row'[t] = "failure" /\ t >= instant' - Lookback
      BY <1>1, <1>2, <2>2, <3>1 DEF Run
    <3>3. \A u \in Instant : u > t => row'[u] # "success"
      BY <1>2, <1>6, <2>2 DEF Run
    <3> QED BY <3>2, <3>3 DEF Run
  <2>3. instant \in Run'
    <3>1. \A u \in Instant : u > instant => row'[u] # "success"
      BY <1>0, <1>5, Instants
    <3> QED BY <1>0, <1>1, <1>2, <1>4, <1>6, <3>1 DEF Run
  <2> QED BY <1>6, <2>1, <2>2, <2>3
<1>7. CASE o = "success"
  <2>1. ASSUME NEW t \in Run' PROVE FALSE
    <3>1. t \in Instant /\ row'[t] = "failure" /\ ~(instant > t) BY <1>0, <1>2, <1>7, <2>1 DEF Run
    <3>2. t = instant BY <1>0, <1>5, <3>1, Instants
    <3> QED BY <1>2, <1>7, <3>1, <3>2
  <2> QED BY <1>7, <2>1
<1>8. CASE o = "locked"
  <2>1. \A t \in Instant : (row'[t] = "failure" <=> row[t] = "failure")
                        /\ (row'[t] = "success" <=> row[t] = "success")
    BY <1>2, <1>8
  <2> QED BY <1>1, <1>8, <2>1 DEF Run
<1> QED BY <1>6, <1>7, <1>8 DEF Outcome

\* The clock drops what passed the horizon.
LEMMA TickMovesTheRun ==
    ASSUME IInv, InstantPasses
    PROVE  Run' = {t \in Run : t >= instant' - Lookback}
<1>1. row' = row /\ instant' = instant + 1 /\ instant \in Int BY Instants DEF InstantPasses, IInv, ThrottleTypeOK
<1>2. \A t \in Instant : t \in Int /\ (t >= instant' - Lookback => t >= instant - Lookback)
  BY <1>1, Instants, ThrottleParameters
<1> QED BY <1>1, <1>2 DEF Run

-----------------------------------------------------------------------------
(* The theorems.                                                           *)

\* Every reachable row and attempt is well typed (LoginAttemptRecord).
THEOREM TypeCorrect == ThrottleSpec => []ThrottleTypeOK
<1>1. IInv => ThrottleTypeOK BY DEF IInv
<1> QED BY <1>1, Inductive, PTL

\* The first row finds no run, and every step is one of the run's or none of its business.
LEMMA StartsWithNoRun == EnoughRows /\ ThrottleInit => Streak!Init
<1> SUFFICES ASSUME EnoughRows, ThrottleInit PROVE instant = 1 /\ Run = {}
  BY RunIsCounted DEF Streak!Init
<1> QED BY DEF ThrottleInit, Run

\* What a recorded outcome does to the run.
LEMMA RecordsAreSteps ==
    ASSUME EnoughRows, IInv, NEW p \in Tries
    PROVE  /\ CheckFails(p) => Streak!Fail
           /\ CheckSucceeds(p) => Streak!Succeed
           /\ Refuse(p) => UNCHANGED Streak!vars
<1>0. /\ Counted(Newest(Stamped, Limit), instant) = Run
      /\ Counted(Newest(Stamped, Limit), instant)' = Run'
  BY RunIsCounted, RunIsCountedNext
<1>1. ASSUME CheckFails(p) PROVE Streak!Fail
  <2>1. Records(p, "failure") /\ "failure" \in Outcome BY <1>1 DEF Records, Outcome
  <2>2. Run' = Run \cup {instant} /\ instant' = instant BY <2>1, RecordsMoveTheRun, RecordsPut
  <2> QED BY <1>0, <2>2 DEF Streak!Fail
<1>2. ASSUME CheckSucceeds(p) PROVE Streak!Succeed
  <2>1. Records(p, "success") /\ "success" \in Outcome BY <1>2 DEF Records, Outcome
  <2>2. Run' = {} /\ instant' = instant BY <2>1, RecordsMoveTheRun, RecordsPut
  <2> QED BY <1>0, <2>2 DEF Streak!Succeed
<1>3. ASSUME Refuse(p) PROVE UNCHANGED Streak!vars
  <2>1. Records(p, "locked") /\ "locked" \in Outcome BY <1>3 DEF Records, Outcome
  <2>2. Run' = Run /\ instant' = instant BY <2>1, RecordsMoveTheRun, RecordsPut
  <2> QED BY <1>0, <2>2 DEF Streak!vars
<1> QED BY <1>1, <1>2, <1>3

\* Every step of the throttle is a step of the run of failures or leaves it alone.
LEMMA StepsImplement == EnoughRows /\ IInv /\ [ThrottleNext]_throttleVars => [Streak!Next]_(Streak!vars)
<1> SUFFICES ASSUME EnoughRows, IInv, [ThrottleNext]_throttleVars
             PROVE  Streak!Next \/ UNCHANGED Streak!vars
  OBVIOUS
<1>0. /\ Counted(Newest(Stamped, Limit), instant) = Run
      /\ Counted(Newest(Stamped, Limit), instant)' = Run'
  BY RunIsCounted, RunIsCountedNext
<1>1. ASSUME NEW p \in Tries, NEW o \in Outcome, Records(p, o)
      PROVE  Streak!Next \/ UNCHANGED Streak!vars
  BY <1>1, RecordsAreSteps DEF Records, Streak!Next
<1>2. CASE InstantPasses
  <2>1. Run' = {t \in Run : t >= instant' - Lookback} /\ instant < LastInstant /\ instant' = instant + 1
    BY <1>2, TickMovesTheRun DEF InstantPasses
  <2> QED BY <1>0, <2>1 DEF Streak!Tick, Streak!Next
<1>3. CASE Quiet
  <2>1. Run' = Run /\ instant' = instant BY <1>3 DEF Quiet, Run
  <2> QED BY <1>0, <2>1 DEF Streak!vars
<1> QED BY <1>1, <1>2, <1>3, Steps

\* The throttle implements the run of failures its rows stand for, however
\* attempts overlap and whatever writes are lost, as long as one query reads all
\* there is to read (lockout_state, LoginAttemptStore.recent).
THEOREM ImplementsTheStreak == EnoughRows => (ThrottleSpec => KeepsTheStreak)
<1> SUFFICES ASSUME EnoughRows PROVE ThrottleSpec => KeepsTheStreak
  OBVIOUS
<1>1. ThrottleInit => Streak!Init BY StartsWithNoRun
<1>2. IInv /\ [ThrottleNext]_throttleVars => [Streak!Next]_(Streak!vars) BY StepsImplement
<1> QED BY <1>1, <1>2, Inductive, PTL DEF ThrottleSpec, KeepsTheStreak, Streak!Spec

\* A recorded failure joins the run and a recorded success ends it, whichever
\* attempts overlapped it (lockout_state, flows._record).
THEOREM OutcomesReach == EnoughRows => (ThrottleSpec => OutcomesReachTheStreak)
<1> SUFFICES ASSUME EnoughRows PROVE ThrottleSpec => OutcomesReachTheStreak
  OBVIOUS
<1>1. IInv => [\A p \in Tries : /\ CheckFails(p) => Streak!Fail
                               /\ CheckSucceeds(p) => Streak!Succeed]_throttleVars
  BY RecordsAreSteps
<1> QED BY <1>1, Inductive, PTL DEF ThrottleSpec, OutcomesReachTheStreak

-----------------------------------------------------------------------------
(* Accounts.                                                               *)

\* An account is looked up by an address; a verified one is proven; and the
\* password it verifies is the last one set, but for what a rehash undid.
AccountSound(u) ==
    /\ user[u].there => user[u].address \in Address
    /\ user[u].there /\ user[u].verified => <<u, user[u].address>> \in proven
    /\ secret[u] = current[u] \/ u \in undone

\* Where a link is mailed, and so whose mailbox it proves once it is spent.
MailedTo(m) == IF m.target = NoAddress THEN m.bound ELSE m.target

LinkSound(l) ==
    /\ spends[l] = IF link[l] # Unsent /\ link[l].spent THEN 1 ELSE 0
    /\ link[l] # Unsent =>
         /\ user[link[l].user].there /\ link[l].bound \in Address
         /\ link[l].target = NoAddress <=> link[l].purpose # "change_email"
         /\ link[l].spent => <<link[l].user, MailedTo(link[l])>> \in proven

\* A sweep after a change of password has still to end this user's sessions.
SweepDue(u) == \E p \in Requests : request[p].user = u /\ request[p].at = "revoke" /\ request[p].flow # "change_email"

SessionSound(s) ==
    /\ session[s] # Unstarted => user[session[s].user].there
    /\ session[s].live => \/ session[s].by = current[session[s].user]
                          \/ session[s].spared \/ session[s].unlisted \/ session[s].overlapped
                          \/ session[s].user \in undone \/ SweepDue(session[s].user)

\* Which flows go through a stage, and which of those came by a link.
FlowsAt(at) ==
    CASE at \in {"verify"} -> {"change"}
      [] at \in {"taken?", "move"} -> {"change_email"}
      [] at \in {"send", "spend", "bound?"} -> Purpose
      [] at = "replace" -> {"change", "reset_password"}
      [] at = "revoke" -> {"change", "reset_password", "change_email"}
      [] at = "mark" -> {"verify_email", "reset_password"}
      [] OTHER -> {"none", "register", "login"}

ByLink(q) == \/ q.at \in {"spend", "bound?", "move", "mark"}
             \/ q.at \in {"replace", "revoke"} /\ q.flow # "change"
             \/ q.at = "taken?" /\ q.link # NoLink

\* What a request knows of the account it is about.
KnowsUser(q) == q.at \notin {"idle", "create", "spend"} => q.user \in User /\ user[q.user].there

\* A password about to open a session is the last one set, unless a change
\* overlapped the request or was itself undone.
PasswordSound(q) ==
    /\ q.at \in {"create", "credential", "announce", "compare", "rehash", "start"} => q.pass \in Password
    /\ q.at \in {"announce", "rehash", "start"} =>
         q.pass = current[q.user] \/ q.overlapped \/ q.user \in undone

\* What is to be mailed, and to whom.
MailSound(q) ==
    /\ q.at \in {"create", "credential", "announce", "taken?"} => q.addr \in Address
    /\ q.at = "send" => (q.addr = NoAddress <=> q.flow # "change_email")
    /\ q.at = "send" \/ (q.at = "taken?" /\ q.link = NoLink) => q.seen.address \in Address

\* A request that came by a link acts on what the link says, alone once it has
\* spent it; past the comparison of the addresses, the account's is proven.
LinkHeld(q) ==
    /\ ByLink(q) <=> q.link # NoLink
    /\ q.link # NoLink =>
         /\ link[q.link] # Unsent /\ link[q.link].purpose = q.flow
         /\ q.at # "spend" => /\ link[q.link].spent
                              /\ q.user = link[q.link].user /\ q.addr = link[q.link].target
         /\ q.at \in {"replace", "revoke", "mark"} => <<q.user, user[q.user].address>> \in proven
         /\ q.at \in {"replace", "mark", "taken?", "move"} =>
              \/ user[q.user].address = link[q.link].bound
              \/ q.flow = "reset_password" /\ q.at = "mark"
              \/ q.overlapped

RequestSound(q) == q.flow \in FlowsAt(q.at) /\ KnowsUser(q) /\ PasswordSound(q) /\ MailSound(q) /\ LinkHeld(q)

TablesTyped ==
    /\ AccountsTypeOK
    /\ link \in [Link -> Mailed \cup {Unsent}] /\ session \in [Family -> Started \cup {Unstarted}]
    /\ current \in [User -> Password \cup {NoPassword}] /\ undone \subseteq User
    /\ spends \in [Link -> Nat]

AccountInvariant ==
    /\ TablesTyped
    /\ \A u \in User : AccountSound(u)
    /\ \A l \in Link : LinkSound(l)
    /\ \A s \in Family : SessionSound(s)
    /\ \A p \in Requests : RequestSound(request[p])

\* What the table of links holds.
LEMMA LinksAre ==
    /\ NoRequest \in Request /\ RequestSound(NoRequest)
    /\ \A m \in Mailed : m # Unsent /\ m.purpose \in Purpose /\ m.user \in User /\ m.spent \in BOOLEAN
    /\ \A s \in Started : s # Unstarted /\ s.user \in User /\ s.live \in BOOLEAN
    /\ ~Unstarted.live
<1>1. NoRequest \in Request BY DEF NoRequest, Request, Stage, NoAccount, Account
<1>2. RequestSound(NoRequest)
  BY DEF RequestSound, NoRequest, FlowsAt, KnowsUser, PasswordSound, MailSound, LinkHeld, ByLink
<1>3. \A m \in Mailed : m # Unsent /\ m.purpose \in Purpose /\ m.user \in User /\ m.spent \in BOOLEAN
  BY DEF Mailed, Unsent, Purpose
<1>4. \A s \in Started : s # Unstarted /\ s.user \in User /\ s.live \in BOOLEAN
  BY NoneIsDistinct DEF Started, Unstarted
<1>5. ~Unstarted.live BY DEF Unstarted
<1> QED BY <1>1, <1>2, <1>3, <1>4, <1>5

\* A request that only goes on itself leaves the rest as sound as it was.
LEMMA GoesOn ==
    ASSUME AccountInvariant, NEW p \in Requests, NEW q \in Request, RequestSound(q),
           GoOn(p, q), UNCHANGED <<tables, history>>, request[p].at # "revoke"
    PROVE  AccountInvariant'
<1>1. request \in [Requests -> Request] BY DEF AccountInvariant, TablesTyped, AccountsTypeOK
<1>2. request' = [request EXCEPT ![p] = q] BY DEF GoOn
<1>3. request' \in [Requests -> Request] BY <1>1, <1>2
<1>4. /\ UNCHANGED <<user, secret, old, link, session>> /\ UNCHANGED <<proven, spends, current, undone>>
  BY DEF tables, history
<1>5. TablesTyped' BY <1>3, <1>4 DEF AccountInvariant, TablesTyped, AccountsTypeOK
<1>6. \A u \in User : AccountSound(u)' BY <1>4 DEF AccountInvariant, AccountSound
<1>7. \A l \in Link : LinkSound(l)' BY <1>4 DEF AccountInvariant, LinkSound
<1>8. \A u \in User : SweepDue(u) => SweepDue(u)'
  BY <1>1, <1>2 DEF SweepDue
<1>9. \A s \in Family : SessionSound(s)'
  <2> TAKE s \in Family
  <2>1. session[s].live => session[s].user \in User
    BY LinksAre DEF AccountInvariant, TablesTyped
  <2> QED BY <1>4, <1>8, <2>1 DEF AccountInvariant, SessionSound
<1>10. ASSUME NEW r \in Requests PROVE RequestSound(request[r])'
  <2>1. PICK c \in Request : c = request'[r] /\ RequestSound(c) BY <1>1, <1>2 DEF AccountInvariant
  <2>2. RequestSound(c)' BY <1>4, <2>1 DEF RequestSound, KnowsUser, PasswordSound, MailSound, LinkHeld
  <2> QED BY <2>1, <2>2 DEF RequestSound, KnowsUser, PasswordSound, MailSound, LinkHeld, ByLink, FlowsAt
<1> QED BY <1>5, <1>6, <1>7, <1>9, <1>10 DEF AccountInvariant

\* Requests that arrive know what they read.
LEMMA RegisterKeeps ==
    ASSUME AccountInvariant, NEW p \in Requests, NEW a \in Address, NEW w \in Password, Register(p, a, w)
    PROVE  AccountInvariant'
<1> DEFINE q == [NoRequest EXCEPT !.at = "create", !.flow = "register", !.addr = a, !.pass = w]
<1>1. q \in Request BY DEF NoRequest, Request, Stage, NoAccount, Account
<1>2. RequestSound(q)
  BY DEF RequestSound, NoRequest, FlowsAt, KnowsUser, PasswordSound, MailSound, LinkHeld, ByLink
<1>3. request[p].at # "revoke" /\ GoOn(p, q) /\ UNCHANGED <<tables, history>> BY DEF Register, NoRequest
<1> HIDE DEF q
<1> QED BY <1>1, <1>2, <1>3, GoesOn

LEMMA LoginKeeps ==
    ASSUME AccountInvariant, NEW p \in Requests, NEW a \in Address, NEW w \in Password, Login(p, a, w)
    PROVE  AccountInvariant'
<1>1. PICK u \in Holders(a) :
         GoOn(p, [NoRequest EXCEPT !.at = "compare", !.flow = "login", !.user = u, !.seen = user[u], !.pass = w])
  BY DEF Login
<1> DEFINE q == [NoRequest EXCEPT !.at = "compare", !.flow = "login", !.user = u, !.seen = user[u], !.pass = w]
<1>2. u \in User /\ user[u].there /\ user[u] \in Account BY DEF Holders, AccountInvariant, TablesTyped, AccountsTypeOK
<1>3. q \in Request BY <1>2 DEF NoRequest, Request, Stage
<1>4. RequestSound(q)
  BY <1>2 DEF RequestSound, NoRequest, FlowsAt, KnowsUser, PasswordSound, MailSound, LinkHeld, ByLink
<1>5. request[p].at # "revoke" /\ GoOn(p, q) /\ UNCHANGED <<tables, history>> BY <1>1 DEF Login, NoRequest
<1> HIDE DEF q
<1> QED BY <1>3, <1>4, <1>5, GoesOn

LEMMA ChangePasswordKeeps ==
    ASSUME AccountInvariant, NEW p \in Requests, NEW s \in Family, NEW w \in Password, NEW n \in Password,
           ChangePassword(p, s, w, n)
    PROVE  AccountInvariant'
<1> DEFINE q == [NoRequest EXCEPT !.at = "verify", !.flow = "change", !.user = session[s].user,
                    !.pass = w, !.new = n, !.spare = s]
<1>1. session[s].user \in User /\ user[session[s].user].there
  BY LinksAre DEF ChangePassword, AccountInvariant, TablesTyped, SessionSound
<1>2. q \in Request BY <1>1 DEF NoRequest, Request, Stage, NoAccount, Account
<1>3. RequestSound(q)
  BY <1>1 DEF RequestSound, NoRequest, FlowsAt, KnowsUser, PasswordSound, MailSound, LinkHeld, ByLink
<1>4. request[p].at # "revoke" /\ GoOn(p, q) /\ UNCHANGED <<tables, history>> BY DEF ChangePassword, NoRequest
<1> HIDE DEF q
<1> QED BY <1>2, <1>3, <1>4, GoesOn

LEMMA RequestLinkKeeps ==
    ASSUME AccountInvariant, NEW p \in Requests, NEW a \in Address, NEW purpose \in Purpose \ {"change_email"},
           RequestLink(p, a, purpose)
    PROVE  AccountInvariant'
<1>1. PICK u \in Holders(a) :
         GoOn(p, [NoRequest EXCEPT !.at = "send", !.flow = purpose, !.user = u, !.seen = user[u]])
  BY DEF RequestLink
<1> DEFINE q == [NoRequest EXCEPT !.at = "send", !.flow = purpose, !.user = u, !.seen = user[u]]
<1>2. u \in User /\ user[u].there /\ user[u] \in Account /\ user[u].address \in Address
  BY DEF Holders, AccountInvariant, TablesTyped, AccountsTypeOK
<1>3. q \in Request BY <1>2 DEF NoRequest, Request, Stage, Purpose
<1>4. RequestSound(q)
  BY <1>2 DEF RequestSound, NoRequest, FlowsAt, KnowsUser, PasswordSound, MailSound, LinkHeld, ByLink, Purpose
<1>5. request[p].at # "revoke" /\ GoOn(p, q) /\ UNCHANGED <<tables, history>> BY <1>1 DEF RequestLink, NoRequest
<1> HIDE DEF q
<1> QED BY <1>3, <1>4, <1>5, GoesOn

LEMMA RequestEmailChangeKeeps ==
    ASSUME AccountInvariant, NEW p \in Requests, NEW s \in Family, NEW b \in Address, RequestEmailChange(p, s, b)
    PROVE  AccountInvariant'
<1> DEFINE u == session[s].user
           q == [NoRequest EXCEPT !.at = "taken?", !.flow = "change_email", !.user = u,
                       !.seen = user[u], !.addr = b, !.spare = s]
<1>1. u \in User /\ user[u].there
  BY LinksAre DEF RequestEmailChange, AccountInvariant, TablesTyped, SessionSound
<1>2. user[u] \in Account /\ user[u].address \in Address
  BY <1>1 DEF AccountInvariant, TablesTyped, AccountsTypeOK, AccountSound
<1>3. q \in Request
  <2>1. \A v \in User, c \in Account :
            [NoRequest EXCEPT !.at = "taken?", !.flow = "change_email", !.user = v,
                !.seen = c, !.addr = b, !.spare = s] \in Request
    BY DEF NoRequest, Request, Stage, Purpose
  <2> QED BY <1>1, <1>2, <2>1
<1>4. RequestSound(q)
  BY <1>1, <1>2 DEF RequestSound, NoRequest, FlowsAt, KnowsUser, PasswordSound, MailSound, LinkHeld, ByLink, Purpose
<1>5. request[p].at # "revoke" /\ GoOn(p, q) /\ UNCHANGED <<tables, history>>
  BY DEF RequestEmailChange, NoRequest
<1> HIDE DEF q
<1> QED BY <1>3, <1>4, <1>5, GoesOn

LEMMA ConfirmLinkKeeps ==
    ASSUME AccountInvariant, NEW p \in Requests, NEW l \in Link, NEW purpose \in Purpose,
           NEW n \in Password \cup {NoPassword}, ConfirmLink(p, l, purpose, n)
    PROVE  AccountInvariant'
<1> DEFINE q == [NoRequest EXCEPT !.at = "spend", !.flow = purpose, !.link = l, !.new = n]
<1>1. q \in Request BY DEF NoRequest, Request, Stage, NoAccount, Account, Purpose
<1>2. RequestSound(q)
  BY NoneIsDistinct DEF ConfirmLink, RequestSound, NoRequest, FlowsAt, KnowsUser, PasswordSound, MailSound, LinkHeld, ByLink, Purpose
<1>3. request[p].at # "revoke" /\ GoOn(p, q) /\ UNCHANGED <<tables, history>> BY DEF ConfirmLink, NoRequest
<1> HIDE DEF q
<1> QED BY <1>1, <1>2, <1>3, GoesOn

\* A request that is under way is one of its stages.
LEMMA UnderWay ==
    ASSUME AccountInvariant, NEW p \in Requests
    PROVE  request[p] \in Request /\ RequestSound(request[p]) /\ request \in [Requests -> Request]
BY DEF AccountInvariant, TablesTyped, AccountsTypeOK

\* A request that only moves on keeps its shape.
LEMMA RequestMovesOn ==
    ASSUME NEW r \in Request
    PROVE  \A stage \in {"announce", "start", "revoke"} : [r EXCEPT !.at = stage] \in Request
BY DEF Request, Stage

LEMMA CheckPasswordKeeps ==
    ASSUME AccountInvariant, NEW p \in Requests, CheckPassword(p)
    PROVE  AccountInvariant'
<1> DEFINE q == request[p]
<1>1. q \in Request /\ RequestSound(q) BY UnderWay
<1>2. CASE GoOn(p, NoRequest)
  BY <1>2, LinksAre, GoesOn DEF CheckPassword
<1>3. ASSUME NEW at \in {"rehash", "start"}, secret[q.user] = q.pass, GoOn(p, [q EXCEPT !.at = at])
      PROVE  AccountInvariant'
  <2>1. [q EXCEPT !.at = at] \in Request BY <1>1 DEF Request, Stage
  <2>2. q.user \in User /\ AccountSound(q.user)
    BY <1>1 DEF CheckPassword, RequestSound, KnowsUser, AccountInvariant
  <2>3. RequestSound([q EXCEPT !.at = at])
    BY <1>1, <1>3, <2>2 DEF CheckPassword, RequestSound, FlowsAt, KnowsUser, PasswordSound, MailSound, LinkHeld, ByLink,
       AccountSound, Request
  <2> QED BY <1>3, <2>1, <2>3, GoesOn DEF CheckPassword
<1> QED BY <1>2, <1>3 DEF CheckPassword

LEMMA VerifyCurrentKeeps ==
    ASSUME AccountInvariant, NEW p \in Requests, VerifyCurrent(p)
    PROVE  AccountInvariant'
<1> DEFINE q == request[p]
<1>1. q \in Request /\ RequestSound(q) BY UnderWay
<1>2. CASE GoOn(p, NoRequest) BY <1>2, LinksAre, GoesOn DEF VerifyCurrent
<1>3. CASE GoOn(p, [q EXCEPT !.at = "replace"])
  <2>1. [q EXCEPT !.at = "replace"] \in Request BY <1>1 DEF Request, Stage
  <2>2. RequestSound([q EXCEPT !.at = "replace"])
    BY <1>1 DEF VerifyCurrent, RequestSound, FlowsAt, KnowsUser, PasswordSound, MailSound, LinkHeld, ByLink, Request
  <2> QED BY <1>3, <2>1, <2>2, GoesOn DEF VerifyCurrent
<1> QED BY <1>2, <1>3 DEF VerifyCurrent

LEMMA PolicyRefusesKeeps ==
    ASSUME AccountInvariant, NEW p \in Requests, PolicyRefuses(p)
    PROVE  AccountInvariant'
BY LinksAre, GoesOn DEF PolicyRefuses

LEMMA CheckTakenKeeps ==
    ASSUME AccountInvariant, NEW p \in Requests, CheckTaken(p)
    PROVE  AccountInvariant'
<1> DEFINE q == request[p]
<1>1. q \in Request /\ RequestSound(q) BY UnderWay
<1>2. CASE GoOn(p, NoRequest) BY <1>2, LinksAre, GoesOn DEF CheckTaken
<1>3. ASSUME NEW at \in {"send", "move"}, at = "send" <=> q.link = NoLink, GoOn(p, [q EXCEPT !.at = at])
      PROVE  AccountInvariant'
  <2>1. [q EXCEPT !.at = at] \in Request BY <1>1 DEF Request, Stage
  <2>2. RequestSound([q EXCEPT !.at = at])
    BY <1>1, <1>3, NoneIsDistinct DEF CheckTaken, RequestSound, FlowsAt, KnowsUser, PasswordSound, MailSound, LinkHeld,
       ByLink, Request, Purpose
  <2> QED BY <1>3, <2>1, <2>2, GoesOn DEF CheckTaken
<1> QED BY <1>2, <1>3 DEF CheckTaken

\* The address is the one the link is bound to, to which it was mailed.
LEMMA CheckBoundKeeps ==
    ASSUME AccountInvariant, NEW p \in Requests, CheckBound(p)
    PROVE  AccountInvariant'
<1> DEFINE q == request[p]
<1>1. q \in Request /\ RequestSound(q) BY UnderWay
<1>2. CASE GoOn(p, NoRequest) BY <1>2, LinksAre, GoesOn DEF CheckBound
<1>3. ASSUME NEW at \in {"mark", "replace", "taken?"}, user[q.user].address = link[q.link].bound,
             at = "mark" <=> q.flow = "verify_email", at = "replace" <=> q.flow = "reset_password",
             GoOn(p, [q EXCEPT !.at = at])
      PROVE  AccountInvariant'
  <2>1. [q EXCEPT !.at = at] \in Request BY <1>1 DEF Request, Stage
  <2>2. q.at = "bound?" /\ q.link \in Link /\ q.link # NoLink /\ q.flow \in Purpose
    BY <1>1 DEF CheckBound, RequestSound, LinkHeld, ByLink, Request, FlowsAt
  <2>3. LinkSound(q.link) /\ link[q.link] \in Mailed
    BY <1>1, <2>2 DEF AccountInvariant, TablesTyped, RequestSound, LinkHeld
  <2>4. at # "taken?" => <<q.user, user[q.user].address>> \in proven
    BY <1>1, <1>3, <2>2, <2>3 DEF LinkSound, MailedTo, RequestSound, LinkHeld, Purpose
  <2>5. at = "taken?" => q.flow = "change_email" BY <1>3, <2>2 DEF Purpose
  <2>6. q.addr = link[q.link].target /\ (at = "taken?" => q.addr \in Address)
    BY <1>1, <2>2, <2>3, <2>5 DEF RequestSound, LinkHeld, LinkSound, Mailed
  <2>7. RequestSound([q EXCEPT !.at = at])
    BY <1>1, <1>3, <2>2, <2>4, <2>5, <2>6
    DEF RequestSound, FlowsAt, KnowsUser, PasswordSound, MailSound, LinkHeld, ByLink, Request
  <2> QED BY <1>3, <2>1, <2>7, GoesOn DEF CheckBound
<1>4. q.flow \in Purpose BY <1>1 DEF CheckBound, RequestSound, FlowsAt
<1> QED BY <1>2, <1>3, <1>4 DEF CheckBound, Purpose

-----------------------------------------------------------------------------
(* Steps that write a table.                                               *)

\* What every write leaves: accounts stay, a link stays what it was mailed as, and
\* what is proven stays proven.
TablesMove ==
    /\ \A u \in User : user[u].there => user'[u].there
    /\ \A l \in Link : link[l] # Unsent =>
         /\ link'[l] # Unsent /\ link'[l].purpose = link[l].purpose /\ link'[l].user = link[l].user
         /\ link'[l].bound = link[l].bound /\ link'[l].target = link[l].target
         /\ link[l].spent => link'[l].spent
    /\ proven \subseteq proven'

\* What a request finds moved under it: an address, to one that is proven, or a password.
AddressStays(q) ==
    \/ user'[q.user].address = user[q.user].address
    \/ /\ <<q.user, user'[q.user].address>> \in proven'
       /\ q.link = NoLink \/ q.at = "bound?" \/ q.overlapped

Acting(q) == q.at \notin {"idle", "create", "spend"}

PasswordStays(q) ==
    \/ current'[q.user] = current[q.user] /\ (q.user \in undone => q.user \in undone')
    \/ q.at \in {"announce", "rehash", "start"} => q.overlapped

\* A request that a step leaves alone, or marks as outrun.
LEMMA Bystander ==
    ASSUME AccountInvariant, NEW r \in Requests, NEW q \in Request,
           q = request[r] \/ q = [request[r] EXCEPT !.overlapped = TRUE],
           TablesMove, Acting(q) => AddressStays(q) /\ PasswordStays(q)
    PROVE  RequestSound(q)'
<1>1. request[r] \in Request /\ RequestSound(request[r]) BY UnderWay
<1>2. RequestSound(q)
  BY <1>1 DEF RequestSound, FlowsAt, KnowsUser, PasswordSound, MailSound, LinkHeld, ByLink, Request
<1>3. q.at \notin {"idle", "create", "spend"} => q.user \in User /\ Acting(q) BY <1>2 DEF RequestSound, KnowsUser, Acting
<1>4. KnowsUser(q)' BY <1>2 DEF RequestSound, KnowsUser, TablesMove
<1>5. PasswordSound(q)' BY <1>2, <1>3 DEF RequestSound, PasswordSound, PasswordStays
<1>6. MailSound(q)' BY <1>2 DEF RequestSound, MailSound
<1>7. LinkHeld(q)'
  <2>1. q.link # NoLink => q.link \in Link BY DEF Request
  <2> QED BY <1>2, <1>3, <2>1 DEF RequestSound, LinkHeld, ByLink, TablesMove, AddressStays
<1>8. q.flow \in FlowsAt(q.at) BY <1>2 DEF RequestSound
<1> QED BY <1>4, <1>5, <1>6, <1>7, <1>8 DEF RequestSound

\* Every request of a step: its own, and the others as bystanders.
LEMMA RequestsStay ==
    ASSUME AccountInvariant, NEW p \in Requests, NEW q \in Request,
           NEW others \in [Requests -> Request], request' = [others EXCEPT ![p] = q], RequestSound(q)', TablesMove,
           \A r \in Requests \ {p} :
               /\ others[r] = request[r] \/ others[r] = [request[r] EXCEPT !.overlapped = TRUE]
               /\ Acting(others[r]) => AddressStays(others[r]) /\ PasswordStays(others[r])
    PROVE  request' \in [Requests -> Request] /\ \A r \in Requests : RequestSound(request[r])'
<1>1. request' \in [Requests -> Request] OBVIOUS
<1>2. ASSUME NEW r \in Requests PROVE RequestSound(request[r])'
  <2>1. PICK c \in Request : c = request'[r] BY <1>1
  <2>2. RequestSound(c)'
    <3>1. CASE r = p
      <4>1. c = q BY <2>1, <3>1
      <4> QED BY <4>1
    <3>2. CASE r # p
      <4>1. c = others[r] BY <2>1, <3>2
      <4> QED BY <3>2, <4>1, Bystander
    <3> QED BY <3>1, <3>2
  <2> QED BY <2>1, <2>2 DEF RequestSound, KnowsUser, PasswordSound, MailSound, LinkHeld, ByLink, FlowsAt
<1> QED BY <1>1, <1>2

\* What a step does not write is as sound as it was.
LEMMA AccountsStay ==
    ASSUME AccountInvariant, TablesMove, UNCHANGED <<user, secret, current>>, undone \subseteq undone'
    PROVE  \A u \in User : AccountSound(u)'
BY DEF AccountInvariant, AccountSound, TablesMove

LEMMA LinksStay ==
    ASSUME AccountInvariant, TablesMove, UNCHANGED <<link, spends>>
    PROVE  \A l \in Link : LinkSound(l)'
<1> TAKE l \in Link
<1>1. link[l] # Unsent => link[l].user \in User BY LinksAre DEF AccountInvariant, TablesTyped
<1>2. LinkSound(l) BY DEF AccountInvariant
<1> QED BY <1>1, <1>2 DEF LinkSound, TablesMove, MailedTo

LEMMA SessionsStay ==
    ASSUME AccountInvariant, TablesMove, UNCHANGED <<session, current>>, undone \subseteq undone',
           \A u \in User : SweepDue(u) => SweepDue(u)' \/ u \in undone'
    PROVE  \A s \in Family : SessionSound(s)'
<1> TAKE s \in Family
<1>1. session[s] # Unstarted => session[s].user \in User BY LinksAre DEF AccountInvariant, TablesTyped
<1>2. session[s].live => session[s] # Unstarted BY LinksAre
<1>3. SessionSound(s) BY DEF AccountInvariant
<1> QED BY <1>1, <1>2, <1>3 DEF SessionSound, TablesMove

LEMMA SweepsStay ==
    ASSUME AccountInvariant, NEW p \in Requests, NEW q, request[p].at # "revoke",
           NEW others \in [Requests -> Request], request' = [others EXCEPT ![p] = q],
           \A r \in Requests \ {p} : others[r] = request[r] \/ others[r] = [request[r] EXCEPT !.overlapped = TRUE]
    PROVE  \A u \in User : SweepDue(u) => SweepDue(u)'
<1> SUFFICES ASSUME NEW u \in User, SweepDue(u) PROVE SweepDue(u)'
  OBVIOUS
<1>1. PICK r \in Requests : request[r].user = u /\ request[r].at = "revoke" /\ request[r].flow # "change_email"
  BY DEF SweepDue
<1>2. request[r] \in Request BY UnderWay
<1>3. request'[r] = others[r] /\ (others[r] = request[r] \/ others[r] = [request[r] EXCEPT !.overlapped = TRUE])
  BY <1>1
<1>4. request'[r].user = u /\ request'[r].at = "revoke" /\ request'[r].flow # "change_email"
  BY <1>1, <1>2, <1>3 DEF Request
<1> QED BY <1>4 DEF SweepDue

LEMMA CreateUserKeeps ==
    ASSUME AccountInvariant, NEW p \in Requests, CreateUser(p)
    PROVE  AccountInvariant'
<1>1. PICK u \in User :
         /\ ~user[u].there
         /\ user' = [user EXCEPT ![u] = [there |-> TRUE, address |-> request[p].addr, verified |-> FALSE]]
         /\ GoOn(p, [request[p] EXCEPT !.at = "credential", !.user = u])
  BY DEF CreateUser
<1>2. /\ request[p].at = "create" /\ UNCHANGED <<secret, old, link, session>>
      /\ UNCHANGED <<proven, spends, current, undone>>
  BY DEF CreateUser, history
<1>3. request[p] \in Request /\ RequestSound(request[p]) /\ request \in [Requests -> Request] BY UnderWay
<1>4. request[p].addr \in Address /\ request[p].pass \in Password /\ request[p].link = NoLink
  BY <1>2, <1>3 DEF RequestSound, PasswordSound, MailSound, LinkHeld, ByLink
<1>5. user \in [User -> Account] BY DEF AccountInvariant, TablesTyped, AccountsTypeOK
<1>6. user' \in [User -> Account] /\ user'[u].there /\ ~user'[u].verified /\ user'[u].address \in Address
  BY <1>1, <1>4, <1>5 DEF Account
<1>7. \A v \in User \ {u} : user'[v] = user[v] BY <1>1, <1>5
<1>8. PICK q \in Request : q = [request[p] EXCEPT !.at = "credential", !.user = u]
  <2>1. PICK r \in Request : r = request[p] BY <1>3
  <2>2. [r EXCEPT !.at = "credential", !.user = u] \in Request BY DEF Request, Stage
  <2> QED BY <2>1, <2>2
<1>9. RequestSound(q)'
  BY <1>2, <1>3, <1>4, <1>6, <1>8 DEF RequestSound, FlowsAt, KnowsUser, PasswordSound, MailSound, LinkHeld, ByLink, Request
<1>10. TablesMove BY <1>1, <1>2, <1>6, <1>7 DEF TablesMove
<1>11. ASSUME NEW r \in Requests, Acting(request[r])
       PROVE  AddressStays(request[r]) /\ PasswordStays(request[r])
  <2>1. request[r].user \in User \ {u}
    BY <1>1, <1>11, UnderWay DEF RequestSound, KnowsUser, Acting
  <2> QED BY <1>2, <1>7, <2>1 DEF AddressStays, PasswordStays
<1>12. request' = [request EXCEPT ![p] = q] BY <1>1, <1>8 DEF GoOn
<1>13. request' \in [Requests -> Request] /\ \A r \in Requests : RequestSound(request[r])'
  BY <1>3, <1>9, <1>10, <1>11, <1>12, RequestsStay
<1>14. \A v \in User : AccountSound(v)' BY <1>2, <1>6, <1>7 DEF AccountInvariant, AccountSound
<1>15. \A l \in Link : LinkSound(l)' BY <1>2, <1>10, LinksStay
<1>16. \A v \in User : SweepDue(v) => SweepDue(v)' BY <1>2, <1>3, <1>12, SweepsStay
<1>17. \A s \in Family : SessionSound(s)' BY <1>2, <1>10, <1>16, SessionsStay
<1>18. TablesTyped' BY <1>2, <1>6, <1>13 DEF AccountInvariant, TablesTyped, AccountsTypeOK
<1> QED BY <1>13, <1>14, <1>15, <1>17, <1>18 DEF AccountInvariant

\* Whose requests and sessions a new password overlaps.
LEMMA OverlapIs ==
    ASSUME AccountInvariant, NEW u \in User
    PROVE  /\ Overlap(u) \in [Requests -> Request]
           /\ \A r \in Requests :
                /\ Overlap(u)[r] = request[r] \/ Overlap(u)[r] = [request[r] EXCEPT !.overlapped = TRUE]
                /\ Overlap(u)[r].user = request[r].user /\ Overlap(u)[r].at = request[r].at
                /\ request[r].user = u /\ request[r].at \in {"announce", "rehash", "start"} => Overlap(u)[r].overlapped
<1>1. \A c \in Request : [c EXCEPT !.overlapped = TRUE] \in Request BY DEF Request
<1>2. \A r \in Requests : request[r] \in Request BY UnderWay
<1> QED BY <1>1, <1>2 DEF Overlap, Request

\* The password of u is set: what a request or a session was opened with before
\* is marked.
LEMMA PasswordSet ==
    ASSUME AccountInvariant, NEW u \in User, NEW w \in Password \cup {NoPassword},
           current' = [current EXCEPT ![u] = w], undone' = undone \ {u}, UNCHANGED user,
           NEW r \in Requests
    PROVE  AddressStays(Overlap(u)[r]) /\ (Acting(request[r]) => PasswordStays(Overlap(u)[r]))
<1>1. current \in [User -> Password \cup {NoPassword}] BY DEF AccountInvariant, TablesTyped
<1>2. Acting(request[r]) => request[r].user \in User BY UnderWay DEF RequestSound, KnowsUser, Acting
<1>3. Overlap(u)[r].user = request[r].user /\ Overlap(u)[r].at = request[r].at BY OverlapIs
<1>4. request[r].user = u /\ request[r].at \in {"announce", "rehash", "start"} => Overlap(u)[r].overlapped BY OverlapIs
<1>5. AddressStays(Overlap(u)[r]) BY DEF AddressStays
<1>6. ASSUME Acting(request[r]) PROVE PasswordStays(Overlap(u)[r])
  <2>1. CASE request[r].user = u BY <2>1, <1>3, <1>4 DEF PasswordStays
  <2>2. CASE request[r].user # u
    <3>1. current'[request[r].user] = current[request[r].user] BY <1>1, <1>2, <1>6, <2>2
    <3> QED BY <1>3, <2>2, <3>1 DEF PasswordStays
  <2> QED BY <2>1, <2>2
<1> QED BY <1>5, <1>6

LEMMA PutCredentialKeeps ==
    ASSUME AccountInvariant, NEW p \in Requests, PutCredential(p)
    PROVE  AccountInvariant'
<1>1. request[p] \in Request /\ RequestSound(request[p]) /\ request \in [Requests -> Request] BY UnderWay
<1>2. request[p].at = "credential" BY DEF PutCredential
<1>3. PICK u \in User, w \in Password : u = request[p].user /\ w = request[p].pass
  BY <1>1, <1>2 DEF RequestSound, KnowsUser, PasswordSound
<1>4. PICK q \in Request : q = [request[p] EXCEPT !.at = "announce"]
  <2>1. request[p] \in Request BY <1>1
  <2> QED BY <2>1, RequestMovesOn
<1>5. /\ secret' = [secret EXCEPT ![u] = w] /\ current' = [current EXCEPT ![u] = w]
      /\ request' = [Overlap(u) EXCEPT ![p] = q]
      /\ session' = [s \in Family |-> IF session[s].user = u THEN [session[s] EXCEPT !.overlapped = TRUE] ELSE session[s]]
      /\ old' = old \ {u} /\ undone' = undone \ {u}
      /\ UNCHANGED user /\ UNCHANGED link /\ UNCHANGED proven /\ UNCHANGED spends
  BY <1>3, <1>4 DEF PutCredential
<1>6. TablesMove BY <1>5 DEF TablesMove
<1>7. /\ secret \in [User -> Password \cup {NoPassword}] /\ current \in [User -> Password \cup {NoPassword}]
      /\ session \in [Family -> Started \cup {Unstarted}] /\ undone \subseteq User
  BY DEF AccountInvariant, TablesTyped, AccountsTypeOK
<1>8. /\ secret' \in [User -> Password \cup {NoPassword}] /\ current' \in [User -> Password \cup {NoPassword}]
      /\ current'[u] = w /\ secret'[u] = w
      /\ \A v \in User \ {u} : secret'[v] = secret[v] /\ current'[v] = current[v] /\ (v \in undone => v \in undone')
  BY <1>5, <1>7
<1>9. RequestSound(q)'
  <2>1. q.user = u /\ q.pass = w /\ q.at = "announce" /\ q.addr \in Address /\ q.flow = request[p].flow /\ q.link = NoLink
    BY <1>1, <1>2, <1>3, <1>4 DEF Request, RequestSound, MailSound, LinkHeld, ByLink
  <2>2. user'[u].there /\ q.flow \in {"none", "register", "login"}
    BY <1>1, <1>2, <1>3, <1>5, <2>1 DEF RequestSound, KnowsUser, FlowsAt
  <2> QED BY <1>8, <2>1, <2>2 DEF RequestSound, FlowsAt, KnowsUser, PasswordSound, MailSound, LinkHeld, ByLink
<1>10. Overlap(u) \in [Requests -> Request] BY OverlapIs
<1>11. ASSUME NEW r \in Requests \ {p}
       PROVE  /\ Overlap(u)[r] = request[r] \/ Overlap(u)[r] = [request[r] EXCEPT !.overlapped = TRUE]
              /\ Acting(Overlap(u)[r]) => AddressStays(Overlap(u)[r]) /\ PasswordStays(Overlap(u)[r])
  <2>1. Acting(Overlap(u)[r]) => Acting(request[r]) BY OverlapIs DEF Acting
  <2> QED BY <1>5, <2>1, OverlapIs, PasswordSet
<1>12. request' \in [Requests -> Request] /\ \A r \in Requests : RequestSound(request[r])'
  BY <1>5, <1>6, <1>9, <1>10, <1>11, RequestsStay
<1>13. \A v \in User : SweepDue(v) => SweepDue(v)' BY <1>2, <1>5, <1>10, <1>11, SweepsStay
<1>14. \A v \in User : AccountSound(v)'
  BY <1>5, <1>8 DEF AccountInvariant, AccountSound
<1>15. \A l \in Link : LinkSound(l)' BY <1>5, <1>6, LinksStay
<1>16. \A s \in Family : SessionSound(s)' /\ session'[s] \in Started \cup {Unstarted}
  <2> TAKE s \in Family
  <2>1. CASE session[s] = Unstarted
    <3>1. Unstarted.user \notin User BY NoneIsDistinct DEF Unstarted
    <3>2. session'[s] = Unstarted BY <1>5, <2>1, <3>1
    <3> QED BY <3>2, LinksAre DEF SessionSound
  <2>2. CASE session[s] \in Started
    <3>1. session[s].user \in User /\ SessionSound(s) /\ session[s] # Unstarted BY <2>2, LinksAre DEF AccountInvariant
    <3>2. CASE session[s].user = u
      <4>1. session'[s] = [session[s] EXCEPT !.overlapped = TRUE] BY <1>5, <3>2
      <4>2. session'[s] \in Started /\ session'[s].overlapped /\ session'[s].user = u BY <2>2, <3>2, <4>1 DEF Started
      <4> QED BY <1>5, <3>1, <3>2, <4>2 DEF SessionSound
    <3>3. CASE session[s].user # u
      <4>1. session'[s] = session[s] BY <1>5, <3>3
      <4> QED BY <1>5, <1>8, <1>13, <2>2, <3>1, <3>3, <4>1 DEF SessionSound
    <3> QED BY <3>2, <3>3
  <2> QED BY <1>7, <2>1, <2>2
<1>17. TablesTyped'
  <2>1. session' \in [Family -> Started \cup {Unstarted}] BY <1>5, <1>16
  <2>2. old' \subseteq User /\ undone' \subseteq User BY <1>5, <1>7 DEF AccountInvariant, TablesTyped, AccountsTypeOK
  <2> QED BY <1>5, <1>8, <1>12, <2>1, <2>2 DEF AccountInvariant, TablesTyped, AccountsTypeOK
<1> QED BY <1>12, <1>14, <1>15, <1>16, <1>17 DEF AccountInvariant

\* Others are as they were, when nothing they know of moves.
LEMMA OthersStay ==
    ASSUME AccountInvariant, UNCHANGED <<user, current>>, undone \subseteq undone', NEW r \in Requests
    PROVE  AddressStays(request[r]) /\ PasswordStays(request[r])
BY DEF AddressStays, PasswordStays

\* A link is mailed.
LEMMA Sent ==
    ASSUME AccountInvariant, NEW l \in Link, NEW m \in Mailed, link[l] = Unsent, link' = [link EXCEPT ![l] = m],
           UNCHANGED <<user, proven, spends>>, ~m.spent, user[m.user].there, m.bound \in Address,
           m.target = NoAddress <=> m.purpose # "change_email"
    PROVE  TablesMove /\ link' \in [Link -> Mailed \cup {Unsent}] /\ \A k \in Link : LinkSound(k)'
<1>1. link \in [Link -> Mailed \cup {Unsent}] BY DEF AccountInvariant, TablesTyped
<1>2. link'[l] = m /\ m # Unsent BY <1>1, LinksAre
<1>3. \A k \in Link \ {l} : link'[k] = link[k] BY <1>1
<1>4. link' \in [Link -> Mailed \cup {Unsent}] BY <1>1
<1>5. TablesMove BY <1>3 DEF TablesMove
<1>6. LinkSound(l) BY DEF AccountInvariant
<1>7. LinkSound(l)' BY <1>2, <1>6 DEF LinkSound
<1>8. ASSUME NEW k \in Link \ {l} PROVE LinkSound(k)'
  <2>1. LinkSound(k) BY DEF AccountInvariant
  <2> QED BY <1>3, <2>1 DEF LinkSound, MailedTo
<1> QED BY <1>4, <1>5, <1>7, <1>8

LEMMA AnnounceKeeps ==
    ASSUME AccountInvariant, NEW p \in Requests, Announce(p)
    PROVE  AccountInvariant'
<1>1. request[p] \in Request /\ RequestSound(request[p]) /\ request \in [Requests -> Request] BY UnderWay
<1>2. request[p].at = "announce" /\ UNCHANGED <<user, secret, old, session>> /\ UNCHANGED <<proven, spends, current, undone>>
  BY DEF Announce, history
<1>3. PICK u \in User, a \in Address : u = request[p].user /\ a = request[p].addr /\ user[u].there
  BY <1>1, <1>2 DEF RequestSound, KnowsUser, MailSound
<1>4. TablesMove /\ link' \in [Link -> Mailed \cup {Unsent}] /\ \A k \in Link : LinkSound(k)'
  <2>1. CASE UNCHANGED link
    <3>1. TablesMove BY <1>2, <2>1 DEF TablesMove
    <3> QED BY <1>2, <2>1, <3>1, LinksStay DEF AccountInvariant, TablesTyped
  <2>2. ASSUME NEW l \in Link, link[l] = Unsent,
               link' = [link EXCEPT ![l] = [purpose |-> "verify_email", user |-> u, bound |-> a,
                                            target |-> NoAddress, spare |-> NoSession, spent |-> FALSE]]
        PROVE  TablesMove /\ link' \in [Link -> Mailed \cup {Unsent}] /\ \A k \in Link : LinkSound(k)'
    <3>1. PICK m \in Mailed : m = [purpose |-> "verify_email", user |-> u, bound |-> a,
                                   target |-> NoAddress, spare |-> NoSession, spent |-> FALSE]
      BY DEF Mailed, Purpose
    <3>2. ~m.spent /\ user[m.user].there /\ m.bound \in Address /\ m.target = NoAddress /\ m.purpose # "change_email"
      BY <1>3, <3>1
    <3> QED BY <1>2, <2>2, <3>1, <3>2, Sent
  <2> QED BY <1>3, <2>1, <2>2 DEF Announce
<1>5. PICK q \in Request : GoOn(p, q) /\ RequestSound(q)
  <2>1. CASE GoOn(p, NoRequest) BY <2>1, LinksAre
  <2>2. CASE GoOn(p, [request[p] EXCEPT !.at = "start"])
    <3>1. [request[p] EXCEPT !.at = "start"] \in Request BY <1>1 DEF Request, Stage
    <3>2. RequestSound([request[p] EXCEPT !.at = "start"])
      BY <1>1, <1>2 DEF RequestSound, FlowsAt, KnowsUser, PasswordSound, MailSound, LinkHeld, ByLink, Request
    <3> QED BY <2>2, <3>1, <3>2
  <2> QED BY <2>1, <2>2 DEF Announce
<1>6. q.link = NoLink
  <2>1. q = NoRequest \/ q = [request[p] EXCEPT !.at = "start"]
    BY <1>1, <1>5 DEF Announce, GoOn
  <2> QED BY <1>1, <1>2, <2>1 DEF RequestSound, LinkHeld, ByLink, NoRequest, Request
<1>7. RequestSound(q)'
  BY <1>2, <1>5, <1>6 DEF RequestSound, FlowsAt, KnowsUser, PasswordSound, MailSound, LinkHeld, ByLink
<1>8. request' = [request EXCEPT ![p] = q] BY <1>5 DEF GoOn
<1>9. request' \in [Requests -> Request] /\ \A r \in Requests : RequestSound(request[r])'
  BY <1>1, <1>2, <1>4, <1>7, <1>8, RequestsStay, OthersStay
<1>10. \A v \in User : SweepDue(v) => SweepDue(v)' BY <1>1, <1>2, <1>8, SweepsStay
<1>11. \A v \in User : AccountSound(v)' BY <1>2, <1>4, AccountsStay
<1>12. \A s \in Family : SessionSound(s)' BY <1>2, <1>4, <1>10, SessionsStay
<1>13. TablesTyped' BY <1>2, <1>4, <1>9 DEF AccountInvariant, TablesTyped, AccountsTypeOK
<1> QED BY <1>4, <1>9, <1>11, <1>12, <1>13 DEF AccountInvariant

LEMMA RehashKeeps ==
    ASSUME AccountInvariant, NEW p \in Requests, Rehash(p)
    PROVE  AccountInvariant'
<1>1. request[p] \in Request /\ RequestSound(request[p]) /\ request \in [Requests -> Request] BY UnderWay
<1>2. request[p].at = "rehash" BY DEF Rehash
<1>3. PICK u \in User, w \in Password : u = request[p].user /\ w = request[p].pass
  BY <1>1, <1>2 DEF RequestSound, KnowsUser, PasswordSound
<1>4. PICK q \in Request : q = [request[p] EXCEPT !.at = "start"]
  <2>1. request[p] \in Request BY <1>1
  <2> QED BY <2>1, RequestMovesOn
<1>5. /\ secret' = [secret EXCEPT ![u] = w] /\ old' = old \ {u}
      /\ undone' = IF w = current[u] THEN undone ELSE undone \cup {u}
      /\ request' = [request EXCEPT ![p] = q]
      /\ UNCHANGED user /\ UNCHANGED link /\ UNCHANGED session /\ UNCHANGED proven /\ UNCHANGED spends /\ UNCHANGED current
  BY <1>3, <1>4 DEF Rehash, GoOn
<1>6. TablesMove BY <1>5 DEF TablesMove
<1>7. secret \in [User -> Password \cup {NoPassword}] BY DEF AccountInvariant, TablesTyped, AccountsTypeOK
<1>8. secret' \in [User -> Password \cup {NoPassword}] /\ secret'[u] = w /\ \A v \in User \ {u} : secret'[v] = secret[v]
  BY <1>5, <1>7
<1>9. undone \subseteq undone' /\ undone' \subseteq User /\ (w # current[u] => u \in undone')
  BY <1>5 DEF AccountInvariant, TablesTyped
<1>10. RequestSound(q)'
  <2>1. RequestSound(q)
    BY <1>1, <1>2, <1>4 DEF RequestSound, FlowsAt, KnowsUser, PasswordSound, MailSound, LinkHeld, ByLink, Request
  <2>2. q.link = NoLink BY <1>1, <1>2, <1>4 DEF RequestSound, LinkHeld, ByLink, Request
  <2> QED BY <1>5, <1>9, <2>1, <2>2 DEF RequestSound, FlowsAt, KnowsUser, PasswordSound, MailSound, LinkHeld, ByLink
<1>11. request' \in [Requests -> Request] /\ \A r \in Requests : RequestSound(request[r])'
  BY <1>1, <1>5, <1>6, <1>9, <1>10, RequestsStay, OthersStay
<1>12. \A v \in User : SweepDue(v) => SweepDue(v)' BY <1>1, <1>2, <1>5, SweepsStay
<1>13. \A v \in User : AccountSound(v)' BY <1>5, <1>8, <1>9 DEF AccountInvariant, AccountSound
<1>14. \A l \in Link : LinkSound(l)' BY <1>5, <1>6, LinksStay
<1>15. \A s \in Family : SessionSound(s)' BY <1>5, <1>6, <1>9, <1>12, SessionsStay
<1>16. TablesTyped' BY <1>5, <1>8, <1>9, <1>11 DEF AccountInvariant, TablesTyped, AccountsTypeOK
<1> QED BY <1>11, <1>13, <1>14, <1>15, <1>16 DEF AccountInvariant

LEMMA StartSessionKeeps ==
    ASSUME AccountInvariant, NEW p \in Requests, StartSession(p)
    PROVE  AccountInvariant'
<1>1. request[p] \in Request /\ RequestSound(request[p]) /\ request \in [Requests -> Request] BY UnderWay
<1>2. request[p].at = "start" /\ UNCHANGED <<user, secret, old, link>> /\ UNCHANGED <<proven, spends, current, undone>>
  BY DEF StartSession, history
<1>3. PICK u \in User, w \in Password, o \in BOOLEAN :
         /\ u = request[p].user /\ w = request[p].pass /\ o = request[p].overlapped
         /\ user[u].there /\ (w = current[u] \/ o \/ u \in undone)
  BY <1>1, <1>2 DEF RequestSound, KnowsUser, PasswordSound, Request
<1>4. PICK n \in Family, b \in Started :
         /\ session[n] = Unstarted /\ session' = [session EXCEPT ![n] = b]
         /\ b = [live |-> TRUE, user |-> u, by |-> w, overlapped |-> o, spared |-> FALSE, unlisted |-> FALSE]
  BY <1>3 DEF StartSession, Started
<1>5. request' = [request EXCEPT ![p] = NoRequest] BY DEF StartSession, GoOn
<1>6. TablesMove BY <1>2 DEF TablesMove
<1>7. RequestSound(NoRequest)'
  BY DEF RequestSound, NoRequest, FlowsAt, KnowsUser, PasswordSound, MailSound, LinkHeld, ByLink
<1>8. request' \in [Requests -> Request] /\ \A r \in Requests : RequestSound(request[r])'
  BY <1>1, <1>2, <1>5, <1>6, <1>7, LinksAre, RequestsStay, OthersStay
<1>9. \A v \in User : SweepDue(v) => SweepDue(v)' BY <1>1, <1>2, <1>5, SweepsStay
<1>10. session \in [Family -> Started \cup {Unstarted}] BY DEF AccountInvariant, TablesTyped
<1>11. session' \in [Family -> Started \cup {Unstarted}] BY <1>4, <1>10
<1>12. ASSUME NEW s \in Family PROVE SessionSound(s)'
  <2>1. CASE s = n
    <3>1. session'[s] = b BY <1>4, <1>10, <2>1
    <3> QED BY <1>2, <1>3, <1>4, <3>1 DEF SessionSound
  <2>2. CASE s # n
    <3>1. session'[s] = session[s] BY <1>4, <1>10, <2>2
    <3>2. session[s].live => session[s].user \in User BY <1>10, LinksAre
    <3> QED BY <1>2, <1>9, <3>1, <3>2 DEF SessionSound, AccountInvariant
  <2> QED BY <2>1, <2>2
<1>13. \A v \in User : AccountSound(v)' BY <1>2, <1>6, AccountsStay
<1>14. \A l \in Link : LinkSound(l)' BY <1>2, <1>6, LinksStay
<1>15. TablesTyped' BY <1>2, <1>8, <1>11 DEF AccountInvariant, TablesTyped, AccountsTypeOK
<1> QED BY <1>8, <1>12, <1>13, <1>14, <1>15 DEF AccountInvariant

LEMMA RaiseCostKeeps ==
    ASSUME AccountInvariant, RaiseCost
    PROVE  AccountInvariant'
<1>1. /\ old' \subseteq User /\ UNCHANGED <<user, secret, link, session, request>>
      /\ UNCHANGED <<proven, spends, current, undone>>
  BY DEF RaiseCost, history
<1>2. TablesTyped' BY <1>1 DEF AccountInvariant, TablesTyped, AccountsTypeOK
<1>3. \A u \in User : AccountSound(u)' BY <1>1 DEF AccountInvariant, AccountSound
<1>4. \A l \in Link : LinkSound(l)' BY <1>1 DEF AccountInvariant, LinkSound
<1>5. \A s \in Family : SessionSound(s)' BY <1>1 DEF AccountInvariant, SessionSound, SweepDue
<1>6. \A p \in Requests : RequestSound(request[p])'
  BY <1>1 DEF AccountInvariant, RequestSound, FlowsAt, KnowsUser, PasswordSound, MailSound, LinkHeld, ByLink
<1> QED BY <1>2, <1>3, <1>4, <1>5, <1>6 DEF AccountInvariant

LEMMA ReplacePasswordKeeps ==
    ASSUME AccountInvariant, NEW p \in Requests, ReplacePassword(p)
    PROVE  AccountInvariant'
<1>1. request[p] \in Request /\ RequestSound(request[p]) /\ request \in [Requests -> Request] BY UnderWay
<1>2. request[p].at = "replace" /\ request[p].flow \in {"change", "reset_password"}
  BY <1>1 DEF ReplacePassword, RequestSound, FlowsAt
<1>3. PICK u \in User, w \in Password \cup {NoPassword} : u = request[p].user /\ w = request[p].new
  BY <1>1, <1>2 DEF RequestSound, KnowsUser, Request
<1>4. PICK q \in Request : q = [request[p] EXCEPT !.at = "revoke"]
  <2>1. request[p] \in Request BY <1>1
  <2> QED BY <2>1, RequestMovesOn
<1>5. /\ secret' = [secret EXCEPT ![u] = w] /\ current' = [current EXCEPT ![u] = w]
      /\ request' = [Overlap(u) EXCEPT ![p] = q] /\ old' = old \ {u} /\ undone' = undone \ {u}
      /\ UNCHANGED user /\ UNCHANGED link /\ UNCHANGED session /\ UNCHANGED proven /\ UNCHANGED spends
  BY <1>3, <1>4 DEF ReplacePassword
<1>6. TablesMove BY <1>5 DEF TablesMove
<1>7. /\ secret \in [User -> Password \cup {NoPassword}] /\ current \in [User -> Password \cup {NoPassword}]
      /\ undone \subseteq User
  BY DEF AccountInvariant, TablesTyped, AccountsTypeOK
<1>8. /\ secret' \in [User -> Password \cup {NoPassword}] /\ current' \in [User -> Password \cup {NoPassword}]
      /\ current'[u] = w /\ secret'[u] = w
      /\ \A v \in User \ {u} : secret'[v] = secret[v] /\ current'[v] = current[v] /\ (v \in undone => v \in undone')
  BY <1>5, <1>7
<1>9. RequestSound(q)'
  <2>1. RequestSound(q)
    BY <1>1, <1>2, <1>4 DEF RequestSound, FlowsAt, KnowsUser, PasswordSound, MailSound, LinkHeld, ByLink, Request
  <2>2. q.at = "revoke" BY <1>1, <1>4 DEF Request
  <2> QED BY <1>5, <2>1, <2>2 DEF RequestSound, FlowsAt, KnowsUser, PasswordSound, MailSound, LinkHeld, ByLink
<1>10. Overlap(u) \in [Requests -> Request] BY OverlapIs
<1>11. ASSUME NEW r \in Requests \ {p}
       PROVE  /\ Overlap(u)[r] = request[r] \/ Overlap(u)[r] = [request[r] EXCEPT !.overlapped = TRUE]
              /\ Acting(Overlap(u)[r]) => AddressStays(Overlap(u)[r]) /\ PasswordStays(Overlap(u)[r])
  <2>1. Acting(Overlap(u)[r]) => Acting(request[r]) BY OverlapIs DEF Acting
  <2> QED BY <1>5, <2>1, OverlapIs, PasswordSet
<1>12. request' \in [Requests -> Request] /\ \A r \in Requests : RequestSound(request[r])'
  BY <1>5, <1>6, <1>9, <1>10, <1>11, RequestsStay
<1>13. \A v \in User : SweepDue(v) => SweepDue(v)' BY <1>2, <1>5, <1>10, <1>11, SweepsStay
<1>14. SweepDue(u)'
  <2>1. request'[p] = q BY <1>5, <1>10
  <2>2. q.user = u /\ q.at = "revoke" /\ q.flow # "change_email" BY <1>1, <1>2, <1>3, <1>4 DEF Request
  <2> QED BY <2>1, <2>2 DEF SweepDue
<1>15. \A v \in User : AccountSound(v)' BY <1>5, <1>8 DEF AccountInvariant, AccountSound
<1>16. \A l \in Link : LinkSound(l)' BY <1>5, <1>6, LinksStay
<1>17. ASSUME NEW s \in Family PROVE SessionSound(s)'
  <2>1. SessionSound(s) /\ (session[s].live => session[s].user \in User) BY LinksAre DEF AccountInvariant, TablesTyped
  <2>2. CASE session[s].user = u BY <1>5, <1>14, <2>1, <2>2 DEF SessionSound
  <2>3. CASE session[s].user # u BY <1>5, <1>8, <1>13, <2>1, <2>3 DEF SessionSound
  <2> QED BY <2>2, <2>3
<1>18. TablesTyped'
  <2>1. old' \subseteq User /\ undone' \subseteq User BY <1>5, <1>7 DEF AccountInvariant, TablesTyped, AccountsTypeOK
  <2> QED BY <1>5, <1>8, <1>12, <2>1 DEF AccountInvariant, TablesTyped, AccountsTypeOK
<1> QED BY <1>12, <1>15, <1>16, <1>17, <1>18 DEF AccountInvariant

LEMMA RevokeSessionsKeeps ==
    ASSUME AccountInvariant, NEW p \in Requests, RevokeSessions(p)
    PROVE  AccountInvariant'
<1>1. request[p] \in Request /\ RequestSound(request[p]) /\ request \in [Requests -> Request] BY UnderWay
<1>2. request[p].at = "revoke" /\ UNCHANGED <<user, secret, old, link>> /\ UNCHANGED <<proven, spends, current, undone>>
  BY DEF RevokeSessions, history
<1>3. PICK u \in User, spare \in Family \cup {NoSession} : u = request[p].user /\ spare = request[p].spare
  BY <1>1, <1>2 DEF RequestSound, KnowsUser, Request
<1>13. PICK own \in SUBSET Family : own = {t \in Family : session[t].user = u} OBVIOUS
<1>4. PICK listed \in SUBSET Family :
        session' = [s \in Family |->
          IF ~session[s].live \/ s \notin listed \cup own THEN session[s]
          ELSE IF s = spare THEN [session[s] EXCEPT !.spared = TRUE]
          ELSE IF s \in listed THEN [session[s] EXCEPT !.live = FALSE]
          ELSE [session[s] EXCEPT !.unlisted = TRUE]]
  <2>1. \E listed \in {{s \in Family : session[s].user = request[p].user}} \cup
                       IF request[p].flow = "change_email" THEN {} ELSE SUBSET Family :
          session' = [s \in Family |->
            IF ~session[s].live \/ s \notin listed \cup {t \in Family : session[t].user = request[p].user} THEN session[s]
            ELSE IF s = request[p].spare THEN [session[s] EXCEPT !.spared = TRUE]
            ELSE IF s \in listed THEN [session[s] EXCEPT !.live = FALSE]
            ELSE [session[s] EXCEPT !.unlisted = TRUE]]
    BY DEF RevokeSessions
  <2>3. PICK listed \in SUBSET Family :
          session' = [s \in Family |->
            IF ~session[s].live \/ s \notin listed \cup {t \in Family : session[t].user = request[p].user} THEN session[s]
            ELSE IF s = request[p].spare THEN [session[s] EXCEPT !.spared = TRUE]
            ELSE IF s \in listed THEN [session[s] EXCEPT !.live = FALSE]
            ELSE [session[s] EXCEPT !.unlisted = TRUE]]
    BY <2>1, Zenon
  <2> QED BY <1>3, <1>13, <2>3
<1>5. PICK q \in Request :
         /\ request' = [request EXCEPT ![p] = q] /\ RequestSound(q)
         /\ q.at \in {"idle", "mark"}
  <2>1. CASE request[p].flow = "reset_password"
    <3>1. [request[p] EXCEPT !.at = "mark"] \in Request BY <1>1 DEF Request, Stage
    <3>2. RequestSound([request[p] EXCEPT !.at = "mark"])
      BY <1>1, <1>2, <2>1 DEF RequestSound, FlowsAt, KnowsUser, PasswordSound, MailSound, LinkHeld, ByLink, Request
    <3>3. [request[p] EXCEPT !.at = "mark"].at = "mark" BY <1>1 DEF Request
    <3> QED BY <2>1, <3>1, <3>2, <3>3 DEF RevokeSessions, GoOn
  <2>2. CASE request[p].flow # "reset_password"
    <3>1. NoRequest.at = "idle" BY DEF NoRequest
    <3> QED BY <2>2, <3>1, LinksAre DEF RevokeSessions, GoOn
  <2> QED BY <2>1, <2>2
<1>6. TablesMove BY <1>2 DEF TablesMove
<1>7. RequestSound(q)'
  BY <1>2, <1>5 DEF RequestSound, FlowsAt, KnowsUser, PasswordSound, MailSound, LinkHeld, ByLink
<1>8. request' \in [Requests -> Request] /\ \A r \in Requests : RequestSound(request[r])'
  BY <1>1, <1>2, <1>5, <1>6, <1>7, RequestsStay, OthersStay
<1>9. \A v \in User \ {u} : SweepDue(v) => SweepDue(v)'
  BY <1>1, <1>3, <1>5 DEF SweepDue
<1>10. ASSUME NEW s \in Family PROVE SessionSound(s)' /\ session'[s] \in Started \cup {Unstarted}
  <2>1. session[s] \in Started \cup {Unstarted} /\ SessionSound(s) BY DEF AccountInvariant, TablesTyped
  <2>2. CASE ~session[s].live
    <3>1. session'[s] = session[s] BY <1>4, <2>2
    <3>2. session[s] # Unstarted => session[s].user \in User BY <2>1, LinksAre
    <3> QED BY <1>2, <2>1, <2>2, <3>1, <3>2 DEF SessionSound
  <2>3. CASE session[s].live
    <3>1. session[s] \in Started /\ session[s].user \in User BY <2>1, <2>3, LinksAre
    <3>2. CASE session[s].user # u /\ s \notin listed
      <4>1. session'[s] = session[s] BY <1>4, <1>13, <3>2
      <4> QED BY <1>2, <1>9, <2>1, <2>3, <3>1, <3>2, <4>1 DEF SessionSound
    <3>3. CASE s \in listed \cup own /\ s = spare
      <4>1. session'[s] = [session[s] EXCEPT !.spared = TRUE] BY <1>4, <2>3, <3>3
      <4>2. session'[s] \in Started /\ session'[s].spared /\ session'[s].user = session[s].user BY <3>1, <4>1 DEF Started
      <4> QED BY <1>2, <2>1, <3>1, <4>2, LinksAre DEF SessionSound
    <3>5. CASE session[s].user = u /\ s # spare /\ s \notin listed
      <4>1. session'[s] = [session[s] EXCEPT !.unlisted = TRUE] BY <1>4, <1>13, <2>3, <3>5
      <4>2. session'[s] \in Started /\ session'[s].unlisted /\ session'[s].user = session[s].user BY <3>1, <4>1 DEF Started
      <4> QED BY <1>2, <2>1, <3>1, <4>2, LinksAre DEF SessionSound
    <3>4. CASE s \in listed /\ s # spare
      <4>1. session'[s] = [session[s] EXCEPT !.live = FALSE] BY <1>4, <2>3, <3>4
      <4>2. session'[s] \in Started /\ ~session'[s].live /\ session'[s].user = session[s].user BY <3>1, <4>1 DEF Started
      <4> QED BY <1>2, <2>1, <3>1, <4>2, LinksAre DEF SessionSound
    <3> QED BY <1>13, <3>2, <3>3, <3>4, <3>5
  <2> QED BY <2>2, <2>3
<1>11. session' \in [Family -> Started \cup {Unstarted}] BY <1>4, <1>10
<1>12. \A v \in User : AccountSound(v)' BY <1>2, <1>6, AccountsStay
<1>15. \A l \in Link : LinkSound(l)' BY <1>2, <1>6, LinksStay
<1>14. TablesTyped' BY <1>2, <1>8, <1>11 DEF AccountInvariant, TablesTyped, AccountsTypeOK
<1> QED BY <1>8, <1>10, <1>12, <1>14, <1>15 DEF AccountInvariant

LEMMA SendLinkKeeps ==
    ASSUME AccountInvariant, NEW p \in Requests, SendLink(p)
    PROVE  AccountInvariant'
<1>1. request[p] \in Request /\ RequestSound(request[p]) /\ request \in [Requests -> Request] BY UnderWay
<1>2. request[p].at = "send" /\ UNCHANGED <<user, secret, old, session>> /\ UNCHANGED <<proven, spends, current, undone>>
  BY DEF SendLink, history
<1>3. PICK u \in User, a \in Address, t \in Address \cup {NoAddress}, v \in Family \cup {NoSession}, purpose \in Purpose :
         /\ u = request[p].user /\ a = request[p].seen.address /\ t = request[p].addr /\ v = request[p].spare
         /\ purpose = request[p].flow /\ user[u].there /\ (t = NoAddress <=> purpose # "change_email")
  BY <1>1, <1>2 DEF RequestSound, KnowsUser, MailSound, FlowsAt, Request
<1>4. PICK l \in Link, m \in Mailed :
         /\ link[l] = Unsent /\ link' = [link EXCEPT ![l] = m]
         /\ m = [purpose |-> purpose, user |-> u, bound |-> a, target |-> t, spare |-> v, spent |-> FALSE]
  BY <1>3 DEF SendLink, Mailed
<1>5. ~m.spent /\ user[m.user].there /\ m.bound \in Address /\ (m.target = NoAddress <=> m.purpose # "change_email")
  BY <1>3, <1>4
<1>6. TablesMove /\ link' \in [Link -> Mailed \cup {Unsent}] /\ \A k \in Link : LinkSound(k)'
  BY <1>2, <1>4, <1>5, Sent
<1>7. request' = [request EXCEPT ![p] = NoRequest] BY DEF SendLink, GoOn
<1>8. RequestSound(NoRequest)'
  BY DEF RequestSound, NoRequest, FlowsAt, KnowsUser, PasswordSound, MailSound, LinkHeld, ByLink
<1>9. request' \in [Requests -> Request] /\ \A r \in Requests : RequestSound(request[r])'
  BY <1>1, <1>2, <1>6, <1>7, <1>8, LinksAre, RequestsStay, OthersStay
<1>10. \A w \in User : SweepDue(w) => SweepDue(w)' BY <1>1, <1>2, <1>7, SweepsStay
<1>11. \A w \in User : AccountSound(w)' BY <1>2, <1>6, AccountsStay
<1>12. \A s \in Family : SessionSound(s)' BY <1>2, <1>6, <1>10, SessionsStay
<1>13. TablesTyped' BY <1>2, <1>6, <1>9 DEF AccountInvariant, TablesTyped, AccountsTypeOK
<1> QED BY <1>6, <1>9, <1>11, <1>12, <1>13 DEF AccountInvariant

\* Of the requests that hold one link, the conditional update lets one go on.
LEMMA SpendLinkKeeps ==
    ASSUME AccountInvariant, NEW p \in Requests, SpendLink(p)
    PROVE  AccountInvariant'
<1>1. request[p] \in Request /\ RequestSound(request[p]) /\ request \in [Requests -> Request] BY UnderWay
<1>2. request[p].at = "spend" /\ UNCHANGED <<user, secret, old, session, current, undone>> BY DEF SpendLink
<1>3. PICK l \in Link : l = request[p].link /\ link[l] \in Mailed /\ link[l].purpose = request[p].flow /\ request[p].flow \in Purpose
  BY <1>1, <1>2, LinksAre DEF RequestSound, LinkHeld, ByLink, FlowsAt, AccountInvariant, TablesTyped, Request
<1>4. CASE link[l].spent
  <2>1. GoOn(p, NoRequest) /\ UNCHANGED <<tables, history>>
    BY <1>2, <1>3, <1>4 DEF SpendLink, tables, history
  <2> QED BY <1>2, <2>1, LinksAre, GoesOn
<1>5. CASE ~link[l].spent
  <2>1. PICK m \in Mailed : m = link[l] BY <1>3
  <2>2. PICK k \in Mailed : k = [m EXCEPT !.spent = TRUE] BY DEF Mailed
  <2>3. /\ k.spent /\ k.purpose = m.purpose /\ k.user = m.user /\ k.bound = m.bound /\ k.target = m.target
        /\ m.user \in User /\ ~m.spent /\ m # Unsent /\ k # Unsent
    BY <1>5, <2>1, <2>2, LinksAre DEF Mailed
  <2>4. PICK q \in Request : q = [request[p] EXCEPT !.at = "bound?", !.user = m.user, !.addr = m.target, !.spare = m.spare]
    <3>1. PICK r \in Request : r = request[p] BY <1>1
    <3>2. m.user \in User \cup {NoUser} /\ m.target \in Address \cup {NoAddress} /\ m.spare \in Family \cup {NoSession} BY DEF Mailed
    <3>3. [r EXCEPT !.at = "bound?", !.user = m.user, !.addr = m.target, !.spare = m.spare] \in Request
      BY <3>2 DEF Request, Stage
    <3> QED BY <3>1, <3>3
  <2>5. /\ link' = [link EXCEPT ![l].spent = TRUE] /\ spends' = [spends EXCEPT ![l] = @ + 1]
        /\ proven' = proven \cup {<<m.user, MailedTo(m)>>} /\ request' = [request EXCEPT ![p] = q]
    BY <1>3, <1>5, <2>1, <2>4 DEF SpendLink, GoOn, MailedTo
  <2>6. link \in [Link -> Mailed \cup {Unsent}] /\ spends \in [Link -> Nat]
    BY DEF AccountInvariant, TablesTyped
  <2>7. link' \in [Link -> Mailed \cup {Unsent}] /\ link'[l] = k /\ \A j \in Link \ {l} : link'[j] = link[j]
    BY <2>1, <2>2, <2>5, <2>6
  <2>8. TablesMove BY <1>2, <2>1, <2>3, <2>5, <2>7 DEF TablesMove
  <2>9. LinkSound(l) /\ user[m.user].there /\ m.bound \in Address /\ (m.target = NoAddress <=> m.purpose # "change_email")
    BY <2>1, <2>3 DEF AccountInvariant, LinkSound
  <2>10. \A j \in Link : LinkSound(j)' /\ spends'[j] \in Nat
    <3> TAKE j \in Link
    <3>1. CASE j = l
      <4>1. spends[l] = 0 BY <2>1, <2>3, <2>9 DEF LinkSound
      <4>2. spends'[l] = 1 BY <2>5, <2>6, <4>1
      <4>3. <<k.user, MailedTo(k)>> \in proven' BY <2>3, <2>5 DEF MailedTo
      <4> QED BY <1>2, <2>3, <2>7, <2>9, <3>1, <4>2, <4>3 DEF LinkSound
    <3>2. CASE j # l
      <4>1. LinkSound(j) BY DEF AccountInvariant
      <4>2. link'[j] = link[j] /\ spends'[j] = spends[j] BY <2>5, <2>6, <2>7, <3>2
      <4> QED BY <1>2, <2>5, <2>6, <4>1, <4>2 DEF LinkSound, MailedTo
    <3> QED BY <3>1, <3>2
  <2>11. RequestSound(q)'
    <3>1. q.at = "bound?" /\ q.user = m.user /\ q.addr = m.target /\ q.link = l /\ q.flow = m.purpose /\ q.flow \in Purpose
      BY <1>1, <1>3, <2>1, <2>4 DEF Request
    <3> QED BY <1>2, <2>3, <2>7, <2>9, <3>1, NoneIsDistinct
        DEF RequestSound, FlowsAt, KnowsUser, PasswordSound, MailSound, LinkHeld, ByLink
  <2>12. request' \in [Requests -> Request] /\ \A r \in Requests : RequestSound(request[r])'
    BY <1>1, <1>2, <2>5, <2>8, <2>11, RequestsStay, OthersStay
  <2>13. \A v \in User : SweepDue(v) => SweepDue(v)' BY <1>1, <1>2, <2>5, SweepsStay
  <2>14. \A v \in User : AccountSound(v)' BY <1>2, <2>8, AccountsStay
  <2>15. \A s \in Family : SessionSound(s)' BY <1>2, <2>8, <2>13, SessionsStay
  <2>16. spends' \in [Link -> Nat] BY <2>5, <2>6, <2>10
  <2>17. TablesTyped' BY <1>2, <2>7, <2>12, <2>16 DEF AccountInvariant, TablesTyped, AccountsTypeOK
  <2> QED BY <2>10, <2>12, <2>14, <2>15, <2>17 DEF AccountInvariant
<1> QED BY <1>3, <1>4, <1>5, LinksAre

\* The address moves to where a spent link was mailed; requests of this account
\* that compared the old one are outrun.
LEMMA MoveAddressKeeps ==
    ASSUME AccountInvariant, NEW p \in Requests, MoveAddress(p)
    PROVE  AccountInvariant'
<1>1. request[p] \in Request /\ RequestSound(request[p]) /\ request \in [Requests -> Request] BY UnderWay
<1>2. /\ request[p].at = "move" /\ UNCHANGED <<secret, old, link, session>> /\ UNCHANGED <<proven, spends, current, undone>>
      /\ request[p].flow = "change_email"
  BY <1>1 DEF MoveAddress, history, RequestSound, FlowsAt
<1>3. PICK u \in User, l \in Link :
         u = request[p].user /\ l = request[p].link /\ user[u].there /\ link[l] \in Mailed /\ link[l].spent
  BY <1>1, <1>2, LinksAre DEF RequestSound, KnowsUser, LinkHeld, ByLink, AccountInvariant, TablesTyped, Request
<1>4. PICK a \in Address : a = request[p].addr /\ <<u, a>> \in proven
  <2>1. LinkSound(l) /\ link[l] # Unsent /\ link[l].purpose = "change_email" /\ link[l].target = request[p].addr /\ link[l].user = u
    BY <1>1, <1>2, <1>3, LinksAre DEF RequestSound, LinkHeld, ByLink, AccountInvariant
  <2>2. link[l].target # NoAddress /\ <<u, link[l].target>> \in proven
    BY <1>3, <2>1 DEF LinkSound, MailedTo
  <2>3. link[l].target \in Address BY <1>3, <2>2 DEF Mailed
  <2> QED BY <2>1, <2>2, <2>3
<1>5. user \in [User -> Account] BY DEF AccountInvariant, TablesTyped, AccountsTypeOK
<1>6. user' = [user EXCEPT ![u].address = a, ![u].verified = TRUE] BY <1>3, <1>4 DEF MoveAddress
<1>7. /\ user' \in [User -> Account] /\ user'[u].address = a /\ user'[u].there
      /\ \A v \in User \ {u} : user'[v] = user[v]
  BY <1>3, <1>5, <1>6 DEF Account
<1>8. PICK q \in Request : q = [request[p] EXCEPT !.at = "revoke"]
  <2>1. request[p] \in Request BY <1>1
  <2> QED BY <2>1, RequestMovesOn
<1>9. PICK others \in [Requests -> Request] :
         others = [r \in Requests |-> IF request[r].link # NoLink /\ request[r].user = u /\ request[r].at # "bound?"
                                      THEN [request[r] EXCEPT !.overlapped = TRUE] ELSE request[r]]
  <2>1. \A r \in Requests : [request[r] EXCEPT !.overlapped = TRUE] \in Request BY <1>1 DEF Request
  <2> QED BY <1>1, <2>1
<1>10. request' = [others EXCEPT ![p] = q] BY <1>3, <1>8, <1>9 DEF MoveAddress
<1>11. TablesMove BY <1>2, <1>7 DEF TablesMove
<1>12. RequestSound(q)'
  <2>1. RequestSound(request[p]) /\ q.at = "revoke" /\ q.user = u /\ q.flow = "change_email" /\ q.link = l
        /\ q.addr = request[p].addr /\ request[p].user = u /\ request[p].flow = "change_email" /\ request[p].link = l
    BY <1>1, <1>2, <1>3, <1>8 DEF Request
  <2> QED BY <1>2, <1>4, <1>7, <2>1 DEF RequestSound, FlowsAt, KnowsUser, PasswordSound, MailSound, LinkHeld, ByLink
<1>13. ASSUME NEW r \in Requests
       PROVE  /\ others[r] = request[r] \/ others[r] = [request[r] EXCEPT !.overlapped = TRUE]
              /\ Acting(others[r]) => AddressStays(others[r]) /\ PasswordStays(others[r])
  <2>1. request[r] \in Request /\ others[r] \in Request BY <1>1
  <2>2. /\ others[r] = request[r] \/ others[r] = [request[r] EXCEPT !.overlapped = TRUE]
        /\ others[r].user = request[r].user /\ others[r].link = request[r].link /\ others[r].at = request[r].at
        /\ request[r].link # NoLink /\ request[r].user = u /\ request[r].at # "bound?" => others[r].overlapped
    BY <1>9, <2>1 DEF Request
  <2>3. PasswordStays(others[r]) BY <1>2 DEF PasswordStays
  <2>4. ASSUME Acting(others[r]) PROVE AddressStays(others[r])
    <3>1. request[r].user \in User BY <2>2, <2>4, UnderWay DEF RequestSound, KnowsUser, Acting
    <3> QED BY <1>2, <1>4, <1>7, <2>2, <3>1 DEF AddressStays
  <2> QED BY <2>2, <2>3, <2>4
<1>14. request' \in [Requests -> Request] /\ \A r \in Requests : RequestSound(request[r])'
  BY <1>10, <1>11, <1>12, <1>13, RequestsStay
<1>15. \A v \in User : SweepDue(v) => SweepDue(v)' BY <1>2, <1>10, <1>13, SweepsStay
<1>16. \A v \in User : AccountSound(v)' BY <1>2, <1>4, <1>7 DEF AccountInvariant, AccountSound
<1>17. \A k \in Link : LinkSound(k)' BY <1>2, <1>11, LinksStay
<1>18. \A s \in Family : SessionSound(s)' BY <1>2, <1>11, <1>15, SessionsStay
<1>19. TablesTyped' BY <1>2, <1>7, <1>14 DEF AccountInvariant, TablesTyped, AccountsTypeOK
<1> QED BY <1>14, <1>16, <1>17, <1>18, <1>19 DEF AccountInvariant

LEMMA MarkVerifiedKeeps ==
    ASSUME AccountInvariant, NEW p \in Requests, MarkVerified(p)
    PROVE  AccountInvariant'
<1>1. request[p] \in Request /\ RequestSound(request[p]) /\ request \in [Requests -> Request] BY UnderWay
<1>2. /\ request[p].at = "mark" /\ UNCHANGED <<secret, old, link, session>> /\ UNCHANGED <<proven, spends, current, undone>>
  BY DEF MarkVerified, history
<1>3. PICK u \in User : u = request[p].user /\ user[u].there /\ <<u, user[u].address>> \in proven
  BY <1>1, <1>2 DEF RequestSound, KnowsUser, LinkHeld, ByLink
<1>4. user \in [User -> Account] BY DEF AccountInvariant, TablesTyped, AccountsTypeOK
<1>5. user' = [user EXCEPT ![u].verified = TRUE] BY <1>3 DEF MarkVerified
<1>6. /\ user' \in [User -> Account] /\ user'[u].address = user[u].address /\ user'[u].there
      /\ \A v \in User \ {u} : user'[v] = user[v]
  BY <1>3, <1>4, <1>5 DEF Account
<1>7. request' = [request EXCEPT ![p] = NoRequest] BY DEF MarkVerified, GoOn
<1>8. TablesMove BY <1>2, <1>6 DEF TablesMove
<1>9. RequestSound(NoRequest)'
  BY DEF RequestSound, NoRequest, FlowsAt, KnowsUser, PasswordSound, MailSound, LinkHeld, ByLink
<1>10. ASSUME NEW r \in Requests, Acting(request[r])
       PROVE  AddressStays(request[r]) /\ PasswordStays(request[r])
  <2>1. request[r].user \in User BY <1>10, UnderWay DEF RequestSound, KnowsUser, Acting
  <2> QED BY <1>2, <1>6, <2>1 DEF AddressStays, PasswordStays
<1>11. request' \in [Requests -> Request] /\ \A r \in Requests : RequestSound(request[r])'
  BY <1>1, <1>7, <1>8, <1>9, <1>10, LinksAre, RequestsStay
<1>12. \A v \in User : SweepDue(v) => SweepDue(v)' BY <1>1, <1>2, <1>7, SweepsStay
<1>13. \A v \in User : AccountSound(v)' BY <1>2, <1>3, <1>6 DEF AccountInvariant, AccountSound
<1>14. \A l \in Link : LinkSound(l)' BY <1>2, <1>8, LinksStay
<1>15. \A s \in Family : SessionSound(s)' BY <1>2, <1>8, <1>12, SessionsStay
<1>16. TablesTyped' BY <1>2, <1>6, <1>11 DEF AccountInvariant, TablesTyped, AccountsTypeOK
<1> QED BY <1>11, <1>13, <1>14, <1>15, <1>16 DEF AccountInvariant

\* A change of password that is cut short before its sweep leaves its user undone.
LEMMA AbortKeeps ==
    ASSUME AccountInvariant, NEW p \in Requests, Abort(p)
    PROVE  AccountInvariant'
<1>1. request[p] \in Request /\ RequestSound(request[p]) /\ request \in [Requests -> Request] BY UnderWay
<1>2. /\ UNCHANGED <<user, secret, old, link, session>> /\ UNCHANGED <<proven, spends, current>>
      /\ request' = [request EXCEPT ![p] = NoRequest]
  BY DEF Abort, GoOn, tables
<1>3. /\ undone \subseteq undone' /\ undone' \subseteq User
      /\ request[p].at = "revoke" /\ request[p].flow # "change_email" => request[p].user \in undone'
  BY <1>1 DEF Abort, RequestSound, KnowsUser, AccountInvariant, TablesTyped
<1>4. TablesMove BY <1>2 DEF TablesMove
<1>5. RequestSound(NoRequest)'
  BY DEF RequestSound, NoRequest, FlowsAt, KnowsUser, PasswordSound, MailSound, LinkHeld, ByLink
<1>6. request' \in [Requests -> Request] /\ \A r \in Requests : RequestSound(request[r])'
  BY <1>1, <1>2, <1>3, <1>4, <1>5, LinksAre, RequestsStay, OthersStay
<1>7. \A v \in User : SweepDue(v) => SweepDue(v)' \/ v \in undone' BY <1>1, <1>2, <1>3 DEF SweepDue
<1>8. \A v \in User : AccountSound(v)' BY <1>2, <1>3, <1>4, AccountsStay
<1>9. \A l \in Link : LinkSound(l)' BY <1>2, <1>4, LinksStay
<1>10. \A s \in Family : SessionSound(s)' BY <1>2, <1>3, <1>4, <1>7, SessionsStay
<1>11. TablesTyped' BY <1>2, <1>3, <1>6 DEF AccountInvariant, TablesTyped, AccountsTypeOK
<1> QED BY <1>6, <1>8, <1>9, <1>10, <1>11 DEF AccountInvariant

-----------------------------------------------------------------------------
LEMMA AccountsStart == AccountsInit => AccountInvariant
<1> SUFFICES ASSUME AccountsInit PROVE AccountInvariant
  OBVIOUS
<1>1. NoAccount \in Account /\ ~NoAccount.there BY DEF NoAccount, Account
<1>2. TablesTyped BY <1>1, LinksAre DEF AccountsInit, TablesTyped, AccountsTypeOK
<1>3. \A u \in User : AccountSound(u) BY <1>1 DEF AccountsInit, AccountSound
<1>4. \A l \in Link : LinkSound(l) BY DEF AccountsInit, LinkSound
<1>5. \A s \in Family : SessionSound(s) BY LinksAre DEF AccountsInit, SessionSound
<1>6. \A p \in Requests : RequestSound(request[p]) BY LinksAre DEF AccountsInit
<1> QED BY <1>2, <1>3, <1>4, <1>5, <1>6 DEF AccountInvariant

LEMMA AskKeeps ==
    ASSUME AccountInvariant, NEW p \in Requests, Enter(p)
    PROVE  AccountInvariant'
<1>1. CASE \E a \in Address, w \in Password : Register(p, a, w) \/ Login(p, a, w)
  BY <1>1, RegisterKeeps, LoginKeeps
<1>2. CASE \E s \in Family, w, n \in Password : ChangePassword(p, s, w, n)
  BY <1>2, ChangePasswordKeeps
<1>3. CASE \E a \in Address : \E purpose \in Purpose \ {"change_email"} : RequestLink(p, a, purpose)
  BY <1>3, RequestLinkKeeps
<1>4. CASE \E s \in Family, b \in Address : RequestEmailChange(p, s, b)
  BY <1>4, RequestEmailChangeKeeps
<1>5. CASE \E l \in Link, purpose \in Purpose :
              \E n \in IF purpose = "reset_password" THEN Password ELSE {NoPassword} : ConfirmLink(p, l, purpose, n)
  BY <1>5, ConfirmLinkKeeps
<1> QED BY <1>1, <1>2, <1>3, <1>4, <1>5 DEF Enter

LEMMA WorkKeeps ==
    ASSUME AccountInvariant, NEW p \in Requests, Work(p)
    PROVE  AccountInvariant'
BY CreateUserKeeps, PutCredentialKeeps, AnnounceKeeps, CheckPasswordKeeps, RehashKeeps, StartSessionKeeps,
   VerifyCurrentKeeps, ReplacePasswordKeeps, PolicyRefusesKeeps, RevokeSessionsKeeps, CheckTakenKeeps, SendLinkKeeps,
   SpendLinkKeeps, CheckBoundKeeps, MoveAddressKeeps, MarkVerifiedKeeps, Zenon DEF Work

LEMMA AccountsKeep == AccountInvariant /\ [AccountsNext]_accountVars => AccountInvariant'
<1> SUFFICES ASSUME AccountInvariant, [AccountsNext]_accountVars PROVE AccountInvariant'
  OBVIOUS
<1>1. ASSUME NEW p \in Requests, Enter(p) \/ Work(p) \/ Abort(p) PROVE AccountInvariant'
  BY <1>1, AskKeeps, WorkKeeps, AbortKeeps
<1>2. CASE RaiseCost BY <1>2, RaiseCostKeeps
<1>3. CASE UNCHANGED accountVars
  <2>1. /\ UNCHANGED <<user, secret, old, link, session>> /\ UNCHANGED <<proven, spends, current, undone>>
        /\ UNCHANGED request
    BY <1>3 DEF accountVars, tables, history
  <2>2. TablesTyped' BY <2>1 DEF AccountInvariant, TablesTyped, AccountsTypeOK
  <2>3. \A u \in User : AccountSound(u)' BY <2>1 DEF AccountInvariant, AccountSound
  <2>4. \A l \in Link : LinkSound(l)' BY <2>1 DEF AccountInvariant, LinkSound
  <2>5. \A s \in Family : SessionSound(s)' BY <2>1 DEF AccountInvariant, SessionSound, SweepDue
  <2>6. \A p \in Requests : RequestSound(request[p])'
    BY <2>1 DEF AccountInvariant, RequestSound, FlowsAt, KnowsUser, PasswordSound, MailSound, LinkHeld, ByLink
  <2> QED BY <2>2, <2>3, <2>4, <2>5, <2>6 DEF AccountInvariant
<1> QED BY <1>1, <1>2, <1>3 DEF AccountsNext

\* Whatever is asked at once, and wherever a request dies, a link does one thing,
\* once, for the address it was mailed to, and no session outlives the password it
\* was opened with except in the ways AccountsHold names (flows.py).
THEOREM LinksAndPasswords == AccountsSpec => []AccountsHold
<1>1. ASSUME AccountInvariant PROVE LinksAreSound
  <2>1. VerifiedIsProven BY <1>1 DEF AccountInvariant, AccountSound, VerifiedIsProven
  <2>2. EveryLinkWorksOnce
    <3>1. \A l \in Link : spends[l] \in {0, 1} BY <1>1 DEF AccountInvariant, LinkSound
    <3>2. \A n \in {0, 1} : n <= 1 OBVIOUS
    <3> QED BY <3>1, <3>2 DEF EveryLinkWorksOnce
  <2>3. LeftAddressesAreRefused BY <1>1 DEF AccountInvariant, RequestSound, LinkHeld, LeftAddressesAreRefused
  <2> QED BY <2>1, <2>2, <2>3 DEF LinksAreSound
<1>2. ASSUME AccountInvariant PROVE SessionsDieWithThePassword
  BY <1>2 DEF AccountInvariant, SessionSound, SweepDue, SessionsDieWithThePassword
<1>3. AccountInvariant => AccountsHold BY <1>1, <1>2 DEF AccountsHold
<1> QED BY AccountsStart, AccountsKeep, <1>3, PTL DEF AccountsSpec
-----------------------------------------------------------------------------
(* The owner's customer.                                                   *)

CallerRecord == [at : {"idle", "search", "create", "sent", "search again", "answered", "stored",
                       "raised", "StripeCustomerConflict"},
                 email : Emails \cup {""}, attempt : Nat, since : Nat, answer : Nat]
KeyRecord == [state : {"none", "in flight", "done"}, at : Nat, email : Emails \cup {""}, id : Nat]
SubRecord == [state : {"none", "live", "ended"}, of : Nat]
CascadeRecord == [at : {"idle", "listing", "cancelling", "done", "raised"}, ids : SUBSET Nat, todo : SUBSET Subscriptions,
                  live : SUBSET Subscriptions, settled : BOOLEAN]

BillTypeOK ==
    /\ billNow \in Nat
    /\ idemKey \in KeyRecord
    /\ caller \in [Callers -> CallerRecord]
    /\ storedId \in {0, 1}
    /\ subs \in [Subscriptions -> SubRecord]
    /\ cascade \in CascadeRecord

\* An owner from before the product, whose customers search has shown all along.
OldOwner == idemKey.state = "none" /\ \E n \in Legacy : n > 0 /\ customers = [id : 1 .. n, indexed : {TRUE}]

HasFirst == \E c \in customers : c.id = 1

\* Long enough after the key was taken, search shows the customer.
SoonAfterTheKey(t) == t <= idemKey.at + IndexLag \/ t <= idemKey.at + CallLimit

\* The key and the customer it is for: none yet, being made by one caller, or made.
CustomerSound ==
    /\ idemKey.state = "none" => idemKey = NoKey /\ (customers = {} \/ OldOwner)
    /\ idemKey.at <= billNow
    /\ storedId # 0 => HasFirst
    /\ idemKey.state = "in flight" =>
         customers = {} /\ \E p \in Callers : caller[p].at = "sent" /\ \A q \in Callers : caller[q].at = "sent" => q = p
    /\ idemKey.state = "done" =>
         /\ idemKey.id = 1
         /\ \E shown \in BOOLEAN :
              customers = {[id |-> 1, indexed |-> shown]} /\ (shown \/ SoonAfterTheKey(billNow))

\* What a caller's record says: one that is about to create searched too early to
\* find the customer, so the key is still held.
CallerSound(c) ==
    /\ c.since <= billNow
    /\ c.at \in {"search", "create", "sent", "search again"} => billNow <= c.since + CallLimit
    /\ c.at \in {"answered", "stored"} => c.answer = 1 /\ HasFirst
    /\ c.at \in {"create", "sent", "search again"} => ~OldOwner
    /\ c.at = "create" /\ idemKey.state # "none" => SoonAfterTheKey(c.since)
    /\ c.at = "sent" => idemKey.state = "in flight" /\ c.since <= idemKey.at

\* Every subscription is a customer's; what was live when the cascade began, where
\* search had caught up, has ended, is to be cancelled, or its customer to be listed.
SubSound(s) == subs[s].state # "none" => \E c \in customers : c.id = subs[s].of
Covered(s) == subs[s].state = "ended" \/ s \in cascade.todo \/ subs[s].of \in cascade.ids
CascadeSound ==
    /\ \A s \in Subscriptions : SubSound(s)
    /\ \A s \in cascade.live \cup cascade.todo : subs[s].state # "none"
    /\ cascade.settled => \A s \in cascade.live : Covered(s)
    /\ cascade.at = "done" => cascade.ids = {} /\ cascade.todo = {}
    /\ cascade.at = "listing" => cascade.todo = {} /\ cascade.ids # {}

BillInvariant ==
    /\ BillTypeOK
    /\ CustomerSound
    /\ \A p \in Callers : CallerSound(caller[p])
    /\ CascadeSound

LEMMA NoKeyTyped == NoKey \in KeyRecord /\ NoKey.state = "none" /\ NoKey.at = 0
BY DEF NoKey, KeyRecord

LEMMA IdleCallerTyped == IdleCaller \in CallerRecord /\ IdleCaller.at = "idle" /\ IdleCaller.since = 0
BY DEF IdleCaller, CallerRecord

LEMMA BillTimes ==
    /\ IndexLag \in Nat /\ KeyLife \in Nat /\ CallLimit \in Nat
    /\ IndexLag + CallLimit < KeyLife /\ CallLimit + CallLimit < KeyLife
BY TheKeyOutlivesTheLag

LEMMA LaterBy == \A n, a, b, c \in Nat : n <= a + c /\ a <= b => n <= b + c
OBVIOUS

\* Whatever search shows, the oldest of it is the owner's first customer.
LEMMA SearchShows ==
    ASSUME BillInvariant
    PROVE  /\ FindCustomerIds # {} => Oldest(FindCustomerIds) = 1 /\ HasFirst
           /\ OldOwner => FindCustomerIds # {}
           /\ FindCustomerIds = {} /\ idemKey.state = "done" => SoonAfterTheKey(billNow)
<1>1. \A i : i \in FindCustomerIds <=> \E c \in customers : c.indexed /\ c.id = i BY DEF FindCustomerIds
<1>2. ASSUME NEW ids, 1 \in ids, ids \subseteq Nat \ {0} PROVE Oldest(ids) = 1
  <2>1. \A i \in ids : (\A j \in ids : i <= j) <=> i = 1 BY <1>2
  <2> QED BY <1>2, <2>1 DEF Oldest
<1>3. CASE OldOwner
  <2>1. PICK n \in Nat : n > 0 /\ customers = [id : 1 .. n, indexed : {TRUE}] BY <1>3, TheKeyOutlivesTheLag DEF OldOwner
  <2>2. [id |-> 1, indexed |-> TRUE] \in customers BY <2>1
  <2>3. 1 \in FindCustomerIds BY <1>1, <2>2
  <2>4. FindCustomerIds \subseteq Nat \ {0}
    <3>1. ASSUME NEW c \in customers PROVE c.id \in 1 .. n BY <2>1
    <3>2. 1 .. n \subseteq Nat \ {0} OBVIOUS
    <3> QED BY <1>1, <3>1, <3>2
  <2> QED BY <1>2, <1>3, <2>1, <2>2, <2>3, <2>4 DEF OldOwner, HasFirst
<1>4. CASE idemKey.state = "done"
  <2>1. PICK shown \in BOOLEAN : customers = {[id |-> 1, indexed |-> shown]} /\ (shown \/ SoonAfterTheKey(billNow))
    BY <1>4 DEF BillInvariant, CustomerSound
  <2>2. CASE shown = TRUE
    <3>1. FindCustomerIds = {1} BY <1>1, <2>1, <2>2
    <3> QED BY <1>2, <1>4, <2>1, <3>1 DEF OldOwner, HasFirst
  <2>3. CASE shown = FALSE
    <3>1. FindCustomerIds = {} BY <1>1, <2>1, <2>3
    <3> QED BY <1>4, <2>1, <2>3, <3>1 DEF OldOwner
  <2> QED BY <2>2, <2>3
<1>5. CASE customers = {} /\ ~OldOwner /\ idemKey.state # "done" BY <1>1, <1>5
<1> QED BY <1>3, <1>4, <1>5 DEF BillInvariant, BillTypeOK, CustomerSound, KeyRecord

LEMMA EarlierIsSoon ==
    ASSUME BillInvariant, NEW t \in Nat, NEW u \in Nat, t <= u, SoonAfterTheKey(u)
    PROVE  SoonAfterTheKey(t)
<1>1. PICK at \in Nat : at = idemKey.at BY DEF BillInvariant, BillTypeOK, KeyRecord
<1> QED BY <1>1, BillTimes DEF SoonAfterTheKey

\* While the customer is being made, it is soon after the key was taken.
LEMMA MakingIsSoon ==
    ASSUME BillInvariant, idemKey.state = "in flight"
    PROVE  SoonAfterTheKey(billNow)
<1>1. PICK p \in Callers : caller[p].at = "sent" BY DEF BillInvariant, CustomerSound
<1>2. caller[p] \in CallerRecord /\ CallerSound(caller[p]) BY DEF BillInvariant, BillTypeOK
<1>3. PICK at \in Nat : at = idemKey.at BY DEF BillInvariant, BillTypeOK, KeyRecord
<1>4. PICK since \in Nat : billNow <= since + CallLimit /\ since <= at
  BY <1>1, <1>2, <1>3 DEF CallerSound, CallerRecord
<1>5. billNow \in Nat BY DEF BillInvariant, BillTypeOK
<1>6. CallLimit \in Nat BY BillTimes
<1>7. billNow <= at + CallLimit BY ONLY <1>4, <1>5, <1>6, LaterBy, at \in Nat, since \in Nat
<1> QED BY <1>3, <1>7 DEF SoonAfterTheKey

\* A caller about to create finds the key held, if anybody took it.
LEMMA TheKeyIsHeld ==
    ASSUME BillInvariant, NEW p \in Callers, caller[p].at = "create", idemKey.state # "none"
    PROVE  KeyHeld
<1>1. caller[p] \in CallerRecord /\ CallerSound(caller[p]) BY DEF BillInvariant, BillTypeOK
<1>2. PICK since \in Nat : since = caller[p].since /\ billNow <= since + CallLimit /\ SoonAfterTheKey(since)
  BY <1>1 DEF CallerSound, CallerRecord
<1>3. PICK at \in Nat : at = idemKey.at BY DEF BillInvariant, BillTypeOK, KeyRecord
<1>4. billNow \in Nat BY DEF BillInvariant, BillTypeOK
<1>5. since <= at + IndexLag \/ since <= at + CallLimit BY <1>2, <1>3 DEF SoonAfterTheKey
<1>6. billNow < at + KeyLife BY <1>2, <1>4, <1>5, BillTimes
<1> QED BY <1>3, <1>6 DEF KeyHeld

\* A step that changes one caller's record, and at most what the product stored.
LEMMA OneCaller ==
    ASSUME BillInvariant, NEW p \in Callers, NEW x \in CallerRecord,
           caller' = [caller EXCEPT ![p] = x], UNCHANGED <<billNow, customers, idemKey, subs, cascade>>,
           storedId' \in {0, 1}, storedId' # 0 => HasFirst, caller[p].at # "sent", x.at # "sent", CallerSound(x)
    PROVE  BillInvariant'
<1>1. /\ caller' \in [Callers -> CallerRecord] /\ caller'[p] = x
      /\ \A q \in Callers \ {p} : caller'[q] = caller[q]
  BY DEF BillInvariant, BillTypeOK
<1>2. BillTypeOK' BY <1>1 DEF BillInvariant, BillTypeOK
<1>3. CustomerSound' BY <1>1 DEF BillInvariant, CustomerSound, OldOwner, SoonAfterTheKey, HasFirst
<1>5. ASSUME NEW q \in Callers PROVE CallerSound(caller[q])'
  <2>1. CallerSound(caller'[q]) BY <1>1 DEF BillInvariant
  <2> QED BY <2>1 DEF CallerSound, OldOwner, SoonAfterTheKey, HasFirst
<1>6. CascadeSound' BY DEF BillInvariant, CascadeSound, SubSound, Covered
<1> QED BY <1>2, <1>3, <1>5, <1>6 DEF BillInvariant

LEMMA EnsureCustomerKeeps ==
    ASSUME BillInvariant, NEW p \in Callers, NEW email \in Emails, EnsureCustomer(p, email)
    PROVE  BillInvariant'
<1>0. PICK at \in {"answered", "search"} : at = IF storedId # 0 THEN "answered" ELSE "search" OBVIOUS
<1>1. PICK x : x = [IdleCaller EXCEPT !.at = at, !.email = email, !.attempt = 1, !.since = billNow, !.answer = storedId]
  OBVIOUS
<1>2. billNow \in Nat /\ storedId \in {0, 1} /\ (storedId # 0 => HasFirst) BY DEF BillInvariant, BillTypeOK, CustomerSound
<1>3. /\ x \in CallerRecord /\ x.since = billNow /\ x.answer = storedId /\ x.at = at
  <2>1. x = [at |-> at, email |-> email, attempt |-> 1, since |-> billNow, answer |-> storedId]
    BY <1>1 DEF IdleCaller
  <2>2. storedId \in Nat /\ 1 \in Nat
    <3>1. \A n \in {0, 1} : n \in Nat OBVIOUS
    <3> QED BY <1>2, <3>1
  <2>3. at \in {"idle", "search", "create", "sent", "search again", "answered", "stored",
               "raised", "StripeCustomerConflict"}
    OBVIOUS
  <2> QED BY <1>2, <2>1, <2>2, <2>3 DEF CallerRecord
<1>4. billNow <= billNow /\ billNow <= billNow + CallLimit BY <1>2, BillTimes
<1>5. CallerSound(x) BY <1>0, <1>2, <1>3, <1>4 DEF CallerSound
<1>6. /\ caller' = [caller EXCEPT ![p] = x] /\ caller[p].at = "idle"
      /\ UNCHANGED <<billNow, customers, idemKey, subs, cascade, storedId>>
  BY <1>0, <1>1 DEF EnsureCustomer
<1> QED BY <1>0, <1>2, <1>3, <1>5, <1>6, OneCaller

\* A caller's record with another stage, or an answer.
LEMMA CallerAdvances ==
    ASSUME BillInvariant, NEW p \in Callers
    PROVE  /\ caller[p] \in CallerRecord /\ CallerSound(caller[p])
           /\ LET x == [caller[p] EXCEPT !.at = "answered", !.answer = 1]
              IN x \in CallerRecord /\ x.at = "answered" /\ x.since = caller[p].since /\ x.answer = 1
BY DEF BillInvariant, BillTypeOK, CallerRecord

LEMMA CallerIsNow ==
    ASSUME BillInvariant, NEW p \in Callers, NEW x,
           NEW at \in {"create", "sent", "search again", "answered", "stored", "raised", "StripeCustomerConflict"},
           x = [caller[p] EXCEPT !.at = at]
    PROVE  x \in CallerRecord /\ x.at = at /\ x.since = caller[p].since /\ x.answer = caller[p].answer
BY CallerAdvances DEF CallerRecord

LEMMA AnswerKeeps ==
    ASSUME BillInvariant, NEW p \in Callers, caller[p].at # "sent", AnswerCaller(p, 1), HasFirst,
           UNCHANGED <<billNow, customers, idemKey, storedId, subs, cascade>>
    PROVE  BillInvariant'
<1>1. PICK x : x = [caller[p] EXCEPT !.at = "answered", !.answer = 1] OBVIOUS
<1>2. x \in CallerRecord /\ x.at = "answered" /\ x.since = caller[p].since /\ x.answer = 1 BY <1>1, CallerAdvances
<1>3. caller' = [caller EXCEPT ![p] = x] BY <1>1 DEF AnswerCaller, BillInvariant, BillTypeOK
<1>4. CallerSound(x) BY <1>2, CallerAdvances DEF CallerSound
<1>5. storedId' \in {0, 1} /\ (storedId' # 0 => HasFirst) BY DEF BillInvariant, BillTypeOK, CustomerSound
<1> QED BY <1>2, <1>3, <1>4, <1>5, OneCaller

LEMMA SearchKeeps ==
    ASSUME BillInvariant, NEW p \in Callers, Search(p)
    PROVE  BillInvariant'
<1>1. /\ UNCHANGED <<billNow, customers, idemKey, storedId, subs, cascade>> /\ caller[p].at \in {"search", "search again"}
  BY DEF Search
<1>2. CASE FindCustomerIds # {}
  <2>1. AnswerCaller(p, 1) BY <1>2, SearchShows DEF Search
  <2> QED BY <1>1, <1>2, <2>1, SearchShows, AnswerKeeps
<1>3. CASE FindCustomerIds = {}
  <2>1. PICK at \in {"create", "StripeCustomerConflict"} :
          at = IF caller[p].at = "search" THEN "create" ELSE "StripeCustomerConflict"
    OBVIOUS
  <2>2. PICK x : x = [caller[p] EXCEPT !.at = at] OBVIOUS
  <2>3. x \in CallerRecord /\ x.at = at /\ x.since = caller[p].since /\ x.answer = caller[p].answer
    <3>1. at \in {"create", "sent", "search again", "answered", "stored", "raised", "StripeCustomerConflict"}
      OBVIOUS
    <3> QED BY <2>2, <3>1, CallerIsNow
  <2>4. caller' = [caller EXCEPT ![p] = x] BY <1>3, <2>1, <2>2 DEF Search, BillInvariant, BillTypeOK
  <2>5. ~OldOwner BY <1>3, SearchShows
  <2>6. idemKey.state # "none" => SoonAfterTheKey(x.since)
    <3>1. idemKey.state # "none" => SoonAfterTheKey(billNow)
      BY <1>3, SearchShows, MakingIsSoon DEF BillInvariant, BillTypeOK, KeyRecord
    <3>2. PICK since \in Nat : since = x.since /\ since <= billNow
      BY <2>3, CallerAdvances DEF CallerRecord, CallerSound
    <3> QED BY <3>1, <3>2, EarlierIsSoon DEF BillInvariant, BillTypeOK
  <2>7. CallerSound(x) BY <1>1, <2>1, <2>3, <2>5, <2>6, CallerAdvances DEF CallerSound
  <2>8. storedId' \in {0, 1} /\ (storedId' # 0 => HasFirst) BY <1>1 DEF BillInvariant, BillTypeOK, CustomerSound
  <2> QED BY <1>1, <2>1, <2>3, <2>4, <2>7, <2>8, OneCaller
<1> QED BY <1>2, <1>3

LEMMA StoreIdKeeps ==
    ASSUME BillInvariant, NEW p \in Callers, StoreId(p)
    PROVE  BillInvariant'
<1>1. PICK x : x = [caller[p] EXCEPT !.at = "stored"] OBVIOUS
<1>2. x \in CallerRecord /\ x.at = "stored" /\ x.since = caller[p].since /\ x.answer = caller[p].answer
  BY <1>1, CallerIsNow
<1>3. /\ caller[p].at = "answered" /\ caller' = [caller EXCEPT ![p] = x] /\ storedId' = caller[p].answer
      /\ UNCHANGED <<billNow, customers, idemKey, subs, cascade>>
  BY <1>1 DEF StoreId, BillInvariant, BillTypeOK
<1>4. caller[p].answer = 1 /\ HasFirst BY <1>3, CallerAdvances DEF CallerSound
<1>5. CallerSound(x) BY <1>2, <1>4, CallerAdvances DEF CallerSound
<1> QED BY <1>2, <1>3, <1>4, <1>5, OneCaller

\* The first create under the key: nobody can have taken it before.
LEMMA SendCreateKeeps ==
    ASSUME BillInvariant, NEW p \in Callers, SendCreate(p)
    PROVE  BillInvariant'
<1>1. caller[p].at = "create" /\ UNCHANGED <<billNow, customers, storedId, subs, cascade>> BY DEF SendCreate
<1>2. CallerSound(caller[p]) /\ caller[p] \in CallerRecord /\ storedId \in {0, 1} /\ ~OldOwner /\ (storedId # 0 => HasFirst)
  BY <1>1, CallerAdvances DEF BillInvariant, BillTypeOK, CallerSound, CustomerSound
<1>3. CASE /\ KeyHeld /\ UNCHANGED idemKey
           /\ \/ caller' = [caller EXCEPT ![p].at = "search again"]
              \/ caller' = [caller EXCEPT ![p].at = "raised"]
  <2>1. PICK at \in {"search again", "raised"} : caller' = [caller EXCEPT ![p].at = at] BY <1>3
  <2>2. PICK x : x = [caller[p] EXCEPT !.at = at] OBVIOUS
  <2>3. x \in CallerRecord /\ x.at = at /\ x.since = caller[p].since
    <3>1. at \in {"create", "sent", "search again", "answered", "stored", "raised", "StripeCustomerConflict"}
      OBVIOUS
    <3> QED BY <2>2, <3>1, CallerIsNow
  <2>4. CallerSound(x) BY <1>1, <1>2, <2>1, <2>3 DEF CallerSound
  <2>5. caller' = [caller EXCEPT ![p] = x] BY <2>1, <2>2 DEF BillInvariant, BillTypeOK
  <2> QED BY <1>1, <1>2, <1>3, <2>1, <2>3, <2>4, <2>5, OneCaller
<1>4. CASE /\ KeyHeld /\ UNCHANGED idemKey /\ idemKey.state = "in flight"
           /\ caller' = [caller EXCEPT ![p].at = IF caller[p].attempt = ConflictAttempts THEN "raised" ELSE @,
                                       ![p].attempt = IF @ = ConflictAttempts THEN @ ELSE @ + 1]
  <2>1. PICK attempt \in Nat : attempt = caller[p].attempt BY <1>2 DEF CallerRecord
  <2>2. PICK at \in {"create", "raised"}, next \in Nat :
          /\ at = IF attempt = ConflictAttempts THEN "raised" ELSE "create"
          /\ next = IF attempt = ConflictAttempts THEN attempt ELSE attempt + 1
    OBVIOUS
  <2>3. PICK x : x = [caller[p] EXCEPT !.at = at, !.attempt = next] OBVIOUS
  <2>4. x \in CallerRecord /\ x.at = at /\ x.since = caller[p].since BY <1>2, <2>3 DEF CallerRecord
  <2>5. caller' = [caller EXCEPT ![p] = x]
    BY <1>1, <1>4, <2>1, <2>2, <2>3 DEF BillInvariant, BillTypeOK
  <2>6. CallerSound(x) BY <1>1, <1>2, <2>2, <2>4 DEF CallerSound
  <2> QED BY <1>1, <1>2, <1>4, <2>2, <2>4, <2>5, <2>6, OneCaller
<1>5. CASE /\ KeyHeld /\ UNCHANGED idemKey /\ idemKey.state = "done" /\ AnswerCaller(p, idemKey.id)
  <2>0. PICK shown \in BOOLEAN : idemKey.id = 1 /\ customers = {[id |-> 1, indexed |-> shown]}
    BY <1>5 DEF BillInvariant, CustomerSound
  <2>1. idemKey.id = 1 /\ HasFirst BY <2>0 DEF HasFirst
  <2> QED BY <1>1, <1>5, <2>1, AnswerKeeps
<1>6. CASE /\ ~KeyHeld
           /\ idemKey' = [state |-> "in flight", at |-> billNow, email |-> caller[p].email, id |-> 0]
           /\ caller' = [caller EXCEPT ![p].at = "sent"]
  <2>1. idemKey.state = "none" BY <1>1, <1>6, TheKeyIsHeld
  <2>2. customers = {} BY <1>2, <2>1 DEF BillInvariant, CustomerSound
  <2>3. PICK x : x = [caller[p] EXCEPT !.at = "sent"] OBVIOUS
  <2>4. x \in CallerRecord /\ x.at = "sent" /\ x.since = caller[p].since BY <2>3, CallerIsNow
  <2>5. caller' = [caller EXCEPT ![p] = x] BY <1>6, <2>3 DEF BillInvariant, BillTypeOK
  <2>6. /\ caller' \in [Callers -> CallerRecord] /\ caller'[p] = x
        /\ \A q \in Callers \ {p} : caller'[q] = caller[q]
    BY <2>4, <2>5 DEF BillInvariant, BillTypeOK
  <2>0. billNow \in Nat BY DEF BillInvariant, BillTypeOK
  <2>7. caller[p].email \in Emails \cup {""} BY <1>2 DEF CallerRecord
  <2>8. /\ idemKey' \in KeyRecord /\ idemKey'.state = "in flight" /\ idemKey'.at = billNow
    BY <1>6, <2>0, <2>7 DEF KeyRecord
  <2>9. BillTypeOK' BY <1>1, <2>6, <2>8 DEF BillInvariant, BillTypeOK
  <2>10. \A q \in Callers : CallerSound(caller[q]) /\ caller[q].at # "sent"
    BY <2>1 DEF BillInvariant, CallerSound
  <2>11. CustomerSound'
    <3>1. billNow <= billNow BY <2>0
    <3>2. storedId' # 0 => HasFirst' BY <1>1, <1>2 DEF HasFirst
    <3> QED BY <1>1, <2>2, <2>4, <2>6, <2>8, <2>10, <3>1, <3>2 DEF CustomerSound
  <2>12. ASSUME NEW q \in Callers PROVE CallerSound(caller[q])'
    <3>1. caller'[q].since = caller[q].since /\ caller'[q] \in CallerRecord
          /\ (caller'[q].at = "sent" \/ caller'[q] = caller[q])
          /\ (caller'[q].at = "sent" => caller[q].at = "create")
      BY <1>1, <2>4, <2>6, <2>10
    <3>2. PICK since \in Nat : since = caller'[q].since BY <3>1 DEF CallerRecord
    <3>3. since <= billNow BY <2>10, <3>1, <3>2 DEF CallerSound
    <3>4. SoonAfterTheKey(since)'
      <4>1. since <= billNow + CallLimit BY <2>0, <3>3, BillTimes
      <4> QED BY <2>8, <4>1 DEF SoonAfterTheKey
    <3>5. ~OldOwner' BY <2>8 DEF OldOwner
    <3> QED BY <1>1, <2>8, <2>10, <3>1, <3>2, <3>3, <3>4, <3>5 DEF CallerSound, HasFirst
  <2>13. CascadeSound' BY <1>1 DEF BillInvariant, CascadeSound, SubSound, Covered
  <2> QED BY <2>9, <2>11, <2>12, <2>13 DEF BillInvariant
<1> QED BY <1>1, <1>3, <1>4, <1>5, <1>6, Zenon DEF SendCreate

\* Stripe makes the customer: it is the owner's first, and soon after the key.
LEMMA CreateCompletesKeeps ==
    ASSUME BillInvariant, NEW p \in Callers, NEW lost \in BOOLEAN, CreateCompletes(p, lost)
    PROVE  BillInvariant'
<1>1. caller[p].at = "sent" /\ UNCHANGED <<billNow, storedId, subs, cascade>> BY DEF CreateCompletes
<1>2. CallerSound(caller[p]) /\ caller[p] \in CallerRecord BY CallerAdvances
<1>3. idemKey.state = "in flight" BY <1>1, <1>2 DEF CallerSound
<1>4. /\ customers = {} /\ \A q \in Callers : caller[q].at = "sent" => q = p
  BY <1>1, <1>3 DEF BillInvariant, CustomerSound
<1>5. Cardinality(customers) + 1 = 1 BY <1>4, FS_EmptySet
<1>6. /\ customers' = {[id |-> 1, indexed |-> FALSE]}
      /\ idemKey' = [idemKey EXCEPT !.state = "done", !.id = 1]
      /\ IF lost THEN caller' = [caller EXCEPT ![p].at = "raised"] ELSE AnswerCaller(p, 1)
  BY <1>4, <1>5 DEF CreateCompletes
<1>7. PICK x : /\ x = IF lost THEN [caller[p] EXCEPT !.at = "raised"]
                      ELSE [caller[p] EXCEPT !.at = "answered", !.answer = 1]
  OBVIOUS
<1>8. x \in CallerRecord /\ x.since = caller[p].since /\ x.at \in {"raised", "answered"} /\ (x.at = "answered" => x.answer = 1)
  <2>1. CASE lost BY <1>7, <2>1, CallerIsNow
  <2>2. CASE ~lost BY <1>7, <2>2, CallerAdvances
  <2> QED BY <2>1, <2>2
<1>9. caller' = [caller EXCEPT ![p] = x] BY <1>6, <1>7 DEF AnswerCaller, BillInvariant, BillTypeOK
<1>10. /\ caller' \in [Callers -> CallerRecord] /\ caller'[p] = x
       /\ \A q \in Callers \ {p} : caller'[q] = caller[q]
  BY <1>8, <1>9 DEF BillInvariant, BillTypeOK
<1>11. /\ idemKey' \in KeyRecord /\ idemKey'.state = "done" /\ idemKey'.at = idemKey.at /\ idemKey'.id = 1
  <2>1. 1 \in Nat OBVIOUS
  <2> QED BY <1>6, <2>1 DEF BillInvariant, BillTypeOK, KeyRecord
<1>12. BillTypeOK' BY <1>1, <1>10, <1>11 DEF BillInvariant, BillTypeOK
<1>0. HasFirst' BY <1>6 DEF HasFirst
<1>13. CustomerSound'
  <2>1. SoonAfterTheKey(billNow) BY <1>3, MakingIsSoon
  <2>2. SoonAfterTheKey(billNow)' BY <1>1, <1>11, <2>1 DEF SoonAfterTheKey
  <2>3. FALSE \in BOOLEAN /\ customers' = {[id |-> 1, indexed |-> FALSE]} BY <1>6
  <2> QED BY <1>0, <1>1, <1>11, <2>2, <2>3 DEF BillInvariant, CustomerSound
<1>14. ASSUME NEW q \in Callers PROVE CallerSound(caller[q])'
  <2>1. ~OldOwner' BY <1>11 DEF OldOwner
  <2>2. CASE q = p BY <1>0, <1>1, <1>2, <1>8, <1>10, <2>2 DEF CallerSound
  <2>3. CASE q # p
    <3>1. caller'[q] = caller[q] /\ CallerSound(caller[q]) /\ caller[q].at # "sent" BY <1>4, <1>10, <2>3 DEF BillInvariant
    <3>2. caller[q].at = "create" => SoonAfterTheKey(caller[q].since) BY <1>3, <3>1 DEF CallerSound
    <3> QED BY <1>0, <1>1, <1>11, <2>1, <3>1, <3>2 DEF CallerSound, SoonAfterTheKey
  <2> QED BY <2>2, <2>3
<1>15. CascadeSound' BY <1>1, <1>4 DEF BillInvariant, CascadeSound, SubSound, Covered
<1> QED BY <1>12, <1>13, <1>14, <1>15 DEF BillInvariant

LEMMA Indexed ==
    ASSUME NEW c, NEW shown \in BOOLEAN, c = [id |-> 1, indexed |-> shown]
    PROVE  [c EXCEPT !.indexed = TRUE] = [id |-> 1, indexed |-> TRUE]
<1>1. c \in [id : {1}, indexed : BOOLEAN] OBVIOUS
<1>2. PICK d : d = [c EXCEPT !.indexed = TRUE] OBVIOUS
<1>3. d \in [id : {1}, indexed : BOOLEAN] /\ d.indexed = TRUE BY <1>1, <1>2
<1> QED BY <1>2, <1>3

LEMMA IndexCustomerKeeps ==
    ASSUME BillInvariant, NEW c \in customers, IndexCustomer(c)
    PROVE  BillInvariant'
<1>1. /\ ~c.indexed /\ customers' = (customers \ {c}) \cup {[c EXCEPT !.indexed = TRUE]}
      /\ UNCHANGED <<billNow, idemKey, caller, storedId, subs, cascade>>
  BY DEF IndexCustomer
<1>2. idemKey.state = "done"
  <2>1. idemKey.state = "none" => customers = {} \/ OldOwner BY DEF BillInvariant, CustomerSound
  <2>2. ~OldOwner
    <3>1. SUFFICES ASSUME NEW n, customers = [id : 1 .. n, indexed : {TRUE}] PROVE FALSE BY DEF OldOwner
    <3> QED BY <1>1, <3>1
  <2>3. idemKey.state = "in flight" => customers = {} BY DEF BillInvariant, CustomerSound
  <2> QED BY <2>1, <2>2, <2>3 DEF BillInvariant, BillTypeOK, KeyRecord
<1>3. PICK shown \in BOOLEAN : customers = {[id |-> 1, indexed |-> shown]} /\ (shown \/ SoonAfterTheKey(billNow))
  BY <1>2 DEF BillInvariant, CustomerSound
<1>4. customers' = {[id |-> 1, indexed |-> TRUE]}
  <2>1. c = [id |-> 1, indexed |-> shown] BY <1>3
  <2>2. [c EXCEPT !.indexed = TRUE] = [id |-> 1, indexed |-> TRUE] BY <2>1, Indexed
  <2>3. customers \ {c} = {} BY <1>3, <2>1
  <2> QED BY <1>1, <2>2, <2>3
<1>5. BillTypeOK' BY <1>1 DEF BillInvariant, BillTypeOK
<1>0. HasFirst' BY <1>4 DEF HasFirst
<1>6. CustomerSound'
  <2>1. TRUE \in BOOLEAN OBVIOUS
  <2> QED BY <1>0, <1>1, <1>2, <1>4, <2>1 DEF BillInvariant, CustomerSound
<1>7. ASSUME NEW q \in Callers PROVE CallerSound(caller[q])'
  <2>1. CallerSound(caller[q]) BY DEF BillInvariant
  <2>2. ~OldOwner' BY <1>1, <1>2 DEF OldOwner
  <2>3. caller'[q] = caller[q] BY <1>1
  <2> QED BY <1>0, <1>1, <2>1, <2>2, <2>3 DEF CallerSound, SoonAfterTheKey
<1>8. CascadeSound'
  <2>1. UNCHANGED <<subs, cascade>> /\ CascadeSound BY <1>1 DEF BillInvariant
  <2>2. ASSUME NEW d \in customers PROVE d.id = 1 BY <1>3
  <2>3. PICK e : e = [id |-> 1, indexed |-> TRUE] OBVIOUS
  <2>4. e \in customers' /\ e.id = 1 BY <1>4, <2>3
  <2>5. ASSUME NEW s \in Subscriptions PROVE SubSound(s)'
    <3> QED BY <2>1, <2>2, <2>4 DEF CascadeSound, SubSound
  <2> QED BY <2>1, <2>5 DEF CascadeSound, Covered
<1> QED BY <1>5, <1>6, <1>7, <1>8 DEF BillInvariant

\* A step of the cascade, or of the subscriptions: the customer does not move.
LEMMA CustomerStays ==
    ASSUME BillInvariant, UNCHANGED <<billNow, customers, idemKey, caller, storedId>>
    PROVE  CustomerSound' /\ \A q \in Callers : CallerSound(caller[q])'
<1>1. CustomerSound' BY DEF BillInvariant, CustomerSound, OldOwner, SoonAfterTheKey, HasFirst
<1>2. ASSUME NEW q \in Callers PROVE CallerSound(caller[q])'
  <2>1. CallerSound(caller[q]) BY DEF BillInvariant
  <2> QED BY <2>1 DEF CallerSound, OldOwner, SoonAfterTheKey, HasFirst
<1> QED BY <1>1, <1>2

LEMMA EndOne ==
    ASSUME BillInvariant, NEW s \in Subscriptions, subs' = [subs EXCEPT ![s].state = "ended"]
    PROVE  /\ subs' \in [Subscriptions -> SubRecord]
           /\ subs'[s].state = "ended" /\ subs'[s].of = subs[s].of
           /\ \A t \in Subscriptions \ {s} : subs'[t] = subs[t]
<1>1. PICK r : r = [subs[s] EXCEPT !.state = "ended"] OBVIOUS
<1>2. r \in SubRecord /\ r.state = "ended" /\ r.of = subs[s].of BY <1>1 DEF BillInvariant, BillTypeOK, SubRecord
<1>3. subs' = [subs EXCEPT ![s] = r] BY <1>1 DEF BillInvariant, BillTypeOK
<1> QED BY <1>2, <1>3 DEF BillInvariant, BillTypeOK

\* A checkout is of the owner's first customer, and of no subscription the cascade saw.
LEMMA SubscriptionsKeep ==
    ASSUME BillInvariant, NEW s \in Subscriptions, SubscriptionEnds(s) \/ \E p \in Callers : Checkout(p, s)
    PROVE  BillInvariant'
<1>1. UNCHANGED <<billNow, customers, idemKey, caller, storedId, cascade>> BY DEF SubscriptionEnds, Checkout
<1>2. CustomerSound' /\ \A q \in Callers : CallerSound(caller[q])' BY <1>1, CustomerStays
<1>3. CASE SubscriptionEnds(s)
  <2>1. subs[s].state = "live" /\ subs' = [subs EXCEPT ![s].state = "ended"] BY <1>3 DEF SubscriptionEnds
  <2>2. CascadeSound' BY <1>1, <2>1, EndOne DEF BillInvariant, BillTypeOK, CascadeSound, CascadeRecord, SubSound, Covered
  <2> QED BY <1>1, <1>2, <2>1, <2>2, EndOne DEF BillInvariant, BillTypeOK
<1>4. ASSUME NEW p \in Callers, Checkout(p, s) PROVE BillInvariant'
  <2>1. /\ caller[p].at = "stored" /\ subs[s].state = "none"
        /\ subs' = [subs EXCEPT ![s] = [state |-> "live", of |-> caller[p].answer]]
    BY <1>4 DEF Checkout, Unbilled
  <2>2. caller[p].answer = 1 /\ HasFirst BY <2>1 DEF BillInvariant, CallerSound
  <2>3. [state |-> "live", of |-> 1] \in SubRecord
    <3>1. 1 \in Nat OBVIOUS
    <3> QED BY <3>1 DEF SubRecord
  <2>4. /\ subs' \in [Subscriptions -> SubRecord] /\ subs'[s] = [state |-> "live", of |-> 1]
        /\ \A t \in Subscriptions \ {s} : subs'[t] = subs[t]
    BY <2>1, <2>2, <2>3 DEF BillInvariant, BillTypeOK
  <2>5. s \notin cascade.live \cup cascade.todo BY <2>1 DEF BillInvariant, CascadeSound
  <2>6. CascadeSound'
    BY <1>1, <2>2, <2>4, <2>5 DEF BillInvariant, BillTypeOK, CascadeSound, CascadeRecord, SubSound, Covered, HasFirst
  <2> QED BY <1>1, <1>2, <2>4, <2>6 DEF BillInvariant, BillTypeOK
<1> QED BY <1>3, <1>4

\* The cascade moves, and at most ends a subscription.
LEMMA CascadeMoves ==
    ASSUME BillInvariant, UNCHANGED <<billNow, customers, idemKey, caller, storedId>>,
           subs' \in [Subscriptions -> SubRecord], cascade' \in CascadeRecord, CascadeSound'
    PROVE  BillInvariant'
BY CustomerStays DEF BillInvariant, BillTypeOK

\* Search that is current shows every customer of the owner.
LEMMA SearchFinds ==
    ASSUME BillInvariant
    PROVE  /\ FindCustomerIds \subseteq Nat
           /\ SearchIsCurrent => \A c \in customers : c.id \in FindCustomerIds
<1>1. \A i : i \in FindCustomerIds <=> \E c \in customers : c.indexed /\ c.id = i BY DEF FindCustomerIds
<1>2. CASE OldOwner
  <2>1. PICK n \in Nat : customers = [id : 1 .. n, indexed : {TRUE}] BY <1>2, TheKeyOutlivesTheLag DEF OldOwner
  <2>2. ASSUME NEW c \in customers PROVE c.indexed /\ c.id \in Nat
    <3>1. c.id \in 1 .. n /\ c.indexed \in {TRUE} BY <2>1
    <3>2. 1 .. n \subseteq Nat OBVIOUS
    <3> QED BY <3>1, <3>2
  <2> QED BY <1>1, <2>2
<1>3. CASE idemKey.state = "done"
  <2>1. PICK shown \in BOOLEAN : customers = {[id |-> 1, indexed |-> shown]} /\ (shown \/ SoonAfterTheKey(billNow))
    BY <1>3 DEF BillInvariant, CustomerSound
  <2>2. PICK at \in Nat : at = idemKey.at BY DEF BillInvariant, BillTypeOK, KeyRecord
  <2>3. SearchIsCurrent => ~SoonAfterTheKey(billNow)
    <3>1. billNow \in Nat BY DEF BillInvariant, BillTypeOK
    <3> QED BY <1>3, <2>2, <3>1, BillTimes DEF SearchIsCurrent, SoonAfterTheKey
  <2>4. \A c \in customers : c.id = 1 /\ c.indexed = shown BY <2>1
  <2> QED BY <1>1, <2>1, <2>3, <2>4
<1>4. CASE customers = {} BY <1>1, <1>4
<1> QED BY <1>2, <1>3, <1>4 DEF BillInvariant, BillTypeOK, CustomerSound, KeyRecord

LEMMA NextIs ==
    ASSUME NEW ids, NEW todo
    PROVE  /\ NextAt(ids, todo) \in {"listing", "cancelling", "done"}
           /\ NextAt(ids, todo) = "done" => ids = {} /\ todo = {}
           /\ NextAt(ids, todo) = "listing" => ids # {} /\ todo = {}
BY DEF NextAt

LEMMA CascadeStarts ==
    ASSUME BillInvariant, CancelOwnerSubscriptions
    PROVE  BillInvariant'
<1>1. PICK at \in {"listing", "done"} : at = IF FindCustomerIds = {} THEN "done" ELSE "listing" OBVIOUS
<1>2. PICK live \in SUBSET Subscriptions : live = {s \in Subscriptions : subs[s].state = "live"} OBVIOUS
<1>3. PICK indexed \in BOOLEAN : indexed = SearchIsCurrent BY DEF SearchIsCurrent
<1>4. /\ cascade' = [at |-> at, ids |-> FindCustomerIds, todo |-> {}, live |-> live, settled |-> indexed]
      /\ UNCHANGED <<billNow, customers, idemKey, caller, storedId, subs>>
  BY <1>1, <1>2, <1>3 DEF CancelOwnerSubscriptions
<1>5. cascade' \in CascadeRecord BY <1>4, SearchFinds DEF CascadeRecord
<1>6. indexed => \A s \in live : subs[s].of \in FindCustomerIds
  BY <1>2, <1>3, SearchFinds DEF BillInvariant, CascadeSound, SubSound
<1>7. CascadeSound' BY <1>1, <1>2, <1>4, <1>6 DEF BillInvariant, CascadeSound, SubSound, Covered
<1> QED BY <1>4, <1>5, <1>7, CascadeMoves DEF BillInvariant, BillTypeOK

LEMMA ListingKeeps ==
    ASSUME BillInvariant, ListSubscriptions
    PROVE  BillInvariant'
<1>1. PICK id : id = Oldest(cascade.ids) OBVIOUS
<1>2. PICK due \in SUBSET Subscriptions : due = {s \in Subscriptions : subs[s].state = "live" /\ subs[s].of = id} OBVIOUS
<1>3. PICK ids : ids = cascade.ids \ {id} OBVIOUS
<1>4. PICK at \in {"listing", "cancelling", "done"} :
        at = NextAt(ids, due) /\ (at = "done" => ids = {} /\ due = {}) /\ (at = "listing" => ids # {} /\ due = {})
  BY NextIs
<1>5. /\ cascade' = [cascade EXCEPT !.ids = ids, !.todo = due, !.at = at] /\ cascade.at = "listing"
      /\ UNCHANGED <<billNow, customers, idemKey, caller, storedId, subs>>
  BY <1>1, <1>2, <1>3, <1>4 DEF ListSubscriptions
<1>6. cascade \in CascadeRecord /\ cascade.todo = {} BY <1>5 DEF BillInvariant, BillTypeOK, CascadeSound
<1>7. /\ cascade' \in CascadeRecord /\ cascade'.at = at /\ cascade'.ids = ids /\ cascade'.todo = due
      /\ cascade'.live = cascade.live /\ cascade'.settled = cascade.settled
  BY <1>3, <1>5, <1>6 DEF CascadeRecord
<1>8. ASSUME NEW s \in cascade.live, Covered(s) PROVE Covered(s)'
  <2>1. s \in Subscriptions /\ subs[s].state \in {"live", "ended"}
    BY <1>6 DEF BillInvariant, BillTypeOK, CascadeSound, CascadeRecord, SubRecord
  <2> QED BY <1>2, <1>3, <1>5, <1>6, <1>7, <1>8, <2>1 DEF Covered
<1>10. \A s \in cascade.live \cup due : subs[s].state # "none" BY <1>2 DEF BillInvariant, CascadeSound
<1>11. \A s \in Subscriptions : SubSound(s)' BY <1>5 DEF BillInvariant, CascadeSound, SubSound
<1>9. CascadeSound' BY <1>4, <1>5, <1>7, <1>8, <1>10, <1>11 DEF BillInvariant, CascadeSound
<1> QED BY <1>5, <1>7, <1>9, CascadeMoves DEF BillInvariant, BillTypeOK

LEMMA CancellingKeeps ==
    ASSUME BillInvariant, NEW s \in Subscriptions, CancelListed(s)
    PROVE  BillInvariant'
<1>1. PICK todo : todo = cascade.todo \ {s} OBVIOUS
<1>2. PICK at \in {"listing", "cancelling", "done"} :
        /\ at = NextAt(cascade.ids, todo) /\ (at = "done" => cascade.ids = {} /\ todo = {})
        /\ at = "listing" => cascade.ids # {} /\ todo = {}
  BY NextIs
<1>3. /\ cascade' = [cascade EXCEPT !.todo = todo, !.at = at] /\ subs' = [subs EXCEPT ![s].state = "ended"]
      /\ UNCHANGED <<billNow, customers, idemKey, caller, storedId>>
  BY <1>1, <1>2 DEF CancelListed
<1>4. cascade \in CascadeRecord BY DEF BillInvariant, BillTypeOK
<1>5. /\ cascade' \in CascadeRecord /\ cascade'.at = at /\ cascade'.ids = cascade.ids /\ cascade'.todo = todo
      /\ cascade'.live = cascade.live /\ cascade'.settled = cascade.settled
  BY <1>1, <1>3, <1>4 DEF CascadeRecord
<1>6. ASSUME NEW t \in Subscriptions PROVE (Covered(t) => Covered(t)') /\ (SubSound(t) => SubSound(t)')
  <2>1. t = s => subs'[t].state = "ended" /\ subs'[t].of = subs[t].of BY <1>3, EndOne
  <2>2. t # s => subs'[t] = subs[t] /\ (t \in todo <=> t \in cascade.todo) BY <1>1, <1>3, EndOne
  <2>3. t = s => subs[t].state # "none"
    <3>1. s \in cascade.todo BY DEF CancelListed
    <3> QED BY <3>1 DEF BillInvariant, CascadeSound
  <2>4. CASE t = s
    <3>1. subs'[t].state = "ended" /\ subs'[t].of = subs[t].of /\ subs[t].state # "none" BY <2>1, <2>3, <2>4
    <3> QED BY <1>3, <3>1 DEF Covered, SubSound
  <2>5. CASE t # s
    <3>1. subs'[t] = subs[t] /\ (t \in cascade'.todo <=> t \in cascade.todo) /\ cascade'.ids = cascade.ids
      BY <1>5, <2>2, <2>5
    <3> QED BY <1>3, <3>1 DEF Covered, SubSound
  <2> QED BY <2>4, <2>5
<1>7. \A t \in Subscriptions : subs[t].state # "none" => subs'[t].state # "none" BY <1>3, EndOne
<1>9. cascade.live \subseteq Subscriptions /\ cascade.todo \subseteq Subscriptions BY <1>4 DEF CascadeRecord
<1>10. \A t \in cascade.live \cup todo : subs'[t].state # "none" BY <1>1, <1>7, <1>9 DEF BillInvariant, CascadeSound
<1>11. cascade.settled => \A t \in cascade.live : Covered(t)' BY <1>6, <1>9 DEF BillInvariant, CascadeSound
<1>12. \A t \in Subscriptions : SubSound(t)' BY <1>6 DEF BillInvariant, CascadeSound
<1>8. CascadeSound' BY <1>2, <1>5, <1>10, <1>11, <1>12 DEF CascadeSound
<1> QED BY <1>3, <1>5, <1>8, EndOne, CascadeMoves

LEMMA CascadeStops ==
    ASSUME BillInvariant, CascadeFails \/ RetryCascade
    PROVE  BillInvariant'
<1>1. UNCHANGED <<billNow, customers, idemKey, caller, storedId, subs>> BY DEF CascadeFails, RetryCascade
<1>2. CASE RetryCascade
  <2>1. cascade' \in CascadeRecord /\ CascadeSound'
    BY <1>1, <1>2 DEF RetryCascade, NoCascade, CascadeRecord, BillInvariant, CascadeSound, SubSound
  <2> QED BY <1>1, <2>1, CascadeMoves DEF BillInvariant, BillTypeOK
<1>3. CASE CascadeFails
  <2>1. cascade' = [cascade EXCEPT !.at = "raised"] BY <1>3 DEF CascadeFails
  <2>2. /\ cascade' \in CascadeRecord /\ cascade'.at = "raised" /\ cascade'.ids = cascade.ids /\ cascade'.todo = cascade.todo
        /\ cascade'.live = cascade.live /\ cascade'.settled = cascade.settled
    BY <2>1 DEF BillInvariant, BillTypeOK, CascadeRecord
  <2>3. CascadeSound' BY <1>1, <2>2 DEF BillInvariant, CascadeSound, SubSound, Covered
  <2> QED BY <1>1, <2>2, <2>3, CascadeMoves DEF BillInvariant, BillTypeOK
<1> QED BY <1>2, <1>3

LEMMA OneLater == \A n, a, c \in Nat : n + 1 \in Nat /\ n <= n + 1 /\ (n < a + c => n + 1 <= a + c) /\ (a <= n => a <= n + 1)
OBVIOUS

LEMMA BillTickKeeps ==
    ASSUME BillInvariant, BillTick
    PROVE  BillInvariant'
<1>1. /\ billNow' = billNow + 1 /\ UNCHANGED <<customers, idemKey, storedId, subs, cascade>>
      /\ \A c \in customers : ~c.indexed => billNow < idemKey.at + IndexLag
      /\ \A p \in Callers : Busy(p) => billNow < caller[p].since + CallLimit
  BY DEF BillTick
<1>2. /\ billNow \in Nat /\ IndexLag \in Nat /\ CallLimit \in Nat
  BY BillTimes DEF BillInvariant, BillTypeOK
<1>3. billNow' \in Nat BY <1>1, <1>2, OneLater
<1>4. /\ caller' \in [Callers -> CallerRecord]
      /\ \A q \in Callers : \/ caller'[q] = IdleCaller
                            \/ caller'[q] = caller[q]
      /\ \A q \in Callers : caller[q].at = "sent" <=> caller'[q].at = "sent"
  BY IdleCallerTyped DEF BillTick, BillInvariant, BillTypeOK
<1>5. BillTypeOK' BY <1>1, <1>3, <1>4 DEF BillInvariant, BillTypeOK
<1>6. PICK at \in Nat : at = idemKey.at BY DEF BillInvariant, BillTypeOK, KeyRecord
<1>7. CustomerSound'
  <2>1. at <= billNow' BY <1>1, <1>2, <1>6, OneLater DEF BillInvariant, CustomerSound
  <2>2. idemKey.state = "none" => idemKey = NoKey /\ (customers = {} \/ OldOwner) BY DEF BillInvariant, CustomerSound
  <2>3. OldOwner' <=> OldOwner BY <1>1 DEF OldOwner
  <2>4. idemKey.state = "in flight" =>
          customers = {} /\ \E p \in Callers : caller'[p].at = "sent" /\ \A q \in Callers : caller'[q].at = "sent" => q = p
    BY <1>4 DEF BillInvariant, CustomerSound
  <2>5. ASSUME idemKey.state = "done"
        PROVE  /\ idemKey.id = 1
               /\ \E shown \in BOOLEAN :
                    customers = {[id |-> 1, indexed |-> shown]} /\ (shown \/ billNow' <= at + IndexLag)
    <3>1. PICK shown \in BOOLEAN : customers = {[id |-> 1, indexed |-> shown]} /\ idemKey.id = 1
      BY <2>5 DEF BillInvariant, CustomerSound
    <3>2. [id |-> 1, indexed |-> shown] \in customers /\ [id |-> 1, indexed |-> shown].indexed = shown BY <3>1
    <3>3. ~shown => billNow < at + IndexLag BY <1>1, <1>6, <3>2
    <3>4. ~shown => billNow' <= at + IndexLag BY <1>1, <1>2, <1>6, <3>3, OneLater
    <3> QED BY <3>1, <3>4
  <2>6. storedId' # 0 => HasFirst' BY <1>1 DEF BillInvariant, CustomerSound, HasFirst
  <2> QED BY <1>1, <1>6, <2>1, <2>2, <2>3, <2>4, <2>5, <2>6 DEF CustomerSound, SoonAfterTheKey
<1>8. ASSUME NEW q \in Callers PROVE CallerSound(caller[q])'
  <2>1. OldOwner' <=> OldOwner BY <1>1 DEF OldOwner
  <2>2. CASE caller'[q] = IdleCaller
    <3>1. 0 <= billNow' BY <1>3
    <3> QED BY <2>2, <3>1, IdleCallerTyped DEF CallerSound
  <2>3. CASE caller'[q] = caller[q]
    <3>1. PICK since \in Nat : since = caller[q].since BY DEF BillInvariant, BillTypeOK, CallerRecord
    <3>2. CallerSound(caller[q]) BY DEF BillInvariant
    <3>3. since <= billNow' BY <1>1, <1>2, <3>1, <3>2, OneLater DEF CallerSound
    <3>4. caller[q].at \in {"search", "create", "sent", "search again"} => billNow' <= since + CallLimit
      <4>1. Busy(q) => billNow < since + CallLimit BY <1>1, <3>1
      <4>2. Busy(q) => billNow' <= since + CallLimit BY <1>1, <1>2, <4>1, OneLater
      <4> QED BY <4>2 DEF Busy
    <3> QED BY <1>1, <2>1, <2>3, <3>1, <3>2, <3>3, <3>4 DEF CallerSound, SoonAfterTheKey, HasFirst
  <2> QED BY <1>4, <2>2, <2>3
<1>9. CascadeSound' BY <1>1 DEF BillInvariant, CascadeSound, SubSound, Covered
<1> QED BY <1>5, <1>7, <1>8, <1>9 DEF BillInvariant

LEMMA BillStarts == BillInit => BillInvariant
<1> SUFFICES ASSUME BillInit PROVE BillInvariant OBVIOUS
<1>1. /\ billNow = 0 /\ idemKey = NoKey /\ caller = [p \in Callers |-> IdleCaller] /\ storedId = 0
      /\ subs \in [Subscriptions -> {Unbilled} \cup {[state |-> "live", of |-> c.id] : c \in customers}] /\ cascade = NoCascade
  BY DEF BillInit
<1>2. PICK n \in Legacy : customers = [id : 1 .. n, indexed : {TRUE}] BY DEF BillInit
<1>3. n \in Nat BY TheKeyOutlivesTheLag
<1>4. customers = {} \/ OldOwner
  <2>1. CASE n = 0
    <3>1. 1 .. n = {} BY <2>1
    <3> QED BY <1>2, <3>1
  <2>2. CASE n > 0 BY <1>1, <1>2, <2>2, NoKeyTyped DEF OldOwner
  <2> QED BY <1>3, <2>1, <2>2
<1>5. BillTypeOK
  <2>1. cascade \in CascadeRecord BY <1>1 DEF NoCascade, CascadeRecord
  <2>2. ASSUME NEW x \in {Unbilled} \cup {[state |-> "live", of |-> c.id] : c \in customers} PROVE x \in SubRecord
    <3>1. \A c \in customers : c.id \in Nat BY <1>2, <1>3
    <3>2. Unbilled \in SubRecord BY DEF Unbilled, SubRecord
    <3> QED BY <3>1, <3>2 DEF SubRecord
  <2> QED BY <1>1, <2>1, <2>2, NoKeyTyped, IdleCallerTyped DEF BillTypeOK
<1>6. 0 <= billNow BY <1>1
<1>7. CustomerSound BY <1>1, <1>4, <1>6, NoKeyTyped DEF CustomerSound
<1>8. \A p \in Callers : CallerSound(caller[p]) BY <1>1, <1>6, IdleCallerTyped DEF CallerSound
<1>9. CascadeSound BY <1>1 DEF CascadeSound, SubSound, NoCascade, Unbilled
<1> QED BY <1>5, <1>7, <1>8, <1>9 DEF BillInvariant

LEMMA BillKeeps == BillInvariant /\ [BillNext]_billVars => BillInvariant'
<1> SUFFICES ASSUME BillInvariant, [BillNext]_billVars PROVE BillInvariant' OBVIOUS
<1>1. ASSUME NEW p \in Callers,
             \/ \E email \in Emails : EnsureCustomer(p, email)
             \/ Search(p) \/ SendCreate(p) \/ StoreId(p)
             \/ \E lost \in BOOLEAN : CreateCompletes(p, lost)
             \/ \E s \in Subscriptions : Checkout(p, s)
      PROVE  BillInvariant'
  BY <1>1, EnsureCustomerKeeps, SearchKeeps, SendCreateKeeps, StoreIdKeeps, CreateCompletesKeeps, SubscriptionsKeep
<1>2. ASSUME NEW c \in customers, IndexCustomer(c) PROVE BillInvariant' BY <1>2, IndexCustomerKeeps
<1>3. ASSUME NEW s \in Subscriptions, SubscriptionEnds(s) \/ CancelListed(s) PROVE BillInvariant'
  BY <1>3, SubscriptionsKeep, CancellingKeeps
<1>4. CASE CancelOwnerSubscriptions \/ ListSubscriptions \/ CascadeFails \/ RetryCascade
  BY <1>4, CascadeStarts, ListingKeeps, CascadeStops
<1>5. CASE BillTick BY <1>5, BillTickKeeps
<1>6. CASE UNCHANGED billVars
  <2>1. UNCHANGED <<billNow, customers, idemKey, caller, storedId, subs, cascade>> BY <1>6 DEF billVars
  <2> QED BY <2>1, CustomerStays DEF BillInvariant, BillTypeOK, CascadeSound, SubSound, Covered
<1> QED BY <1>1, <1>2, <1>3, <1>4, <1>5, <1>6, Zenon DEF BillNext

\* However callers race, lose answers, come back later or send other parameters, and
\* whatever ends, is refused or is checked out while the cascade runs: the product makes
\* the owner at most one customer, and none when it has one, everybody is answered with
\* the oldest, and a cascade that returned left live none of the subscriptions that were
\* when it began, if search had caught up with the owner's customer by then.
THEOREM OneBillPerOwner == BillSpec => []OwnerIsBilledOnce
<1>1. ASSUME BillInvariant, Cardinality(customers) > 1 PROVE idemKey = NoKey
  <2>1. CASE idemKey.state = "none" BY <1>1, <2>1 DEF BillInvariant, CustomerSound
  <2>2. CASE idemKey.state = "in flight"
    <3>1. Cardinality(customers) = 0 BY <1>1, <2>2, FS_EmptySet DEF BillInvariant, CustomerSound
    <3> QED BY <1>1, <3>1
  <2>3. CASE idemKey.state = "done"
    <3>1. PICK shown \in BOOLEAN : customers = {[id |-> 1, indexed |-> shown]}
      BY <1>1, <2>3 DEF BillInvariant, CustomerSound
    <3>2. Cardinality(customers) = 1 BY <3>1, FS_Singleton
    <3> QED BY <1>1, <3>2
  <2> QED BY <1>1, <2>1, <2>2, <2>3 DEF BillInvariant, BillTypeOK, KeyRecord
<1>2. ASSUME BillInvariant PROVE OneCustomerPerOwner
  BY <1>1, <1>2 DEF BillInvariant, CallerSound, OneCustomerPerOwner
<1>3. ASSUME BillInvariant PROVE CascadeEndsWhatSearchShows
  BY <1>3 DEF BillInvariant, CascadeSound, Covered, CascadeEndsWhatSearchShows
<1>4. BillInvariant => OwnerIsBilledOnce BY <1>2, <1>3 DEF OwnerIsBilledOnce
<1> QED BY BillStarts, BillKeeps, <1>4, PTL DEF BillSpec
=============================================================================
