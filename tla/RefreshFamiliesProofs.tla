------------------------ MODULE RefreshFamiliesProofs ------------------------
(***************************************************************************)
(* Proofs about RefreshFamilies, for every set of tokens, families and     *)
(* requests, every lifetime and grace, and every choice of operations.     *)
(***************************************************************************)
EXTENDS RefreshFamilies, TLAPS

(* Constant-level facts.                                                   *)

\* The record an update of a missing key leaves is a row of the table.
LEMMA StubIsRow == Stub \in Row
<1> Never \in Int BY DEF Never
<1> 0 \in Time BY ParameterTypes DEF Time
<1> QED BY DEF Stub, Row

\* A worker with nothing to do is a request.
LEMMA IdleIsRequest == Idle \in Request
<1> 0 \in Time BY ParameterTypes DEF Time
<1> QED BY StubIsRow DEF Idle, Request, Stage

\* _mint writes a well-formed row whatever the instants and the lifetimes.
LEMMA GenerationIsRow ==
    ASSUME NEW f \in Family \cup {NoFamily}, NEW g \in Nat, NEW s \in Time,
           NEW m \in Time, NEW a \in Time
    PROVE  /\ Generation(f, g, s, m, a) \in Row
           /\ Generation(f, g, s, m, a).expires <= s + AbsoluteTTL
<1> s \in Nat /\ m \in Nat BY ParameterTypes DEF Time
<1> Earlier(m + RollingTTL, s + AbsoluteTTL) \in Nat
    BY ParameterTypes DEF Earlier
<1> Earlier(m + RollingTTL, s + AbsoluteTTL) <= s + AbsoluteTTL
    BY ParameterTypes DEF Earlier
<1> QED BY DEF Generation, Row

\* A request to revoke families, and what is left of a request after a write.
LEMMA RevokeFamiliesIsRequest ==
    ASSUME NEW F \in SUBSET (Family \cup {NoFamily}),
           NEW P \in SUBSET (Family \cup {NoFamily})
    PROVE  RevokeFamilies(F, P) \in Request
BY IdleIsRequest DEF RevokeFamilies, Request, Stage

\* What follows a sweep is a request again.
LEMMA ContinueIsRequest ==
    ASSUME NEW q \in Request, NEW S \in SUBSET Token
    PROVE  Continue(q, S) \in Request
<1>1. CASE S # {} BY <1>1 DEF Continue, Request, Stage
<1>2. CASE S = {} /\ q.fams # {} BY <1>2 DEF Continue, Request, Stage
<1>3. CASE S = {} /\ q.fams = {} BY <1>3, IdleIsRequest DEF Continue
<1> QED BY <1>1, <1>2, <1>3

-----------------------------------------------------------------------------
(* Types are preserved by the helpers the actions are made of.             *)

\* A row is written over one token.
LEMMA PutType ==
    ASSUME TypeOK, NEW t \in Token, NEW r \in Row, Put(t, r)
    PROVE  /\ rows' \subseteq Token /\ used' \subseteq Token /\ settled' \subseteq Token
           /\ row' \in [Token -> Row]
BY DEF TypeOK, Put, Unsettle

\* A row is deleted from one token.
LEMMA DeleteType ==
    ASSUME TypeOK, NEW t \in Token, Delete(t)
    PROVE  /\ rows' \subseteq Token /\ used' \subseteq Token /\ settled' \subseteq Token
           /\ row' \in [Token -> Row]
BY DEF TypeOK, Delete, Unsettle

\* A request moves on.
LEMMA BecomeType ==
    ASSUME TypeOK, NEW p \in Proc, NEW q \in Request, Become(p, q)
    PROVE  req' \in [Proc -> Request]
BY DEF TypeOK, Become

\* A request moves on to a sweep and its promises.
LEMMA ProceedType ==
    ASSUME TypeOK, NEW p \in Proc, NEW q \in Request, NEW S \in SUBSET Token, Proceed(p, q, S)
    PROVE  req' \in [Proc -> Request] /\ ended' \subseteq Family \cup {NoFamily}
<1>1. Continue(q, S) \in Request BY ContinueIsRequest
<1>2. req' \in [Proc -> Request] BY <1>1, BecomeType DEF Proceed
<1>3. q.promised \subseteq Family \cup {NoFamily} BY DEF Request
<1> QED BY <1>2, <1>3 DEF Proceed, TypeOK

\* An authentication is an instant.
LEMMA AuthTimeType == ASSUME TypeOK, NEW r \in Row PROVE AuthTime(r) \in Time
BY DEF TypeOK, AuthTime, Row

-----------------------------------------------------------------------------
(* Type correctness.                                                       *)

\* There are no rows and no requests.
LEMMA InitType == Init => TypeOK
<1> SUFFICES ASSUME Init PROVE TypeOK OBVIOUS
<1>1. now \in Time /\ 0 \in Time BY ParameterTypes DEF Init, Time
<1>2. row \in [Token -> Row] BY StubIsRow DEF Init
<1>3. req \in [Proc -> Request] BY IdleIsRequest DEF Init
<1>4. origin \in [Token -> Origin] BY <1>1 DEF Init, Origin, Unborn
<1>5. /\ login \in [Family -> Time \cup {Never}]
      /\ lastAuth \in [Family -> Time]
  BY <1>1 DEF Init
<1> QED BY <1>1, <1>2, <1>3, <1>4, <1>5 DEF Init, TypeOK

\* A login writes generation 1 of a family nobody has started.
LEMMA SignInType ==
    ASSUME TypeOK, NEW f \in Family, SignIn(f)
    PROVE  TypeOK'
<1> PICK t \in Token \ used :
        /\ Put(t, Generation(f, 1, now, now, now))
        /\ issued' = issued \cup {t}
        /\ origin' = [origin EXCEPT ![t] = [how |-> "login", parent |-> NoToken, at |-> now]]
    BY DEF SignIn
<1>1. now \in Time BY DEF TypeOK
<1>2. Generation(f, 1, now, now, now) \in Row BY <1>1, GenerationIsRow
<1>3. /\ rows' \subseteq Token /\ used' \subseteq Token /\ settled' \subseteq Token
      /\ row' \in [Token -> Row]
  BY <1>2, PutType
<1>4. issued' \subseteq Token \cup {NoToken} BY DEF TypeOK
<1>5. origin' \in [Token -> Origin] BY <1>1 DEF TypeOK, Origin
<1>6. /\ login' \in [Family -> Time \cup {Never}]
      /\ lastAuth' \in [Family -> Time]
  BY <1>1 DEF TypeOK, SignIn
<1> QED BY <1>3, <1>4, <1>5, <1>6 DEF TypeOK, SignIn

\* Each read of a rotation leaves a request holding a record of the table.
LEMMA RotateReadsType ==
    ASSUME TypeOK, NEW p \in Proc,
           RotateRead(p) \/ RotateRecheck(p) \/ RotateFollow(p) \/ Admit(p) \/ LogoutLookup(p)
    PROVE  TypeOK'
<1> DEFINE q == req[p]
<1>1. q \in Request BY DEF TypeOK
<1>2. CASE RotateRead(p)
  <2>1. q.tok \in rows => row[q.tok] \in Row BY DEF TypeOK
  <2>2. CASE Become(p, Idle)
    BY <2>2, <1>2, IdleIsRequest, BecomeType DEF RotateRead, TypeOK, table, history
  <2>3. CASE q.tok \in rows /\ Become(p, RevokeFamilies({row[q.tok].family}, {row[q.tok].family}))
    <3>1. row[q.tok].family \in Family \cup {NoFamily} BY <2>1, <2>3 DEF Row
    <3>2. req' \in [Proc -> Request] BY <3>1, <2>3, RevokeFamiliesIsRequest, BecomeType
    <3> QED BY <3>2, <1>2 DEF RotateRead, TypeOK, table, history
  <2>4. CASE q.tok \in rows /\ Become(p, [q EXCEPT !.at = "mint", !.seen = row[q.tok]])
    <3>1. [q EXCEPT !.at = "mint", !.seen = row[q.tok]] \in Request
      BY <1>1, <2>1, <2>4 DEF Request, Stage, Rotating
    <3>2. req' \in [Proc -> Request] BY <3>1, <2>4, BecomeType
    <3> QED BY <3>2, <1>2 DEF RotateRead, TypeOK, table, history
  <2> QED BY <1>2, <2>2, <2>3, <2>4 DEF RotateRead
<1>3. CASE RotateRecheck(p)
  <2>1. q.tok \in rows => row[q.tok] \in Row BY DEF TypeOK
  <2>2. CASE Become(p, Idle)
    BY <2>2, <1>3, IdleIsRequest, BecomeType DEF RotateRecheck, TypeOK, table, history
  <2>3. CASE q.tok \in rows /\ Become(p, RevokeFamilies({row[q.tok].family}, {row[q.tok].family}))
    <3>1. row[q.tok].family \in Family \cup {NoFamily} BY <2>1, <2>3 DEF Row
    <3>2. req' \in [Proc -> Request] BY <3>1, <2>3, RevokeFamiliesIsRequest, BecomeType
    <3> QED BY <3>2, <1>3 DEF RotateRecheck, TypeOK, table, history
  <2>4. CASE q.tok \in rows /\ Become(p, [q EXCEPT !.at = "follow", !.seen = row[q.tok]])
    <3>1. [q EXCEPT !.at = "follow", !.seen = row[q.tok]] \in Request
      BY <1>1, <2>1, <2>4 DEF Request, Stage, Rotating
    <3>2. req' \in [Proc -> Request] BY <3>1, <2>4, BecomeType
    <3> QED BY <3>2, <1>3 DEF RotateRecheck, TypeOK, table, history
  <2> QED BY <1>3, <2>2, <2>3, <2>4 DEF RotateRecheck
<1>4. CASE RotateFollow(p)
  <2> DEFINE s == q.seen.succ
  <2>1. q.seen \in Row BY <1>1 DEF Request
  <2>2. CASE s \in rows
    <3>1. row[s] \in Row BY <2>2 DEF TypeOK
    <3>2. row[s].gen \in Nat BY <3>1 DEF Row
    <3>3. Later(AuthTime(q.seen), AuthTime(row[s])) \in Time
      BY <2>1, <3>1, AuthTimeType DEF Later
    <3> DEFINE r == [q.seen EXCEPT !.gen = row[s].gen,
                                   !.auth = Later(AuthTime(q.seen), AuthTime(row[s]))]
    <3>4. r \in Row
      <4> HIDE DEF s
      <4> DEFINE a == Later(AuthTime(q.seen), AuthTime(row[s]))
      <4> HIDE DEF a
      <4>1. a \in Time BY <3>3 DEF a
      <4>2. [q.seen EXCEPT !.gen = row[s].gen, !.auth = a] \in Row
        BY <2>1, <3>2, <4>1 DEF Row
      <4> QED BY <4>2 DEF a
    <3>5. [q EXCEPT !.at = "replay", !.seen = r] \in Request
      <4> HIDE DEF r
      <4> QED BY <1>1, <3>4 DEF Request, Stage, Rotating
    <3>6. req' \in [Proc -> Request]
      BY <3>5, <2>2, <1>4, BecomeType DEF RotateFollow
    <3> QED BY <3>6, <1>4 DEF RotateFollow, TypeOK, table, history
  <2>3. CASE s \notin rows
    <3>1. q.seen.family \in Family \cup {NoFamily} BY <2>1 DEF Row
    <3>2. req' \in [Proc -> Request]
      BY <3>1, <2>3, <1>4, RevokeFamiliesIsRequest, BecomeType DEF RotateFollow
    <3> QED BY <3>2, <1>4 DEF RotateFollow, TypeOK, table, history
  <2> QED BY <2>2, <2>3
<1>5. CASE Admit(p)
  <2>1. q.seen.family \in Family \cup {NoFamily} BY <1>1 DEF Request, Row
  <2>2. req' \in [Proc -> Request]
    BY <1>5, <2>1, IdleIsRequest, RevokeFamiliesIsRequest, BecomeType DEF Admit
  <2>3. issued' \subseteq Token \cup {NoToken}
    BY <1>1, <1>5 DEF Admit, TypeOK, Request
  <2> QED BY <1>5, <2>2, <2>3 DEF Admit, TypeOK, table
<1>6. CASE LogoutLookup(p)
  <2>1. q.tok \in rows => row[q.tok].family \in Family \cup {NoFamily} BY DEF TypeOK, Row
  <2>2. req' \in [Proc -> Request]
    BY <1>6, <2>1, IdleIsRequest, RevokeFamiliesIsRequest, BecomeType DEF LogoutLookup
  <2> QED BY <1>6, <2>2 DEF LogoutLookup, TypeOK, table, history
<1> QED BY <1>2, <1>3, <1>4, <1>5, <1>6

\* A rotation's two ways of minting, and the conditional consume between them.
LEMMA RotateWritesType ==
    ASSUME TypeOK, NEW p \in Proc, RotateMint(p) \/ RotateReplay(p) \/ RotateConsume(p)
    PROVE  TypeOK'
<1> DEFINE q == req[p]
<1>1. q \in Request /\ q.seen \in Row /\ q.moment \in Time BY DEF TypeOK, Request
<1>2. /\ q.seen.family \in Family \cup {NoFamily} /\ q.seen.gen \in Nat
      /\ q.seen.started \in Time /\ q.seen.auth \in Time
  BY <1>1 DEF Row
<1>3. CASE RotateMint(p)
  <2> DEFINE r == Generation(q.seen.family, q.seen.gen + 1, q.seen.started,
                             q.moment, AuthTime(q.seen))
  <2>1. AuthTime(q.seen) \in Time /\ q.seen.gen + 1 \in Nat BY <1>1, <1>2, AuthTimeType
  <2>2. r \in Row
    <3> HIDE DEF q
    <3> QED BY <1>1, <1>2, <2>1, GenerationIsRow
  <2> HIDE DEF r
  <2>3. PICK t \in Token \ used :
           /\ Put(t, r)
           /\ origin' = [origin EXCEPT ![t] =
                            [how |-> "rotation", parent |-> q.tok, at |-> q.moment]]
           /\ Become(p, [q EXCEPT !.at = "consume", !.fresh = t])
    BY <1>3 DEF RotateMint, r
  <2>4. /\ rows' \subseteq Token /\ used' \subseteq Token /\ settled' \subseteq Token
        /\ row' \in [Token -> Row]
    BY <2>2, <2>3, PutType
  <2>5. origin' \in [Token -> Origin] BY <1>1, <2>3 DEF TypeOK, Origin, Request
  <2>6. [q EXCEPT !.at = "consume", !.fresh = t] \in Request
    BY <1>1 DEF Request, Stage, Rotating
  <2>7. req' \in [Proc -> Request] BY <2>3, <2>6, BecomeType
  <2> QED BY <1>3, <2>4, <2>5, <2>7 DEF RotateMint, TypeOK
<1>4. CASE RotateReplay(p)
  <2> DEFINE r == Generation(q.seen.family, q.seen.gen, q.seen.started, q.moment, q.seen.auth)
  <2>1. r \in Row BY <1>1, <1>2, GenerationIsRow
  <2> HIDE DEF r
  <2>2. PICK t \in Token \ used :
           /\ Put(t, r)
           /\ origin' = [origin EXCEPT ![t] =
                            [how |-> "replay", parent |-> q.tok, at |-> q.moment]]
           /\ Become(p, [q EXCEPT !.at = "admit", !.fresh = t])
    BY <1>4 DEF RotateReplay, r
  <2>3. /\ rows' \subseteq Token /\ used' \subseteq Token /\ settled' \subseteq Token
        /\ row' \in [Token -> Row]
    BY <2>1, <2>2, PutType
  <2>4. origin' \in [Token -> Origin] BY <1>1, <2>2 DEF TypeOK, Origin, Request
  <2>5. [q EXCEPT !.at = "admit", !.fresh = t] \in Request
    BY <1>1 DEF Request, Stage, Rotating
  <2>6. req' \in [Proc -> Request] BY <2>2, <2>5, BecomeType
  <2> QED BY <1>4, <2>3, <2>4, <2>6 DEF RotateReplay, TypeOK
<1>5. CASE RotateConsume(p)
  <2>1. q.fresh \in Token \cup {NoToken} BY <1>1 DEF Request
  <2>2. row' \in [Token -> Row]
    BY <1>1, <1>5, <2>1 DEF RotateConsume, TypeOK, Row
  <2>3. /\ [q EXCEPT !.at = "admit"] \in Request
        /\ [q EXCEPT !.at = "recheck"] \in Request
    BY <1>1 DEF Request, Stage, Rotating
  <2>4. req' \in [Proc -> Request] BY <1>5, <2>3, BecomeType DEF RotateConsume
  <2> QED BY <1>5, <2>2, <2>4 DEF RotateConsume, TypeOK, history
<1> QED BY <1>3, <1>4, <1>5

\* Every request that arrives is well formed.
LEMMA ArriveType ==
    ASSUME TypeOK, NEW p \in Proc, Arrive(p)
    PROVE  TypeOK'
<1> SUFFICES req' \in [Proc -> Request] /\ lastAuth' \in [Family -> Time]
    BY DEF TypeOK, Arrive, PresentRefresh, PresentLogout, PresentLogoutAll, RevokeOwned,
           RevokeOthers, EndAllFamilies, RevokeDevice, Purge, StepUp, table, history
<1>1. now \in Time /\ Started \subseteq Family BY DEF TypeOK, Started
<1>2. lastAuth' \in [Family -> Time]
  BY <1>1 DEF TypeOK, Arrive, PresentRefresh, PresentLogout, PresentLogoutAll, RevokeOwned,
         RevokeOthers, EndAllFamilies, RevokeDevice, Purge, StepUp, table, history
<1>3. ASSUME NEW t \in Token, PresentRefresh(p, t) PROVE req' \in [Proc -> Request]
  <2>1. [Idle EXCEPT !.at = "read", !.tok = t, !.moment = now] \in Request
    BY <1>1, IdleIsRequest DEF Request, Stage
  <2> QED BY <1>3, <2>1, BecomeType DEF PresentRefresh
<1>4. ASSUME NEW t \in Token, PresentLogout(p, t) PROVE req' \in [Proc -> Request]
  <2>1. [Idle EXCEPT !.at = "lookup", !.tok = t] \in Request
    BY IdleIsRequest DEF Request, Stage
  <2> QED BY <1>4, <2>1, BecomeType DEF PresentLogout
<1>5. ASSUME NEW f \in Family \cup {NoFamily}, NEW t \in Token \cup {NoToken},
             PresentLogoutAll(p, f, t)
      PROVE  req' \in [Proc -> Request]
  <2>1. [Idle EXCEPT !.at = "locate", !.tok = t, !.fams = {f} \ {NoFamily},
            !.promised = Started] \in Request
    BY <1>1, IdleIsRequest DEF Request, Stage
  <2> QED BY <1>5, <2>1, BecomeType DEF PresentLogoutAll
<1>6. ASSUME NEW f \in Family, RevokeOwned(p, f) \/ RevokeOthers(p, f)
      PROVE  req' \in [Proc -> Request]
  <2>1. CASE RevokeOwned(p, f)
    BY <2>1, RevokeFamiliesIsRequest, BecomeType DEF RevokeOwned
  <2>2. CASE RevokeOthers(p, f)
    <3>1. PICK L \in Listings : Become(p, RevokeFamilies(L \ {f}, Started \ {f}))
      BY <2>2 DEF RevokeOthers
    <3>2. L \subseteq Family BY <1>1 DEF Listings
    <3>3. L \ {f} \subseteq Family /\ Started \ {f} \subseteq Family BY <1>1, <3>2
    <3>4. RevokeFamilies(L \ {f}, Started \ {f}) \in Request
      BY <3>3, RevokeFamiliesIsRequest
    <3> QED BY <3>1, <3>4, BecomeType
  <2> QED BY <1>6, <2>1, <2>2
<1>7. ASSUME NEW f \in Family, StepUp(p, f) PROVE req' \in [Proc -> Request]
  <2>1. [Idle EXCEPT !.at = "query", !.goal = "stamp", !.fams = {f}, !.moment = now] \in Request
    BY <1>1, IdleIsRequest DEF Request, Stage
  <2> QED BY <1>7, <2>1, BecomeType DEF StepUp
<1>8. ASSUME NEW f \in Family \cup {NoFamily}, EndAllFamilies(p, f)
      PROVE  req' \in [Proc -> Request]
  <2>1. RevokeFamilies(Family \ {f}, Family \ {f}) \in Request
    BY <1>1, RevokeFamiliesIsRequest
  <2>2. [RevokeFamilies(Family \ {f}, Family \ {f}) EXCEPT !.whole = TRUE] \in Request
    BY <2>1 DEF Request
  <2> QED BY <1>8, <2>2, BecomeType DEF EndAllFamilies
<1>9. ASSUME NEW d \in Device, RevokeDevice(p, d) PROVE req' \in [Proc -> Request]
  <2>1. PICK F \in SUBSET Started : Become(p, RevokeFamilies(F, {g \in Started : DeviceOf[g] = d}))
    BY <1>9 DEF RevokeDevice
  <2> QED BY <1>1, <2>1, RevokeFamiliesIsRequest, BecomeType
<1>10. ASSUME Purge(p) PROVE req' \in [Proc -> Request]
  <2>1. [Idle EXCEPT !.at = "query", !.goal = "erase", !.whole = TRUE, !.fams = Family]
           \in Request
    BY IdleIsRequest DEF Request, Stage
  <2> QED BY <1>10, <2>1, BecomeType DEF Purge
<1> QED BY <1>2, <1>3, <1>4, <1>5, <1>6, <1>7, <1>8, <1>9, <1>10 DEF Arrive

\* The queries, and the writes made for the keys they return.
LEMMA SweepType ==
    ASSUME TypeOK, NEW p \in Proc,
           \/ Query(p) \/ LogoutAllLocate(p)
           \/ \E t \in Token : RevokeRow(p, t) \/ EraseRow(p, t) \/ StampRow(p, t)
    PROVE  TypeOK'
<1> DEFINE q == req[p]
<1>1. q \in Request BY DEF TypeOK
<1>2. CASE Query(p)
  <2>1. PICK F : \E S \in QueryResults(F) :
           Proceed(p, [q EXCEPT !.fams = @ \ F, !.scope = @ \cup MustSee(F)], S)
    BY <1>2 DEF Query
  <2>2. PICK S \in QueryResults(F) :
           Proceed(p, [q EXCEPT !.fams = @ \ F, !.scope = @ \cup MustSee(F)], S)
    BY <2>1
  <2>3. S \subseteq Token /\ MustSee(F) \subseteq Token
    BY DEF QueryResults, MaySee, MustSee, TypeOK
  <2>4. [q EXCEPT !.fams = @ \ F, !.scope = @ \cup MustSee(F)] \in Request
    BY <1>1, <2>3 DEF Request
  <2>5. req' \in [Proc -> Request] /\ ended' \subseteq Family \cup {NoFamily}
    BY <2>2, <2>3, <2>4, ProceedType
  <2> QED BY <1>2, <2>5 DEF Query, TypeOK, table
<1>3. CASE LogoutAllLocate(p)
  <2> DEFINE found == IF q.tok \in rows THEN {row[q.tok].family} \ {NoFamily} ELSE {}
  <2>1. found \subseteq Family BY DEF TypeOK, Row
  <2> HIDE DEF found
  <2>2. [q EXCEPT !.fams = @ \cup found, !.tok = NoToken] \in Request
    BY <1>1, <2>1 DEF Request
  <2>3. Proceed(p, [q EXCEPT !.fams = @ \cup found, !.tok = NoToken], {})
    BY <1>3 DEF LogoutAllLocate, found
  <2>4. req' \in [Proc -> Request] /\ ended' \subseteq Family \cup {NoFamily}
    BY <2>2, <2>3, ProceedType
  <2> QED BY <1>3, <2>4 DEF LogoutAllLocate, TypeOK, table
<1>4. ASSUME NEW t \in Token, RevokeRow(p, t) \/ EraseRow(p, t) \/ StampRow(p, t)
      PROVE  TypeOK'
  <2>1. Proceed(p, q, q.todo \ {t}) BY <1>4 DEF RevokeRow, EraseRow, StampRow
  <2>2. q.todo \ {t} \subseteq Token BY <1>1 DEF Request
  <2>3. req' \in [Proc -> Request] /\ ended' \subseteq Family \cup {NoFamily}
    BY <1>1, <2>1, <2>2, ProceedType
  <2>4. CASE RevokeRow(p, t)
    <3>1. row' \in [Token -> Row] BY <2>4, StubIsRow DEF RevokeRow, TypeOK, Row
    <3> QED BY <1>4, <2>3, <2>4, <3>1 DEF RevokeRow, TypeOK
  <2>5. CASE EraseRow(p, t)
    BY <1>4, <2>3, <2>5, DeleteType DEF EraseRow, TypeOK
  <2>6. CASE StampRow(p, t)
    <3>1. row[t] \in Row /\ q.moment \in Time BY <1>1 DEF TypeOK, Request
    <3>2. [row[t] EXCEPT !.auth = Later(@, q.moment)] \in Row
      BY <3>1 DEF Row, Later
    <3>3. row' \in [Token -> Row] BY <2>6, <3>2 DEF StampRow, TypeOK
    <3> QED BY <2>3, <2>6, <3>3 DEF StampRow, TypeOK
  <2> QED BY <1>4, <2>4, <2>5, <2>6
<1> QED BY <1>2, <1>3, <1>4

\* The clock, the indexes, the table's own expiry and abandoned requests.
LEMMA EnvironmentType == ASSUME TypeOK, Environment PROVE TypeOK'
<1>1. CASE Tick BY <1>1, ParameterTypes DEF Tick, TypeOK, Time, table, history
<1>2. CASE Deactivate BY <1>2 DEF Deactivate, TypeOK, table, history
<1>3. ASSUME NEW t \in Token, Settle(t) PROVE TypeOK'
  BY <1>3 DEF Settle, TypeOK, history
<1>4. ASSUME NEW t \in Token, Reclaim(t) PROVE TypeOK'
  BY <1>4, DeleteType DEF Reclaim, TypeOK, history
<1>5. ASSUME NEW p \in Proc, Abort(p) PROVE TypeOK'
  BY <1>5, IdleIsRequest, BecomeType DEF Abort, TypeOK, table, history
<1> QED BY <1>1, <1>2, <1>3, <1>4, <1>5 DEF Environment

\* Every step keeps the types.
LEMMA NextType == TypeOK /\ [Next]_vars => TypeOK'
<1> SUFFICES ASSUME TypeOK, [Next]_vars PROVE TypeOK' OBVIOUS
<1>1. ASSUME NEW f \in Family, SignIn(f) PROVE TypeOK' BY <1>1, SignInType
<1>2. ASSUME NEW p \in Proc, Arrive(p) PROVE TypeOK' BY <1>2, ArriveType
<1>3. ASSUME NEW p \in Proc, Work(p) PROVE TypeOK'
  BY <1>3, RotateReadsType, RotateWritesType, SweepType DEF Work, Rotate
<1>4. CASE Environment BY <1>4, EnvironmentType
<1>5. CASE UNCHANGED vars
  BY <1>5 DEF vars, table, history, TypeOK
<1> QED BY <1>1, <1>2, <1>3, <1>4, <1>5 DEF Next

\* Every reachable state is well typed, for every instance
\* (identity/storage.py RefreshTokenRecord, identity/sessions.py).
THEOREM TypeCorrect == Spec => []TypeOK
BY InitType, NextType, PTL DEF Spec

-----------------------------------------------------------------------------
(* The inductive invariant.                                                *)

\* Tokens are generated before anything names them.
Allocated ==
    /\ rows \subseteq used /\ issued \subseteq used
    /\ \A t \in used : origin[t].how = "login" \/ origin[t].parent \in used

\* What every row of the table satisfies, stubs included.
RowSound(t) ==
    /\ row[t].family = NoFamily => row[t].revoked
    /\ row[t].family # NoFamily =>
          /\ row[t].started = login[row[t].family]
          /\ row[t].expires <= login[row[t].family] + AbsoluteTTL
    /\ row[t].consumed = Never => row[t].succ = NoToken

RowsSound == \A t \in rows : RowSound(t)

InGrace(t, m) ==
    \/ t \notin rows \/ row[t].family = NoFamily
    \/ row[t].consumed # Never /\ m <= row[t].consumed + Grace

\* What a request knows at each stage of a rotation.
Sound(p) ==
    LET q == req[p] IN
    /\ q.tok \in used \cup {NoToken} /\ q.todo \subseteq used
    /\ q.at \in Rotating =>
          /\ q.tok \in used /\ q.seen.family \in Family
          /\ q.seen.started = login[q.seen.family]
    /\ q.at = "consume" =>
          q.fresh \in used /\ origin[q.fresh].how = "rotation" /\ origin[q.fresh].parent = q.tok
    /\ q.at \in {"follow", "replay"} => InGrace(q.tok, q.moment)
    /\ q.at = "admit" => q.fresh \in used /\ Justified(q.fresh)

IInv == /\ TypeOK /\ Allocated /\ RowsSound
        /\ \A p \in Proc : Sound(p)
        /\ EveryIssueIsJustified

\* What a step may do to a row that was there, or to a key that was not.
Kept(u) ==
    u \in rows' =>
       \/ u \notin rows /\ row'[u] = Stub
       \/ /\ u \in rows
          /\ row'[u].family = row[u].family /\ row'[u].started = row[u].started
          /\ row'[u].expires = row[u].expires
          /\ row[u].revoked => row'[u].revoked
          /\ row[u].consumed # Never =>
                row'[u].consumed = row[u].consumed /\ row'[u].succ = row[u].succ
          /\ row'[u].consumed = Never => row'[u].succ = row[u].succ
          /\ row[u].auth <= row'[u].auth

OldKept ==
    /\ used \subseteq used'
    /\ \A u \in used : Kept(u) /\ origin'[u] = origin[u]
    /\ \A f \in Family : login[f] # Never => login'[f] = login[f]

\* A row that is left alone is kept.
LEMMA SameRowKept ==
    ASSUME TypeOK, NEW u \in Token, u \in rows' => u \in rows, row'[u] = row[u]
    PROVE  Kept(u)
<1>1. row[u] \in Row BY DEF TypeOK
<1>2. row[u].auth <= row[u].auth BY <1>1, ParameterTypes DEF Row, Time
<1> QED BY <1>2 DEF Kept

\* Minting writes a key no earlier step ever generated.
LEMMA PutKeeps ==
    ASSUME TypeOK, Allocated, NEW t \in Token \ used, NEW r \in Row, Put(t, r),
           NEW u \in used
    PROVE  Kept(u) /\ used \subseteq used'
<1>1. u # t /\ row'[u] = row[u] BY DEF Put, TypeOK
<1>2. u \in rows' => u \in rows BY <1>1 DEF Put
<1> QED BY <1>1, <1>2, SameRowKept DEF TypeOK, Put

\* A deleted row leaves its history.
LEMMA DeleteKeeps ==
    ASSUME TypeOK, NEW t \in Token, Delete(t), NEW u \in used
    PROVE  Kept(u)
BY SameRowKept DEF Delete, TypeOK

\* Every step of every actor keeps the rows it finds.
LEMMA StepKeeps == ASSUME IInv, [Next]_vars PROVE OldKept
<1> USE DEF IInv
<1>1. ASSUME NEW f \in Family, SignIn(f) PROVE OldKept
  <2>1. PICK t \in Token \ used :
           /\ Put(t, Generation(f, 1, now, now, now))
           /\ origin' = [origin EXCEPT ![t] = [how |-> "login", parent |-> NoToken, at |-> now]]
    BY <1>1 DEF SignIn
  <2>2. Generation(f, 1, now, now, now) \in Row BY GenerationIsRow DEF TypeOK
  <2>3. \A u \in used : Kept(u) /\ origin'[u] = origin[u]
    BY <2>1, <2>2, PutKeeps DEF TypeOK
  <2>4. used \subseteq used' BY <2>1 DEF Put
  <2>5. \A g \in Family : login[g] # Never => login'[g] = login[g]
    BY <1>1 DEF SignIn, TypeOK
  <2> QED BY <2>3, <2>4, <2>5 DEF OldKept
<1>2. ASSUME NEW p \in Proc, RotateMint(p) \/ RotateReplay(p) PROVE OldKept
  <2> DEFINE q == req[p]
  <2>1. /\ q \in Request /\ q.seen \in Row /\ q.moment \in Time
    BY DEF TypeOK, Request
  <2>2. PICK r \in Row, t \in Token \ used, o \in Origin :
           Put(t, r) /\ origin' = [origin EXCEPT ![t] = o]
    <3>1. CASE RotateMint(p)
      <4> DEFINE r == Generation(q.seen.family, q.seen.gen + 1, q.seen.started,
                                 q.moment, AuthTime(q.seen))
      <4>1. r \in Row
        <5>1. AuthTime(q.seen) \in Time BY <2>1, AuthTimeType
        <5>2. /\ q.seen.family \in Family \cup {NoFamily} /\ q.seen.gen + 1 \in Nat
              /\ q.seen.started \in Time
          BY <2>1 DEF Row
        <5> HIDE DEF q
        <5> QED BY <2>1, <5>1, <5>2, GenerationIsRow
      <4> HIDE DEF r
      <4>2. PICK t \in Token \ used : Put(t, r) /\ origin' = [origin EXCEPT ![t] =
                            [how |-> "rotation", parent |-> q.tok, at |-> q.moment]]
        BY <3>1 DEF RotateMint, r
      <4>3. [how |-> "rotation", parent |-> q.tok, at |-> q.moment] \in Origin
        BY <2>1 DEF Request, Origin
      <4> QED BY <4>1, <4>2, <4>3
    <3>2. CASE RotateReplay(p)
      <4> DEFINE r == Generation(q.seen.family, q.seen.gen, q.seen.started, q.moment, q.seen.auth)
      <4>1. r \in Row
        <5>1. /\ q.seen.family \in Family \cup {NoFamily} /\ q.seen.gen \in Nat
              /\ q.seen.started \in Time /\ q.seen.auth \in Time
          BY <2>1 DEF Row
        <5> HIDE DEF q
        <5> QED BY <2>1, <5>1, GenerationIsRow
      <4> HIDE DEF r
      <4>2. PICK t \in Token \ used : Put(t, r) /\ origin' = [origin EXCEPT ![t] =
                            [how |-> "replay", parent |-> q.tok, at |-> q.moment]]
        BY <3>2 DEF RotateReplay, r
      <4>3. [how |-> "replay", parent |-> q.tok, at |-> q.moment] \in Origin
        BY <2>1 DEF Request, Origin
      <4> QED BY <4>1, <4>2, <4>3
    <3> QED BY <1>2, <3>1, <3>2
  <2>3. \A u \in used : Kept(u) /\ origin'[u] = origin[u]
    BY <2>2, PutKeeps DEF TypeOK
  <2>4. used \subseteq used' /\ login' = login
    BY <1>2, <2>2 DEF Put, RotateMint, RotateReplay
  <2> QED BY <2>3, <2>4 DEF OldKept
<1>3. ASSUME NEW p \in Proc, RotateConsume(p) PROVE OldKept
  <2> DEFINE q == req[p]
  <2>1. rows' = rows /\ used' = used /\ origin' = origin /\ login' = login
    BY <1>3 DEF RotateConsume, history
  <2>2. ASSUME NEW u \in used PROVE Kept(u)
    <3>1. CASE row'[u] = row[u] BY <2>1, <3>1, SameRowKept DEF TypeOK
    <3>2. CASE row'[u] # row[u]
      <4>1. /\ q.tok \in rows /\ row[q.tok].consumed = Never
            /\ row' = [row EXCEPT ![q.tok].consumed = q.moment, ![q.tok].succ = q.fresh]
        BY <1>3, <3>2 DEF RotateConsume
      <4>2. u = q.tok BY <3>2, <4>1 DEF TypeOK
      <4>3. /\ row[u] \in Row /\ q.moment \in Time
        BY DEF TypeOK, Request
      <4>4. /\ row'[u].family = row[u].family /\ row'[u].started = row[u].started
            /\ row'[u].expires = row[u].expires /\ row'[u].revoked = row[u].revoked
            /\ row'[u].auth = row[u].auth /\ row'[u].consumed = q.moment
        BY <4>1, <4>2, <4>3 DEF TypeOK, Row
      <4>5. q.moment # Never BY <4>3, ParameterTypes DEF Time, Never
      <4>6. row[u].auth <= row[u].auth BY <4>3, ParameterTypes DEF Row, Time
      <4> QED BY <2>1, <4>1, <4>2, <4>4, <4>5, <4>6 DEF Kept
    <3> QED BY <3>1, <3>2
  <2> QED BY <2>1, <2>2 DEF OldKept
<1>4. ASSUME NEW p \in Proc, NEW t \in Token, RevokeRow(p, t) PROVE OldKept
  <2>1. ASSUME NEW u \in used PROVE Kept(u)
    <3>1. CASE u # t BY <1>4, <3>1, SameRowKept DEF RevokeRow, TypeOK
    <3>2. CASE u = t /\ t \notin rows BY <1>4, <3>2 DEF RevokeRow, TypeOK, Kept
    <3>3. CASE u = t /\ t \in rows
      <4>1. row[u] \in Row BY DEF TypeOK
      <4>2. row'[u] = [row[u] EXCEPT !.revoked = TRUE] BY <1>4, <3>3 DEF RevokeRow, TypeOK
      <4>3. row[u].auth <= row[u].auth BY <4>1, ParameterTypes DEF Row, Time
      <4> QED BY <3>3, <4>1, <4>2, <4>3 DEF Kept, Row
    <3> QED BY <3>1, <3>2, <3>3
  <2> QED BY <1>4, <2>1 DEF OldKept, RevokeRow
<1>5. ASSUME NEW p \in Proc, NEW t \in Token, StampRow(p, t) PROVE OldKept
  <2>1. ASSUME NEW u \in used PROVE Kept(u)
    <3>1. CASE u # t \/ t \notin rows BY <1>5, <3>1, SameRowKept DEF StampRow, TypeOK
    <3>2. CASE u = t /\ t \in rows
      <4> DEFINE a == Later(row[u].auth, req[p].moment)
      <4>1. row[u] \in Row /\ req[p].moment \in Time BY DEF TypeOK, Request
      <4>2. row'[u] = [row[u] EXCEPT !.auth = a] BY <1>5, <3>2 DEF StampRow, TypeOK
      <4>3. row[u].auth <= a BY <4>1, ParameterTypes DEF Row, Time, Later
      <4> HIDE DEF a
      <4>4. /\ row'[u].auth = a /\ row'[u].family = row[u].family
            /\ row'[u].started = row[u].started /\ row'[u].expires = row[u].expires
            /\ row'[u].revoked = row[u].revoked /\ row'[u].consumed = row[u].consumed
            /\ row'[u].succ = row[u].succ
        BY <4>1, <4>2 DEF Row
      <4> QED BY <1>5, <3>2, <4>3, <4>4 DEF Kept, StampRow
    <3> QED BY <3>1, <3>2
  <2> QED BY <1>5, <2>1 DEF OldKept, StampRow
<1>6. ASSUME NEW p \in Proc, NEW t \in Token, EraseRow(p, t) PROVE OldKept
  BY <1>6, DeleteKeeps DEF EraseRow, Delete, OldKept
<1>7. ASSUME NEW t \in Token, Reclaim(t) PROVE OldKept
  BY <1>7, DeleteKeeps DEF Reclaim, Delete, OldKept, history
<1>8. ASSUME UNCHANGED <<rows, row, used, origin, login>> PROVE OldKept
  BY <1>8, SameRowKept DEF OldKept, TypeOK
<1>9. ASSUME NEW p \in Proc, Arrive(p) PROVE UNCHANGED <<rows, row, used, origin, login>>
  BY <1>9 DEF Arrive, PresentRefresh, PresentLogout, PresentLogoutAll, RevokeOwned,
         RevokeOthers, EndAllFamilies, RevokeDevice, Purge, StepUp, table, history
<1>10. ASSUME NEW p \in Proc,
              \/ RotateRead(p) \/ RotateRecheck(p) \/ RotateFollow(p) \/ Admit(p)
              \/ LogoutLookup(p) \/ LogoutAllLocate(p) \/ Query(p)
       PROVE  UNCHANGED <<rows, row, used, origin, login>>
  BY <1>10 DEF RotateRead, RotateRecheck, RotateFollow, Admit, LogoutLookup,
         LogoutAllLocate, Query, table, history
<1>11. ASSUME \/ Tick \/ Deactivate \/ (\E t \in Token : Settle(t)) \/ (\E p \in Proc : Abort(p))
       PROVE  UNCHANGED <<rows, row, used, origin, login>>
  BY <1>11 DEF Tick, Deactivate, Settle, Abort, table, history
<1>12. CASE UNCHANGED vars BY <1>8, <1>12 DEF vars, table, history
<1> QED BY <1>1, <1>2, <1>3, <1>4, <1>5, <1>6, <1>7, <1>8, <1>9, <1>10, <1>11, <1>12
    DEF Next, Work, Rotate, Environment

-----------------------------------------------------------------------------
(* What a request or a client already knows outlives every step.           *)

\* A token presented in the grace stays so: its consumption is on file for ever.
LEMMA InGraceStable ==
    ASSUME IInv, OldKept, NEW t \in used, NEW m \in Time, InGrace(t, m)
    PROVE  InGrace(t, m)'
<1>1. Kept(t) BY DEF OldKept
<1>2. Stub.family = NoFamily BY DEF Stub
<1> QED BY <1>1, <1>2 DEF InGrace, Kept

\* What justified an issue goes on justifying it.
LEMMA JustifiedStable ==
    ASSUME IInv, OldKept, NEW t \in used, Justified(t)
    PROVE  Justified(t)'
<1> DEFINE o == origin[t]
<1>1. origin'[t] = o BY DEF OldKept
<1>2. CASE o.how = "login" BY <1>1, <1>2 DEF Justified
<1>3. CASE o.how # "login"
  <2>1. o.parent \in used BY <1>3 DEF IInv, Allocated
  <2>2. Kept(o.parent) BY <2>1 DEF OldKept
  <2>3. CASE o.parent \notin rows' BY <1>1, <2>3 DEF Justified
  <2>4. CASE o.parent \in rows' /\ o.parent \notin rows
    <3>1. row'[o.parent].family = NoFamily BY <2>2, <2>4 DEF Kept, Stub
    <3> QED BY <1>1, <3>1 DEF Justified
  <2>5. CASE o.parent \in rows' /\ o.parent \in rows
    <3>1. row[o.parent].succ = t => row[o.parent].consumed # Never
      BY <2>5, ParameterTypes DEF IInv, RowsSound, RowSound, TypeOK
    <3> QED BY <1>1, <1>3, <2>2, <2>5, <3>1 DEF Justified, Kept
  <2> QED BY <2>3, <2>4, <2>5
<1> QED BY <1>2, <1>3

\* A request that did not move is as sound as the rows it depends on.
LEMMA SoundStable ==
    ASSUME IInv, OldKept, NEW p \in Proc, req'[p] = req[p]
    PROVE  Sound(p)'
<1> DEFINE q == req[p]
<1>1. q \in Request /\ Sound(p) BY DEF IInv, TypeOK
<1>2. q.moment \in Time /\ q.seen \in Row BY <1>1 DEF Request
<1>3. used \subseteq used' BY DEF OldKept
<1>4. q.at \in Rotating => login'[q.seen.family] = login[q.seen.family]
  <2> HAVE q.at \in Rotating
  <2>1. q.seen.family \in Family /\ q.seen.started = login[q.seen.family]
    BY <1>1 DEF Sound
  <2>2. q.seen.started # Never BY <1>2, ParameterTypes DEF Row, Time, Never
  <2> QED BY <2>1, <2>2 DEF OldKept
<1>5. q.at \in {"follow", "replay"} => InGrace(q.tok, q.moment)'
  <2> HAVE q.at \in {"follow", "replay"}
  <2>1. q.tok \in used /\ InGrace(q.tok, q.moment) BY <1>1 DEF Sound, Rotating
  <2> QED BY <1>2, <2>1, InGraceStable
<1>6. q.at = "admit" => q.fresh \in used' /\ Justified(q.fresh)'
  <2> HAVE q.at = "admit"
  <2>1. q.fresh \in used /\ Justified(q.fresh) BY <1>1 DEF Sound
  <2> QED BY <1>3, <2>1, JustifiedStable
<1>7. q.at = "consume" => origin'[q.fresh] = origin[q.fresh]
  BY <1>1 DEF Sound, OldKept
<1> QED BY <1>1, <1>3, <1>4, <1>5, <1>6, <1>7 DEF Sound

\* A request outside a rotation owes only that its keys were generated.
LEMMA OutsideRotationSound ==
    ASSUME NEW p \in Proc, req'[p].at \notin Rotating,
           req'[p].tok \in used' \cup {NoToken}, req'[p].todo \subseteq used'
    PROVE  Sound(p)'
BY DEF Sound, Rotating

\* What follows a sweep is no part of a rotation.
LEMMA ContinueShape ==
    ASSUME NEW q \in Request, NEW S \in SUBSET Token
    PROVE  /\ Continue(q, S).at \in {"idle", "query", "revoke", "erase", "stamp"}
           /\ Continue(q, S).tok \in {q.tok, NoToken}
           /\ Continue(q, S).todo \subseteq S
BY DEF Continue, Request, Idle

\* Beginning or going on with a sweep promises nothing of any token.
LEMMA ProceedSound ==
    ASSUME TypeOK, used' = used, NEW p \in Proc, NEW q \in Request, q.tok \in used \cup {NoToken},
           NEW S \in SUBSET used, Proceed(p, q, S)
    PROVE  Sound(p)'
<1>1. req'[p] = Continue(q, S) BY DEF Proceed, Become, TypeOK
<1>2. S \subseteq Token BY DEF TypeOK
<1>3. req'[p].at \notin Rotating BY <1>1, <1>2, ContinueShape DEF Rotating
<1>4. /\ req'[p].tok \in used' \cup {NoToken}
      /\ req'[p].todo \subseteq used'
  BY <1>1, <1>2, ContinueShape
<1> QED BY <1>3, <1>4, OutsideRotationSound

\* Nor does a request that is over.
LEMMA RestSound ==
    ASSUME TypeOK, NEW p \in Proc, NEW q, Become(p, q), q.at \notin Rotating,
           q.tok \in used' \cup {NoToken}, q.todo = {}
    PROVE  Sound(p)'
BY OutsideRotationSound DEF Become, TypeOK

\* Only the request that takes the step changes.
LEMMA OthersSound ==
    ASSUME IInv, OldKept, NEW p \in Proc, NEW q, Become(p, q), Sound(p)'
    PROVE  \A r \in Proc : Sound(r)'
<1>1. ASSUME NEW r \in Proc, r # p PROVE Sound(r)'
  <2>1. req'[r] = req[r] BY <1>1 DEF Become, IInv, TypeOK
  <2> QED BY <2>1, SoundStable
<1> QED BY <1>1

-----------------------------------------------------------------------------
(* Each step of a rotation establishes what its next stage relies on.      *)

\* The two reads that open a rotation (SessionService.rotate).
LEMMA RotateReadSound ==
    ASSUME IInv, OldKept, NEW p \in Proc, RotateRead(p) \/ RotateRecheck(p)
    PROVE  \A r \in Proc : Sound(r)'
<1> DEFINE q == req[p]
           k == row[q.tok]
<1>1. /\ q \in Request /\ Sound(p) /\ q.moment \in Time
      /\ q.tok \in used \cup {NoToken} /\ q.todo \subseteq used
  BY DEF IInv, TypeOK, Request, Sound
<1>2. /\ used' = used /\ rows' = rows /\ row' = row /\ login' = login
  BY DEF RotateRead, RotateRecheck, table, history
<1>3. Idle.at \notin Rotating /\ Idle.tok = NoToken /\ Idle.todo = {}
  BY DEF Idle, Rotating
<1>4. CASE Become(p, Idle) BY <1>3, <1>4, RestSound, OthersSound DEF IInv
<1>5. CASE Become(p, RevokeFamilies({k.family}, {k.family}))
  <2> DEFINE n == RevokeFamilies({k.family}, {k.family})
  <2>1. n.at \notin Rotating /\ n.tok = NoToken /\ n.todo = {}
    BY DEF RevokeFamilies, Idle, Rotating
  <2> HIDE DEF n
  <2>2. Become(p, n) BY <1>5 DEF n
  <2> QED BY <2>1, <2>2, RestSound, OthersSound DEF IInv
<1>6. ASSUME q.tok \in rows, ~k.revoked
      PROVE  q.tok \in used /\ k.family \in Family /\ k.started = login[k.family]
  <2>1. k \in Row /\ q.tok \in used BY <1>6 DEF IInv, TypeOK, Allocated
  <2>2. k.family # NoFamily BY <1>6 DEF IInv, RowsSound, RowSound
  <2> QED BY <1>6, <2>1, <2>2 DEF IInv, RowsSound, RowSound, Row
<1>7. CASE RotateRead(p) /\ q.tok \in rows /\ Live(k, q.moment)
           /\ Become(p, [q EXCEPT !.at = "mint", !.seen = k])
  <2>1. q.tok \in used /\ k.family \in Family /\ k.started = login[k.family]
    BY <1>6, <1>7 DEF Live
  <2>2. /\ req'[p].at = "mint" /\ req'[p].tok = q.tok /\ req'[p].todo = q.todo
        /\ req'[p].seen = k
    BY <1>1, <1>7 DEF Become, IInv, TypeOK, Request
  <2>3. Sound(p)' BY <1>1, <1>2, <2>1, <2>2 DEF Sound
  <2> QED BY <1>7, <2>3, OthersSound
<1>8. CASE RotateRecheck(p) /\ q.tok \in rows /\ ~k.revoked /\ WithinGrace(k, q.moment)
           /\ Become(p, [q EXCEPT !.at = "follow", !.seen = k])
  <2>1. q.tok \in used /\ k.family \in Family /\ k.started = login[k.family]
    BY <1>6, <1>8
  <2>2. /\ req'[p].at = "follow" /\ req'[p].tok = q.tok /\ req'[p].todo = q.todo
        /\ req'[p].seen = k /\ req'[p].moment = q.moment
    BY <1>1, <1>8 DEF Become, IInv, TypeOK, Request
  <2>3. ASSUME NEW t \in used, NEW m \in Time, t = q.tok, m = q.moment PROVE InGrace(t, m)'
    <3>1. k \in Row BY <1>8 DEF IInv, TypeOK
    <3>2. k.consumed # Never /\ q.moment - k.consumed <= Grace BY <1>8 DEF WithinGrace
    <3>3. q.moment \in Nat /\ k.consumed \in Int /\ Grace \in Nat
      BY <1>1, <3>1, ParameterTypes DEF Time, Row, Never
    <3>4. q.moment <= k.consumed + Grace BY <3>2, <3>3
    <3> QED BY <1>2, <2>3, <3>2, <3>4 DEF InGrace
  <2>4. InGrace(req[p].tok, req[p].moment)' BY <1>1, <2>1, <2>2, <2>3
  <2>5. Sound(p)' BY <1>1, <1>2, <2>1, <2>2, <2>4 DEF Sound
  <2> QED BY <1>8, <2>5, OthersSound
<1> QED BY <1>4, <1>5, <1>7, <1>8 DEF RotateRead, RotateRecheck

\* The minted token stems from the one presented, a replay is within the grace.
LEMMA RotateMintSound ==
    ASSUME IInv, OldKept, NEW p \in Proc, RotateMint(p) \/ RotateReplay(p)
    PROVE  \A r \in Proc : Sound(r)'
<1> DEFINE q == req[p]
<1>1. /\ q \in Request /\ Sound(p) /\ q.moment \in Time
  BY DEF IInv, TypeOK, Request
<1>2. q.at \in Rotating BY DEF RotateMint, RotateReplay, Rotating
<1>3. /\ q.tok \in used /\ q.todo \subseteq used /\ q.seen.family \in Family
      /\ q.seen.started = login[q.seen.family]
  BY <1>1, <1>2 DEF Sound
<1>4. login' = login /\ used \subseteq used' BY DEF RotateMint, RotateReplay, OldKept
<1>5. CASE RotateMint(p)
  <2>1. PICK t \in Token \ used :
           /\ t \in used'
           /\ origin' = [origin EXCEPT ![t] =
                            [how |-> "rotation", parent |-> q.tok, at |-> q.moment]]
           /\ Become(p, [q EXCEPT !.at = "consume", !.fresh = t])
    BY <1>5 DEF RotateMint, Put
  <2>2. /\ req'[p].at = "consume" /\ req'[p].tok = q.tok /\ req'[p].todo = q.todo
        /\ req'[p].seen = q.seen /\ req'[p].fresh = t
    BY <1>1, <2>1 DEF Become, IInv, TypeOK, Request
  <2>3. origin'[t].how = "rotation" /\ origin'[t].parent = q.tok
    BY <2>1 DEF IInv, TypeOK
  <2>4. Sound(p)' BY <1>1, <1>3, <1>4, <2>1, <2>2, <2>3 DEF Sound
  <2> QED BY <2>1, <2>4, OthersSound
<1>6. CASE RotateReplay(p)
  <2>1. PICK t \in Token \ used :
           /\ t \in used'
           /\ origin' = [origin EXCEPT ![t] =
                            [how |-> "replay", parent |-> q.tok, at |-> q.moment]]
           /\ Become(p, [q EXCEPT !.at = "admit", !.fresh = t])
    BY <1>6 DEF RotateReplay, Put
  <2>2. /\ req'[p].at = "admit" /\ req'[p].tok = q.tok /\ req'[p].todo = q.todo
        /\ req'[p].seen = q.seen /\ req'[p].fresh = t
    BY <1>1, <2>1 DEF Become, IInv, TypeOK, Request
  <2>3. origin'[t] = [how |-> "replay", parent |-> q.tok, at |-> q.moment]
    BY <2>1 DEF IInv, TypeOK
  <2>4. ASSUME NEW u \in used, NEW m \in Time, u = q.tok, m = q.moment
        PROVE  Justified(t)'
    <3>1. InGrace(u, m) BY <1>1, <1>6, <2>4 DEF Sound, RotateReplay
    <3>2. InGrace(u, m)' BY <3>1, InGraceStable
    <3> QED BY <2>3, <2>4, <3>2 DEF Justified, InGrace
  <2>5. Justified(t)' BY <1>1, <1>3, <2>4
  <2>6. Sound(p)' BY <1>1, <1>3, <1>4, <2>1, <2>2, <2>5 DEF Sound
  <2> QED BY <2>1, <2>6, OthersSound
<1> QED BY <1>5, <1>6

\* Who consumes the row is the only one to write its successor.
LEMMA RotateConsumeSound ==
    ASSUME IInv, OldKept, NEW p \in Proc, RotateConsume(p)
    PROVE  \A r \in Proc : Sound(r)'
<1> DEFINE q == req[p]
<1>1. /\ q \in Request /\ Sound(p) /\ q.at = "consume"
  BY DEF IInv, TypeOK, RotateConsume
<1>2. /\ q.tok \in used /\ q.todo \subseteq used /\ q.seen.family \in Family
      /\ q.seen.started = login[q.seen.family]
      /\ q.fresh \in used /\ origin[q.fresh].how = "rotation" /\ origin[q.fresh].parent = q.tok
  BY <1>1 DEF Sound, Rotating
<1>3. used' = used /\ login' = login /\ rows' = rows /\ origin' = origin
  BY DEF RotateConsume, history
<1>4. CASE q.tok \in rows /\ row[q.tok].consumed = Never
  <2>1. /\ row' = [row EXCEPT ![q.tok].consumed = q.moment, ![q.tok].succ = q.fresh]
        /\ Become(p, [q EXCEPT !.at = "admit"])
    BY <1>4 DEF RotateConsume
  <2>2. /\ req'[p].at = "admit" /\ req'[p].tok = q.tok /\ req'[p].todo = q.todo
        /\ req'[p].seen = q.seen /\ req'[p].fresh = q.fresh
    BY <1>1, <2>1 DEF Become, IInv, TypeOK, Request
  <2>3. row'[q.tok].succ = q.fresh
    BY <1>2, <2>1 DEF IInv, TypeOK, Row
  <2>4. ASSUME NEW t \in used, t = q.fresh PROVE Justified(t)'
    BY <1>2, <1>3, <2>3, <2>4 DEF Justified
  <2>5. Justified(req[p].fresh)' BY <1>2, <2>2, <2>4
  <2>6. Sound(p)' BY <1>1, <1>2, <1>3, <2>2, <2>5 DEF Sound
  <2> QED BY <2>1, <2>6, OthersSound
<1>5. CASE ~(q.tok \in rows /\ row[q.tok].consumed = Never)
  <2>1. Become(p, [q EXCEPT !.at = "recheck"]) BY <1>5 DEF RotateConsume
  <2>2. /\ req'[p].at = "recheck" /\ req'[p].tok = q.tok /\ req'[p].todo = q.todo
        /\ req'[p].seen = q.seen
    BY <1>1, <2>1 DEF Become, IInv, TypeOK, Request
  <2>3. Sound(p)' BY <1>1, <1>2, <1>3, <2>2 DEF Sound
  <2> QED BY <2>1, <2>3, OthersSound
<1> QED BY <1>4, <1>5

\* Who lost the race answers with the successor it finds.
LEMMA RotateFollowSound ==
    ASSUME IInv, OldKept, NEW p \in Proc, RotateFollow(p)
    PROVE  \A r \in Proc : Sound(r)'
<1> DEFINE q == req[p]
           s == q.seen.succ
<1>1. /\ q \in Request /\ Sound(p) /\ q.at = "follow"
  BY DEF IInv, TypeOK, RotateFollow
<1>2. /\ q.tok \in used /\ q.todo \subseteq used /\ q.seen.family \in Family
      /\ q.seen.started = login[q.seen.family] /\ InGrace(q.tok, q.moment)
      /\ q.seen \in Row /\ q.moment \in Time
  BY <1>1 DEF Sound, Rotating, Request
<1>3. used' = used /\ login' = login /\ rows' = rows /\ row' = row
  BY DEF RotateFollow, history, table
<1>4. CASE s \in rows
  <2> DEFINE a == Later(AuthTime(q.seen), AuthTime(row[s]))
             n == [q.seen EXCEPT !.gen = row[s].gen, !.auth = a]
  <2>1. n.family = q.seen.family /\ n.started = q.seen.started
    <3> HIDE DEF a
    <3> QED BY <1>2 DEF Row
  <2> HIDE DEF n
  <2>2. Become(p, [q EXCEPT !.at = "replay", !.seen = n])
    BY <1>4 DEF RotateFollow, n
  <2>3. /\ req'[p].at = "replay" /\ req'[p].tok = q.tok /\ req'[p].todo = q.todo
        /\ req'[p].seen = n /\ req'[p].moment = q.moment
    BY <1>1, <2>2 DEF Become, IInv, TypeOK, Request
  <2>4. InGrace(req[p].tok, req[p].moment)' BY <1>2, <1>3, <2>3 DEF InGrace
  <2>5. Sound(p)' BY <1>1, <1>2, <1>3, <2>1, <2>3, <2>4 DEF Sound
  <2> QED BY <2>2, <2>5, OthersSound
<1>5. CASE s \notin rows
  <2> DEFINE n == RevokeFamilies({q.seen.family}, {q.seen.family})
  <2>1. n.at \notin Rotating /\ n.tok = NoToken /\ n.todo = {}
    BY DEF RevokeFamilies, Idle, Rotating
  <2> HIDE DEF n
  <2>2. Become(p, n) BY <1>5 DEF RotateFollow, n
  <2> QED BY <2>1, <2>2, RestSound, OthersSound DEF IInv
<1> QED BY <1>4, <1>5

\* Requests that do not rotate, or no longer do.
LEMMA OtherRequestsSound ==
    ASSUME IInv, OldKept, NEW p \in Proc,
           \/ Arrive(p) \/ Admit(p) \/ LogoutLookup(p) \/ LogoutAllLocate(p) \/ Query(p) \/ Abort(p)
           \/ \E t \in Token : RevokeRow(p, t) \/ EraseRow(p, t) \/ StampRow(p, t)
    PROVE  \A r \in Proc : Sound(r)'
<1> DEFINE q == req[p]
<1>1. /\ q \in Request /\ Sound(p) /\ q.tok \in used \cup {NoToken} /\ q.todo \subseteq used
      /\ issued \subseteq used /\ used \subseteq used'
  BY DEF IInv, TypeOK, Sound, Allocated, OldKept
<1>2. ASSUME NEW F, NEW P, Become(p, RevokeFamilies(F, P)) PROVE \A r \in Proc : Sound(r)'
  <2>1. /\ RevokeFamilies(F, P).at \notin Rotating /\ RevokeFamilies(F, P).tok = NoToken
        /\ RevokeFamilies(F, P).todo = {}
    BY DEF RevokeFamilies, Idle, Rotating
  <2> QED BY <1>2, <2>1, RestSound, OthersSound DEF IInv
<1>3. CASE Become(p, Idle)
  <2>1. Idle.at \notin Rotating /\ Idle.tok = NoToken /\ Idle.todo = {}
    BY DEF Idle, Rotating
  <2> QED BY <1>3, <2>1, RestSound, OthersSound DEF IInv
<1>4. ASSUME NEW n \in Request, NEW S \in SUBSET used, n.tok \in {q.tok, NoToken},
             used' = used, Proceed(p, n, S)
      PROVE  \A r \in Proc : Sound(r)'
  <2>1. Sound(p)' BY <1>1, <1>4, ProceedSound DEF IInv
  <2>2. Become(p, Continue(n, S)) BY <1>4 DEF Proceed
  <2> QED BY <2>1, <2>2, OthersSound
<1>5. CASE Arrive(p)
  <2>1. ASSUME NEW t \in Token, PresentRefresh(p, t) PROVE \A r \in Proc : Sound(r)'
    <3> DEFINE n == [Idle EXCEPT !.at = "read", !.tok = t, !.moment = now]
    <3>1. n.at \notin Rotating /\ n.tok \in used' \cup {NoToken} /\ n.todo = {}
      BY <1>1, <2>1 DEF PresentRefresh, Idle, Rotating
    <3> HIDE DEF n
    <3>2. Become(p, n) BY <2>1 DEF PresentRefresh, n
    <3> QED BY <3>1, <3>2, RestSound, OthersSound DEF IInv
  <2>2. ASSUME NEW t \in Token, PresentLogout(p, t) PROVE \A r \in Proc : Sound(r)'
    <3> DEFINE n == [Idle EXCEPT !.at = "lookup", !.tok = t]
    <3>1. n.at \notin Rotating /\ n.tok \in used' \cup {NoToken} /\ n.todo = {}
      BY <1>1, <2>2 DEF PresentLogout, Idle, Rotating
    <3> HIDE DEF n
    <3>2. Become(p, n) BY <2>2 DEF PresentLogout, n
    <3> QED BY <3>1, <3>2, RestSound, OthersSound DEF IInv
  <2>3. ASSUME NEW f, NEW t, PresentLogoutAll(p, f, t) PROVE \A r \in Proc : Sound(r)'
    <3> DEFINE n == [Idle EXCEPT !.at = "locate", !.tok = t,
                       !.fams = {f} \ {NoFamily}, !.promised = Started]
    <3>1. n.at \notin Rotating /\ n.tok \in used' \cup {NoToken} /\ n.todo = {}
      BY <1>1, <2>3 DEF PresentLogoutAll, Idle, Rotating
    <3> HIDE DEF n
    <3>2. Become(p, n) BY <2>3 DEF PresentLogoutAll, n
    <3> QED BY <3>1, <3>2, RestSound, OthersSound DEF IInv
  <2>4. ASSUME NEW f, RevokeOwned(p, f) \/ RevokeOthers(p, f) PROVE \A r \in Proc : Sound(r)'
    BY <1>2, <2>4 DEF RevokeOwned, RevokeOthers
  <2>5. ASSUME NEW f, StepUp(p, f) PROVE \A r \in Proc : Sound(r)'
    <3> DEFINE n == [Idle EXCEPT !.at = "query", !.goal = "stamp", !.fams = {f}, !.moment = now]
    <3>1. n.at \notin Rotating /\ n.tok \in used' \cup {NoToken} /\ n.todo = {}
      BY DEF Idle, Rotating
    <3> HIDE DEF n
    <3>2. Become(p, n) BY <2>5 DEF StepUp, n
    <3> QED BY <3>1, <3>2, RestSound, OthersSound DEF IInv
  <2>6. ASSUME NEW f, EndAllFamilies(p, f) PROVE \A r \in Proc : Sound(r)'
    <3> DEFINE n == [RevokeFamilies(Family \ {f}, Family \ {f}) EXCEPT !.whole = TRUE]
    <3>1. n.at \notin Rotating /\ n.tok \in used' \cup {NoToken} /\ n.todo = {}
      BY DEF RevokeFamilies, Idle, Rotating
    <3> HIDE DEF n
    <3>2. Become(p, n) BY <2>6 DEF EndAllFamilies, n
    <3> QED BY <3>1, <3>2, RestSound, OthersSound DEF IInv
  <2>7. ASSUME NEW d, RevokeDevice(p, d) PROVE \A r \in Proc : Sound(r)'
    BY <1>2, <2>7 DEF RevokeDevice
  <2>8. CASE Purge(p)
    <3> DEFINE n == [Idle EXCEPT !.at = "query", !.goal = "erase", !.whole = TRUE, !.fams = Family]
    <3>1. n.at \notin Rotating /\ n.tok \in used' \cup {NoToken} /\ n.todo = {}
      BY DEF Idle, Rotating
    <3> HIDE DEF n
    <3>2. Become(p, n) BY <2>8 DEF Purge, n
    <3> QED BY <3>1, <3>2, RestSound, OthersSound DEF IInv
  <2> QED BY <1>5, <2>1, <2>2, <2>3, <2>4, <2>5, <2>6, <2>7, <2>8 DEF Arrive
<1>6. CASE Admit(p) BY <1>2, <1>3, <1>6 DEF Admit
<1>7. CASE LogoutLookup(p) BY <1>2, <1>3, <1>7 DEF LogoutLookup
<1>8. CASE Abort(p) BY <1>3, <1>8 DEF Abort
<1>9. CASE LogoutAllLocate(p)
  <2> DEFINE found == IF q.tok \in rows THEN {row[q.tok].family} \ {NoFamily} ELSE {}
             n == [q EXCEPT !.fams = @ \cup found, !.tok = NoToken]
  <2>1. found \subseteq Family BY DEF IInv, TypeOK, Row
  <2>2. n \in Request /\ n.tok = NoToken
    <3> HIDE DEF found
    <3> QED BY <1>1, <2>1 DEF Request
  <2> HIDE DEF n
  <2>3. Proceed(p, n, {}) /\ used' = used BY <1>9 DEF LogoutAllLocate, n, table
  <2> QED BY <1>4, <2>2, <2>3
<1>10. CASE Query(p)
  <2>1. PICK F, S : S \in QueryResults(F) /\
           Proceed(p, [q EXCEPT !.fams = @ \ F, !.scope = @ \cup MustSee(F)], S)
    BY <1>10 DEF Query
  <2>2. S \subseteq used /\ MustSee(F) \subseteq Token
    BY <2>1 DEF QueryResults, MaySee, MustSee, IInv, TypeOK
  <2> DEFINE n == [q EXCEPT !.fams = @ \ F, !.scope = @ \cup MustSee(F)]
  <2>3. n \in Request /\ n.tok = q.tok BY <1>1, <2>2 DEF Request
  <2> HIDE DEF n
  <2>4. Proceed(p, n, S) /\ used' = used BY <1>10, <2>1 DEF Query, n, table
  <2> QED BY <1>4, <2>2, <2>3, <2>4
<1>11. ASSUME NEW t \in Token, RevokeRow(p, t) \/ EraseRow(p, t) \/ StampRow(p, t)
       PROVE  \A r \in Proc : Sound(r)'
  <2>1. Proceed(p, q, q.todo \ {t}) /\ used' = used
    BY <1>11 DEF RevokeRow, EraseRow, StampRow, Delete
  <2>2. q.todo \ {t} \in SUBSET used BY <1>1
  <2> HIDE DEF q
  <2> QED BY <1>1, <1>4, <2>1, <2>2
<1> QED BY <1>5, <1>6, <1>7, <1>8, <1>9, <1>10, <1>11

\* Every step leaves every request sound,
LEMMA NextSound == ASSUME IInv, [Next]_vars, OldKept PROVE \A r \in Proc : Sound(r)'
<1>1. CASE req' = req
  BY <1>1, SoundStable
<1>2. ASSUME NEW p \in Proc, Work(p) PROVE \A r \in Proc : Sound(r)'
  BY <1>2, RotateReadSound, RotateMintSound, RotateConsumeSound, RotateFollowSound,
     OtherRequestsSound DEF Work, Rotate
<1>3. ASSUME NEW p \in Proc, Arrive(p) \/ Abort(p) PROVE \A r \in Proc : Sound(r)'
  BY <1>3, OtherRequestsSound
<1>4. ASSUME \/ \E f \in Family : SignIn(f)
             \/ Tick \/ Deactivate \/ (\E t \in Token : Settle(t) \/ Reclaim(t))
             \/ UNCHANGED vars
      PROVE  req' = req
  BY <1>4 DEF SignIn, Tick, Deactivate, Settle, Reclaim, vars
<1> QED BY <1>1, <1>2, <1>3, <1>4 DEF Next, Environment

-----------------------------------------------------------------------------
(* The invariant is inductive.                                             *)

\* A step that generates a token is a login or a rotation's mint.
LEMMA OnlyPutsAllocate ==
    ASSUME [Next]_vars,
           ~(\E f \in Family : SignIn(f)),
           ~(\E p \in Proc : RotateMint(p) \/ RotateReplay(p))
    PROVE  used' = used
<1>1. ASSUME NEW p \in Proc, Arrive(p) PROVE used' = used
  BY <1>1 DEF Arrive, PresentRefresh, PresentLogout, PresentLogoutAll, RevokeOwned,
         RevokeOthers, EndAllFamilies, RevokeDevice, Purge, StepUp, table
<1>2. ASSUME NEW p \in Proc, Work(p) PROVE used' = used
  BY <1>2 DEF Work, Rotate, RotateRead, RotateConsume, RotateRecheck, RotateFollow, Admit,
         LogoutLookup, LogoutAllLocate, Query, RevokeRow, EraseRow, StampRow, Delete, table
<1>3. CASE Environment
  BY <1>3 DEF Environment, Tick, Deactivate, Settle, Reclaim, Abort, Delete, table
<1>4. CASE UNCHANGED vars BY <1>4 DEF vars, table
<1> QED BY <1>1, <1>2, <1>3, <1>4 DEF Next

\* The rows a login or a rotation adds are sound, and only they are added.
LEMMA NewRowsSound ==
    ASSUME IInv, [Next]_vars, NEW t \in rows', t \notin used
    PROVE  t \in used' /\ RowSound(t)' /\ (origin'[t].how = "login" \/ origin'[t].parent \in used)
<1> DEFINE Fresh(f, s) == \E g \in Nat, m \in Time, a \in Time :
              row'[t] = Generation(f, g, s, m, a)
<1>1. ASSUME NEW f \in Family, NEW s \in Time, Fresh(f, s), login'[f] = s
      PROVE  RowSound(t)'
  <2>1. PICK g \in Nat, m \in Time, a \in Time : row'[t] = Generation(f, g, s, m, a)
    BY <1>1
  <2>2. /\ row'[t].family = f /\ row'[t].started = s /\ row'[t].succ = NoToken
        /\ row'[t].expires <= s + AbsoluteTTL
    <3>1. row'[t].expires <= s + AbsoluteTTL BY <2>1, GenerationIsRow
    <3> QED BY <2>1, <3>1 DEF Generation
  <2>3. f # NoFamily BY ParameterTypes
  <2> QED BY <1>1, <2>2, <2>3 DEF RowSound
<1>2. ASSUME NEW f \in Family, SignIn(f)
      PROVE  t \in used' /\ RowSound(t)' /\ origin'[t].how = "login"
  <2>1. PICK u \in Token \ used :
           /\ Put(u, Generation(f, 1, now, now, now))
           /\ origin' = [origin EXCEPT ![u] = [how |-> "login", parent |-> NoToken, at |-> now]]
    BY <1>2 DEF SignIn
  <2>2. t = u /\ t \in used' /\ row'[t] = Generation(f, 1, now, now, now)
    BY <2>1 DEF Put, IInv, Allocated, TypeOK
  <2>3. login'[f] = now /\ now \in Time BY <1>2 DEF SignIn, IInv, TypeOK
  <2>4. RowSound(t)' BY <1>1, <2>2, <2>3
  <2>5. origin'[t].how = "login" BY <2>1, <2>2 DEF IInv, TypeOK
  <2> QED BY <2>2, <2>4, <2>5
<1>3. ASSUME NEW p \in Proc, RotateMint(p) \/ RotateReplay(p)
      PROVE  t \in used' /\ RowSound(t)' /\ origin'[t].parent \in used
  <2> DEFINE q == req[p]
  <2>1. /\ q \in Request /\ q.moment \in Time /\ q.seen \in Row /\ q.tok \in used
        /\ q.seen.family \in Family /\ q.seen.started = login[q.seen.family]
    BY <1>3 DEF IInv, TypeOK, Request, Sound, RotateMint, RotateReplay, Rotating
  <2>2. /\ q.seen.gen \in Nat /\ q.seen.gen + 1 \in Nat /\ q.seen.started \in Time
        /\ q.seen.auth \in Time /\ AuthTime(q.seen) \in Time
    BY <2>1, AuthTimeType DEF Row, IInv
  <2>3. PICK u \in Token \ used, g \in Nat, a \in Time, o \in Origin :
           /\ Put(u, Generation(q.seen.family, g, q.seen.started, q.moment, a))
           /\ origin' = [origin EXCEPT ![u] = o] /\ o.parent = q.tok
    <3>1. /\ [how |-> "rotation", parent |-> q.tok, at |-> q.moment] \in Origin
          /\ [how |-> "replay", parent |-> q.tok, at |-> q.moment] \in Origin
      BY <2>1 DEF Origin, Request
    <3>2. CASE RotateMint(p)
      <4>1. PICK u \in Token \ used :
              /\ Put(u, Generation(q.seen.family, q.seen.gen + 1, q.seen.started,
                                   q.moment, AuthTime(q.seen)))
              /\ origin' = [origin EXCEPT ![u] =
                              [how |-> "rotation", parent |-> q.tok, at |-> q.moment]]
        BY <3>2 DEF RotateMint
      <4> QED BY <2>2, <3>1, <4>1
    <3>3. CASE RotateReplay(p)
      <4>1. PICK u \in Token \ used :
              /\ Put(u, Generation(q.seen.family, q.seen.gen, q.seen.started, q.moment, q.seen.auth))
              /\ origin' = [origin EXCEPT ![u] =
                              [how |-> "replay", parent |-> q.tok, at |-> q.moment]]
        BY <3>3 DEF RotateReplay
      <4> QED BY <2>2, <3>1, <4>1
    <3> QED BY <1>3, <3>2, <3>3
  <2>4. t = u BY <2>3 DEF Put, IInv, Allocated
  <2>5. t \in used' /\ row'[t] = Generation(q.seen.family, g, q.seen.started, q.moment, a)
    BY <2>3, <2>4 DEF Put, IInv, TypeOK
  <2>6. login' = login BY <1>3 DEF RotateMint, RotateReplay
  <2>7. Fresh(q.seen.family, q.seen.started) BY <2>1, <2>5
  <2> HIDE DEF Fresh
  <2>8. RowSound(t)' BY <1>1, <2>1, <2>2, <2>6, <2>7
  <2>9. origin'[t].parent \in used BY <2>1, <2>3, <2>4 DEF IInv, TypeOK
  <2> QED BY <2>5, <2>8, <2>9
<1>4. CASE ~(\E f \in Family : SignIn(f)) /\ ~(\E p \in Proc : RotateMint(p) \/ RotateReplay(p))
  <2>1. rows' \subseteq used
    <3>1. ASSUME NEW p \in Proc, NEW u \in Token, RevokeRow(p, u) PROVE rows' \subseteq used
      <4>1. u \in used BY <3>1 DEF RevokeRow, IInv, Sound
      <4> QED BY <3>1, <4>1 DEF RevokeRow, IInv, Allocated
    <3>2. ASSUME NEW p \in Proc, NEW u \in Token, EraseRow(p, u) \/ StampRow(p, u)
          PROVE  rows' \subseteq used
      BY <3>2 DEF EraseRow, StampRow, Delete, IInv, Allocated
    <3>3. ASSUME NEW p \in Proc,
                 \/ RotateRead(p) \/ RotateConsume(p) \/ RotateRecheck(p) \/ RotateFollow(p)
                 \/ Admit(p) \/ LogoutLookup(p) \/ LogoutAllLocate(p) \/ Query(p)
          PROVE  rows' \subseteq used
      BY <3>3 DEF RotateRead, RotateConsume, RotateRecheck, RotateFollow, Admit,
             LogoutLookup, LogoutAllLocate, Query, table, IInv, Allocated
    <3>4. ASSUME NEW p \in Proc, Arrive(p) PROVE rows' \subseteq used
      BY <3>4 DEF Arrive, PresentRefresh, PresentLogout, PresentLogoutAll, RevokeOwned,
             RevokeOthers, EndAllFamilies, RevokeDevice, Purge, StepUp, table, IInv, Allocated
    <3>5. CASE Environment
      BY <3>5 DEF Environment, Tick, Deactivate, Settle, Reclaim, Abort, Delete, table,
             IInv, Allocated
    <3>6. CASE UNCHANGED vars BY <3>6 DEF vars, table, IInv, Allocated
    <3> QED BY <1>4, <3>1, <3>2, <3>3, <3>4, <3>5, <3>6 DEF Next, Work, Rotate
  <2> QED BY <2>1
<1> QED BY <1>2, <1>3, <1>4

\* every row sound,
LEMMA NextRowsSound == ASSUME IInv, [Next]_vars, OldKept PROVE RowsSound'
<1> SUFFICES ASSUME NEW t \in rows' PROVE RowSound(t)' BY DEF RowsSound
<1>1. CASE t \notin used BY <1>1, NewRowsSound
<1>2. CASE t \in used /\ t \notin rows
  <2>1. row'[t] = Stub BY <1>2 DEF OldKept, Kept
  <2> QED BY <2>1 DEF RowSound, Stub
<1>3. CASE t \in used /\ t \in rows
  <2>1. Kept(t) /\ RowSound(t) /\ row[t] \in Row
    BY <1>3 DEF OldKept, IInv, RowsSound, TypeOK
  <2>2. row'[t].family = NoFamily \/ row'[t].family \in Family
    BY <1>3, <2>1, ParameterTypes DEF Kept, Row, Stub
  <2>3. row[t].family \in Family => login'[row[t].family] = login[row[t].family]
    <3> HAVE row[t].family \in Family
    <3>1. login[row[t].family] = row[t].started BY <2>1, ParameterTypes DEF RowSound
    <3>2. row[t].started # Never BY <2>1, ParameterTypes DEF Row, Time, Never
    <3> QED BY <3>1, <3>2 DEF OldKept
  <2>4. row'[t].consumed = Never => row'[t].succ = NoToken
    BY <1>3, <2>1 DEF Kept, RowSound
  <2> QED BY <1>3, <2>1, <2>2, <2>3, <2>4 DEF Kept, RowSound, Row
<1> QED BY <1>1, <1>2, <1>3

\* What a step hands to the client is a login's token or an admitted one.
LEMMA NewIssue ==
    ASSUME IInv, [Next]_vars, NEW t \in issued', t \notin issued
    PROVE  \/ t \in used' /\ t \notin used /\ t \in rows' /\ origin'[t].how = "login"
           \/ t \in used /\ Justified(t)
<1>1. ASSUME NEW f \in Family, SignIn(f)
      PROVE  t \in used' /\ t \notin used /\ t \in rows' /\ origin'[t].how = "login"
  BY <1>1 DEF SignIn, Put, IInv, TypeOK
<1>2. ASSUME NEW p \in Proc, Admit(p) PROVE t \in used /\ Justified(t)
  BY <1>2 DEF Admit, IInv, Sound
<1>3. CASE ~(\E f \in Family : SignIn(f)) /\ ~(\E p \in Proc : Admit(p))
  <2>1. ASSUME NEW p \in Proc, Arrive(p) PROVE issued' = issued
    BY <2>1 DEF Arrive, PresentRefresh, PresentLogout, PresentLogoutAll, RevokeOwned,
         RevokeOthers, EndAllFamilies, RevokeDevice, Purge, StepUp, history
  <2>2. ASSUME NEW p \in Proc, Work(p) PROVE issued' = issued
    BY <1>3, <2>2 DEF Work, Rotate, RotateRead, RotateMint, RotateConsume, RotateRecheck,
         RotateFollow, RotateReplay, LogoutLookup, LogoutAllLocate, Query, RevokeRow,
         EraseRow, StampRow, history
  <2>3. CASE Environment
    BY <2>3 DEF Environment, Tick, Deactivate, Settle, Reclaim, Abort, history
  <2>4. CASE UNCHANGED vars BY <2>4 DEF vars, history
  <2> QED BY <1>3, <2>1, <2>2, <2>3, <2>4 DEF Next
<1> QED BY <1>1, <1>2, <1>3

\* no token named before it is generated,
LEMMA NextAllocated == ASSUME IInv, [Next]_vars, OldKept PROVE Allocated'
<1>1. used \subseteq used' BY DEF OldKept
<1>2. rows' \subseteq used' BY <1>1, NewRowsSound
<1>3. issued' \subseteq used' BY <1>1, NewIssue DEF IInv, Allocated
<1>4. ASSUME NEW t \in used' PROVE origin'[t].how = "login" \/ origin'[t].parent \in used'
  <2>1. CASE t \in used BY <1>1, <2>1 DEF OldKept, IInv, Allocated
  <2>2. CASE t \notin used
    <3>1. t \in rows'
      BY <2>2, OnlyPutsAllocate DEF SignIn, RotateMint, RotateReplay, Put
    <3> QED BY <1>1, <2>2, <3>1, NewRowsSound
  <2> QED BY <2>1, <2>2
<1> QED BY <1>2, <1>3, <1>4 DEF Allocated

\* and every issue justified.
LEMMA NextJustified == ASSUME IInv, [Next]_vars, OldKept PROVE EveryIssueIsJustified'
<1> SUFFICES ASSUME NEW t \in issued' PROVE Justified(t)' BY DEF EveryIssueIsJustified
<1>1. CASE t \in issued
  BY <1>1, JustifiedStable DEF IInv, Allocated, EveryIssueIsJustified
<1>2. CASE t \notin issued /\ origin'[t].how = "login" BY <1>2 DEF Justified
<1>3. CASE t \notin issued /\ t \in used /\ Justified(t) BY <1>3, JustifiedStable
<1> QED BY <1>1, <1>2, <1>3, NewIssue

\* Nothing has been issued.
LEMMA InitInvariant == Init => IInv
<1> SUFFICES ASSUME Init PROVE IInv OBVIOUS
<1>1. TypeOK BY InitType
<1>2. \A p \in Proc : Sound(p) BY DEF Init, Sound, Idle, Rotating
<1> QED BY <1>1, <1>2 DEF Init, IInv, Allocated, RowsSound, EveryIssueIsJustified

\* Every step keeps the invariant.
LEMMA NextInvariant == IInv /\ [Next]_vars => IInv'
<1> SUFFICES ASSUME IInv, [Next]_vars PROVE IInv' OBVIOUS
<1>1. OldKept BY StepKeeps
<1>2. TypeOK' BY NextType DEF IInv
<1> QED BY <1>1, <1>2, NextAllocated, NextRowsSound, NextSound, NextJustified DEF IInv

\* So it holds in every reachable state.
LEMMA Inductive == Spec => []IInv
BY InitInvariant, NextInvariant, PTL DEF Spec

-----------------------------------------------------------------------------
(* Theorems.                                                               *)

\* Two requests never both rotate one refresh token, and a spent token is
\* answered only within the grace of its consumption
\* (sessions.SessionService.rotate, storage.DynamoRefreshTokenStore.consume).
THEOREM IssuesJustified == Spec => []EveryIssueIsJustified
BY Inductive, PTL DEF IInv

\* However often and however slowly a family is rotated and replayed, every row
\* expires within the absolute window of the login that began the family
\* (sessions.SessionService._mint).
THEOREM FamilyCap == Spec => []NoTokenOutlivesFamily
<1>1. IInv => NoTokenOutlivesFamily
  BY DEF IInv, RowsSound, RowSound, NoTokenOutlivesFamily
<1> QED BY <1>1, Inductive, PTL

\* No row un-revokes, un-consumes, changes its successor or loses a step-up,
\* whichever requests race for it (storage.DynamoRefreshTokenStore).
THEOREM ForwardOnly == Spec => RowsOnlyMoveForward
<1>1. IInv /\ [Next]_vars =>
         [\A t \in rows \cap rows' :
             /\ row[t].revoked => row'[t].revoked
             /\ row[t].consumed # Never =>
                   row'[t].consumed = row[t].consumed /\ row'[t].succ = row[t].succ
             /\ row[t].auth <= row'[t].auth]_vars
  <2> SUFFICES ASSUME IInv, [Next]_vars, NEW t \in rows \cap rows'
               PROVE  /\ row[t].revoked => row'[t].revoked
                      /\ row[t].consumed # Never =>
                            row'[t].consumed = row[t].consumed /\ row'[t].succ = row[t].succ
                      /\ row[t].auth <= row'[t].auth
    OBVIOUS
  <2>1. Kept(t) BY StepKeeps DEF OldKept, IInv, Allocated
  <2> QED BY <2>1 DEF Kept
<1> QED BY <1>1, Inductive, PTL DEF Spec, RowsOnlyMoveForward

\* A step outside a rotation, seen by a family that is dead before it.
LEMMA DeadRows ==
    ASSUME IInv, [Next]_vars, NEW f \in Started, Dead(f), NEW t \in rows', row'[t].family = f
    PROVE  row'[t].revoked
<1>0. f \in Family /\ login[f] # Never BY DEF Started
<1>1. CASE t \in used
  <2>1. Kept(t) BY <1>1, StepKeeps DEF OldKept
  <2>2. f # NoFamily BY <1>0, ParameterTypes
  <2> QED BY <1>1, <2>1, <2>2 DEF Kept, Dead, Stub
<1>2. CASE t \notin used
  <2>1. t \in used' BY <1>2, NewRowsSound
  <2>2. ASSUME NEW g \in Family, SignIn(g) PROVE FALSE
    <3>1. g # f BY <1>0, <2>2 DEF SignIn
    <3>2. row'[t].family = g
      <4>1. PICK u \in Token \ used : Put(u, Generation(g, 1, now, now, now))
        BY <2>2 DEF SignIn
      <4>2. t = u BY <1>2, <2>1, <4>1 DEF Put
      <4> QED BY <4>1, <4>2 DEF Put, Generation, IInv, TypeOK
    <3> QED BY <3>1, <3>2
  <2>3. ASSUME NEW p \in Proc, RotateMint(p) \/ RotateReplay(p) PROVE FALSE
    <3>1. req[p].seen.family # f BY <2>3 DEF Dead, RotateMint, RotateReplay, Rotating
    <3>2. row'[t].family = req[p].seen.family
      <4>1. PICK u, g, s, m, a : u \in Token \ used /\ Put(u, Generation(req[p].seen.family, g, s, m, a))
        BY <2>3 DEF RotateMint, RotateReplay
      <4>2. t = u BY <1>2, <2>1, <4>1 DEF Put
      <4> QED BY <4>1, <4>2 DEF Put, Generation, IInv, TypeOK
    <3> QED BY <3>1, <3>2
  <2> QED BY <1>2, <2>1, <2>2, <2>3, OnlyPutsAllocate
<1> QED BY <1>1, <1>2

\* Only the request that takes a step changes.
LEMMA OneRequestMoves ==
    ASSUME TypeOK, NEW p \in Proc, NEW r \in Proc, r # p, Arrive(r) \/ Work(r) \/ Abort(r)
    PROVE  req'[p] = req[p]
<1>1. \E n : Become(r, n)
  BY DEF Arrive, PresentRefresh, PresentLogout, PresentLogoutAll, RevokeOwned,
         RevokeOthers, EndAllFamilies, RevokeDevice, Purge, StepUp, Work, Rotate, RotateRead,
         RotateMint, RotateConsume, RotateRecheck, RotateFollow, RotateReplay, Admit,
         LogoutLookup, LogoutAllLocate, Query, RevokeRow, EraseRow, StampRow, Abort, Proceed
<1> QED BY <1>1 DEF Become, TypeOK

\* No request starts rotating a dead family: both reads refuse a revoked row.
LEMMA DeadRequests ==
    ASSUME IInv, [Next]_vars, NEW f \in Started, Dead(f),
           NEW p \in Proc, req'[p].at \in Rotating
    PROVE  req'[p].seen.family # f
<1> DEFINE q == req[p]
<1>0. q \in Request BY DEF IInv, TypeOK
<1>b. ASSUME NEW n, Become(p, n) PROVE req'[p] = n
  BY <1>b DEF Become, IInv, TypeOK
<1>i. ASSUME Become(p, Idle) PROVE FALSE
  <2>1. req'[p] = Idle BY <1>b, <1>i
  <2> QED BY <2>1 DEF Idle, Rotating
<1>r. ASSUME NEW F, NEW P, Become(p, RevokeFamilies(F, P)) PROVE FALSE
  <2>1. req'[p] = RevokeFamilies(F, P) BY <1>b, <1>r
  <2> QED BY <2>1 DEF RevokeFamilies, Idle, Rotating
<1>1. CASE req'[p] = q BY <1>1 DEF Dead
<1>2. CASE RotateRead(p) \/ RotateRecheck(p)
  <2> DEFINE r == row[q.tok]
  <2>1. CASE /\ q.tok \in rows /\ ~r.revoked
             /\ \E a \in {"mint", "follow"} : Become(p, [q EXCEPT !.at = a, !.seen = r])
    <3>1. PICK a \in {"mint", "follow"} : Become(p, [q EXCEPT !.at = a, !.seen = r]) BY <2>1
    <3>2. req'[p].seen = r
      <4> HIDE DEF r
      <4>1. req'[p] = [q EXCEPT !.at = a, !.seen = r] BY <1>b, <3>1
      <4> QED BY <1>0, <4>1 DEF Request
    <3> QED BY <2>1, <3>2 DEF Dead
  <2>2. CASE Become(p, Idle) \/ Become(p, RevokeFamilies({r.family}, {r.family}))
    BY <2>2, <1>i, <1>r
  <2>3. CASE RotateRead(p) BY <2>1, <2>2, <2>3 DEF RotateRead, Live
  <2>4. CASE RotateRecheck(p) BY <2>1, <2>2, <2>4 DEF RotateRecheck
  <2> QED BY <1>2, <2>3, <2>4
<1>3. CASE RotateMint(p) \/ RotateConsume(p) \/ RotateReplay(p)
  <2>1. q.at \in Rotating BY <1>3 DEF RotateMint, RotateConsume, RotateReplay, Rotating
  <2>2. req'[p].seen = q.seen
    <3>1. CASE RotateMint(p)
      <4>1. PICK t : Become(p, [q EXCEPT !.at = "consume", !.fresh = t]) BY <3>1 DEF RotateMint
      <4> QED BY <1>0, <1>b, <4>1 DEF Request
    <3>2. CASE RotateConsume(p)
      <4>1. Become(p, [q EXCEPT !.at = "admit"]) \/ Become(p, [q EXCEPT !.at = "recheck"])
        BY <3>2 DEF RotateConsume
      <4> QED BY <1>0, <1>b, <4>1 DEF Request
    <3>3. CASE RotateReplay(p)
      <4>1. PICK t : Become(p, [q EXCEPT !.at = "admit", !.fresh = t]) BY <3>3 DEF RotateReplay
      <4> QED BY <1>0, <1>b, <4>1 DEF Request
    <3> QED BY <1>3, <3>1, <3>2, <3>3
  <2> QED BY <2>1, <2>2 DEF Dead
<1>4. CASE RotateFollow(p)
  <2> DEFINE s == q.seen.succ
             a == Later(AuthTime(q.seen), AuthTime(row[s]))
             n == [q.seen EXCEPT !.gen = row[s].gen, !.auth = a]
  <2>1. q.at \in Rotating BY <1>4 DEF RotateFollow, Rotating
  <2>2. CASE s \in rows
    <3>1. n.family = q.seen.family
      <4>1. q.seen \in Row BY <1>0 DEF Request
      <4> HIDE DEF a
      <4> QED BY <4>1 DEF Row
    <3> HIDE DEF n
    <3>2. Become(p, [q EXCEPT !.at = "replay", !.seen = n])
      BY <1>4, <2>2 DEF RotateFollow, n
    <3>3. req'[p].seen = n BY <1>0, <3>2 DEF Become, IInv, TypeOK, Request
    <3> QED BY <2>1, <3>1, <3>3 DEF Dead
  <2>3. CASE s \notin rows
    BY <1>4, <1>r, <2>3 DEF RotateFollow
  <2> QED BY <2>2, <2>3
<1>5. CASE Arrive(p) \/ Admit(p) \/ LogoutLookup(p) \/ Abort(p)
  <2>1. ASSUME NEW n, Become(p, n), n.at \notin Rotating PROVE FALSE BY <1>b, <2>1
  <2>2. CASE Admit(p) \/ LogoutLookup(p) \/ Abort(p)
    BY <1>i, <1>r, <2>2 DEF Admit, LogoutLookup, Abort
  <2>3. CASE \/ \E g \in Family : RevokeOwned(p, g) \/ RevokeOthers(p, g)
             \/ \E d \in Device : RevokeDevice(p, d)
    BY <1>r, <2>3 DEF RevokeOwned, RevokeOthers, RevokeDevice
  <2>4. ASSUME NEW t, PresentRefresh(p, t) \/ PresentLogout(p, t) PROVE FALSE
    BY <2>1, <2>4 DEF PresentRefresh, PresentLogout, Idle, Rotating
  <2>5. ASSUME NEW g, NEW t, PresentLogoutAll(p, g, t) PROVE FALSE
    BY <2>1, <2>5 DEF PresentLogoutAll, Idle, Rotating
  <2>6. ASSUME NEW g, StepUp(p, g) PROVE FALSE
    BY <2>1, <2>6 DEF StepUp, Idle, Rotating
  <2>7. ASSUME NEW g, EndAllFamilies(p, g) PROVE FALSE
    BY <2>1, <2>7 DEF EndAllFamilies, RevokeFamilies, Idle, Rotating
  <2>8. CASE Purge(p) BY <2>1, <2>8 DEF Purge, Idle, Rotating
  <2> QED BY <1>5, <2>2, <2>3, <2>4, <2>5, <2>6, <2>7, <2>8 DEF Arrive
<1>6. ASSUME NEW n \in Request, NEW S \in SUBSET Token, Proceed(p, n, S) PROVE FALSE
  <2>1. req'[p] = Continue(n, S) BY <1>6 DEF Proceed, Become, IInv, TypeOK
  <2> QED BY <2>1, ContinueShape DEF Rotating
<1>7. CASE LogoutAllLocate(p)
  <2> DEFINE found == IF q.tok \in rows THEN {row[q.tok].family} \ {NoFamily} ELSE {}
             n == [q EXCEPT !.fams = @ \cup found, !.tok = NoToken]
  <2>1. found \subseteq Family BY DEF IInv, TypeOK, Row
  <2>2. n \in Request
    <3> HIDE DEF found
    <3> QED BY <1>0, <2>1 DEF Request
  <2> HIDE DEF n
  <2>3. Proceed(p, n, {}) BY <1>7 DEF LogoutAllLocate, n
  <2> QED BY <1>6, <2>2, <2>3
<1>8. CASE Query(p)
  <2>1. PICK F, S : S \in QueryResults(F) /\
           Proceed(p, [q EXCEPT !.fams = @ \ F, !.scope = @ \cup MustSee(F)], S)
    BY <1>8 DEF Query
  <2>2. S \subseteq Token /\ MustSee(F) \subseteq Token
    BY <2>1 DEF QueryResults, MaySee, MustSee, IInv, TypeOK
  <2> DEFINE n == [q EXCEPT !.fams = @ \ F, !.scope = @ \cup MustSee(F)]
  <2>3. n \in Request BY <1>0, <2>2 DEF Request
  <2> HIDE DEF n
  <2>4. Proceed(p, n, S) BY <2>1 DEF n
  <2> QED BY <1>6, <2>2, <2>3, <2>4
<1>9. ASSUME NEW t \in Token, RevokeRow(p, t) \/ EraseRow(p, t) \/ StampRow(p, t) PROVE FALSE
  <2>1. Proceed(p, q, q.todo \ {t}) BY <1>9 DEF RevokeRow, EraseRow, StampRow
  <2>2. q.todo \ {t} \in SUBSET Token BY <1>0 DEF Request
  <2> HIDE DEF q
  <2> QED BY <1>0, <1>6, <2>1, <2>2
<1>10. ASSUME NEW r \in Proc, r # p, Arrive(r) \/ Work(r) \/ Abort(r) PROVE req'[p] = q
  BY <1>10, OneRequestMoves DEF IInv
<1>11. ASSUME \/ \E g \in Family : SignIn(g)
              \/ Tick \/ Deactivate \/ (\E t \in Token : Settle(t) \/ Reclaim(t))
              \/ UNCHANGED vars
       PROVE  req' = req
  BY <1>11 DEF SignIn, Tick, Deactivate, Settle, Reclaim, vars
<1> QED BY <1>1, <1>2, <1>3, <1>4, <1>5, <1>7, <1>8, <1>9, <1>10, <1>11
    DEF Next, Work, Rotate, Environment

\* A family all of whose rows are revoked while no rotation of it is in flight
\* stays dead: no replay, step-up, stub or purge revives it
\* (sessions.SessionService.rotate and _after_failed_consume refuse what is revoked).
THEOREM DeadForGood == Spec => DeadStaysDead
<1>1. IInv /\ [Next]_vars => [\A f \in Started : Dead(f) => Dead(f)']_vars
  <2> SUFFICES ASSUME IInv, [Next]_vars, NEW f \in Started, Dead(f) PROVE Dead(f)'
    OBVIOUS
  <2>1. \A t \in rows' : row'[t].family = f => row'[t].revoked BY DeadRows
  <2>2. \A p \in Proc : req'[p].at \in Rotating => req'[p].seen.family # f BY DeadRequests
  <2> QED BY <2>1, <2>2 DEF Dead
<1> QED BY <1>1, Inductive, PTL DEF Spec, DeadStaysDead

-----------------------------------------------------------------------------
(* Sweeps: what a request that writes a family's rows has left to do.      *)

Sweeping == {"revoke", "erase", "stamp"}

\* The stage of a request agrees with its keys; of a revoking one, each row its
\* queries had to return is still to be written or is revoked, and each family it
\* has to query, or row it has to write, is of those its caller asked to end.
SweepSound(p) ==
    LET q == req[p] IN
    /\ q.at \in Sweeping => q.at = q.goal
    /\ q.at \notin Sweeping => q.todo = {}
    /\ q.scope \subseteq used
    /\ q.at = "locate" /\ q.tok \in rows => row[q.tok].family \in q.promised \cup {NoFamily}
    /\ q.goal = "revoke" =>
          /\ q.fams \subseteq q.promised
          /\ \A t \in q.scope : t \in q.todo \/ (t \in rows => row[t].revoked)
          /\ \A t \in q.todo \cap rows : row[t].family \in q.promised \cup {NoFamily}

SweepsSound == \A p \in Proc : SweepSound(p)

\* A key generated before a step stays revoked if it was.
LEMMA StaysRevoked ==
    ASSUME OldKept, NEW t \in used, t \in rows => row[t].revoked, t \in rows'
    PROVE  row'[t].revoked
BY DEF OldKept, Kept, Stub

\* A key generated before a step stays of the families it was of.
LEMMA StaysOf ==
    ASSUME OldKept, NEW t \in used, NEW P, t \in rows => row[t].family \in P \cup {NoFamily},
           t \in rows'
    PROVE  row'[t].family \in P \cup {NoFamily}
BY DEF OldKept, Kept, Stub

\* The presented token of a request that is about to look it up.
LEMMA LocateStays ==
    ASSUME IInv, OldKept, TypeOK', NEW t \in used \cup {NoToken}, NEW P,
           t \in rows => row[t].family \in P \cup {NoFamily}, t \in rows'
    PROVE  row'[t].family \in P \cup {NoFamily}
<1>1. t \in used BY ParameterTypes DEF TypeOK
<1> QED BY <1>1, StaysOf

\* A request that has not to do with sweeps yet, or no longer.
LEMMA SweepKeeps ==
    ASSUME IInv, SweepsSound, OldKept, TypeOK', NEW p \in Proc,
           req'[p].scope = req[p].scope, req'[p].todo = req[p].todo,
           req'[p].fams = req[p].fams, req'[p].promised = req[p].promised,
           req'[p].goal = req[p].goal,
           \/ req'[p].at = req[p].at /\ req'[p].tok = req[p].tok
           \/ req[p].at \notin Sweeping /\ req'[p].at \notin Sweeping \cup {"locate"}
    PROVE  SweepSound(p)'
<1> DEFINE q == req[p]
<1>1. /\ SweepSound(p) /\ q.todo \subseteq used /\ q.tok \in used \cup {NoToken}
      /\ used \subseteq used' /\ q.scope \subseteq used
  BY DEF SweepsSound, SweepSound, IInv, Sound, OldKept
<1>2. q.goal = "revoke" => \A t \in q.scope : t \in q.todo \/ (t \in rows' => row'[t].revoked)
  BY <1>1, StaysRevoked DEF SweepSound
<1>3. q.goal = "revoke" => \A t \in q.todo \cap rows' : row'[t].family \in q.promised \cup {NoFamily}
  BY <1>1, StaysOf DEF SweepSound
<1>4. q.at = "locate" /\ q.tok \in rows' => row'[q.tok].family \in q.promised \cup {NoFamily}
  BY <1>1, LocateStays DEF SweepSound
<1> QED BY <1>1, <1>2, <1>3, <1>4 DEF SweepSound, Sweeping

\* A request that has not begun to sweep, or has nothing more to do.
LEMMA SweepBegins ==
    ASSUME TypeOK, NEW p \in Proc, NEW n, Become(p, n),
           n.todo = {}, n.scope = {}, n.at \notin Sweeping,
           n.goal = "revoke" => n.fams \subseteq n.promised,
           n.at = "locate" /\ n.tok \in rows' => row'[n.tok].family \in n.promised \cup {NoFamily}
    PROVE  SweepSound(p)'
<1>1. req'[p] = n BY DEF Become, TypeOK
<1> QED BY <1>1 DEF SweepSound

\* A request that goes on with the keys S.
LEMMA SweepProceeds ==
    ASSUME TypeOK, NEW p \in Proc, NEW n \in Request, NEW S \in SUBSET Token, Proceed(p, n, S),
           n.scope \subseteq used',
           n.goal = "revoke" =>
              /\ n.fams \subseteq n.promised
              /\ \A t \in n.scope : t \in S \/ (t \in rows' => row'[t].revoked)
              /\ \A t \in S \cap rows' : row'[t].family \in n.promised \cup {NoFamily}
    PROVE  SweepSound(p)'
<1>1. req'[p] = Continue(n, S) BY DEF Proceed, Become, TypeOK
<1>2. CASE S # {}
  <2>1. /\ req'[p].at = n.goal /\ req'[p].goal = n.goal /\ req'[p].todo = S
        /\ req'[p].scope = n.scope /\ req'[p].fams = n.fams /\ req'[p].promised = n.promised
    BY <1>1, <1>2 DEF Continue, Request
  <2>2. n.goal \in Sweeping /\ n.goal # "locate" BY DEF Request, Sweeping
  <2> QED BY <2>1, <2>2 DEF SweepSound
<1>3. CASE S = {} /\ n.fams # {}
  <2>1. /\ req'[p].at = "query" /\ req'[p].goal = n.goal /\ req'[p].todo = {}
        /\ req'[p].scope = n.scope /\ req'[p].fams = n.fams /\ req'[p].promised = n.promised
    BY <1>1, <1>3 DEF Continue, Request
  <2> QED BY <1>3, <2>1 DEF SweepSound, Sweeping
<1>4. CASE S = {} /\ n.fams = {}
  <2>1. req'[p] = Idle BY <1>1, <1>4 DEF Continue
  <2> QED BY <2>1 DEF SweepSound, Sweeping, Idle
<1> QED BY <1>2, <1>3, <1>4

\* Requests that arrive: each starts with nothing to write, and a sign-out
\* everywhere with a token of a family it promised to end.
LEMMA ArriveSweeps ==
    ASSUME IInv, NEW p \in Proc, Arrive(p)
    PROVE  SweepSound(p)'
<1>1. ASSUME NEW F, NEW P, F \subseteq P, Become(p, RevokeFamilies(F, P)) PROVE SweepSound(p)'
  <2> DEFINE n == RevokeFamilies(F, P)
  <2>1. /\ n.todo = {} /\ n.scope = {} /\ n.at = "query" /\ n.fams = F /\ n.promised = P
    BY DEF RevokeFamilies, Idle
  <2> HIDE DEF n
  <2>2. Become(p, n) BY <1>1 DEF n
  <2> QED BY <1>1, <2>1, <2>2, SweepBegins DEF IInv, Sweeping
<1>2. ASSUME NEW t \in Token, NEW n,
             n \in { [Idle EXCEPT !.at = "read", !.tok = t, !.moment = now],
                    [Idle EXCEPT !.at = "lookup", !.tok = t] },
             Become(p, n)
      PROVE  SweepSound(p)'
  <2>1. /\ n.todo = {} /\ n.scope = {} /\ n.at \in {"read", "lookup"} /\ n.fams = {}
    BY <1>2 DEF Idle
  <2> QED BY <1>2, <2>1, SweepBegins DEF IInv, Sweeping
<1>3. ASSUME NEW f \in Family \cup {NoFamily}, NEW t \in Token \cup {NoToken},
             PresentLogoutAll(p, f, t)
      PROVE  SweepSound(p)'
  <2> DEFINE n == [Idle EXCEPT !.at = "locate", !.tok = t,
                     !.fams = {f} \ {NoFamily}, !.promised = Started]
  <2>0. Become(p, n) BY <1>3 DEF PresentLogoutAll
  <2>1. /\ n.todo = {} /\ n.scope = {} /\ n.at = "locate"
        /\ n.fams = {f} \ {NoFamily} /\ n.tok = t /\ n.promised = Started
    BY DEF Idle
  <2> HIDE DEF n
  <2>2. n.fams \subseteq n.promised BY <1>3, <2>1 DEF PresentLogoutAll
  <2>3. t \in rows' => row'[t].family \in Started \cup {NoFamily}
    <3> HAVE t \in rows'
    <3>1. t \in rows /\ row'[t] = row[t] BY <1>3 DEF PresentLogoutAll, table
    <3>2. row[t] \in Row /\ RowSound(t) BY <3>1 DEF IInv, TypeOK, RowsSound
    <3>3. CASE row[t].family # NoFamily
      <4>1. row[t].family \in Family /\ login[row[t].family] \in Time
        BY <3>2, <3>3 DEF Row, RowSound
      <4>2. Never \notin Time BY ParameterTypes DEF Never, Time
      <4> QED BY <3>1, <4>1, <4>2 DEF Started
    <3> QED BY <3>1, <3>3
  <2> QED BY <2>0, <2>1, <2>2, <2>3, SweepBegins DEF IInv, Sweeping
<1>4. ASSUME NEW f \in Family, RevokeOwned(p, f) PROVE SweepSound(p)'
  BY <1>1, <1>4 DEF RevokeOwned
<1>5. ASSUME NEW f \in Family, RevokeOthers(p, f) PROVE SweepSound(p)'
  <2>1. PICK L \in Listings : Become(p, RevokeFamilies(L \ {f}, Started \ {f}))
    BY <1>5 DEF RevokeOthers
  <2>2. L \ {f} \subseteq Started \ {f} BY DEF Listings
  <2> QED BY <1>1, <2>1, <2>2
<1>6. ASSUME NEW f \in Family, StepUp(p, f) PROVE SweepSound(p)'
  <2> DEFINE n == [Idle EXCEPT !.at = "query", !.goal = "stamp", !.fams = {f}, !.moment = now]
  <2>1. Become(p, n) BY <1>6 DEF StepUp
  <2>2. n.todo = {} /\ n.scope = {} /\ n.at = "query" /\ n.goal = "stamp" BY DEF Idle
  <2> HIDE DEF n
  <2> QED BY <2>1, <2>2, SweepBegins DEF IInv, Sweeping
<1>7. ASSUME NEW f \in Family \cup {NoFamily}, EndAllFamilies(p, f) PROVE SweepSound(p)'
  <2> DEFINE n == [RevokeFamilies(Family \ {f}, Family \ {f}) EXCEPT !.whole = TRUE]
  <2>1. Become(p, n) BY <1>7 DEF EndAllFamilies
  <2>2. /\ n.todo = {} /\ n.scope = {} /\ n.at = "query"
        /\ n.fams = Family \ {f} /\ n.promised = Family \ {f}
    BY DEF RevokeFamilies, Idle
  <2> HIDE DEF n
  <2> QED BY <2>1, <2>2, SweepBegins DEF IInv, Sweeping
<1>8. ASSUME NEW d \in Device, RevokeDevice(p, d) PROVE SweepSound(p)'
  <2>1. PICK F : /\ F \subseteq {g \in Started : DeviceOf[g] = d}
                 /\ Become(p, RevokeFamilies(F, {g \in Started : DeviceOf[g] = d}))
    BY <1>8 DEF RevokeDevice
  <2> QED BY <1>1, <2>1
<1>9. CASE Purge(p)
  <2> DEFINE n == [Idle EXCEPT !.at = "query", !.goal = "erase", !.whole = TRUE, !.fams = Family]
  <2>1. Become(p, n) BY <1>9 DEF Purge
  <2>2. n.todo = {} /\ n.scope = {} /\ n.at = "query" /\ n.goal = "erase" BY DEF Idle
  <2> HIDE DEF n
  <2> QED BY <2>1, <2>2, SweepBegins DEF IInv, Sweeping
<1>10. ASSUME NEW t \in Token, PresentRefresh(p, t) \/ PresentLogout(p, t) PROVE SweepSound(p)'
  BY <1>2, <1>10 DEF PresentRefresh, PresentLogout
<1> QED BY <1>3, <1>4, <1>5, <1>6, <1>7, <1>8, <1>9, <1>10 DEF Arrive

\* The steps of a rotation, of a logout's read and of an abandoned request.
LEMMA RotateSweeps ==
    ASSUME IInv, SweepsSound, OldKept, TypeOK', NEW p \in Proc,
           Rotate(p) \/ LogoutLookup(p) \/ Abort(p)
    PROVE  SweepSound(p)'
<1> DEFINE q == req[p]
<1>1. q \in Request BY DEF IInv, TypeOK
<1>2. CASE Become(p, Idle) BY <1>2, SweepBegins DEF IInv, Idle, Sweeping
<1>3. ASSUME NEW F, Become(p, RevokeFamilies(F, F)) PROVE SweepSound(p)'
  <2> DEFINE n == RevokeFamilies(F, F)
  <2>1. /\ n.todo = {} /\ n.scope = {} /\ n.at = "query" /\ n.fams = F /\ n.promised = F
    BY DEF RevokeFamilies, Idle
  <2> HIDE DEF n
  <2>2. Become(p, n) BY <1>3 DEF n
  <2> QED BY <2>1, <2>2, SweepBegins DEF IInv, Sweeping
<1>4. ASSUME NEW a \in Rotating, NEW s, q.at \in Rotating \cup {"read"},
             Become(p, [q EXCEPT !.at = a, !.seen = s])
      PROVE  SweepSound(p)'
  <2>1. req'[p] = [q EXCEPT !.at = a, !.seen = s] BY <1>4 DEF Become, IInv, TypeOK
  <2>2. /\ req'[p].scope = q.scope /\ req'[p].todo = q.todo /\ req'[p].fams = q.fams
        /\ req'[p].promised = q.promised /\ req'[p].goal = q.goal /\ req'[p].at = a
    BY <1>1, <2>1 DEF Request
  <2> QED BY <1>4, <2>2, SweepKeeps DEF Sweeping, Rotating
<1>5. ASSUME NEW a \in Rotating, NEW t, q.at \in Rotating,
             \/ Become(p, [q EXCEPT !.at = a, !.fresh = t])
             \/ Become(p, [q EXCEPT !.at = a])
      PROVE  SweepSound(p)'
  <2>1. req'[p] \in {[q EXCEPT !.at = a, !.fresh = t], [q EXCEPT !.at = a]}
    BY <1>5 DEF Become, IInv, TypeOK
  <2>2. /\ req'[p].scope = q.scope /\ req'[p].todo = q.todo /\ req'[p].fams = q.fams
        /\ req'[p].promised = q.promised /\ req'[p].goal = q.goal /\ req'[p].at = a
    BY <1>1, <2>1 DEF Request
  <2> QED BY <1>5, <2>2, SweepKeeps DEF Sweeping, Rotating
<1>6. CASE RotateRead(p) BY <1>2, <1>3, <1>4, <1>6 DEF RotateRead, Rotating
<1>7. CASE RotateRecheck(p) BY <1>2, <1>3, <1>4, <1>7 DEF RotateRecheck, Rotating
<1>8. CASE RotateFollow(p)
  <2>1. CASE q.seen.succ \in rows
    <3>1. PICK s : Become(p, [q EXCEPT !.at = "replay", !.seen = s])
      BY <1>8, <2>1 DEF RotateFollow
    <3>2. q.at \in Rotating BY <1>8 DEF RotateFollow, Rotating
    <3> QED BY <1>4, <3>1, <3>2 DEF Rotating
  <2> QED BY <1>3, <1>8, <2>1 DEF RotateFollow
<1>9. CASE RotateMint(p) \/ RotateReplay(p) \/ RotateConsume(p)
  <2>1. CASE RotateMint(p)
    <3>1. PICK t : Become(p, [q EXCEPT !.at = "consume", !.fresh = t]) BY <2>1 DEF RotateMint
    <3>2. q.at \in Rotating /\ "consume" \in Rotating BY <2>1 DEF RotateMint, Rotating
    <3> HIDE DEF q
    <3> QED BY <1>5, <3>1, <3>2
  <2>2. CASE RotateReplay(p)
    <3>1. PICK t : Become(p, [q EXCEPT !.at = "admit", !.fresh = t]) BY <2>2 DEF RotateReplay
    <3>2. q.at \in Rotating /\ "admit" \in Rotating BY <2>2 DEF RotateReplay, Rotating
    <3> HIDE DEF q
    <3> QED BY <1>5, <3>1, <3>2
  <2>3. CASE RotateConsume(p)
    <3>1. Become(p, [q EXCEPT !.at = "admit"]) \/ Become(p, [q EXCEPT !.at = "recheck"])
      BY <2>3 DEF RotateConsume
    <3> QED BY <1>5, <2>3, <3>1 DEF RotateConsume, Rotating
  <2> QED BY <1>9, <2>1, <2>2, <2>3
<1>10. CASE Admit(p) BY <1>2, <1>3, <1>10 DEF Admit
<1>11. CASE LogoutLookup(p) BY <1>2, <1>3, <1>11 DEF LogoutLookup
<1>12. CASE Abort(p) BY <1>2, <1>12 DEF Abort
<1> QED BY <1>6, <1>7, <1>8, <1>9, <1>10, <1>11, <1>12 DEF Rotate

\* A sign-out everywhere adds the family of the token it came with.
LEMMA LocateSweeps ==
    ASSUME IInv, SweepsSound, OldKept, NEW p \in Proc, LogoutAllLocate(p)
    PROVE  SweepSound(p)'
<1> DEFINE q == req[p]
           found == IF q.tok \in rows THEN {row[q.tok].family} \ {NoFamily} ELSE {}
           n == [q EXCEPT !.fams = @ \cup found, !.tok = NoToken]
<1>1. q \in Request /\ SweepSound(p) /\ q.at = "locate"
  BY DEF IInv, TypeOK, SweepsSound, LogoutAllLocate
<1>2. q.scope \subseteq used /\ q.todo = {} BY <1>1 DEF SweepSound, Sweeping
<1>3. found \subseteq Family BY DEF IInv, TypeOK, Row
<1>4. found \subseteq q.promised BY <1>1 DEF SweepSound
<1> HIDE DEF found
<1>5. /\ n \in Request /\ n.scope = q.scope /\ n.goal = q.goal /\ n.promised = q.promised
      /\ n.fams = q.fams \cup found
  BY <1>1, <1>3 DEF Request
<1>6. Proceed(p, n, {}) BY DEF LogoutAllLocate, found
<1> HIDE DEF n
<1>7. used' = used /\ rows' = rows /\ row' = row BY DEF LogoutAllLocate, table
<1>8. n.goal = "revoke" =>
         /\ n.fams \subseteq n.promised
         /\ \A t \in n.scope : t \in rows' => row'[t].revoked
  BY <1>1, <1>2, <1>4, <1>5, <1>7 DEF SweepSound
<1> QED BY <1>2, <1>5, <1>6, <1>7, <1>8, SweepProceeds DEF IInv

\* A query adds what the index shows of the families asked for, every settled row
\* of theirs included.
LEMMA QuerySweeps ==
    ASSUME IInv, SweepsSound, OldKept, NEW p \in Proc, Query(p)
    PROVE  SweepSound(p)'
<1> DEFINE q == req[p]
<1>1. q \in Request /\ SweepSound(p) /\ q.at = "query"
  BY DEF IInv, TypeOK, SweepsSound, Query
<1>2. q.scope \subseteq used /\ q.todo = {} BY <1>1 DEF SweepSound, Sweeping
<1>3. PICK F, S : /\ F \subseteq q.fams /\ S \in QueryResults(F)
                  /\ Proceed(p, [q EXCEPT !.fams = @ \ F, !.scope = @ \cup MustSee(F)], S)
  BY DEF Query
<1> DEFINE n == [q EXCEPT !.fams = @ \ F, !.scope = @ \cup MustSee(F)]
<1>4. /\ S \subseteq used /\ MustSee(F) \subseteq used /\ MustSee(F) \subseteq S
      /\ \A t \in S : row[t].family \in F
  BY <1>3 DEF QueryResults, MaySee, MustSee, IInv, Allocated
<1>5. S \subseteq Token /\ MustSee(F) \subseteq Token BY <1>4 DEF IInv, TypeOK
<1>6. /\ n \in Request /\ n.scope = q.scope \cup MustSee(F) /\ n.goal = q.goal
      /\ n.promised = q.promised /\ n.fams = q.fams \ F
  BY <1>1, <1>5 DEF Request
<1> HIDE DEF n
<1>7. Proceed(p, n, S) BY <1>3 DEF n
<1>8. used' = used /\ rows' = rows /\ row' = row BY DEF Query, table
<1>9. n.goal = "revoke" =>
         /\ n.fams \subseteq n.promised
         /\ \A t \in n.scope : t \in S \/ (t \in rows' => row'[t].revoked)
         /\ \A t \in S \cap rows' : row'[t].family \in n.promised \cup {NoFamily}
  BY <1>1, <1>2, <1>3, <1>4, <1>6, <1>8 DEF SweepSound
<1>10. n.scope \subseteq used' BY <1>2, <1>4, <1>6, <1>8
<1> QED BY <1>5, <1>6, <1>7, <1>9, <1>10, SweepProceeds DEF IInv

\* A write crosses off one row, which is revoked by then if the request revokes.
LEMMA WriteSweeps ==
    ASSUME IInv, SweepsSound, OldKept, NEW p \in Proc, NEW u \in Token,
           RevokeRow(p, u) \/ EraseRow(p, u) \/ StampRow(p, u)
    PROVE  SweepSound(p)'
<1> DEFINE q == req[p]
           S == q.todo \ {u}
<1>1. q \in Request /\ SweepSound(p) /\ q.todo \subseteq used /\ q.at \in Sweeping
  BY DEF IInv, TypeOK, SweepsSound, Sound, RevokeRow, EraseRow, StampRow, Sweeping
<1>2. Proceed(p, q, S) /\ S \subseteq Token
  BY <1>1 DEF RevokeRow, EraseRow, StampRow, Request
<1>3. q.scope \subseteq used' BY <1>1 DEF SweepSound, OldKept
<1>4. ASSUME q.goal = "revoke"
      PROVE  /\ q.fams \subseteq q.promised
             /\ \A t \in q.scope : t \in S \/ (t \in rows' => row'[t].revoked)
             /\ \A t \in S \cap rows' : row'[t].family \in q.promised \cup {NoFamily}
  <2>1. RevokeRow(p, u) BY <1>1, <1>4 DEF SweepSound, EraseRow, StampRow
  <2>2. row'[u].revoked BY <2>1 DEF RevokeRow, IInv, TypeOK, Row, Stub
  <2>3. \A t \in q.scope : t \in q.todo \/ (t \in rows' => row'[t].revoked)
    BY <1>1, <1>4, StaysRevoked DEF SweepSound
  <2>4. \A t \in q.todo \cap rows' : row'[t].family \in q.promised \cup {NoFamily}
    BY <1>1, <1>4, StaysOf DEF SweepSound
  <2> QED BY <1>1, <1>4, <2>2, <2>3, <2>4 DEF SweepSound
<1> HIDE DEF q, S
<1> QED BY <1>1, <1>2, <1>3, <1>4, SweepProceeds DEF IInv

\* No step of any actor leaves a sweep wrong about what it has left.
LEMMA NextSweeps == IInv /\ IInv' /\ SweepsSound /\ [Next]_vars => SweepsSound'
<1> SUFFICES ASSUME IInv, IInv', SweepsSound, [Next]_vars, NEW p \in Proc
             PROVE  SweepSound(p)'
  BY DEF SweepsSound
<1> DEFINE q == req[p]
<1>1. OldKept /\ TypeOK' BY StepKeeps DEF IInv
<1>2. CASE req'[p] = q BY <1>1, <1>2, SweepKeeps
<1>3. CASE Arrive(p) BY <1>3, ArriveSweeps
<1>4. CASE Work(p) \/ Abort(p)
  BY <1>1, <1>4, RotateSweeps, LocateSweeps, QuerySweeps, WriteSweeps DEF Work
<1>5. ASSUME NEW r \in Proc, r # p, Arrive(r) \/ Work(r) \/ Abort(r) PROVE req'[p] = q
  BY <1>5, OneRequestMoves DEF IInv
<1>6. ASSUME \/ \E g \in Family : SignIn(g)
             \/ Tick \/ Deactivate \/ (\E t \in Token : Settle(t) \/ Reclaim(t))
             \/ UNCHANGED vars
      PROVE  req' = req
  BY <1>6 DEF SignIn, Tick, Deactivate, Settle, Reclaim, vars
<1> QED BY <1>2, <1>3, <1>4, <1>5, <1>6 DEF Next, Environment

\* So every sweep is sound in every reachable state.
LEMMA SweepsStaySound == Spec => []SweepsSound
<1>1. Init => SweepsSound BY DEF Init, SweepsSound, SweepSound, Sweeping, Idle
<1> QED BY <1>1, Inductive, NextSweeps, PTL DEF Spec

\* However rotations race it, a revoking request leaves none of the settled rows its
\* queries had to return spendable when it has no key left to write for it
\* (storage.DynamoRefreshTokenStore._revoke).
THEOREM SweepsComplete == Spec => SweepsAreComplete
<1>1. IInv /\ SweepsSound /\ [Next]_vars => [SweepLeavesNone]_vars
  <2> SUFFICES ASSUME IInv, SweepsSound, Next, NEW p \in Proc, req[p].goal = "revoke",
                      ~Abort(p), NEW t \in req[p].scope, t \notin req'[p].todo, t \in rows'
               PROVE  row'[t].revoked
    BY DEF SweepLeavesNone
  <2> DEFINE q == req[p]
  <2>1. OldKept /\ q \in Request /\ SweepSound(p) /\ t \in used
    BY StepKeeps DEF IInv, TypeOK, SweepsSound, SweepSound
  <2>2. CASE t \notin q.todo BY <2>1, <2>2, StaysRevoked DEF SweepSound
  <2>3. CASE t \in q.todo
    <3>1. q.at = "revoke" BY <2>1, <2>3 DEF SweepSound
    <3>2. req'[p] # q BY <2>3
    <3>3. ASSUME NEW u \in Token, RevokeRow(p, u) PROVE row'[t].revoked
      <4>1. CASE u = t BY <3>3, <4>1 DEF RevokeRow, IInv, TypeOK, Row, Stub
      <4>2. CASE u # t
        <5>1. req'[p] = Continue(q, q.todo \ {u})
          BY <3>3 DEF RevokeRow, Proceed, Become, IInv, TypeOK
        <5>2. q.todo \ {u} # {} BY <2>3, <4>2
        <5>3. req'[p].todo = q.todo \ {u} BY <2>1, <5>1, <5>2 DEF Continue, Request
        <5> QED BY <2>3, <4>2, <5>3
      <4> QED BY <4>1, <4>2
    <3>4. ~Arrive(p)
      <4>1. Arrive(p) => q = Idle
        BY DEF Arrive, PresentRefresh, PresentLogout, PresentLogoutAll, RevokeOwned,
           RevokeOthers, EndAllFamilies, RevokeDevice, Purge, StepUp, Asks
      <4> QED BY <3>1, <4>1 DEF Idle
    <3>5. Work(p) => \E u \in Token : RevokeRow(p, u)
      BY <3>1 DEF Work, Rotate, RotateRead, RotateMint, RotateConsume, RotateRecheck,
         RotateFollow, RotateReplay, Admit, LogoutLookup, LogoutAllLocate, Query,
         EraseRow, StampRow
    <3>6. ASSUME NEW r \in Proc, r # p, Arrive(r) \/ Work(r) \/ Abort(r) PROVE req'[p] = q
      BY <3>6, OneRequestMoves DEF IInv
    <3>7. ASSUME \/ \E g \in Family : SignIn(g)
                 \/ Tick \/ Deactivate \/ (\E k \in Token : Settle(k) \/ Reclaim(k))
          PROVE  req' = req
      BY <3>7 DEF SignIn, Tick, Deactivate, Settle, Reclaim
    <3> QED BY <3>2, <3>3, <3>4, <3>5, <3>6, <3>7 DEF Next, Environment
  <2> QED BY <2>2, <2>3
<1> QED BY <1>1, Inductive, SweepsStaySound, PTL DEF Spec, SweepsAreComplete

-----------------------------------------------------------------------------
(* What a session claims of its authentication while no row is gone.       *)

\* The clock runs, and no family was authenticated after now or before its login.
AuthSound ==
    /\ 1 <= now
    /\ \A f \in Family :
          /\ lastAuth[f] <= now
          /\ login[f] # Never => 1 <= login[f] /\ login[f] <= lastAuth[f]

\* An authentication at instant a is one of the family f.
Within(a, f) == login[f] <= a /\ a <= lastAuth[f]

\* A row claims an authentication of its family and leads to a row of its family.
TokenReal(t) ==
    /\ Within(row[t].auth, row[t].family)
    /\ row[t].succ # NoToken =>
          row[t].succ \in used /\ row[row[t].succ].family = row[t].family

\* A rotation holds a record of its token's family, with an authentication of that
\* family, and names rows of it; a step-up stamps the families it is about.
RequestReal(p) ==
    LET q == req[p] IN
    /\ q.at \in Rotating =>
          Within(q.seen.auth, q.seen.family) /\ row[q.tok].family = q.seen.family
    /\ q.at = "consume" => row[q.fresh].family = q.seen.family
    /\ q.at = "follow" => q.seen.succ \in used /\ row[q.seen.succ].family = q.seen.family
    /\ q.at \notin Sweeping \cup {"query"} => q.goal = "revoke"
    /\ q.goal = "stamp" =>
          /\ \A t \in q.todo : q.moment <= lastAuth[row[t].family]
          /\ \A f \in q.fams : f \in Family /\ q.moment <= lastAuth[f]

AllReal == (\A t \in used : TokenReal(t)) /\ (\A p \in Proc : RequestReal(p))

\* SessionsAreSound made inductive.
RealInv == AuthSound /\ (NothingIsGone => AllReal)

\* The setting of a step that leaves every row in place.
InPlace ==
    /\ IInv /\ IInv' /\ SweepsSound /\ AuthSound /\ AuthSound' /\ AllReal /\ OldKept /\ NothingIsGone'
    /\ \A f \in Family : lastAuth[f] <= lastAuth'[f]

\* What such a step leaves of a key that was there.
LEMMA KeyInPlace ==
    ASSUME InPlace, NEW u \in used
    PROVE  /\ u \in Token /\ u \in used' /\ u \in rows /\ u \in rows' /\ row[u] \in Row
           /\ row[u].family \in Family /\ row'[u].family = row[u].family
           /\ login[row[u].family] \in Time /\ login'[row[u].family] = login[row[u].family]
           /\ TokenReal(u)
<1>1. u \in Token /\ u \in used' /\ u \in rows' /\ row'[u].family # NoFamily /\ Kept(u)
  BY DEF InPlace, NothingIsGone, OldKept, IInv, TypeOK
<1>2. u \in rows /\ row'[u].family = row[u].family BY <1>1 DEF Kept, Stub
<1>3. row[u] \in Row /\ row[u].family \in Family
  BY <1>1, <1>2 DEF InPlace, IInv, TypeOK, Row
<1>4. login[row[u].family] = row[u].started /\ row[u].started \in Time
  BY <1>1, <1>2, <1>3 DEF InPlace, IInv, RowsSound, RowSound, Row
<1>5. login'[row[u].family] = login[row[u].family]
  BY <1>3, <1>4, ParameterTypes DEF InPlace, OldKept, Time, Never
<1>6. TokenReal(u) BY DEF InPlace, AllReal
<1> QED BY <1>1, <1>2, <1>3, <1>4, <1>5, <1>6

\* An authentication of a begun family stays one.
LEMMA WithinStays ==
    ASSUME InPlace, NEW a \in Time, NEW f \in Family, login'[f] = login[f], Within(a, f)
    PROVE  login'[f] <= a /\ a <= lastAuth'[f]
<1>1. /\ lastAuth[f] \in Nat /\ lastAuth'[f] \in Nat /\ a \in Nat /\ lastAuth[f] <= lastAuth'[f]
  BY ParameterTypes DEF InPlace, IInv, TypeOK, Time
<1> QED BY <1>1 DEF Within

\* The instant of a step-up stays one its family was authenticated by.
LEMMA StampStays ==
    ASSUME InPlace, NEW m \in Time, NEW f \in Family, m <= lastAuth[f]
    PROVE  m <= lastAuth'[f]
<1>1. lastAuth[f] \in Nat /\ lastAuth'[f] \in Nat /\ m \in Nat /\ lastAuth[f] <= lastAuth'[f]
  BY ParameterTypes DEF InPlace, IInv, TypeOK, Time
<1> QED BY <1>1

\* A row that keeps its authentication and its successor.
LEMMA TokenStays ==
    ASSUME InPlace, NEW t \in used, row'[t].auth = row[t].auth, row'[t].succ = row[t].succ
    PROVE  TokenReal(t)'
<1>1. row[t].auth \in Time /\ row[t].family \in Family BY KeyInPlace DEF Row
<1>2. Within(row[t].auth, row[t].family)' BY <1>1, KeyInPlace, WithinStays DEF TokenReal, Within
<1>3. row[t].succ # NoToken =>
         row[t].succ \in used' /\ row'[row[t].succ].family = row'[t].family
  BY KeyInPlace DEF TokenReal
<1> QED BY <1>2, <1>3 DEF TokenReal

\* A request that did not move.
LEMMA RequestStays ==
    ASSUME InPlace, NEW p \in Proc, req'[p] = req[p]
    PROVE  RequestReal(p)'
<1> DEFINE q == req[p]
<1>1. q \in Request /\ Sound(p) /\ RequestReal(p) /\ q.moment \in Time /\ q.seen \in Row
  BY DEF InPlace, IInv, TypeOK, AllReal, Request
<1>2. ASSUME q.at \in Rotating
      PROVE  Within(q.seen.auth, q.seen.family)' /\ row'[q.tok].family = q.seen.family
  <2>1. q.tok \in used /\ row[q.tok].family = q.seen.family /\ q.seen.auth \in Time
    BY <1>1, <1>2 DEF Sound, RequestReal, Row
  <2>2. /\ q.seen.family \in Family /\ login'[q.seen.family] = login[q.seen.family]
        /\ row'[q.tok].family = q.seen.family
    BY <2>1, KeyInPlace
  <2>3. Within(q.seen.auth, q.seen.family) BY <1>1, <1>2 DEF RequestReal
  <2> QED BY <2>1, <2>2, <2>3, WithinStays DEF Within
<1>3. q.at = "consume" => row'[q.fresh].family = q.seen.family
  BY <1>1, KeyInPlace DEF RequestReal, Sound
<1>4. q.at = "follow" => q.seen.succ \in used' /\ row'[q.seen.succ].family = q.seen.family
  BY <1>1, KeyInPlace DEF RequestReal
<1>5. ASSUME q.goal = "stamp", NEW t \in q.todo PROVE q.moment <= lastAuth'[row'[t].family]
  <2>1. t \in used /\ q.moment <= lastAuth[row[t].family]
    BY <1>1, <1>5 DEF Sound, RequestReal
  <2>2. row[t].family \in Family /\ row'[t].family = row[t].family BY <2>1, KeyInPlace
  <2> QED BY <1>1, <2>1, <2>2, StampStays
<1>6. ASSUME q.goal = "stamp", NEW f \in q.fams PROVE f \in Family /\ q.moment <= lastAuth'[f]
  BY <1>1, <1>6, StampStays DEF RequestReal
<1> QED BY <1>1, <1>2, <1>3, <1>4, <1>5, <1>6 DEF RequestReal

\* A request that is at rest, or about to look something up.
LEMMA RequestRests ==
    ASSUME TypeOK, NEW p \in Proc, NEW n, Become(p, n), n.at \notin Rotating, n.todo = {},
           n.goal = "stamp" => n.at = "query"
                                 /\ \A f \in n.fams : f \in Family /\ n.moment <= lastAuth'[f],
           n.at \notin Sweeping \cup {"query"} => n.goal = "revoke"
    PROVE  RequestReal(p)'
<1>1. req'[p] = n BY DEF Become, TypeOK
<1> QED BY <1>1 DEF RequestReal, Rotating

\* A request that revokes families, or is over.
LEMMA RevokingRests ==
    ASSUME TypeOK, NEW p \in Proc, NEW F, NEW P,
           Become(p, Idle) \/ Become(p, RevokeFamilies(F, P))
    PROVE  RequestReal(p)'
<1>1. CASE Become(p, Idle) BY <1>1, RequestRests DEF Idle, Rotating
<1>2. CASE Become(p, RevokeFamilies(F, P))
  <2> DEFINE n == RevokeFamilies(F, P)
  <2>1. n.at = "query" /\ n.todo = {} /\ n.goal = "revoke" BY DEF RevokeFamilies, Idle
  <2> HIDE DEF n
  <2>2. Become(p, n) BY <1>2 DEF n
  <2> QED BY <2>1, <2>2, RequestRests DEF Rotating
<1> QED BY <1>1, <1>2

\* A request that goes on with the keys S.
LEMMA RequestProceeds ==
    ASSUME TypeOK, NEW p \in Proc, NEW n \in Request, NEW S \in SUBSET Token, Proceed(p, n, S),
           n.goal = "stamp" =>
              /\ \A t \in S : n.moment <= lastAuth'[row'[t].family]
              /\ \A f \in n.fams : f \in Family /\ n.moment <= lastAuth'[f]
    PROVE  RequestReal(p)'
<1>1. req'[p] = Continue(n, S) BY DEF Proceed, Become, TypeOK
<1>2. CASE S # {}
  <2>1. /\ req'[p].at = n.goal /\ req'[p].goal = n.goal /\ req'[p].todo = S
        /\ req'[p].fams = n.fams /\ req'[p].moment = n.moment
    BY <1>1, <1>2 DEF Continue, Request
  <2>2. n.goal \in Sweeping BY DEF Request, Sweeping
  <2> QED BY <2>1, <2>2 DEF RequestReal, Sweeping, Rotating
<1>3. CASE S = {} /\ n.fams # {}
  <2>1. /\ req'[p].at = "query" /\ req'[p].goal = n.goal /\ req'[p].todo = {}
        /\ req'[p].fams = n.fams /\ req'[p].moment = n.moment
    BY <1>1, <1>3 DEF Continue, Request
  <2> QED BY <2>1 DEF RequestReal, Sweeping, Rotating
<1>4. CASE S = {} /\ n.fams = {}
  <2>1. req'[p] = Idle BY <1>1, <1>4 DEF Continue
  <2> QED BY <2>1 DEF RequestReal, Rotating, Idle
<1> QED BY <1>2, <1>3, <1>4

\* Only the request that takes the step changes.
LEMMA OthersReal ==
    ASSUME InPlace, NEW p \in Proc, NEW n, Become(p, n), RequestReal(p)'
    PROVE  \A r \in Proc : RequestReal(r)'
<1>1. ASSUME NEW r \in Proc, r # p PROVE RequestReal(r)'
  <2>1. req'[r] = req[r] BY <1>1 DEF Become, InPlace, IInv, TypeOK
  <2> QED BY <2>1, RequestStays
<1> QED BY <1>1

\* A step that writes no row.
LEMMA TokensStay ==
    ASSUME InPlace, UNCHANGED <<row, used>>
    PROVE  \A t \in used' : TokenReal(t)'
BY TokenStays

\* A step that adds one row, of the family f and authenticated at a.
LEMMA PutReal ==
    ASSUME InPlace, NEW t \in Token \ used, NEW f \in Family, NEW g, NEW s, NEW m,
           NEW a \in Time, Put(t, Generation(f, g, s, m, a)), Within(a, f)'
    PROVE  /\ \A u \in used' : TokenReal(u)'
           /\ row'[t].family = f
<1>1. row'[t] = Generation(f, g, s, m, a) BY DEF Put, InPlace, IInv, TypeOK
<1>2. row'[t].family = f /\ row'[t].auth = a /\ row'[t].succ = NoToken
  BY <1>1 DEF Generation
<1>3. TokenReal(t)' BY <1>2 DEF TokenReal, Within
<1>4. ASSUME NEW u \in used PROVE TokenReal(u)'
  <2>1. u # t /\ row'[u] = row[u] BY DEF Put, InPlace, IInv, TypeOK
  <2> QED BY <2>1, TokenStays
<1>5. used' = used \cup {t} BY DEF Put
<1> QED BY <1>2, <1>3, <1>4, <1>5

\* A login is the authentication its row claims.
LEMMA SignInReal ==
    ASSUME InPlace, NEW f \in Family, SignIn(f)
    PROVE  AllReal'
<1>1. PICK a \in Time : a = now BY DEF InPlace, IInv, TypeOK
<1>2. PICK t \in Token \ used : Put(t, Generation(f, 1, a, a, a)) BY <1>1 DEF SignIn
<1>3. a \in Nat /\ login'[f] = a /\ lastAuth'[f] = a
  BY <1>1, ParameterTypes DEF SignIn, InPlace, IInv, TypeOK, Time
<1>4. Within(a, f)' BY <1>3 DEF Within
<1>5. \A u \in used' : TokenReal(u)' BY <1>2, <1>4, PutReal
<1>6. req' = req BY DEF SignIn
<1> QED BY <1>5, <1>6, RequestStays DEF AllReal

\* The authentication a rotation holds, and the row it is of.
LEMMA HeldReal ==
    ASSUME InPlace, NEW p \in Proc, req[p].at \in Rotating
    PROVE  LET q == req[p] IN
           /\ q \in Request /\ q.goal = "revoke" /\ q.seen \in Row /\ q.seen.auth \in Time
           /\ q.moment \in Time
           /\ q.tok \in used /\ row[q.tok].family = q.seen.family /\ q.seen.family \in Family
           /\ Within(q.seen.auth, q.seen.family)
           /\ AuthTime(q.seen) = q.seen.auth
           /\ login'[q.seen.family] = login[q.seen.family]
<1> DEFINE q == req[p]
<1>1. q \in Request /\ Sound(p) /\ RequestReal(p) /\ q.seen \in Row /\ q.moment \in Time
  BY DEF InPlace, IInv, TypeOK, AllReal, Request
<1>2. /\ q.tok \in used /\ row[q.tok].family = q.seen.family /\ q.seen.family \in Family
      /\ Within(q.seen.auth, q.seen.family) /\ q.seen.auth \in Time
  BY <1>1 DEF Sound, RequestReal, Row
<1>3. login[q.seen.family] \in Time /\ login'[q.seen.family] = login[q.seen.family]
  BY <1>2, KeyInPlace
<1>4. 1 <= login[q.seen.family] BY <1>2, <1>3, ParameterTypes DEF InPlace, AuthSound, Time, Never
<1>5. q.seen.auth > 0
  BY <1>2, <1>3, <1>4, ParameterTypes DEF Within, Time
<1>6. q.goal = "revoke" BY <1>1 DEF RequestReal, Sweeping, Rotating
<1> QED BY <1>1, <1>2, <1>3, <1>5, <1>6 DEF AuthTime

\* A record read of the table is authenticated as its family was.
LEMMA RotateReadReal ==
    ASSUME InPlace, NEW p \in Proc, RotateRead(p) \/ RotateRecheck(p)
    PROVE  RequestReal(p)'
<1> DEFINE q == req[p]
           k == row[q.tok]
<1>1. q \in Request /\ Sound(p) /\ RequestReal(p) BY DEF InPlace, IInv, TypeOK, AllReal
<1>2. rows \subseteq used /\ UNCHANGED <<row, login, lastAuth, used>>
  BY DEF InPlace, IInv, Allocated, RotateRead, RotateRecheck, table, history
<1>3. q.goal = "revoke"
  BY <1>1 DEF RotateRead, RotateRecheck, RequestReal, Sweeping
<1>4. CASE Become(p, Idle) BY <1>4, RevokingRests DEF InPlace, IInv
<1>5. CASE Become(p, RevokeFamilies({k.family}, {k.family}))
  BY <1>5, RevokingRests DEF InPlace, IInv
<1>6. ASSUME NEW a \in {"mint", "follow"}, q.tok \in rows, a = "follow" => k.succ # NoToken,
             Become(p, [q EXCEPT !.at = a, !.seen = k])
      PROVE  RequestReal(p)'
  <2>1. TokenReal(q.tok) BY <1>2, <1>6, KeyInPlace
  <2>2. login'[k.family] <= k.auth /\ k.auth <= lastAuth'[k.family]
    BY <1>2, <2>1 DEF TokenReal, Within
  <2>3. a = "follow" => k.succ \in used' /\ row'[k.succ].family = k.family
    BY <1>2, <1>6, <2>1 DEF TokenReal
  <2>4. /\ req'[p].at = a /\ req'[p].seen = k /\ req'[p].tok = q.tok /\ req'[p].goal = "revoke"
    <3> HIDE DEF k
    <3>1. req'[p] = [q EXCEPT !.at = a, !.seen = k] BY <1>6 DEF Become, InPlace, IInv, TypeOK
    <3> QED BY <1>1, <1>3, <3>1 DEF Request
  <2>5. row'[q.tok].family = k.family BY <1>2
  <2> HIDE DEF k, q
  <2>6. a \notin {"consume"} /\ a \in {"mint", "follow"} BY <1>6
  <2> QED BY <2>6, <2>2, <2>3, <2>4, <2>5 DEF RequestReal, Within
<1>7. CASE RotateRead(p)
  <2>1. CASE q.tok \in rows /\ Become(p, [q EXCEPT !.at = "mint", !.seen = k]) BY <1>6, <2>1
  <2> QED BY <1>4, <1>5, <1>7, <2>1 DEF RotateRead
<1>8. CASE RotateRecheck(p)
  <2>1. CASE q.tok \in rows /\ WithinGrace(k, q.moment)
             /\ Become(p, [q EXCEPT !.at = "follow", !.seen = k])
    BY <1>6, <2>1 DEF WithinGrace
  <2> QED BY <1>4, <1>5, <1>8, <2>1 DEF RotateRecheck
<1> QED BY <1>7, <1>8

\* The successor found lends an authentication of the same family.
LEMMA RotateFollowReal ==
    ASSUME InPlace, NEW p \in Proc, RotateFollow(p)
    PROVE  RequestReal(p)'
<1> DEFINE q == req[p]
           s == q.seen.succ
           a == Later(AuthTime(q.seen), AuthTime(row[s]))
           n == [q.seen EXCEPT !.gen = row[s].gen, !.auth = a]
<1>1. /\ q \in Request /\ q.at = "follow" /\ q.goal = "revoke" /\ q.seen \in Row /\ q.tok \in used
      /\ row[q.tok].family = q.seen.family /\ q.seen.family \in Family
      /\ Within(q.seen.auth, q.seen.family) /\ AuthTime(q.seen) = q.seen.auth
      /\ q.seen.auth \in Time
  BY HeldReal DEF RotateFollow, Rotating
<1>2. s \in used /\ row[s].family = q.seen.family
  BY <1>1 DEF InPlace, AllReal, RequestReal
<1>3. s \in rows /\ row[s] \in Row /\ TokenReal(s) /\ login[q.seen.family] \in Time
  BY <1>2, KeyInPlace
<1>4. row[s].auth \in Time /\ Within(row[s].auth, q.seen.family)
  BY <1>2, <1>3 DEF TokenReal, Row
<1>5. AuthTime(row[s]) = row[s].auth
  <2>1. 1 <= login[q.seen.family]
    BY <1>1, <1>3, ParameterTypes DEF InPlace, AuthSound, Time, Never
  <2>2. row[s].auth > 0 BY <1>3, <1>4, <2>1, ParameterTypes DEF Within, Time
  <2> QED BY <2>2 DEF AuthTime
<1>6. a \in Time /\ Within(a, q.seen.family) BY <1>1, <1>4, <1>5 DEF Later
<1> HIDE DEF a
<1>7. n.family = q.seen.family /\ n.auth = a BY <1>1 DEF Row
<1>8. Become(p, [q EXCEPT !.at = "replay", !.seen = n])
  BY <1>3 DEF RotateFollow, a
<1> HIDE DEF n
<1>9. /\ req'[p].at = "replay" /\ req'[p].seen = n /\ req'[p].tok = q.tok
      /\ req'[p].goal = "revoke"
  BY <1>1, <1>8 DEF Become, InPlace, IInv, TypeOK, Request
<1>10. UNCHANGED <<row, login, lastAuth>> BY DEF RotateFollow, table, history
<1>11. login'[q.seen.family] <= a /\ a <= lastAuth'[q.seen.family]
  BY <1>6, <1>10 DEF Within
<1> HIDE DEF q
<1> QED BY <1>1, <1>7, <1>9, <1>10, <1>11 DEF RequestReal, Within

\* Both mints carry the authentication they hold, and change no other row.
LEMMA RotateMintReal ==
    ASSUME InPlace, NEW p \in Proc, RotateMint(p) \/ RotateReplay(p)
    PROVE  AllReal'
<1> DEFINE q == req[p]
<1>1. q.at \in Rotating BY DEF RotateMint, RotateReplay, Rotating
<1>2. /\ q \in Request /\ q.goal = "revoke" /\ q.tok \in used
      /\ row[q.tok].family = q.seen.family /\ AuthTime(q.seen) = q.seen.auth
  BY <1>1, HeldReal
<1>3. PICK a \in Time, f \in Family : a = q.seen.auth /\ f = q.seen.family BY <1>1, HeldReal
<1>4. login'[f] = login[f] /\ Within(a, f) BY <1>1, <1>3, HeldReal
<1>5. login'[f] <= a /\ a <= lastAuth'[f] BY <1>4, WithinStays
<1>6. Within(a, f)' BY <1>5 DEF Within
<1>7. ASSUME NEW t \in Token \ used, NEW g, NEW s, NEW m, NEW b \in {"consume", "admit"},
             Put(t, Generation(f, g, s, m, a)),
             Become(p, [q EXCEPT !.at = b, !.fresh = t])
      PROVE  AllReal'
  <2>1. (\A u \in used' : TokenReal(u)') /\ row'[t].family = f BY <1>6, <1>7, PutReal
  <2>2. /\ req'[p].at = b /\ req'[p].fresh = t /\ req'[p].seen = q.seen
        /\ req'[p].tok = q.tok /\ req'[p].goal = "revoke"
    BY <1>2, <1>7 DEF Become, InPlace, IInv, TypeOK, Request
  <2>3. row'[q.tok].family = f BY <1>2, <1>3, KeyInPlace
  <2>4. RequestReal(p)'
    <3>1. Within(req[p].seen.auth, req[p].seen.family)' BY <1>3, <1>5, <2>2 DEF Within
    <3>2. b # "follow" BY <1>7
    <3> HIDE DEF q
    <3> QED BY <1>3, <2>1, <2>2, <2>3, <3>1, <3>2 DEF RequestReal
  <2> QED BY <1>7, <2>1, <2>4, OthersReal DEF AllReal
<1>8. CASE RotateMint(p)
  <2>1. PICK t \in Token \ used :
           /\ Put(t, Generation(q.seen.family, q.seen.gen + 1, q.seen.started,
                                q.moment, AuthTime(q.seen)))
           /\ Become(p, [q EXCEPT !.at = "consume", !.fresh = t])
    BY <1>8 DEF RotateMint
  <2>2. Put(t, Generation(f, q.seen.gen + 1, q.seen.started, q.moment, a))
    BY <1>2, <1>3, <2>1
  <2> HIDE DEF q
  <2> QED BY <1>7, <2>1, <2>2
<1>9. CASE RotateReplay(p)
  <2>1. PICK t \in Token \ used :
           /\ Put(t, Generation(q.seen.family, q.seen.gen, q.seen.started, q.moment, q.seen.auth))
           /\ Become(p, [q EXCEPT !.at = "admit", !.fresh = t])
    BY <1>9 DEF RotateReplay
  <2>2. Put(t, Generation(f, q.seen.gen, q.seen.started, q.moment, a)) BY <1>3, <2>1
  <2> HIDE DEF q
  <2> QED BY <1>7, <2>1, <2>2
<1> QED BY <1>8, <1>9

\* The successor recorded is a row of the same family.
LEMMA RotateConsumeReal ==
    ASSUME InPlace, NEW p \in Proc, RotateConsume(p)
    PROVE  AllReal'
<1> DEFINE q == req[p]
<1>1. /\ q \in Request /\ q.at = "consume" /\ q.goal = "revoke" /\ q.tok \in used
      /\ row[q.tok].family = q.seen.family /\ Within(q.seen.auth, q.seen.family)
      /\ q.fresh \in used /\ row[q.fresh].family = q.seen.family
  <2>1. Sound(p) /\ RequestReal(p) BY DEF InPlace, IInv, AllReal
  <2> QED BY <2>1, HeldReal DEF RotateConsume, Rotating, Sound, RequestReal
<1>2. UNCHANGED <<used, login, lastAuth>> BY DEF RotateConsume, history
<1>3. PICK b \in {"admit", "recheck"} : Become(p, [q EXCEPT !.at = b])
  BY DEF RotateConsume
<1>4. /\ req'[p].at = b /\ req'[p].seen = q.seen /\ req'[p].tok = q.tok
      /\ req'[p].goal = "revoke"
  BY <1>1, <1>3 DEF Become, InPlace, IInv, TypeOK, Request
<1>5. RequestReal(p)'
  <2>1. Within(req[p].seen.auth, req[p].seen.family)' BY <1>1, <1>2, <1>4 DEF Within
  <2>2. row'[q.tok].family = q.seen.family BY <1>1, KeyInPlace
  <2>3. b \notin {"consume", "follow"} OBVIOUS
  <2> HIDE DEF q
  <2> QED BY <1>4, <2>1, <2>2, <2>3 DEF RequestReal
<1>6. ASSUME NEW t \in used PROVE TokenReal(t)'
  <2>1. row[t] \in Row /\ t \in Token BY <1>6, KeyInPlace
  <2>2. CASE row'[t] = row[t] BY <2>2, TokenStays
  <2>3. CASE row'[t] # row[t]
    <3>1. row' = [row EXCEPT ![q.tok].consumed = q.moment, ![q.tok].succ = q.fresh]
      BY <2>3 DEF RotateConsume
    <3>2. t = q.tok BY <2>1, <2>3, <3>1 DEF InPlace, IInv, TypeOK
    <3>3. row'[t].auth = row[t].auth /\ row'[t].succ = q.fresh
      BY <2>1, <3>1, <3>2 DEF InPlace, IInv, TypeOK, Row
    <3>4. row'[t].family = q.seen.family /\ row'[q.fresh].family = q.seen.family
      BY <1>1, <3>2, KeyInPlace
    <3>5. Within(row[t].auth, row[t].family) BY KeyInPlace DEF TokenReal
    <3>6. Within(row[t].auth, row[t].family)' BY <1>1, <1>2, <3>2, <3>3, <3>4, <3>5 DEF Within
    <3> QED BY <1>1, <1>2, <3>3, <3>4, <3>6 DEF TokenReal
  <2> QED BY <2>2, <2>3
<1> QED BY <1>2, <1>3, <1>5, <1>6, OthersReal DEF AllReal

\* What a step-up's requests still have to do once they go on.
LEMMA SweepReal ==
    ASSUME InPlace, NEW p \in Proc, NEW n \in Request, NEW S \in SUBSET used,
           n.goal = req[p].goal, n.moment = req[p].moment, Proceed(p, n, S),
           n.goal = "stamp" =>
              /\ \A t \in S : n.moment <= lastAuth[row[t].family]
              /\ \A f \in n.fams : f \in Family /\ n.moment <= lastAuth[f]
    PROVE  \A r \in Proc : RequestReal(r)'
<1>1. n.moment \in Time /\ S \in SUBSET Token BY DEF Request, InPlace, IInv, TypeOK
<1>2. ASSUME n.goal = "stamp", NEW t \in S PROVE n.moment <= lastAuth'[row'[t].family]
  BY <1>1, <1>2, KeyInPlace, StampStays
<1>3. ASSUME n.goal = "stamp", NEW f \in n.fams PROVE f \in Family /\ n.moment <= lastAuth'[f]
  BY <1>1, <1>3, StampStays
<1>4. RequestReal(p)' BY <1>1, <1>2, <1>3, RequestProceeds DEF InPlace, IInv
<1>5. Become(p, Continue(n, S)) BY DEF Proceed
<1> QED BY <1>4, <1>5, OthersReal

\* The rows a query returns are of the families it asks for.
LEMMA QueryReal ==
    ASSUME InPlace, NEW p \in Proc, Query(p)
    PROVE  AllReal'
<1> DEFINE q == req[p]
<1>1. q \in Request /\ RequestReal(p) BY DEF InPlace, IInv, TypeOK, AllReal
<1>2. PICK F, S : /\ F \subseteq q.fams /\ S \in QueryResults(F)
                  /\ Proceed(p, [q EXCEPT !.fams = @ \ F, !.scope = @ \cup MustSee(F)], S)
  BY DEF Query
<1> DEFINE n == [q EXCEPT !.fams = @ \ F, !.scope = @ \cup MustSee(F)]
<1>3. /\ S \subseteq used /\ MustSee(F) \subseteq Token /\ \A t \in S : row[t].family \in F
  BY <1>2 DEF QueryResults, MaySee, MustSee, InPlace, IInv, TypeOK
<1>4. /\ n \in Request /\ n.goal = q.goal /\ n.moment = q.moment /\ n.fams = q.fams \ F
  BY <1>1, <1>3 DEF Request
<1> HIDE DEF n
<1>5. Proceed(p, n, S) BY <1>2 DEF n
<1>6. n.goal = "stamp" =>
         /\ \A t \in S : n.moment <= lastAuth[row[t].family]
         /\ \A f \in n.fams : f \in Family /\ n.moment <= lastAuth[f]
  BY <1>1, <1>2, <1>3, <1>4 DEF RequestReal
<1>7. \A r \in Proc : RequestReal(r)' BY <1>3, <1>4, <1>5, <1>6, SweepReal
<1>8. UNCHANGED <<row, used>> BY DEF Query, table
<1> QED BY <1>7, <1>8, TokensStay DEF AllReal

\* A sign-out everywhere stamps nothing.
LEMMA LocateReal ==
    ASSUME InPlace, NEW p \in Proc, LogoutAllLocate(p)
    PROVE  AllReal'
<1> DEFINE q == req[p]
           found == IF q.tok \in rows THEN {row[q.tok].family} \ {NoFamily} ELSE {}
           n == [q EXCEPT !.fams = @ \cup found, !.tok = NoToken]
<1>1. q \in Request /\ RequestReal(p) /\ q.at = "locate"
  BY DEF InPlace, IInv, TypeOK, AllReal, LogoutAllLocate
<1>2. q.goal = "revoke" BY <1>1 DEF RequestReal, Sweeping
<1>3. found \subseteq Family BY DEF InPlace, IInv, TypeOK, Row
<1> HIDE DEF found
<1>4. n \in Request /\ n.goal = q.goal /\ n.moment = q.moment BY <1>1, <1>3 DEF Request
<1>5. Proceed(p, n, {}) BY DEF LogoutAllLocate, found
<1> HIDE DEF n
<1>6. \A r \in Proc : RequestReal(r)' BY <1>2, <1>4, <1>5, SweepReal
<1>7. UNCHANGED <<row, used>> BY DEF LogoutAllLocate, table
<1> QED BY <1>6, <1>7, TokensStay DEF AllReal

\* No write of a sweep makes a row claim more than its family's last authentication.
LEMMA WriteReal ==
    ASSUME InPlace, NEW p \in Proc, NEW u \in Token, RevokeRow(p, u) \/ StampRow(p, u)
    PROVE  AllReal'
<1> DEFINE q == req[p]
           S == q.todo \ {u}
<1>1. /\ q \in Request /\ RequestReal(p) /\ q.moment \in Time /\ q.todo \subseteq used
      /\ SweepSound(p) /\ u \in q.todo
  BY DEF InPlace, IInv, TypeOK, AllReal, SweepsSound, Request, Sound, RevokeRow, StampRow
<1>2. UNCHANGED <<used, login, lastAuth>> BY DEF RevokeRow, StampRow
<1>3. Proceed(p, q, S) /\ S \in SUBSET used
  BY <1>1 DEF RevokeRow, StampRow
<1>4. \A r \in Proc : RequestReal(r)'
  <2>1. q.goal = "stamp" =>
           /\ \A t \in S : q.moment <= lastAuth[row[t].family]
           /\ \A f \in q.fams : f \in Family /\ q.moment <= lastAuth[f]
    BY <1>1 DEF RequestReal
  <2> HIDE DEF S
  <2> QED BY <1>1, <1>3, <2>1, SweepReal
<1>5. ASSUME NEW t \in used PROVE TokenReal(t)'
  <2>1. row[t] \in Row /\ t \in Token /\ t \in rows /\ TokenReal(t) /\ row[t].family \in Family
        /\ row'[t].family = row[t].family
    BY <1>5, KeyInPlace
  <2>2. CASE row'[t] = row[t] BY <2>2, TokenStays
  <2>3. CASE RevokeRow(p, u) /\ row'[t] # row[t]
    <3>1. row'[t] = [row[t] EXCEPT !.revoked = TRUE]
      BY <2>1, <2>3 DEF RevokeRow, InPlace, IInv, TypeOK
    <3>2. row'[t].auth = row[t].auth /\ row'[t].succ = row[t].succ BY <2>1, <3>1 DEF Row
    <3> QED BY <3>2, TokenStays
  <2>4. CASE StampRow(p, u) /\ row'[t] # row[t]
    <3> DEFINE a == Later(row[t].auth, q.moment)
    <3>1. t = u /\ row'[t] = [row[t] EXCEPT !.auth = a]
      BY <2>1, <2>4 DEF StampRow, InPlace, IInv, TypeOK
    <3>2. q.goal = "stamp" BY <1>1, <2>4 DEF SweepSound, StampRow, Sweeping
    <3>3. q.moment <= lastAuth[row[t].family] BY <1>1, <3>1, <3>2 DEF RequestReal
    <3>4. /\ row[t].auth \in Nat /\ q.moment \in Nat /\ login[row[t].family] \in Nat
          /\ lastAuth[row[t].family] \in Nat
      <4>1. row[t].auth \in Time /\ login[row[t].family] \in Time /\ lastAuth[row[t].family] \in Time
        BY <2>1, KeyInPlace DEF InPlace, IInv, TypeOK, Row
      <4> QED BY <1>1, <4>1, ParameterTypes DEF Time
    <3>5. login[row[t].family] <= row[t].auth /\ row[t].auth <= lastAuth[row[t].family]
      BY <2>1 DEF TokenReal, Within
    <3>6. login[row[t].family] <= a /\ a <= lastAuth[row[t].family]
      BY <3>3, <3>4, <3>5 DEF Later
    <3> HIDE DEF a
    <3>7. row'[t].auth = a /\ row'[t].succ = row[t].succ BY <2>1, <3>1 DEF Row
    <3>8. Within(row[t].auth, row[t].family)' BY <1>2, <2>1, <3>6, <3>7 DEF Within
    <3>9. row[t].succ # NoToken =>
             row[t].succ \in used' /\ row'[row[t].succ].family = row'[t].family
      BY <1>2, <2>1, KeyInPlace DEF TokenReal
    <3> QED BY <3>7, <3>8, <3>9 DEF TokenReal
  <2> QED BY <2>2, <2>3, <2>4
<1> QED BY <1>2, <1>4, <1>5 DEF AllReal

\* A request that arrives knows no row; a step-up comes with its own instant.
LEMMA ArriveReal ==
    ASSUME InPlace, NEW p \in Proc, Arrive(p)
    PROVE  AllReal'
<1>1. UNCHANGED <<row, used>>
  BY DEF Arrive, PresentRefresh, PresentLogout, PresentLogoutAll, RevokeOwned,
         RevokeOthers, EndAllFamilies, RevokeDevice, Purge, StepUp, table
<1>2. TypeOK /\ \E n : Become(p, n)
  BY DEF InPlace, IInv, Arrive, PresentRefresh, PresentLogout, PresentLogoutAll, RevokeOwned,
         RevokeOthers, EndAllFamilies, RevokeDevice, Purge, StepUp
<1>3. ASSUME NEW t \in Token, NEW n,
             n \in { [Idle EXCEPT !.at = "read", !.tok = t, !.moment = now],
                    [Idle EXCEPT !.at = "lookup", !.tok = t] },
             Become(p, n)
      PROVE  RequestReal(p)'
  <2>1. n.at \in {"read", "lookup"} /\ n.todo = {} /\ n.goal = "revoke" BY <1>3 DEF Idle
  <2> QED BY <1>2, <1>3, <2>1, RequestRests DEF Rotating
<1>4. ASSUME NEW f, NEW t, PresentLogoutAll(p, f, t) PROVE RequestReal(p)'
  <2> DEFINE n == [Idle EXCEPT !.at = "locate", !.tok = t,
                     !.fams = {f} \ {NoFamily}, !.promised = Started]
  <2>1. Become(p, n) BY <1>4 DEF PresentLogoutAll
  <2>2. n.at = "locate" /\ n.todo = {} /\ n.goal = "revoke" BY DEF Idle
  <2> HIDE DEF n
  <2> QED BY <1>2, <2>1, <2>2, RequestRests DEF Rotating
<1>5. ASSUME \/ \E f \in Family : RevokeOwned(p, f) \/ RevokeOthers(p, f)
             \/ \E d \in Device : RevokeDevice(p, d)
      PROVE  RequestReal(p)'
  BY <1>2, <1>5, RevokingRests DEF RevokeOwned, RevokeOthers, RevokeDevice
<1>6. ASSUME NEW f \in Family, StepUp(p, f) PROVE RequestReal(p)'
  <2> DEFINE n == [Idle EXCEPT !.at = "query", !.goal = "stamp", !.fams = {f}, !.moment = now]
  <2>1. Become(p, n) BY <1>6 DEF StepUp
  <2>2. n.at = "query" /\ n.todo = {} /\ n.fams = {f} /\ n.moment = now BY DEF Idle
  <2>3. lastAuth'[f] = now /\ now <= now
    BY <1>6, ParameterTypes DEF StepUp, InPlace, IInv, TypeOK, Time
  <2> HIDE DEF n
  <2>4. \A g \in n.fams : g \in Family /\ n.moment <= lastAuth'[g] BY <2>2, <2>3
  <2> QED BY <1>2, <2>1, <2>2, <2>4, RequestRests DEF Rotating
<1>7. ASSUME NEW f, EndAllFamilies(p, f) PROVE RequestReal(p)'
  <2> DEFINE n == [RevokeFamilies(Family \ {f}, Family \ {f}) EXCEPT !.whole = TRUE]
  <2>1. Become(p, n) BY <1>7 DEF EndAllFamilies
  <2>2. n.at = "query" /\ n.todo = {} /\ n.goal = "revoke" BY DEF RevokeFamilies, Idle
  <2> HIDE DEF n
  <2> QED BY <1>2, <2>1, <2>2, RequestRests DEF Rotating
<1>8. ASSUME Purge(p) PROVE RequestReal(p)'
  <2> DEFINE n == [Idle EXCEPT !.at = "query", !.goal = "erase", !.whole = TRUE, !.fams = Family]
  <2>1. Become(p, n) BY <1>8 DEF Purge
  <2>2. n.at = "query" /\ n.todo = {} /\ n.goal = "erase" BY DEF Idle
  <2> HIDE DEF n
  <2> QED BY <1>2, <2>1, <2>2, RequestRests DEF Rotating
<1>9. ASSUME NEW t \in Token, PresentRefresh(p, t) \/ PresentLogout(p, t) PROVE RequestReal(p)'
  BY <1>3, <1>9 DEF PresentRefresh, PresentLogout
<1>10. RequestReal(p)' BY <1>4, <1>5, <1>6, <1>7, <1>8, <1>9 DEF Arrive
<1> QED BY <1>1, <1>2, <1>10, OthersReal, TokensStay DEF AllReal

\* Time passes, logins and step-ups are stamped with it, and nothing else moves them.
LEMMA NextAuth ==
    ASSUME IInv, AuthSound, [Next]_vars
    PROVE  AuthSound' /\ \A f \in Family : lastAuth[f] <= lastAuth'[f]
<1>1. /\ now \in Nat /\ login \in [Family -> Time \cup {Never}] /\ lastAuth \in [Family -> Nat]
      /\ Time \subseteq Nat /\ Never \notin Nat /\ \A f \in Family : lastAuth[f] <= now
  BY ParameterTypes DEF IInv, TypeOK, Time, Never, AuthSound
<1>2. CASE UNCHANGED <<now, login, lastAuth>> BY <1>1, <1>2 DEF AuthSound
<1>3. CASE Tick BY <1>1, <1>3 DEF Tick, history, AuthSound
<1>4. ASSUME NEW g \in Family, now' = now, lastAuth' = [lastAuth EXCEPT ![g] = now],
             \/ login' = [login EXCEPT ![g] = now]
             \/ login' = login
      PROVE  AuthSound' /\ \A f \in Family : lastAuth[f] <= lastAuth'[f]
  <2>1. ASSUME NEW f \in Family
        PROVE  /\ lastAuth[f] <= lastAuth'[f] /\ lastAuth'[f] <= now
               /\ login'[f] # Never => 1 <= login'[f] /\ login'[f] <= lastAuth'[f]
    <3>1. lastAuth'[f] = IF f = g THEN now ELSE lastAuth[f] BY <1>1, <1>4
    <3>2. login'[f] = login[f] \/ (f = g /\ login'[f] = now) BY <1>1, <1>4
    <3>3. login[f] # Never => login[f] \in Nat BY <1>1
    <3> QED BY <1>1, <3>1, <3>2, <3>3 DEF AuthSound
  <2> QED BY <1>4, <2>1 DEF AuthSound
<1>5. ASSUME NEW f \in Family, SignIn(f)
      PROVE  AuthSound' /\ \A g \in Family : lastAuth[g] <= lastAuth'[g]
  BY <1>4, <1>5 DEF SignIn
<1>6. ASSUME NEW p \in Proc, NEW f \in Family, StepUp(p, f)
      PROVE  AuthSound' /\ \A g \in Family : lastAuth[g] <= lastAuth'[g]
  BY <1>4, <1>6 DEF StepUp
<1>7. ASSUME NEW p \in Proc, Arrive(p), ~(\E f \in Family : StepUp(p, f))
      PROVE  UNCHANGED <<now, login, lastAuth>>
  BY <1>7 DEF Arrive, PresentRefresh, PresentLogout, PresentLogoutAll, RevokeOwned,
         RevokeOthers, EndAllFamilies, RevokeDevice, Purge, history
<1>8. ASSUME NEW p \in Proc, Work(p) PROVE UNCHANGED <<now, login, lastAuth>>
  BY <1>8 DEF Work, Rotate, RotateRead, RotateMint, RotateConsume, RotateRecheck, RotateFollow,
         RotateReplay, Admit, LogoutLookup, LogoutAllLocate, Query, RevokeRow, EraseRow,
         StampRow, history
<1>9. ASSUME Environment, ~Tick PROVE UNCHANGED <<now, login, lastAuth>>
  BY <1>9 DEF Environment, Deactivate, Settle, Reclaim, Abort, history
<1>10. ASSUME UNCHANGED vars PROVE UNCHANGED <<now, login, lastAuth>> BY <1>10 DEF vars, history
<1> QED BY <1>2, <1>3, <1>5, <1>6, <1>7, <1>8, <1>9, <1>10 DEF Next

\* A step that leaves every row in place leaves every session real.
LEMMA NextReal ==
    ASSUME InPlace, [Next]_vars
    PROVE  AllReal'
<1>1. ASSUME NEW f \in Family, SignIn(f) PROVE AllReal' BY <1>1, SignInReal
<1>2. ASSUME NEW p \in Proc, Arrive(p) PROVE AllReal' BY <1>2, ArriveReal
<1>3. ASSUME NEW p \in Proc,
             \/ RotateRead(p) \/ RotateRecheck(p) \/ RotateFollow(p) \/ Admit(p)
             \/ LogoutLookup(p) \/ Abort(p)
      PROVE  AllReal'
  <2>1. UNCHANGED <<row, used>> /\ \E n : Become(p, n)
    BY <1>3 DEF RotateRead, RotateRecheck, RotateFollow, Admit, LogoutLookup, Abort, table
  <2>2. ASSUME Admit(p) \/ LogoutLookup(p) \/ Abort(p) PROVE RequestReal(p)'
    BY <2>2, RevokingRests DEF Admit, LogoutLookup, Abort, InPlace, IInv
  <2>3. RequestReal(p)' BY <1>3, <2>2, RotateReadReal, RotateFollowReal
  <2> QED BY <2>1, <2>3, OthersReal, TokensStay DEF AllReal
<1>4. ASSUME NEW p \in Proc, RotateMint(p) \/ RotateReplay(p) \/ RotateConsume(p)
             \/ Query(p) \/ LogoutAllLocate(p)
      PROVE  AllReal'
  BY <1>4, RotateMintReal, RotateConsumeReal, QueryReal, LocateReal
<1>5. ASSUME NEW p \in Proc, NEW t \in Token, RevokeRow(p, t) \/ StampRow(p, t) PROVE AllReal'
  BY <1>5, WriteReal
<1>6. ASSUME NEW t \in used, Delete(t) PROVE FALSE
  BY <1>6 DEF Delete, InPlace, NothingIsGone
<1>7. ASSUME NEW p \in Proc, NEW t \in Token, EraseRow(p, t) PROVE FALSE
  <2>1. t \in used BY <1>7 DEF EraseRow, InPlace, IInv, Sound
  <2> QED BY <1>6, <1>7, <2>1 DEF EraseRow
<1>8. ASSUME NEW t \in Token, Reclaim(t) PROVE FALSE
  <2>1. t \in used BY <1>8 DEF Reclaim, InPlace, IInv, Allocated
  <2> QED BY <1>6, <1>8, <2>1 DEF Reclaim
<1>9. CASE Tick \/ Deactivate \/ (\E t \in Token : Settle(t)) \/ UNCHANGED vars
  <2>1. UNCHANGED <<row, used, req>> BY <1>9 DEF Tick, Deactivate, Settle, vars, table
  <2> QED BY <2>1, RequestStays, TokensStay DEF AllReal
<1> QED BY <1>1, <1>2, <1>3, <1>4, <1>5, <1>7, <1>8, <1>9 DEF Next, Work, Rotate, Environment

\* Rows that are all in place after a step were so before it.
LEMMA WasInPlace == ASSUME OldKept, NothingIsGone' PROVE NothingIsGone
BY DEF OldKept, NothingIsGone, Kept, Stub

\* The invariant is inductive.
LEMMA RealIsInductive == Spec => []RealInv
<1>1. Init => RealInv
  <2> SUFFICES ASSUME Init PROVE RealInv OBVIOUS
  <2>1. AuthSound BY DEF Init, AuthSound, Never
  <2>2. AllReal BY DEF Init, AllReal, RequestReal, Rotating, Idle
  <2> QED BY <2>1, <2>2 DEF RealInv
<1>2. IInv /\ IInv' /\ SweepsSound /\ RealInv /\ [Next]_vars => RealInv'
  <2> SUFFICES ASSUME IInv, IInv', SweepsSound, RealInv, [Next]_vars PROVE RealInv' OBVIOUS
  <2>1. OldKept /\ AuthSound' /\ \A f \in Family : lastAuth[f] <= lastAuth'[f]
    BY StepKeeps, NextAuth DEF RealInv
  <2>2. ASSUME NothingIsGone' PROVE AllReal'
    <3>1. InPlace BY <2>1, <2>2, WasInPlace DEF RealInv, InPlace
    <3> QED BY <3>1, NextReal
  <2> QED BY <2>1, <2>2 DEF RealInv
<1> QED BY <1>1, <1>2, Inductive, SweepsStaySound, PTL DEF Spec

\* No sign-out reaches a session it is not for, and no session claims an authentication
\* its family did not have, until a row is gone (storage.revoke_all_for_user,
\* revoke_all_for_device, set_family_auth_time, sessions._auth_time).
THEOREM SessionsSound == Spec => []SessionsAreSound
<1>1. IInv /\ SweepsSound /\ RealInv => SessionsAreSound
  <2> SUFFICES ASSUME IInv, SweepsSound, RealInv PROVE SessionsAreSound OBVIOUS
  <2>1. NoCollateral BY DEF SweepsSound, SweepSound, NoCollateral
  <2>2. ASSUME NothingIsGone PROVE AuthTimeIsReal
    BY <2>2 DEF RealInv, AllReal, TokenReal, Within, AuthTimeIsReal, IInv, Allocated
  <2> QED BY <2>1, <2>2 DEF SessionsAreSound
<1> QED BY <1>1, Inductive, SweepsStaySound, RealIsInductive, PTL
=============================================================================
