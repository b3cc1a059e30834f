--------------------------- MODULE RefreshFamilies ---------------------------
(***************************************************************************)
(* Refresh-token families: identity/sessions.py over the DynamoDB table of *)
(* identity/storage.py, driven by the refresh, logout and step-up flows of *)
(* identity/flows.py.                                                      *)
(*                                                                         *)
(* A request is a process that makes one store call per step, so that      *)
(* every interleaving of store calls is a behaviour.  Reads and            *)
(* conditional updates of a row are consistent.  The two secondary indexes *)
(* are not: a row written or deleted since they last caught up with it may *)
(* or may not show in a query, and "settled" is the set of tokens on which *)
(* both indexes agree with the table.                                      *)
(*                                                                         *)
(* One user is modelled.  Device labels, addresses and the amr are         *)
(* carried unchanged by every generation, so only the label of a family is *)
(* kept, as the constant DeviceOf.                                         *)
(***************************************************************************)
EXTENDS Integers, FiniteSets

CONSTANTS
    Token,          \* refresh tokens, each standing for its hash too
    Family,         \* family ids
    Proc,           \* concurrent requests
    Device,         \* device labels
    DeviceOf,       \* the label a family is started under
    NoToken, NoFamily,
    RollingTTL,     \* settings.refresh_token_ttl
    AbsoluteTTL,    \* settings.refresh_absolute_ttl
    Grace,          \* settings.refresh_reuse_grace, zero disables it
    MaxNow,         \* bound on the clock
    Ops             \* the operations this instance exercises

ASSUME ParameterTypes ==
    /\ RollingTTL \in Nat \ {0}
    /\ AbsoluteTTL \in Nat \ {0}
    /\ Grace \in Nat
    /\ MaxNow \in Nat \ {0}
    /\ DeviceOf \in [Family -> Device]
    /\ NoToken \notin Token
    /\ NoFamily \notin Family

Time == 0 .. MaxNow
Never == -1

Row == [ family   : Family \cup {NoFamily},
         gen      : Nat,
         expires  : Nat,
         consumed : Time \cup {Never},
         succ     : Token \cup {NoToken},
         revoked  : BOOLEAN,
         started  : Time,
         auth     : Time ]

\* What an update of a key that is not there leaves behind: the attribute it
\* set and defaults for the rest, in no index.
Stub == [ family |-> NoFamily, gen |-> 0, expires |-> 0, consumed |-> Never,
          succ |-> NoToken, revoked |-> TRUE, started |-> 0, auth |-> 0 ]

\* How a token came to exist: by whose presentation, and decided at what moment.
Origin == [ how : {"none", "login", "rotation", "replay"},
            parent : Token \cup {NoToken},
            at : Time ]

Unborn == [how |-> "none", parent |-> NoToken, at |-> 0]

\* Stages of a request, named for the store call it makes next.
Rotating == {"mint", "consume", "recheck", "follow", "replay", "admit"}
Stage == {"idle", "read", "lookup", "locate", "query", "revoke", "erase", "stamp"}
           \cup Rotating

VARIABLES
    now,        \* the clock every request reads
    rows,       \* keys present in the refresh-tokens table
    row,        \* their attributes
    settled,    \* tokens on which the indexes agree with the table
    used,       \* tokens ever generated
    active,     \* the user exists and may_authenticate admits it
    req,        \* the requests in flight
    issued,     \* history: tokens handed to the client
    origin,     \* history: how each token came to exist
    login,      \* history: when each family was signed in, or Never
    lastAuth,   \* history: last real authentication of each family
    ended       \* history: families a finished request was to end

table   == <<rows, row, settled, used>>
history == <<issued, origin, login, lastAuth, ended>>
vars    == <<now, table, active, req, history>>

\* The local state of a request.  scope and promised are history: the settled
\* rows its queries had to return, and the families its caller asked to end.
Request == [ at       : Stage,
             tok      : Token \cup {NoToken},          \* presented
             moment   : Time,                          \* taken on arrival
             seen     : Row,                           \* record last read
             fresh    : Token \cup {NoToken},          \* token last minted
             fams     : SUBSET (Family \cup {NoFamily}), \* still to query
             whole    : BOOLEAN,                       \* user index: one query
             goal     : {"revoke", "erase", "stamp"},  \* what the rows are for
             todo     : SUBSET Token,                  \* still to write
             scope    : SUBSET Token,
             promised : SUBSET (Family \cup {NoFamily}) ]

Idle == [ at |-> "idle", tok |-> NoToken, moment |-> 0, seen |-> Stub,
          fresh |-> NoToken, fams |-> {}, whole |-> FALSE, goal |-> "revoke",
          todo |-> {}, scope |-> {}, promised |-> {} ]

-----------------------------------------------------------------------------
(* Reading the table and its indexes.                                      *)

\* A query of an index for the families F returns every settled row of theirs
\* and any of the unsettled ones, a lately deleted key included.
MustSee(F) == {t \in rows \cap settled : row[t].family \in F}
MaySee(F)  == {t \in used \ (settled \ rows) : row[t].family \in F}
\* Variant: only the first page of the query is read.
QueryResults_onePage(F) == SUBSET MaySee(F)

QueryResults(F) == {S \in SUBSET MaySee(F) : MustSee(F) \subseteq S}

Started == {f \in Family : login[f] # Never}

\* storage.is_expired, and the family's own cap.
Expired(r, at) == at >= r.expires
PastCap(r, at) == at >= r.started + AbsoluteTTL

\* What rotate and list_for_user ask of a record before trusting it.
Live(r, at) == ~r.revoked /\ ~Expired(r, at) /\ ~PastCap(r, at)

\* A record without an auth_time falls back to its family's start, and one
\* without that either to the clock.
AuthTime(r) == IF r.auth > 0 THEN r.auth ELSE IF r.started > 0 THEN r.started ELSE now

Earlier(a, b) == IF a <= b THEN a ELSE b
Later(a, b)   == IF a >= b THEN a ELSE b

-----------------------------------------------------------------------------
(* Writing the table.                                                      *)

Unsettle(t) == settled' = IF "lag" \in Ops THEN settled \ {t} ELSE settled \cup {t}

Put(t, r) ==
    /\ rows' = rows \cup {t}
    /\ row' = [row EXCEPT ![t] = r]
    /\ used' = used \cup {t}
    /\ Unsettle(t)

Delete(t) ==
    /\ rows' = rows \ {t}
    /\ Unsettle(t)
    /\ UNCHANGED <<row, used>>

\* Variant: the rolling window is not capped by the family's.
Generation_uncapped(f, g, start, at, auth) ==
    [ family |-> f, gen |-> g, expires |-> at + RollingTTL, consumed |-> Never,
      succ |-> NoToken, revoked |-> FALSE, started |-> start, auth |-> auth ]

\* The row SessionService._mint writes for a family begun at start.
Generation(f, g, start, at, auth) ==
    [ family |-> f, gen |-> g, expires |-> Earlier(at + RollingTTL, start + AbsoluteTTL),
      consumed |-> Never, succ |-> NoToken, revoked |-> FALSE,
      started |-> start, auth |-> auth ]

Become(p, q) == req' = [req EXCEPT ![p] = q]

\* A request that has still to revoke the families F, one after the other.
RevokeFamilies(F, promise) ==
    [Idle EXCEPT !.at = "query", !.fams = F, !.promised = promise]

\* A request with the keys S left to write: the next stage, or the end.
Continue(q, S) ==
    IF S # {} THEN [q EXCEPT !.at = q.goal, !.todo = S]
    ELSE IF q.fams # {} THEN [q EXCEPT !.at = "query", !.todo = {}]
    ELSE Idle

\* Ending a request is where what it promised becomes due.
Proceed(p, q, S) ==
    /\ Become(p, Continue(q, S))
    /\ ended' = IF Continue(q, S) = Idle THEN ended \cup q.promised ELSE ended

\* Bound: a rotation starts only while tokens remain for it and every other.
Reserved == 2 * Cardinality({p \in Proc : req[p].at \in {"read", "mint"}})
              + Cardinality({p \in Proc : req[p].at \in {"consume", "recheck", "follow", "replay"}})
TokensRemain == Cardinality(Token \ used) >= Reserved + 2

-----------------------------------------------------------------------------
Init ==
    /\ now = 1
    /\ rows = {} /\ settled = {} /\ used = {}
    /\ row = [t \in Token |-> Stub]
    /\ active = TRUE
    /\ req = [p \in Proc |-> Idle]
    /\ issued = {}
    /\ origin = [t \in Token |-> Unborn]
    /\ login = [f \in Family |-> Never]
    /\ lastAuth = [f \in Family |-> 0]
    /\ ended = {}

-----------------------------------------------------------------------------
(* A login starts a family at generation 1.                                *)
SignIn(f) ==
    /\ active /\ login[f] = Never
    /\ Cardinality(Token \ used) > Reserved
    /\ \E t \in Token \ used :
          /\ Put(t, Generation(f, 1, now, now, now))
          /\ issued' = issued \cup {t}
          /\ origin' = [origin EXCEPT ![t] = [how |-> "login", parent |-> NoToken, at |-> now]]
    /\ login' = [login EXCEPT ![f] = now]
    /\ lastAuth' = [lastAuth EXCEPT ![f] = now]
    /\ UNCHANGED <<now, active, req, ended>>

(* Refresh: rotate, then admit the user again.                             *)
PresentRefresh(p, t) ==
    /\ "refresh" \in Ops
    /\ req[p] = Idle /\ t \in issued /\ TokensRemain
    /\ Become(p, [Idle EXCEPT !.at = "read", !.tok = t, !.moment = now])
    /\ UNCHANGED <<now, table, active, history>>

\* Variant: a revoked record is not refused.
RotateRead_revokedPasses(p) ==
    LET q == req[p]
        r == row[q.tok]
    IN  /\ q.at = "read"
        /\ IF q.tok \in rows /\ ~Expired(r, q.moment)
           THEN Become(p, [q EXCEPT !.at = "mint", !.seen = r])
           ELSE Become(p, Idle)
        /\ UNCHANGED <<now, table, active, history>>

RotateRead(p) ==
    LET q == req[p]
        r == row[q.tok]
    IN  /\ q.at = "read"
        /\ \/ /\ q.tok \notin rows \/ r.revoked
              /\ Become(p, Idle)
           \/ /\ q.tok \in rows /\ ~r.revoked
              /\ Expired(r, q.moment) \/ PastCap(r, q.moment)
              /\ Become(p, RevokeFamilies({r.family}, {r.family}))
           \/ /\ q.tok \in rows /\ Live(r, q.moment)
              /\ Become(p, [q EXCEPT !.at = "mint", !.seen = r])
        /\ UNCHANGED <<now, table, active, history>>

\* The successor is written before the presented token is consumed.
RotateMint(p) ==
    LET q == req[p] IN
    /\ q.at = "mint"
    /\ \E t \in Token \ used :
          /\ Put(t, Generation(q.seen.family, q.seen.gen + 1, q.seen.started,
                               q.moment, AuthTime(q.seen)))
          /\ origin' = [origin EXCEPT ![t] =
                           [how |-> "rotation", parent |-> q.tok, at |-> q.moment]]
          /\ Become(p, [q EXCEPT !.at = "consume", !.fresh = t])
    /\ UNCHANGED <<now, active, issued, login, lastAuth, ended>>

\* Variant: the consume is a plain update.
RotateConsume_unconditional(p) ==
    LET q == req[p] IN
    /\ q.at = "consume" /\ q.tok \in rows
    /\ row' = [row EXCEPT ![q.tok].consumed = q.moment, ![q.tok].succ = q.fresh]
    /\ Become(p, [q EXCEPT !.at = "admit"])
    /\ UNCHANGED <<now, rows, settled, used, active, history>>

\* Conditional on the key existing with no consumed_at: revoked is not tested.
RotateConsume(p) ==
    LET q == req[p] IN
    /\ q.at = "consume"
    /\ IF q.tok \in rows /\ row[q.tok].consumed = Never
       THEN /\ row' = [row EXCEPT ![q.tok].consumed = q.moment, ![q.tok].succ = q.fresh]
            /\ Become(p, [q EXCEPT !.at = "admit"])
       ELSE /\ Become(p, [q EXCEPT !.at = "recheck"])
            /\ UNCHANGED row
    /\ UNCHANGED <<now, rows, settled, used, active, history>>

WithinGrace(r, at) ==
    /\ Grace > 0 /\ r.consumed # Never /\ at - r.consumed <= Grace
    /\ r.succ # NoToken

\* Variant: a token outside its grace is polled instead of refused.
RotateRecheck_polls(p) ==
    LET q == req[p]
        r == row[q.tok]
    IN  /\ q.at = "recheck"
        /\ Become(p, IF q.tok \in rows /\ ~r.revoked THEN q ELSE Idle)
        /\ UNCHANGED <<now, table, active, history>>

RotateRecheck(p) ==
    LET q == req[p]
        r == row[q.tok]
    IN  /\ q.at = "recheck"
        /\ \/ /\ q.tok \notin rows \/ r.revoked
              /\ Become(p, Idle)
           \/ /\ q.tok \in rows /\ ~r.revoked /\ WithinGrace(r, q.moment)
              /\ Become(p, [q EXCEPT !.at = "follow", !.seen = r])
           \/ /\ q.tok \in rows /\ ~r.revoked /\ ~WithinGrace(r, q.moment)
              /\ Become(p, RevokeFamilies({r.family}, {r.family}))
        /\ UNCHANGED <<now, table, active, history>>

\* The successor lends the sibling its generation and the later auth_time;
\* whether it is itself revoked is not asked.
RotateFollow(p) ==
    LET q == req[p]
        s == q.seen.succ
    IN  /\ q.at = "follow"
        /\ IF s \in rows
           THEN Become(p, [q EXCEPT !.at = "replay", !.seen = [@ EXCEPT !.gen = row[s].gen,
                             !.auth = Later(AuthTime(q.seen), AuthTime(row[s]))]])
           ELSE Become(p, RevokeFamilies({q.seen.family}, {q.seen.family}))
        /\ UNCHANGED <<now, table, active, history>>

RotateReplay(p) ==
    LET q == req[p] IN
    /\ q.at = "replay"
    /\ \E t \in Token \ used :
          /\ Put(t, Generation(q.seen.family, q.seen.gen, q.seen.started, q.moment, q.seen.auth))
          /\ origin' = [origin EXCEPT ![t] =
                           [how |-> "replay", parent |-> q.tok, at |-> q.moment]]
          /\ Become(p, [q EXCEPT !.at = "admit", !.fresh = t])
    /\ UNCHANGED <<now, active, issued, login, lastAuth, ended>>

\* Variant: a refused user only goes unanswered.
Admit_unrevoked(p) ==
    LET q == req[p] IN
    /\ q.at = "admit"
    /\ Become(p, Idle)
    /\ issued' = IF active THEN issued \cup {q.fresh} ELSE issued
    /\ UNCHANGED <<now, table, active, origin, login, lastAuth, ended>>

\* A user that is gone or refused loses the family instead of being answered.
Admit(p) ==
    LET q == req[p] IN
    /\ q.at = "admit"
    /\ IF active
       THEN issued' = issued \cup {q.fresh} /\ Become(p, Idle)
       ELSE /\ Become(p, RevokeFamilies({q.seen.family}, {q.seen.family}))
            /\ UNCHANGED issued
    /\ UNCHANGED <<now, table, active, origin, login, lastAuth, ended>>

-----------------------------------------------------------------------------
(* Ending sessions.                                                        *)

Asks(p, op) == op \in Ops /\ req[p] = Idle

PresentLogout(p, t) ==
    /\ Asks(p, "logout") /\ t \in issued
    /\ Become(p, [Idle EXCEPT !.at = "lookup", !.tok = t])
    /\ UNCHANGED <<now, table, active, history>>

LogoutLookup(p) ==
    LET q == req[p] IN
    /\ q.at = "lookup"
    /\ IF q.tok \in rows /\ row[q.tok].family # NoFamily
       THEN Become(p, RevokeFamilies({row[q.tok].family}, {row[q.tok].family}))
       ELSE Become(p, Idle)
    /\ UNCHANGED <<now, table, active, history>>

\* The route passes the access token's own family, or none, as family_ids; the
\* cookie's family is looked up and added to it.  What the route promises its
\* caller is every session.
PresentLogoutAll(p, f, t) ==
    /\ Asks(p, "logoutAll")
    /\ f \in Started \cup {NoFamily} /\ t \in issued \cup {NoToken}
    /\ Become(p, [Idle EXCEPT !.at = "locate", !.tok = t,
                    !.fams = {f} \ {NoFamily}, !.promised = Started])
    /\ UNCHANGED <<now, table, active, history>>

LogoutAllLocate(p) ==
    LET q == req[p]
        found == IF q.tok \in rows THEN {row[q.tok].family} \ {NoFamily} ELSE {}
        next == [q EXCEPT !.fams = @ \cup found, !.tok = NoToken]
    IN  /\ q.at = "locate"
        /\ Proceed(p, next, {})
        /\ UNCHANGED <<now, table, active, issued, origin, login, lastAuth>>

\* list_for_user asks the family index for one row of the highest generation it
\* shows, then reads that row.
NewestSeen(f) ==
    {t \in MaySee({f}) :
        \E S \in QueryResults({f}) : t \in S /\ \A u \in S : row[u].gen <= row[t].gen}
MayList(f) == \E t \in NewestSeen(f) : t \in rows /\ Live(row[t], now)
MayOmit(f) == \/ {} \in QueryResults({f})
              \/ \E t \in NewestSeen(f) : ~(t \in rows /\ Live(row[t], now))
Listings == {L \in SUBSET Started : /\ \A f \in L : MayList(f)
                                    /\ \A f \in Started \ L : MayOmit(f)}

RevokeOwned(p, f) ==
    /\ Asks(p, "revokeOwned")
    /\ f \in Started /\ MayList(f)
    /\ Become(p, RevokeFamilies({f}, {f}))
    /\ UNCHANGED <<now, table, active, history>>

RevokeOthers(p, f) ==
    /\ Asks(p, "revokeOthers")
    /\ f \in Started
    /\ \E L \in Listings :
          /\ L \ {f} # {}
          /\ Become(p, RevokeFamilies(L \ {f}, Started \ {f}))
    /\ UNCHANGED <<now, table, active, history>>

\* Variant: the session the change was made from is not spared.
EndAllFamilies_unsparing(p, f) ==
    /\ Asks(p, "endAll")
    /\ f \in Started \cup {NoFamily}
    /\ Become(p, [RevokeFamilies(Family, Family \ {f}) EXCEPT !.whole = TRUE])
    /\ UNCHANGED <<now, table, active, history>>

\* A password change spares the session it was made from; a reset spares none.  A
\* caller that hands over a list instead is in Accounts!RevokeSessions.
EndAllFamilies(p, f) ==
    /\ Asks(p, "endAll")
    /\ f \in Started \cup {NoFamily}
    /\ Become(p, [RevokeFamilies(Family \ {f}, Family \ {f}) EXCEPT !.whole = TRUE])
    /\ UNCHANGED <<now, table, active, history>>

\* One row of each family the user index shows is read for the label.
RevokeDevice(p, d) ==
    /\ Asks(p, "revokeDevice")
    /\ \E S \in QueryResults(Started) :
          LET labelled == {f \in Started : DeviceOf[f] = d /\ \E t \in S : row[t].family = f}
          IN  \E F \in SUBSET labelled :
                 /\ F # {}
                 /\ \A f \in F : \E t \in S \cap rows : row[t].family = f
                 /\ \A f \in labelled \ F : \E t \in S \ rows : row[t].family = f
                 /\ Become(p, RevokeFamilies(F, {g \in Started : DeviceOf[g] = d}))
    /\ UNCHANGED <<now, table, active, history>>

\* The purge runs once the product has deleted the user.
Purge(p) ==
    /\ Asks(p, "purge") /\ ~active
    /\ Become(p, [Idle EXCEPT !.at = "query", !.goal = "erase", !.whole = TRUE, !.fams = Family])
    /\ UNCHANGED <<now, table, active, history>>

\* A step-up re-authenticates at an instant and carries it into the family.
StepUp(p, f) ==
    /\ Asks(p, "stepUp") /\ f \in Started /\ active
    /\ lastAuth' = [lastAuth EXCEPT ![f] = now]
    /\ Become(p, [Idle EXCEPT !.at = "query", !.goal = "stamp", !.fams = {f}, !.moment = now])
    /\ UNCHANGED <<now, table, active, issued, origin, login, ended>>

Query(p) ==
    LET q == req[p] IN
    /\ q.at = "query"
    /\ \E F \in IF q.whole THEN {q.fams} ELSE {{f} : f \in q.fams} :
          \E S \in QueryResults(F) :
             LET next == [q EXCEPT !.fams = @ \ F, !.scope = @ \cup MustSee(F)]
             IN  Proceed(p, next, S)
    /\ UNCHANGED <<now, table, active, issued, origin, login, lastAuth>>

\* Variant: a failed condition ends the loop.
RevokeRow_stopsShort(p, t) ==
    LET q == req[p] IN
    /\ q.at = "revoke" /\ t \in q.todo
    /\ rows' = rows \cup {t}
    /\ row' = [row EXCEPT ![t] = IF t \in rows THEN [@ EXCEPT !.revoked = TRUE] ELSE Stub]
    /\ Proceed(p, q, IF t \in rows /\ row[t].revoked THEN {} ELSE q.todo \ {t})
    /\ UNCHANGED <<now, settled, used, active, issued, origin, login, lastAuth>>

\* Conditional on revoked being false or absent, so a deleted key comes back as
\* a stub.
RevokeRow(p, t) ==
    LET q == req[p] IN
    /\ q.at = "revoke" /\ t \in q.todo
    /\ rows' = rows \cup {t}
    /\ row' = [row EXCEPT ![t] = IF t \in rows THEN [@ EXCEPT !.revoked = TRUE] ELSE Stub]
    /\ Proceed(p, q, q.todo \ {t})
    /\ UNCHANGED <<now, settled, used, active, issued, origin, login, lastAuth>>

EraseRow(p, t) ==
    LET q == req[p] IN
    /\ q.at = "erase" /\ t \in q.todo
    /\ Delete(t)
    /\ Proceed(p, q, q.todo \ {t})
    /\ UNCHANGED <<now, active, issued, origin, login, lastAuth>>

\* Conditional on the key existing with an earlier auth_time.
StampRow(p, t) ==
    LET q == req[p] IN
    /\ q.at = "stamp" /\ t \in q.todo
    /\ row' = IF t \in rows THEN [row EXCEPT ![t].auth = Later(@, q.moment)] ELSE row
    /\ Proceed(p, q, q.todo \ {t})
    /\ UNCHANGED <<now, rows, settled, used, active, issued, origin, login, lastAuth>>

-----------------------------------------------------------------------------
(* The environment.                                                        *)

Tick == /\ now < MaxNow
        /\ now' = now + 1
        /\ UNCHANGED <<table, active, req, history>>

Settle(t) == /\ t \in used \ settled
             /\ settled' = settled \cup {t}
             /\ UNCHANGED <<now, rows, row, used, active, req, history>>

\* DynamoDB reclaims a row past its TTL on its own schedule.
Reclaim(t) == /\ "reclaim" \in Ops
              /\ t \in rows /\ row[t].family # NoFamily /\ now >= row[t].expires
              /\ Delete(t)
              /\ UNCHANGED <<now, active, req, history>>

Deactivate == /\ "deactivate" \in Ops
              /\ active /\ active' = FALSE
              /\ UNCHANGED <<now, table, req, history>>

\* A store call that raises, or a process that dies, abandons the request.
Abort(p) == /\ "abort" \in Ops
            /\ req[p] # Idle
            /\ Become(p, Idle)
            /\ UNCHANGED <<now, table, active, history>>

Rotate(p) == \/ RotateRead(p) \/ RotateMint(p) \/ RotateConsume(p) \/ RotateRecheck(p)
             \/ RotateFollow(p) \/ RotateReplay(p) \/ Admit(p)

Work(p) == \/ Rotate(p) \/ LogoutLookup(p) \/ LogoutAllLocate(p) \/ Query(p)
           \/ \E t \in Token : RevokeRow(p, t) \/ EraseRow(p, t) \/ StampRow(p, t)

Arrive(p) == \/ \E t \in Token : PresentRefresh(p, t) \/ PresentLogout(p, t)
             \/ \E f \in Family \cup {NoFamily}, t \in Token \cup {NoToken} :
                   PresentLogoutAll(p, f, t)
             \/ \E f \in Family : RevokeOwned(p, f) \/ RevokeOthers(p, f) \/ StepUp(p, f)
             \/ \E f \in Family \cup {NoFamily} : EndAllFamilies(p, f)
             \/ \E d \in Device : RevokeDevice(p, d)
             \/ Purge(p)

Environment == \/ Tick \/ Deactivate
               \/ \E t \in Token : Settle(t) \/ Reclaim(t)
               \/ \E p \in Proc : Abort(p)

Next == \/ \E f \in Family : SignIn(f)
        \/ \E p \in Proc : Arrive(p) \/ Work(p)
        \/ Environment

Spec == Init /\ [][Next]_vars

\* A request that has started is run to its end by its worker.
FairSpec == Spec /\ \A p \in Proc : WF_vars(Work(p))

-----------------------------------------------------------------------------
(* Properties.                                                             *)

\* Type correctness of the table, the requests and the histories.
TypeOK ==
    /\ now \in Time
    /\ rows \subseteq Token /\ used \subseteq Token /\ settled \subseteq Token
    /\ row \in [Token -> Row]
    /\ active \in BOOLEAN
    /\ req \in [Proc -> Request]
    /\ issued \subseteq Token \cup {NoToken}
    /\ origin \in [Token -> Origin]
    /\ login \in [Family -> Time \cup {Never}]
    /\ lastAuth \in [Family -> Time]
    /\ ended \subseteq Family \cup {NoFamily}

\* "So no token outlives its family": however often a family is rotated and
\* replayed, by requests however slow, each row names the login that began its
\* family and expires within the absolute window of that login
\* (sessions.SessionService._mint).
NoTokenOutlivesFamily ==
    \A t \in rows : row[t].family # NoFamily =>
        /\ row[t].started = login[row[t].family]
        /\ row[t].expires <= login[row[t].family] + AbsoluteTTL

\* A refresh never claims an authentication later than the last one that really
\* happened in its family, nor one before the login that began it, whatever
\* step-ups and rotations raced (sessions._auth_time: "carried and never bumped").
AuthTimeIsReal ==
    \A t \in issued \cap rows : row[t].family # NoFamily =>
        /\ row[t].auth <= lastAuth[row[t].family]
        /\ login[row[t].family] <= row[t].auth

\* "Carried from record and never bumped" (sessions._auth_time): nothing the
\* client holds was minted with an authentication later than the real one.
AuthTimeNeverBumped ==
    \A t \in issued \cap rows : row[t].family # NoFamily => row[t].auth <= lastAuth[row[t].family]

\* That the token t may be held by a client: a row that is gone vouches for
\* anything, since nothing of it can be compared any more.
Justified(t) ==
    LET o == origin[t] IN
    \/ o.how = "login"
    \/ o.parent \notin rows \/ row[o.parent].family = NoFamily
    \/ o.how = "rotation" /\ row[o.parent].succ = t
    \/ /\ o.how = "replay" /\ row[o.parent].consumed # Never
       /\ o.at <= row[o.parent].consumed + Grace

\* A token given to the client is a login's, the one successor recorded on the
\* token presented for it, or a replay asked for within the grace of that
\* token's consumption: two requests never both rotate one token
\* (storage.RefreshTokenStore.consume).
EveryIssueIsJustified == \A t \in issued : Justified(t)

\* No revoking request writes a row of a family its caller did not ask to end: a
\* password change spares its own session, another device keeps its families
\* (storage.revoke_all_for_user, revoke_all_for_device).
NoCollateral ==
    \A p \in Proc : req[p].goal = "revoke" =>
        \A t \in req[p].todo \cap rows : row[t].family \in req[p].promised \cup {NoFamily}

\* No key of the table was ever reclaimed or erased, nor brought back by an update.
NothingIsGone == \A t \in used : t \in rows /\ row[t].family # NoFamily

\* However sign-outs, step-ups, rotations and the indexes they read interleave, no
\* sign-out reaches a session it is not for, and a session claims no other
\* authentication than its own, until a row is gone (then a replay may follow an
\* update's remains: AuthTimeNeverBumped).
SessionsAreSound == NoCollateral /\ (NothingIsGone => AuthTimeIsReal)

\* Every settled row a revoking request's queries had to return is revoked or
\* gone once the request has no key left to write for it and when it ends,
\* however rotations raced it (storage._revoke).
SweepLeavesNone ==
    \A p \in Proc : req[p].goal = "revoke" =>
        \/ Abort(p)
        \/ \A t \in req[p].scope \ req'[p].todo : t \in rows' => row'[t].revoked
SweepsAreComplete == [][SweepLeavesNone]_vars

\* Nothing of family f is spendable, and no rotation is past its reads of f.
Dead(f) ==
    /\ \A t \in rows : row[t].family = f => row[t].revoked
    /\ \A p \in Proc : req[p].at \in Rotating => req[p].seen.family # f

\* Once every row of a family is revoked or gone while no rotation of it is in
\* flight, no sequence of presentations, replays, step-ups or purges makes one
\* of its tokens usable again (sessions.rotate, revoke_family).
DeadStaysDead ==
    [][\A f \in Started : Dead(f) => Dead(f)']_vars

\* No row un-revokes, un-consumes or changes the successor a replay follows,
\* and a step-up never moves auth_time backwards, while the row exists
\* (storage.set_family_auth_time, consume, _revoke).
RowsOnlyMoveForward ==
    [][\A t \in rows \cap rows' :
          /\ row[t].revoked => row'[t].revoked
          /\ row[t].consumed # Never =>
                row'[t].consumed = row[t].consumed /\ row'[t].succ = row[t].succ
          /\ row[t].auth <= row'[t].auth]_vars

\* A request to revoke a family kills each row the index already shows,
\* although rotations keep adding rows beside it (storage.revoke_family).
SettledRowsDie ==
    \A p \in Proc, t \in Token :
        (/\ req[p].at = "query" /\ req[p].goal = "revoke"
         /\ t \in rows \cap settled /\ row[t].family \in req[p].fams)
        ~> (t \in rows => row[t].revoked)

\* A refresh whose user turns out to be gone or refused takes down the rows the
\* index shows, the reason the flow re-runs may_authenticate
\* (flows.IdentityFlows.refresh).
RefusedFamilyDies ==
    \A p \in Proc, t \in Token :
        (/\ req[p].at = "admit" /\ ~active
         /\ t \in rows \cap settled /\ row[t].family = req[p].seen.family)
        ~> (t \in rows => row[t].revoked)

\* Whatever a request has to do, it ends.
EveryRequestEnds == \A p \in Proc : (req[p] # Idle) ~> (req[p] = Idle)

\* "Revoke every generation of a family" (storage.RefreshTokenStore.revoke_family):
\* once a logout has ended, no generation of the family is left unrevoked.
RevocationIsFinal ==
    \A f \in ended : \A t \in rows : row[t].family = f => row[t].revoked

\* "Revoke every session and device login for the caller" (the logout_all
\* route): once it has ended, no session begun before it has a live token.
SignOutEverywhere ==
    \A f \in ended : \A t \in rows \cap issued :
        row[t].family = f => row[t].revoked \/ row[t].consumed # Never

\* "How long a consumed refresh token replays to the same successor"
\* (settings.refresh_reuse_grace): whatever a presented token yields is the
\* successor recorded on it.
ReplaysToTheSameSuccessor ==
    \A t \in issued : origin[t].parent \in rows => row[origin[t].parent].succ = t
=============================================================================
