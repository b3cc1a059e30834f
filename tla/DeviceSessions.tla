--------------------------- MODULE DeviceSessions ---------------------------
(***************************************************************************)
(* The sessions a device login opens: identity/device_grant.py's refresh   *)
(* and revocation over the device-grants table of device_grant_storage.py, *)
(* and the cached liveness check of a resource server.                     *)
(*                                                                         *)
(* A refresh token is the number of rotations before it: the successor of  *)
(* a token is computed from it, so token n is only ever replaced by n + 1. *)
(* The server makes one store call per step.                               *)
(***************************************************************************)
EXTENDS Integers, FiniteSets, TLC

CONSTANTS
    Grant,      \* grant ids
    Proc,       \* refresh requests the server can be working on
    Thread,     \* concurrent requests of one resource server
    Nobody,     \* not a grant
    Grace,      \* DEVICE_REFRESH_GRACE_SECONDS
    SessionTTL, \* device_session_ttl
    CacheTTL,   \* ttl_seconds of DeviceGrantLiveness
    MaxNow,     \* bound on the clock
    MaxGen,     \* bound on rotations
    Ops         \* what this instance exercises

ASSUME ParameterTypes ==
    /\ Grace \in Nat /\ SessionTTL \in Nat \ {0} /\ CacheTTL \in Nat
    /\ MaxNow \in Nat /\ MaxGen \in Nat /\ Nobody \notin Grant

None == -1
Time == 0..MaxNow
Never == MaxNow + 1

Row == [ there : BOOLEAN, current : 0..MaxGen, previous : None..MaxGen,
         rotatedAt : Time, endsAt : Nat, revoked : BOOLEAN ]
Absent == [ there |-> FALSE, current |-> 0, previous |-> None,
            rotatedAt |-> 0, endsAt |-> 0, revoked |-> FALSE ]

Call == [ at : {"idle", "load", "rotate", "reload", "issue", "revoke", "done"},
          grant : Grant \cup {Nobody}, token : 0..MaxGen,
          moment : Time,        \* int(time.time()) when the request began
          reuse : BOOLEAN,      \* it revokes because the token was used before
          ok : BOOLEAN ]        \* it was answered with the successor
Idle == [ at |-> "idle", grant |-> Nobody, token |-> 0, moment |-> 0,
          reuse |-> FALSE, ok |-> FALSE ]

Check == [ at : {"idle", "read", "keep", "allowed"}, grant : Grant \cup {Nobody},
           moment : Time, live : BOOLEAN ]
Unasked == [ at |-> "idle", grant |-> Nobody, moment |-> 0, live |-> FALSE ]

VARIABLES
    now,        \* the clock, in seconds
    grant,      \* the device-grants table
    call,       \* refresh requests in flight
    cache,      \* DeviceGrantLiveness._cache: [until, live] for each grant
    check,      \* the resource server's requests
    issued,     \* history: the tokens handed out for each grant
    endedAt     \* history: when each grant was revoked

resource == <<cache, check>>
vars == <<now, grant, call, cache, check, issued, endedAt>>

Live(row, t) == row.there /\ ~row.revoked /\ row.endsAt > t

Become(p, c) == call' = [call EXCEPT ![p] = c]
Answer(p, ok) == Become(p, [call[p] EXCEPT !.at = "done", !.ok = ok])

-----------------------------------------------------------------------------
Init ==
    /\ now = 0
    /\ grant = [g \in Grant |-> Absent]
    /\ call = [p \in Proc |-> Idle]
    /\ cache = [g \in Grant |-> [until |-> 0, live |-> FALSE]]
    /\ check = [t \in Thread |-> Unasked]
    /\ issued = [g \in Grant |-> {}]
    /\ endedAt = [g \in Grant |-> Never]

Tick == now < MaxNow /\ now' = now + 1
        /\ UNCHANGED <<grant, call, cache, check, issued, endedAt>>

\* What collecting an approved code puts: its first token goes with it.
Open(g) ==
    /\ ~grant[g].there
    /\ grant' = [grant EXCEPT ![g] = [Absent EXCEPT !.there = TRUE, !.endsAt = now + SessionTTL]]
    /\ issued' = [issued EXCEPT ![g] = {0}]
    /\ UNCHANGED <<now, call, resource, endedAt>>

-----------------------------------------------------------------------------
(* A refresh.                                                              *)

Present(p, g, n) ==
    /\ call[p] = Idle /\ n \in issued[g] /\ n < MaxGen
    /\ Become(p, [Idle EXCEPT !.at = "load", !.grant = g, !.token = n, !.moment = now])
    /\ UNCHANGED <<now, grant, resource, issued, endedAt>>

\* Variant: the window is open at its start and closed at its end.
WithinGrace_strict(row, c) ==
    /\ Live(row, now)
    /\ row.previous = c.token /\ row.current = c.token + 1
    /\ c.moment - row.rotatedAt \in 0..(Grace - 1)

\* The token just replaced, by this very successor, no earlier than the rotation
\* and inside the window.
WithinGrace(row, c) ==
    /\ Live(row, now)
    /\ row.previous = c.token /\ row.current = c.token + 1
    /\ c.moment - row.rotatedAt \in 0..Grace

\* Where the row read takes a request whose token does not rotate.
Judged(row, c) ==
    CASE WithinGrace(row, c) -> [c EXCEPT !.at = "issue"]
      [] ~WithinGrace(row, c) /\ row.previous = c.token ->
            [c EXCEPT !.at = "revoke", !.reuse = TRUE]
      [] OTHER -> [c EXCEPT !.at = "done"]

Load(p) ==
    LET c == call[p]
        row == grant[c.grant]
    IN  /\ c.at = "load"
        /\ Become(p, IF ~Live(row, now) THEN [c EXCEPT !.at = "done"]
                     ELSE IF row.current = c.token THEN [c EXCEPT !.at = "rotate"]
                     ELSE Judged(row, c))
        /\ UNCHANGED <<now, grant, resource, issued, endedAt>>

\* Variant: the update does not look at revoked.
Rotate_revoked(p) ==
    LET c == call[p] IN
    /\ c.at = "rotate"
    /\ IF grant[c.grant].current = c.token
       THEN /\ grant' = [grant EXCEPT ![c.grant] =
                            [@ EXCEPT !.current = c.token + 1, !.previous = c.token,
                                      !.rotatedAt = c.moment]]
            /\ Become(p, [c EXCEPT !.at = "issue"])
       ELSE /\ Become(p, [c EXCEPT !.at = "reload"])
            /\ UNCHANGED grant
    /\ UNCHANGED <<now, resource, issued, endedAt>>

\* Conditional on the presented token being current and the grant not revoked.
Rotate(p) ==
    LET c == call[p] IN
    /\ c.at = "rotate"
    /\ IF grant[c.grant].current = c.token /\ ~grant[c.grant].revoked
       THEN /\ grant' = [grant EXCEPT ![c.grant] =
                            [@ EXCEPT !.current = c.token + 1, !.previous = c.token,
                                      !.rotatedAt = c.moment]]
            /\ Become(p, [c EXCEPT !.at = "issue"])
       ELSE /\ Become(p, [c EXCEPT !.at = "reload"])
            /\ UNCHANGED grant
    /\ UNCHANGED <<now, resource, issued, endedAt>>

Reload(p) ==
    /\ call[p].at = "reload"
    /\ Become(p, Judged(grant[call[p].grant], call[p]))
    /\ UNCHANGED <<now, grant, resource, issued, endedAt>>

\* may_authenticate is asked again; a person it refuses loses the grant.
Issue(p) ==
    LET c == call[p] IN
    /\ c.at = "issue"
    /\ \/ /\ issued' = [issued EXCEPT ![c.grant] = @ \cup {c.token + 1}]
          /\ Answer(p, TRUE)
       \/ /\ "barred" \in Ops
          /\ Become(p, [c EXCEPT !.at = "revoke"])
          /\ UNCHANGED issued
    /\ UNCHANGED <<now, grant, resource, endedAt>>

EndGrant(g) ==
    /\ grant' = [grant EXCEPT ![g].revoked = TRUE]
    /\ endedAt' = [endedAt EXCEPT ![g] = IF @ = Never THEN now ELSE @]

Revoke(p) ==
    /\ call[p].at = "revoke"
    /\ EndGrant(call[p].grant)
    /\ Answer(p, FALSE)
    /\ UNCHANGED <<now, resource, issued>>

\* The answer arrives, or is lost.
Finish(p) == call[p].at = "done" /\ Become(p, Idle)
             /\ UNCHANGED <<now, grant, resource, issued, endedAt>>

\* revoke_grant by its person, revoke_all with a password, revoke_token by its client.
RevokeGrant(g) ==
    /\ "revoke" \in Ops /\ grant[g].there
    /\ EndGrant(g)
    /\ UNCHANGED <<now, call, resource, issued>>

-----------------------------------------------------------------------------
(* DeviceGrantLiveness, asked about an access token of a grant.            *)

Unkept == UNCHANGED <<now, grant, call, issued, endedAt>>

Ask(t, g) ==
    /\ "resource" \in Ops /\ check[t] = Unasked /\ grant[g].there
    /\ check' = [check EXCEPT ![t] =
          IF cache[g].until > now
          THEN [Unasked EXCEPT !.at = IF cache[g].live THEN "allowed" ELSE "idle",
                               !.grant = IF cache[g].live THEN g ELSE Nobody,
                               !.moment = IF cache[g].live THEN now ELSE 0]
          ELSE [Unasked EXCEPT !.at = "read", !.grant = g, !.moment = now]]
    /\ Unkept /\ UNCHANGED cache

ReadGrant(t) ==
    /\ check[t].at = "read"
    /\ check' = [check EXCEPT ![t].at = "keep", ![t].live = Live(grant[check[t].grant], now)]
    /\ Unkept /\ UNCHANGED cache

\* Variant: the decision is kept from when it is stored.
Keep_restamped(t) ==
    LET c == check[t] IN
    /\ c.at = "keep"
    /\ cache' = IF CacheTTL = 0 THEN cache
                ELSE [cache EXCEPT ![c.grant] = [until |-> now + CacheTTL, live |-> c.live]]
    /\ check' = [check EXCEPT ![t] = IF c.live THEN [c EXCEPT !.at = "allowed"] ELSE Unasked]
    /\ Unkept

\* The decision is kept for CacheTTL from before the read it rests on.
Keep(t) ==
    LET c == check[t] IN
    /\ c.at = "keep"
    /\ cache' = IF CacheTTL = 0 THEN cache
                ELSE [cache EXCEPT ![c.grant] = [until |-> c.moment + CacheTTL, live |-> c.live]]
    /\ check' = [check EXCEPT ![t] = IF c.live THEN [c EXCEPT !.at = "allowed"] ELSE Unasked]
    /\ Unkept

Serve(t) == /\ check[t].at = "allowed"
            /\ check' = [check EXCEPT ![t] = Unasked]
            /\ Unkept /\ UNCHANGED cache

-----------------------------------------------------------------------------
Refreshing(p) == Load(p) \/ Rotate(p) \/ Reload(p) \/ Issue(p) \/ Revoke(p)

Checking(t) == (\E g \in Grant : Ask(t, g)) \/ ReadGrant(t) \/ Keep(t) \/ Serve(t)

Next == \/ Tick
        \/ \E g \in Grant : Open(g) \/ RevokeGrant(g)
        \/ \E p \in Proc :
              \/ \E g \in Grant : \E n \in issued[g] : Present(p, g, n)
              \/ Refreshing(p) \/ Finish(p)
        \/ \E t \in Thread : Checking(t)

Spec == Init /\ [][Next]_vars

-----------------------------------------------------------------------------
(* Properties.                                                             *)

\* Type correctness of the table, the requests and the cache.
TypeOK ==
    /\ now \in Time
    /\ grant \in [Grant -> Row]
    /\ call \in [Proc -> Call]
    /\ cache \in [Grant -> [until : Nat, live : BOOLEAN]]
    /\ check \in [Thread -> Check]
    /\ issued \in [Grant -> SUBSET (0..MaxGen)]
    /\ endedAt \in [Grant -> Time \cup {Never}]

\* However refreshes of the same token overlap and answers are lost, a grant is
\* ended for reuse only by a token presented outside the window that began when
\* it was replaced, or presented before it was replaced and overtaken
\* (DeviceGrantService.refresh, _within_grace).
ReuseIsOutsideTheWindow ==
    \A p \in Proc :
        /\ call[p].at = "revoke" /\ call[p].reuse
        /\ Live(grant[call[p].grant], now) /\ grant[call[p].grant].previous = call[p].token
        =>
                LET since == call[p].moment - grant[call[p].grant].rotatedAt IN
                since > Grace \/ since < 0

\* A token that was handed out is the current one or an earlier one: no answer
\* gets ahead of the rotation it reports (refresh, _issue).
TokensFollowTheRow ==
    \A g \in Grant : \A n \in issued[g] : n <= grant[g].current

\* A revoked grant stays revoked and its tokens stop rotating, whatever requests
\* were under way (storage.DynamoDeviceGrantStore.rotate).
EndedGrantsStand ==
    [][\A g \in Grant : grant[g].revoked =>
          grant'[g].revoked /\ grant'[g].current = grant[g].current]_vars

\* A request presented once the grant is past its end or revoked is refused
\* (refresh's live check).
EndedGrantsRefuse ==
    \A p \in Proc :
        call[p].at \in {"rotate", "reload", "issue"} =>
            /\ grant[call[p].grant].endsAt > call[p].moment
            /\ endedAt[call[p].grant] >= call[p].moment

\* A resource server admits nothing that arrives CacheTTL or more after the
\* revocation, whatever its threads had read before it (DeviceGrantLiveness).
RevocationBitesSoon ==
    \A t \in Thread :
        check[t].at = "allowed" =>
            \/ endedAt[check[t].grant] = Never
            \/ check[t].moment < endedAt[check[t].grant] + CacheTTL
            \/ check[t].moment <= endedAt[check[t].grant]

\* "Presenting the one it replaced within the grace window is a lost race and
\* returns the same successor": a lost race never ends the grant.
LostRacesAreForgiven ==
    \A p \in Proc :
        call[p].at = "revoke" /\ call[p].reuse /\ Live(grant[call[p].grant], now) =>
            call[p].moment > grant[call[p].grant].rotatedAt + Grace

\* Requests and threads are interchangeable: no operation compares or orders them.
Interchangeable == Permutations(Proc) \cup Permutations(Thread)
=============================================================================
