----------------------------- MODULE DeviceCodes -----------------------------
(***************************************************************************)
(* From a device code to a grant: the start, approval and poll of          *)
(* identity/device_grant.py over the device-codes table of                 *)
(* device_grant_storage.py.  What happens to the grant is DeviceSessions'. *)
(*                                                                         *)
(* A poll and an approval make one store call per step.                    *)
(***************************************************************************)
EXTENDS Integers, FiniteSets, TLC

CONSTANTS
    Device,     \* device codes, each standing for its hash
    UserCode,   \* short codes, few enough to be minted twice
    Scope,
    User,
    Tab,        \* approval pages open in browsers
    Proc,       \* polls in flight
    Grant,
    Nothing,    \* no device, user or grant
    CodeTTL,    \* device_code_ttl
    Interval,   \* device_poll_interval
    MaxNow,     \* bound on the clock
    MaxInterval,\* bound on the interval: a code slowed past it is polled no more
    Ops         \* what this instance exercises

SlowDownStep == 1   \* SLOW_DOWN_STEP; the source's is five seconds

ASSUME ParameterTypes ==
    /\ CodeTTL \in Nat \ {0} /\ Interval \in Nat \ {0} /\ MaxNow \in Nat /\ MaxInterval \in Nat
    /\ Nothing \notin Device \cup User \cup Grant

LongAgo == 0 - Interval     \* last_polled_at of a code nobody has polled
Time == 0..MaxNow

Code == [ userCode : UserCode, status : {"pending", "approved", "denied"},
          scopes : SUBSET Scope, user : User \cup {Nothing}, expires : Nat,
          interval : Nat, polledAt : Time \cup {LongAgo} ]
Unminted == [status |-> "unminted"]
Gone == [status |-> "gone"]

Opened == [device : Device, user : User, scopes : SUBSET Scope, live : BOOLEAN]
Unopened == [live |-> FALSE]

VARIABLES
    now,        \* the clock
    code,       \* the device-codes table
    reserved,   \* its reservations: when each user code's expires
    held,       \* the scopes a person holds
    tab,        \* approval pages: the request and scopes shown, and its submission
    poll,       \* polls in flight, with the row each one read
    grant,      \* the device-grants table
    shown,      \* history: <<device, user, scopes>> put on an approval page
    denied,     \* history: devices somebody denied
    swept       \* history: devices approved before their user's sessions were ended

history == <<shown, denied, swept>>
vars == <<now, code, reserved, held, tab, poll, grant, history>>

Row(d) == code[d].status \in {"pending", "approved", "denied"}
Unexpired(d) == Row(d) /\ code[d].expires > now

Closed == [at |-> "closed", user |-> Nothing, device |-> Nothing, userCode |-> Nothing,
           scopes |-> {}, allow |-> FALSE]
Idle == [at |-> "idle", device |-> Nothing, moment |-> 0, row |-> Unminted]

Show(b, t) == tab' = [tab EXCEPT ![b] = t]
Become(p, q) == poll' = [poll EXCEPT ![p] = q]

-----------------------------------------------------------------------------
Init ==
    /\ now = 0
    /\ code = [d \in Device |-> Unminted]
    /\ reserved = [c \in UserCode |-> 0 - 1]
    /\ held = [u \in User |-> Scope]
    /\ tab = [b \in Tab |-> Closed]
    /\ poll = [p \in Proc |-> Idle]
    /\ grant = [g \in Grant |-> Unopened]
    /\ shown = {} /\ denied = {} /\ swept = {}

Tick == now < MaxNow /\ now' = now + 1
        /\ UNCHANGED <<code, reserved, held, tab, poll, grant, history>>

\* A person gains or loses scopes.
Reassign(u, S) == /\ "scopes" \in Ops
                  /\ held' = [held EXCEPT ![u] = S]
                  /\ UNCHANGED <<now, code, reserved, tab, poll, grant, history>>

\* The request and the reservation of its user code, in one transaction.
Start(d, c, S) ==
    /\ code[d] = Unminted /\ reserved[c] < now
    /\ S # {}
    /\ reserved' = [reserved EXCEPT ![c] = now + CodeTTL]
    /\ code' = [code EXCEPT ![d] =
          [userCode |-> c, status |-> "pending", scopes |-> S, user |-> Nothing,
           expires |-> now + CodeTTL, interval |-> Interval, polledAt |-> LongAgo]]
    /\ UNCHANGED <<now, held, tab, poll, grant, history>>

-----------------------------------------------------------------------------
(* Approval.                                                               *)

\* What pending answers a user code typed by u; the index may also miss it.
Pending(c, u) ==
    {<<d, code[d].scopes \cap held[u]>> :
        d \in {d \in Device : Unexpired(d) /\ code[d].userCode = c /\ code[d].status = "pending"}}

\* The approval page, signed over the request, the scopes shown and the person.
View(b, u, c) ==
    /\ tab[b] = Closed
    /\ \E r \in Pending(c, u) :
          /\ r[2] # {}
          /\ Show(b, [Closed EXCEPT !.at = "open", !.user = u, !.device = r[1],
                        !.userCode = c, !.scopes = r[2]])
          /\ shown' = shown \cup {<<r[1], u, r[2]>>}
    /\ UNCHANGED <<now, code, reserved, held, poll, grant, denied, swept>>

\* Variant: the signature of the form is not compared.
Submit_unsigned(b, allow) ==
    LET t == tab[b] IN
    /\ t.at = "open"
    /\ \/ \E r \in Pending(t.userCode, t.user) :
             /\ allow => r[2] # {}
             /\ Show(b, [t EXCEPT !.at = "decide", !.device = r[1], !.scopes = r[2], !.allow = allow])
       \/ Show(b, Closed)
    /\ UNCHANGED <<now, code, reserved, held, poll, grant, history>>

\* The user code is looked up again, and the signature holds for what it names.
Submit(b, allow) ==
    LET t == tab[b] IN
    /\ t.at = "open"
    /\ \/ /\ <<t.device, t.scopes>> \in Pending(t.userCode, t.user)
          /\ Show(b, [t EXCEPT !.at = "decide", !.allow = allow])
       \/ Show(b, Closed)
    /\ UNCHANGED <<now, code, reserved, held, poll, grant, history>>

Decided(d, t) ==
    /\ code' = [code EXCEPT ![d] =
          [@ EXCEPT !.status = IF t.allow THEN "approved" ELSE "denied",
                    !.user = t.user, !.scopes = IF t.allow THEN t.scopes ELSE {}]]
    /\ denied' = IF t.allow THEN denied ELSE denied \cup {d}

\* Variant: the update only asks that the request is there.
Decide_overruled(b) ==
    LET t == tab[b] IN
    /\ t.at = "decide"
    /\ IF Row(t.device) THEN Decided(t.device, t) ELSE UNCHANGED <<code, denied>>
    /\ Show(b, Closed)
    /\ UNCHANGED <<now, reserved, held, poll, grant, shown, swept>>

\* Conditional on the request being pending.
Decide(b) ==
    LET t == tab[b] IN
    /\ t.at = "decide"
    /\ IF code[t.device].status = "pending" THEN Decided(t.device, t) ELSE UNCHANGED <<code, denied>>
    /\ Show(b, Closed)
    /\ UNCHANGED <<now, reserved, held, poll, grant, shown, swept>>

-----------------------------------------------------------------------------
(* A poll.                                                                 *)

Poll(p, d) ==
    /\ poll[p] = Idle /\ code[d] # Unminted
    /\ Row(d) => code[d].interval <= MaxInterval
    /\ Become(p, [Idle EXCEPT !.at = "read", !.device = d, !.moment = now])
    /\ UNCHANGED <<now, code, reserved, held, tab, grant, history>>

ReadCode(p) ==
    LET q == poll[p]
        row == code[q.device]
    IN  /\ q.at = "read"
        /\ Become(p, IF ~Row(q.device) \/ row.expires <= q.moment THEN Idle
                     ELSE [q EXCEPT !.at = "stamp", !.row = row])
        /\ UNCHANGED <<now, code, reserved, held, tab, grant, history>>

\* Where a poll whose stamp held goes, by the row it read before.
Stamped(q) == IF q.row.status = "pending" THEN Idle ELSE [q EXCEPT !.at = "consume"]

\* Variant: the previous poll is the one of the row that was read.
RecordPoll_stale(p) ==
    LET q == poll[p] IN
    /\ q.at = "stamp"
    /\ IF Row(q.device) /\ q.row.polledAt <= q.moment - q.row.interval
       THEN /\ code' = [code EXCEPT ![q.device].polledAt = q.moment]
            /\ Become(p, Stamped(q))
       ELSE /\ Become(p, IF Unexpired(q.device) THEN [q EXCEPT !.at = "slow"] ELSE Stamped(q))
            /\ UNCHANGED code
    /\ UNCHANGED <<now, reserved, held, tab, grant, history>>

\* Conditional on the previous poll being old enough; a row that is gone passes.
RecordPoll(p) ==
    LET q == poll[p] IN
    /\ q.at = "stamp"
    /\ IF Row(q.device) /\ code[q.device].polledAt <= q.moment - q.row.interval
       THEN /\ code' = [code EXCEPT ![q.device].polledAt = q.moment]
            /\ Become(p, Stamped(q))
       ELSE /\ Become(p, IF Unexpired(q.device) THEN [q EXCEPT !.at = "slow"] ELSE Stamped(q))
            /\ UNCHANGED code
    /\ UNCHANGED <<now, reserved, held, tab, grant, history>>

SlowDown(p) ==
    LET q == poll[p] IN
    /\ q.at = "slow"
    /\ code' = IF Row(q.device)
               THEN [code EXCEPT ![q.device].interval = q.row.interval + SlowDownStep] ELSE code
    /\ Become(p, Idle)
    /\ UNCHANGED <<now, reserved, held, tab, grant, history>>

\* Variant: the row read before is used whether or not it was there to delete.
Consume_read(p) ==
    LET q == poll[p] IN
    /\ q.at = "consume"
    /\ code' = [code EXCEPT ![q.device] = Gone]
    /\ Become(p, IF q.row.status # "approved" THEN Idle ELSE [q EXCEPT !.at = "open"])
    /\ UNCHANGED <<now, reserved, held, tab, grant, history>>

\* Deletes a decided, unexpired request and takes what it held.
Consume(p) ==
    LET q == poll[p]
        row == code[q.device]
    IN  /\ q.at = "consume"
        /\ IF Row(q.device) /\ row.status # "pending" /\ row.expires > q.moment
           THEN /\ code' = [code EXCEPT ![q.device] = Gone]
                /\ Become(p, IF row.status # "approved" THEN Idle
                             ELSE [q EXCEPT !.at = "open", !.row = row])
           ELSE /\ Become(p, Idle)
                /\ UNCHANGED code
        /\ UNCHANGED <<now, reserved, held, tab, grant, history>>

\* may_authenticate can refuse the person; otherwise the grant is put.
OpenGrant(p) ==
    LET q == poll[p] IN
    /\ q.at = "open"
    /\ \/ \E g \in Grant :
             /\ grant[g] = Unopened
             /\ grant' = [grant EXCEPT ![g] = [device |-> q.device, user |-> q.row.user,
                                               scopes |-> q.row.scopes, live |-> TRUE]]
       \/ UNCHANGED grant
    /\ Become(p, Idle)
    /\ UNCHANGED <<now, code, reserved, held, tab, history>>

\* A password is replaced, an address moved or every session signed out.
EndSessions(u) ==
    /\ "sweep" \in Ops
    /\ grant' = [g \in Grant |-> IF grant[g].live /\ grant[g].user = u
                                 THEN [grant[g] EXCEPT !.live = FALSE] ELSE grant[g]]
    /\ swept' = swept \cup {d \in Device : code[d].status = "approved" /\ code[d].user = u}
    /\ UNCHANGED <<now, code, reserved, held, tab, poll, shown, denied>>

\* The time to live reclaims an expired request.
Reclaim(d) ==
    /\ Row(d) /\ code[d].expires <= now
    /\ code' = [code EXCEPT ![d] = Gone]
    /\ UNCHANGED <<now, reserved, held, tab, poll, grant, history>>

-----------------------------------------------------------------------------
Next ==
    \/ Tick
    \/ \E d \in Device, c \in UserCode, S \in SUBSET Scope : Start(d, c, S)
    \/ \E u \in User : EndSessions(u) \/ \E S \in SUBSET Scope : Reassign(u, S)
    \/ \E b \in Tab : \/ \E u \in User, c \in UserCode : View(b, u, c)
                      \/ \E allow \in BOOLEAN : Submit(b, allow)
                      \/ Decide(b)
    \/ \E p \in Proc : \/ \E d \in Device : Poll(p, d)
                       \/ ReadCode(p) \/ RecordPoll(p) \/ SlowDown(p) \/ Consume(p) \/ OpenGrant(p)
    \/ \E d \in Device : Reclaim(d)

Spec == Init /\ [][Next]_vars

-----------------------------------------------------------------------------
(* Properties.                                                             *)

\* Type correctness of the tables, the pages and the polls.
TypeOK ==
    /\ now \in Time
    /\ \A d \in Device : code[d] \in {Unminted, Gone} \cup Code
    /\ held \in [User -> SUBSET Scope]
    /\ \A b \in Tab : tab[b].at \in {"closed", "open", "decide"} /\ tab[b].scopes \subseteq Scope
    /\ \A p \in Proc : poll[p].at \in {"idle", "read", "stamp", "slow", "consume", "open"}
    /\ \A g \in Grant : grant[g] = Unopened \/ grant[g] \in Opened

\* However many polls present a device code at once, it opens one grant
\* (DeviceCodeStore.consume).
CodesAreCollectedOnce ==
    \A g, h \in Grant : grant[g] # Unopened /\ grant[h] # Unopened
                            /\ grant[g].device = grant[h].device => g = h

\* A grant holds what an approval page showed its person for that very request,
\* though the user code names another by then or the person's scopes have moved
\* (DeviceGrantService.approval_signature, device_approve).
ApprovedAsShown ==
    \A g \in Grant : grant[g] # Unopened =>
        <<grant[g].device, grant[g].user, grant[g].scopes>> \in shown

\* A request somebody denied opens no grant, whatever another tab decides
\* (DeviceCodeStore.decide).
DenialsStand ==
    \A g \in Grant : grant[g] # Unopened => grant[g].device \notin denied

\* A user code a person can type names at most one live request
\* (DynamoDeviceCodeStore.put).
UserCodesNameOneRequest ==
    \A d, e \in Device : Unexpired(d) /\ Unexpired(e)
                            /\ code[d].userCode = code[e].userCode => d = e

\* Polls that are answered are at least the interval apart, though several read
\* the row before either stamps it (DeviceCodeStore.record_poll).
PaceIsKept ==
    [][\A d \in Device :
          Row(d) /\ code'[d].status = code[d].status /\ code'[d].polledAt # code[d].polledAt =>
              code'[d].polledAt >= code[d].polledAt + Interval]_vars

\* "A device login is a session like any other, so it ends with the rest"
\* (flows._revoke_device_grants): none approved before the sweep is live after it.
DeviceLoginsEndWithTheRest ==
    \A g \in Grant : grant[g].live => grant[g].device \notin swept

\* Members of these sets are interchangeable: no operation compares or orders them.
Interchangeable == UNION {Permutations(S) : S \in {Device, Scope, Tab, Proc, Grant}}
=============================================================================
