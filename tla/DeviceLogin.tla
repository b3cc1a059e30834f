----------------------------- MODULE DeviceLogin -----------------------------
(***************************************************************************)
(* The command line side of a device login, device_login.py, over the      *)
(* server of DeviceSessions: commands of one person that share a keyring   *)
(* entry and a lock file, and whose requests may be slow or lost.          *)
(***************************************************************************)
EXTENDS DeviceSessions

CONSTANTS
    Command,    \* concurrent commands on one machine
    NoCall,     \* not a request
    AccessTTL   \* life of an access token, less REFRESH_MARGIN_SECONDS

\* The nulls are none of the values they stand beside.
ASSUME ClientParameters == AccessTTL \in Nat /\ NoCall \notin Proc /\ Nobody \notin Command

Session == [grant : Grant, token : 0..MaxGen, freshUntil : Nat, endsAt : Nat]
Empty == [grant |-> Nobody, token |-> 0, freshUntil |-> 0, endsAt |-> 0]

Doing == [ at : {"idle", "lock", "reread", "wait", "save", "revoke", "forget"},
           logout : BOOLEAN, on : Proc \cup {NoCall}, grant : Grant \cup {Nobody} ]
Resting == [at |-> "idle", logout |-> FALSE, on |-> NoCall, grant |-> Nobody]

VARIABLES
    keyring,    \* the stored session
    lock,       \* holder of the lock file, or Nobody
    cmd,        \* the commands
    late        \* history: grants of a request its command gave up on

client == <<keyring, lock, cmd, late>>
cvars == <<vars, client>>

Do(c, d) == cmd' = [cmd EXCEPT ![c] = d]
Release(c) == Do(c, Resting) /\ lock' = Nobody

CInit == /\ Init
         /\ keyring = Empty /\ lock = Nobody /\ late = {}
         /\ cmd = [c \in Command |-> Resting]

-----------------------------------------------------------------------------
(* login: the grant is opened by the poll that collects it, then stored.   *)

Collect(c) ==
    /\ "login" \in Ops /\ cmd[c] = Resting
    /\ \E g \in Grant : Open(g) /\ Do(c, [Resting EXCEPT !.at = "save", !.grant = g])
    /\ UNCHANGED <<keyring, lock, late>>

Stored(g, n) == [grant |-> g, token |-> n, freshUntil |-> now + AccessTTL,
                 endsAt |-> grant[g].endsAt]

SaveLogin(c) ==
    /\ cmd[c].at = "save"
    /\ keyring' = Stored(cmd[c].grant, 0)
    /\ Do(c, Resting)
    /\ UNCHANGED <<vars, lock, late>>

-----------------------------------------------------------------------------
(* access_token, and logout.                                               *)

NeedToken(c) ==
    /\ cmd[c] = Resting /\ keyring # Empty /\ keyring.freshUntil <= now
    /\ Do(c, [Resting EXCEPT !.at = "lock"])
    /\ UNCHANGED <<vars, keyring, lock, late>>

Logout(c) ==
    /\ "logout" \in Ops /\ cmd[c] = Resting
    /\ Do(c, [Resting EXCEPT !.at = "lock", !.logout = TRUE])
    /\ UNCHANGED <<vars, keyring, lock, late>>

TakeLock(c) ==
    /\ cmd[c].at = "lock" /\ lock = Nobody
    /\ lock' = c
    /\ Do(c, [cmd[c] EXCEPT !.at = IF cmd[c].logout THEN "revoke" ELSE "reread"])
    /\ UNCHANGED <<vars, keyring, late>>

\* Variant: the command that finds a fresh session leaves with the lock.
Reread_held(c) ==
    /\ cmd[c].at = "reread"
    /\ CASE keyring = Empty \/ keyring.freshUntil > now ->
               Do(c, Resting) /\ UNCHANGED <<vars, keyring, lock>>
         [] keyring # Empty /\ keyring.freshUntil <= now /\ keyring.endsAt <= now ->
               Release(c) /\ keyring' = Empty /\ UNCHANGED vars
         [] OTHER ->
               /\ \E p \in Proc :
                     /\ Present(p, keyring.grant, keyring.token)
                     /\ Do(c, [cmd[c] EXCEPT !.at = "wait", !.on = p, !.grant = keyring.grant])
               /\ UNCHANGED <<keyring, lock>>
    /\ UNCHANGED late

\* _refresh_locked, up to its request: the session may have been refreshed,
\* forgotten or outlived since the command saw it.
Reread(c) ==
    /\ cmd[c].at = "reread"
    /\ CASE keyring = Empty \/ keyring.freshUntil > now ->
               Release(c) /\ UNCHANGED <<vars, keyring>>
         [] keyring # Empty /\ keyring.freshUntil <= now /\ keyring.endsAt <= now ->
               Release(c) /\ keyring' = Empty /\ UNCHANGED vars
         [] OTHER ->
               /\ \E p \in Proc :
                     /\ Present(p, keyring.grant, keyring.token)
                     /\ Do(c, [cmd[c] EXCEPT !.at = "wait", !.on = p, !.grant = keyring.grant])
               /\ UNCHANGED <<keyring, lock>>
    /\ UNCHANGED late

\* Variant: the new access token is stored with the old refresh token.
Receive_unrotated(c) ==
    LET p == cmd[c].on IN
    /\ cmd[c].at = "wait" /\ call[p].at = "done"
    /\ Finish(p)
    /\ keyring' = IF call[p].ok THEN Stored(call[p].grant, call[p].token) ELSE Empty
    /\ Release(c)
    /\ UNCHANGED late

\* The answer is stored; invalid_grant forgets whatever session is stored.
Receive(c) ==
    LET p == cmd[c].on IN
    /\ cmd[c].at = "wait" /\ call[p].at = "done"
    /\ Finish(p)
    /\ keyring' = IF call[p].ok THEN Stored(call[p].grant, call[p].token + 1) ELSE Empty
    /\ Release(c)
    /\ UNCHANGED late

\* A timeout, or the command is killed: its lock goes, the server works on.
GiveUp(c) ==
    /\ "timeout" \in Ops /\ cmd[c].at = "wait"
    /\ late' = late \cup {cmd[c].grant}
    /\ Release(c)
    /\ UNCHANGED <<vars, keyring>>

\* The revocation is posted, and may be lost.
LogoutRevoke(c) ==
    /\ cmd[c].at = "revoke"
    /\ IF keyring = Empty THEN Release(c) /\ UNCHANGED vars
       ELSE /\ UNCHANGED vars \/ RevokeGrant(keyring.grant)
            /\ Do(c, [cmd[c] EXCEPT !.at = "forget"])
            /\ UNCHANGED lock
    /\ UNCHANGED <<keyring, late>>

LogoutForget(c) ==
    /\ cmd[c].at = "forget"
    /\ keyring' = Empty
    /\ Release(c)
    /\ UNCHANGED <<vars, late>>

-----------------------------------------------------------------------------
Awaited == {cmd[c].on : c \in Command}

CNext ==
    \/ Tick /\ UNCHANGED client
    \/ \E g \in Grant : RevokeGrant(g) /\ UNCHANGED client
    \/ \E p \in Proc : (Refreshing(p) \/ (p \notin Awaited /\ Finish(p))) /\ UNCHANGED client
    \/ \E c \in Command :
          \/ Collect(c) \/ SaveLogin(c) \/ NeedToken(c) \/ Logout(c) \/ TakeLock(c)
          \/ Reread(c) \/ Receive(c) \/ GiveUp(c) \/ LogoutRevoke(c) \/ LogoutForget(c)

CSpec == CInit /\ [][CNext]_cvars

\* A command runs until it is done, flock does not pass a waiter over for ever,
\* and the server answers what it is working on.
Pursue(c) == SaveLogin(c) \/ Reread(c) \/ Receive(c) \/ LogoutRevoke(c) \/ LogoutForget(c)
Fairness ==
    /\ \A c \in Command : WF_cvars(Pursue(c)) /\ SF_cvars(TakeLock(c))
    /\ \A p \in Proc : WF_cvars(Refreshing(p) /\ UNCHANGED client)
                       /\ WF_cvars(p \notin Awaited /\ Finish(p) /\ UNCHANGED client)
FairCSpec == CSpec /\ Fairness

-----------------------------------------------------------------------------
(* Properties.                                                             *)

\* Type correctness of the client.
CTypeOK ==
    /\ keyring \in Session \cup {Empty}
    /\ lock \in Command \cup {Nobody}
    /\ cmd \in [Command -> Doing]
    /\ late \subseteq Grant

\* Whatever commands overlap and whichever answers are lost, the stored token is
\* the current one or the one it replaced, so one retry can still recover the
\* session; and with no answer lost and nobody refreshing it is the current one
\* (DeviceLoginClient._refresh_locked, DeviceGrantService.refresh).
TheClientTrailsByOne ==
    keyring # Empty =>
        LET behind == grant[keyring.grant].current - keyring.token IN
        /\ behind \in {0, 1}
        /\ lock = Nobody /\ keyring.grant \notin late => behind = 0

\* Commands that take turns never look like two holders of one token: a grant is
\* ended for reuse only when a command had given up on a request
\* (DeviceLoginClient._locked).
TurnsPreventReuse ==
    \A p \in Proc : call[p].at = "revoke" /\ call[p].reuse => call[p].grant \in late

\* The turns commands take, and the reuse they prevent.
TurnsAreTaken == TheClientTrailsByOne /\ TurnsPreventReuse

\* A command that asks for a token comes to an end, whoever else holds the lock
\* (DeviceLoginClient.access_token).
CommandsEnd ==
    \A c \in Command : cmd[c].at # "idle" ~> cmd[c].at = "idle"

\* "Concurrent commands take turns": the session a login stored leaves the
\* keyring for another login's, or when its own grant has ended.
NewestLoginIsKept ==
    [][ keyring # Empty /\ keyring'.grant # keyring.grant =>
          \/ ~Live(grant[keyring.grant], now)
          \/ \E c \in Command : cmd[c].at = "save" /\ keyring'.grant = cmd[c].grant ]_cvars
=============================================================================
