------------------------------- MODULE BearerKeys -------------------------------
(***************************************************************************)
(* API keys (api_keys.py) and share tokens (share_tokens.py): rows found   *)
(* by the hash of what a caller presents, the requests that spend them     *)
(* through claims_or_api_key (scopes.py) and claims_or_credential, and the *)
(* listings over lagging indexes that revoke or delete many of them.       *)
(***************************************************************************)
EXTENDS Integers, FiniteSets

CONSTANTS KeyHashes,      \* of API keys
          ShareHashes,    \* of share tokens
          Owners, KeyTenants, GrantableScopes,
          KeyRequests, Sweeps,
          LastTick        \* bound on the clock

\* Keys and links are in tables of their own.
ASSUME TablesAreApart == KeyHashes \cap ShareHashes = {}

VARIABLES keyNow,
          keyRow,         \* hash -> its row
          keyIndex,       \* the hashes the indexes show
          membership,     \* owner -> the scopes its live membership grants
          keyRequest, sweep,
          dead,           \* history: the hashes revoked or deleted
          revocations     \* history: the revocations callers were told they made
keyVars == <<keyNow, keyRow, keyIndex, membership, keyRequest, sweep, dead, revocations>>

Hashes == KeyHashes \cup ShareHashes
NoKey == [there |-> FALSE, owner |-> "", tenant |-> "", scopes |-> {}, expires |-> 0, revoked |-> FALSE]
Unrevoked == [NoKey EXCEPT !.there = TRUE]     \* what an update of an absent row leaves
Usable(row) == row.there /\ ~row.revoked /\ (row.expires = 0 \/ keyNow < row.expires)

IdleKey == [at |-> "idle", hash |-> "", row |-> NoKey, tenant |-> "", scopes |-> {}, deadBefore |-> FALSE, live |-> {}]
IdleSweep == [at |-> "idle", verb |-> "", todo |-> {}, seen |-> {}]

-------------------------------------------------------------------------------
\* The minter passes scopes it need not hold; a key may expire, and so may a link.
Mint(h, u, t, scopes, expires) ==
  /\ keyRow[h] = NoKey /\ h \notin dead
  /\ keyRow' = [keyRow EXCEPT ![h] = [there |-> TRUE, owner |-> u, tenant |-> t,
                   scopes |-> IF h \in KeyHashes THEN scopes ELSE {}, expires |-> expires, revoked |-> FALSE]]
  /\ UNCHANGED <<keyNow, keyIndex, membership, keyRequest, sweep, dead, revocations>>

IndexKeys ==
  /\ keyIndex' = {h \in Hashes : keyRow[h].there /\ keyRow[h].tenant # ""}
  /\ keyIndex' # keyIndex
  /\ UNCHANGED <<keyNow, keyRow, membership, keyRequest, sweep, dead, revocations>>

\* The row is read consistently; every refusal looks the same.
Verify(q, h, t) ==
  /\ keyRequest[q].at = "idle"
  /\ Usable(keyRow[h])
  /\ keyRequest' = [keyRequest EXCEPT ![q] = [at |-> "touch", hash |-> h, row |-> keyRow[h], tenant |-> t,
                       scopes |-> {}, deadBefore |-> h \in dead, live |-> {}]]
  /\ UNCHANGED <<keyNow, keyRow, keyIndex, membership, sweep, dead, revocations>>

\* variant: the stamp makes the row it does not find
Stamped_upsert(row) == IF row.there THEN row ELSE Unrevoked
\* The stamp's condition keeps it from making a row deleted meanwhile; it leaves
\* alone everything a refusal depends on, and a stamp that fails is swallowed.
Stamped(row) == row

Touch(q) ==
  /\ keyRequest[q].at = "touch"
  /\ keyRow' = [keyRow EXCEPT ![keyRequest[q].hash] = Stamped(@)]
  /\ keyRequest' = [keyRequest EXCEPT ![q].at = IF keyRequest[q].hash \in KeyHashes THEN "scopes" ELSE "admitted"]
  /\ UNCHANGED <<keyNow, keyIndex, membership, sweep, dead, revocations>>

EffectiveScopes(row, live) == row.scopes \cap live

\* Live membership is loaded, the scopes are intersected with it, and a key bound
\* to another tenant than the request's is refused.
ResolveScopes(q) ==
  LET r == keyRequest[q] live == membership[r.row.owner] IN
  /\ r.at = "scopes"
  /\ keyRequest' = [keyRequest EXCEPT ![q] =
       IF r.row.tenant = r.tenant
       THEN [at |-> "admitted", hash |-> r.hash, row |-> r.row, tenant |-> r.tenant,
             scopes |-> EffectiveScopes(r.row, live), deadBefore |-> r.deadBefore, live |-> live]
       ELSE IdleKey]
  /\ UNCHANGED <<keyNow, keyRow, keyIndex, membership, sweep, dead, revocations>>

Served(q) ==
  /\ keyRequest[q].at = "admitted"
  /\ keyRequest' = [keyRequest EXCEPT ![q] = IdleKey]
  /\ UNCHANGED <<keyNow, keyRow, keyIndex, membership, sweep, dead, revocations>>

KeyRequestFails(q) ==
  /\ keyRequest[q].at \in {"touch", "scopes"}
  /\ keyRequest' = [keyRequest EXCEPT ![q] = IdleKey]
  /\ UNCHANGED <<keyNow, keyRow, keyIndex, membership, sweep, dead, revocations>>

-------------------------------------------------------------------------------
\* The conditional update that answers the row as it was.
Revocable(row) == row.there /\ ~row.revoked

Revoked(h) ==
  /\ keyRow' = [keyRow EXCEPT ![h].revoked = TRUE]
  /\ dead' = dead \cup {h} /\ revocations' = revocations + 1

RevokeKey(h) ==
  /\ Revocable(keyRow[h]) /\ Revoked(h)
  /\ UNCHANGED <<keyNow, keyIndex, membership, keyRequest, sweep>>

\* Each begins with a listing from an index: the keys or the links of a tenant to
\* revoke, an owner's keys or a tenant's links to delete.
Listed(verb, store, t) ==
  {h \in keyIndex \cap store : keyRow[h].there /\ (keyRow[h].tenant = t \/ (verb = "delete" /\ store = KeyHashes))}

StartSweep(w, verb, store, t) ==
  LET found == Listed(verb, store, t) IN
  /\ sweep[w].at = "idle"
  /\ sweep' = [sweep EXCEPT ![w] = [at |-> "sweep", verb |-> verb, todo |-> found, seen |-> found]]
  /\ UNCHANGED <<keyNow, keyRow, keyIndex, membership, keyRequest, dead, revocations>>

\* One row of the listing; a row another sweep revoked first is not counted.
SweepRevokes(w, h) ==
  /\ sweep[w].at = "sweep" /\ sweep[w].verb = "revoke" /\ h \in sweep[w].todo
  /\ IF Revocable(keyRow[h])
     THEN Revoked(h)
     ELSE UNCHANGED <<keyRow, dead, revocations>>
  /\ sweep' = [sweep EXCEPT ![w].todo = @ \ {h}]
  /\ UNCHANGED <<keyNow, keyIndex, membership, keyRequest>>

SweepDeletes(w, h) ==
  /\ sweep[w].at = "sweep" /\ sweep[w].verb = "delete" /\ h \in sweep[w].todo
  /\ keyRow' = [keyRow EXCEPT ![h] = NoKey]
  /\ dead' = dead \cup {h}
  /\ sweep' = [sweep EXCEPT ![w].todo = @ \ {h}]
  /\ UNCHANGED <<keyNow, keyIndex, membership, keyRequest, revocations>>

EndSweep(w) ==
  /\ sweep[w].at = "sweep" /\ sweep[w].todo = {}
  /\ sweep' = [sweep EXCEPT ![w].at = "done"]
  /\ UNCHANGED <<keyNow, keyRow, keyIndex, membership, keyRequest, dead, revocations>>

SweepFails(w) ==
  /\ sweep[w].at = "sweep" /\ sweep' = [sweep EXCEPT ![w].at = "failed"]
  /\ UNCHANGED <<keyNow, keyRow, keyIndex, membership, keyRequest, dead, revocations>>

ChangeRole(u, scopes) ==
  /\ membership[u] # scopes /\ membership' = [membership EXCEPT ![u] = scopes]
  /\ UNCHANGED <<keyNow, keyRow, keyIndex, keyRequest, sweep, dead, revocations>>

\* The table deletes a share link some time after it expired; a key it never deletes.
LinkLapses(h) ==
  /\ h \in ShareHashes /\ keyRow[h].expires > 0 /\ keyRow[h].expires <= keyNow
  /\ keyRow' = [keyRow EXCEPT ![h] = NoKey] /\ dead' = dead \cup {h}
  /\ UNCHANGED <<keyNow, keyIndex, membership, keyRequest, sweep, revocations>>

KeyTick ==
  /\ keyNow < LastTick /\ keyNow' = keyNow + 1
  /\ UNCHANGED <<keyRow, keyIndex, membership, keyRequest, sweep, dead, revocations>>

KeyInit ==
  /\ keyNow = 0 /\ keyRow = [h \in Hashes |-> NoKey] /\ keyIndex = {}
  /\ membership = [u \in Owners |-> GrantableScopes]
  /\ keyRequest = [q \in KeyRequests |-> IdleKey] /\ sweep = [w \in Sweeps |-> IdleSweep]
  /\ dead = {} /\ revocations = 0

KeyNext ==
  \/ KeyTick \/ IndexKeys
  \/ \E h \in Hashes, u \in Owners, t \in KeyTenants, scopes \in SUBSET GrantableScopes, expires \in {0, LastTick} :
       Mint(h, u, t, scopes, expires)
  \/ \E h \in Hashes : RevokeKey(h) \/ LinkLapses(h)
  \/ \E q \in KeyRequests :
       \/ \E h \in Hashes, t \in KeyTenants : Verify(q, h, t)
       \/ Touch(q) \/ ResolveScopes(q) \/ Served(q) \/ KeyRequestFails(q)
  \/ \E w \in Sweeps :
       \/ \E verb \in {"revoke", "delete"}, store \in {KeyHashes, ShareHashes}, t \in KeyTenants : StartSweep(w, verb, store, t)
       \/ \E h \in Hashes : SweepRevokes(w, h) \/ SweepDeletes(w, h)
       \/ EndSweep(w) \/ SweepFails(w)
  \/ \E u \in Owners, scopes \in SUBSET GrantableScopes : ChangeRole(u, scopes)

KeySpec == KeyInit /\ [][KeyNext]_keyVars

-------------------------------------------------------------------------------
\* A key revoked, deleted or lapsed authenticates no later request, though requests
\* that read it before go on stamping its row and others list it from a stale index.
DeadKeysStayDead ==
  /\ \A h \in dead : ~Usable(keyRow[h])
  /\ \A q \in KeyRequests : ~keyRequest[q].deadBefore

\* A request acts in the key's tenant, with scopes the key carries and its owner
\* still held when membership was loaded; a link carries no scope.
AdmittedAreDelegated ==
  \A q \in KeyRequests : LET r == keyRequest[q] IN r.at = "admitted" =>
    /\ r.scopes \subseteq r.row.scopes \cap r.live
    /\ r.hash \in KeyHashes => r.row.tenant = r.tenant
    /\ r.hash \in ShareHashes => r.scopes = {}

\* A sweep that ends has left nothing usable of what it listed, and each
\* revocation is one caller's: what the callers and the sweeps count together
\* never exceeds the keys that ended.
SweepsEndWhatTheyList ==
  \A w \in Sweeps : sweep[w].at = "done" => \A h \in sweep[w].seen : ~Usable(keyRow[h])
RevokedOnce == revocations <= Cardinality(dead)

CredentialsEnd == DeadKeysStayDead /\ AdmittedAreDelegated /\ SweepsEndWhatTheyList /\ RevokedOnce
================================================================================
