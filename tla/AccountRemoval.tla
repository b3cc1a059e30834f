----------------------------- MODULE AccountRemoval -----------------------------
(***************************************************************************)
(* Account deletion: the users row goes first (users.py), by its owner, by *)
(* an ephemeral-user route or by the sweep of leftover ones (flows.py,     *)
(* ephemeral_sweep.py); its stream record then purges the identity tables  *)
(* one after another, at least once, while requests that authenticated     *)
(* before the deletion go on writing.                                      *)
(***************************************************************************)
EXTENDS Integers, Sequences, FiniteSets

CONSTANTS UserIds,
          Ephemerals,     \* those created at an e2e address
          PurgeOrder,     \* the tables in the order purge_user deletes from them
          KeyedTables,    \* whose key starts with the user id; the others are listed by an index
          Unsupported,    \* without an index: their rows are left to expire
          LiveRequests, AdminCalls, Deliveries,
          MaxDeliveries   \* bound on the deliveries of one deletion's record

VARIABLES userRow, address, old,
          identityRow,    \* table -> user -> its row
          pending,        \* user -> deliveries of its REMOVE record still to come
          liveRequest, adminCall, purge,
          purged,         \* history: users a delivery purged to the end
          mistaken        \* history: users an admin call deleted while their address was real,
                          \* and whether it had been since before the call read it
removalVars == <<userRow, address, old, identityRow, pending, liveRequest, adminCall, purge, purged, mistaken>>

Tables == {PurgeOrder[i] : i \in DOMAIN PurgeOrder}
ASSUME TablesHaveAnOrder == PurgeOrder \in Seq(Tables) /\ MaxDeliveries \in Nat

NoIdentity == [there |-> FALSE, listed |-> FALSE, doomed |-> FALSE]
IdleRequest == [at |-> "idle", user |-> "", to |-> ""]
IdleCall == [at |-> "idle", user |-> "", todo |-> {}, real |-> FALSE]
IdlePurge == [at |-> 0, user |-> ""]

-------------------------------------------------------------------------------
\* A request authenticates while the account is there and writes a row later.
AuthenticateUser(q, u) ==
  /\ liveRequest[q].at = "idle" /\ userRow[u] = "whole"
  /\ liveRequest' = [liveRequest EXCEPT ![q] = [at |-> "write", user |-> u, to |-> ""]]
  /\ UNCHANGED <<userRow, address, old, identityRow, pending, adminCall, purge, purged, mistaken>>

WriteIdentity(q, t) ==
  LET u == liveRequest[q].user IN
  /\ liveRequest[q].at = "write" /\ ~identityRow[t][u].there
  /\ identityRow' = [identityRow EXCEPT ![t][u] = [there |-> TRUE, listed |-> t \in KeyedTables, doomed |-> FALSE]]
  /\ liveRequest' = [liveRequest EXCEPT ![q] = IdleRequest]
  /\ UNCHANGED <<userRow, address, old, pending, adminCall, purge, purged, mistaken>>

ShowInIndex ==
  /\ \E t \in Tables, u \in UserIds : identityRow[t][u].there /\ ~identityRow[t][u].listed
  /\ identityRow' = [t \in Tables |-> [u \in UserIds |-> [identityRow[t][u] EXCEPT !.listed = @ \/ identityRow[t][u].there]]]
  /\ UNCHANGED <<userRow, address, old, pending, liveRequest, adminCall, purge, purged, mistaken>>

\* Confirming an address reads the row, reads it again in update, and then writes
\* without a condition.
ConfirmAddress(q, u, to) ==
  /\ liveRequest[q].at = "idle" /\ userRow[u] = "whole"
  /\ liveRequest' = [liveRequest EXCEPT ![q] = [at |-> "update", user |-> u, to |-> to]]
  /\ UNCHANGED <<userRow, address, old, identityRow, pending, adminCall, purge, purged, mistaken>>

UpdateUser(q) ==
  LET r == liveRequest[q] IN
  /\ r.at = "update"
  /\ userRow' = [userRow EXCEPT ![r.user] = IF @ = "absent" THEN "stub" ELSE @]
  /\ address' = IF userRow[r.user] = "whole" THEN [address EXCEPT ![r.user] = r.to] ELSE address
  /\ adminCall' = [a \in AdminCalls |-> IF adminCall[a].user = r.user /\ r.to # "real"
                                       THEN [adminCall[a] EXCEPT !.real = FALSE] ELSE adminCall[a]]
  /\ liveRequest' = [liveRequest EXCEPT ![q] = IdleRequest]
  /\ UNCHANGED <<old, identityRow, pending, purge, purged, mistaken>>

LiveRequestDies(q) ==
  /\ liveRequest[q].at # "idle" /\ liveRequest' = [liveRequest EXCEPT ![q] = IdleRequest]
  /\ UNCHANGED <<userRow, address, old, identityRow, pending, adminCall, purge, purged, mistaken>>

-------------------------------------------------------------------------------
\* Every way to delete the row leaves a REMOVE record, delivered at least once.
\* What the indexes show of the user by then is what the purge owes.
Removed(u) ==
  /\ userRow' = [userRow EXCEPT ![u] = "absent"]
  /\ pending' = [pending EXCEPT ![u] = MaxDeliveries]
  /\ identityRow' = [t \in Tables |-> [identityRow[t] EXCEPT ![u].doomed = identityRow[t][u].listed]]

OwnerDeletes(u) ==
  /\ userRow[u] = "whole" /\ Removed(u)
  /\ UNCHANGED <<address, old, liveRequest, adminCall, purge, purged, mistaken>>

\* delete_ephemeral_user reads the row it was given; sweep_ephemeral_users scans
\* for old ones first, and reads each again.  real: the address of the user in hand
\* has been a real one since before that read.
IsReal(u) == userRow[u] = "whole" /\ address[u] = "real"

DeleteEphemeral(a, u) ==
  /\ adminCall[a].at = "idle" /\ userRow[u] = "whole"
  /\ adminCall' = [adminCall EXCEPT ![a] = [IdleCall EXCEPT !.at = "read", !.user = u, !.real = IsReal(u)]]
  /\ UNCHANGED <<userRow, address, old, identityRow, pending, liveRequest, purge, purged, mistaken>>

AtE2E(u) == address[u] \in {"e2e", "unconfirmed"}

\* create_ephemeral_user takes a free address, confirmed or not; the credential is a
\* put of its own, and so is a link, which only an unconfirmed account is given.
CreateEphemeral(a, u, confirmed) ==
  /\ adminCall[a].at = "idle" /\ userRow[u] = "unborn"
  /\ userRow' = [userRow EXCEPT ![u] = "whole"]
  /\ address' = [address EXCEPT ![u] = IF confirmed THEN "e2e" ELSE "unconfirmed"]
  /\ adminCall' = [adminCall EXCEPT ![a] = [IdleCall EXCEPT !.at = "credentials", !.user = u]]
  /\ UNCHANGED <<old, identityRow, pending, liveRequest, purge, purged, mistaken>>

IssueVerificationLink(a, u) ==
  /\ adminCall[a].at = "idle" /\ userRow[u] = "whole" /\ address[u] = "unconfirmed"
  /\ adminCall' = [adminCall EXCEPT ![a] = [IdleCall EXCEPT !.at = "identity_tokens", !.user = u]]
  /\ UNCHANGED <<userRow, address, old, identityRow, pending, liveRequest, purge, purged, mistaken>>

PutForEphemeral(a) ==
  LET t == adminCall[a].at IN
  /\ t \in Tables
  /\ identityRow' = [identityRow EXCEPT ![t][adminCall[a].user] =
                       [there |-> TRUE, listed |-> @.listed \/ t \in KeyedTables, doomed |-> @.doomed]]
  /\ adminCall' = [adminCall EXCEPT ![a] = IdleCall]
  /\ UNCHANGED <<userRow, address, old, pending, liveRequest, purge, purged, mistaken>>

AdminCallDies(a) ==
  /\ adminCall[a].at # "idle" /\ adminCall' = [adminCall EXCEPT ![a] = IdleCall]
  /\ UNCHANGED <<userRow, address, old, identityRow, pending, liveRequest, purge, purged, mistaken>>

Candidates == {u \in UserIds : userRow[u] = "whole" /\ AtE2E(u) /\ old[u]}
SweepEphemerals(a) ==
  /\ adminCall[a].at = "idle" /\ Candidates # {}
  /\ adminCall' = [adminCall EXCEPT ![a] = [IdleCall EXCEPT !.at = "next", !.todo = Candidates]]
  /\ UNCHANGED <<userRow, address, old, identityRow, pending, liveRequest, purge, purged, mistaken>>

NextCandidate(a) ==
  /\ adminCall[a].at = "next"
  /\ IF adminCall[a].todo = {} THEN adminCall' = [adminCall EXCEPT ![a] = IdleCall]
     ELSE \E u \in adminCall[a].todo : adminCall' = [adminCall EXCEPT ![a].at = "read", ![a].user = u,
                                                                     ![a].todo = @ \ {u}, ![a].real = IsReal(u)]
  /\ UNCHANGED <<userRow, address, old, identityRow, pending, liveRequest, purge, purged, mistaken>>

\* variant: the scan's address is trusted
MayDelete_scanned(u) == userRow[u] = "whole"
MayDelete(u) == userRow[u] = "whole" /\ AtE2E(u)

\* A row that is no user raises where it is read, and that ends the whole call.
Read(a, found) ==
  adminCall' = IF userRow[adminCall[a].user] = "stub" THEN [adminCall EXCEPT ![a] = IdleCall]
               ELSE [adminCall EXCEPT ![a].at = found]

ReadAgain(a) ==
  /\ adminCall[a].at = "read" /\ Read(a, IF MayDelete(adminCall[a].user) THEN "delete" ELSE "next")
  /\ UNCHANGED <<userRow, address, old, identityRow, pending, liveRequest, purge, purged, mistaken>>

\* The repository's delete reads the row once more, only to say whether it was there,
\* and then deletes it without a condition.
DeleteReads(a) ==
  /\ adminCall[a].at = "delete" /\ Read(a, IF userRow[adminCall[a].user] = "whole" THEN "erase" ELSE "next")
  /\ UNCHANGED <<userRow, address, old, identityRow, pending, liveRequest, purge, purged, mistaken>>

Erase(a) ==
  LET u == adminCall[a].user IN
  /\ adminCall[a].at = "erase"
  /\ CASE userRow[u] = "whole" -> Removed(u)
       [] userRow[u] = "stub" -> /\ userRow' = [userRow EXCEPT ![u] = "absent"]
                                 /\ pending' = [pending EXCEPT ![u] = MaxDeliveries] /\ UNCHANGED identityRow
       [] OTHER -> UNCHANGED <<userRow, pending, identityRow>>
  /\ mistaken' = IF IsReal(u) THEN mistaken \cup {[user |-> u, throughout |-> adminCall[a].real]} ELSE mistaken
  /\ adminCall' = [adminCall EXCEPT ![a].at = "next"]
  /\ UNCHANGED <<address, old, liveRequest, purge, purged>>

GrowsOld(u) ==
  /\ ~old[u] /\ userRow[u] # "unborn" /\ old' = [old EXCEPT ![u] = TRUE]
  /\ UNCHANGED <<userRow, address, identityRow, pending, liveRequest, adminCall, purge, purged, mistaken>>

-------------------------------------------------------------------------------
DeliverRemove(d, u) ==
  /\ purge[d].at = 0 /\ pending[u] > 0
  /\ purge' = [purge EXCEPT ![d] = [at |-> 1, user |-> u]]
  /\ UNCHANGED <<userRow, address, old, identityRow, pending, liveRequest, adminCall, purged, mistaken>>

\* variant: a table that cannot be enumerated ends the purge
NextTable_stops(d) == IF PurgeOrder[purge[d].at] \in Unsupported THEN Len(PurgeOrder) + 1 ELSE purge[d].at + 1
\* A table that cannot be enumerated is reported and the purge goes on.
NextTable(d) == purge[d].at + 1

PurgeTable(d) ==
  LET p == purge[d] t == PurgeOrder[p.at] IN
  /\ p.at \in DOMAIN PurgeOrder
  /\ identityRow' = IF t \in Unsupported \/ ~identityRow[t][p.user].listed THEN identityRow
                    ELSE [identityRow EXCEPT ![t][p.user] = NoIdentity]
  /\ purge' = [purge EXCEPT ![d].at = NextTable(d)]
  /\ UNCHANGED <<userRow, address, old, pending, liveRequest, adminCall, purged, mistaken>>

\* An error part of the way: the record is delivered again.
PurgeFails(d) ==
  /\ purge[d].at \in DOMAIN PurgeOrder
  /\ purge' = [purge EXCEPT ![d] = IdlePurge]
  /\ UNCHANGED <<userRow, address, old, identityRow, pending, liveRequest, adminCall, purged, mistaken>>

PurgeEnds(d) ==
  /\ purge[d].at = Len(PurgeOrder) + 1
  /\ pending' = [pending EXCEPT ![purge[d].user] = IF @ = 0 THEN 0 ELSE @ - 1]
  /\ purged' = purged \cup {purge[d].user}
  /\ purge' = [purge EXCEPT ![d] = IdlePurge]
  /\ UNCHANGED <<userRow, address, old, identityRow, liveRequest, adminCall, mistaken>>

RemovalInit ==
  /\ userRow \in [UserIds -> {"whole", "unborn"}] /\ \A u \in UserIds \ Ephemerals : userRow[u] = "whole"
  /\ address = [u \in UserIds |-> IF u \in Ephemerals THEN "e2e" ELSE "real"]
  /\ old = [u \in UserIds |-> FALSE]
  /\ identityRow = [t \in Tables |-> [u \in UserIds |-> NoIdentity]]
  /\ pending = [u \in UserIds |-> 0]
  /\ liveRequest = [q \in LiveRequests |-> IdleRequest]
  /\ adminCall = [a \in AdminCalls |-> IdleCall] /\ purge = [d \in Deliveries |-> IdlePurge]
  /\ purged = {} /\ mistaken = {}

RemovalNext ==
  \/ ShowInIndex
  \/ \E q \in LiveRequests :
       \/ \E u \in UserIds : AuthenticateUser(q, u) \/ \E to \in {"e2e", "real"} : ConfirmAddress(q, u, to)
       \/ \E t \in Tables : WriteIdentity(q, t)
       \/ UpdateUser(q) \/ LiveRequestDies(q)
  \/ \E u \in UserIds : OwnerDeletes(u) \/ GrowsOld(u)
  \/ \E a \in AdminCalls :
       \/ \E u \in UserIds : DeleteEphemeral(a, u) \/ IssueVerificationLink(a, u) \/ \E confirmed \in BOOLEAN : CreateEphemeral(a, u, confirmed)
       \/ PutForEphemeral(a) \/ AdminCallDies(a)
       \/ SweepEphemerals(a) \/ NextCandidate(a) \/ ReadAgain(a) \/ DeleteReads(a) \/ Erase(a)
  \/ \E d \in Deliveries :
       \/ \E u \in UserIds : DeliverRemove(d, u)
       \/ PurgeTable(d) \/ PurgeFails(d) \/ PurgeEnds(d)

RemovalSpec == RemovalInit /\ [][RemovalNext]_removalVars

-------------------------------------------------------------------------------
\* A purge that ended, first or repeated, beside another delivery or after one
\* that failed, has left no row the indexes showed when the account was deleted,
\* but those of tables that cannot be enumerated.
PurgeReachesEveryTable ==
  \A u \in purged : \A t \in Tables \ Unsupported : ~identityRow[t][u].doomed

\* The ephemeral-user routes delete nobody whose address was real from before the
\* call read the row until it went, although a scan had shown an e2e address.
RealAccountsStay == \A m \in mistaken : ~m.throughout

\* flows.py says the route "can never remove a real account": it can remove one
\* whose address became real after that read.
RoutesNeverRemoveReal == mistaken = {}

RemovalIsWhole == PurgeReachesEveryTable /\ RealAccountsStay

\* users.py says update raises for a row that is not there "rather than creating
\* one".  The check is a read, and the row may go before the write.
DeletedUsersStayDeleted == \A u \in UserIds : userRow[u] # "stub"
================================================================================
