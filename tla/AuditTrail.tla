------------------------------ MODULE AuditTrail ------------------------------
(***************************************************************************)
(* webbpulse.audit: events recorded under a tenant and an id that sorts by *)
(* time, a listing that walks them newest first over the table, its target *)
(* index or the in-memory store, the purge of a tenant and the TTL.  An id *)
(* is a number; a walk starts at the id Top and 0 is "no cursor".          *)
(***************************************************************************)
EXTENDS Naturals, Sequences, FiniteSets

CONSTANTS AuditEvents,    \* the events there may be, each a tenant and an id in 1..NewestId
          NewestId,
          ByActor,        \* the ids whose actor and action the query names
          OnTarget,       \* the ids whose target the query names
          Floors,         \* the times a query may give as since or until
          ListSize,       \* limit of one page
          ListRounds,     \* MAX_ROUNDS
          PurgeSize,      \* the rows one read of a purge takes
          AuditFields,    \* the fields of a payload
          SecretFields,   \* those the default redaction scrubs
          AllowedFields,  \* payload_fields of the action recorded
          MaxAudited,    \* bound on the events recorded
          MaxAuditFaults  \* bound on lost answers and dead purges

VARIABLES trail,    \* the table: a set of <<tenant, id>>
          indexed,  \* the rows the target index has caught up with
          writer,   \* one caller of record
          listing,  \* one caller of iter_events
          purger,   \* one purge of a tenant
          clear,    \* the fields stored as they were given
          recorded, \* the events record answered
          spent     \* the ids minted, and the records and faults so far

auditVars == <<trail, indexed, writer, listing, purger, clear, recorded, spent>>

AuditTenants == {e[1] : e \in AuditEvents}

ASSUME AuditAssumption ==
  /\ IsFiniteSet(AuditEvents) /\ AuditEvents \subseteq AuditTenants \X (1 .. NewestId)
  /\ NewestId \in Nat /\ Floors \subseteq Nat
  /\ ListSize \in Nat \ {0} /\ ListRounds \in Nat /\ PurgeSize \in Nat \ {0}

Top == NewestId + 1
NoEvent == <<>>

-------------------------------------------------------------------------------
(* What is stored. *)

\* An action with a list of fields drops the others.
Allowed(payload) == payload \cap AllowedFields

\* The fields that are left as they were given.
Scrubbed(payload) == payload \ SecretFields

\* The catalogue's redaction, and the default one when the event is constructed.
BuildEvent(payload) == Scrubbed(Allowed(payload))

\* Only an event with a target is in the target index, and only a row with an
\* index key is ever there.
InTargetIndex(e) == e[2] \in OnTarget

AuditInit ==
  /\ trail \in SUBSET AuditEvents /\ indexed = {e \in trail : InTargetIndex(e)}
  /\ writer = NoEvent
  /\ listing = [at |-> "idle", tenant |-> 0, via |-> "table", low |-> 0, high |-> Top,
                last |-> Top, count |-> 0, round |-> 1, seen |-> <<>>, due |-> {}]
  /\ purger = [at |-> "idle", tenant |-> 0, todo |-> {}, due |-> {}]
  /\ clear = {} /\ recorded = {}
  /\ spent = [minted |-> trail, records |-> 0, faults |-> 0]

\* record builds the event and asks the store to append it.
Record(e, payload) ==
  /\ writer = NoEvent /\ spent.records < MaxAudited /\ e \notin spent.minted
  /\ writer' = e
  /\ clear' = clear \cup BuildEvent(payload)
  /\ spent' = [spent EXCEPT !.records = @ + 1, !.minted = @ \cup {e}]
  /\ UNCHANGED <<trail, indexed, listing, purger, recorded>>

\* The conditional put of append.  A put whose answer is lost is sent again, and
\* then finds its own row: AuditEventExists, which record logs and answers None.
PutEvent(answered) ==
  /\ writer # NoEvent
  /\ trail' = trail \cup {writer}
  /\ recorded' = IF answered /\ writer \notin trail THEN recorded \cup {writer} ELSE recorded
  /\ writer' = IF answered THEN NoEvent ELSE writer
  /\ spent' = IF answered THEN spent ELSE [spent EXCEPT !.faults = @ + 1]
  /\ spent'.faults <= MaxAuditFaults
  /\ UNCHANGED <<indexed, listing, purger, clear>>

\* A read-only table or a store that fails: record answers None.
StoreRefuses ==
  /\ writer # NoEvent /\ writer' = NoEvent
  /\ UNCHANGED <<trail, indexed, listing, purger, clear, recorded, spent>>

\* The index catches up with a row put or deleted.
IndexRow(e) ==
  /\ InTargetIndex(e) /\ (e \in trail) # (e \in indexed)
  /\ indexed' = IF e \in trail THEN indexed \cup {e} ELSE indexed \ {e}
  /\ UNCHANGED <<trail, writer, listing, purger, clear, recorded, spent>>

\* A row is gone from the table: what was due of it is not any more.
Gone(e) ==
  /\ trail' = trail \ {e}
  /\ recorded' = recorded \ {e}
  /\ listing' = [listing EXCEPT !.due = @ \ {e}]

ExpireEvent(e) ==
  /\ e \in trail /\ spent.faults < MaxAuditFaults
  /\ Gone(e)
  /\ spent' = [spent EXCEPT !.faults = @ + 1]
  /\ UNCHANGED <<indexed, writer, purger, clear>>

-------------------------------------------------------------------------------
(* Listing. *)

\* since is inclusive and until is not: both are times that sort below every id
\* minted at them.
Within(id, low, high) == id >= low /\ id < high

\* The rows a listing's key condition covers; the in-memory store filters them
\* before it counts a page, the table after.
Covered(l) ==
  LET source == IF l.via = "index" THEN indexed ELSE trail
  IN {e \in source : /\ e[1] = l.tenant /\ Within(e[2], l.low, l.high)
                     /\ l.via = "index" => InTargetIndex(e)}

MatchesQuery(e, l) == e[2] \in ByActor /\ (l.via = "index" => InTargetIndex(e))

\* The first n of a descending read and of an ascending one, and the id that ends the former.
Newest(S, n) == {e \in S : Cardinality({d \in S : d[2] >= e[2]}) <= n}
Earliest(S, n) == {e \in S : Cardinality({d \in S : d[2] <= e[2]}) <= n}
LastId(S) == CHOOSE id \in {e[2] : e \in S} : \A d \in S : d[2] >= id

\* A page with neither room nor rounds left is answered, and iter_events asks for
\* the next with its cursor.
PageIsAnswered(l, kept) == l.count + Cardinality(kept) >= ListSize \/ l.round = ListRounds

DueOf(l) == {e \in Covered(l) : MatchesQuery(e, l) /\ e[2] < l.last /\ (l.via = "index" => e \in trail)}

StartListing(tenant, via, low, high) ==
  LET l == [listing EXCEPT !.at = "reading", !.tenant = tenant, !.via = via, !.low = low, !.high = high]
  IN /\ listing.at = "idle" /\ low < high
     /\ listing' = [l EXCEPT !.due = DueOf(l)]
     /\ UNCHANGED <<trail, indexed, writer, purger, clear, recorded, spent>>

\* Variant: a round that keeps nothing ends the listing.
ListRound_untilEmpty ==
  LET l == listing
      limit == ListSize - l.count
      read  == Newest({e \in Covered(l) : e[2] < l.last}, limit)
      kept  == {e \in read : MatchesQuery(e, l)}
      more  == Cardinality(read) = limit /\ kept # {}
      full  == PageIsAnswered(l, kept)
  IN /\ l.at = "reading" /\ l.via # "memory"
     /\ listing' = [l EXCEPT !.seen = Append(@, kept),
                             !.last = IF more THEN LastId(read) ELSE 0,
                             !.at = IF more THEN "reading" ELSE "listed",
                             !.count = IF full THEN 0 ELSE @ + Cardinality(kept),
                             !.round = IF full THEN 1 ELSE @ + 1]
     /\ UNCHANGED <<trail, indexed, writer, purger, clear, recorded, spent>>

\* One query of list_events: the limit is what the page still has room for, and a
\* page with neither room nor rounds left is answered with the cursor iter_events
\* follows into the next.
ListRound ==
  LET l == listing
      limit == ListSize - l.count
      read  == Newest({e \in Covered(l) : e[2] < l.last}, limit)
      kept  == {e \in read : MatchesQuery(e, l)}
      more  == Cardinality(read) = limit
      full  == PageIsAnswered(l, kept)
  IN /\ l.at = "reading" /\ l.via # "memory"
     /\ listing' = [l EXCEPT !.seen = Append(@, kept),
                             !.last = IF more THEN LastId(read) ELSE 0,
                             !.at = IF more THEN "reading" ELSE "listed",
                             !.count = IF full THEN 0 ELSE @ + Cardinality(kept),
                             !.round = IF full THEN 1 ELSE @ + 1]
     /\ UNCHANGED <<trail, indexed, writer, purger, clear, recorded, spent>>

\* The in-memory store filters first, and gives a cursor only when rows are left.
MemoryPage ==
  LET l == listing
      found == {e \in Covered(l) : e[2] < l.last /\ MatchesQuery(e, l)}
      page  == Newest(found, ListSize)
      more  == Cardinality(found) > ListSize
  IN /\ l.at = "reading" /\ l.via = "memory"
     /\ listing' = [l EXCEPT !.seen = Append(@, page),
                             !.last = IF more THEN LastId(page) ELSE 0,
                             !.at = IF more THEN "reading" ELSE "listed"]
     /\ UNCHANGED <<trail, indexed, writer, purger, clear, recorded, spent>>

\* A client may bring its cursor to another range: a cursor outside of it is refused.
Resume(low, high) ==
  LET l == [listing EXCEPT !.low = low, !.high = high]
  IN /\ listing.at = "reading" /\ listing.count = 0 /\ listing.last < Top
     /\ low < high /\ <<low, high>> # <<listing.low, listing.high>>
     /\ listing' = IF Within(listing.last, low, high)
                   THEN [l EXCEPT !.due = DueOf(l)]
                   ELSE [listing EXCEPT !.at = "InvalidStartKey"]
     /\ UNCHANGED <<trail, indexed, writer, purger, clear, recorded, spent>>

-------------------------------------------------------------------------------
(* The purge of a tenant, delivered again when it died and perhaps when it did not. *)

StartPurge(tenant) ==
  /\ purger.at \in {"idle", "died", "purged"} /\ (purger.at # "idle" => purger.tenant = tenant)
  /\ purger' = [at |-> "reading", tenant |-> tenant, todo |-> {},
                due |-> {e \in trail : e[1] = tenant /\ e # writer}]
  /\ UNCHANGED <<trail, indexed, writer, listing, clear, recorded, spent>>

\* A consistent read of the partition: it ends when one finds nothing.
PurgeRead ==
  LET left == {e \in trail : e[1] = purger.tenant}
      page == Earliest(left, PurgeSize)
  IN /\ purger.at = "reading" /\ purger.todo = {}
     /\ purger' = [purger EXCEPT !.todo = page, !.at = IF page = {} THEN "purged" ELSE @]
     /\ UNCHANGED <<trail, indexed, writer, listing, clear, recorded, spent>>

PurgeDelete(e) ==
  /\ purger.at = "reading" /\ e \in purger.todo
  /\ Gone(e)
  /\ purger' = [purger EXCEPT !.todo = @ \ {e}]
  /\ UNCHANGED <<indexed, writer, clear, spent>>

PurgeDies ==
  /\ purger.at = "reading" /\ spent.faults < MaxAuditFaults
  /\ purger' = [purger EXCEPT !.at = "died", !.todo = {}]
  /\ spent' = [spent EXCEPT !.faults = @ + 1]
  /\ UNCHANGED <<trail, indexed, writer, listing, clear, recorded>>

AuditNext ==
  \/ \E e \in AuditEvents : Record(e, AuditFields)
  \/ \E answered \in BOOLEAN : PutEvent(answered)
  \/ StoreRefuses
  \/ \E e \in AuditEvents : IndexRow(e) \/ ExpireEvent(e) \/ PurgeDelete(e)
  \/ \E t \in AuditTenants, via \in {"table", "index", "memory"}, low, high \in Floors : StartListing(t, via, low, high)
  \/ ListRound \/ MemoryPage
  \/ \E low, high \in Floors : Resume(low, high)
  \/ \E t \in AuditTenants : StartPurge(t)
  \/ PurgeRead \/ PurgeDies

-------------------------------------------------------------------------------
Listed == UNION {listing.seen[i] : i \in DOMAIN listing.seen}

\* iter_events (audit.py 817): a listing that ran out of cursors has yielded, newest
\* first and once each, every matching event of its range that was there all along,
\* and nothing else, whatever was recorded, purged or expired between its reads and
\* whichever of the two stores it read.
TheListingMissesNothing ==
  /\ \A i, j \in DOMAIN listing.seen : i < j => \A e \in listing.seen[i], d \in listing.seen[j] : e[2] > d[2]
  /\ \A e \in Listed : e[1] = listing.tenant /\ e[2] \in ByActor
  /\ listing.at = "listed" => listing.due \subseteq Listed

\* purge_tenant (audit.py 722): a purge that answers, the first time or delivered
\* again, leaves none of what the tenant had when it began.
ThePurgeLeavesNothing == purger.at = "purged" => purger.due \cap trail = {}

\* AuditRecorder.record (audit.py 954): an event that was answered stays until it
\* expires or its tenant is purged, and no secret field is stored as it was given.
RecordsStand == recorded \subseteq trail /\ clear \cap SecretFields = {}

\* The audit log is complete for its readers and empty after a purge.
TheTrailHolds == TheListingMissesNothing /\ ThePurgeLeavesNothing /\ RecordsStand
===============================================================================
