------------------------------ MODULE TableReads ------------------------------
(***************************************************************************)
(* The paged and batched reads of webbpulse.dynamodb.Repository, beside    *)
(* writers that put and delete rows between two pages.  A row is a         *)
(* partition ("scope") and a sort key; a key is a number, 0 stands for "no *)
(* cursor".  A query walks one partition in key order, a scan walks the    *)
(* table in the order of Position.  A behaviour follows one reader, a walk *)
(* or a batch: readers share nothing but the table.                        *)
(***************************************************************************)
EXTENDS Naturals, Sequences, FiniteSets

CONSTANTS Scopes,         \* the partitions, 1..n
          Keys,           \* the sort keys, 1..n
          Position,       \* where a row is in the order of a read: a scan's, and within a partition the keys'
          Unmatched,      \* the keys a FilterExpression drops after the read
          PageSize,       \* Limit: the rows one page reads
          MaxItems,       \* max_items of a walk
          BatchLimit,     \* BATCH_GET_LIMIT
          BatchAttempts,  \* max_attempts of batch_get
          MaxWrites       \* bound on the writes beside the reads

VARIABLES rows,    \* the table: a set of <<scope, key>>
          walk,    \* one reader following pages
          batch,   \* one caller of get_many
          writes   \* the writes so far

readVars == <<rows, walk, batch, writes>>

Row == Scopes \X Keys

ASSUME ReadsAssumption ==
  /\ IsFiniteSet(Scopes) /\ IsFiniteSet(Keys)
  /\ Position \in [Row -> Nat \ {0}] /\ \A r, q \in Row : Position[r] = Position[q] => r = q
  /\ PageSize \in Nat \ {0} /\ MaxItems \in Nat \ {0}

InvalidStartKey == [k |-> 0, s |-> 0]

\* The first n of some rows, and how far they reach.
Foremost(S, n) == {r \in S : Cardinality({q \in S : Position[q] <= Position[r]}) <= n}
Farthest(S) == CHOOSE n \in {Position[r] : r \in S} : \A q \in S : Position[q] <= n

\* A cursor is minted with the scope of the read it came from...
EncodeStartKey(key, scope) == [k |-> key, s |-> scope]

\* ...and refused under any other; no cursor at all is the first page.
DecodeStartKey(token, scope) ==
  IF token.k = 0 THEN [k |-> 0, s |-> scope]
  ELSE IF token.s = scope THEN token ELSE InvalidStartKey

\* Limit bounds the rows read, not the rows left after the filter, and a full
\* page carries a cursor even when nothing is left behind it.
PageOf(candidates, from) ==
  LET read == Foremost({r \in candidates : Position[r] > from}, PageSize)
  IN [items |-> {r \in read : r[2] \notin Unmatched},
      last  |-> IF Cardinality(read) = PageSize THEN Farthest(read) ELSE 0]

QueryPage(scope, from) == PageOf({r \in rows : r[1] = scope}, from)
ScanPage(from) == PageOf(rows, from)

\* A page is yielded row by row until max_items.
Yielded(page) == Foremost(page.items, MaxItems - walk.yielded)

\* Only a missing cursor ends the walk; an empty page with one does not.
HasMore(page) == page.last # 0

ReadInit ==
  /\ rows \in SUBSET Row
  /\ walk = [at |-> "idle", kind |-> "query", scope |-> 1, token |-> EncodeStartKey(0, 1),
             seen |-> <<>>, yielded |-> 0, stable |-> {}]
  /\ batch = [at |-> "idle", wanted |-> {}, pending |-> {}, attempt |-> 0, found |-> {}, stable |-> {}]
  /\ writes = 0

StartWalk(kind, scope) ==
  /\ walk.at = "idle" /\ batch.at = "idle"
  /\ walk' = [at |-> "reading", kind |-> kind, scope |-> scope, token |-> EncodeStartKey(0, scope),
              seen |-> <<>>, yielded |-> 0,
              stable |-> IF kind = "scan" THEN rows ELSE {r \in rows : r[1] = scope}]
  /\ UNCHANGED <<rows, batch, writes>>

\* One turn of iter_query, iter_scan or iter_all_pages; seen has the rows of each.
\* A client that pages by hand brings its cursor back through decode_start_key,
\* naming a scope.
ReadPage(scope) ==
  LET key  == DecodeStartKey(walk.token, scope)
      page == IF walk.kind = "scan" THEN ScanPage(key.k) ELSE QueryPage(scope, key.k)
      yielded == walk.yielded + Cardinality(Yielded(page))
  IN /\ walk.at = "reading"
     /\ walk.kind = "scan" => scope = walk.scope
     /\ walk.token.k = 0 => scope = walk.scope
     /\ key # InvalidStartKey
     /\ walk' = [walk EXCEPT !.seen = Append(@, Yielded(page)), !.yielded = yielded,
                             !.token = EncodeStartKey(page.last, scope),
                             !.at = IF yielded = MaxItems THEN "capped"
                                    ELSE IF HasMore(page) THEN "reading" ELSE "exhausted"]
     /\ UNCHANGED <<rows, batch, writes>>

\* get_many names each id once, and batch_get sends them in chunks.
StartBatch(ids) ==
  /\ walk.at = "idle" /\ batch.at = "idle"
  /\ batch' = [at |-> IF ids = {} THEN "returned" ELSE "reading",
               wanted |-> ids \ Foremost(ids, BatchLimit), pending |-> Foremost(ids, BatchLimit),
               attempt |-> 1, found |-> {}, stable |-> rows \cap ids]
  /\ UNCHANGED <<rows, walk, writes>>

\* One BatchGetItem: the service answers some keys and sheds the others, which
\* are asked again until the attempts of the chunk are spent.
BatchGet(served) ==
  LET left == batch.pending \ served
      chunk == Foremost(batch.wanted, BatchLimit)
      step == [batch EXCEPT !.found = @ \cup (served \cap rows)]
  IN /\ batch.at = "reading"
     /\ batch' =
          IF left # {}
          THEN IF batch.attempt = BatchAttempts
               THEN [step EXCEPT !.at = "UnprocessedItems"]
               ELSE [step EXCEPT !.pending = left, !.attempt = @ + 1]
          ELSE IF batch.wanted = {}
               THEN [step EXCEPT !.at = "returned", !.pending = {}]
               ELSE [step EXCEPT !.pending = chunk, !.attempt = 1, !.wanted = @ \ chunk]
     /\ UNCHANGED <<rows, walk, writes>>

PutRow(r) ==
  /\ writes < MaxWrites
  /\ rows' = rows \cup {r}
  /\ writes' = writes + 1
  /\ UNCHANGED <<walk, batch>>

DeleteRow(r) ==
  /\ writes < MaxWrites
  /\ rows' = rows \ {r}
  /\ walk' = [walk EXCEPT !.stable = @ \ {r}]
  /\ batch' = [batch EXCEPT !.stable = @ \ {r}]
  /\ writes' = writes + 1

ReadNext ==
  \/ \E kind \in {"query", "scan"}, s \in Scopes : StartWalk(kind, s)
  \/ \E s \in Scopes : ReadPage(s)
  \/ \E ids \in SUBSET Row : StartBatch(ids)
  \/ \E served \in SUBSET batch.pending : BatchGet(served)
  \/ \E r \in Row : PutRow(r) \/ DeleteRow(r)

ReadSpec == ReadInit /\ [][ReadNext]_readVars

-------------------------------------------------------------------------------
\* The rows a walk must answer: those its filter keeps and no write removed.
Due == {r \in walk.stable : r[2] \notin Unmatched}

Seen == UNION {walk.seen[i] : i \in DOMAIN walk.seen}

\* iter_query and iter_scan (dynamodb.py 701, 1019): a walk that ran out of
\* cursors has yielded every row that was there all along, in order and once, and
\* no row of another scope, whatever was written between its pages.
ExhaustedWalkMissesNothing ==
  /\ \A i, j \in DOMAIN walk.seen : i < j => \A r \in walk.seen[i], q \in walk.seen[j] : Position[r] < Position[q]
  /\ walk.kind = "query" => \A r \in Seen : r[1] = walk.scope
  /\ walk.at = "exhausted" => Due \subseteq Seen

\* batch_get (dynamodb.py 1046): a batch that returns, rather than raises, has
\* every row it was asked for that was there all along; it is never short
\* because the service shed some of its keys.
BatchIsNeverShort == batch.at = "returned" => batch.stable \subseteq batch.found

\* Reads are complete: neither a page boundary nor a shed key loses a row.
ReadsAreComplete == ExhaustedWalkMissesNothing /\ BatchIsNeverShort
===============================================================================
