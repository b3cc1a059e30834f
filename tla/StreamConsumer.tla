--------------------------- MODULE StreamConsumer ----------------------------
(***************************************************************************)
(* The stream consumer route of webbpulse.events: an event source mapping  *)
(* posts batches of a shard's records, the route runs the handler on each  *)
(* and answers the ids that raised, and the mapping resumes from the       *)
(* earliest of them.  The handler is the one record_sequence is documented *)
(* for: it keeps the highest sequence number it applied of each item.      *)
(***************************************************************************)
EXTENDS Naturals, Sequences, FiniteSets

CONSTANTS StreamItems,    \* the partition keys the stream carries
          EventNames,     \* the eventName values of records
          WantedNames,    \* event_names: what the consumer takes
          FirstSequence,  \* sequence number of the first record
          MaxRecords,     \* bound on the records written
          MaxRaises       \* bound on the handler's failures and on crashes

\* No record is numbered zero, which is what a copy without the item holds.
ASSUME SequencesAreNumbers == FirstSequence \in Nat \ {0} /\ MaxRecords \in Nat

VARIABLES shard,      \* the records written, in order
          checkpoint, \* how many of them the mapping has left behind
          invocation, \* the batch being handled: first, next, last, failures
          applied,    \* the consumer's copy: highest sequence applied per item
          raises      \* failures and crashes so far

streamVars == <<shard, checkpoint, invocation, applied, raises>>

NoInvocation == [on |-> FALSE, next |-> 0, last |-> 0, failures |-> {}]

\* The decimal string of a record read as a number: 100 comes after 99.
RecordSequence(record) == record.sequence

\* A record that reached the route through API Gateway carries its request
\* context, a JSON object; the adapter's own invocation carries the literal null.
Headers == {"absent", "null", "object", "malformed"}
ArrivedThroughApiGateway(header) == header \in {"object", "malformed"}

\* What the route answers under: the eventID of each record that raised.
RecordId(position) == position
BatchItemFailures(ids) == {RecordId(p) : p \in ids}

StreamInit ==
  /\ shard = <<>>
  /\ checkpoint = 0
  /\ invocation = NoInvocation
  /\ applied = [i \in StreamItems |-> 0]
  /\ raises = 0

WriteItem(i, name) ==
  /\ Len(shard) < MaxRecords
  /\ shard' = Append(shard, [item |-> i, name |-> name, sequence |-> FirstSequence + Len(shard)])
  /\ UNCHANGED <<checkpoint, invocation, applied, raises>>

\* The mapping posts the records behind its checkpoint, up to position n.
Invoke(n, header) ==
  /\ ~invocation.on
  /\ n \in (checkpoint + 1)..Len(shard)
  /\ ~ArrivedThroughApiGateway(header)
  /\ invocation' = [on |-> TRUE, next |-> checkpoint + 1, last |-> n, failures |-> {}]
  /\ UNCHANGED <<shard, checkpoint, applied, raises>>

\* The next record of the batch, which nothing has stopped yet.
Handling == invocation.on /\ invocation.next <= invocation.last
Current == shard[invocation.next]

SkipRecord ==
  /\ Handling
  /\ Current.name \notin WantedNames
  /\ invocation' = [invocation EXCEPT !.next = @ + 1]
  /\ UNCHANGED <<shard, checkpoint, applied, raises>>

HandleRecord ==
  /\ Handling
  /\ Current.name \in WantedNames
  /\ applied' = [applied EXCEPT ![Current.item] =
                   IF RecordSequence(Current) > @ THEN RecordSequence(Current) ELSE @]
  /\ invocation' = [invocation EXCEPT !.next = @ + 1]
  /\ UNCHANGED <<shard, checkpoint, raises>>

\* A handler that raises is reported and the loop goes on with the next record.
RecordRaises ==
  /\ Handling
  /\ Current.name \in WantedNames
  /\ raises < MaxRaises
  /\ invocation' = [invocation EXCEPT !.next = @ + 1, !.failures = @ \cup {invocation.next}]
  /\ raises' = raises + 1
  /\ UNCHANGED <<shard, checkpoint, applied>>

\* The mapping moves past everything before the earliest reported record and
\* delivers the rest of the batch again, handled or not.
Respond ==
  LET failed == BatchItemFailures(invocation.failures)
  IN /\ invocation.on
     /\ invocation.next > invocation.last
     /\ checkpoint' = IF failed = {} THEN invocation.last
                      ELSE (CHOOSE p \in failed : \A q \in failed : p <= q) - 1
     /\ invocation' = NoInvocation
     /\ UNCHANGED <<shard, applied, raises>>

\* The function times out or dies: the mapping sees no answer and retries all.
InvocationDies ==
  /\ invocation.on
  /\ raises < MaxRaises
  /\ invocation' = NoInvocation
  /\ raises' = raises + 1
  /\ UNCHANGED <<shard, checkpoint, applied>>

StreamNext ==
  \/ \E i \in StreamItems, name \in EventNames : WriteItem(i, name)
  \/ \E n \in 1..MaxRecords, header \in Headers : Invoke(n, header)
  \/ SkipRecord \/ HandleRecord \/ RecordRaises \/ Respond \/ InvocationDies

\* The mapping polls and the function runs; nothing makes an item be written.
StreamFairness ==
  /\ \A n \in 1..MaxRecords : WF_streamVars(Invoke(n, "null"))
  /\ WF_streamVars(SkipRecord \/ HandleRecord)
  /\ WF_streamVars(Respond)

StreamSpec == StreamInit /\ [][StreamNext]_streamVars /\ StreamFairness

-------------------------------------------------------------------------------
\* register_stream_consumer (events/__init__.py 423) with record_sequence
\* (262): every wanted record the mapping has left behind is in the consumer's
\* copy, itself or a later change of its item, whatever was retried, redelivered
\* or handled after a record that raised.
LeftBehindIsApplied ==
  \A p \in 1..checkpoint :
    shard[p].name \in WantedNames => applied[shard[p].item] >= shard[p].sequence

\* Batches are retried until every record of the shard is left behind.
EveryRecordIsLeftBehind ==
  \A n \in 1..MaxRecords : Len(shard) >= n ~> checkpoint >= n
===============================================================================
