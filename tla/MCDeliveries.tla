----------------------------- MODULE MCDeliveries ----------------------------
(***************************************************************************)
(* The components that answer, deliver, read and report, on small          *)
(* instances: tables and the audit log, the stream consumer, webhooks in   *)
(* and out, the owner's Stripe customer, the middleware stack and what its *)
(* clients hold, the signing keys through a rotation, and the end-to-end   *)
(* suite with the session it runs under.  They share no state, so a        *)
(* behaviour follows one of them, chosen in the initial state, and the     *)
(* others stay where they start.                                           *)
(***************************************************************************)
EXTENDS TableReads, AuditTrail, StreamConsumer, WebhookReceiver, BillingCustomers, WebhookDispatch,
        RequestPath, SigningKeys, SuiteRun

VARIABLE part

Skews == {-2000, 0, 2000}

\* Partition by partition.
PartitionByPartition == [r \in Row |-> (r[1] - 1) * Cardinality(Keys) + r[2]]

Trails == {<<1, 1>>, <<1, 2>>, <<1, 3>>, <<1, 4>>, <<2, 3>>}

deliveryVars == <<readVars, auditVars, streamVars, hookVars, billVars, sendVars>>
otherVars == <<httpVars, keyVars, suiteVars, sessionVars>>
vars == <<part, deliveryVars, otherVars>>

Part(name) == part = name /\ part' = name

Init ==
  /\ part \in {"reads", "audit", "stream", "receiver", "billing", "dispatch", "requests", "reading", "keys", "suite", "session"}
  /\ ReadInit /\ AuditInit /\ StreamInit /\ HookInit /\ BillInit /\ DispatchInit /\ HttpInit /\ KeysInit
  /\ SuiteInit /\ SessionInit
  /\ part # "reads" => rows = {}
  /\ trail = IF part = "audit" THEN Trails \ {<<1, 4>>} ELSE {}
  /\ part # "billing" => customers = {}
  /\ part # "dispatch" => skew = 0 /\ endpointSecret = "shared"

Next ==
  \/ Part("reads") /\ ReadNext /\ UNCHANGED <<auditVars, streamVars, hookVars, billVars, sendVars, otherVars>>
  \/ Part("audit") /\ AuditNext /\ UNCHANGED <<readVars, streamVars, hookVars, billVars, sendVars, otherVars>>
  \/ Part("stream") /\ StreamNext /\ UNCHANGED <<readVars, auditVars, hookVars, billVars, sendVars, otherVars>>
  \/ Part("receiver") /\ HookNext /\ UNCHANGED <<readVars, auditVars, streamVars, billVars, sendVars, otherVars>>
  \/ Part("billing") /\ BillNext /\ UNCHANGED <<readVars, auditVars, streamVars, hookVars, sendVars, otherVars>>
  \/ Part("dispatch") /\ DispatchNext /\ UNCHANGED <<readVars, auditVars, streamVars, hookVars, billVars, otherVars>>
  \/ Part("requests") /\ (Assembling \/ Serving) /\ UNCHANGED <<deliveryVars, keyVars, suiteVars, sessionVars>>
  \/ Part("reading") /\ ReadingAgain /\ UNCHANGED <<deliveryVars, keyVars, suiteVars, sessionVars>>
  \/ Part("keys") /\ KeysNext /\ UNCHANGED <<deliveryVars, httpVars, suiteVars, sessionVars>>
  \/ Part("suite") /\ SuiteNext /\ UNCHANGED <<deliveryVars, httpVars, keyVars, sessionVars>>
  \/ Part("session") /\ SessionNext /\ UNCHANGED <<deliveryVars, httpVars, keyVars, suiteVars>>

Spec == Init /\ [][Next]_vars

\* Records and webhooks: what is left behind was applied, and what is claimed is done once.
WorkIsDoneOnce == LeftBehindIsApplied /\ ClaimedWorkIsDoneOnce

\* The requests a worker of the suite may make.
SuiteRequests == {[route |-> "a", answer |-> "ok"], [route |-> "b", answer |-> "unavailable"], [route |-> "a", answer |-> "error"]}

\* What the dispatcher says of a delivery, and the suite of the system it ran against.
ReportsAreTrue == OutcomesAreTrue /\ SuitesAreSound

\* Paged reads and listings of the trail: what a reader is given is what was written.
ReadersSeeItAll == ReadsAreComplete /\ TheTrailHolds

ASSUME ClaimsOutliveRetries == ClaimTtlAssumption
===============================================================================
