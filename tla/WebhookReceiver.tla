--------------------------- MODULE WebhookReceiver ---------------------------
(***************************************************************************)
(* Payment webhooks received at least once: verify_webhook_event and       *)
(* claim_webhook_event of webbpulse.integrations.stripe over the           *)
(* IdempotencyStore of webbpulse.dynamodb.  A receiver claims the event    *)
(* before it acts, acknowledges a duplicate, and releases the claim when   *)
(* its work fails.                                                         *)
(***************************************************************************)
EXTENDS Naturals, FiniteSets

CONSTANTS Receivers,     \* concurrent invocations of the receiver
          WebhookEvents, \* events the sender delivers
          ClaimTtl,      \* ttl_seconds of a claim
          RetryPeriod,   \* how long the sender goes on delivering an event
          Tolerance,     \* age of a signature construct_event accepts
          RunLimit,      \* how long an invocation lives
          MaxHookTime,   \* bound on the clock
          MaxHookFaults  \* bound on failed and dying receivers

VARIABLES hookNow,  \* the clock
          deliveries, \* signed deliveries on their way: [event, at]
          claims,   \* expires_at of each claimed event, 0 when there is no row
          receiver, \* what each invocation is doing: [at, event, since]
          acked,    \* the events answered with a 2xx
          acted,    \* how often the work of an event was done
          failed,   \* events whose work failed after the claim
          died,     \* events a receiver died on between its claim and its answer
          hookFaults

hookVars == <<hookNow, deliveries, claims, receiver, acked, acted, failed, died, hookFaults>>

ASSUME TimesAreNumbers == ClaimTtl \in Nat /\ RetryPeriod \in Nat /\ Tolerance \in Nat /\ RunLimit \in Nat

ClaimTtlAssumption == ClaimTtl > RetryPeriod + Tolerance + RunLimit

IdleReceiver == [at |-> "idle", event |-> "", since |-> 0]

\* construct_event: the signature verifies and is not older than the tolerance.
VerifyWebhookEvent(d) == hookNow - d.at <= Tolerance

HookInit ==
  /\ hookNow = 0
  /\ deliveries = {}
  /\ claims = [e \in WebhookEvents |-> 0]
  /\ receiver = [r \in Receivers |-> IdleReceiver]
  /\ acked = {}
  /\ acted = [e \in WebhookEvents |-> 0]
  /\ failed = {}
  /\ died = {}
  /\ hookFaults = 0

\* The sender signs each delivery anew and retries until it sees a 2xx.
Deliver(e) ==
  /\ e \notin acked
  /\ hookNow <= RetryPeriod
  /\ deliveries' = deliveries \cup {[event |-> e, at |-> hookNow]}
  /\ UNCHANGED <<hookNow, claims, receiver, acked, acted, failed, died, hookFaults>>

Receive(r, d) ==
  /\ receiver[r].at = "idle"
  /\ deliveries' = deliveries \ {d}
  /\ receiver' = IF VerifyWebhookEvent(d)
                 THEN [receiver EXCEPT ![r] = [at |-> "claim", event |-> d.event, since |-> hookNow]]
                 ELSE receiver
  /\ UNCHANGED <<hookNow, claims, acked, acted, failed, died, hookFaults>>

\* Variant: a put without the condition.
UnclaimedAlways(e) == claims[e] \in Nat

\* The conditional put: the row must be absent, and a row past its TTL that
\* the table has not deleted yet still holds the key.
Unclaimed(e) == claims[e] = 0

ClaimWebhookEvent(r) ==
  LET e == receiver[r].event
  IN /\ receiver[r].at = "claim"
     /\ \/ /\ Unclaimed(e)
           /\ claims' = [claims EXCEPT ![e] = hookNow + ClaimTtl]
           /\ receiver' = [receiver EXCEPT ![r].at = "act"]
           /\ acked' = acked
        \/ /\ ~Unclaimed(e)
           /\ receiver' = [receiver EXCEPT ![r] = IdleReceiver]
           /\ acked' = acked \cup {e}
           /\ claims' = claims
     /\ UNCHANGED <<hookNow, deliveries, acted, failed, died, hookFaults>>

\* The work of an event is one write of the product's.
Act(r) ==
  /\ receiver[r].at = "act"
  /\ acted' = [acted EXCEPT ![receiver[r].event] = @ + 1]
  /\ receiver' = [receiver EXCEPT ![r].at = "answer"]
  /\ UNCHANGED <<hookNow, deliveries, claims, acked, failed, died, hookFaults>>

Acknowledge(r) ==
  /\ receiver[r].at = "answer"
  /\ acked' = acked \cup {receiver[r].event}
  /\ receiver' = [receiver EXCEPT ![r] = IdleReceiver]
  /\ UNCHANGED <<hookNow, deliveries, claims, acted, failed, died, hookFaults>>

WorkFails(r) ==
  /\ receiver[r].at = "act"
  /\ hookFaults < MaxHookFaults
  /\ receiver' = [receiver EXCEPT ![r].at = "release"]
  /\ failed' = failed \cup {receiver[r].event}
  /\ hookFaults' = hookFaults + 1
  /\ UNCHANGED <<hookNow, deliveries, claims, acked, acted, died>>

\* release deletes the row whoever claimed it; the delivery is answered 5xx.
ReleaseClaim(r) ==
  /\ receiver[r].at = "release"
  /\ claims' = [claims EXCEPT ![receiver[r].event] = 0]
  /\ receiver' = [receiver EXCEPT ![r] = IdleReceiver]
  /\ UNCHANGED <<hookNow, deliveries, acked, acted, failed, died, hookFaults>>

\* The invocation dies or times out between two of its calls.
ReceiverDies(r) ==
  /\ receiver[r].at # "idle"
  /\ hookFaults < MaxHookFaults
  /\ died' = IF receiver[r].at = "claim" THEN died ELSE died \cup {receiver[r].event}
  /\ receiver' = [receiver EXCEPT ![r] = IdleReceiver]
  /\ hookFaults' = hookFaults + 1
  /\ UNCHANGED <<hookNow, deliveries, claims, acked, acted, failed>>

\* The table deletes an expired row on its own schedule.
ExpireClaim(e) ==
  /\ claims[e] # 0
  /\ claims[e] <= hookNow
  /\ claims' = [claims EXCEPT ![e] = 0]
  /\ UNCHANGED <<hookNow, deliveries, receiver, acked, acted, failed, died, hookFaults>>

HookTick ==
  /\ hookNow < MaxHookTime
  /\ \A r \in Receivers : receiver[r].at # "idle" => hookNow < receiver[r].since + RunLimit
  /\ hookNow' = hookNow + 1
  /\ UNCHANGED <<deliveries, claims, receiver, acked, acted, failed, died, hookFaults>>

HookNext ==
  \/ \E e \in WebhookEvents : Deliver(e) \/ ExpireClaim(e)
  \/ \E r \in Receivers :
       \/ \E d \in deliveries : Receive(r, d)
       \/ ClaimWebhookEvent(r) \/ Act(r) \/ Acknowledge(r)
       \/ WorkFails(r) \/ ReleaseClaim(r) \/ ReceiverDies(r)
  \/ HookTick

HookSpec == HookInit /\ [][HookNext]_hookVars

-------------------------------------------------------------------------------
Holders(e) == {r \in Receivers : receiver[r].event = e /\ receiver[r].at \in {"act", "answer", "release"}}

\* IdempotencyStore (dynamodb.py 1248): however often an event is delivered, by
\* however many receivers at once, its work is done at most once and by one
\* receiver at a time, as long as a claim outlives the sender's retries.
ActedOnce == \A e \in WebhookEvents : acted[e] + Cardinality({r \in Holders(e) : receiver[r].at = "act"}) <= 1

\* claim_webhook_event (stripe.py 300): an event acknowledged without its work
\* being done is one a receiver still holds, or failed or died on after claiming
\* it.  (A duplicate acknowledged while the holder is still at work is not
\* delivered again when the holder then fails: the claim's stated limit.)
UndoneHadAFault ==
  \A e \in acked : acted[e] = 0 => Holders(e) # {} \/ e \in failed \cup died

\* A claim no receiver stands behind is one whose work is done, or whose holder
\* died: a failed delivery leaves the key free for the sender's retry.
ClaimsAreStoodBehind ==
  \A e \in WebhookEvents :
    claims[e] # 0 /\ acted[e] = 0 /\ Holders(e) = {} => e \in died

\* At-least-once delivery becomes work done once, or a fault that explains why not.
ClaimedWorkIsDoneOnce == ActedOnce /\ UndoneHadAFault /\ ClaimsAreStoodBehind
===============================================================================
