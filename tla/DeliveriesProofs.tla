--------------------------- MODULE DeliveriesProofs ---------------------------
(***************************************************************************)
(* What is delivered at least once: proofs that claimed work is done once  *)
(* and that a stream leaves nothing behind, that tokens are trusted        *)
(* through a rotation of their keys, that the dispatcher's outcomes and    *)
(* the suite's verdicts are true, that a worker answers its requests       *)
(* whatever they raise, and that a reader of a table or of the audit log   *)
(* is given all that stayed.                                               *)
(***************************************************************************)
EXTENDS MCDeliveries, FiniteSetTheorems, SequenceTheorems, WellFoundedInduction, TLAPS

-----------------------------------------------------------------------------
(* Webhooks received.                                                      *)

ReceiverRecord == [at : {"idle", "claim", "act", "answer", "release"}, event : WebhookEvents \cup {""}, since : Nat]

HookTypeOK ==
    /\ hookNow \in Nat
    /\ deliveries \subseteq [event : WebhookEvents, at : Nat]
    /\ claims \in [WebhookEvents -> Nat]
    /\ receiver \in [Receivers -> ReceiverRecord]
    /\ acked \subseteq WebhookEvents /\ failed \subseteq WebhookEvents /\ died \subseteq WebhookEvents
    /\ acted \in [WebhookEvents -> Nat]

\* A delivery is signed while the sender retries, and a receiver lives no longer
\* than its limit after it took one up.
Timely(r) ==
    receiver[r].at # "idle" =>
        /\ receiver[r].event \in WebhookEvents
        /\ receiver[r].since <= RetryPeriod + Tolerance
        /\ hookNow <= receiver[r].since + RunLimit

Holding(r, e) == receiver[r].event = e /\ receiver[r].at \in {"act", "answer", "release"}

\* The claim of an event is its holder's until it has expired, when no receiver
\* is left to come.
ClaimSound(e) ==
    /\ claims[e] # 0 => claims[e] >= ClaimTtl
    /\ acted[e] <= 1
    /\ acted[e] = 1 => claims[e] # 0 \/ hookNow >= ClaimTtl
    /\ \A r \in Receivers : Holding(r, e) =>
         /\ claims[e] # 0
         /\ acted[e] = IF receiver[r].at = "answer" THEN 1 ELSE 0
         /\ receiver[r].at = "release" => e \in failed
         /\ \A o \in Receivers : Holding(o, e) => o = r
    /\ e \in acked /\ acted[e] = 0 => (\E r \in Receivers : Holding(r, e)) \/ e \in failed \cup died
    /\ claims[e] # 0 /\ acted[e] = 0 => (\E r \in Receivers : Holding(r, e)) \/ e \in died

HookInvariant ==
    /\ HookTypeOK
    /\ \A d \in deliveries : d.at <= RetryPeriod
    /\ \A r \in Receivers : Timely(r)
    /\ \A e \in WebhookEvents : ClaimSound(e)

-----------------------------------------------------------------------------
(* Records of a stream.                                                    *)

StreamRecord == [item : StreamItems, name : EventNames, sequence : Nat]

\* A wanted record, or a later one of its item, is in the copy.
Applied(p) == shard[p].name \in WantedNames => applied[shard[p].item] >= shard[p].sequence

\* Everything left behind is applied, and so is what a batch is past, but for
\* the records it will report.
StreamInvariant ==
    /\ shard \in Seq(StreamRecord)
    /\ checkpoint \in 0 .. Len(shard)
    /\ applied \in [StreamItems -> Nat]
    /\ \A p \in 1 .. checkpoint : Applied(p)
    /\ invocation.on \in BOOLEAN
    /\ invocation.on =>
         /\ invocation \in [on : BOOLEAN, next : Nat, last : Nat, failures : SUBSET Nat]
         /\ checkpoint < invocation.next /\ invocation.next <= invocation.last + 1 /\ invocation.last <= Len(shard)
         /\ \A p \in invocation.failures : checkpoint < p /\ p < invocation.next
         /\ \A p \in 1 .. invocation.next - 1 : p \in invocation.failures \/ Applied(p)

-----------------------------------------------------------------------------
(* Receivers.                                                              *)

\* A step of one receiver over one event.
LEMMA OneReceiver ==
    ASSUME HookInvariant, NEW r \in Receivers, NEW e \in WebhookEvents, NEW x \in ReceiverRecord,
           receiver' = [receiver EXCEPT ![r] = x], UNCHANGED hookNow, deliveries' \subseteq deliveries,
           receiver[r].at # "idle" => receiver[r].event = e,
           x.at # "idle" => x.event = e /\ x.since <= RetryPeriod + Tolerance /\ hookNow <= x.since + RunLimit,
           claims' \in [WebhookEvents -> Nat], acted' \in [WebhookEvents -> Nat],
           acked' \subseteq WebhookEvents, failed' \subseteq WebhookEvents, died' \subseteq WebhookEvents,
           \A o \in WebhookEvents \ {e} :
             /\ claims'[o] = claims[o] /\ acted'[o] = acted[o]
             /\ o \in acked' => o \in acked
             /\ (o \in failed => o \in failed') /\ (o \in died => o \in died'),
           ClaimSound(e)'
    PROVE  HookInvariant'
<1>1. HookTypeOK' BY DEF HookInvariant, HookTypeOK
<1>2. /\ receiver' \in [Receivers -> ReceiverRecord] /\ receiver'[r] = x
      /\ \A o \in Receivers \ {r} : receiver'[o] = receiver[o]
  BY DEF HookInvariant, HookTypeOK
<1>3. \A o \in Receivers : Timely(o)' BY <1>2 DEF HookInvariant, Timely
<1>4. ASSUME NEW o \in WebhookEvents, o # e PROVE ClaimSound(o)'
  <2>1. \A q \in Receivers : Holding(q, o)' <=> Holding(q, o) BY <1>2, <1>4 DEF Holding
  <2>2. \A q \in Receivers : Holding(q, o) => receiver'[q] = receiver[q] BY <1>2, <1>4 DEF Holding
  <2>3. ClaimSound(o) BY <1>4 DEF HookInvariant
  <2> QED BY <1>4, <2>1, <2>2, <2>3 DEF ClaimSound
<1> QED BY <1>1, <1>3, <1>4 DEF HookInvariant

LEMMA IdleReceiverTyped == IdleReceiver \in ReceiverRecord /\ IdleReceiver.at = "idle"
BY DEF IdleReceiver, ReceiverRecord

\* What is known of a receiver at work, with a name for its record.
LEMMA ReceiverAtWork ==
    ASSUME HookInvariant, NEW r \in Receivers, receiver[r].at # "idle"
    PROVE  /\ receiver[r] \in ReceiverRecord /\ receiver[r].event \in WebhookEvents
           /\ receiver[r].since <= RetryPeriod + Tolerance /\ hookNow <= receiver[r].since + RunLimit
           /\ \A at \in {"claim", "act", "answer", "release"} :
                /\ [receiver[r] EXCEPT !.at = at] \in ReceiverRecord
                /\ [receiver[r] EXCEPT !.at = at].at = at
                /\ [receiver[r] EXCEPT !.at = at].event = receiver[r].event
                /\ [receiver[r] EXCEPT !.at = at].since = receiver[r].since
BY DEF HookInvariant, HookTypeOK, Timely, ReceiverRecord

\* While a receiver is at work, no claim is old enough to have expired.
LEMMA WorkIsEarly ==
    ASSUME HookInvariant, NEW r \in Receivers, receiver[r].at # "idle"
    PROVE  hookNow < ClaimTtl
<1>1. PICK since \in Nat : since <= RetryPeriod + Tolerance /\ hookNow <= since + RunLimit
  BY ReceiverAtWork DEF ReceiverRecord
<1>2. hookNow \in Nat BY DEF HookInvariant, HookTypeOK
<1>3. ClaimTtl > RetryPeriod + Tolerance + RunLimit BY ClaimsOutliveRetries DEF ClaimTtlAssumption
<1> QED BY <1>1, <1>2, <1>3, TimesAreNumbers

LEMMA ReceiveKeeps ==
    ASSUME HookInvariant, NEW r \in Receivers, NEW d \in deliveries, Receive(r, d)
    PROVE  HookInvariant'
<1>1. /\ d \in [event : WebhookEvents, at : Nat] /\ d.at <= RetryPeriod /\ hookNow \in Nat
      /\ receiver[r].at = "idle" /\ deliveries' \subseteq deliveries
      /\ UNCHANGED <<hookNow, claims, acked, acted, failed, died>>
  BY DEF HookInvariant, HookTypeOK, Receive
<1>2. CASE VerifyWebhookEvent(d)
  <2>1. PICK x : x = [at |-> "claim", event |-> d.event, since |-> hookNow] OBVIOUS
  <2>2. receiver' = [receiver EXCEPT ![r] = x] BY <1>2, <2>1 DEF Receive
  <2>3. x \in ReceiverRecord /\ x.at = "claim" /\ x.event = d.event /\ x.since = hookNow
    BY <1>1, <2>1 DEF ReceiverRecord
  <2>4. hookNow <= RetryPeriod + Tolerance /\ hookNow <= hookNow + RunLimit
    <3>1. d.at \in Nat /\ hookNow - d.at <= Tolerance BY <1>1, <1>2 DEF VerifyWebhookEvent
    <3> QED BY <1>1, <3>1, TimesAreNumbers
  <2>5. ClaimSound(d.event)'
    <3>1. /\ receiver'[r] = x /\ \A o \in Receivers \ {r} : receiver'[o] = receiver[o]
      BY <2>2 DEF HookInvariant, HookTypeOK
    <3>2. \A q \in Receivers : Holding(q, d.event)' <=> Holding(q, d.event) BY <1>1, <2>3, <3>1 DEF Holding
    <3>3. \A q \in Receivers : Holding(q, d.event) => receiver'[q] = receiver[q] BY <1>1, <3>1 DEF Holding
    <3>4. ClaimSound(d.event) BY <1>1 DEF HookInvariant
    <3> QED BY <1>1, <3>2, <3>3, <3>4 DEF ClaimSound
  <2>6. /\ claims' \in [WebhookEvents -> Nat] /\ acted' \in [WebhookEvents -> Nat]
        /\ acked' \subseteq WebhookEvents /\ failed' \subseteq WebhookEvents /\ died' \subseteq WebhookEvents
    BY <1>1 DEF HookInvariant, HookTypeOK
  <2> QED BY <1>1, <2>2, <2>3, <2>4, <2>5, <2>6, OneReceiver
<1>3. CASE ~VerifyWebhookEvent(d)
  <2>1. UNCHANGED receiver BY <1>3 DEF Receive
  <2>2. HookTypeOK' /\ \A q \in deliveries' : q.at <= RetryPeriod
    BY <1>1, <2>1 DEF HookInvariant, HookTypeOK
  <2>3. (\A q \in Receivers : Timely(q)') /\ \A e \in WebhookEvents : ClaimSound(e)'
    BY <1>1, <2>1 DEF HookInvariant, Timely, ClaimSound, Holding
  <2> QED BY <2>2, <2>3 DEF HookInvariant
<1> QED BY <1>2, <1>3

LEMMA ClaimWebhookEventKeeps ==
    ASSUME HookInvariant, NEW r \in Receivers, ClaimWebhookEvent(r)
    PROVE  HookInvariant'
<1>1. PICK e \in WebhookEvents : e = receiver[r].event BY ReceiverAtWork DEF ClaimWebhookEvent
<1>2. /\ receiver[r].at = "claim" /\ UNCHANGED <<hookNow, deliveries, acted, failed, died>> BY DEF ClaimWebhookEvent
<1>3. /\ claims \in [WebhookEvents -> Nat] /\ acted \in [WebhookEvents -> Nat] /\ hookNow \in Nat
      /\ acked \subseteq WebhookEvents /\ failed \subseteq WebhookEvents /\ died \subseteq WebhookEvents
      /\ receiver \in [Receivers -> ReceiverRecord] /\ ClaimSound(e)
  BY DEF HookInvariant, HookTypeOK
<1>4. hookNow < ClaimTtl BY <1>2, WorkIsEarly
<1>5. CASE claims[e] = 0
  <2>1. PICK x : x = [receiver[r] EXCEPT !.at = "act"] OBVIOUS
  <2>2. /\ x \in ReceiverRecord /\ x.at = "act" /\ x.event = e
        /\ x.since <= RetryPeriod + Tolerance /\ hookNow <= x.since + RunLimit
    BY <1>1, <1>2, <2>1, ReceiverAtWork
  <2>3. receiver' = [receiver EXCEPT ![r] = x] /\ claims' = [claims EXCEPT ![e] = hookNow + ClaimTtl] /\ acked' = acked
    BY <1>1, <1>5, <2>1 DEF ClaimWebhookEvent, Unclaimed
  <2>4. /\ claims' \in [WebhookEvents -> Nat] /\ claims'[e] = hookNow + ClaimTtl
        /\ \A o \in WebhookEvents \ {e} : claims'[o] = claims[o]
    BY <1>3, <2>3, TimesAreNumbers
  <2>5. ClaimSound(e)'
    <3>1. /\ receiver'[r] = x /\ \A o \in Receivers \ {r} : receiver'[o] = receiver[o] BY <1>3, <2>3
    <3>2. \A q \in Receivers : ~Holding(q, e) BY <1>3, <1>5 DEF ClaimSound
    <3>3. \A q \in Receivers : Holding(q, e)' <=> q = r BY <2>2, <3>1, <3>2 DEF Holding
    <3>4. acted[e] = 0 BY <1>3, <1>4, <1>5, TimesAreNumbers DEF ClaimSound
    <3>5. claims'[e] # 0 /\ claims'[e] >= ClaimTtl BY <1>3, <1>4, <2>4, TimesAreNumbers
    <3> QED BY <1>2, <2>2, <3>1, <3>3, <3>4, <3>5 DEF ClaimSound
  <2> QED BY <1>1, <1>2, <1>3, <2>2, <2>3, <2>4, <2>5, OneReceiver
<1>6. CASE claims[e] # 0
  <2>1. receiver' = [receiver EXCEPT ![r] = IdleReceiver] /\ acked' = acked \cup {e} /\ claims' = claims
    BY <1>1, <1>6 DEF ClaimWebhookEvent, Unclaimed
  <2>2. ClaimSound(e)'
    <3>1. /\ receiver'[r] = IdleReceiver /\ \A o \in Receivers \ {r} : receiver'[o] = receiver[o] BY <1>3, <2>1
    <3>2. \A q \in Receivers : Holding(q, e)' <=> Holding(q, e) BY <1>2, <3>1, IdleReceiverTyped DEF Holding
    <3>3. \A q \in Receivers : Holding(q, e) => receiver'[q] = receiver[q] BY <1>2, <3>1 DEF Holding
    <3> QED BY <1>2, <1>3, <1>6, <2>1, <3>2, <3>3 DEF ClaimSound
  <2>3. acked' \subseteq WebhookEvents /\ \A o \in WebhookEvents \ {e} : o \in acked' => o \in acked BY <1>3, <2>1
  <2> QED BY <1>1, <1>2, <1>3, <2>1, <2>2, <2>3, IdleReceiverTyped, OneReceiver
<1> QED BY <1>5, <1>6

\* The work of an event: only its holder does it, and only once.
LEMMA ActKeeps ==
    ASSUME HookInvariant, NEW r \in Receivers, Act(r)
    PROVE  HookInvariant'
<1>1. PICK e \in WebhookEvents : e = receiver[r].event BY ReceiverAtWork DEF Act
<1>2. /\ receiver[r].at = "act" /\ UNCHANGED <<hookNow, deliveries, claims, acked, failed, died>>
      /\ acted' = [acted EXCEPT ![e] = @ + 1]
  BY <1>1 DEF Act
<1>3. /\ claims \in [WebhookEvents -> Nat] /\ acted \in [WebhookEvents -> Nat]
      /\ acked \subseteq WebhookEvents /\ failed \subseteq WebhookEvents /\ died \subseteq WebhookEvents
      /\ receiver \in [Receivers -> ReceiverRecord] /\ ClaimSound(e)
  BY DEF HookInvariant, HookTypeOK
<1>4. PICK x : x = [receiver[r] EXCEPT !.at = "answer"] OBVIOUS
<1>5. /\ x \in ReceiverRecord /\ x.at = "answer" /\ x.event = e
      /\ x.since <= RetryPeriod + Tolerance /\ hookNow <= x.since + RunLimit
  BY <1>1, <1>2, <1>4, ReceiverAtWork
<1>6. receiver' = [receiver EXCEPT ![r] = x] BY <1>4 DEF Act
<1>7. /\ Holding(r, e) /\ claims[e] # 0 /\ acted[e] = 0 /\ \A o \in Receivers : Holding(o, e) => o = r
  BY <1>1, <1>2, <1>3 DEF ClaimSound, Holding
<1>8. /\ acted' \in [WebhookEvents -> Nat] /\ acted'[e] = 1 /\ \A o \in WebhookEvents \ {e} : acted'[o] = acted[o]
  BY <1>2, <1>3, <1>7
<1>9. ClaimSound(e)'
  <2>1. /\ receiver'[r] = x /\ \A o \in Receivers \ {r} : receiver'[o] = receiver[o] BY <1>3, <1>6
  <2>2. \A q \in Receivers : Holding(q, e)' <=> q = r BY <1>5, <1>7, <2>1 DEF Holding
  <2> QED BY <1>2, <1>3, <1>5, <1>7, <1>8, <2>1, <2>2 DEF ClaimSound
<1> QED BY <1>1, <1>2, <1>3, <1>5, <1>6, <1>8, <1>9, OneReceiver

LEMMA AcknowledgeKeeps ==
    ASSUME HookInvariant, NEW r \in Receivers, Acknowledge(r)
    PROVE  HookInvariant'
<1>1. PICK e \in WebhookEvents : e = receiver[r].event BY ReceiverAtWork DEF Acknowledge
<1>2. /\ receiver[r].at = "answer" /\ UNCHANGED <<hookNow, deliveries, claims, acted, failed, died>>
      /\ acked' = acked \cup {e} /\ receiver' = [receiver EXCEPT ![r] = IdleReceiver]
  BY <1>1 DEF Acknowledge
<1>3. /\ claims \in [WebhookEvents -> Nat] /\ acted \in [WebhookEvents -> Nat]
      /\ acked \subseteq WebhookEvents /\ failed \subseteq WebhookEvents /\ died \subseteq WebhookEvents
      /\ receiver \in [Receivers -> ReceiverRecord] /\ ClaimSound(e)
  BY DEF HookInvariant, HookTypeOK
<1>4. /\ Holding(r, e) /\ claims[e] # 0 /\ acted[e] = 1 /\ \A o \in Receivers : Holding(o, e) => o = r
  BY <1>1, <1>2, <1>3 DEF ClaimSound, Holding
<1>5. ClaimSound(e)'
  <2>1. /\ receiver'[r] = IdleReceiver /\ \A o \in Receivers \ {r} : receiver'[o] = receiver[o] BY <1>2, <1>3
  <2>2. \A q \in Receivers : ~Holding(q, e)' BY <1>4, <2>1, IdleReceiverTyped DEF Holding
  <2> QED BY <1>2, <1>3, <1>4, <2>2 DEF ClaimSound
<1>6. acked' \subseteq WebhookEvents /\ \A o \in WebhookEvents \ {e} : o \in acked' => o \in acked BY <1>2, <1>3
<1> QED BY <1>1, <1>2, <1>3, <1>5, <1>6, IdleReceiverTyped, OneReceiver

LEMMA WorkFailsKeeps ==
    ASSUME HookInvariant, NEW r \in Receivers, WorkFails(r)
    PROVE  HookInvariant'
<1>1. PICK e \in WebhookEvents : e = receiver[r].event BY ReceiverAtWork DEF WorkFails
<1>2. /\ receiver[r].at = "act" /\ UNCHANGED <<hookNow, deliveries, claims, acked, acted, died>>
      /\ failed' = failed \cup {e}
  BY <1>1 DEF WorkFails
<1>3. /\ claims \in [WebhookEvents -> Nat] /\ acted \in [WebhookEvents -> Nat]
      /\ acked \subseteq WebhookEvents /\ failed \subseteq WebhookEvents /\ died \subseteq WebhookEvents
      /\ receiver \in [Receivers -> ReceiverRecord] /\ ClaimSound(e)
  BY DEF HookInvariant, HookTypeOK
<1>4. PICK x : x = [receiver[r] EXCEPT !.at = "release"] OBVIOUS
<1>5. /\ x \in ReceiverRecord /\ x.at = "release" /\ x.event = e
      /\ x.since <= RetryPeriod + Tolerance /\ hookNow <= x.since + RunLimit
  BY <1>1, <1>2, <1>4, ReceiverAtWork
<1>6. receiver' = [receiver EXCEPT ![r] = x] BY <1>4 DEF WorkFails
<1>7. /\ Holding(r, e) /\ claims[e] # 0 /\ acted[e] = 0 /\ \A o \in Receivers : Holding(o, e) => o = r
  BY <1>1, <1>2, <1>3 DEF ClaimSound, Holding
<1>8. ClaimSound(e)'
  <2>1. /\ receiver'[r] = x /\ \A o \in Receivers \ {r} : receiver'[o] = receiver[o] BY <1>3, <1>6
  <2>2. \A q \in Receivers : Holding(q, e)' <=> q = r BY <1>5, <1>7, <2>1 DEF Holding
  <2> QED BY <1>2, <1>3, <1>5, <1>7, <2>1, <2>2 DEF ClaimSound
<1>9. failed' \subseteq WebhookEvents /\ \A o \in WebhookEvents : o \in failed => o \in failed' BY <1>2, <1>3
<1> QED BY <1>1, <1>2, <1>3, <1>5, <1>6, <1>8, <1>9, OneReceiver

\* The row released is the releaser's own: it cannot have expired under it.
LEMMA ReleaseClaimKeeps ==
    ASSUME HookInvariant, NEW r \in Receivers, ReleaseClaim(r)
    PROVE  HookInvariant'
<1>1. PICK e \in WebhookEvents : e = receiver[r].event BY ReceiverAtWork DEF ReleaseClaim
<1>2. /\ receiver[r].at = "release" /\ UNCHANGED <<hookNow, deliveries, acked, acted, failed, died>>
      /\ claims' = [claims EXCEPT ![e] = 0] /\ receiver' = [receiver EXCEPT ![r] = IdleReceiver]
  BY <1>1 DEF ReleaseClaim
<1>3. /\ claims \in [WebhookEvents -> Nat] /\ acted \in [WebhookEvents -> Nat]
      /\ acked \subseteq WebhookEvents /\ failed \subseteq WebhookEvents /\ died \subseteq WebhookEvents
      /\ receiver \in [Receivers -> ReceiverRecord] /\ ClaimSound(e)
  BY DEF HookInvariant, HookTypeOK
<1>4. /\ Holding(r, e) /\ acted[e] = 0 /\ \A o \in Receivers : Holding(o, e) => o = r
  BY <1>1, <1>2, <1>3 DEF ClaimSound, Holding
<1>5. /\ claims' \in [WebhookEvents -> Nat] /\ claims'[e] = 0 /\ \A o \in WebhookEvents \ {e} : claims'[o] = claims[o]
  BY <1>2, <1>3
<1>6. ClaimSound(e)'
  <2>1. /\ receiver'[r] = IdleReceiver /\ \A o \in Receivers \ {r} : receiver'[o] = receiver[o] BY <1>2, <1>3
  <2>2. \A q \in Receivers : ~Holding(q, e)' BY <1>4, <2>1, IdleReceiverTyped DEF Holding
  <2>3. e \in failed BY <1>2, <1>3, <1>4 DEF ClaimSound
  <2> QED BY <1>2, <1>4, <1>5, <2>2, <2>3 DEF ClaimSound
<1> QED BY <1>1, <1>2, <1>3, <1>5, <1>6, IdleReceiverTyped, OneReceiver

LEMMA ReceiverDiesKeeps ==
    ASSUME HookInvariant, NEW r \in Receivers, ReceiverDies(r)
    PROVE  HookInvariant'
<1>1. PICK e \in WebhookEvents : e = receiver[r].event BY ReceiverAtWork DEF ReceiverDies
<1>2. /\ receiver[r].at # "idle" /\ UNCHANGED <<hookNow, deliveries, claims, acked, acted, failed>>
      /\ died' = (IF receiver[r].at = "claim" THEN died ELSE died \cup {e})
      /\ receiver' = [receiver EXCEPT ![r] = IdleReceiver]
  BY <1>1 DEF ReceiverDies
<1>3. /\ claims \in [WebhookEvents -> Nat] /\ acted \in [WebhookEvents -> Nat]
      /\ acked \subseteq WebhookEvents /\ failed \subseteq WebhookEvents /\ died \subseteq WebhookEvents
      /\ receiver \in [Receivers -> ReceiverRecord] /\ ClaimSound(e)
  BY DEF HookInvariant, HookTypeOK
<1>4. /\ receiver'[r] = IdleReceiver /\ \A o \in Receivers \ {r} : receiver'[o] = receiver[o] BY <1>2, <1>3
<1>5. ClaimSound(e)'
  <2>1. \A q \in Receivers : Holding(q, e)' => Holding(q, e) /\ receiver'[q] = receiver[q]
    BY <1>4, IdleReceiverTyped DEF Holding
  <2>2. CASE receiver[r].at = "claim"
    <3>1. \A q \in Receivers : Holding(q, e)' <=> Holding(q, e) BY <1>4, <2>2, IdleReceiverTyped DEF Holding
    <3> QED BY <1>2, <1>3, <2>1, <2>2, <3>1 DEF ClaimSound
  <2>3. CASE receiver[r].at # "claim"
    <3>1. e \in died' BY <1>2, <2>3
    <3> QED BY <1>2, <1>3, <2>1, <3>1 DEF ClaimSound
  <2> QED BY <2>2, <2>3
<1>6. died' \subseteq WebhookEvents /\ \A o \in WebhookEvents : o \in died => o \in died' BY <1>2, <1>3
<1> QED BY <1>1, <1>2, <1>3, <1>5, <1>6, IdleReceiverTyped, OneReceiver

\* A claim expires when every receiver that could hold it is long over.
LEMMA ExpireClaimKeeps ==
    ASSUME HookInvariant, NEW e \in WebhookEvents, ExpireClaim(e)
    PROVE  HookInvariant'
<1>1. /\ claims \in [WebhookEvents -> Nat] /\ acted \in [WebhookEvents -> Nat] /\ hookNow \in Nat
      /\ \A o \in WebhookEvents : ClaimSound(o)
  BY DEF HookInvariant, HookTypeOK
<1>2. /\ claims[e] # 0 /\ claims[e] <= hookNow /\ claims' = [claims EXCEPT ![e] = 0]
      /\ UNCHANGED <<hookNow, deliveries, receiver, acked, acted, failed, died>>
  BY DEF ExpireClaim
<1>3. /\ claims' \in [WebhookEvents -> Nat] /\ claims'[e] = 0 /\ \A o \in WebhookEvents \ {e} : claims'[o] = claims[o]
  BY <1>1, <1>2
<1>4. hookNow >= ClaimTtl BY <1>1, <1>2, TimesAreNumbers DEF ClaimSound
<1>5. \A r \in Receivers : receiver[r].at = "idle"
  <2>1. ASSUME NEW r \in Receivers, receiver[r].at # "idle" PROVE FALSE
    <3>1. hookNow < ClaimTtl BY <2>1, WorkIsEarly
    <3> QED BY <1>1, <1>4, <3>1, TimesAreNumbers
  <2> QED BY <2>1
<1>6. \A r \in Receivers, o \in WebhookEvents : ~Holding(r, o) /\ ~Holding(r, o)' BY <1>2, <1>5 DEF Holding
<1>7. ASSUME NEW o \in WebhookEvents PROVE ClaimSound(o)'
  <2>1. CASE o = e BY <1>1, <1>2, <1>3, <1>4, <1>6, <2>1 DEF ClaimSound
  <2>2. CASE o # e BY <1>1, <1>2, <1>3, <1>6, <2>2 DEF ClaimSound
  <2> QED BY <2>1, <2>2
<1>8. HookTypeOK' /\ (\A d \in deliveries' : d.at <= RetryPeriod) /\ \A r \in Receivers : Timely(r)'
  BY <1>2, <1>3 DEF HookInvariant, HookTypeOK, Timely
<1> QED BY <1>7, <1>8 DEF HookInvariant

LEMMA SenderAndClockKeep ==
    ASSUME HookInvariant, (\E e \in WebhookEvents : Deliver(e)) \/ HookTick \/ UNCHANGED hookVars
    PROVE  HookInvariant'
<1>1. /\ UNCHANGED <<claims, receiver, acked, acted, failed, died>> BY DEF Deliver, HookTick, hookVars
<1>2. /\ hookNow \in Nat /\ hookNow' \in Nat /\ hookNow <= hookNow'
      /\ \A r \in Receivers : receiver[r].at # "idle" => hookNow' = hookNow \/ hookNow < receiver[r].since + RunLimit
      /\ hookNow' \in {hookNow, hookNow + 1}
  BY DEF HookInvariant, HookTypeOK, Deliver, HookTick, hookVars
<1>3. ASSUME NEW r \in Receivers PROVE Timely(r)'
  <2>1. CASE receiver[r].at = "idle" BY <1>1, <2>1 DEF Timely
  <2>2. CASE receiver[r].at # "idle"
    <3>1. PICK since \in Nat : since = receiver[r].since BY <2>2, ReceiverAtWork DEF ReceiverRecord
    <3>2. hookNow <= since + RunLimit /\ (hookNow' = hookNow \/ hookNow < since + RunLimit)
      BY <1>2, <2>2, <3>1, ReceiverAtWork
    <3>3. hookNow' <= since + RunLimit BY <1>2, <3>2, TimesAreNumbers
    <3> QED BY <1>1, <2>2, <3>1, <3>3, ReceiverAtWork DEF Timely
  <2> QED BY <2>1, <2>2
<1>4. ASSUME NEW e \in WebhookEvents PROVE ClaimSound(e)'
  <2>1. hookNow >= ClaimTtl => hookNow' >= ClaimTtl BY <1>2, TimesAreNumbers
  <2>2. ClaimSound(e) BY DEF HookInvariant
  <2> QED BY <1>1, <2>1, <2>2 DEF ClaimSound, Holding
<1>5. /\ deliveries' \subseteq [event : WebhookEvents, at : Nat]
      /\ \A d \in deliveries' : d.at <= RetryPeriod
  <2>1. ASSUME NEW e \in WebhookEvents, Deliver(e) PROVE deliveries' \subseteq [event : WebhookEvents, at : Nat] /\ \A d \in deliveries' : d.at <= RetryPeriod
    <3>1. deliveries' = deliveries \cup {[event |-> e, at |-> hookNow]} /\ hookNow <= RetryPeriod BY <2>1 DEF Deliver
    <3> QED BY <1>2, <3>1 DEF HookInvariant, HookTypeOK
  <2>2. CASE UNCHANGED deliveries BY <2>2 DEF HookInvariant, HookTypeOK
  <2> QED BY <2>1, <2>2 DEF HookTick, hookVars
<1>6. HookTypeOK' BY <1>1, <1>2, <1>5 DEF HookInvariant, HookTypeOK
<1> QED BY <1>3, <1>4, <1>5, <1>6 DEF HookInvariant

LEMMA HooksStart == HookInit => HookInvariant
<1> SUFFICES ASSUME HookInit PROVE HookInvariant OBVIOUS
<1>1. HookTypeOK BY IdleReceiverTyped DEF HookInit, HookTypeOK
<1>2. \A r \in Receivers : receiver[r].at = "idle" BY IdleReceiverTyped DEF HookInit
<1>3. \A e \in WebhookEvents : claims[e] = 0 /\ acted[e] = 0 /\ e \notin acked BY DEF HookInit
<1> QED BY <1>1, <1>2, <1>3 DEF HookInvariant, HookInit, Timely, ClaimSound, Holding

LEMMA HooksKeep == HookInvariant /\ [HookNext]_hookVars => HookInvariant'
<1> SUFFICES ASSUME HookInvariant, [HookNext]_hookVars PROVE HookInvariant' OBVIOUS
<1>1. ASSUME NEW e \in WebhookEvents, Deliver(e) \/ ExpireClaim(e) PROVE HookInvariant'
  BY <1>1, SenderAndClockKeep, ExpireClaimKeeps
<1>2. CASE HookTick \/ UNCHANGED hookVars BY <1>2, SenderAndClockKeep
<1>3. ASSUME NEW r \in Receivers, (\E d \in deliveries : Receive(r, d)) \/ ClaimWebhookEvent(r) \/ Act(r) PROVE HookInvariant'
  BY <1>3, ReceiveKeeps, ClaimWebhookEventKeeps, ActKeeps
<1>4. ASSUME NEW r \in Receivers, Acknowledge(r) \/ WorkFails(r) \/ ReleaseClaim(r) \/ ReceiverDies(r) PROVE HookInvariant'
  BY <1>4, AcknowledgeKeeps, WorkFailsKeeps, ReleaseClaimKeeps, ReceiverDiesKeeps
<1> QED BY <1>1, <1>2, <1>3, <1>4, Zenon DEF HookNext

LEMMA SoundClaimsWorkOnce == HookInvariant => ClaimedWorkIsDoneOnce
<1> SUFFICES ASSUME HookInvariant PROVE ClaimedWorkIsDoneOnce OBVIOUS
<1>1. \A e \in WebhookEvents : ClaimSound(e) /\ acted[e] \in Nat BY DEF HookInvariant, HookTypeOK
<1>2. \A e \in WebhookEvents, r \in Receivers : r \in Holders(e) <=> Holding(r, e) BY DEF Holders, Holding
<1>3. ASSUME NEW e \in WebhookEvents
      PROVE  acted[e] + Cardinality({r \in Holders(e) : receiver[r].at = "act"}) <= 1
  <2> DEFINE acting == {r \in Holders(e) : receiver[r].at = "act"}
  <2>1. CASE acting = {} BY <1>1, <2>1, FS_EmptySet DEF ClaimSound
  <2>2. CASE acting # {}
    <3>1. PICK r \in Receivers : r \in acting BY <2>2 DEF Holders
    <3>2. acting = {r}
      <4>1. \A o \in acting : o = r BY <1>1, <1>2, <3>1 DEF Holders, ClaimSound
      <4> QED BY <3>1, <4>1
    <3>3. acted[e] = 0 BY <1>1, <1>2, <3>1 DEF ClaimSound
    <3>4. Cardinality(acting) = 1 BY <3>2, FS_Singleton
    <3> QED BY <3>3, <3>4
  <2> QED BY <2>1, <2>2
<1>4. ActedOnce BY <1>3 DEF ActedOnce
<1>5. UndoneHadAFault /\ ClaimsAreStoodBehind
  BY <1>1, <1>2 DEF UndoneHadAFault, ClaimsAreStoodBehind, ClaimSound, HookInvariant, HookTypeOK
<1> QED BY <1>4, <1>5 DEF ClaimedWorkIsDoneOnce

-----------------------------------------------------------------------------
(* The stream.                                                             *)

\* A batch that failed somewhere failed somewhere first.
LEMMA TheEarliest ==
    ASSUME NEW S, S \subseteq Nat, S # {}
    PROVE  \E p \in S : \A q \in S : p <= q
<1>1. PICK p \in S : \A q \in S : <<q, p>> \notin OpToRel(<, Nat) BY NatLessThanWellFounded, WFMin
<1>2. \A q \in S : ~(q < p) BY <1>1 DEF OpToRel
<1> QED BY <1>2

LEMMA BatchMoves ==
    ASSUME StreamInvariant, Handling, NEW reported \in BOOLEAN, NEW n, n = invocation.next,
           invocation' = [invocation EXCEPT !.next = @ + 1,
                            !.failures = IF reported THEN @ \cup {n} ELSE @],
           UNCHANGED <<shard, checkpoint>>, applied' \in [StreamItems -> Nat],
           \A p \in 1 .. Len(shard) : Applied(p) => Applied(p)',
           reported \/ Applied(n)'
    PROVE  StreamInvariant'
<1>1. PICK i \in [on : BOOLEAN, next : Nat, last : Nat, failures : SUBSET Nat] : i = invocation
  BY DEF StreamInvariant, Handling
<1>2. PICK l \in Nat, F \in SUBSET Nat : n \in Nat /\ n = i.next /\ l = i.last /\ F = i.failures BY <1>1
<1>3. PICK G \in SUBSET Nat : G = IF reported THEN F \cup {n} ELSE F BY <1>2
<1>4. /\ i.on /\ n <= l /\ checkpoint < n /\ n <= l + 1 /\ l <= Len(shard) /\ checkpoint \in 0 .. Len(shard)
      /\ \A p \in F : checkpoint < p /\ p < n
      /\ \A p \in 1 .. n - 1 : p \in F \/ Applied(p)
  BY <1>1, <1>2 DEF StreamInvariant, Handling
<1>5. invocation' = [i EXCEPT !.next = n + 1, !.failures = G] BY <1>1, <1>2, <1>3
<1>6. /\ invocation' \in [on : BOOLEAN, next : Nat, last : Nat, failures : SUBSET Nat]
      /\ invocation'.on = i.on /\ invocation'.next = n + 1 /\ invocation'.last = l /\ invocation'.failures = G
  <2>1. n + 1 \in Nat BY <1>2
  <2> QED BY <1>2, <1>3, <1>5, <2>1
<1>7. Len(shard) \in Nat /\ checkpoint \in Nat BY <1>4 DEF StreamInvariant
<1>8. \A p \in G : checkpoint < p /\ p < n + 1 BY <1>2, <1>3, <1>4, <1>7
<1>9. \A p \in 1 .. n : p \in G \/ Applied(p)'
  <2>1. ASSUME NEW p \in 1 .. n PROVE p \in G \/ Applied(p)'
    <3>1. CASE p = n BY <1>3, <3>1
    <3>2. CASE p # n
      <4>1. p \in 1 .. n - 1 /\ p \in 1 .. Len(shard) BY <1>2, <1>4, <1>7, <3>2
      <4> QED BY <1>3, <1>4, <4>1
    <3> QED BY <3>1, <3>2
  <2> QED BY <2>1
<1>10. \A p \in 1 .. checkpoint : Applied(p)'
  <2>1. \A p \in 1 .. checkpoint : p \in 1 .. Len(shard) BY <1>4, <1>7
  <2> QED BY <2>1 DEF StreamInvariant
<1>11. checkpoint < n + 1 /\ n + 1 <= l + 1 /\ (n + 1) - 1 = n BY <1>2, <1>4, <1>7
<1>12. shard' \in Seq(StreamRecord) /\ checkpoint' \in 0 .. Len(shard') BY DEF StreamInvariant
<1> QED BY <1>4, <1>6, <1>8, <1>9, <1>10, <1>11, <1>12 DEF StreamInvariant

LEMMA WriteItemKeeps ==
    ASSUME StreamInvariant, NEW i \in StreamItems, NEW name \in EventNames, WriteItem(i, name)
    PROVE  StreamInvariant'
<1>0. FirstSequence + Len(shard) \in Nat BY SequencesAreNumbers DEF StreamInvariant
<1>1. PICK record \in StreamRecord : shard' = Append(shard, record)
  <2>1. [item |-> i, name |-> name, sequence |-> FirstSequence + Len(shard)] \in StreamRecord BY <1>0 DEF StreamRecord
  <2> QED BY <2>1 DEF WriteItem
<1>2. /\ shard' \in Seq(StreamRecord) /\ Len(shard') = Len(shard) + 1 /\ Len(shard) \in Nat
      /\ \A p \in 1 .. Len(shard) : shard'[p] = shard[p]
  BY <1>1 DEF StreamInvariant
<1>3. UNCHANGED <<checkpoint, invocation, applied>> BY DEF WriteItem
<1>4. \A p \in 1 .. Len(shard) : Applied(p)' <=> Applied(p) BY <1>2, <1>3 DEF Applied
<1>5. checkpoint \in Nat /\ checkpoint <= Len(shard) /\ checkpoint' \in 0 .. Len(shard')
  BY <1>2, <1>3 DEF StreamInvariant
<1>6. \A p \in 1 .. checkpoint : p \in 1 .. Len(shard) BY <1>2, <1>5
<1>7. CASE invocation.on
  <2>1. PICK n \in Nat, l \in Nat : n = invocation.next /\ l = invocation.last BY <1>7 DEF StreamInvariant
  <2>2. n <= l + 1 /\ l <= Len(shard) BY <1>7, <2>1 DEF StreamInvariant
  <2>3. l <= Len(shard') /\ \A p \in 1 .. n - 1 : p \in 1 .. Len(shard) BY <1>2, <2>1, <2>2
  <2> QED BY <1>2, <1>3, <1>4, <1>5, <1>6, <1>7, <2>1, <2>3 DEF StreamInvariant
<1>8. CASE ~invocation.on BY <1>2, <1>3, <1>4, <1>5, <1>6, <1>8 DEF StreamInvariant
<1> QED BY <1>7, <1>8

LEMMA InvokeKeeps ==
    ASSUME StreamInvariant, NEW n \in Nat, NEW header \in Headers, Invoke(n, header)
    PROVE  StreamInvariant'
<1>1. /\ n \in (checkpoint + 1) .. Len(shard) /\ UNCHANGED <<shard, checkpoint, applied>>
      /\ invocation' = [on |-> TRUE, next |-> checkpoint + 1, last |-> n, failures |-> {}]
      /\ checkpoint \in 0 .. Len(shard) /\ Len(shard) \in Nat
  BY DEF StreamInvariant, Invoke
<1>2. /\ invocation' \in [on : BOOLEAN, next : Nat, last : Nat, failures : SUBSET Nat]
      /\ invocation'.on /\ invocation'.next = checkpoint + 1 /\ invocation'.last = n /\ invocation'.failures = {}
  BY <1>1
<1>3. /\ checkpoint < checkpoint + 1 /\ checkpoint + 1 <= n + 1 /\ n <= Len(shard) /\ (checkpoint + 1) - 1 = checkpoint
  BY <1>1
<1>4. \A p \in 1 .. checkpoint : Applied(p)' BY <1>1 DEF StreamInvariant, Applied
<1> QED BY <1>1, <1>2, <1>3, <1>4 DEF StreamInvariant

LEMMA CurrentRecord ==
    ASSUME StreamInvariant, Handling
    PROVE  \E n \in 1 .. Len(shard) : n = invocation.next /\ Current = shard[n] /\ Current \in StreamRecord
<1>1. PICK n \in Nat, l \in Nat : n = invocation.next /\ l = invocation.last BY DEF StreamInvariant, Handling
<1>2. checkpoint \in Nat /\ checkpoint < n /\ n <= l /\ l <= Len(shard) /\ Len(shard) \in Nat
  BY <1>1 DEF StreamInvariant, Handling
<1>3. n \in 1 .. Len(shard) BY <1>2
<1> QED BY <1>1, <1>3 DEF StreamInvariant, Current

LEMMA HandlingKeeps ==
    ASSUME StreamInvariant, SkipRecord \/ HandleRecord \/ RecordRaises
    PROVE  StreamInvariant'
<1>0. Handling /\ UNCHANGED <<shard, checkpoint>> BY DEF SkipRecord, HandleRecord, RecordRaises
<1>1. PICK n \in 1 .. Len(shard) : n = invocation.next /\ Current = shard[n] /\ Current \in StreamRecord
  BY <1>0, CurrentRecord
<1>2. applied \in [StreamItems -> Nat] BY DEF StreamInvariant
<1>3. CASE SkipRecord
  <2>1. UNCHANGED applied /\ shard[n].name \notin WantedNames /\ invocation' = [invocation EXCEPT !.next = @ + 1]
    BY <1>1, <1>3 DEF SkipRecord
  <2>2. invocation' = [invocation EXCEPT !.next = @ + 1, !.failures = IF FALSE THEN @ \cup {n} ELSE @]
    BY <1>0, <2>1 DEF StreamInvariant, Handling
  <2>3. Applied(n)' /\ \A p \in 1 .. Len(shard) : Applied(p) => Applied(p)' BY <1>0, <2>1 DEF Applied
  <2> QED BY <1>0, <1>1, <1>2, <2>1, <2>2, <2>3, BatchMoves
<1>4. CASE RecordRaises
  <2>1. UNCHANGED applied /\ invocation' = [invocation EXCEPT !.next = @ + 1, !.failures = @ \cup {n}]
    BY <1>1, <1>4 DEF RecordRaises
  <2>2. invocation' = [invocation EXCEPT !.next = @ + 1, !.failures = IF TRUE THEN @ \cup {n} ELSE @] BY <2>1
  <2>3. \A p \in 1 .. Len(shard) : Applied(p) => Applied(p)' BY <1>0, <2>1 DEF Applied
  <2> QED BY <1>0, <1>1, <1>2, <2>1, <2>2, <2>3, BatchMoves
<1>5. CASE HandleRecord
  <2>1. PICK item \in StreamItems, sequence \in Nat : item = shard[n].item /\ sequence = shard[n].sequence
    BY <1>1 DEF StreamRecord
  <2>2. /\ applied' = [applied EXCEPT ![item] = IF sequence > @ THEN sequence ELSE @]
        /\ invocation' = [invocation EXCEPT !.next = @ + 1]
    BY <1>1, <1>5, <2>1 DEF HandleRecord, RecordSequence
  <2>3. /\ applied' \in [StreamItems -> Nat] /\ \A i \in StreamItems : applied'[i] >= applied[i]
        /\ applied'[item] >= sequence
    BY <1>2, <2>2
  <2>4. invocation' = [invocation EXCEPT !.next = @ + 1, !.failures = IF FALSE THEN @ \cup {n} ELSE @]
    BY <1>0, <2>2 DEF StreamInvariant, Handling
  <2>5. Applied(n)' BY <1>0, <2>1, <2>3 DEF Applied
  <2>6. ASSUME NEW p \in 1 .. Len(shard), Applied(p) PROVE Applied(p)'
    <3>0. shard[p] \in StreamRecord BY DEF StreamInvariant
    <3>1. PICK i \in StreamItems, s \in Nat : i = shard[p].item /\ s = shard[p].sequence BY <3>0 DEF StreamRecord
    <3>2. CASE shard[p].name \notin WantedNames BY <1>0, <3>2 DEF Applied
    <3>3. CASE shard[p].name \in WantedNames
      <4>1. applied[i] >= s BY <2>6, <3>1, <3>3 DEF Applied
      <4>2. applied'[i] >= s BY <1>2, <2>3, <4>1
      <4> QED BY <1>0, <3>1, <4>2 DEF Applied
    <3> QED BY <3>2, <3>3
  <2> QED BY <1>0, <1>1, <2>3, <2>4, <2>5, <2>6, BatchMoves
<1> QED BY <1>3, <1>4, <1>5

LEMMA NothingInvoked == ~NoInvocation.on /\ NoInvocation.on \in BOOLEAN
BY DEF NoInvocation

LEMMA RespondKeeps ==
    ASSUME StreamInvariant, Respond
    PROVE  StreamInvariant'
<1>1. PICK n \in Nat, l \in Nat, F \in SUBSET Nat : n = invocation.next /\ l = invocation.last /\ F = invocation.failures
  BY DEF StreamInvariant, Respond
<1>2. /\ n > l /\ n <= l + 1 /\ l <= Len(shard) /\ checkpoint < n /\ checkpoint \in Nat /\ Len(shard) \in Nat
      /\ \A p \in F : checkpoint < p /\ p < n
      /\ \A p \in 1 .. n - 1 : p \in F \/ Applied(p)
  BY <1>1 DEF StreamInvariant, Respond
<1>3. BatchItemFailures(F) = F BY DEF BatchItemFailures, RecordId
<1>4. /\ checkpoint' = (IF F = {} THEN l ELSE (CHOOSE p \in F : \A q \in F : p <= q) - 1)
      /\ invocation' = NoInvocation /\ UNCHANGED <<shard, applied>>
  BY <1>1, <1>3 DEF Respond
<1>5. \A p : Applied(p)' <=> Applied(p) BY <1>4 DEF Applied
<1>6. checkpoint' \in 0 .. Len(shard) /\ \A p \in 1 .. checkpoint' : Applied(p)
  <2>1. CASE F = {}
    <3>1. n = l + 1 BY <1>2
    <3> QED BY <1>1, <1>2, <1>4, <2>1, <3>1
  <2>2. CASE F # {}
    <3>1. PICK p \in F : p = (CHOOSE q \in F : \A o \in F : q <= o) /\ \A q \in F : p <= q
      BY <2>2, TheEarliest
    <3>2. checkpoint' = p - 1 /\ p \in Nat /\ checkpoint < p /\ p < n BY <1>2, <1>4, <2>2, <3>1
    <3>3. ASSUME NEW q \in 1 .. checkpoint' PROVE Applied(q)
      <4>1. q \in Nat /\ q < p /\ q \in 1 .. n - 1 BY <1>2, <3>2
      <4>2. q \notin F BY <3>1, <3>2, <4>1
      <4> QED BY <1>2, <4>1, <4>2
    <3>4. checkpoint' \in 0 .. Len(shard) BY <1>2, <3>2
    <3> QED BY <3>3, <3>4
  <2> QED BY <2>1, <2>2
<1> QED BY <1>4, <1>5, <1>6, NothingInvoked DEF StreamInvariant

LEMMA StreamKeeps == StreamInvariant /\ [StreamNext]_streamVars => StreamInvariant'
<1> SUFFICES ASSUME StreamInvariant, [StreamNext]_streamVars PROVE StreamInvariant' OBVIOUS
<1>1. ASSUME NEW i \in StreamItems, NEW name \in EventNames, WriteItem(i, name) PROVE StreamInvariant'
  BY <1>1, WriteItemKeeps
<1>2. ASSUME NEW n \in 1 .. MaxRecords, NEW header \in Headers, Invoke(n, header) PROVE StreamInvariant'
  <2>1. n \in Nat BY SequencesAreNumbers
  <2> QED BY <1>2, <2>1, InvokeKeeps
<1>3. CASE SkipRecord \/ HandleRecord \/ RecordRaises BY <1>3, HandlingKeeps
<1>4. CASE Respond BY <1>4, RespondKeeps
<1>5. CASE InvocationDies
  <2>1. UNCHANGED <<shard, checkpoint, applied>> /\ invocation' = NoInvocation BY <1>5 DEF InvocationDies
  <2> QED BY <2>1, NothingInvoked DEF StreamInvariant, Applied
<1>6. CASE UNCHANGED streamVars BY <1>6 DEF streamVars, StreamInvariant, Applied
<1> QED BY <1>1, <1>2, <1>3, <1>4, <1>5, <1>6, Zenon DEF StreamNext

LEMMA StreamStarts == StreamInit => StreamInvariant
<1> SUFFICES ASSUME StreamInit PROVE StreamInvariant OBVIOUS
<1>1. shard \in Seq(StreamRecord) /\ Len(shard) = 0 /\ checkpoint = 0 /\ applied \in [StreamItems -> Nat]
  BY DEF StreamInit
<1> QED BY <1>1, NothingInvoked DEF StreamInit, StreamInvariant

\* However often records, batches and webhooks are delivered, whatever raises or
\* dies and whoever overlaps: a stream leaves no wanted record behind unapplied, and
\* an event's work is done at most once and by one receiver at a time, and skipped
\* only after a fault, as long as its claim outlives the sender's retries.
THEOREM DeliveredWorkIsDone == StreamInit /\ [][StreamNext]_streamVars /\ HookSpec => []WorkIsDoneOnce
<1>1. StreamInvariant => LeftBehindIsApplied BY DEF StreamInvariant, LeftBehindIsApplied, Applied
<1>2. StreamInvariant /\ HookInvariant => WorkIsDoneOnce BY <1>1, SoundClaimsWorkOnce DEF WorkIsDoneOnce
<1> QED BY StreamStarts, StreamKeeps, HooksStart, HooksKeep, <1>2, PTL DEF HookSpec

-----------------------------------------------------------------------------
(* Keys and the tokens they sign.                                          *)

TokenRecord == [kid : SigningKeyIds, aud : Purposes, typ : {"access", "mfa_ticket"}, client : SUBSET {"grant", "client_id"},
                purpose : Purposes, left : Nat]
KeySetRecord == [keys : SUBSET SigningKeyIds, left : Nat, lacking : SUBSET SigningKeyIds]

KeysTypeOK ==
    /\ stage \in [at : 1 .. 4, age : Nat]
    /\ env \in [Environments -> [stage : 1 .. 4, jwks : SUBSET SigningKeyIds]]
    /\ held \in KeySetRecord
    /\ issued \subseteq TokenRecord

\* The last deploy has reached every environment, and the operator's wait runs.
Everywhere(s) == stage.at = s /\ \A e \in Environments : env[e].stage = s

\* A token is what its purpose makes it; one of the retiring key runs out while the
\* operator waits to drop that key.
TokenSound(t) ==
    /\ t.aud = t.purpose /\ t.typ = TypeOf(t.purpose)
    /\ t.client = ClientClaims(t.purpose)
    /\ 0 < t.left /\ t.left <= TokenLife
    /\ t.kid = Coming => stage.at >= 3
    /\ t.kid = Retiring => stage.at < 4
    /\ t.kid = Retiring /\ Everywhere(3) => t.left + stage.age <= TokenLife

\* A key set that does not know of the coming key runs out while the operator waits
\* to sign with it.
HeldSound ==
    /\ held.left <= GatewayCache
    /\ held.left > 0 =>
         /\ stage.at <= 3 => Retiring \in held.keys \cup held.lacking
         /\ Coming \notin held.keys \cup held.lacking =>
              stage.at <= 2 /\ (Everywhere(2) => held.left + stage.age <= GatewayCache)

KeysInvariant ==
    /\ KeysTypeOK
    /\ \A e \in Environments : env[e].stage = stage.at \/ env[e].stage + 1 = stage.at
    /\ \A t \in issued : TokenSound(t)
    /\ HeldSound
    /\ \A devices \in BOOLEAN : VerifierKey(devices) \in DOMAIN verifiers => verifiers[VerifierKey(devices)] = devices

\* What signs, and what is served, stage by stage.
LEMMA StagesAre ==
    /\ Len(Stages) = 4
    /\ \A s \in 1 .. 4 : /\ Head(Stages[s]) = IF s <= 2 THEN Retiring ELSE Coming
                         /\ ToSet(Stages[s]) \subseteq SigningKeyIds
                         /\ Retiring \in ToSet(Stages[s]) <=> s <= 3
                         /\ Coming \in ToSet(Stages[s]) <=> s >= 2
                         /\ Len(Stages[s]) \in Nat /\ Stages[s] \in Seq(SigningKeyIds)
<1>1. Len(Stages) = 4 BY DEF Stages
<1>2. /\ Stages[1] = <<Retiring>> /\ Stages[2] = <<Retiring, Coming>>
      /\ Stages[3] = <<Coming, Retiring>> /\ Stages[4] = <<Coming>>
  BY DEF Stages
<1>3. ASSUME NEW a, NEW b
      PROVE  /\ Head(<<a>>) = a /\ Head(<<a, b>>) = a /\ ToSet(<<a>>) = {a} /\ ToSet(<<a, b>>) = {a, b}
             /\ Len(<<a>>) = 1 /\ Len(<<a, b>>) = 2
  BY DEF ToSet
<1>4. Retiring # Coming /\ SigningKeyIds = {Retiring, Coming} BY DEF Retiring, Coming, SigningKeyIds
<1>5. ASSUME NEW s \in 1 .. 4
      PROVE  /\ Head(Stages[s]) = IF s <= 2 THEN Retiring ELSE Coming
             /\ ToSet(Stages[s]) \subseteq SigningKeyIds
             /\ Retiring \in ToSet(Stages[s]) <=> s <= 3
             /\ Coming \in ToSet(Stages[s]) <=> s >= 2
             /\ Len(Stages[s]) \in Nat
  <2>1. CASE s = 1
    <3>1. s <= 2 /\ s <= 3 /\ ~(s >= 2) BY <2>1
    <3>2. Head(Stages[s]) = Retiring /\ ToSet(Stages[s]) = {Retiring} /\ Len(Stages[s]) = 1 BY <1>2, <1>3, <2>1
    <3>3. Len(Stages[s]) \in Nat BY <3>2
    <3> QED BY <1>4, <3>1, <3>2, <3>3
  <2>2. CASE s = 2
    <3>1. s <= 2 /\ s <= 3 /\ s >= 2 BY <2>2
    <3>2. Head(Stages[s]) = Retiring /\ ToSet(Stages[s]) = {Retiring, Coming} /\ Len(Stages[s]) = 2 BY <1>2, <1>3, <2>2
    <3>3. Len(Stages[s]) \in Nat BY <3>2
    <3> QED BY <1>4, <3>1, <3>2, <3>3
  <2>3. CASE s = 3
    <3>1. ~(s <= 2) /\ s <= 3 /\ s >= 2 BY <2>3
    <3>2. Head(Stages[s]) = Coming /\ ToSet(Stages[s]) = {Coming, Retiring} /\ Len(Stages[s]) = 2 BY <1>2, <1>3, <2>3
    <3>3. Len(Stages[s]) \in Nat BY <3>2
    <3> QED BY <1>4, <3>1, <3>2, <3>3
  <2>4. CASE s = 4
    <3>1. ~(s <= 2) /\ ~(s <= 3) /\ s >= 2 BY <2>4
    <3>2. Head(Stages[s]) = Coming /\ ToSet(Stages[s]) = {Coming} /\ Len(Stages[s]) = 1 BY <1>2, <1>3, <2>4
    <3>3. Len(Stages[s]) \in Nat BY <3>2
    <3> QED BY <1>4, <3>1, <3>2, <3>3
  <2> QED BY <2>1, <2>2, <2>3, <2>4
<1>6. ASSUME NEW s \in 1 .. 4 PROVE Stages[s] \in Seq(SigningKeyIds)
  <2>1. ASSUME NEW a \in SigningKeyIds, NEW b \in SigningKeyIds
        PROVE  <<a>> \in Seq(SigningKeyIds) /\ <<a, b>> \in Seq(SigningKeyIds)
    OBVIOUS
  <2>2. Retiring \in SigningKeyIds /\ Coming \in SigningKeyIds BY <1>4
  <2>3. Stages[1] \in Seq(SigningKeyIds) /\ Stages[2] \in Seq(SigningKeyIds) BY <1>2, <2>1, <2>2
  <2>4. Stages[3] \in Seq(SigningKeyIds) /\ Stages[4] \in Seq(SigningKeyIds) BY <1>2, <2>1, <2>2
  <2>5. s = 1 \/ s = 2 \/ s = 3 \/ s = 4 OBVIOUS
  <2> QED BY <2>3, <2>4, <2>5
<1> QED BY <1>1, <1>5, <1>6

\* Where an environment stands.
LEMMA StandsAt ==
    ASSUME KeysInvariant, NEW e \in Environments
    PROVE  \E s \in 1 .. 4 : s = env[e].stage /\ Arns(e) = Stages[s] /\ (s = stage.at \/ s + 1 = stage.at)
BY DEF KeysInvariant, KeysTypeOK, Arns

\* What is served, when a read fails or none does.
LEMMA ServedAre ==
    ASSUME KeysInvariant, NEW e \in Environments, NEW failing \in SUBSET SigningKeyIds, failing \subseteq ToSet(Arns(e)) \ env[e].jwks
    PROVE  /\ ServedKeys(e, failing) \cup failing = ToSet(Arns(e))
           /\ JwksAfter(e, ToSet(Arns(e)), failing) \subseteq SigningKeyIds
<1>1. PICK s \in 1 .. 4 : Arns(e) = Stages[s] BY StandsAt
<1>2. ToSet(Arns(e)) \subseteq SigningKeyIds /\ env[e].jwks \subseteq SigningKeyIds
  BY <1>1, StagesAre DEF KeysInvariant, KeysTypeOK
<1> QED BY <1>2 DEF ServedKeys, JwksAfter

\* What an hour does to what is left, and to the wait.
LEMMA AnHour ==
    ASSUME NEW left \in Nat, NEW age \in Nat, NEW most \in Nat, NEW wait \in Nat, most <= wait,
           0 < left, left + age <= most
    PROVE  /\ age < wait /\ left \in Nat
           /\ left > 1 => left - 1 \in Nat /\ 0 < left - 1 /\ (left - 1) + (age + 1) <= most
OBVIOUS

LEMMA WaitsAre ==
    /\ TokenLife \in Nat /\ GatewayCache \in Nat /\ RotationWait \in Nat
    /\ TokenLife <= RotationWait /\ GatewayCache <= RotationWait /\ Environments # {}
BY RotationsWait

\* A step that moves neither stages, tokens nor the held key set.
LEMMA KeysStay ==
    ASSUME KeysInvariant, UNCHANGED <<stage, held, issued>>,
           env' \in [Environments -> [stage : 1 .. 4, jwks : SUBSET SigningKeyIds]],
           \A e \in Environments : env'[e].stage = env[e].stage
    PROVE  /\ KeysTypeOK' /\ HeldSound'
           /\ \A e \in Environments : env'[e].stage = stage'.at \/ env'[e].stage + 1 = stage'.at
           /\ \A t \in issued' : TokenSound(t)'
<1>1. KeysTypeOK' BY DEF KeysInvariant, KeysTypeOK
<1>2. \A s : Everywhere(s)' <=> Everywhere(s) BY DEF Everywhere
<1>3. HeldSound' BY <1>2 DEF KeysInvariant, HeldSound
<1>4. ASSUME NEW t \in issued' PROVE TokenSound(t)' BY <1>2 DEF KeysInvariant, TokenSound
<1> QED BY <1>1, <1>3, <1>4 DEF KeysInvariant

LEMMA MintKeepsKeys ==
    ASSUME KeysInvariant, NEW e \in Environments, NEW purpose \in Purposes, NEW hooked, Mint(e, purpose, hooked, TokenLife)
    PROVE  KeysInvariant'
<1>1. PICK t : t = [kid |-> Head(Arns(e)), aud |-> Audience(purpose), typ |-> TypeOf(purpose),
                    client |-> ClientClaims(purpose), purpose |-> purpose, left |-> TokenLife]
  OBVIOUS
<1>2. issued' = issued \cup {t} /\ TokenLife \in 1 .. TokenLife /\ UNCHANGED <<stage, env, held, verifiers>>
  BY <1>1 DEF Mint, Payload
<1>3. PICK s \in 1 .. 4 : s = env[e].stage /\ Arns(e) = Stages[s] /\ (s = stage.at \/ s + 1 = stage.at) BY StandsAt
<1>4. Head(Arns(e)) = (IF s <= 2 THEN Retiring ELSE Coming) /\ Head(Arns(e)) \in SigningKeyIds
  BY <1>3, StagesAre DEF SigningKeyIds
<1>5. TokenLife \in Nat /\ 0 < TokenLife /\ TokenLife <= TokenLife BY <1>2, WaitsAre
<1>6. t \in TokenRecord
  <2>1. TypeOf(purpose) \in {"access", "mfa_ticket"} /\ Audience(purpose) \in Purposes
        /\ ClientClaims(purpose) \subseteq {"grant", "client_id"}
    BY DEF TypeOf, Audience, ClientClaims
  <2> QED BY <1>1, <1>4, <1>5, <2>1 DEF TokenRecord
<1>7. KeysTypeOK' BY <1>2, <1>6 DEF KeysInvariant, KeysTypeOK
<1>8. \A n : Everywhere(n)' <=> Everywhere(n) BY <1>2 DEF Everywhere
<1>9. TokenSound(t)'
  <2>1. /\ t.aud = t.purpose /\ t.typ = TypeOf(t.purpose) /\ t.left = TokenLife /\ t.kid = Head(Arns(e))
        /\ t.client = ClientClaims(t.purpose)
    BY <1>1 DEF Audience
  <2>2. stage.at \in 1 .. 4 BY DEF KeysInvariant, KeysTypeOK
  <2>0. (t.kid = Coming => ~(s <= 2)) /\ (t.kid = Retiring => s <= 2) BY <1>4, <2>1 DEF Retiring, Coming
  <2>3. t.kid = Coming => stage.at >= 3 BY <1>3, <2>0, <2>2
  <2>4. t.kid = Retiring => stage.at < 4 /\ s # 3 BY <1>3, <2>0, <2>2
  <2>5. t.kid = Retiring => ~Everywhere(3) BY <1>3, <2>4 DEF Everywhere
  <2> QED BY <1>2, <1>5, <1>8, <2>1, <2>3, <2>4, <2>5 DEF TokenSound
<1>10. HeldSound' BY <1>2, <1>8 DEF KeysInvariant, HeldSound
<1>11. ASSUME NEW o \in issued PROVE TokenSound(o)' BY <1>2, <1>8 DEF KeysInvariant, TokenSound
<1> QED BY <1>2, <1>7, <1>9, <1>10, <1>11 DEF KeysInvariant

LEMMA FetchKeeps ==
    ASSUME KeysInvariant, NEW e \in Environments, NEW failing \in SUBSET SigningKeyIds, FetchKeySet(e, failing)
    PROVE  KeysInvariant'
<1>1. /\ failing \subseteq ToSet(Arns(e)) \ env[e].jwks
      /\ env' = [env EXCEPT ![e].jwks = JwksAfter(e, ToSet(Arns(e)), failing)]
      /\ held' = [keys |-> ServedKeys(e, failing), left |-> GatewayCache, lacking |-> failing]
      /\ UNCHANGED <<stage, verifiers, issued>>
  BY DEF FetchKeySet
<1>2. PICK s \in 1 .. 4 : s = env[e].stage /\ Arns(e) = Stages[s] /\ (s = stage.at \/ s + 1 = stage.at) BY StandsAt
<1>3. ServedKeys(e, failing) \cup failing = ToSet(Arns(e)) /\ JwksAfter(e, ToSet(Arns(e)), failing) \subseteq SigningKeyIds
  BY <1>1, ServedAre
<1>4. /\ env' \in [Environments -> [stage : 1 .. 4, jwks : SUBSET SigningKeyIds]]
      /\ \A o \in Environments : env'[o].stage = env[o].stage
  BY <1>1, <1>3 DEF KeysInvariant, KeysTypeOK
<1>5. /\ ToSet(Arns(e)) \subseteq SigningKeyIds
      /\ Retiring \in ToSet(Arns(e)) <=> s <= 3
      /\ Coming \in ToSet(Arns(e)) <=> s >= 2
  BY <1>2, StagesAre
<1>6. held' \in KeySetRecord
  <2>1. ServedKeys(e, failing) \subseteq SigningKeyIds BY <1>3, <1>5
  <2> QED BY <1>1, <2>1, WaitsAre DEF KeySetRecord
<1>7. KeysTypeOK' BY <1>1, <1>4, <1>6 DEF KeysInvariant, KeysTypeOK
<1>8. \A n : Everywhere(n)' <=> Everywhere(n) BY <1>1, <1>4 DEF Everywhere
<1>9. HeldSound'
  <2>1. held'.left = GatewayCache /\ held'.keys \cup held'.lacking = ToSet(Arns(e)) BY <1>1, <1>3
  <2>2. stage.at \in 1 .. 4 BY DEF KeysInvariant, KeysTypeOK
  <2>3. stage.at <= 3 => Retiring \in ToSet(Arns(e)) BY <1>2, <1>5, <2>2
  <2>4. Coming \notin ToSet(Arns(e)) => stage.at <= 2 /\ s # 2 BY <1>2, <1>5, <2>2
  <2>5. s # 2 => ~Everywhere(2) BY <1>2 DEF Everywhere
  <2>6. GatewayCache <= GatewayCache BY WaitsAre
  <2> QED BY <1>1, <1>8, <2>1, <2>3, <2>4, <2>5, <2>6 DEF HeldSound
<1>10. ASSUME NEW o \in issued' PROVE TokenSound(o)' BY <1>1, <1>8 DEF KeysInvariant, TokenSound
<1> QED BY <1>1, <1>4, <1>7, <1>9, <1>10 DEF KeysInvariant

LEMMA VerifyHereKeeps ==
    ASSUME KeysInvariant, NEW e \in Environments, NEW failing, NEW upTo \in Nat, upTo <= Len(Arns(e)), VerifyHere(e, upTo, failing)
    PROVE  KeysInvariant'
<1>1. PICK s \in 1 .. 4 : Arns(e) = Stages[s] BY StandsAt
<1>2. ToSet(SubSeq(Arns(e), 1, upTo)) \subseteq SigningKeyIds
  <2>1. Arns(e) \in Seq(SigningKeyIds) BY <1>1, StagesAre
  <2>2. SubSeq(Arns(e), 1, upTo) \in Seq(SigningKeyIds) BY <2>1
  <2> QED BY <2>2 DEF ToSet
<1>3. PICK keys \in SUBSET SigningKeyIds : env' = [env EXCEPT ![e].jwks = JwksAfter(e, keys, failing)]
  BY <1>2 DEF VerifyHere
<1>4. JwksAfter(e, keys, failing) \subseteq SigningKeyIds BY DEF JwksAfter, KeysInvariant, KeysTypeOK
<1>5. /\ env' \in [Environments -> [stage : 1 .. 4, jwks : SUBSET SigningKeyIds]]
      /\ \A o \in Environments : env'[o].stage = env[o].stage
  BY <1>3, <1>4 DEF KeysInvariant, KeysTypeOK
<1>6. UNCHANGED <<stage, held, verifiers, issued>> BY DEF VerifyHere
<1> QED BY <1>5, <1>6, KeysStay DEF KeysInvariant

LEMMA ReplacedKeeps ==
    ASSUME KeysInvariant, NEW e \in Environments, Replaced(e)
    PROVE  KeysInvariant'
<1>1. /\ env' = [env EXCEPT ![e] = [stage |-> stage.at, jwks |-> {}]] /\ UNCHANGED <<held, verifiers, issued>>
      /\ stage' = IF env[e].stage < stage.at THEN [stage EXCEPT !.age = 0] ELSE stage
  BY DEF Replaced, FreshEnvironment
<1>2. PICK at \in 1 .. 4, age \in Nat : at = stage.at /\ age = stage.age BY DEF KeysInvariant, KeysTypeOK
<1>3. /\ stage' \in [at : 1 .. 4, age : Nat] /\ stage'.at = at
      /\ stage'.age = 0 \/ (stage'.age = age /\ env[e].stage = at)
  BY <1>1, <1>2, StandsAt DEF KeysInvariant, KeysTypeOK
<1>4. /\ env' \in [Environments -> [stage : 1 .. 4, jwks : SUBSET SigningKeyIds]]
      /\ env'[e].stage = at /\ \A o \in Environments \ {e} : env'[o] = env[o]
  BY <1>1, <1>2 DEF KeysInvariant, KeysTypeOK
<1>5. KeysTypeOK' BY <1>1, <1>3, <1>4 DEF KeysInvariant, KeysTypeOK
<1>6. \A n : Everywhere(n)' => stage'.age = 0 \/ (stage'.age = age /\ Everywhere(n))
  BY <1>2, <1>3, <1>4 DEF Everywhere
<1>7. ASSUME NEW t \in issued' PROVE TokenSound(t)'
  <2>1. TokenSound(t) /\ t \in TokenRecord BY <1>1 DEF KeysInvariant, KeysTypeOK
  <2>2. PICK left \in Nat : left = t.left BY <2>1 DEF TokenRecord
  <2>3. left <= TokenLife /\ left + 0 = left
    <3>1. left + 0 = left OBVIOUS
    <3> QED BY <2>1, <2>2, <3>1 DEF TokenSound
  <2>4. t.kid = Retiring /\ Everywhere(3)' => left + stage'.age <= TokenLife
    BY <1>2, <1>6, <2>1, <2>2, <2>3 DEF TokenSound
  <2> QED BY <1>2, <1>3, <2>1, <2>2, <2>4 DEF TokenSound
<1>8. HeldSound'
  <2>1. PICK left \in Nat : left = held.left BY DEF KeysInvariant, KeysTypeOK, KeySetRecord
  <2>2. left <= GatewayCache /\ left + 0 = left BY <2>1 DEF KeysInvariant, HeldSound
  <2>3. left > 0 /\ Coming \notin held.keys \cup held.lacking /\ Everywhere(2)' => left + stage'.age <= GatewayCache
    BY <1>2, <1>6, <2>1, <2>2 DEF KeysInvariant, HeldSound
  <2> QED BY <1>1, <1>2, <1>3, <2>1, <2>2, <2>3 DEF KeysInvariant, HeldSound
<1>9. \A o \in Environments : env'[o].stage = stage'.at \/ env'[o].stage + 1 = stage'.at
  BY <1>2, <1>3, <1>4 DEF KeysInvariant
<1> QED BY <1>1, <1>5, <1>7, <1>8, <1>9 DEF KeysInvariant

\* No token of the retiring key, and no key set without the coming one, outlives the wait.
LEMMA DeployKeeps ==
    ASSUME KeysInvariant, Deploy
    PROVE  KeysInvariant'
<1>1. PICK at \in 1 .. 4, age \in Nat : at = stage.at /\ age = stage.age BY DEF KeysInvariant, KeysTypeOK
<1>2. /\ at < 4 /\ Everywhere(at) /\ age = RotationWait /\ UNCHANGED <<env, held, verifiers, issued>>
      /\ stage' = [stage EXCEPT !.at = @ + 1]
  BY <1>1, StagesAre DEF Deploy, Everywhere
<1>3. at + 1 \in 1 .. 4 /\ \A s \in 1 .. 4 : s = at => s + 1 = at + 1 BY <1>2
<1>4. stage' \in [at : 1 .. 4, age : Nat] /\ stage'.at = at + 1 BY <1>1, <1>2, <1>3 DEF KeysInvariant, KeysTypeOK
<1>5. KeysTypeOK' BY <1>2, <1>4 DEF KeysInvariant, KeysTypeOK
<1>6. \A e \in Environments : env'[e].stage + 1 = stage'.at
  <2>1. \A e \in Environments : env'[e].stage = at BY <1>2 DEF Everywhere
  <2> QED BY <1>4, <2>1
<1>7. \A n : ~Everywhere(n)'
  <2>1. PICK e \in Environments : TRUE BY WaitsAre
  <2>2. env'[e].stage = at /\ at # at + 1 BY <1>2 DEF Everywhere
  <2> QED BY <1>4, <2>1, <2>2 DEF Everywhere
<1>8. ASSUME NEW t \in issued' PROVE TokenSound(t)'
  <2>1. TokenSound(t) /\ t \in TokenRecord BY <1>2 DEF KeysInvariant, KeysTypeOK
  <2>2. PICK left \in Nat : left = t.left BY <2>1 DEF TokenRecord
  <2>3. t.kid = Retiring => at # 3
    <3>1. SUFFICES ASSUME t.kid = Retiring, at = 3 PROVE FALSE OBVIOUS
    <3>2. left + RotationWait <= TokenLife /\ 0 < left BY <1>1, <1>2, <2>1, <2>2, <3>1 DEF TokenSound
    <3> QED BY <3>2, WaitsAre
  <2>4. t.kid = Coming => at + 1 >= 3
    <3>1. t.kid = Coming => at >= 3 BY <1>1, <2>1 DEF TokenSound
    <3>2. at >= 3 => at + 1 >= 3 OBVIOUS
    <3> QED BY <3>1, <3>2
  <2>5. t.kid = Retiring => at + 1 < 4 BY <1>2, <2>3
  <2> QED BY <1>4, <1>7, <2>1, <2>4, <2>5 DEF TokenSound
<1>9. HeldSound'
  <2>1. PICK left \in Nat : left = held.left BY DEF KeysInvariant, KeysTypeOK, KeySetRecord
  <2>2. left > 0 /\ Coming \notin held.keys \cup held.lacking => at <= 2 /\ at # 2
    <3>1. SUFFICES ASSUME left > 0, Coming \notin held.keys \cup held.lacking, at = 2 PROVE FALSE
      BY <1>1, <2>1 DEF KeysInvariant, HeldSound
    <3>2. left + RotationWait <= GatewayCache BY <1>1, <1>2, <2>1, <3>1 DEF KeysInvariant, HeldSound
    <3> QED BY <3>1, <3>2, WaitsAre
  <2>3. left > 0 /\ Coming \notin held.keys \cup held.lacking => at + 1 <= 2 BY <2>2
  <2>4. left > 0 /\ at + 1 <= 3 => Retiring \in held.keys \cup held.lacking
    BY <1>1, <2>1 DEF KeysInvariant, HeldSound
  <2> QED BY <1>2, <1>4, <1>7, <2>1, <2>3, <2>4 DEF KeysInvariant, HeldSound
<1> QED BY <1>2, <1>5, <1>6, <1>8, <1>9 DEF KeysInvariant

LEMMA KeyTickKeeps ==
    ASSUME KeysInvariant, KeyTick
    PROVE  KeysInvariant'
<1>1. PICK at \in 1 .. 4, age \in Nat : at = stage.at /\ age = stage.age BY DEF KeysInvariant, KeysTypeOK
<1>2. UNCHANGED <<env, verifiers>> /\ stage' = [stage EXCEPT !.age = IF @ < RotationWait THEN @ + 1 ELSE @] BY DEF KeyTick
<1>3. PICK later \in Nat : later = IF age < RotationWait THEN age + 1 ELSE age BY WaitsAre
<1>4. stage' \in [at : 1 .. 4, age : Nat] /\ stage'.at = at /\ stage'.age = later
  BY <1>1, <1>2, <1>3 DEF KeysInvariant, KeysTypeOK
<1>5. \A n : Everywhere(n)' <=> Everywhere(n) BY <1>1, <1>2, <1>4 DEF Everywhere
<1>6. ASSUME NEW t \in issued' PROVE t \in TokenRecord /\ TokenSound(t)'
  <2>1. PICK u \in issued : u.left > 1 /\ t = [u EXCEPT !.left = @ - 1] BY DEF KeyTick
  <2>2. TokenSound(u) /\ u \in TokenRecord BY DEF KeysInvariant, KeysTypeOK
  <2>3. PICK left \in Nat : left = u.left /\ left > 1 BY <2>1, <2>2 DEF TokenRecord
  <2>4. left - 1 \in Nat /\ 0 < left - 1 /\ (left <= TokenLife => left - 1 <= TokenLife) /\ 0 < left BY <2>3, WaitsAre
  <2>5. /\ t \in TokenRecord /\ t.left = left - 1 /\ t.kid = u.kid /\ t.aud = u.aud /\ t.typ = u.typ /\ t.client = u.client
        /\ t.purpose = u.purpose
    BY <2>1, <2>2, <2>3, <2>4 DEF TokenRecord
  <2>6. t.kid = Retiring /\ Everywhere(3) => (left - 1) + later <= TokenLife
    <3>1. SUFFICES ASSUME t.kid = Retiring, Everywhere(3) PROVE (left - 1) + later <= TokenLife OBVIOUS
    <3>2. left + age <= TokenLife BY <1>1, <2>2, <2>3, <2>5, <3>1 DEF TokenSound
    <3>3. age < RotationWait /\ (left - 1) + (age + 1) <= TokenLife BY <2>3, <2>4, <3>2, WaitsAre, AnHour
    <3> QED BY <1>3, <3>3
  <2> QED BY <1>1, <1>4, <1>5, <2>2, <2>3, <2>4, <2>5, <2>6 DEF TokenSound
<1>7. PICK left \in Nat : left = held.left BY DEF KeysInvariant, KeysTypeOK, KeySetRecord
<1>8. CASE left <= 1
  <2>1. held' = NoKeySet BY <1>7, <1>8 DEF KeyTick
  <2>2. held' \in KeySetRecord /\ held'.left = 0 BY <2>1 DEF NoKeySet, KeySetRecord
  <2>3. KeysTypeOK' BY <1>2, <1>4, <1>6, <2>2 DEF KeysInvariant, KeysTypeOK
  <2>4. 0 <= GatewayCache /\ ~(0 > 0) BY WaitsAre
  <2>5. HeldSound' BY <2>2, <2>4 DEF HeldSound
  <2> QED BY <1>1, <1>2, <1>4, <1>6, <2>3, <2>5 DEF KeysInvariant
<1>9. CASE left > 1
  <2>1. held' = [held EXCEPT !.left = @ - 1]
    <3>1. ~(left <= 1) BY <1>9
    <3> QED BY <1>7, <3>1 DEF KeyTick
  <2>2. left - 1 \in Nat /\ 0 < left - 1 /\ (left <= GatewayCache => left - 1 <= GatewayCache) /\ 0 < left /\ left > 0
    BY <1>9, WaitsAre
  <2>3. held' \in KeySetRecord /\ held'.left = left - 1 /\ held'.keys = held.keys /\ held'.lacking = held.lacking
    BY <1>7, <2>1, <2>2 DEF KeysInvariant, KeysTypeOK, KeySetRecord
  <2>4. KeysTypeOK' BY <1>2, <1>4, <1>6, <2>3 DEF KeysInvariant, KeysTypeOK
  <2>5. Coming \notin held.keys \cup held.lacking /\ Everywhere(2) => (left - 1) + later <= GatewayCache
    <3>1. SUFFICES ASSUME Coming \notin held.keys \cup held.lacking, Everywhere(2) PROVE (left - 1) + later <= GatewayCache
      OBVIOUS
    <3>2. left + age <= GatewayCache BY <1>1, <1>7, <2>2, <3>1 DEF KeysInvariant, HeldSound
    <3>3. age < RotationWait /\ (left - 1) + (age + 1) <= GatewayCache BY <2>2, <1>9, <3>2, WaitsAre, AnHour
    <3> QED BY <1>3, <3>3
  <2>6. HeldSound' BY <1>1, <1>4, <1>5, <1>7, <2>2, <2>3, <2>5 DEF KeysInvariant, HeldSound
  <2> QED BY <1>1, <1>2, <1>4, <1>6, <2>4, <2>6 DEF KeysInvariant
<1> QED BY <1>8, <1>9

LEMMA AudiencesDiffer == \A d, f \in BOOLEAN : VerifierKey(d) = VerifierKey(f) => d = f
<1>1. "device" \notin VerifierKey(FALSE) /\ "device" \in VerifierKey(TRUE) BY DEF VerifierKey, Audiences, Audience
<1> QED BY <1>1

LEMMA CachedVerifierKeeps ==
    ASSUME KeysInvariant, NEW d \in BOOLEAN, CachedVerifier(d)
    PROVE  KeysInvariant'
<1>1. /\ UNCHANGED <<stage, env, held, issued>>
      /\ verifiers' = [k \in DOMAIN verifiers \cup {VerifierKey(d)} |-> IF k \in DOMAIN verifiers THEN verifiers[k] ELSE d]
  BY DEF CachedVerifier
<1>2. ASSUME NEW f \in BOOLEAN, VerifierKey(f) \in DOMAIN verifiers' PROVE verifiers'[VerifierKey(f)] = f
  <2>1. CASE VerifierKey(f) \in DOMAIN verifiers BY <1>1, <2>1 DEF KeysInvariant
  <2>2. CASE VerifierKey(f) \notin DOMAIN verifiers
    <3>1. VerifierKey(f) = VerifierKey(d) BY <1>1, <1>2, <2>2
    <3>2. f = d BY <3>1, AudiencesDiffer
    <3> QED BY <1>1, <2>2, <3>1, <3>2
  <2> QED BY <2>1, <2>2
<1>3. env' \in [Environments -> [stage : 1 .. 4, jwks : SUBSET SigningKeyIds]] /\ \A e \in Environments : env'[e].stage = env[e].stage
  BY <1>1 DEF KeysInvariant, KeysTypeOK
<1> QED BY <1>1, <1>2, <1>3, KeysStay DEF KeysInvariant

LEMMA KeysStart == KeysInit => KeysInvariant
<1> SUFFICES ASSUME KeysInit PROVE KeysInvariant OBVIOUS
<1>1. /\ stage = [at |-> 1, age |-> 0] /\ env = [e \in Environments |-> [stage |-> 1, jwks |-> {}]]
      /\ held = NoKeySet /\ DOMAIN verifiers = {} /\ issued = {}
  <2>1. DOMAIN <<>> = {} OBVIOUS
  <2> QED BY <2>1 DEF KeysInit, FreshEnvironment
<1>2. held \in KeySetRecord /\ held.left = 0 /\ 0 <= GatewayCache /\ ~(0 > 0) BY <1>1, WaitsAre DEF NoKeySet, KeySetRecord
<1>3. KeysTypeOK BY <1>1, <1>2 DEF KeysTypeOK
<1> QED BY <1>1, <1>2, <1>3 DEF KeysInvariant, HeldSound

LEMMA KeysKeep == KeysInvariant /\ [KeysNext]_keyVars => KeysInvariant'
<1> SUFFICES ASSUME KeysInvariant, [KeysNext]_keyVars PROVE KeysInvariant' OBVIOUS
<1>1. ASSUME NEW e \in Environments, NEW purpose \in Purposes, NEW hooked \in Hooked, Mint(e, purpose, hooked, TokenLife)
      PROVE  KeysInvariant'
  BY <1>1, MintKeepsKeys
<1>2. ASSUME NEW e \in Environments, NEW failing \in SUBSET SigningKeyIds,
             FetchKeySet(e, failing) \/ \E upTo \in 1 .. Len(Arns(e)) : VerifyHere(e, upTo, failing)
      PROVE  KeysInvariant'
  <2>1. \A upTo \in 1 .. Len(Arns(e)) : upTo \in Nat /\ upTo <= Len(Arns(e))
    <3>1. Len(Arns(e)) \in Nat BY StandsAt, StagesAre
    <3> QED BY <3>1
  <2> QED BY <1>2, <2>1, FetchKeeps, VerifyHereKeeps
<1>3. ASSUME NEW e \in Environments, Replaced(e) PROVE KeysInvariant' BY <1>3, ReplacedKeeps
<1>4. ASSUME NEW devices \in BOOLEAN, CachedVerifier(devices) PROVE KeysInvariant' BY <1>4, CachedVerifierKeeps
<1>5. CASE Deploy \/ KeyTick BY <1>5, DeployKeeps, KeyTickKeeps
<1>6. CASE UNCHANGED keyVars
  <2>1. UNCHANGED <<stage, env, held, verifiers, issued>> BY <1>6 DEF keyVars
  <2>2. env' \in [Environments -> [stage : 1 .. 4, jwks : SUBSET SigningKeyIds]] /\ \A e \in Environments : env'[e].stage = env[e].stage
    BY <2>1 DEF KeysInvariant, KeysTypeOK
  <2> QED BY <2>1, <2>2, KeysStay DEF KeysInvariant
<1> QED BY <1>1, <1>2, <1>3, <1>4, <1>5, <1>6, Zenon DEF KeysNext

LEMMA SoundKeysVerify ==
    ASSUME KeysInvariant
    PROVE  RotationsLockNobodyOut
<1>1. ASSUME NEW t \in issued, NEW e \in Environments PROVE ServiceAccepts(e, t, {t.aud})
  <2>1. PICK s \in 1 .. 4 : Arns(e) = Stages[s] /\ (s = stage.at \/ s + 1 = stage.at) BY StandsAt
  <2>2. TokenSound(t) /\ t.kid \in SigningKeyIds BY DEF KeysInvariant, KeysTypeOK, TokenRecord
  <2>3. stage.at \in 1 .. 4 BY DEF KeysInvariant, KeysTypeOK
  <2>4. (stage.at >= 3 => s >= 2) /\ (stage.at < 4 => s <= 3) BY <2>1, <2>3
  <2>5. t.kid \in ToSet(Arns(e)) BY <2>1, <2>2, <2>4, StagesAre DEF TokenSound, SigningKeyIds
  <2>6. ServedKeys(e, {}) = ToSet(Arns(e)) BY DEF ServedKeys, JwksAfter
  <2> QED BY <2>5, <2>6 DEF ServiceAccepts
<1>2. ASSUME NEW t \in issued, held.left > 0, t.kid \notin held.lacking PROVE t.kid \in held.keys
  <2>1. TokenSound(t) /\ t.kid \in SigningKeyIds BY DEF KeysInvariant, KeysTypeOK, TokenRecord
  <2>2. stage.at \in 1 .. 4 BY DEF KeysInvariant, KeysTypeOK
  <2>3. (stage.at < 4 => stage.at <= 3) /\ (stage.at >= 3 => ~(stage.at <= 2)) BY <2>2
  <2> QED BY <1>2, <2>1, <2>3 DEF KeysInvariant, HeldSound, TokenSound, SigningKeyIds
<1> QED BY <1>1, <1>2 DEF RotationsLockNobodyOut

LEMMA SoundTokensKeepTheirPurpose ==
    ASSUME KeysInvariant
    PROVE  TokensKeepTheirPurpose
<1> SUFFICES ASSUME NEW t \in issued
             PROVE  /\ GatewayAccepts(t) => t.purpose = "session"
                    /\ \A e \in Environments : /\ TicketAccepted(e, t) => t.purpose = "mfa"
                                               /\ ServiceAccepts(e, t, Audiences(FALSE)) => t.purpose = "session"
                    /\ \A devices \in BOOLEAN :
                         (VerifierKey(devices) \in DOMAIN verifiers /\ VerifierAccepts(t, verifiers[VerifierKey(devices)])) =>
                           t.purpose = "session" \/ (devices /\ t.purpose = "device")
  BY DEF TokensKeepTheirPurpose
<1>1. t.aud = t.purpose BY DEF KeysInvariant, TokenSound
<1>2. GatewayAccepts(t) => t.purpose = "session" BY <1>1 DEF GatewayAccepts, Audience
<1>3. ASSUME NEW e \in Environments
      PROVE  /\ TicketAccepted(e, t) => t.purpose = "mfa"
             /\ ServiceAccepts(e, t, Audiences(FALSE)) => t.purpose = "session"
  BY <1>1 DEF TicketAccepted, ServiceAccepts, Audiences, Audience
<1>4. ASSUME NEW devices \in BOOLEAN, VerifierKey(devices) \in DOMAIN verifiers,
             VerifierAccepts(t, verifiers[VerifierKey(devices)])
      PROVE  t.purpose = "session" \/ (devices /\ t.purpose = "device")
  <2>1. verifiers[VerifierKey(devices)] = devices BY <1>4 DEF KeysInvariant
  <2>2. t.aud \in Audiences(devices) BY <1>4, <2>1 DEF VerifierAccepts
  <2> QED BY <1>1, <2>2 DEF Audiences, Audience
<1> QED BY <1>2, <1>3, <1>4

\* The claims of a token, as the function signs them.
LEMMA ClaimsAre ==
    ASSUME NEW t \in TokenRecord, TokenSound(t), NEW hooked, NEW row \in Verifieds,
           NEW said, said = ClaimsOf(t, StampEmailVerified(hooked, row))
    PROVE  /\ "aud" \in DOMAIN said /\ said["aud"] = Claim("list", <<t.aud>>)
           /\ DOMAIN said \cap {"grant", "client_id"} = ClientClaims(t.purpose)
           /\ "email_verified" \in DOMAIN said <=> row # "unsaid"
           /\ row # "unsaid" => said["email_verified"] = Claim("bool", row)
<1>1. PICK stamped : stamped = StampEmailVerified(hooked, row) OBVIOUS
<1>2. DOMAIN <<>> = {} OBVIOUS
<1>3. /\ DOMAIN stamped = IF row = "unsaid" THEN {} ELSE {"email_verified"}
      /\ row # "unsaid" => stamped["email_verified"] = Claim("bool", row)
  BY <1>1, <1>2 DEF StampEmailVerified
<1>4. t.client = ClientClaims(t.purpose) /\ t.client \subseteq {"grant", "client_id"} BY DEF TokenSound, TokenRecord
<1>5. /\ DOMAIN said = DOMAIN stamped \cup {"aud"} \cup t.client
      /\ \A c \in DOMAIN said :
           said[c] = CASE c \in DOMAIN stamped -> stamped[c]
                       [] c \notin DOMAIN stamped /\ c = "aud" -> Claim("list", <<t.aud>>)
                       [] OTHER -> Claim("text", c)
  BY <1>1 DEF ClaimsOf
<1>6. /\ "aud" \notin DOMAIN stamped /\ "aud" \notin t.client /\ "email_verified" \notin t.client
      /\ {"grant", "client_id"} \cap DOMAIN stamped = {}
  BY <1>3, <1>4
<1> QED BY <1>3, <1>4, <1>5, <1>6

\* What a route reads of them, whichever authorizer it stands behind.
LEMMA TheRouteIsTold ==
    ASSUME NEW t \in TokenRecord, TokenSound(t), NEW row \in Verifieds, NEW said,
           "aud" \in DOMAIN said, said["aud"].of = <<t.aud>>,
           DOMAIN said \cap {"grant", "client_id"} = ClientClaims(t.purpose),
           "email_verified" \in DOMAIN said <=> row # "unsaid",
           row # "unsaid" => said["email_verified"] \in {Claim("bool", row), Claim("text", row)}
    PROVE  /\ IsBrowserSession(CoerceClaims(said)) <=> t.purpose = "session"
           /\ EmailUnverified(CoerceClaims(said)) <=> row = "false"
<1>1. PICK told : told = CoerceClaims(said) OBVIOUS
<1>2. DOMAIN told = DOMAIN said BY <1>1 DEF CoerceClaims
<1>3. told["aud"] = Claim("list", <<t.aud>>) BY <1>1 DEF CoerceClaims, CoerceArray
<1>4. ToSet(CoerceArray(told["aud"]).of) = {t.aud}
  <2>1. CoerceArray(told["aud"]).of = <<t.aud>> BY <1>3 DEF CoerceArray, Claim
  <2>2. ToSet(<<t.aud>>) = {t.aud} BY DEF ToSet
  <2> QED BY <2>1, <2>2
<1>5. IsBrowserSession(told) <=> t.purpose = "session"
  BY <1>2, <1>4 DEF IsBrowserSession, Audience, TokenSound, ClientClaims
<1>6. ASSUME row # "unsaid" PROVE CoerceBool(told["email_verified"]) = Claim("bool", row)
  <2>1. \A v \in {Claim("bool", row), Claim("text", row)} : CoerceBool(v) = Claim("bool", row)
    <3>1. row \in {"true", "false"} BY <1>6 DEF Verifieds
    <3> QED BY <3>1 DEF CoerceBool, Claim
  <2>2. told["email_verified"] = CoerceBool(said["email_verified"]) BY <1>1, <1>6 DEF CoerceClaims
  <2>3. told["email_verified"] = Claim("bool", row) BY <1>6, <2>1, <2>2
  <2> QED BY <2>1, <2>3
<1>7. Claim("bool", row) = Claim("bool", "false") <=> row = "false" BY DEF Claim
<1>8. EmailUnverified(told) <=> row = "false" BY <1>2, <1>6, <1>7 DEF EmailUnverified
<1> QED BY <1>1, <1>5, <1>8

LEMMA SoundRoutesKnowTheCaller ==
    ASSUME KeysInvariant
    PROVE  RoutesKnowTheCaller
<1>0. \A t \in issued : t \in TokenRecord /\ TokenSound(t) BY DEF KeysInvariant, KeysTypeOK
<1>1. ASSUME NEW t \in issued, NEW hooked \in Verifieds, NEW row \in Verifieds, NEW said,
             said = ClaimsOf(t, StampEmailVerified(hooked, row)),
             NEW context \in {Context("jwt", Flattened(said, s)) : s \in {"bare", "bracketed"}} \cup {Context("lambda", said)},
             NEW told \in IdentityClaims(context)
      PROVE  /\ IsBrowserSession(told) <=> t.purpose = "session"
             /\ EmailUnverified(told) <=> row = "false"
  <2>1. /\ "aud" \in DOMAIN said /\ said["aud"] = Claim("list", <<t.aud>>)
        /\ DOMAIN said \cap {"grant", "client_id"} = ClientClaims(t.purpose)
        /\ "email_verified" \in DOMAIN said <=> row # "unsaid"
        /\ row # "unsaid" => said["email_verified"] = Claim("bool", row)
    BY <1>0, <1>1, ClaimsAre
  <2>2. CASE context = Context("lambda", said)
    <3>1. told = CoerceClaims(said)
      BY <1>1, <2>2 DEF IdentityClaims, ReadAuthorizerClaims, GateClaims, Context
    <3>2. said["aud"].of = <<t.aud>> BY <2>1 DEF Claim
    <3> QED BY <1>0, <2>1, <3>1, <3>2, TheRouteIsTold
  <2>3. ASSUME NEW s \in {"bare", "bracketed"}, context = Context("jwt", Flattened(said, s))
        PROVE  /\ IsBrowserSession(told) <=> t.purpose = "session"
               /\ EmailUnverified(told) <=> row = "false"
    <3>1. PICK flat : flat = Flattened(said, s) OBVIOUS
    <3>2. told = CoerceClaims(flat)
      BY <1>1, <2>3, <3>1 DEF IdentityClaims, ReadAuthorizerClaims, Context
    <3>3. DOMAIN flat = DOMAIN said BY <3>1 DEF Flattened
    <3>4. flat["aud"].of = <<t.aud>> BY <2>1, <3>1 DEF Flattened, Claim
    <3>5. row # "unsaid" => flat["email_verified"] = Claim("text", row) BY <2>1, <3>1 DEF Flattened, Claim
    <3> QED BY <1>0, <2>1, <3>2, <3>3, <3>4, <3>5, TheRouteIsTold
  <2> QED BY <1>1, <2>2, <2>3
<1>2. ASSUME NEW e \in Environments, NEW t \in issued, NEW inbound, NEW said, NEW devices \in BOOLEAN,
             inbound.by = "jwt", inbound = Context("jwt", inbound.claims),
             NEW told \in IdentityClaims(LocalAuthorizer(e, inbound, t, said, devices))
      PROVE  told = CoerceClaims(said) /\ t.purpose \in {"session"} \cup (IF devices THEN {"device"} ELSE {})
  <2>1. CASE LocalVerifies(e, t, devices)
    <3>1. told = CoerceClaims(said)
      BY <1>2, <2>1 DEF LocalAuthorizer, IdentityClaims, ReadAuthorizerClaims, Context
    <3>2. t.aud = t.purpose /\ t.aud \in Audiences(devices) BY <1>0, <2>1 DEF TokenSound, LocalVerifies
    <3> QED BY <3>1, <3>2 DEF Audiences, Audience
  <2>2. CASE ~LocalVerifies(e, t, devices)
    <3>1. LocalAuthorizer(e, inbound, t, said, devices).by = "missing" BY <1>2, <2>2 DEF LocalAuthorizer, Context
    <3>2. IdentityClaims(LocalAuthorizer(e, inbound, t, said, devices)) = {}
      BY <3>1 DEF IdentityClaims, ReadAuthorizerClaims, GateClaims
    <3> QED BY <1>2, <3>2
  <2> QED BY <2>1, <2>2
<1>3. ASSUME NEW context \in WithoutClaims, NEW fallback, Buildable("production", fallback)
      PROVE  AuthorizerClaims(context, fallback) \cup IdentityClaims(context) = {}
  <2>1. context.by \in {"missing", "unparseable", "no section"}
    <3>1. PICK by \in {"missing", "unparseable", "no section"} : context = Context(by, <<>>) BY DEF WithoutClaims
    <3>2. context.by = by BY <3>1 DEF Context
    <3> QED BY <3>2
  <2>2. ReadAuthorizerClaims(context) = {} /\ GateClaims(context) = {} BY <2>1 DEF ReadAuthorizerClaims, GateClaims
  <2>3. fallback = {} BY <1>3 DEF Buildable
  <2> QED BY <2>2, <2>3 DEF AuthorizerClaims, IdentityClaims
<1>4. \A said : Context("jwt", said).by = "jwt" /\ Context("jwt", said) = Context("jwt", Context("jwt", said).claims)
  BY DEF Context
<1> QED BY <1>1, <1>2, <1>3, <1>4 DEF RoutesKnowTheCaller

\* Through a rotation, whatever environments are replaced and whichever reads of a key
\* fail: a token that has not expired verifies wherever its own key could be read, it is
\* taken only for what it was issued for, and a route learns whose session it is and
\* what the user row says of the address (service.py, verifier.py, said.py).
THEOREM TrustedKeys == SigningSpec => []KeysAreTrusted
<1>1. KeysInvariant => KeysAreTrusted
  BY SoundKeysVerify, SoundTokensKeepTheirPurpose, SoundRoutesKnowTheCaller DEF KeysAreTrusted
<1> QED BY KeysStart, KeysKeep, <1>1, PTL DEF SigningSpec

-----------------------------------------------------------------------------
(* Webhooks sent.                                                          *)

DeliveryRecord == [at : {"idle", "attempt", "finished"}, attempt : 0 .. PolicyAttempts, signedAt : Nat, delivered : BOOLEAN]

Statuses == {responses[i] : i \in DOMAIN responses}

\* How far the clock has gone when an attempt is about to be made, with "longest" for
\* every pause; the last of the pauses is still to come.
Elapsed(longest) ==
    /\ delivery.signedAt <= sendNow
    /\ IF delivery.attempt = 1 THEN sendNow = delivery.signedAt
       ELSE (sendNow - delivery.signedAt) + longest <= (delivery.attempt - 1) * (longest + SendTimeout)

\* Until it is finished nothing was told to the hook, and every status was one that
\* is tried again.
DispatchInvariant(longest) ==
    /\ sendNow \in Nat /\ skew \in ClockSkews /\ accepted \in Nat
    /\ responses \in Seq(Nat)
    /\ delivery \in DeliveryRecord
    /\ 400 \notin Statuses
    /\ delivery.at = "idle" => responses = <<>> /\ accepted = 0
    /\ delivery.at = "attempt" => delivery.attempt >= 1 /\ Elapsed(longest)
    /\ delivery.at # "finished" => deadLetters = <<>>
    /\ accepted > 0 /\ ~delivery.delivered => 0 \in Statuses
    /\ delivery.delivered => accepted > 0 /\ delivery.at = "finished"
    /\ delivery.at = "finished" => deadLetters = IF delivery.delivered THEN <<>> ELSE <<responses>>

\* One more attempt is one more pause and one more timeout.
LEMMA OneMoreRetry ==
    ASSUME NEW a \in Nat, NEW b \in Nat, NEW d \in Nat, a <= b
    PROVE  a * d \in Nat /\ b * d \in Nat /\ a * d <= b * d /\ (a + 1) * d = a * d + d
<1>1. PICK c \in Nat : b = a + c
  <2>1. b - a \in Nat /\ b = a + (b - a) OBVIOUS
  <2> QED BY <2>1
<1>2. c * d \in Nat /\ a * d \in Nat OBVIOUS
<1>3. (a + c) * d = a * d + c * d OBVIOUS
<1> QED BY <1>1, <1>2, <1>3

\* What arrives so long after it was signed, by a clock so far from the signer's, is
\* within the window.
LEMMA FreshOnArrival ==
    ASSUME NEW signed \in Nat, NEW sent \in Nat, NEW wait \in Nat, NEW offset \in Int, NEW window \in Nat, NEW bound \in Nat,
           signed <= sent, (sent - signed) + wait <= bound, 0 - window <= offset, bound + offset <= window
    PROVE  (sent + wait + offset) - signed \in (0 - window) .. window
<1>1. PICK gone \in Nat : sent = signed + gone
  <2>1. sent - signed \in Nat /\ sent = signed + (sent - signed) OBVIOUS
  <2> QED BY <2>1
<1>2. gone + wait <= bound BY <1>1
<1>3. PICK late \in Int : late = gone + wait + offset BY <1>1
<1>4. (sent + wait + offset) - signed = late BY <1>1, <1>3
<1>5. 0 - window <= late /\ late <= window BY <1>1, <1>2, <1>3
<1> QED BY <1>3, <1>4, <1>5

\* Later by a pause and a timeout, and never before it was signed.
LEMMA LaterByAnAttempt ==
    ASSUME NEW signed \in Nat, NEW sent \in Nat, NEW wait \in Nat, NEW took \in Nat, NEW most \in Nat, NEW timeout \in Nat,
           signed <= sent, wait <= most, took <= timeout
    PROVE  /\ sent + wait + took \in Nat /\ signed <= sent + wait + took
           /\ \A due \in Nat : (sent - signed) + most <= due =>
                ((sent + wait + took) - signed) + most <= due + (most + timeout)
           /\ sent = signed /\ wait = 0 => ((sent + wait + took) - signed) + most <= most + timeout
  OBVIOUS

\* A retry arrives while the signature is fresh at the endpoint.
LEMMA RetryIsFresh ==
    ASSUME PolicyFitsTheWindow, NEW longest \in Nat,
           NEW pause \in 0 .. longest, pause = 0 \/ delivery.attempt # 1,
           \A s \in ClockSkews : /\ s \in Int /\ 0 - ReplayWindow <= s
                                 /\ (PolicyAttempts - 1) * (longest + SendTimeout) + s <= ReplayWindow,
           DispatchInvariant(longest), delivery.at = "attempt"
    PROVE  WithinReplayWindow(delivery.signedAt, sendNow + pause + skew)
<1> DEFINE most == (PolicyAttempts - 1) * (longest + SendTimeout)
           due == (delivery.attempt - 1) * (longest + SendTimeout)
           gone == sendNow - delivery.signedAt
<1>1. /\ delivery.attempt \in Nat /\ delivery.attempt - 1 \in Nat /\ PolicyAttempts \in Nat /\ PolicyAttempts - 1 \in Nat
      /\ delivery.attempt <= PolicyAttempts
      /\ longest + SendTimeout \in Nat /\ ReplayWindow \in Nat
  BY DEF DispatchInvariant, PolicyFitsTheWindow, DeliveryRecord
<1>2. due \in Nat /\ most \in Nat /\ due <= most
  <2> DEFINE a == delivery.attempt - 1
             b == PolicyAttempts - 1
             d == longest + SendTimeout
  <2>1. a \in Nat /\ b \in Nat /\ d \in Nat /\ a <= b BY <1>1
  <2> HIDE DEF a, b, d
  <2>2. a * d \in Nat /\ b * d \in Nat /\ a * d <= b * d BY <2>1, OneMoreRetry
  <2> QED BY <2>2 DEF a, b, d
<1>3. /\ gone \in Nat /\ sendNow \in Nat /\ delivery.signedAt \in Nat
      /\ IF delivery.attempt = 1 THEN gone = 0 ELSE gone + longest <= due
  <2>1. sendNow \in Nat /\ delivery.signedAt \in Nat /\ Elapsed(longest) BY DEF DispatchInvariant, DeliveryRecord
  <2>2. IF delivery.attempt = 1 THEN sendNow = delivery.signedAt ELSE gone + longest <= due BY <2>1 DEF Elapsed
  <2> HIDE DEF due, most
  <2>3. delivery.signedAt <= sendNow BY <2>1 DEF Elapsed
  <2>4. gone \in Nat /\ (sendNow = delivery.signedAt => gone = 0) BY <2>1, <2>3
  <2> QED BY <2>1, <2>2, <2>4
<1>4. gone + pause <= due \/ gone + pause = 0 BY <1>2, <1>3
<1>5. skew \in Int /\ 0 - ReplayWindow <= skew /\ most + skew <= ReplayWindow BY DEF DispatchInvariant
<1>6. pause \in Nat /\ delivery.signedAt <= sendNow
  <2>1. Elapsed(longest) BY DEF DispatchInvariant
  <2> QED BY <2>1 DEF Elapsed
<1> HIDE DEF most, due
<1>7. gone + pause <= most BY <1>2, <1>3, <1>4, <1>6
<1>8. ReplayWindow \in Nat BY <1>1
<1> HIDE DEF gone
<1>9. (sendNow + pause + skew) - delivery.signedAt \in (0 - ReplayWindow) .. ReplayWindow
  BY <1>2, <1>3, <1>5, <1>6, <1>7, <1>8, FreshOnArrival DEF gone
<1>10. WithinReplayWindow(delivery.signedAt, sendNow + pause + skew)
       <=> (sendNow + pause + skew) - delivery.signedAt \in (0 - ReplayWindow) .. ReplayWindow
  BY Zenon DEF WithinReplayWindow
<1> QED BY <1>9, <1>10, Zenon

LEMMA AttemptKeeps ==
    ASSUME PolicyFitsTheWindow, NEW longest \in Nat,
           \A attempt \in 1 .. PolicyAttempts : DelayBefore(attempt) \subseteq 0 .. longest,
           \A s \in ClockSkews : /\ s \in Int /\ 0 - ReplayWindow <= s
                                 /\ (PolicyAttempts - 1) * (longest + SendTimeout) + s <= ReplayWindow,
           DispatchInvariant(longest),
           NEW pause \in DelayBefore(delivery.attempt), NEW taken \in {0, SendTimeout}, NEW reply \in Reply(sendNow + pause),
           Attempt(pause, taken, reply)
    PROVE  DispatchInvariant(longest)'
<1> DEFINE a == delivery.attempt
<1>1. /\ delivery.at = "attempt" /\ a \in 1 .. PolicyAttempts /\ SendTimeout \in Nat /\ taken \in Nat /\ taken <= SendTimeout
      /\ sendNow \in Nat /\ delivery.signedAt \in Nat /\ delivery.signedAt <= sendNow /\ PolicyAttempts \in Nat
      /\ responses \in Seq(Nat) /\ accepted \in Nat /\ deadLetters = <<>> /\ ~delivery.delivered
  <2>1. delivery.at = "attempt" /\ delivery \in DeliveryRecord BY DEF Attempt, DispatchInvariant
  <2>2. PolicyAttempts \in Nat /\ SendTimeout \in Nat /\ taken \in Nat /\ taken <= SendTimeout BY DEF PolicyFitsTheWindow
  <2>3. a \in 1 .. PolicyAttempts /\ delivery.signedAt \in Nat /\ delivery.delivered \in BOOLEAN
    BY <2>1, <2>2 DEF DispatchInvariant, DeliveryRecord
  <2>4. sendNow \in Nat /\ delivery.signedAt <= sendNow BY <2>1 DEF DispatchInvariant, Elapsed
  <2>5. responses \in Seq(Nat) /\ accepted \in Nat /\ deadLetters = <<>> /\ ~delivery.delivered
    BY <2>1, <2>3 DEF DispatchInvariant
  <2> QED BY <2>1, <2>2, <2>3, <2>4, <2>5
<1>2. pause \in 0 .. longest /\ (a = 1 => pause = 0)
  <2>1. pause \in 0 .. longest BY <1>1
  <2>2. a = 1 => pause = 0 BY DEF DelayBefore
  <2> QED BY <2>1, <2>2
<1>3. WithinReplayWindow(delivery.signedAt, sendNow + pause + skew) BY <1>1, <1>2, RetryIsFresh
<1>4. /\ reply.status \in Nat /\ reply.status # 400 /\ reply.acts \in BOOLEAN
      /\ Delivered(reply.status) => reply.acts
      /\ reply.acts => reply.status \in {0, 204}
  <2>1. \/ \E n \in {401, 0, 503, 404} : reply = [status |-> n, acts |-> FALSE]
        \/ \E n \in {204, 0} : reply = [status |-> n, acts |-> TRUE]
    <3>1. CASE ~VerifyHmacSignature(SignatureOf(delivery.signedAt), delivery.signedAt) BY <3>1 DEF Reply
    <3>2. CASE VerifyHmacSignature(SignatureOf(delivery.signedAt), delivery.signedAt)
      <4>1. reply \in {[status |-> 204, acts |-> TRUE], [status |-> 0, acts |-> TRUE],
                      [status |-> 0, acts |-> FALSE], [status |-> 503, acts |-> FALSE], [status |-> 404, acts |-> FALSE]}
        BY <1>3, <3>2 DEF Reply
      <4> QED BY <4>1
    <3> QED BY <3>1, <3>2
  <2>2. CASE \E n \in {401, 0, 503, 404} : reply = [status |-> n, acts |-> FALSE]
    <3>1. PICK n \in {401, 0, 503, 404} : reply = [status |-> n, acts |-> FALSE] BY <2>2
    <3>2. reply.status = n /\ reply.acts = FALSE BY <3>1
    <3>3. n \in Nat /\ n # 400 /\ ~Delivered(n) BY DEF Delivered
    <3>4. reply.status \in Nat /\ reply.status # 400 /\ ~Delivered(reply.status) BY <3>2, <3>3
    <3> QED BY <3>2, <3>4, Zenon
  <2>3. CASE \E n \in {204, 0} : reply = [status |-> n, acts |-> TRUE]
    <3>1. PICK n \in {204, 0} : reply = [status |-> n, acts |-> TRUE] BY <2>3
    <3>2. reply.status = n /\ reply.acts = TRUE BY <3>1
    <3>3. reply.status \in Nat /\ reply.status # 400 /\ reply.status \in {0, 204} BY <3>2
    <3> QED BY <3>2, <3>3, Zenon
  <2> QED BY <2>1, <2>2, <2>3
<1>5. responses' = Append(responses, reply.status) /\ responses' \in Seq(Nat) BY <1>1, <1>4 DEF Attempt
<1>6. Statuses' = Statuses \cup {reply.status}
  <2>1. DOMAIN responses' = 1 .. (Len(responses) + 1) /\ DOMAIN responses = 1 .. Len(responses) /\ Len(responses) \in Nat
    BY <1>1, <1>4, <1>5
  <2>2. /\ \A i \in 1 .. Len(responses) : responses'[i] = responses[i]
        /\ responses'[Len(responses) + 1] = reply.status
    BY <1>1, <1>4, <1>5
  <2> QED BY <2>1, <2>2 DEF Statuses
<1>7. 400 \notin Statuses' /\ (0 \in Statuses => 0 \in Statuses') BY <1>4, <1>6 DEF DispatchInvariant
<1>8. sendNow' = sendNow + pause + taken /\ skew' = skew /\ sendNow' \in Nat /\ delivery.signedAt <= sendNow'
  <2>1. sendNow' = sendNow + pause + taken /\ skew' = skew BY DEF Attempt
  <2>2. sendNow + pause + taken \in Nat /\ delivery.signedAt <= sendNow + pause + taken
    BY <1>1, <1>2, LaterByAnAttempt
  <2> QED BY <2>1, <2>2
<1>9. /\ accepted' = accepted + (IF reply.acts THEN 1 ELSE 0) /\ accepted' \in Nat
      /\ accepted' > 0 => accepted > 0 \/ reply.acts
      /\ reply.acts => accepted' > 0
  <2>1. accepted' = accepted + (IF reply.acts THEN 1 ELSE 0) BY DEF Attempt
  <2>2. accepted \in Nat /\ reply.acts \in BOOLEAN BY <1>1, <1>4
  <2>3. CASE reply.acts
    <3>1. accepted' = accepted + 1 BY <2>1, <2>3
    <3> QED BY <2>1, <2>2, <2>3, <3>1
  <2>4. CASE ~reply.acts
    <3>1. accepted' = accepted BY <2>1, <2>2, <2>4
    <3> QED BY <2>1, <2>2, <2>4, <3>1
  <2> QED BY <2>3, <2>4
<1>10. skew \in ClockSkews /\ (accepted > 0 => 0 \in Statuses) BY <1>1 DEF DispatchInvariant
<1>11. ASSUME NEW delivered \in BOOLEAN, Finish(delivered, responses'), delivered => Delivered(reply.status),
              ~delivered => ~Delivered(reply.status)
       PROVE  DispatchInvariant(longest)'
  <2>1. /\ delivery'.at = "finished" /\ delivery'.delivered = delivered
        /\ delivery' \in DeliveryRecord
    BY <1>11 DEF Finish, DispatchInvariant, DeliveryRecord
  <2>2. deadLetters' = IF delivered THEN <<>> ELSE <<responses'>> BY <1>1, <1>11 DEF Finish
  <2>3. accepted' > 0 /\ ~delivered => 0 \in Statuses'
    <3>1. ~delivered /\ reply.acts => reply.status = 0 BY <1>4, <1>11 DEF Delivered
    <3> QED BY <1>6, <1>7, <1>9, <1>10, <3>1
  <2> QED BY <1>4, <1>5, <1>7, <1>8, <1>9, <1>10, <1>11, <2>1, <2>2, <2>3 DEF DispatchInvariant
<1>12. ASSUME ~Hopeless(reply.status), a < PolicyAttempts, delivery' = [delivery EXCEPT !.attempt = @ + 1], UNCHANGED deadLetters
       PROVE  DispatchInvariant(longest)'
  <2>1. /\ delivery'.at = "attempt" /\ delivery'.attempt = a + 1 /\ delivery'.signedAt = delivery.signedAt /\ ~delivery'.delivered
        /\ delivery' \in DeliveryRecord
    <3> DEFINE d == delivery
               moved == [d EXCEPT !.attempt = @ + 1]
    <3>0. a < PolicyAttempts BY <1>12
    <3>1. d \in DeliveryRecord /\ d.attempt + 1 \in 0 .. PolicyAttempts /\ d.at = "attempt"
      <4>1. a + 1 \in 0 .. PolicyAttempts BY <1>1, <3>0
      <4>2. delivery \in DeliveryRecord BY DEF DispatchInvariant
      <4> QED BY <1>1, <4>1, <4>2
    <3>2. delivery' = moved BY <1>12
    <3>3. moved.attempt = d.attempt + 1 BY <3>1 DEF DeliveryRecord
    <3>4. moved \in DeliveryRecord /\ moved.at = "attempt" /\ moved.signedAt = d.signedAt /\ moved.delivered = d.delivered
      BY <3>1 DEF DeliveryRecord
    <3> QED BY <1>1, <3>2, <3>3, <3>4
  <2>2. a * (longest + SendTimeout) = (a - 1) * (longest + SendTimeout) + (longest + SendTimeout)
        /\ (a - 1) * (longest + SendTimeout) \in Nat
    <3> DEFINE b == a - 1
               d == longest + SendTimeout
    <3>1. b \in Nat /\ d \in Nat /\ a = b + 1 BY <1>1
    <3> HIDE DEF b, d
    <3>2. (b + 1) * d = b * d + d /\ b * d \in Nat BY <3>1, OneMoreRetry
    <3> QED BY <3>1, <3>2 DEF b, d
  <2>3. IF a = 1 THEN sendNow = delivery.signedAt
        ELSE (sendNow - delivery.signedAt) + longest <= (a - 1) * (longest + SendTimeout)
    BY <1>1 DEF DispatchInvariant, Elapsed
  <2>4. (sendNow' - delivery.signedAt) + longest <= a * (longest + SendTimeout)
    <3> DEFINE m == (a - 1) * (longest + SendTimeout)
               n == a * (longest + SendTimeout)
    <3>1. m \in Nat /\ n = m + (longest + SendTimeout) BY <2>2
    <3>2. a = 1 => m = 0 BY <1>1
    <3>3. IF a = 1 THEN sendNow = delivery.signedAt ELSE (sendNow - delivery.signedAt) + longest <= m BY <2>3
    <3> HIDE DEF m, n
    <3>4. sendNow' = sendNow + pause + taken /\ pause \in Nat /\ pause <= longest BY <1>2, <1>8
    <3>5. ASSUME a = 1 PROVE (sendNow' - delivery.signedAt) + longest <= n
      <4>1. sendNow = delivery.signedAt /\ pause = 0 /\ n = longest + SendTimeout BY <1>1, <1>2, <3>1, <3>2, <3>3, <3>5
      <4> QED BY <1>1, <3>4, <4>1, LaterByAnAttempt
    <3>6. ASSUME a # 1 PROVE (sendNow' - delivery.signedAt) + longest <= n
      <4>1. (sendNow - delivery.signedAt) + longest <= m BY <3>3, <3>6
      <4> QED BY <1>1, <3>1, <3>4, <4>1, LaterByAnAttempt
    <3>7. (sendNow' - delivery.signedAt) + longest <= n BY <3>5, <3>6
    <3> QED BY <3>7 DEF n
  <2>5. Elapsed(longest)'
    <3>1. delivery'.attempt # 1 /\ delivery'.attempt - 1 = a BY <1>1, <2>1
    <3> QED BY <1>8, <2>1, <2>4, <3>1 DEF Elapsed
  <2>6. accepted' > 0 => 0 \in Statuses'
    <3>1. reply.acts => reply.status = 0 BY <1>4, <1>12 DEF Hopeless, Retryable
    <3> QED BY <1>6, <1>7, <1>9, <1>10, <3>1
  <2>7. delivery'.attempt >= 1 BY <1>1, <2>1
  <2> QED BY <1>1, <1>5, <1>7, <1>8, <1>9, <1>10, <1>12, <2>1, <2>5, <2>6, <2>7 DEF DispatchInvariant
<1>13. \/ Delivered(reply.status) /\ Finish(TRUE, responses')
       \/ ~Delivered(reply.status) /\ Finish(FALSE, responses')
       \/ ~Hopeless(reply.status) /\ a < PolicyAttempts /\ delivery' = [delivery EXCEPT !.attempt = @ + 1] /\ UNCHANGED deadLetters
  <2>1. ~Hopeless(reply.status) => ~Delivered(reply.status) BY <1>4 DEF Hopeless, Retryable, Delivered
  <2> QED BY <1>5, <2>1 DEF Attempt
<1> QED BY <1>11, <1>12, <1>13

LEMMA DispatchKeeps ==
    ASSUME PolicyFitsTheWindow, NEW longest \in Nat,
           \A attempt \in 1 .. PolicyAttempts : DelayBefore(attempt) \subseteq 0 .. longest,
           \A s \in ClockSkews : /\ s \in Int /\ 0 - ReplayWindow <= s
                                 /\ (PolicyAttempts - 1) * (longest + SendTimeout) + s <= ReplayWindow
    PROVE  /\ DispatchInit => DispatchInvariant(longest)
           /\ DispatchInvariant(longest) /\ [DispatchNext]_sendVars => DispatchInvariant(longest)'
<1>1. ASSUME DispatchInit PROVE DispatchInvariant(longest)
  <2>1. responses \in Seq(Nat) /\ Statuses = {} BY <1>1 DEF DispatchInit, Statuses
  <2> QED BY <1>1, <2>1 DEF DispatchInit, DispatchInvariant, PolicyFitsTheWindow, DeliveryRecord
<1>2. ASSUME DispatchInvariant(longest), Sign PROVE DispatchInvariant(longest)'
  <2>1. /\ delivery'.at = "attempt" /\ delivery'.attempt = 1 /\ delivery'.signedAt = sendNow /\ delivery'.delivered = delivery.delivered
        /\ delivery' \in DeliveryRecord
    <3> DEFINE d == delivery
               moved == [d EXCEPT !.at = "attempt", !.attempt = 1, !.signedAt = sendNow]
    <3>1. d \in DeliveryRecord /\ 1 \in 0 .. PolicyAttempts /\ sendNow \in Nat BY <1>2 DEF DispatchInvariant, PolicyFitsTheWindow
    <3>2. delivery' = moved BY <1>2 DEF Sign
    <3>3. moved.at = "attempt" /\ moved.attempt = 1 /\ moved.signedAt = sendNow /\ moved.delivered = d.delivered
      BY <3>1 DEF DeliveryRecord
    <3>4. moved \in DeliveryRecord BY <3>1 DEF DeliveryRecord
    <3> QED BY <3>2, <3>3, <3>4
  <2>2. Statuses' = Statuses BY <1>2 DEF Sign, Statuses
  <2>3. Elapsed(longest)' BY <1>2, <2>1 DEF Elapsed, Sign, DispatchInvariant
  <2> QED BY <1>2, <2>1, <2>2, <2>3 DEF Sign, DispatchInvariant
<1>3. ASSUME DispatchInvariant(longest), UNCHANGED sendVars PROVE DispatchInvariant(longest)'
  BY <1>3 DEF sendVars, DispatchInvariant, Statuses, Elapsed
<1> QED BY <1>1, <1>2, <1>3, AttemptKeeps DEF DispatchNext

\* The dispatcher's own reports, for every policy that fits the window.
LEMMA SoundDispatch == DispatchSpec => []OutcomesAreTrue
<1>1. PICK longest \in Nat :
        /\ \A attempt \in 1 .. PolicyAttempts : DelayBefore(attempt) \subseteq 0 .. longest
        /\ \A s \in ClockSkews : /\ s \in Int /\ 0 - ReplayWindow <= s
                                 /\ (PolicyAttempts - 1) * (longest + SendTimeout) + s <= ReplayWindow
  BY PolicyFitsTheWindow DEF PolicyFitsTheWindow
<1>2. /\ DispatchInit => DispatchInvariant(longest)
      /\ DispatchInvariant(longest) /\ [DispatchNext]_sendVars => DispatchInvariant(longest)'
  BY <1>1, PolicyFitsTheWindow, DispatchKeeps
<1>3. DispatchInvariant(longest) => OutcomesAreTrue
  BY DEF DispatchInvariant, OutcomesAreTrue, DeadLettersAreTrue, RetriesStayFresh, Statuses
<1> QED BY <1>2, <1>3, PTL DEF DispatchSpec

-----------------------------------------------------------------------------
(* The session a suite's callers share.                                    *)

ThreadRecord == [at : {"idle", "named", "sent", "wants to name", "wants to send", "wants to retry", "wants to refresh"},
                 named : Nat, sent : Nat, retrying : BOOLEAN]
TallyRecord == [lost : Nat, bodiless : Nat, asked : Nat, turned : Nat, rotations : Nat]
SessionTypeOK ==
    /\ session \in [token : Nat, material : Nat]
    /\ sessionLock \in Threads \cup {NoThread}
    /\ family \in [generation : Nat, revoked : BOOLEAN]
    /\ tokens \in [minted : Nat, near : Nat, expired : Nat]
    /\ thread \in [Threads -> ThreadRecord]
    /\ tally \in TallyRecord

\* A credential named is not newer than the one sent, so one that ran out had come
\* near its end; and the thread under the lock still needs what it took the lock for.
ThreadSound(t) ==
    LET r == thread[t] IN
    /\ r.named <= session.token /\ r.sent <= session.token
    /\ r.at = "sent" /\ ~r.retrying => r.named <= r.sent
    /\ sessionLock = t =>
         /\ r.at \in {"wants to name", "wants to send", "wants to retry", "wants to refresh"}
         /\ r.at \in {"wants to name", "wants to send"} => session.token <= tokens.near
         /\ r.at = "wants to retry" => r.named = session.token

AskedToRefresh == {t \in Threads : thread[t].at = "wants to refresh"}
RefusedLive == {t \in Threads : thread[t].at = "wants to retry" /\ ~(thread[t].named <= tokens.near)}
Some(S) == IF S = {} THEN 0 ELSE 1

\* Every token minted after the first followed one that had come near its end, but for
\* the one a case asked for and the one for a refusal of a live token; each is either
\* still wanted or minted.
Wanted ==
    /\ tally.asked \in {0, 1} /\ tally.turned \in {0, 1}
    /\ \A t, u \in AskedToRefresh : t = u
    /\ \A t, u \in RefusedLive : t = u
    /\ AskedToRefresh # {} => tally.asked = 1
    /\ RefusedLive # {} => tally.turned = 1
    /\ tokens.minted + Some(AskedToRefresh) + Some(RefusedLive) <= tokens.near + 1 + tally.asked + tally.turned

SessionInvariant ==
    /\ SessionTypeOK
    /\ tokens.expired <= tokens.near /\ tokens.near <= tokens.minted
    /\ session.token = tokens.minted /\ tokens.minted >= 1
    /\ tally.lost = 0 => session.material = family.generation /\ ~family.revoked
    /\ tally.rotations + 1 = tokens.minted + tally.bodiless + tally.lost
    /\ Wanted
    /\ \A t \in Threads : ThreadSound(t)

LEMMA NoLater == \A a, b, c \in Nat : a <= b /\ b <= c => a <= c
  OBVIOUS

LEMMA ItsOwn == \A a \in Nat : a <= a /\ 0 <= a
  OBVIOUS

\* No refresh comes to be wanted.
LEMMA WantedLess ==
    ASSUME SessionInvariant, AskedToRefresh' \subseteq AskedToRefresh, RefusedLive' \subseteq RefusedLive,
           tally'.asked = tally.asked, tally'.turned = tally.turned, tokens'.minted = tokens.minted,
           tokens'.near \in Nat, tokens.near <= tokens'.near
    PROVE  Wanted'
<1>1. /\ tokens.minted \in Nat /\ tokens.near \in Nat /\ tally.asked \in Nat /\ tally.turned \in Nat
      /\ Wanted
  BY DEF SessionInvariant, SessionTypeOK, TallyRecord
<1>2. PICK a \in {0, 1}, b \in {0, 1}, c \in {0, 1}, d \in {0, 1} :
        /\ a = Some(AskedToRefresh) /\ b = Some(RefusedLive) /\ c = Some(AskedToRefresh') /\ d = Some(RefusedLive')
  BY DEF Some
<1>3. c <= a /\ d <= b BY <1>2 DEF Some
<1>4. tokens.minted + a + b <= tokens.near + 1 + tally.asked + tally.turned BY <1>1, <1>2 DEF Wanted
<1>5. tokens.minted + c + d <= tokens'.near + 1 + tally.asked + tally.turned BY <1>1, <1>2, <1>3, <1>4
<1>6. tokens'.minted + Some(AskedToRefresh)' + Some(RefusedLive)' <= tokens'.near + 1 + tally'.asked + tally'.turned
  BY <1>2, <1>5 DEF Some
<1> QED BY <1>1, <1>6 DEF Wanted

\* What a caller does leaves the others as sound as they were.
LEMMA OthersStaySound ==
    ASSUME SessionInvariant, NEW t \in Threads, NEW x, thread' = [thread EXCEPT ![t] = x], ThreadSound(t)',
           session'.token \in Nat, tokens'.near \in Nat, session.token <= session'.token, tokens.near <= tokens'.near,
           \A u \in Threads : u # t /\ sessionLock' = u => sessionLock = u /\ session' = session
    PROVE  \A u \in Threads : ThreadSound(u)'
<1> SUFFICES ASSUME NEW u \in Threads, u # t PROVE ThreadSound(u)' OBVIOUS
<1> DEFINE r == thread[u]
<1>1. thread[u]' = r BY DEF SessionInvariant, SessionTypeOK
<1>2. /\ session.token \in Nat /\ tokens.near \in Nat
      /\ r.named \in Nat /\ r.sent \in Nat
  BY DEF SessionInvariant, SessionTypeOK, ThreadRecord
<1>3. ThreadSound(u) BY DEF SessionInvariant
<1>4. r.named <= session'.token /\ r.sent <= session'.token
  <2>1. r.named <= session.token /\ r.sent <= session.token BY <1>3 DEF ThreadSound
  <2> QED BY <1>2, <2>1, NoLater
<1>5. sessionLock' = u =>
         /\ r.at \in {"wants to name", "wants to send", "wants to retry", "wants to refresh"}
         /\ r.at \in {"wants to name", "wants to send"} => session'.token <= tokens'.near
         /\ r.at = "wants to retry" => r.named = session'.token
  <2> SUFFICES ASSUME sessionLock' = u
               PROVE  /\ r.at \in {"wants to name", "wants to send", "wants to retry", "wants to refresh"}
                      /\ r.at \in {"wants to name", "wants to send"} => session'.token <= tokens'.near
                      /\ r.at = "wants to retry" => r.named = session'.token
    OBVIOUS
  <2>1. sessionLock = u /\ session' = session OBVIOUS
  <2>2. /\ r.at \in {"wants to name", "wants to send", "wants to retry", "wants to refresh"}
        /\ r.at \in {"wants to name", "wants to send"} => session.token <= tokens.near
        /\ r.at = "wants to retry" => r.named = session.token
    BY <1>3, <2>1 DEF ThreadSound
  <2> QED BY <1>2, <2>1, <2>2, NoLater
<1> QED BY <1>1, <1>3, <1>4, <1>5 DEF ThreadSound

\* A caller without the lock moves on, and does not come to want a refresh.
LEMMA CallerMoves ==
    ASSUME SessionInvariant, NEW t \in Threads, NEW x \in ThreadRecord, thread' = [thread EXCEPT ![t] = x],
           UNCHANGED <<session, sessionLock, family, tokens, tally>>, sessionLock # t, x.at # "wants to refresh",
           x.named <= session.token, x.sent <= session.token,
           x.at = "sent" /\ ~x.retrying => x.named <= x.sent,
           x.at = "wants to retry" => x.named <= tokens.near
    PROVE  SessionInvariant'
<1>1. thread'[t] = x /\ thread' \in [Threads -> ThreadRecord] BY DEF SessionInvariant, SessionTypeOK
<1>2. ThreadSound(t)' BY <1>1 DEF ThreadSound
<1>3. session.token \in Nat /\ tokens.near \in Nat BY DEF SessionInvariant, SessionTypeOK
<1>4. \A u \in Threads : ThreadSound(u)' BY <1>2, <1>3, ItsOwn, OthersStaySound
<1>5. AskedToRefresh' \subseteq AskedToRefresh BY <1>1 DEF AskedToRefresh, SessionInvariant, SessionTypeOK
<1>6. RefusedLive' \subseteq RefusedLive BY <1>1 DEF RefusedLive, SessionInvariant, SessionTypeOK
<1>7. Wanted' BY <1>3, <1>5, <1>6, ItsOwn, WantedLess
<1>8. SessionTypeOK' BY <1>1 DEF SessionInvariant, SessionTypeOK
<1> QED BY <1>4, <1>7, <1>8 DEF SessionInvariant

\* The lock is held only by a caller that wants a refresh.
LEMMA LockIsWanted ==
    ASSUME SessionInvariant, NEW t \in Threads, thread[t].at \in {"idle", "named", "sent"}
    PROVE  sessionLock # t
  BY DEF SessionInvariant, ThreadSound

LEMMA ThreadTyped ==
    ASSUME SessionInvariant, NEW t \in Threads, NEW r, r = thread[t]
    PROVE  /\ r \in ThreadRecord /\ r.named \in Nat /\ r.sent \in Nat /\ r.retrying \in BOOLEAN
           /\ r.named <= session.token /\ r.sent <= session.token
           /\ session.token \in Nat /\ tokens.near \in Nat /\ tokens.minted \in Nat /\ tokens.expired \in Nat
           /\ IdleThread \in ThreadRecord
  BY DEF SessionInvariant, SessionTypeOK, ThreadSound, ThreadRecord, IdleThread

LEMMA AskBearerKeeps ==
    ASSUME SessionInvariant, NEW t \in Threads, AskBearer(t)
    PROVE  SessionInvariant'
<1>1. PICK r : r = thread[t] OBVIOUS
<1>2. /\ r \in ThreadRecord /\ r.named <= session.token /\ r.sent <= session.token
      /\ session.token \in Nat /\ r.named \in Nat /\ r.sent \in Nat
  BY <1>1, ThreadTyped
<1>3. r.at \in {"idle", "named"} BY <1>1 DEF AskBearer, Moves
<1>4. sessionLock # t BY <1>1, <1>3, LockIsWanted
<1>5. ASSUME NEW at \in {"wants to name", "wants to send"}, thread' = [thread EXCEPT ![t] = [r EXCEPT !.at = at]]
      PROVE  SessionInvariant'
  <2> DEFINE x == [r EXCEPT !.at = at]
  <2>1. x \in ThreadRecord /\ x.at = at /\ x.named = r.named /\ x.sent = r.sent BY <1>2 DEF ThreadRecord
  <2>2. UNCHANGED <<session, sessionLock, family, tokens, tally>> BY DEF AskBearer
  <2> HIDE DEF x
  <2> QED BY <1>2, <1>4, <1>5, <2>1, <2>2, CallerMoves DEF x
<1>6. ASSUME thread' = [thread EXCEPT ![t] = [r EXCEPT !.at = "named", !.named = session.token]]
      PROVE  SessionInvariant'
  <2> DEFINE x == [r EXCEPT !.at = "named", !.named = session.token]
  <2>1. x \in ThreadRecord /\ x.at = "named" /\ x.named = session.token /\ x.sent = r.sent BY <1>2 DEF ThreadRecord
  <2>2. UNCHANGED <<session, sessionLock, family, tokens, tally>> BY DEF AskBearer
  <2>3. x.named <= session.token /\ x.sent <= session.token BY <1>2, <2>1, ItsOwn
  <2> HIDE DEF x
  <2> QED BY <1>4, <1>6, <2>1, <2>2, <2>3, CallerMoves DEF x
<1>7. ASSUME thread' = [thread EXCEPT ![t] = [r EXCEPT !.at = "sent", !.sent = session.token]]
      PROVE  SessionInvariant'
  <2> DEFINE x == [r EXCEPT !.at = "sent", !.sent = session.token]
  <2>1. x \in ThreadRecord /\ x.at = "sent" /\ x.named = r.named /\ x.sent = session.token BY <1>2 DEF ThreadRecord
  <2>2. UNCHANGED <<session, sessionLock, family, tokens, tally>> BY DEF AskBearer
  <2>3. x.named <= session.token /\ x.sent <= session.token /\ x.named <= x.sent BY <1>2, <2>1, ItsOwn
  <2> HIDE DEF x
  <2> QED BY <1>4, <1>7, <2>1, <2>2, <2>3, CallerMoves DEF x
<1> QED BY <1>1, <1>5, <1>6, <1>7 DEF AskBearer, Moves, Named, BearerSent, At

LEMMA AnsweredKeeps ==
    ASSUME SessionInvariant, NEW t \in Threads, Answered(t)
    PROVE  SessionInvariant'
<1>1. PICK r : r = thread[t] OBVIOUS
<1>2. /\ r \in ThreadRecord /\ r.named <= session.token /\ r.sent <= session.token
      /\ session.token \in Nat /\ r.named \in Nat /\ r.sent \in Nat /\ IdleThread \in ThreadRecord
      /\ tokens.expired \in Nat /\ tokens.near \in Nat
  BY <1>1, ThreadTyped
<1>3. r.at = "sent" BY <1>1 DEF Answered, Moves
<1>4. sessionLock # t BY <1>1, <1>3, LockIsWanted
<1>5. UNCHANGED <<session, sessionLock, family, tokens, tally>> BY DEF Answered
<1>6. CASE thread' = [thread EXCEPT ![t] = IdleThread]
  <2>1. IdleThread.at = "idle" /\ IdleThread.named = 0 /\ IdleThread.sent = 0 BY DEF IdleThread
  <2>2. IdleThread.named <= session.token /\ IdleThread.sent <= session.token BY <1>2, <2>1, ItsOwn
  <2> QED BY <1>2, <1>4, <1>5, <1>6, <2>1, <2>2, CallerMoves
<1>7. CASE r.sent <= tokens.expired /\ ~r.retrying /\ thread' = [thread EXCEPT ![t] = [r EXCEPT !.at = "wants to retry"]]
  <2> DEFINE x == [r EXCEPT !.at = "wants to retry"]
  <2>1. x \in ThreadRecord /\ x.at = "wants to retry" /\ x.named = r.named /\ x.sent = r.sent BY <1>2 DEF ThreadRecord
  <2>2. r.named <= r.sent BY <1>1, <1>3, <1>7 DEF SessionInvariant, ThreadSound
  <2>3. tokens.expired <= tokens.near BY DEF SessionInvariant
  <2>4. r.named <= tokens.near
    <3>1. r.sent <= tokens.expired BY <1>7
    <3>2. r.named <= tokens.expired BY <1>2, <2>2, <3>1, NoLater
    <3> QED BY <1>2, <2>3, <3>2, NoLater
  <2> HIDE DEF x
  <2> QED BY <1>2, <1>4, <1>5, <1>7, <2>1, <2>4, CallerMoves DEF x
<1>8. r.sent > tokens.expired \/ r.retrying \/ (r.sent <= tokens.expired /\ ~r.retrying) BY <1>2
<1>9. \/ thread' = [thread EXCEPT ![t] = IdleThread]
      \/ ~(r.sent > tokens.expired) /\ ~r.retrying /\ thread' = [thread EXCEPT ![t] = [r EXCEPT !.at = "wants to retry"]]
  BY <1>1 DEF Answered, Moves, At
<1>10. ~(r.sent > tokens.expired) => r.sent <= tokens.expired BY <1>2
<1> QED BY <1>6, <1>7, <1>9, <1>10

LEMMA CaseRefreshesKeeps ==
    ASSUME SessionInvariant, NEW t \in Threads, CaseRefreshes(t)
    PROVE  SessionInvariant'
<1>1. PICK r : r = thread[t] OBVIOUS
<1>2. /\ r \in ThreadRecord /\ r.named <= session.token /\ r.sent <= session.token
      /\ session.token \in Nat /\ tokens.near \in Nat /\ tokens.minted \in Nat
  BY <1>1, ThreadTyped
<1>3. r.at = "idle" /\ tally.asked = 0 BY <1>1 DEF CaseRefreshes, Moves
<1>4. sessionLock # t BY <1>1, <1>3, LockIsWanted
<1>5. UNCHANGED <<session, sessionLock, family, tokens>> BY DEF CaseRefreshes
<1>6. PICK x : x = [r EXCEPT !.at = "wants to refresh"] OBVIOUS
<1>7. x \in ThreadRecord /\ x.at = "wants to refresh" /\ x.named = r.named /\ x.sent = r.sent BY <1>2, <1>6 DEF ThreadRecord
<1>8. thread' = [thread EXCEPT ![t] = x] BY <1>1, <1>6 DEF CaseRefreshes, Moves, At
<1>9. thread'[t] = x /\ thread' \in [Threads -> ThreadRecord] BY <1>7, <1>8 DEF SessionInvariant, SessionTypeOK
<1>10. ThreadSound(t)' BY <1>2, <1>4, <1>5, <1>7, <1>9 DEF ThreadSound
<1>11. \A u \in Threads : ThreadSound(u)' BY <1>2, <1>5, <1>8, <1>10, ItsOwn, OthersStaySound
<1>12. /\ tally'.asked = 1 /\ tally'.lost = tally.lost /\ tally'.bodiless = tally.bodiless /\ tally'.rotations = tally.rotations
       /\ tally'.turned = tally.turned /\ tally' \in TallyRecord
  BY DEF CaseRefreshes, SessionInvariant, SessionTypeOK, TallyRecord
<1>13. Wanted /\ AskedToRefresh = {} BY <1>3 DEF SessionInvariant, Wanted
<1>14. AskedToRefresh' = {t} BY <1>7, <1>8, <1>9, <1>13 DEF AskedToRefresh, SessionInvariant, SessionTypeOK
<1>15. RefusedLive' = RefusedLive BY <1>3, <1>5, <1>7, <1>8, <1>9, <1>1 DEF RefusedLive, SessionInvariant, SessionTypeOK
<1>16. Wanted'
  <2>1. PICK b \in {0, 1} : b = Some(RefusedLive) BY DEF Some
  <2>2. tokens.minted + 0 + b <= tokens.near + 1 + 0 + tally.turned BY <1>3, <1>13, <2>1 DEF Wanted, Some
  <2>3. tally.turned \in Nat BY DEF SessionInvariant, SessionTypeOK, TallyRecord
  <2>4. tokens.minted + 1 + b <= tokens.near + 1 + 1 + tally.turned BY <1>2, <2>1, <2>2, <2>3
  <2>5. Some(AskedToRefresh)' = 1 /\ Some(RefusedLive)' = b BY <1>14, <1>15, <2>1 DEF Some
  <2>6. tokens'.minted + Some(AskedToRefresh)' + Some(RefusedLive)' <= tokens'.near + 1 + tally'.asked + tally'.turned
    BY <1>5, <1>12, <2>4, <2>5
  <2> QED BY <1>12, <1>13, <1>14, <1>15, <2>6 DEF Wanted
<1>17. SessionTypeOK' BY <1>5, <1>9, <1>12 DEF SessionInvariant, SessionTypeOK
<1> QED BY <1>5, <1>11, <1>12, <1>16, <1>17 DEF SessionInvariant

LEMMA TurnedAwayKeeps ==
    ASSUME SessionInvariant, NEW t \in Threads, TurnedAway(t)
    PROVE  SessionInvariant'
<1>1. PICK r : r = thread[t] OBVIOUS
<1>2. /\ r \in ThreadRecord /\ r.named <= session.token /\ r.sent <= session.token
      /\ session.token \in Nat /\ tokens.near \in Nat /\ tokens.minted \in Nat
  BY <1>1, ThreadTyped
<1>3. r.at = "sent" /\ tally.turned = 0 BY <1>1 DEF TurnedAway, Moves
<1>4. sessionLock # t BY <1>1, <1>3, LockIsWanted
<1>5. UNCHANGED <<session, sessionLock, family, tokens>> BY DEF TurnedAway
<1>6. PICK x : x = [r EXCEPT !.at = "wants to retry"] OBVIOUS
<1>7. x \in ThreadRecord /\ x.at = "wants to retry" /\ x.named = r.named /\ x.sent = r.sent BY <1>2, <1>6 DEF ThreadRecord
<1>8. thread' = [thread EXCEPT ![t] = x] BY <1>1, <1>6 DEF TurnedAway, Moves, At
<1>9. thread'[t] = x /\ thread' \in [Threads -> ThreadRecord] BY <1>7, <1>8 DEF SessionInvariant, SessionTypeOK
<1>10. ThreadSound(t)' BY <1>2, <1>4, <1>5, <1>7, <1>9 DEF ThreadSound
<1>11. \A u \in Threads : ThreadSound(u)' BY <1>2, <1>5, <1>8, <1>10, ItsOwn, OthersStaySound
<1>12. /\ tally'.turned = 1 /\ tally'.lost = tally.lost /\ tally'.bodiless = tally.bodiless /\ tally'.rotations = tally.rotations
       /\ tally'.asked = tally.asked /\ tally' \in TallyRecord
  BY DEF TurnedAway, SessionInvariant, SessionTypeOK, TallyRecord
<1>13. Wanted /\ RefusedLive = {} BY <1>3 DEF SessionInvariant, Wanted
<1>14. RefusedLive' \subseteq {t} BY <1>5, <1>8, <1>13 DEF RefusedLive, SessionInvariant, SessionTypeOK
<1>15. AskedToRefresh' = AskedToRefresh BY <1>1, <1>3, <1>7, <1>8, <1>9 DEF AskedToRefresh, SessionInvariant, SessionTypeOK
<1>16. Wanted'
  <2>1. PICK a \in {0, 1}, b \in {0, 1} : a = Some(AskedToRefresh) /\ b = Some(RefusedLive') BY DEF Some
  <2>2. tokens.minted + a + 0 <= tokens.near + 1 + tally.asked + 0 BY <1>3, <1>13, <2>1 DEF Wanted, Some
  <2>3. tally.asked \in Nat BY DEF SessionInvariant, SessionTypeOK, TallyRecord
  <2>4. tokens.minted + a + b <= tokens.near + 1 + tally.asked + 1 BY <1>2, <2>1, <2>2, <2>3
  <2>5. Some(AskedToRefresh)' = a /\ Some(RefusedLive)' = b BY <1>15, <2>1 DEF Some
  <2>6. tokens'.minted + Some(AskedToRefresh)' + Some(RefusedLive)' <= tokens'.near + 1 + tally'.asked + tally'.turned
    BY <1>5, <1>12, <2>4, <2>5
  <2> QED BY <1>12, <1>13, <1>14, <1>15, <2>6 DEF Wanted
<1>17. SessionTypeOK' BY <1>5, <1>9, <1>12 DEF SessionInvariant, SessionTypeOK
<1> QED BY <1>5, <1>11, <1>12, <1>16, <1>17 DEF SessionInvariant

\* What a caller does once it has the credential.
LEMMA OnwardGoes ==
    ASSUME SessionInvariant, NEW t \in Threads, NEW n \in Nat, session.token <= n, NEW x, x = Onward(t, n)
    PROVE  /\ x \in ThreadRecord /\ x.at \in {"idle", "named", "sent"}
           /\ x.named <= n /\ x.sent <= n
           /\ x.at = "sent" /\ ~x.retrying => x.named <= x.sent
<1>1. PICK r : r = thread[t] OBVIOUS
<1>2. /\ r \in ThreadRecord /\ r.named <= session.token /\ r.sent <= session.token
      /\ session.token \in Nat /\ r.named \in Nat /\ r.sent \in Nat /\ IdleThread \in ThreadRecord
  BY <1>1, ThreadTyped
<1>3. r.named <= n /\ r.sent <= n BY <1>2, NoLater
<1>4. CASE r.at = "wants to name"
  <2>1. x = [r EXCEPT !.at = "named", !.named = n] BY <1>1, <1>4 DEF Onward
  <2>2. x \in ThreadRecord /\ x.at = "named" /\ x.named = n /\ x.sent = r.sent BY <1>2, <2>1 DEF ThreadRecord
  <2> QED BY <1>3, <2>2, ItsOwn
<1>5. CASE r.at = "wants to send"
  <2>1. x = [r EXCEPT !.at = "sent", !.sent = n] BY <1>1, <1>5 DEF Onward
  <2>2. x \in ThreadRecord /\ x.at = "sent" /\ x.named = r.named /\ x.sent = n BY <1>2, <2>1 DEF ThreadRecord
  <2> QED BY <1>3, <2>2, ItsOwn
<1>6. CASE r.at = "wants to retry"
  <2>1. x = [r EXCEPT !.at = "sent", !.sent = n, !.retrying = TRUE] BY <1>1, <1>6 DEF Onward
  <2>2. x \in ThreadRecord /\ x.at = "sent" /\ x.named = r.named /\ x.sent = n BY <1>2, <2>1 DEF ThreadRecord
  <2> QED BY <1>3, <2>2, ItsOwn
<1>7. CASE r.at \notin {"wants to name", "wants to send", "wants to retry"}
  <2>1. x = IdleThread BY <1>1, <1>7 DEF Onward
  <2>2. x.at = "idle" /\ x.named = 0 /\ x.sent = 0 BY <2>1 DEF IdleThread
  <2> QED BY <1>2, <2>1, <2>2, ItsOwn
<1> QED BY <1>4, <1>5, <1>6, <1>7

LEMMA TakeLockKeeps ==
    ASSUME SessionInvariant, NEW t \in Threads, TakeLock(t)
    PROVE  SessionInvariant'
<1>1. PICK r : r = thread[t] OBVIOUS
<1>2. /\ r \in ThreadRecord /\ r.named <= session.token /\ r.sent <= session.token
      /\ session.token \in Nat /\ tokens.near \in Nat
  BY <1>1, ThreadTyped
<1>3. /\ sessionLock = NoThread /\ sessionLock # t
      /\ r.at \in {"wants to name", "wants to send", "wants to retry", "wants to refresh"}
      /\ UNCHANGED <<session, family, tokens, tally>>
  BY <1>1, NoThreadIsDistinct DEF TakeLock, NoThreadIsDistinct
<1>4. CASE ~StillNeeded(t)
  <2>1. PICK x : x = Onward(t, session.token) OBVIOUS
  <2>2. thread' = [thread EXCEPT ![t] = x] /\ UNCHANGED sessionLock BY <1>4, <2>1 DEF TakeLock
  <2>3. /\ x \in ThreadRecord /\ x.at \in {"idle", "named", "sent"}
        /\ x.named <= session.token /\ x.sent <= session.token
        /\ x.at = "sent" /\ ~x.retrying => x.named <= x.sent
    BY <1>2, <2>1, ItsOwn, OnwardGoes
  <2>4. x.at # "wants to refresh" /\ x.at # "wants to retry" BY <2>3
  <2> QED BY <1>3, <2>2, <2>3, <2>4, CallerMoves
<1>5. CASE StillNeeded(t)
  <2>1. sessionLock' = t /\ UNCHANGED thread BY <1>5 DEF TakeLock
  <2>2. /\ r.at \in {"wants to name", "wants to send"} => session.token <= tokens.near
        /\ r.at = "wants to retry" => r.named = session.token
    BY <1>1, <1>5 DEF StillNeeded, IsNearExpiry
  <2>3. ThreadSound(t)' BY <1>1, <1>3, <2>1, <2>2 DEF SessionInvariant, ThreadSound
  <2>4. ASSUME NEW u \in Threads \ {t} PROVE ThreadSound(u)' BY <1>3, <2>1 DEF SessionInvariant, ThreadSound
  <2>5. SessionTypeOK' BY <1>3, <2>1 DEF SessionInvariant, SessionTypeOK
  <2>6. Wanted' BY <1>3, <2>1 DEF SessionInvariant, Wanted, AskedToRefresh, RefusedLive, Some
  <2> QED BY <1>3, <2>3, <2>4, <2>5, <2>6 DEF SessionInvariant
<1> QED BY <1>4, <1>5

LEMMA TokensAgeKeep ==
    ASSUME SessionInvariant, TokensAge \/ UNCHANGED sessionVars
    PROVE  SessionInvariant'
<1>1. /\ tokens.minted \in Nat /\ tokens.near \in Nat /\ tokens.expired \in Nat /\ session.token \in Nat
      /\ tokens.expired <= tokens.near /\ tokens.near <= tokens.minted
  BY DEF SessionInvariant, SessionTypeOK
<1>2. UNCHANGED <<session, sessionLock, family, thread, tally>> BY DEF TokensAge, sessionVars
<1>3. /\ tokens' \in [minted : Nat, near : Nat, expired : Nat] /\ tokens'.minted = tokens.minted
      /\ \/ tokens'.near = tokens.near /\ tokens'.expired = tokens.expired
         \/ tokens.near < tokens.minted /\ tokens'.near = tokens.near + 1 /\ tokens'.expired = tokens.expired
         \/ tokens.expired < tokens.near /\ tokens'.expired = tokens.expired + 1 /\ tokens'.near = tokens.near
  <2>1. tokens \in [minted : Nat, near : Nat, expired : Nat] BY DEF SessionInvariant, SessionTypeOK
  <2>2. CASE tokens.near < tokens.minted /\ tokens' = [tokens EXCEPT !.near = @ + 1] BY <1>1, <2>1, <2>2
  <2>3. CASE tokens.expired < tokens.near /\ tokens' = [tokens EXCEPT !.expired = @ + 1] BY <1>1, <2>1, <2>3
  <2>4. CASE UNCHANGED tokens BY <2>1, <2>4
  <2> QED BY <2>2, <2>3, <2>4 DEF TokensAge, sessionVars
<1>4. /\ tokens'.near \in Nat /\ tokens'.expired <= tokens'.near /\ tokens'.near <= tokens'.minted
      /\ tokens.near <= tokens'.near
  BY <1>1, <1>3
<1>5. ASSUME NEW t \in Threads PROVE ThreadSound(t)'
  <2>1. ThreadSound(t) /\ thread[t].named \in Nat BY DEF SessionInvariant, SessionTypeOK, ThreadRecord
  <2>2. session.token <= tokens.near => session.token <= tokens'.near BY <1>1, <1>4, NoLater
  <2> QED BY <1>2, <2>1, <2>2 DEF ThreadSound
<1>6. AskedToRefresh' = AskedToRefresh BY <1>2 DEF AskedToRefresh
<1>7. RefusedLive' \subseteq RefusedLive
  <2> SUFFICES ASSUME NEW t \in RefusedLive' PROVE t \in RefusedLive OBVIOUS
  <2>1. PICK n \in Nat : n = thread[t].named BY DEF RefusedLive, SessionInvariant, SessionTypeOK, ThreadRecord
  <2>2. t \in Threads /\ thread[t].at = "wants to retry" /\ ~(n <= tokens'.near) BY <1>2, <2>1 DEF RefusedLive
  <2>3. n <= tokens.near => n <= tokens'.near BY <1>1, <1>4, NoLater
  <2> QED BY <2>1, <2>2, <2>3 DEF RefusedLive
<1>8. Wanted' BY <1>2, <1>3, <1>4, <1>6, <1>7, WantedLess
<1>9. SessionTypeOK' BY <1>2, <1>3 DEF SessionInvariant, SessionTypeOK
<1> QED BY <1>2, <1>3, <1>4, <1>5, <1>8, <1>9 DEF SessionInvariant

\* The lock is free again, and the caller that held it is past its refresh.
LEMMA LockIsReleased ==
    ASSUME SessionInvariant, NEW t \in Threads, sessionLock' = NoThread,
           NEW x \in ThreadRecord, x.at \in {"idle", "named", "sent"}, thread' = [thread EXCEPT ![t] = x],
           session'.token \in Nat, session.token <= session'.token, tokens'.near = tokens.near,
           x.named <= session'.token, x.sent <= session'.token, x.at = "sent" /\ ~x.retrying => x.named <= x.sent
    PROVE  /\ thread' \in [Threads -> ThreadRecord]
           /\ AskedToRefresh' = AskedToRefresh \ {t} /\ RefusedLive' = RefusedLive \ {t}
           /\ \A u \in Threads : ThreadSound(u)'
<1>1. thread'[t] = x /\ thread' \in [Threads -> ThreadRecord] BY DEF SessionInvariant, SessionTypeOK
<1>2. \A u \in Threads : sessionLock' # u BY NoThreadIsDistinct DEF NoThreadIsDistinct
<1>3. x.at # "wants to retry" /\ x.at # "wants to refresh" OBVIOUS
<1>4. ThreadSound(t)' BY <1>1, <1>2, <1>3 DEF ThreadSound
<1>5. tokens'.near \in Nat /\ tokens.near <= tokens'.near
  <2>1. tokens.near \in Nat BY DEF SessionInvariant, SessionTypeOK
  <2> QED BY <2>1, ItsOwn
<1>6. \A u \in Threads : ThreadSound(u)' BY <1>2, <1>4, <1>5, OthersStaySound
<1>7. AskedToRefresh' = AskedToRefresh \ {t} BY <1>1, <1>3 DEF AskedToRefresh, SessionInvariant, SessionTypeOK
<1>8. RefusedLive' = RefusedLive \ {t} BY <1>1, <1>3 DEF RefusedLive, SessionInvariant, SessionTypeOK
<1> QED BY <1>1, <1>6, <1>7, <1>8

LEMMA RefreshesKeeps ==
    ASSUME SessionInvariant, NEW t \in Threads, Refreshes(t)
    PROVE  SessionInvariant'
<1> DEFINE M == tokens.minted
<1>1. /\ sessionLock = t /\ sessionLock' = NoThread
      /\ session \in [token : Nat, material : Nat] /\ session.token = M /\ M \in Nat /\ M >= 1
      /\ family \in [generation : Nat, revoked : BOOLEAN]
      /\ tokens \in [minted : Nat, near : Nat, expired : Nat]
      /\ tally \in TallyRecord
      /\ tally.rotations + 1 = M + tally.bodiless + tally.lost
  BY DEF Refreshes, SessionInvariant, SessionTypeOK
<1>2. /\ tokens.near \in Nat /\ tokens.expired \in Nat /\ tally.asked \in Nat /\ tally.turned \in Nat /\ tally.lost \in Nat /\ tally.bodiless \in Nat
      /\ tally.rotations \in Nat /\ family.generation \in Nat
      /\ tokens.expired <= tokens.near /\ tokens.near <= M
  BY <1>1 DEF SessionInvariant, TallyRecord
<1>3. IdleThread \in ThreadRecord /\ IdleThread.at = "idle" /\ IdleThread.named = 0 /\ IdleThread.sent = 0
  BY DEF IdleThread, ThreadRecord
<1>4. ASSUME Rotates, tokens' = [tokens EXCEPT !.minted = @ + 1], session' = Absorbed(M + 1, family.generation + 1),
             thread' = [thread EXCEPT ![t] = Onward(t, M + 1)], tally' = [tally EXCEPT !.rotations = @ + 1],
             family' = [family EXCEPT !.generation = @ + 1]
      PROVE  SessionInvariant'
  <2>1. /\ tokens' \in [minted : Nat, near : Nat, expired : Nat] /\ tokens'.minted = M + 1
        /\ tokens'.near = tokens.near /\ tokens'.expired = tokens.expired
    BY <1>1, <1>4
  <2>2. session' = [token |-> M + 1, material |-> family.generation + 1] BY <1>1, <1>4 DEF Absorbed
  <2>3. session' \in [token : Nat, material : Nat] /\ session'.token = M + 1 /\ session'.material = family.generation + 1
    BY <1>1, <1>2, <2>2
  <2>4. /\ family' \in [generation : Nat, revoked : BOOLEAN] /\ family'.generation = family.generation + 1
        /\ family'.revoked = family.revoked /\ ~family.revoked
    BY <1>1, <1>4 DEF Rotates
  <2>5. /\ tally' \in TallyRecord /\ tally'.rotations = tally.rotations + 1
        /\ tally'.lost = tally.lost /\ tally'.bodiless = tally.bodiless /\ tally'.asked = tally.asked /\ tally'.turned = tally.turned
    BY <1>1, <1>2, <1>4 DEF TallyRecord
  <2>6. PICK x : x = Onward(t, M + 1) OBVIOUS
  <2>7. M + 1 \in Nat /\ M <= M + 1 BY <1>1
  <2>8. session.token <= M + 1 BY <1>1, <2>7
  <2>9. /\ x \in ThreadRecord /\ x.at \in {"idle", "named", "sent"}
        /\ x.named <= M + 1 /\ x.sent <= M + 1
        /\ x.at = "sent" /\ ~x.retrying => x.named <= x.sent
    BY <2>6, <2>7, <2>8, OnwardGoes
  <2>10. thread' = [thread EXCEPT ![t] = x] BY <1>4, <2>6
  <2>11. /\ thread' \in [Threads -> ThreadRecord]
         /\ AskedToRefresh' = AskedToRefresh \ {t} /\ RefusedLive' = RefusedLive \ {t}
         /\ \A u \in Threads : ThreadSound(u)'
    BY <1>1, <2>1, <2>3, <2>7, <2>8, <2>9, <2>10, LockIsReleased
  <2>12. Wanted'
    <3>1. Wanted BY DEF SessionInvariant
    <3>2. PICK a \in {0, 1}, b \in {0, 1}, c \in {0, 1}, d \in {0, 1} :
            /\ a = Some(AskedToRefresh) /\ b = Some(RefusedLive) /\ c = Some(AskedToRefresh') /\ d = Some(RefusedLive')
      BY DEF Some
    <3>3. M + a + b <= tokens.near + 1 + tally.asked + tally.turned BY <3>1, <3>2 DEF Wanted
    <3>4. c <= a /\ d <= b /\ c <= tally.asked /\ d <= tally.turned BY <2>11, <3>1, <3>2 DEF Wanted, Some
    <3>5. M + 1 + c + d <= tokens.near + 1 + tally.asked + tally.turned
      <4>1. CASE t \in AskedToRefresh
        <5>1. a = 1 /\ c = 0 BY <2>11, <3>1, <3>2, <4>1 DEF Wanted, Some
        <5> QED BY <1>1, <1>2, <3>2, <3>3, <3>4, <5>1
      <4>2. CASE t \in RefusedLive
        <5>1. b = 1 /\ d = 0 BY <2>11, <3>1, <3>2, <4>2 DEF Wanted, Some
        <5> QED BY <1>1, <1>2, <3>2, <3>3, <3>4, <5>1
      <4>3. CASE t \notin AskedToRefresh /\ t \notin RefusedLive
        <5>1. M <= tokens.near BY <1>1, <4>3 DEF SessionInvariant, ThreadSound, AskedToRefresh, RefusedLive
        <5> QED BY <1>1, <1>2, <3>2, <3>4, <5>1
      <4> QED BY <4>1, <4>2, <4>3
    <3>6. tokens'.minted + Some(AskedToRefresh)' + Some(RefusedLive)' <= tokens'.near + 1 + tally'.asked + tally'.turned
      BY <2>1, <2>5, <3>2, <3>5 DEF Some
    <3> QED BY <2>5, <2>11, <3>1, <3>6 DEF Wanted
  <2>13. tally'.rotations + 1 = tokens'.minted + tally'.bodiless + tally'.lost BY <1>1, <1>2, <2>1, <2>5
  <2>14. tokens'.near <= tokens'.minted /\ tokens'.minted >= 1 /\ tokens'.expired <= tokens'.near BY <1>1, <1>2, <2>1
  <2>15. SessionTypeOK' BY <1>1, <2>1, <2>3, <2>4, <2>5, <2>11 DEF SessionTypeOK
  <2> QED BY <2>1, <2>3, <2>4, <2>5, <2>11, <2>12, <2>13, <2>14, <2>15 DEF SessionInvariant
<1>5. ASSUME thread' = [thread EXCEPT ![t] = IdleThread], UNCHANGED tokens,
             session' \in [token : Nat, material : Nat], session'.token = M,
             family' \in [generation : Nat, revoked : BOOLEAN],
             tally' \in TallyRecord, tally'.asked = tally.asked, tally'.turned = tally.turned,
             tally'.rotations + 1 = M + tally'.bodiless + tally'.lost,
             tally'.lost = 0 => session'.material = family'.generation /\ ~family'.revoked
      PROVE  SessionInvariant'
  <2>1. session.token <= session'.token /\ IdleThread.named <= session'.token /\ IdleThread.sent <= session'.token
    BY <1>1, <1>3, <1>5, ItsOwn
  <2>2. /\ thread' \in [Threads -> ThreadRecord]
        /\ AskedToRefresh' = AskedToRefresh \ {t} /\ RefusedLive' = RefusedLive \ {t}
        /\ \A u \in Threads : ThreadSound(u)'
    BY <1>1, <1>3, <1>5, <2>1, LockIsReleased
  <2>3. SessionTypeOK' BY <1>1, <1>5, <2>2 DEF SessionTypeOK
  <2>4. Wanted' BY <1>2, <1>5, <2>2, ItsOwn, WantedLess
  <2> QED BY <1>1, <1>5, <2>2, <2>3, <2>4 DEF SessionInvariant
<1>6. ASSUME Rotates, family' = [family EXCEPT !.generation = @ + 1], tally.bodiless = 0,
             tally' = [tally EXCEPT !.rotations = @ + 1, !.bodiless = 1],
             session' = Absorbed(0, family.generation + 1), thread' = [thread EXCEPT ![t] = IdleThread], UNCHANGED tokens
      PROVE  SessionInvariant'
  <2>1. session' = [token |-> M, material |-> family.generation + 1] BY <1>1, <1>6 DEF Absorbed
  <2>2. session' \in [token : Nat, material : Nat] /\ session'.token = M /\ session'.material = family.generation + 1
    BY <1>1, <1>2, <2>1
  <2>3. /\ family' \in [generation : Nat, revoked : BOOLEAN] /\ family'.generation = family.generation + 1 /\ ~family'.revoked
    BY <1>1, <1>6 DEF Rotates
  <2>4. /\ tally' \in TallyRecord /\ tally'.asked = tally.asked /\ tally'.turned = tally.turned
        /\ tally'.rotations = tally.rotations + 1 /\ tally'.bodiless = 1 /\ tally'.lost = tally.lost
    <3> DEFINE d == tally
               a == tally.rotations + 1
               b == 1
               e == [d EXCEPT !.rotations = a, !.bodiless = b]
    <3>1. d \in TallyRecord /\ a \in Nat /\ b \in Nat BY <1>1, <1>2
    <3>2. tally' = e BY <1>6
    <3> HIDE DEF d, a, b
    <3>3. e \in TallyRecord BY <3>1 DEF TallyRecord
    <3>4. e.asked = d.asked /\ e.rotations = a BY <3>1 DEF TallyRecord
    <3>5. e.bodiless = b /\ e.lost = d.lost /\ e.turned = d.turned BY <3>1 DEF TallyRecord
    <3> HIDE DEF e
    <3> QED BY <3>2, <3>3, <3>4, <3>5 DEF d, a, b
  <2>5. tally'.rotations + 1 = M + tally'.bodiless + tally'.lost BY <1>1, <1>2, <1>6, <2>4
  <2> QED BY <1>5, <1>6, <2>2, <2>3, <2>4, <2>5
<1>7. ASSUME Rotates, family' = [family EXCEPT !.generation = @ + 1],
             tally' = [tally EXCEPT !.rotations = @ + 1, !.lost = @ + 1],
             thread' = [thread EXCEPT ![t] = IdleThread], UNCHANGED <<session, tokens>>
      PROVE  SessionInvariant'
  <2>1. family' \in [generation : Nat, revoked : BOOLEAN] BY <1>1, <1>7
  <2>2. /\ tally' \in TallyRecord /\ tally'.asked = tally.asked /\ tally'.turned = tally.turned
        /\ tally'.rotations = tally.rotations + 1 /\ tally'.bodiless = tally.bodiless /\ tally'.lost = tally.lost + 1
    <3> DEFINE d == tally
               a == tally.rotations + 1
               b == tally.lost + 1
               e == [d EXCEPT !.rotations = a, !.lost = b]
    <3>1. d \in TallyRecord /\ a \in Nat /\ b \in Nat BY <1>1, <1>2
    <3>2. tally' = e BY <1>7
    <3> HIDE DEF d, a, b
    <3>3. e \in TallyRecord BY <3>1 DEF TallyRecord
    <3>4. e.asked = d.asked /\ e.rotations = a BY <3>1 DEF TallyRecord
    <3>5. e.bodiless = d.bodiless /\ e.lost = b /\ e.turned = d.turned BY <3>1 DEF TallyRecord
    <3> HIDE DEF e
    <3> QED BY <3>2, <3>3, <3>4, <3>5 DEF d, a, b
  <2>3. tally'.rotations + 1 = M + tally'.bodiless + tally'.lost /\ tally'.lost # 0 BY <1>1, <1>2, <2>2
  <2> QED BY <1>1, <1>5, <1>7, <2>1, <2>2, <2>3
<1>8. ASSUME ~Rotates, family' = [family EXCEPT !.revoked = TRUE], thread' = [thread EXCEPT ![t] = IdleThread],
             UNCHANGED <<session, tokens, tally>>
      PROVE  SessionInvariant'
  <2>1. family' \in [generation : Nat, revoked : BOOLEAN] BY <1>1, <1>8
  <2>2. tally.lost # 0 BY <1>8 DEF SessionInvariant, Rotates
  <2> QED BY <1>1, <1>5, <1>8, <2>1, <2>2
<1> QED BY <1>4, <1>6, <1>7, <1>8 DEF Refreshes

LEMMA SessionStarts == SessionInit => SessionInvariant
<1> SUFFICES ASSUME SessionInit PROVE SessionInvariant OBVIOUS
<1>1. SessionTypeOK BY DEF SessionInit, SessionTypeOK, IdleThread, ThreadRecord, TallyRecord
<1>2. \A t \in Threads : thread[t] = IdleThread /\ sessionLock # t
  BY NoThreadIsDistinct DEF SessionInit, NoThreadIsDistinct
<1>3. \A t \in Threads : /\ thread[t].at = "idle" /\ thread[t].named = 0 /\ thread[t].sent = 0
                          /\ sessionLock # t
  BY <1>2 DEF IdleThread
<1>4. AskedToRefresh = {} /\ RefusedLive = {} BY <1>3 DEF AskedToRefresh, RefusedLive
<1>6. Wanted BY <1>4 DEF SessionInit, Wanted, Some
<1>5. \A t \in Threads : ThreadSound(t)
  <2>1. session.token = 1 /\ 0 <= 1 BY DEF SessionInit
  <2> QED BY <1>3, <2>1 DEF ThreadSound
<1> QED BY <1>1, <1>5, <1>6 DEF SessionInit, SessionInvariant

LEMMA SessionKeeps == SessionInvariant /\ [SessionNext]_sessionVars => SessionInvariant'
<1> SUFFICES ASSUME SessionInvariant, [SessionNext]_sessionVars PROVE SessionInvariant' OBVIOUS
<1>1. ASSUME NEW t \in Threads, AskBearer(t) \/ Answered(t) \/ TurnedAway(t) \/ CaseRefreshes(t) \/ TakeLock(t) \/ Refreshes(t)
      PROVE  SessionInvariant'
  BY <1>1, AskBearerKeeps, AnsweredKeeps, TurnedAwayKeeps, CaseRefreshesKeeps, TakeLockKeeps, RefreshesKeeps
<1> QED BY <1>1, TokensAgeKeep DEF SessionNext

LEMMA SoundSessionsRefreshOnce ==
    ASSUME SessionInvariant
    PROVE  SessionsAreRefreshedOnce
<1>1. /\ tally.rotations \in Nat /\ tokens.minted \in Nat /\ tokens.near \in Nat
      /\ tally.asked \in Nat /\ tally.turned \in Nat /\ tally.bodiless \in Nat /\ tally.lost \in Nat
  BY DEF SessionInvariant, SessionTypeOK, TallyRecord
<1>2. /\ tally.rotations + 1 = tokens.minted + tally.bodiless + tally.lost
      /\ tokens.minted <= tokens.near + 1 + tally.asked + tally.turned
  <2>1. PICK a \in {0, 1}, b \in {0, 1} : a = Some(AskedToRefresh) /\ b = Some(RefusedLive) BY DEF Some
  <2>2. tokens.minted + a + b <= tokens.near + 1 + tally.asked + tally.turned BY <2>1 DEF SessionInvariant, Wanted
  <2> QED BY <1>1, <2>1, <2>2 DEF SessionInvariant
<1>3. tally.rotations <= tokens.near + tally.asked + tally.turned + tally.bodiless + tally.lost BY <1>1, <1>2
<1>4. family.revoked => tally.lost > 0 BY <1>1 DEF SessionInvariant
<1> QED BY <1>3, <1>4 DEF SessionsAreRefreshedOnce

-----------------------------------------------------------------------------
(* Runs of the suite.                                                      *)

WorkerRecord == [at : {"starting", "creating", "testing", "finishing", "finished", "dead"},
                 user : [run : Int, worker : Workers], tries : Nat, sent : SUBSET Requests]
UserRecord == [run : Nat, worker : Workers, age : Nat]
RunRecord == [n : Nat \ {0}, hours : Nat, at : {"workers", "judged", "gone"}]

SuiteTypeOK ==
    /\ suiteRun \in RunRecord
    /\ suiteWorker \in [Workers -> WorkerRecord]
    /\ ephemeral \subseteq UserRecord
    /\ DOMAIN runFiles \subseteq [run : Nat, worker : Workers]
    /\ suiteFaults \in Nat

\* A worker has no user before it asks for one, and then its own, the durable one or none.
WorkerSound(w) ==
    LET r == suiteWorker[w] IN
    /\ r.at \in {"starting", "creating"} => r.user = NoUser
    /\ r.user \in {NoUser, Durable, Address(w)}
    /\ r.at = "testing" /\ r.user = Address(w) => Held(Address(w))

\* A user is no older than the run that made it, and where nothing failed it is the one
\* its worker is testing with.
UserSound(u) ==
    /\ u.run <= suiteRun.n
    /\ suiteRun.at = "workers" /\ u.run = suiteRun.n => u.age <= suiteRun.hours
    /\ suiteFaults = 0 => /\ u.run = suiteRun.n /\ suiteWorker[u.worker].at = "testing"
                          /\ suiteWorker[u.worker].user = Address(u.worker)

\* The files of the run are those of the workers that finished, with what they sent.
FilesSound ==
    /\ \A f \in DOMAIN runFiles : f.run <= suiteRun.n
    /\ suiteRun.at = "workers" =>
         /\ \A f \in FilesOfTheRun :
              /\ suiteWorker[f.worker].at = "finished" /\ runFiles[f].sent = suiteWorker[f.worker].sent
              /\ runFiles[f].noted <=> suiteWorker[f.worker].user = Durable
         /\ \A w \in WorkersThat("finished") : [run |-> suiteRun.n, worker |-> w] \in DOMAIN runFiles

SuiteInvariant ==
    /\ SuiteTypeOK
    /\ suiteRun.at = "workers" => suiteRun.hours <= RunHours
    /\ suiteRun.at = "judged" => \A w \in Workers : suiteWorker[w].at \in {"finished", "dead"}
    /\ suiteRun.at = "gone" => suiteFaults > 0
    /\ \A w \in Workers : WorkerSound(w)
    /\ \A u \in ephemeral : UserSound(u)
    /\ FilesSound
    /\ VerdictsAreOfTheRun

LEMMA NamesAre ==
    ASSUME SuiteInvariant, NEW w \in Workers
    PROVE  /\ FirstWorker \in Workers /\ Address(w) \in [run : Int, worker : Workers]
           /\ NoUser \in [run : Int, worker : Workers] /\ Durable \in [run : Int, worker : Workers]
           /\ Address(w) # NoUser /\ Address(w) # Durable /\ NoUser # Durable
           /\ Address(w).run = suiteRun.n /\ Address(w).worker = w
           /\ \A v \in Workers : Address(v) = Address(w) => v = w
  BY SuiteAssumption DEF SuiteInvariant, SuiteTypeOK, RunRecord, SuiteAssumption, Address, NoUser, Durable

LEMMA WorkerTyped ==
    ASSUME SuiteInvariant, NEW w \in Workers, NEW r, r = suiteWorker[w]
    PROVE  /\ r \in WorkerRecord /\ r.user \in {NoUser, Durable, Address(w)}
           /\ r.at \in {"starting", "creating"} => r.user = NoUser
           /\ r.tries \in Nat /\ r.sent \subseteq Requests /\ r.user \in [run : Int, worker : Workers]
  BY DEF SuiteInvariant, SuiteTypeOK, WorkerSound, WorkerRecord

\* One worker, not finished yet, moves; the others stay, and so do the files.
LEMMA WorkerMoves ==
    ASSUME SuiteInvariant, NEW w \in Workers, NEW x \in WorkerRecord, suiteWorker' = [suiteWorker EXCEPT ![w] = x],
           suiteRun.at = "workers", suiteWorker[w].at # "finished", x.at # "finished",
           UNCHANGED <<suiteRun, runFiles, verdict>>, suiteFaults' \in Nat, ephemeral' \subseteq UserRecord,
           WorkerSound(w)', \A u \in ephemeral' : UserSound(u)',
           \A v \in Workers : v # w /\ Held(Address(v)) => Held(Address(v))'
    PROVE  SuiteInvariant'
<1>1. suiteWorker'[w] = x /\ suiteWorker' \in [Workers -> WorkerRecord]
      /\ \A v \in Workers : v # w => suiteWorker'[v] = suiteWorker[v]
  BY DEF SuiteInvariant, SuiteTypeOK
<1>2. SuiteTypeOK' BY <1>1 DEF SuiteInvariant, SuiteTypeOK
<1>3. ASSUME NEW v \in Workers PROVE WorkerSound(v)'
  <2>1. CASE v = w BY <2>1
  <2>2. CASE v # w
    <3>1. Address(v)' = Address(v) BY DEF Address
    <3> QED BY <1>1, <2>2, <3>1 DEF SuiteInvariant, WorkerSound
  <2> QED BY <2>1, <2>2
<1>4. FilesSound'
  <2>1. FilesOfTheRun' = FilesOfTheRun BY DEF FilesOfTheRun, RunDirectory
  <2>2. ASSUME NEW f \in FilesOfTheRun PROVE f.worker # w /\ suiteWorker'[f.worker] = suiteWorker[f.worker]
    <3>1. suiteWorker[f.worker].at = "finished" BY DEF SuiteInvariant, FilesSound
    <3>2. f.worker \in Workers BY DEF SuiteInvariant, SuiteTypeOK, FilesOfTheRun
    <3> QED BY <1>1, <3>1, <3>2
  <2>3. WorkersThat("finished")' = WorkersThat("finished") BY <1>1 DEF WorkersThat
  <2> QED BY <2>1, <2>2, <2>3 DEF SuiteInvariant, FilesSound
<1>5. VerdictsAreOfTheRun' BY DEF VerdictsAreOfTheRun
<1> QED BY <1>2, <1>3, <1>4, <1>5 DEF SuiteInvariant

\* The users stay sound when a worker moves that has none, or keeps the one it tests with.
LEMMA UsersStay ==
    ASSUME SuiteInvariant, NEW w \in Workers, NEW x, suiteWorker' = [suiteWorker EXCEPT ![w] = x],
           UNCHANGED suiteRun, NEW u \in ephemeral, suiteFaults \in Nat, suiteFaults' # 0 \/ suiteFaults' = suiteFaults,
           \/ suiteFaults' # 0
           \/ suiteWorker[w].at # "testing"
           \/ x.at = suiteWorker[w].at /\ x.user = suiteWorker[w].user
           \/ suiteWorker[w].user # [run |-> u.run, worker |-> u.worker]
    PROVE  UserSound(u)'
<1>1. UserSound(u) /\ u \in UserRecord BY DEF SuiteInvariant, SuiteTypeOK
<1>2. SUFFICES ASSUME suiteFaults' = 0
               PROVE  suiteWorker'[u.worker].at = "testing" /\ suiteWorker'[u.worker].user = Address(u.worker)'
  BY <1>1 DEF UserSound
<1>3. u.run = suiteRun.n /\ suiteWorker[u.worker].at = "testing" /\ suiteWorker[u.worker].user = Address(u.worker)
  BY <1>1, <1>2 DEF UserSound
<1>4. Address(u.worker)' = Address(u.worker) /\ Address(u.worker) = [run |-> u.run, worker |-> u.worker]
  BY <1>3 DEF Address
<1>5. u.worker \in Workers BY <1>1 DEF UserRecord
<1>6. CASE u.worker # w BY <1>3, <1>4, <1>5, <1>6 DEF SuiteInvariant, SuiteTypeOK
<1>7. CASE u.worker = w
  <2>1. x.at = suiteWorker[w].at /\ x.user = suiteWorker[w].user BY <1>2, <1>3, <1>4, <1>7
  <2>2. suiteWorker'[w] = x BY DEF SuiteInvariant, SuiteTypeOK
  <2> QED BY <1>3, <1>4, <1>7, <2>1, <2>2
<1> QED BY <1>6, <1>7

LEMMA FaultsAreCounted ==
    ASSUME SuiteInvariant
    PROVE  suiteFaults \in Nat /\ (Faulty => suiteFaults' \in Nat /\ suiteFaults' # 0)
  BY DEF SuiteInvariant, SuiteTypeOK, Faulty

\* A worker that is setting up, sends or is cut short, and makes or loses no user.
LEMMA WorkerGoesOn ==
    ASSUME SuiteInvariant, NEW w \in Workers, NEW r, r = suiteWorker[w], NEW x \in WorkerRecord,
           suiteRun.at = "workers", suiteWorker' = [suiteWorker EXCEPT ![w] = x],
           UNCHANGED <<suiteRun, ephemeral, runFiles, verdict>>,
           suiteFaults' \in Nat, suiteFaults' # 0 \/ suiteFaults' = suiteFaults,
           \/ r.at \in {"starting", "creating"} /\ x.at \in {"creating", "testing"} /\ x.user \in {NoUser, Durable}
              /\ (x.at = "creating" => x.user = NoUser)
           \/ r.at = "testing" /\ x.at = "testing" /\ x.user = r.user
           \/ r.at # "finished" /\ x.at \in {"finishing", "dead"} /\ x.user = r.user /\ suiteFaults' # 0
    PROVE  SuiteInvariant'
<1>1. r \in WorkerRecord /\ r.user \in {NoUser, Durable, Address(w)} BY WorkerTyped
<1>2. \A v \in Workers : Address(v)' = Address(v) /\ (Held(Address(v)) => Held(Address(v))') BY DEF Address, Held
<1>3. suiteWorker'[w] = x BY DEF SuiteInvariant, SuiteTypeOK
<1>4. Address(w) # NoUser /\ Address(w) # Durable BY NamesAre
<1>5. x.user \in {NoUser, Durable, Address(w)} BY <1>1
<1>6. x.at = "testing" /\ x.user = Address(w) => Held(Address(w))
  BY <1>4 DEF SuiteInvariant, WorkerSound
<1>7. WorkerSound(w)' BY <1>2, <1>3, <1>5, <1>6 DEF WorkerSound
<1>8. \A u \in ephemeral : UserSound(u)' BY FaultsAreCounted, UsersStay
<1>9. ephemeral' \subseteq UserRecord BY DEF SuiteInvariant, SuiteTypeOK
<1> QED BY <1>2, <1>7, <1>8, <1>9, WorkerMoves

LEMMA SweepLeftoversKeeps ==
    ASSUME SuiteInvariant, NEW w \in Workers, SweepLeftovers(w)
    PROVE  SuiteInvariant'
<1> DEFINE r == suiteWorker[w]
           x == [r EXCEPT !.at = "creating"]
<1>1. r \in WorkerRecord /\ r.user = NoUser /\ r.at = "starting"
  BY WorkerTyped DEF SweepLeftovers, Step
<1>2. x \in WorkerRecord BY <1>1 DEF WorkerRecord
<1>3. x.at = "creating" /\ x.user = NoUser BY <1>1 DEF WorkerRecord
<1>4. suiteRun.at = "workers" /\ suiteWorker' = [suiteWorker EXCEPT ![w] = x] BY DEF SweepLeftovers, Step
<1>5. UNCHANGED <<suiteRun, runFiles, verdict>> BY DEF SweepLeftovers
<1> HIDE DEF r, x
<1>6. CASE UNCHANGED ephemeral
  <2>1. suiteFaults' \in Nat /\ (suiteFaults' # 0 \/ suiteFaults' = suiteFaults)
    BY <1>6, FaultsAreCounted DEF SweepLeftovers
  <2> QED BY <1>1, <1>2, <1>3, <1>4, <1>5, <1>6, <2>1, WorkerGoesOn DEF r
<1>7. CASE ephemeral' = {u \in ephemeral : u.age < SweepAge} /\ UNCHANGED suiteFaults
  <2>1. ASSUME NEW v \in Workers, Held(Address(v)) PROVE Held(Address(v))'
    <3>1. PICK u \in ephemeral : u.run = Address(v).run /\ u.worker = Address(v).worker BY <2>1 DEF Held
    <3>2. u.run = suiteRun.n BY <3>1, NamesAre
    <3>3. u.age <= suiteRun.hours /\ suiteRun.hours <= RunHours BY <1>4, <3>2 DEF SuiteInvariant, UserSound
    <3>4. u.age \in Nat /\ suiteRun.hours \in Nat BY DEF SuiteInvariant, SuiteTypeOK, UserRecord, RunRecord
    <3>5. u.age < SweepAge BY <3>3, <3>4, SuiteAssumption DEF SuiteAssumption
    <3>6. Address(v)' = Address(v) BY <1>5 DEF Address
    <3> QED BY <1>7, <3>1, <3>5, <3>6 DEF Held
  <2>2. ephemeral' \subseteq UserRecord /\ ephemeral' \subseteq ephemeral /\ suiteFaults' \in Nat
    BY <1>7 DEF SuiteInvariant, SuiteTypeOK
  <2>3. \A u \in ephemeral : UserSound(u)' BY <1>1, <1>4, <1>5, <1>7, FaultsAreCounted, UsersStay DEF r
  <2>4. suiteWorker'[w] = x BY <1>4 DEF SuiteInvariant, SuiteTypeOK
  <2>5. WorkerSound(w)' BY <1>3, <2>4 DEF WorkerSound
  <2> QED BY <1>1, <1>2, <1>3, <1>4, <1>5, <2>1, <2>2, <2>3, <2>5, WorkerMoves DEF r
<1> QED BY <1>6, <1>7 DEF SweepLeftovers

LEMMA CreateUserKeeps ==
    ASSUME SuiteInvariant, NEW w \in Workers, CreateUser(w)
    PROVE  SuiteInvariant'
<1> DEFINE r == suiteWorker[w]
           made == [r EXCEPT !.at = "testing", !.tries = 0, !.user = Address(w)]
           none == [r EXCEPT !.at = "testing", !.tries = 0]
           u0 == [run |-> Address(w).run, worker |-> Address(w).worker, age |-> 0]
<1>1. suiteRun.at = "workers" /\ r.at = "creating" /\ UNCHANGED <<suiteRun, runFiles, verdict>>
  BY DEF CreateUser, Step
<1>2. r \in WorkerRecord /\ r.user = NoUser BY <1>1, WorkerTyped
<1>3. none \in WorkerRecord BY <1>2 DEF WorkerRecord
<1>4. none.at = "testing" /\ none.user = NoUser BY <1>2 DEF WorkerRecord
<1>5. made \in WorkerRecord BY <1>2, NamesAre DEF WorkerRecord
<1>6. made.at = "testing" /\ made.user = Address(w) BY <1>2 DEF WorkerRecord
<1>7. \/ suiteWorker' = [suiteWorker EXCEPT ![w] = none] /\ UNCHANGED <<ephemeral, suiteFaults>>
      \/ suiteWorker' = [suiteWorker EXCEPT ![w] = none] /\ ephemeral' = ephemeral \cup {u0} /\ Faulty
      \/ suiteWorker' = [suiteWorker EXCEPT ![w] = made] /\ ephemeral' = ephemeral \cup {u0} /\ UNCHANGED suiteFaults
  BY DEF CreateUser, Step, Made
<1>8. u0 \in UserRecord /\ u0.run = suiteRun.n /\ u0.worker = w /\ u0.age = 0
  BY NamesAre DEF SuiteInvariant, SuiteTypeOK, RunRecord, UserRecord
<1>9. suiteRun.hours \in Nat /\ suiteRun.n \in Nat BY DEF SuiteInvariant, SuiteTypeOK, RunRecord
<1> HIDE DEF r, made, none, u0
<1>10. \A v \in Workers : Address(v)' = Address(v) /\ (Held(Address(v)) => Held(Address(v))')
  BY <1>1, <1>7 DEF Address, Held
<1>11. CASE suiteWorker' = [suiteWorker EXCEPT ![w] = none] /\ UNCHANGED <<ephemeral, suiteFaults>>
  BY <1>1, <1>2, <1>3, <1>4, <1>11, FaultsAreCounted, WorkerGoesOn DEF r
<1>12. ASSUME NEW x, x \in WorkerRecord, x.at = "testing", suiteWorker' = [suiteWorker EXCEPT ![w] = x],
              NEW c, c = u0, ephemeral' = ephemeral \cup {c}, suiteFaults' \in Nat,
              \/ x.user = NoUser /\ suiteFaults' # 0
              \/ x.user = Address(w) /\ suiteFaults' = suiteFaults
       PROVE SuiteInvariant'
  <2>1. suiteWorker'[w] = x BY <1>12 DEF SuiteInvariant, SuiteTypeOK
  <2>2. Held(Address(w))'
    <3>1. c.run = Address(w).run /\ c.worker = Address(w).worker BY <1>8, <1>12, NamesAre
    <3> QED BY <1>10, <1>12, <3>1 DEF Held
  <2>3. WorkerSound(w)' BY <1>10, <1>12, <2>1, <2>2 DEF WorkerSound
  <2>4. ASSUME NEW u \in ephemeral PROVE UserSound(u)'
    BY <1>1, <1>12, FaultsAreCounted, UsersStay DEF r
  <2>5. UserSound(c)'
    <3>1. c.age <= suiteRun'.hours /\ c.run <= suiteRun'.n /\ c.run = suiteRun'.n BY <1>1, <1>8, <1>9, <1>12
    <3>2. suiteFaults' = 0 => suiteWorker'[w].at = "testing" /\ suiteWorker'[w].user = Address(w)'
      BY <1>10, <1>12, <2>1
    <3> QED BY <1>8, <1>12, <3>1, <3>2 DEF UserSound
  <2>6. \A u \in ephemeral' : UserSound(u)' BY <1>12, <2>4, <2>5
  <2>7. ephemeral' \subseteq UserRecord BY <1>8, <1>12 DEF SuiteInvariant, SuiteTypeOK
  <2> QED BY <1>1, <1>10, <1>12, <2>3, <2>6, <2>7, WorkerMoves DEF r
<1>13. CASE suiteWorker' = [suiteWorker EXCEPT ![w] = none] /\ ephemeral' = ephemeral \cup {u0} /\ Faulty
  BY <1>3, <1>4, <1>12, <1>13, FaultsAreCounted
<1>14. CASE suiteWorker' = [suiteWorker EXCEPT ![w] = made] /\ ephemeral' = ephemeral \cup {u0} /\ UNCHANGED suiteFaults
  BY <1>5, <1>6, <1>12, <1>14, FaultsAreCounted
<1> QED BY <1>7, <1>11, <1>13, <1>14

LEMMA WorkerTriesOrSends ==
    ASSUME SuiteInvariant, NEW w \in Workers,
           GatewayRefuses(w) \/ FallBack(w) \/ (\E q \in Requests : SendRequest(w, q))
    PROVE  SuiteInvariant'
<1> DEFINE r == suiteWorker[w]
<1>1. UNCHANGED <<suiteRun, ephemeral, runFiles, verdict, suiteFaults>> /\ suiteRun.at = "workers"
  BY DEF GatewayRefuses, FallBack, SendRequest, Step
<1>2. suiteFaults' \in Nat /\ suiteFaults' = suiteFaults BY <1>1, FaultsAreCounted
<1>3. r \in WorkerRecord /\ (r.at = "creating" => r.user = NoUser) BY WorkerTyped
<1>4. NoUser \in [run : Int, worker : Workers] /\ Durable \in [run : Int, worker : Workers] BY NamesAre
<1>5. CASE GatewayRefuses(w)
  <2> DEFINE again == [r EXCEPT !.tries = @ + 1]
             none == [r EXCEPT !.at = "testing", !.tries = 0]
  <2>1. r.at = "creating" /\ r.user = NoUser BY <1>3, <1>5 DEF GatewayRefuses, Step
  <2>2. again \in WorkerRecord BY <1>3 DEF WorkerRecord
  <2>3. again.at = "creating" /\ again.user = NoUser BY <1>3, <2>1 DEF WorkerRecord
  <2>4. none \in WorkerRecord BY <1>3 DEF WorkerRecord
  <2>5. none.at = "testing" /\ none.user = NoUser BY <1>3, <2>1 DEF WorkerRecord
  <2>6. suiteWorker' = [suiteWorker EXCEPT ![w] = again] \/ suiteWorker' = [suiteWorker EXCEPT ![w] = none]
    BY <1>5 DEF GatewayRefuses, Step
  <2> HIDE DEF r, again, none
  <2> QED BY <1>1, <1>2, <2>1, <2>2, <2>3, <2>4, <2>5, <2>6, WorkerGoesOn DEF r
<1>6. CASE FallBack(w)
  <2> DEFINE x == [r EXCEPT !.at = "testing", !.tries = 0, !.user = Durable]
  <2>1. r.at = "creating" /\ suiteWorker' = [suiteWorker EXCEPT ![w] = x] BY <1>6 DEF FallBack, Step
  <2>2. x \in WorkerRecord BY <1>3, <1>4 DEF WorkerRecord
  <2>3. x.at = "testing" /\ x.user = Durable BY <1>3 DEF WorkerRecord
  <2> HIDE DEF r, x
  <2> QED BY <1>1, <1>2, <2>1, <2>2, <2>3, WorkerGoesOn DEF r
<1>7. CASE \E q \in Requests : SendRequest(w, q)
  <2>1. PICK q \in Requests : SendRequest(w, q) BY <1>7
  <2> DEFINE x == [r EXCEPT !.sent = @ \cup {q}]
  <2>2. r.at = "testing" /\ suiteWorker' = [suiteWorker EXCEPT ![w] = x] BY <2>1 DEF SendRequest, Step
  <2>3. x \in WorkerRecord BY <1>3 DEF WorkerRecord
  <2>4. x.at = "testing" /\ x.user = r.user BY <1>3, <2>2 DEF WorkerRecord
  <2> HIDE DEF r, x
  <2> QED BY <1>1, <1>2, <2>2, <2>3, <2>4, WorkerGoesOn DEF r
<1> QED BY <1>5, <1>6, <1>7

LEMMA WorkerDiesKeeps ==
    ASSUME SuiteInvariant, NEW w \in Workers, WorkerDies(w)
    PROVE  SuiteInvariant'
<1> DEFINE r == suiteWorker[w]
           x == [r EXCEPT !.at = "dead"]
<1>1. suiteRun.at = "workers" /\ r.at # "finished" /\ UNCHANGED <<suiteRun, ephemeral, runFiles, verdict>>
  BY DEF WorkerDies
<1>2. suiteFaults' \in Nat /\ suiteFaults' # 0 BY FaultsAreCounted DEF WorkerDies
<1>3. r \in WorkerRecord BY WorkerTyped
<1>4. x \in WorkerRecord BY <1>3 DEF WorkerRecord
<1>5. x.at = "dead" /\ x.user = r.user BY <1>3 DEF WorkerRecord
<1>6. suiteWorker' = [suiteWorker EXCEPT ![w] = x] BY DEF WorkerDies
<1> HIDE DEF r, x
<1> QED BY <1>1, <1>2, <1>4, <1>5, <1>6, WorkerGoesOn DEF r

LEMMA DeleteUserKeeps ==
    ASSUME SuiteInvariant, NEW w \in Workers, DeleteUser(w)
    PROVE  SuiteInvariant'
<1> DEFINE r == suiteWorker[w]
           x == [r EXCEPT !.at = "finishing"]
<1>1. suiteRun.at = "workers" /\ r.at = "testing" /\ UNCHANGED <<suiteRun, runFiles, verdict>>
      /\ suiteWorker' = [suiteWorker EXCEPT ![w] = x]
  BY DEF DeleteUser, Step
<1>2. r \in WorkerRecord /\ r.user \in {NoUser, Durable, Address(w)} BY WorkerTyped
<1>3. x \in WorkerRecord BY <1>2 DEF WorkerRecord
<1>4. x.at = "finishing" /\ x.user = r.user BY <1>2 DEF WorkerRecord
<1>5. \/ UNCHANGED suiteFaults /\ ephemeral' = {u \in ephemeral : [run |-> u.run, worker |-> u.worker] # r.user}
      \/ Faulty /\ UNCHANGED ephemeral
  BY DEF DeleteUser
<1> HIDE DEF r, x
<1>6. CASE Faulty /\ UNCHANGED ephemeral
  BY <1>1, <1>3, <1>4, <1>6, FaultsAreCounted, WorkerGoesOn DEF r
<1>7. CASE UNCHANGED suiteFaults /\ ephemeral' = {u \in ephemeral : [run |-> u.run, worker |-> u.worker] # r.user}
  <2>1. ASSUME NEW v \in Workers, v # w, Held(Address(v)) PROVE Held(Address(v))'
    <3>1. PICK u \in ephemeral : u.run = Address(v).run /\ u.worker = Address(v).worker BY <2>1 DEF Held
    <3>2. [run |-> u.run, worker |-> u.worker] = Address(v) BY <3>1 DEF Address
    <3>3. Address(v) # NoUser /\ Address(v) # Durable /\ Address(v) # Address(w) BY <2>1, NamesAre
    <3>4. Address(v)' = Address(v) BY <1>1 DEF Address
    <3> QED BY <1>2, <1>7, <3>1, <3>2, <3>3, <3>4 DEF Held
  <2>2. ephemeral' \subseteq UserRecord /\ ephemeral' \subseteq ephemeral
    BY <1>7 DEF SuiteInvariant, SuiteTypeOK
  <2>3. ASSUME NEW u \in ephemeral' PROVE UserSound(u)'
    <3>1. u \in ephemeral /\ r.user # [run |-> u.run, worker |-> u.worker] BY <1>7, <2>3
    <3> QED BY <1>1, <1>7, <3>1, FaultsAreCounted, UsersStay DEF r
  <2>4. suiteWorker'[w] = x BY <1>1 DEF SuiteInvariant, SuiteTypeOK
  <2>5. UNCHANGED suiteRun /\ Address(w)' = Address(w) BY <1>1 DEF Address
  <2>6. WorkerSound(w)' BY <1>2, <1>4, <2>4, <2>5 DEF WorkerSound
  <2> QED BY <1>1, <1>3, <1>4, <1>7, <2>1, <2>2, <2>3, <2>6, FaultsAreCounted, WorkerMoves DEF r
<1> QED BY <1>5, <1>6, <1>7

LEMMA JobIsCancelledKeeps ==
    ASSUME SuiteInvariant, JobIsCancelled
    PROVE  SuiteInvariant'
<1>1. suiteRun' = [suiteRun EXCEPT !.at = "gone"] /\ UNCHANGED <<suiteWorker, ephemeral, runFiles, verdict>>
  BY DEF JobIsCancelled
<1>2. suiteFaults' \in Nat /\ suiteFaults' # 0 BY FaultsAreCounted DEF JobIsCancelled
<1>3. suiteRun \in RunRecord BY DEF SuiteInvariant, SuiteTypeOK
<1>4. suiteRun' \in RunRecord BY <1>1, <1>3 DEF RunRecord
<1>5. suiteRun'.at = "gone" /\ suiteRun'.n = suiteRun.n BY <1>1, <1>3 DEF RunRecord
<1>6. \A v \in Workers : Address(v)' = Address(v) /\ (Held(Address(v)) => Held(Address(v))')
  BY <1>1, <1>5 DEF Address, Held
<1>7. \A v \in Workers : WorkerSound(v)' BY <1>1, <1>6 DEF SuiteInvariant, WorkerSound
<1>8. \A u \in ephemeral' : UserSound(u)' BY <1>1, <1>2, <1>5 DEF SuiteInvariant, UserSound
<1>9. FilesSound' BY <1>1, <1>5 DEF SuiteInvariant, FilesSound
<1>10. VerdictsAreOfTheRun' BY <1>5 DEF VerdictsAreOfTheRun
<1>11. SuiteTypeOK' BY <1>1, <1>2, <1>4 DEF SuiteInvariant, SuiteTypeOK
<1> QED BY <1>2, <1>5, <1>7, <1>8, <1>9, <1>10, <1>11 DEF SuiteInvariant

LEMMA WriteRecordsKeeps ==
    ASSUME SuiteInvariant, NEW w \in Workers, WriteRecords(w)
    PROVE  SuiteInvariant'
<1> DEFINE r == suiteWorker[w]
           x == [r EXCEPT !.at = "finished"]
           file == [sent |-> r.sent, noted |-> r.user = Durable]
           name == [run |-> suiteRun.n, worker |-> w]
<1>1. suiteRun.at = "workers" /\ r.at = "finishing" /\ UNCHANGED <<suiteRun, ephemeral, verdict, suiteFaults>>
      /\ suiteWorker' = [suiteWorker EXCEPT ![w] = x]
  BY DEF WriteRecords, Step
<1>2. runFiles' = [f \in DOMAIN runFiles \cup {name} |-> IF f = name THEN file ELSE runFiles[f]]
  BY DEF WriteRecords, RunDirectory
<1>3. r \in WorkerRecord /\ r.user \in {NoUser, Durable, Address(w)} BY WorkerTyped
<1>4. x \in WorkerRecord BY <1>3 DEF WorkerRecord
<1>5. x.at = "finished" /\ x.user = r.user /\ x.sent = r.sent BY <1>3 DEF WorkerRecord
<1>6. name.run = suiteRun.n /\ name.worker = w /\ name \in [run : Nat, worker : Workers] /\ suiteRun.n \in Nat
  BY DEF SuiteInvariant, SuiteTypeOK, RunRecord
<1>7. file.sent = r.sent OBVIOUS
<1>8. file.noted <=> r.user = Durable BY Zenon
<1>9. PICK m : m = name OBVIOUS
<1>10. PICK c : c = file OBVIOUS
<1> HIDE DEF r, x, file, name
<1>11. suiteWorker'[w] = x /\ suiteWorker' \in [Workers -> WorkerRecord]
       /\ \A v \in Workers : v # w => suiteWorker'[v] = suiteWorker[v]
  BY <1>1, <1>4 DEF SuiteInvariant, SuiteTypeOK
<1>12. DOMAIN runFiles' = DOMAIN runFiles \cup {m} /\ runFiles'[m] = c
       /\ \A f \in DOMAIN runFiles : f # m => runFiles'[f] = runFiles[f]
  BY <1>2, <1>9, <1>10
<1>13. SuiteTypeOK' BY <1>1, <1>6, <1>9, <1>11, <1>12 DEF SuiteInvariant, SuiteTypeOK
<1>14. ASSUME NEW v \in Workers PROVE WorkerSound(v)'
  <2>1. Address(v)' = Address(v) /\ (Held(Address(v)) <=> Held(Address(v))') BY <1>1 DEF Address, Held
  <2>2. CASE v = w BY <1>3, <1>5, <1>11, <2>1, <2>2 DEF WorkerSound
  <2>3. CASE v # w BY <1>11, <2>1, <2>3 DEF SuiteInvariant, WorkerSound
  <2> QED BY <2>2, <2>3
<1>15. \A u \in ephemeral' : UserSound(u)' BY <1>1, FaultsAreCounted, UsersStay DEF r
<1>16. \A f \in DOMAIN runFiles' : f.run <= suiteRun'.n
  BY <1>1, <1>6, <1>9, <1>12 DEF SuiteInvariant, FilesSound
<1>17. ASSUME NEW f \in FilesOfTheRun'
       PROVE  /\ suiteWorker'[f.worker].at = "finished" /\ runFiles'[f].sent = suiteWorker'[f.worker].sent
              /\ runFiles'[f].noted <=> suiteWorker'[f.worker].user = Durable
  <2>1. f \in DOMAIN runFiles' /\ f.run = suiteRun.n BY <1>1 DEF FilesOfTheRun, RunDirectory
  <2>2. CASE f = m
    <3>1. f.worker = w BY <1>6, <1>9, <2>2
    <3>2. runFiles'[f].sent = r.sent BY <1>7, <1>10, <1>12, <2>2
    <3>3. runFiles'[f].noted <=> r.user = Durable BY <1>8, <1>10, <1>12, <2>2, Zenon
    <3>4. suiteWorker'[f.worker].at = "finished" /\ suiteWorker'[f.worker].sent = r.sent
          /\ suiteWorker'[f.worker].user = r.user
      BY <1>5, <1>11, <3>1
    <3> QED BY <3>2, <3>3, <3>4, Zenon
  <2>3. CASE f # m
    <3>1. f \in FilesOfTheRun BY <1>12, <2>1, <2>3 DEF FilesOfTheRun, RunDirectory
    <3>2. /\ suiteWorker[f.worker].at = "finished" /\ runFiles[f].sent = suiteWorker[f.worker].sent
          /\ runFiles[f].noted <=> suiteWorker[f.worker].user = Durable
      BY <1>1, <3>1, Zenon DEF SuiteInvariant, FilesSound
    <3>3. f.worker \in Workers /\ f.worker # w
      BY <1>1, <3>1, <3>2 DEF r, SuiteInvariant, SuiteTypeOK, FilesOfTheRun
    <3>4. suiteWorker'[f.worker] = suiteWorker[f.worker] /\ runFiles'[f] = runFiles[f]
      BY <1>11, <1>12, <2>3, <3>1, <3>3 DEF FilesOfTheRun
    <3> QED BY <3>2, <3>4, Zenon
  <2> QED BY <2>2, <2>3
<1>18. ASSUME NEW v \in WorkersThat("finished")' PROVE [run |-> suiteRun'.n, worker |-> v] \in DOMAIN runFiles'
  <2>1. v \in Workers /\ suiteWorker'[v].at = "finished" BY DEF WorkersThat
  <2>2. CASE v = w BY <1>1, <1>9, <1>12, <2>2 DEF name
  <2>3. CASE v # w BY <1>1, <1>11, <1>12, <2>1, <2>3 DEF SuiteInvariant, FilesSound, WorkersThat
  <2> QED BY <2>2, <2>3
<1>19. Durable' = Durable BY DEF Durable
<1>20. FilesSound' BY <1>16, <1>17, <1>18, <1>19, Zenon DEF FilesSound
<1>21. VerdictsAreOfTheRun' BY <1>1 DEF VerdictsAreOfTheRun
<1> QED BY <1>1, <1>13, <1>14, <1>15, <1>20, <1>21 DEF SuiteInvariant

LEMMA NextRunKeeps ==
    ASSUME SuiteInvariant, NextRun
    PROVE  SuiteInvariant'
<1>1. suiteRun' = [n |-> suiteRun.n + 1, hours |-> 0, at |-> "workers"] /\ UNCHANGED <<ephemeral, runFiles, suiteFaults>>
      /\ suiteWorker' = [v \in Workers |-> FreshWorker] /\ suiteRun.at \in {"judged", "gone"}
  BY DEF NextRun
<1>2. suiteRun.n \in Nat \ {0} BY DEF SuiteInvariant, SuiteTypeOK, RunRecord
<1>3. suiteRun' \in RunRecord /\ suiteRun'.at = "workers" /\ suiteRun'.hours = 0 /\ suiteRun'.n = suiteRun.n + 1
  BY <1>1, <1>2 DEF RunRecord
<1>4. FreshWorker \in WorkerRecord /\ FreshWorker.at = "starting" /\ FreshWorker.user = NoUser
  BY SuiteAssumption DEF FreshWorker, WorkerRecord, NoUser, SuiteAssumption
<1>5. SuiteTypeOK' BY <1>1, <1>3, <1>4 DEF SuiteInvariant, SuiteTypeOK
<1>6. \A v \in Workers : suiteWorker'[v].at = "starting" /\ suiteWorker'[v].user = NoUser BY <1>1, <1>4
<1>7. ASSUME NEW v \in Workers PROVE WorkerSound(v)'
  <2>1. NoUser' = NoUser BY DEF NoUser
  <2> QED BY <1>6, <2>1 DEF WorkerSound
<1>8. ASSUME NEW u \in ephemeral' PROVE UserSound(u)'
  <2>1. u \in UserRecord /\ UserSound(u) BY <1>1 DEF SuiteInvariant, SuiteTypeOK
  <2>2. u.run \in Nat /\ u.worker \in Workers BY <2>1 DEF UserRecord
  <2>3. u.run <= suiteRun.n BY <2>1 DEF UserSound
  <2>4. suiteFaults # 0
    <3>1. CASE suiteRun.at = "gone" BY <3>1, FaultsAreCounted DEF SuiteInvariant
    <3>2. CASE suiteRun.at = "judged"
      <4>1. suiteWorker[u.worker].at # "testing" BY <2>2, <3>2 DEF SuiteInvariant
      <4> QED BY <2>1, <4>1 DEF UserSound
    <3> QED BY <1>1, <3>1, <3>2
  <2>5. u.run <= suiteRun'.n /\ u.run # suiteRun'.n BY <1>2, <1>3, <2>2, <2>3
  <2> QED BY <1>1, <2>4, <2>5 DEF UserSound
<1>9. FilesSound'
  <2>1. ASSUME NEW f \in DOMAIN runFiles' PROVE f.run <= suiteRun'.n /\ f.run # suiteRun'.n
    <3>1. f.run \in Nat /\ f.run <= suiteRun.n BY <1>1 DEF SuiteInvariant, SuiteTypeOK, FilesSound
    <3> QED BY <1>2, <1>3, <3>1
  <2>2. FilesOfTheRun' = {} BY <2>1 DEF FilesOfTheRun, RunDirectory
  <2>3. WorkersThat("finished")' = {} BY <1>6 DEF WorkersThat
  <2> QED BY <2>1, <2>2, <2>3 DEF FilesSound
<1>10. VerdictsAreOfTheRun' BY <1>3 DEF VerdictsAreOfTheRun
<1>11. suiteRun'.hours <= RunHours BY <1>3, SuiteAssumption DEF SuiteAssumption
<1> QED BY <1>3, <1>5, <1>7, <1>8, <1>9, <1>10, <1>11 DEF SuiteInvariant

LEMMA HourPassesKeeps ==
    ASSUME SuiteInvariant, HourPasses
    PROVE  SuiteInvariant'
<1> DEFINE Older(u) == [u EXCEPT !.age = IF @ < SweepAge THEN @ + 1 ELSE @]
<1>1. ephemeral' = {Older(u) : u \in ephemeral} /\ UNCHANGED <<suiteWorker, runFiles, verdict, suiteFaults>>
      /\ (suiteRun.at = "workers" => suiteRun.hours < RunHours)
  BY DEF HourPasses
<1>2. suiteRun \in RunRecord BY DEF SuiteInvariant, SuiteTypeOK
<1>3. suiteRun' \in RunRecord /\ suiteRun'.n = suiteRun.n /\ suiteRun'.at = suiteRun.at
      /\ suiteRun'.hours = IF suiteRun.at = "workers" THEN suiteRun.hours + 1 ELSE suiteRun.hours
  BY <1>2 DEF HourPasses, RunRecord
<1>4. \A u \in ephemeral : /\ Older(u) \in UserRecord /\ Older(u).run = u.run /\ Older(u).worker = u.worker
                           /\ Older(u).age <= u.age + 1 /\ u.age \in Nat
  <2>1. SUFFICES ASSUME NEW u \in ephemeral
                 PROVE  /\ Older(u) \in UserRecord /\ Older(u).run = u.run /\ Older(u).worker = u.worker
                        /\ Older(u).age <= u.age + 1 /\ u.age \in Nat
    OBVIOUS
  <2>2. u \in UserRecord BY DEF SuiteInvariant, SuiteTypeOK
  <2> QED BY <2>2 DEF UserRecord
<1> HIDE DEF Older
<1>5. SuiteTypeOK' BY <1>1, <1>3, <1>4 DEF SuiteInvariant, SuiteTypeOK
<1>6. ASSUME NEW v \in Workers PROVE WorkerSound(v)'
  <2>1. Address(v)' = Address(v) BY <1>3 DEF Address
  <2>2. Held(Address(v)) => Held(Address(v))' BY <1>1, <1>4, <2>1 DEF Held
  <2> QED BY <1>1, <2>1, <2>2 DEF SuiteInvariant, WorkerSound
<1>7. ASSUME NEW u \in ephemeral' PROVE UserSound(u)'
  <2>1. PICK o \in ephemeral : u = Older(o) BY <1>1
  <2>2. u.run = o.run /\ u.worker = o.worker /\ u.age <= o.age + 1 /\ u.age \in Nat /\ o.age \in Nat
    BY <1>4, <2>1 DEF UserRecord
  <2>3. UserSound(o) BY DEF SuiteInvariant
  <2>4. ASSUME suiteRun'.at = "workers", u.run = suiteRun'.n PROVE u.age <= suiteRun'.hours
    <3>1. o.age <= suiteRun.hours /\ suiteRun.hours \in Nat BY <1>2, <1>3, <2>2, <2>3, <2>4 DEF UserSound, RunRecord
    <3>2. suiteRun'.hours = suiteRun.hours + 1 BY <1>3, <2>4
    <3> QED BY <2>2, <3>1, <3>2
  <2>5. Address(u.worker)' = Address(o.worker) BY <1>3, <2>2 DEF Address
  <2> QED BY <1>1, <1>3, <2>2, <2>3, <2>4, <2>5 DEF UserSound
<1>8. suiteRun'.at = "workers" => suiteRun'.hours <= RunHours
  BY <1>1, <1>2, <1>3, SuiteAssumption DEF RunRecord, SuiteAssumption
<1>9. FilesSound' BY <1>1, <1>3 DEF SuiteInvariant, FilesSound, FilesOfTheRun, RunDirectory, WorkersThat
<1>10. VerdictsAreOfTheRun'
  BY <1>1, <1>3 DEF SuiteInvariant, VerdictsAreOfTheRun, SentBy, WorkersThat
<1> QED BY <1>1, <1>3, <1>5, <1>6, <1>7, <1>8, <1>9, <1>10 DEF SuiteInvariant

\* What the controller reads back is what the workers that finished sent.
LEMMA FilesAreTheFinished ==
    ASSUME SuiteInvariant, suiteRun.at = "workers"
    PROVE  /\ UNION {runFiles[f].sent : f \in FilesOfTheRun} = SentBy(WorkersThat("finished"))
           /\ {f.worker : f \in {g \in FilesOfTheRun : runFiles[g].noted}}
                = {w \in WorkersThat("finished") : suiteWorker[w].user = Durable}
<1>1. \A f \in FilesOfTheRun : f \in [run : Nat, worker : Workers] /\ f.run = suiteRun.n
  BY DEF SuiteInvariant, SuiteTypeOK, FilesOfTheRun, RunDirectory
<1>2. \A f \in FilesOfTheRun : /\ suiteWorker[f.worker].at = "finished" /\ runFiles[f].sent = suiteWorker[f.worker].sent
                               /\ runFiles[f].noted <=> suiteWorker[f.worker].user = Durable
  BY Zenon DEF SuiteInvariant, FilesSound
<1>3. \A w \in WorkersThat("finished") : \E f \in FilesOfTheRun : f.worker = w
  <2>1. SUFFICES ASSUME NEW w \in WorkersThat("finished") PROVE \E f \in FilesOfTheRun : f.worker = w OBVIOUS
  <2>2. [run |-> suiteRun.n, worker |-> w] \in FilesOfTheRun
    BY DEF SuiteInvariant, FilesSound, FilesOfTheRun, RunDirectory
  <2> QED BY <2>2
<1>4. \A f \in FilesOfTheRun : f.worker \in WorkersThat("finished") BY <1>1, <1>2 DEF WorkersThat
<1>5. \A f \in FilesOfTheRun : runFiles[f].sent = suiteWorker[f.worker].sent BY <1>2, Zenon
<1>6. UNION {runFiles[f].sent : f \in FilesOfTheRun} = SentBy(WorkersThat("finished"))
  <2>1. ASSUME NEW q, \E f \in FilesOfTheRun : q \in runFiles[f].sent
        PROVE  \E w \in WorkersThat("finished") : q \in suiteWorker[w].sent
    BY <1>4, <1>5, <2>1
  <2>2. ASSUME NEW q, \E w \in WorkersThat("finished") : q \in suiteWorker[w].sent
        PROVE  \E f \in FilesOfTheRun : q \in runFiles[f].sent
    BY <1>3, <1>5, <2>2
  <2> QED BY <2>1, <2>2 DEF SentBy
<1>7. {f.worker : f \in {g \in FilesOfTheRun : runFiles[g].noted}}
        = {w \in WorkersThat("finished") : suiteWorker[w].user = Durable}
  <2> DEFINE noted == {g \in FilesOfTheRun : runFiles[g].noted}
  <2>1. \A f \in FilesOfTheRun : f \in noted <=> suiteWorker[f.worker].user = Durable BY <1>2, Zenon
  <2>2. noted \subseteq FilesOfTheRun OBVIOUS
  <2> HIDE DEF noted
  <2>3. {f.worker : f \in noted} = {w \in WorkersThat("finished") : suiteWorker[w].user = Durable}
    BY <1>3, <1>4, <2>1, <2>2
  <2> QED BY <2>3 DEF noted
<1> QED BY <1>6, <1>7

LEMMA ControllerJudgesKeeps ==
    ASSUME SuiteInvariant, NEW swept \in BOOLEAN, NEW delivered, ControllerJudges(swept, delivered)
    PROVE  SuiteInvariant'
<1> DEFINE finished == SentBy(WorkersThat("finished"))
           entries == finished \cap delivered
           vacuous == swept /\ finished # {} /\ entries = {}
           bad == \/ vacuous
                  \/ swept /\ (AnsweredWithServerError(entries) # {} \/ UnmatchedEntries(entries) # {})
                  \/ finished = {} \/ Uncovered(finished) # {}
           notes == {w \in WorkersThat("finished") : suiteWorker[w].user = Durable}
<1>1. /\ suiteRun.at = "workers" /\ \A w \in Workers : suiteWorker[w].at \in {"finished", "dead"}
      /\ runFiles' = [f \in DOMAIN runFiles \ FilesOfTheRun |-> runFiles[f]]
      /\ suiteRun' = [suiteRun EXCEPT !.at = "judged"]
      /\ UNCHANGED <<suiteWorker, ephemeral, suiteFaults>>
  BY DEF ControllerJudges
<1>2. suiteRun \in RunRecord BY DEF SuiteInvariant, SuiteTypeOK
<1>3. suiteRun' \in RunRecord BY <1>1, <1>2 DEF RunRecord
<1>4. suiteRun'.at = "judged" /\ suiteRun'.n = suiteRun.n BY <1>1, <1>2 DEF RunRecord
<1>5. verdict' = [failed |-> bad, vacuous |-> vacuous, swept |-> swept, notes |-> notes, delivered |-> delivered]
  <2>1. verdict' = Judged(finished, swept, delivered) BY <1>1, FilesAreTheFinished DEF ControllerJudges
  <2>2. {f.worker : f \in {g \in FilesOfTheRun : runFiles[g].noted}} = notes BY <1>1, FilesAreTheFinished
  <2> QED BY <2>1, <2>2, Zenon DEF Judged, Correlated
<1>6. verdict'.notes = notes /\ verdict'.delivered = delivered BY <1>5
<1>7. (verdict'.failed <=> bad) /\ (verdict'.vacuous <=> vacuous) /\ (verdict'.swept <=> swept)
  <2> HIDE DEF bad, vacuous, notes
  <2> QED BY <1>5, Zenon
<1>8. DOMAIN runFiles' \subseteq DOMAIN runFiles BY <1>1
<1>9. SuiteTypeOK' BY <1>1, <1>3, <1>8 DEF SuiteInvariant, SuiteTypeOK
<1>10. ASSUME NEW v \in Workers PROVE WorkerSound(v)'
  <2>1. Address(v)' = Address(v) /\ (Held(Address(v)) => Held(Address(v))') BY <1>1, <1>4 DEF Address, Held
  <2> QED BY <1>1, <2>1 DEF SuiteInvariant, WorkerSound
<1>11. ASSUME NEW u \in ephemeral' PROVE UserSound(u)'
  <2>1. Address(u.worker)' = Address(u.worker) BY <1>4 DEF Address
  <2> QED BY <1>1, <1>4, <2>1 DEF SuiteInvariant, UserSound
<1>12. FilesSound' BY <1>4, <1>8 DEF SuiteInvariant, FilesSound
<1>13. VerdictsAreOfTheRun'
  <2>1. SentBy(WorkersThat("finished"))' = finished /\ WorkersThat("finished")' = WorkersThat("finished")
    BY <1>1 DEF SentBy, WorkersThat
  <2>2. {w \in WorkersThat("finished") : suiteWorker[w].user = Durable}' = notes
    BY <1>1, <2>1 DEF Durable
  <2>3. AnsweredWithServerError(entries) \subseteq AnsweredWithServerError(finished)
        /\ UnmatchedEntries(entries) \subseteq UnmatchedEntries(finished)
    BY DEF AnsweredWithServerError, UnmatchedEntries
  <2>4. ~bad => Uncovered(finished) = {} /\ finished # {} OBVIOUS
  <2>5. ~bad /\ swept => AnsweredWithServerError(entries) \cup UnmatchedEntries(entries) = {} OBVIOUS
  <2>6. bad => \/ vacuous \/ finished = {} \/ Uncovered(finished) # {}
                  \/ AnsweredWithServerError(finished) \cup UnmatchedEntries(finished) # {}
    BY <2>3
  <2> HIDE DEF finished, bad, vacuous, notes
  <2>7. /\ ~verdict'.failed => Uncovered(finished) = {} /\ finished # {}
        /\ (~verdict'.failed /\ verdict'.swept) =>
             AnsweredWithServerError(finished \cap verdict'.delivered) \cup UnmatchedEntries(finished \cap verdict'.delivered) = {}
        /\ verdict'.failed => \/ verdict'.vacuous \/ finished = {} \/ Uncovered(finished) # {}
                              \/ AnsweredWithServerError(finished) \cup UnmatchedEntries(finished) # {}
        /\ verdict'.notes = notes
    BY <1>6, <1>7, <2>4, <2>5, <2>6, Zenon
  <2> QED BY <2>1, <2>2, <2>7, Zenon
           DEF VerdictsAreOfTheRun, Uncovered, CoveredRoutes, AnsweredWithServerError, Excused, UnmatchedEntries
<1> QED BY <1>1, <1>4, <1>9, <1>10, <1>11, <1>12, <1>13 DEF SuiteInvariant

LEMMA SuiteStarts == SuiteInit => SuiteInvariant
<1> SUFFICES ASSUME SuiteInit PROVE SuiteInvariant
  OBVIOUS
<1>1. FreshWorker \in WorkerRecord /\ FreshWorker.at = "starting" /\ FreshWorker.user = NoUser
  BY SuiteAssumption DEF FreshWorker, WorkerRecord, NoUser, SuiteAssumption
<1>2. DOMAIN runFiles = {} BY DEF SuiteInit
<1>3. suiteRun \in RunRecord /\ suiteRun.at = "workers" /\ suiteRun.hours = 0 BY DEF SuiteInit, RunRecord
<1>4. SuiteTypeOK BY <1>1, <1>2, <1>3 DEF SuiteInit, SuiteTypeOK
<1>5. \A w \in Workers : suiteWorker[w].at = "starting" /\ suiteWorker[w].user = NoUser BY <1>1 DEF SuiteInit
<1>6. \A w \in Workers : WorkerSound(w) BY <1>5 DEF WorkerSound
<1>7. FilesSound BY <1>2, <1>5 DEF FilesSound, FilesOfTheRun, WorkersThat
<1>8. VerdictsAreOfTheRun BY <1>3 DEF VerdictsAreOfTheRun
<1>9. suiteRun.hours <= RunHours BY <1>3, SuiteAssumption DEF SuiteAssumption
<1> QED BY <1>3, <1>4, <1>6, <1>7, <1>8, <1>9 DEF SuiteInit, SuiteInvariant

LEMMA SuiteKeeps == SuiteInvariant /\ [SuiteNext]_suiteVars => SuiteInvariant'
<1> SUFFICES ASSUME SuiteInvariant, [SuiteNext]_suiteVars PROVE SuiteInvariant'
  OBVIOUS
<1>1. ASSUME NEW w \in Workers, SweepLeftovers(w) PROVE SuiteInvariant' BY <1>1, SweepLeftoversKeeps
<1>2. ASSUME NEW w \in Workers, CreateUser(w) PROVE SuiteInvariant' BY <1>2, CreateUserKeeps
<1>3. ASSUME NEW w \in Workers, GatewayRefuses(w) \/ FallBack(w) \/ (\E q \in Requests : SendRequest(w, q))
      PROVE SuiteInvariant'
  BY <1>3, WorkerTriesOrSends
<1>4. ASSUME NEW w \in Workers, DeleteUser(w) PROVE SuiteInvariant' BY <1>4, DeleteUserKeeps
<1>5. ASSUME NEW w \in Workers, WriteRecords(w) PROVE SuiteInvariant' BY <1>5, WriteRecordsKeeps
<1>6. ASSUME NEW w \in Workers, WorkerDies(w) PROVE SuiteInvariant' BY <1>6, WorkerDiesKeeps
<1>7. CASE ControllerJudges(FALSE, {}) BY <1>7, ControllerJudgesKeeps
<1>8. ASSUME NEW delivered \in SUBSET SentBy(Workers), ControllerJudges(TRUE, delivered) PROVE SuiteInvariant'
  BY <1>8, ControllerJudgesKeeps
<1>9. CASE JobIsCancelled BY <1>9, JobIsCancelledKeeps
<1>10. CASE NextRun BY <1>10, NextRunKeeps
<1>11. CASE HourPasses BY <1>11, HourPassesKeeps
<1>12. CASE UNCHANGED suiteVars
  <2>1. UNCHANGED <<suiteRun, suiteWorker, ephemeral, runFiles, verdict, suiteFaults>> BY <1>12 DEF suiteVars
  <2>2. FilesOfTheRun' = FilesOfTheRun /\ WorkersThat("finished")' = WorkersThat("finished")
    BY <2>1 DEF FilesOfTheRun, RunDirectory, WorkersThat
  <2>3. \A w \in Workers : WorkerSound(w)' BY <2>1 DEF SuiteInvariant, WorkerSound, Held, Address
  <2>4. \A u \in ephemeral' : UserSound(u)' BY <2>1 DEF SuiteInvariant, UserSound, Address
  <2>5. FilesSound' BY <2>1, <2>2 DEF SuiteInvariant, FilesSound
  <2>6. SuiteTypeOK' BY <2>1 DEF SuiteInvariant, SuiteTypeOK
  <2>7. VerdictsAreOfTheRun' BY <2>1 DEF SuiteInvariant, VerdictsAreOfTheRun, SentBy, WorkersThat
  <2> QED BY <2>1, <2>3, <2>4, <2>5, <2>6, <2>7 DEF SuiteInvariant
<1> QED BY <1>1, <1>2, <1>3, <1>4, <1>5, <1>6, <1>7, <1>8, <1>9, <1>10, <1>11, <1>12 DEF SuiteNext

LEMMA SoundRunsSpeakForThemselves ==
    ASSUME SuiteInvariant PROVE RunsSpeakForThemselves
<1>1. ASSUME NEW w \in WorkersThat("testing"), suiteWorker[w].user \notin {NoUser, Durable}
      PROVE  /\ Held(suiteWorker[w].user)
             /\ \A v \in Workers \ {w} : suiteWorker[v].at = "testing" => suiteWorker[v].user # suiteWorker[w].user
  <2>1. w \in Workers /\ suiteWorker[w].at = "testing" BY DEF WorkersThat
  <2>2. suiteWorker[w].user = Address(w) /\ Held(Address(w))
    BY <1>1, <2>1 DEF SuiteInvariant, WorkerSound
  <2>3. ASSUME NEW v \in Workers \ {w} PROVE suiteWorker[v].user # Address(w)
    <3>1. suiteWorker[v].user \in {NoUser, Durable, Address(v)} BY DEF SuiteInvariant, WorkerSound
    <3>2. Address(w) # NoUser /\ Address(w) # Durable /\ Address(v) # Address(w) BY <2>1, NamesAre
    <3> QED BY <3>1, <3>2
  <2> QED BY <2>2, <2>3
<1>2. suiteFaults = 0 => \A u \in ephemeral : u.run = suiteRun.n /\ suiteWorker[u.worker].at = "testing"
  BY DEF SuiteInvariant, UserSound
<1>3. WorkersKeepTheirUsers BY <1>1, <1>2 DEF WorkersKeepTheirUsers
<1> QED BY <1>3 DEF SuiteInvariant, RunsSpeakForThemselves

\* What the dispatcher records of a delivery is what became of it; and the suite's verdict
\* is of its own run, its workers keep the users they signed in as, and their callers
\* refresh a shared session once (dispatch.py; e2e/runwide.py, identity.py and client.py).
THEOREM TrueReports ==
    DispatchSpec /\ (SuiteInit /\ [][SuiteNext]_suiteVars) /\ (SessionInit /\ [][SessionNext]_sessionVars)
      => []ReportsAreTrue
<1>1. DispatchSpec => []OutcomesAreTrue BY SoundDispatch
<1>2. SuiteInit /\ [][SuiteNext]_suiteVars => []RunsSpeakForThemselves
  BY SuiteStarts, SuiteKeeps, SoundRunsSpeakForThemselves, PTL
<1>3. SessionInit /\ [][SessionNext]_sessionVars => []SessionsAreRefreshedOnce
  BY SessionStarts, SessionKeeps, SoundSessionsRefreshOnce, PTL
<1> QED BY <1>1, <1>2, <1>3, PTL DEF ReportsAreTrue, SuitesAreSound

-----------------------------------------------------------------------------
(* The HTTP layer.                                                         *)

ServiceLayers == {"product", "cors", "requestId", "log"}
Layers == ServiceLayers \cup {"serverError", "otel", "guard", "handlers"}

\* What a stack has above the middleware of the application: its outer layers.
OtelLayers(a) == IF \E i \in DOMAIN a.wraps : a.wraps[i] = "otel" THEN 3 ELSE 1
Depth(a) == OtelLayers(a) + (IF a.guarded THEN 1 ELSE 0)

\* The layer at each place of a stack so built.
LayerAt(outer, depth, user, l) ==
    IF l > depth + Len(user) THEN "handlers"
    ELSE IF l > depth THEN user[l - depth]
    ELSE IF l > outer THEN "guard"
    ELSE IF l = 2 THEN "otel" ELSE "serverError"

ShapedAs(stack, outer, depth, user) ==
    /\ stack \in Seq(Layers) /\ Len(stack) = depth + Len(user) + 1
    /\ \A l \in 1 .. depth + Len(user) + 1 : stack[l] = LayerAt(outer, depth, user, l)

BuiltAs(a, stack) == ShapedAs(stack, OtelLayers(a), Depth(a), a.user)

AppRecord ==
    [made : {"no", "bare", "create_app", "with_origins"}, user : Seq(ServiceLayers), wraps : Seq({"guard", "otel"}), guarded : BOOLEAN,
     built : Seq(Layers)]

\* An application is guarded and instrumented once each, and its stack is of that
\* shape once it is built.
AppSound(a) ==
    /\ a \in AppRecord
    /\ \A i, j \in DOMAIN a.wraps : a.wraps[i] = a.wraps[j] => i = j
    /\ a.guarded <=> \E i \in DOMAIN a.wraps : a.wraps[i] = "guard"
    /\ a.made = "no" => a.built = <<>> /\ a.wraps = <<>>
    /\ a.made = "with_origins" => a.guarded /\ \E i \in DOMAIN a.user : a.user[i] = "cors"
    /\ a.built # <<>> => BuiltAs(a, a.built)

Errors == [group : BOOLEAN, leaves : Seq(Kinds)]
Responders == {"route", "handlers", "guard", "serverError"}

WireRecord ==
    [at : {"idle", "inside", "rising", "failing", "streaming", "done"}, layer : Nat, error : Errors, seen : Nat, status : Nat,
     by : Responders \cup {""}, cors : BOOLEAN, starts : Nat, line : Nat, escaped : Errors, raised : Nat, kinds : SUBSET Kinds,
     above : BOOLEAN, lone : BOOLEAN]

\* How far a response has come, and whether the server has one.
Placed(r) ==
    /\ r.starts = IF r.seen = 0 THEN 1 ELSE 0
    /\ r.at = "inside" => r.seen = Bottom /\ r.status = 0
    /\ r.at = "rising" => r.layer < r.seen /\ r.layer <= Len(Stack) /\ r.by \in Responders
    /\ r.at = "failing" => (r.seen = 0 \/ r.layer < r.seen) /\ r.layer <= Len(Stack)
    /\ r.at = "streaming" => r.seen = 0

\* What is on its way out: above the guard no group with a fault in it, and above
\* everything nothing that a layer would have answered.
Outbound(r) ==
    r.at = "failing" =>
        /\ Len(r.error.leaves) > 0
        /\ ~r.error.group => Len(r.error.leaves) = 1
        /\ app.guarded /\ r.layer < Depth(app) => ~r.error.group \/ OnlyCancelled(r.error)
        /\ r.layer = 0 => r.seen = 0 \/ "cancel" \in ToSet(r.error.leaves)
        /\ ~r.above => ToSet(r.error.leaves) \subseteq r.kinds
        /\ ~r.above /\ ~r.lone /\ ~r.error.group /\ r.layer < Len(Stack) /\ r.seen # 0 => r.error.leaves[1] \in {"fault", "cancel"}

RendersFault(r) == \E kind \in r.kinds \ {"cancel"} : Rendered(kind) = 500

\* What became of it.
Concluded(r) ==
    /\ r.by = "serverError" /\ r.at \in {"rising", "streaming"} /\ app.guarded => ~r.escaped.group
    /\ r.at = "done" /\ r.starts = 0 => "cancel" \in ToSet(r.escaped.leaves)
    /\ app.guarded /\ r.status = 500 /\ ~r.above /\ ~r.lone => RendersFault(r)

\* The headers a response has from the layers it has passed.
Headed(r) ==
    app.made = "with_origins" =>
        /\ r.at = "rising" /\ r.by \in {"route", "handlers"} => \A l \in DOMAIN Stack : Stack[l] = "cors" /\ r.layer < l => r.cors
        /\ r.at = "rising" /\ r.by = "guard" => r.cors
        /\ r.seen = 0 => r.by \in Responders /\ (r.by # "serverError" => r.cors)

\* A request that has arrived.
Sound(r) == r \in WireRecord /\ Placed(r) /\ Outbound(r) /\ Concluded(r) /\ Headed(r)

WireInvariant ==
    /\ DOMAIN wire = HttpRequests /\ worker \in BOOLEAN
    /\ \A q \in HttpRequests : wire[q] = Unsent \/ (wire[q].at # "idle" /\ ~Mutable /\ Sound(wire[q]))
    /\ app.guarded => worker
    /\ ~worker => \E q \in HttpRequests : wire[q].at = "done"

\* The guard goes right beneath the innermost ServerErrorMiddleware.
LEMMA GuardGoesBeneath ==
    ASSUME NEW stack \in Seq(Layers), NEW top \in DOMAIN stack, stack[top] = "serverError",
           \A i \in DOMAIN stack : stack[i] # "guard" /\ (i > top => stack[i] # "serverError"),
           NEW under, under = GuardBeneath(stack)
    PROVE  /\ under \in Seq(Layers) /\ Len(under) = Len(stack) + 1
           /\ \A i \in 1 .. Len(stack) + 1 :
                under[i] = IF i <= top THEN stack[i] ELSE IF i = top + 1 THEN "guard" ELSE stack[i - 1]
<1> DEFINE errors == Positions(stack, "serverError")
<1>1. top \in errors BY DEF Positions
<1>2. \A i \in errors : i \in 1 .. Len(stack) /\ top >= i BY DEF Positions
<1>3. top = CHOOSE i \in errors : \A j \in errors : i >= j
  <2>1. \A i \in errors : (\A j \in errors : i >= j) => i = top BY <1>1, <1>2
  <2>2. \A j \in errors : top >= j BY <1>2
  <2> QED BY <1>1, <2>1, <2>2
<1>4. "guard" \notin ToSet(stack) BY DEF ToSet
<1>5. under = InsertAt(stack, 1 + top, "guard") BY <1>1, <1>3, <1>4 DEF GuardBeneath
<1>6. top \in 1 .. Len(stack) /\ Len(stack) \in Nat OBVIOUS
<1>7. PICK above \in Seq(Layers) : above = SubSeq(stack, 1, top) /\ Len(above) = top /\ \A i \in 1 .. top : above[i] = stack[i]
  <2>1. /\ SubSeq(stack, 1, top) \in Seq(Layers) /\ Len(SubSeq(stack, 1, top)) = top
        /\ \A i \in 1 .. top : SubSeq(stack, 1, top)[i] = stack[i]
    BY <1>6
  <2> QED BY <2>1
<1>8. PICK below \in Seq(Layers) : /\ below = SubSeq(stack, top + 1, Len(stack)) /\ Len(below) = Len(stack) - top
                                   /\ \A i \in 1 .. Len(stack) - top : below[i] = stack[top + i]
  <2>1. /\ SubSeq(stack, top + 1, Len(stack)) \in Seq(Layers) /\ Len(SubSeq(stack, top + 1, Len(stack))) = Len(stack) - top
        /\ \A i \in 1 .. Len(stack) - top : SubSeq(stack, top + 1, Len(stack))[i] = stack[top + i]
    BY <1>6
  <2> QED BY <2>1
<1>9. PICK guard \in Seq(Layers) : guard = <<"guard">> /\ Len(guard) = 1 /\ guard[1] = "guard"
  <2>1. <<"guard">> \in Seq(Layers) BY DEF Layers
  <2> QED BY <2>1
<1>10. under = (above \o guard) \o below
  <2>1. (1 + top) - 1 = top /\ 1 + top = top + 1 BY <1>6
  <2>2. under = SubSeq(stack, 1, (1 + top) - 1) \o <<"guard">> \o SubSeq(stack, 1 + top, Len(stack))
    BY <1>5, Zenon DEF InsertAt
  <2>3. under = SubSeq(stack, 1, top) \o <<"guard">> \o SubSeq(stack, top + 1, Len(stack)) BY <2>1, <2>2, Zenon
  <2> QED BY <1>7, <1>8, <1>9, <2>3, Zenon
<1>11. PICK upper \in Seq(Layers) : /\ upper = above \o guard /\ Len(upper) = top + 1
                                    /\ \A i \in 1 .. top + 1 : upper[i] = IF i <= top THEN stack[i] ELSE "guard"
  <2>1. /\ above \o guard \in Seq(Layers) /\ Len(above \o guard) = top + 1
        /\ \A i \in 1 .. top + 1 : (above \o guard)[i] = IF i <= top THEN above[i] ELSE guard[i - top]
    BY <1>6, <1>7, <1>9, ConcatProperties
  <2>2. \A i \in 1 .. top + 1 : ~(i <= top) => i - top = 1 BY <1>6
  <2>3. ASSUME NEW i \in 1 .. top + 1 PROVE (above \o guard)[i] = IF i <= top THEN stack[i] ELSE "guard"
    <3>1. CASE i <= top
      <4>1. i \in 1 .. top BY <1>6, <3>1
      <4> QED BY <1>7, <2>1, <3>1, <4>1
    <3>2. CASE ~(i <= top) BY <1>9, <2>1, <2>2, <3>2
    <3> QED BY <3>1, <3>2
  <2> QED BY <2>1, <2>3
<1>12. /\ under \in Seq(Layers) /\ Len(under) = top + 1 + (Len(stack) - top)
       /\ \A i \in 1 .. top + 1 + (Len(stack) - top) : under[i] = IF i <= top + 1 THEN upper[i] ELSE below[i - (top + 1)]
  <2>1. under = upper \o below BY <1>10, <1>11
  <2>2. /\ upper \o below \in Seq(Layers) /\ Len(upper \o below) = Len(upper) + Len(below)
        /\ \A i \in 1 .. Len(upper) + Len(below) :
             (upper \o below)[i] = IF i <= Len(upper) THEN upper[i] ELSE below[i - Len(upper)]
    BY ConcatProperties
  <2> QED BY <1>8, <1>11, <2>1, <2>2
<1>13. ASSUME NEW i \in 1 .. Len(stack) + 1
       PROVE  under[i] = IF i <= top THEN stack[i] ELSE IF i = top + 1 THEN "guard" ELSE stack[i - 1]
  <2>1. top \in Nat /\ i \in Nat /\ top + 1 + (Len(stack) - top) = Len(stack) + 1 BY <1>6
  <2>2. under[i] = IF i <= top + 1 THEN upper[i] ELSE below[i - (top + 1)] BY <1>12, <2>1
  <2>3. CASE i <= top + 1
    <3>1. under[i] = upper[i] /\ i \in 1 .. top + 1 BY <2>1, <2>2, <2>3
    <3>2. i <= top \/ i = top + 1 BY <2>1, <2>3
    <3> QED BY <1>11, <2>1, <3>1, <3>2
  <2>4. CASE ~(i <= top + 1)
    <3> DEFINE j == i - (top + 1)
    <3>1. j \in 1 .. Len(stack) - top /\ top + j = i - 1
      <4>1. PICK n \in Nat : n = Len(stack) BY <1>6
      <4>2. top \in Nat /\ i \in Nat /\ top <= n /\ i > top + 1 /\ i <= n + 1 BY <1>6, <2>1, <2>4, <4>1
      <4>3. j \in 1 .. n - top BY <4>2
      <4>4. top + j = i - 1 BY <4>2
      <4> QED BY <4>1, <4>3, <4>4
    <3> HIDE DEF j
    <3>2. under[i] = below[j] BY <2>2, <2>4 DEF j
    <3>3. below[j] = stack[i - 1] BY <1>8, <3>1
    <3> QED BY <2>1, <2>4, <3>2, <3>3
  <2> QED BY <2>3, <2>4
<1> QED BY <1>6, <1>12, <1>13

\* The instrumentor's two layers go on top.
LEMMA InstrumentedAbove ==
    ASSUME NEW stack \in Seq(Layers), stack # <<>>, stack[1] = "serverError", NEW over, over = Instrumented(stack)
    PROVE  /\ over \in Seq(Layers) /\ Len(over) = Len(stack) + 2
           /\ \A i \in 1 .. Len(stack) + 2 :
                over[i] = IF i = 1 THEN "serverError" ELSE IF i = 2 THEN "otel" ELSE stack[i - 2]
<1>1. Head(stack) = "serverError" OBVIOUS
<1>2. over = <<"serverError", "otel">> \o stack BY <1>1 DEF Instrumented
<1>3. PICK two \in Seq(Layers) : two = <<"serverError", "otel">> /\ Len(two) = 2 /\ two[1] = "serverError" /\ two[2] = "otel"
  <2>1. <<"serverError", "otel">> \in Seq(Layers) BY DEF Layers
  <2> QED BY <2>1
<1>4. Len(stack) \in Nat OBVIOUS
<1>5. /\ over \in Seq(Layers) /\ Len(over) = 2 + Len(stack)
      /\ \A i \in 1 .. 2 + Len(stack) : over[i] = IF i <= 2 THEN two[i] ELSE stack[i - 2]
  BY <1>2, <1>3, ConcatProperties
<1> QED BY <1>3, <1>4, <1>5

\* The application's own stack, before anything is wrapped around the builder.
LEMMA BuiltByStarlette ==
    ASSUME NEW user \in Seq(ServiceLayers), NEW stack, stack = <<"serverError">> \o user \o <<"handlers">>
    PROVE  /\ stack \in Seq(Layers) /\ Len(stack) = Len(user) + 2
           /\ \A i \in 1 .. Len(user) + 2 :
                stack[i] = IF i = 1 THEN "serverError" ELSE IF i = Len(user) + 2 THEN "handlers" ELSE user[i - 1]
<1>1. PICK one \in Seq(Layers) : one = <<"serverError">> /\ Len(one) = 1 /\ one[1] = "serverError"
  <2>1. <<"serverError">> \in Seq(Layers) BY DEF Layers
  <2> QED BY <2>1
<1>2. PICK last \in Seq(Layers) : last = <<"handlers">> /\ Len(last) = 1 /\ last[1] = "handlers"
  <2>1. <<"handlers">> \in Seq(Layers) BY DEF Layers
  <2> QED BY <2>1
<1>3. user \in Seq(Layers) /\ Len(user) \in Nat
  <2>1. ServiceLayers \subseteq Layers BY DEF Layers
  <2> QED BY <2>1
<1>4. PICK upper \in Seq(Layers) : /\ upper = one \o user /\ Len(upper) = 1 + Len(user)
                                   /\ \A i \in 1 .. 1 + Len(user) : upper[i] = IF i <= 1 THEN one[i] ELSE user[i - 1]
  <2>1. /\ one \o user \in Seq(Layers) /\ Len(one \o user) = Len(one) + Len(user)
        /\ \A i \in 1 .. Len(one) + Len(user) : (one \o user)[i] = IF i <= Len(one) THEN one[i] ELSE user[i - Len(one)]
    BY <1>1, <1>3, ConcatProperties
  <2> QED BY <1>1, <1>3, <2>1
<1>5. /\ stack \in Seq(Layers) /\ Len(stack) = 1 + Len(user) + 1
      /\ \A i \in 1 .. 1 + Len(user) + 1 : stack[i] = IF i <= 1 + Len(user) THEN upper[i] ELSE last[i - (1 + Len(user))]
  BY <1>1, <1>2, <1>3, <1>4, ConcatProperties
<1> QED BY <1>1, <1>2, <1>3, <1>4, <1>5

\* What Starlette builds, before anything wraps its builder.
LEMMA BaseShape ==
    ASSUME NEW user \in Seq(ServiceLayers)
    PROVE  ShapedAs(<<"serverError">> \o user \o <<"handlers">>, 1, 1, user)
<1>1. PICK stack : stack = <<"serverError">> \o user \o <<"handlers">> OBVIOUS
<1>2. /\ stack \in Seq(Layers) /\ Len(stack) = Len(user) + 2
      /\ \A i \in 1 .. Len(user) + 2 :
           stack[i] = IF i = 1 THEN "serverError" ELSE IF i = Len(user) + 2 THEN "handlers" ELSE user[i - 1]
  BY <1>1, BuiltByStarlette
<1>3. Len(user) \in Nat OBVIOUS
<1>4. ASSUME NEW l \in 1 .. 1 + Len(user) + 1 PROVE stack[l] = LayerAt(1, 1, user, l)
  BY <1>2, <1>3 DEF LayerAt
<1> QED BY <1>1, <1>2, <1>3, <1>4 DEF ShapedAs

\* A stack that gets its guard.
LEMMA GuardShape ==
    ASSUME NEW user \in Seq(ServiceLayers), NEW outer \in {1, 3}, NEW stack, ShapedAs(stack, outer, outer, user)
    PROVE  ShapedAs(GuardBeneath(stack), outer, outer + 1, user)
<1>1. Len(user) \in Nat OBVIOUS
<1>2. stack \in Seq(Layers) /\ Len(stack) = outer + Len(user) + 1
      /\ \A l \in 1 .. outer + Len(user) + 1 : stack[l] = LayerAt(outer, outer, user, l)
  BY DEF ShapedAs
<1>3. outer \in DOMAIN stack /\ stack[outer] = "serverError" BY <1>1, <1>2 DEF LayerAt
<1>4. \A i \in 1 .. Len(user) : user[i] \in ServiceLayers OBVIOUS
<1>5. ASSUME NEW i \in DOMAIN stack PROVE stack[i] # "guard" /\ (i > outer => stack[i] # "serverError")
  <2>1. i \in 1 .. outer + Len(user) + 1 BY <1>2
  <2>2. stack[i] = LayerAt(outer, outer, user, i) BY <1>2, <2>1
  <2>3. CASE i > outer /\ ~(i > outer + Len(user))
    <3>1. i - outer \in 1 .. Len(user) BY <1>1, <2>1, <2>3
    <3>2. stack[i] = user[i - outer] BY <1>1, <2>1, <2>2, <2>3 DEF LayerAt
    <3> QED BY <1>4, <3>1, <3>2 DEF ServiceLayers
  <2>4. CASE i > outer + Len(user) BY <2>2, <2>4 DEF LayerAt
  <2>5. CASE ~(i > outer) BY <1>1, <2>1, <2>2, <2>5 DEF LayerAt
  <2> QED BY <2>3, <2>4, <2>5
<1>6. PICK under : under = GuardBeneath(stack) OBVIOUS
<1>7. /\ under \in Seq(Layers) /\ Len(under) = Len(stack) + 1
      /\ \A i \in 1 .. Len(stack) + 1 :
           under[i] = IF i <= outer THEN stack[i] ELSE IF i = outer + 1 THEN "guard" ELSE stack[i - 1]
  <2>1. stack \in Seq(Layers) BY <1>2
  <2>2. \A i \in DOMAIN stack : stack[i] # "guard" /\ (i > outer => stack[i] # "serverError") BY <1>5
  <2>3. outer \in DOMAIN stack /\ stack[outer] = "serverError" BY <1>3
  <2>4. /\ GuardBeneath(stack) \in Seq(Layers) /\ Len(GuardBeneath(stack)) = Len(stack) + 1
        /\ \A i \in 1 .. Len(stack) + 1 :
             GuardBeneath(stack)[i] = IF i <= outer THEN stack[i] ELSE IF i = outer + 1 THEN "guard" ELSE stack[i - 1]
    BY <2>1, <2>2, <2>3, GuardGoesBeneath, ZenonT(60)
  <2> QED BY <1>6, <2>4, Zenon
<1>8. ASSUME NEW l \in 1 .. (outer + 1) + Len(user) + 1 PROVE under[l] = LayerAt(outer, outer + 1, user, l)
  <2>1. l \in 1 .. Len(stack) + 1 BY <1>1, <1>2
  <2>2. CASE l <= outer
    <3>1. under[l] = stack[l] /\ l \in 1 .. outer + Len(user) + 1 BY <1>1, <1>7, <2>1, <2>2
    <3>2. under[l] = LayerAt(outer, outer, user, l) BY <1>2, <3>1
    <3> QED BY <1>1, <2>2, <3>2 DEF LayerAt
  <2>3. CASE l = outer + 1
    <3>1. under[l] = "guard" BY <1>7, <2>1, <2>3
    <3> QED BY <1>1, <2>3, <3>1 DEF LayerAt
  <2>4. CASE l > outer + 1
    <3> DEFINE k == l - 1
    <3>1. k \in 1 .. outer + Len(user) + 1 /\ k > outer /\ k - outer = l - (outer + 1) BY <1>1, <2>4
    <3>2. under[l] = stack[k] BY <1>7, <2>1, <2>4
    <3>3. k > outer + Len(user) <=> l > (outer + 1) + Len(user) BY <1>1
    <3> HIDE DEF k
    <3>4. under[l] = LayerAt(outer, outer, user, k) BY <1>2, <3>1, <3>2
    <3> QED BY <2>4, <3>1, <3>3, <3>4 DEF LayerAt
  <2> QED BY <2>2, <2>3, <2>4
<1>9. Len(under) = (outer + 1) + Len(user) + 1 BY <1>1, <1>2, <1>7
<1> QED BY <1>6, <1>7, <1>8, <1>9 DEF ShapedAs

\* A stack that is instrumented.
LEMMA OtelShape ==
    ASSUME NEW user \in Seq(ServiceLayers), NEW depth \in {1, 2}, NEW stack, ShapedAs(stack, 1, depth, user)
    PROVE  ShapedAs(Instrumented(stack), 3, depth + 2, user)
<1>1. Len(user) \in Nat OBVIOUS
<1>2. stack \in Seq(Layers) /\ Len(stack) = depth + Len(user) + 1
      /\ \A l \in 1 .. depth + Len(user) + 1 : stack[l] = LayerAt(1, depth, user, l)
  BY DEF ShapedAs
<1>3. stack # <<>> /\ stack[1] = "serverError"
  <2>1. 1 \in 1 .. depth + Len(user) + 1 BY <1>1
  <2>2. stack[1] = LayerAt(1, depth, user, 1) BY <1>2, <2>1
  <2>3. ~(1 > depth + Len(user)) /\ ~(1 > depth) BY <1>1
  <2>4. Len(stack) # 0 BY <1>1, <1>2
  <2> QED BY <2>2, <2>3, <2>4 DEF LayerAt
<1>4. PICK over : over = Instrumented(stack) OBVIOUS
<1>5. /\ over \in Seq(Layers) /\ Len(over) = Len(stack) + 2
      /\ \A i \in 1 .. Len(stack) + 2 :
           over[i] = IF i = 1 THEN "serverError" ELSE IF i = 2 THEN "otel" ELSE stack[i - 2]
  BY <1>2, <1>3, <1>4, InstrumentedAbove
<1>6. ASSUME NEW l \in 1 .. (depth + 2) + Len(user) + 1 PROVE over[l] = LayerAt(3, depth + 2, user, l)
  <2>1. l \in 1 .. Len(stack) + 2 BY <1>1, <1>2
  <2>2. over[l] = IF l = 1 THEN "serverError" ELSE IF l = 2 THEN "otel" ELSE stack[l - 2] BY <1>5, <2>1
  <2>3. CASE l <= 2 BY <1>1, <2>2, <2>3 DEF LayerAt
  <2>4. CASE l > 2
    <3> DEFINE k == l - 2
    <3>1. k \in 1 .. depth + Len(user) + 1 /\ k - depth = l - (depth + 2) BY <1>1, <2>4
    <3>2. over[l] = stack[k] BY <2>2, <2>4
    <3>3. /\ k > depth + Len(user) <=> l > (depth + 2) + Len(user)
          /\ k > depth <=> l > depth + 2
          /\ k > 1 <=> l > 3
          /\ k = 2 => k > 1
      BY <1>1
    <3> HIDE DEF k
    <3>4. over[l] = LayerAt(1, depth, user, k) BY <1>2, <3>1, <3>2
    <3>5. l # 2 BY <2>4
    <3> QED BY <3>1, <3>3, <3>4, <3>5 DEF LayerAt
  <2> QED BY <2>3, <2>4
<1>7. Len(over) = (depth + 2) + Len(user) + 1 BY <1>1, <1>2, <1>5
<1> QED BY <1>4, <1>5, <1>6, <1>7 DEF ShapedAs

\* What wraps the builder is a guard, the instrumentor, or one of each.
LEMMA WrapsAreTwo ==
    ASSUME NEW wraps \in Seq({"guard", "otel"}), \A i, j \in DOMAIN wraps : wraps[i] = wraps[j] => i = j
    PROVE  /\ Len(wraps) \in 0 .. 2
           /\ \A i \in DOMAIN wraps : wraps[i] \in {"guard", "otel"}
           /\ DOMAIN wraps = 1 .. Len(wraps)
<1>1. Len(wraps) \in Nat /\ DOMAIN wraps = 1 .. Len(wraps) /\ \A i \in 1 .. Len(wraps) : wraps[i] \in {"guard", "otel"} OBVIOUS
<1>2. ASSUME Len(wraps) > 2 PROVE FALSE
  <2>1. 1 \in DOMAIN wraps /\ 2 \in DOMAIN wraps /\ 3 \in DOMAIN wraps BY <1>1, <1>2
  <2>2. wraps[1] # wraps[2] /\ wraps[2] # wraps[3] /\ wraps[1] # wraps[3] BY <2>1
  <2> QED BY <1>1, <2>1, <2>2
<1> QED BY <1>1, <1>2

\* Whatever wraps the builder, in whichever order, the stack has its shape.
LEMMA BuilderKeepsTheShape ==
    ASSUME NEW a, AppSound(a), NEW stack, stack = Wrapped(<<"serverError">> \o a.user \o <<"handlers">>, a.wraps)
    PROVE  BuiltAs(a, stack)
<1>1. PICK user \in Seq(ServiceLayers), w \in Seq({"guard", "otel"}) : user = a.user /\ w = a.wraps
  BY DEF AppSound, AppRecord
<1>2. PICK base : base = <<"serverError">> \o user \o <<"handlers">> /\ ShapedAs(base, 1, 1, user) BY BaseShape
<1>3. /\ Len(w) \in 0 .. 2 /\ DOMAIN w = 1 .. Len(w)
      /\ \A i \in DOMAIN w : w[i] \in {"guard", "otel"}
      /\ \A i, j \in DOMAIN w : w[i] = w[j] => i = j
  <2>1. \A i, j \in DOMAIN w : w[i] = w[j] => i = j BY <1>1 DEF AppSound
  <2> QED BY <2>1, WrapsAreTwo
<1>4. stack = WrappedBy(WrappedBy(base, w, 1), w, 2) BY <1>1, <1>2 DEF Wrapped
<1>5. a.guarded \in BOOLEAN /\ (a.guarded <=> \E i \in DOMAIN w : w[i] = "guard") BY <1>1 DEF AppSound, AppRecord
<1>6. OtelLayers(a) = IF \E i \in DOMAIN w : w[i] = "otel" THEN 3 ELSE 1 BY <1>1 DEF OtelLayers
<1>7. Depth(a) = OtelLayers(a) + (IF a.guarded THEN 1 ELSE 0) BY DEF Depth
<1> SUFFICES ShapedAs(stack, OtelLayers(a), Depth(a), user) BY <1>1 DEF BuiltAs
<1> USE DEF WrappedBy
<1>8. CASE Len(w) = 0
  <2>1. DOMAIN w = {} BY <1>3, <1>8
  <2>2. stack = base BY <1>4, <2>1
  <2>3. OtelLayers(a) = 1 /\ Depth(a) = 1 BY <1>5, <1>6, <1>7, <2>1
  <2> QED BY <1>2, <2>2, <2>3
<1>9. CASE Len(w) = 1 /\ w[1] = "guard"
  <2>1. DOMAIN w = {1} BY <1>3, <1>9
  <2>2. stack = GuardBeneath(base) BY <1>4, <1>9, <2>1
  <2>3. OtelLayers(a) = 1 /\ Depth(a) = 2 BY <1>5, <1>6, <1>7, <1>9, <2>1
  <2>4. ShapedAs(GuardBeneath(base), 1, 1 + 1, user) BY <1>2, GuardShape
  <2> QED BY <2>2, <2>3, <2>4
<1>10. CASE Len(w) = 1 /\ w[1] = "otel"
  <2>1. DOMAIN w = {1} BY <1>3, <1>10
  <2>2. stack = Instrumented(base) BY <1>4, <1>10, <2>1
  <2>3. OtelLayers(a) = 3 /\ Depth(a) = 3 BY <1>5, <1>6, <1>7, <1>10, <2>1
  <2>4. ShapedAs(Instrumented(base), 3, 1 + 2, user) BY <1>2, OtelShape
  <2> QED BY <2>2, <2>3, <2>4
<1>11. CASE Len(w) = 2 /\ w[1] = "guard" /\ w[2] = "otel"
  <2>1. DOMAIN w = {1, 2} BY <1>3, <1>11
  <2>2. stack = Instrumented(GuardBeneath(base)) BY <1>4, <1>11, <2>1
  <2>3. OtelLayers(a) = 3 /\ Depth(a) = 4 BY <1>5, <1>6, <1>7, <1>11, <2>1
  <2>4. ShapedAs(GuardBeneath(base), 1, 1 + 1, user) BY <1>2, GuardShape
  <2>5. ShapedAs(Instrumented(GuardBeneath(base)), 3, 2 + 2, user) BY <2>4, OtelShape
  <2> QED BY <2>2, <2>3, <2>5
<1>12. CASE Len(w) = 2 /\ w[1] = "otel" /\ w[2] = "guard"
  <2>1. DOMAIN w = {1, 2} BY <1>3, <1>12
  <2>2. stack = GuardBeneath(Instrumented(base)) BY <1>4, <1>12, <2>1
  <2>3. OtelLayers(a) = 3 /\ Depth(a) = 4 BY <1>5, <1>6, <1>7, <1>12, <2>1
  <2>4. ShapedAs(Instrumented(base), 3, 1 + 2, user) BY <1>2, OtelShape
  <2>5. ShapedAs(GuardBeneath(Instrumented(base)), 3, 3 + 1, user) BY <2>4, GuardShape
  <2> QED BY <2>2, <2>3, <2>5
<1>13. \/ Len(w) = 0
       \/ Len(w) = 1 /\ (w[1] = "guard" \/ w[1] = "otel")
       \/ Len(w) = 2 /\ ((w[1] = "guard" /\ w[2] = "otel") \/ (w[1] = "otel" /\ w[2] = "guard"))
  <2>1. CASE Len(w) = 1
    <3>1. 1 \in DOMAIN w BY <1>3, <2>1
    <3> QED BY <1>3, <2>1, <3>1
  <2>2. CASE Len(w) = 2
    <3>1. 1 \in DOMAIN w /\ 2 \in DOMAIN w BY <1>3, <2>2
    <3> QED BY <1>3, <2>2, <3>1
  <2> QED BY <1>3, <2>1, <2>2
<1> QED BY <1>8, <1>9, <1>10, <1>11, <1>12, <1>13

\* One wrap more, which was not there.
LEMMA OneWrapMore ==
    ASSUME NEW w \in Seq({"guard", "otel"}), \A i, j \in DOMAIN w : w[i] = w[j] => i = j,
           NEW one \in {"guard", "otel"}, \A i \in DOMAIN w : w[i] # one, NEW v, v = Append(w, one)
    PROVE  /\ v \in Seq({"guard", "otel"})
           /\ \A i, j \in DOMAIN v : v[i] = v[j] => i = j
           /\ \A other : (\E i \in DOMAIN v : v[i] = other) <=> other = one \/ \E i \in DOMAIN w : w[i] = other
<1>1. /\ Len(w) \in Nat /\ DOMAIN w = 1 .. Len(w) /\ DOMAIN v = 1 .. Len(w) + 1 /\ v \in Seq({"guard", "otel"})
      /\ v[Len(w) + 1] = one /\ \A i \in 1 .. Len(w) : v[i] = w[i]
  BY AppendProperties
<1>2. \A i \in DOMAIN v : i \in DOMAIN w \/ i = Len(w) + 1 BY <1>1
<1>3. \A i, j \in DOMAIN v : v[i] = v[j] => i = j BY <1>1, <1>2
<1>4. ASSUME NEW other PROVE (\E i \in DOMAIN v : v[i] = other) <=> other = one \/ \E i \in DOMAIN w : w[i] = other
  BY <1>1, <1>2
<1> QED BY <1>1, <1>3, <1>4

\* A guard put beneath a stack that had none.
LEMMA LateGuardKeepsTheShape ==
    ASSUME NEW a, AppSound(a), ~a.guarded, a.built # <<>>,
           NEW b, b.user = a.user, b.guarded = TRUE, b.wraps = Append(a.wraps, "guard")
    PROVE  BuiltAs(b, GuardBeneath(a.built))
<1>1. PICK user \in Seq(ServiceLayers), w \in Seq({"guard", "otel"}) : user = a.user /\ w = a.wraps
  BY DEF AppSound, AppRecord
<1>2. OtelLayers(b) = OtelLayers(a)
  <2>1. b.wraps = Append(w, "guard") BY <1>1
  <2>2. /\ \A i, j \in DOMAIN w : w[i] = w[j] => i = j
        /\ \A i \in DOMAIN w : w[i] # "guard"
    BY <1>1 DEF AppSound
  <2>3. (\E i \in DOMAIN b.wraps : b.wraps[i] = "otel") <=> \E i \in DOMAIN w : w[i] = "otel"
    <3>1. (\E i \in DOMAIN b.wraps : b.wraps[i] = "otel") <=> "otel" = "guard" \/ \E i \in DOMAIN w : w[i] = "otel"
      <4>1. PICK one \in {"guard", "otel"} : one = "guard" OBVIOUS
      <4>2. \A i \in DOMAIN w : w[i] # one BY <2>2, <4>1
      <4>3. PICK v : v = Append(w, one) /\ v = b.wraps BY <2>1, <4>1
      <4>4. \A other : (\E i \in DOMAIN v : v[i] = other) <=> other = one \/ \E i \in DOMAIN w : w[i] = other
        BY <2>2, <4>2, <4>3, OneWrapMore
      <4>5. (\E i \in DOMAIN v : v[i] = "otel") <=> "otel" = one \/ \E i \in DOMAIN w : w[i] = "otel" BY <4>4
      <4>6. v = b.wraps /\ one = "guard" BY <4>1, <4>3
      <4> QED BY <4>5, <4>6
    <3>2. "otel" # "guard" OBVIOUS
    <3> QED BY <3>1, <3>2
  <2> QED BY <1>1, <2>3 DEF OtelLayers
<1>3. OtelLayers(a) \in {1, 3} BY DEF OtelLayers
<1>4. Depth(a) = OtelLayers(a) /\ Depth(b) = OtelLayers(a) + 1 BY <1>2, <1>3 DEF Depth
<1>5. ShapedAs(a.built, OtelLayers(a), OtelLayers(a), user)
  <2>1. BuiltAs(a, a.built) BY DEF AppSound
  <2> QED BY <1>1, <1>4, <2>1 DEF BuiltAs
<1>6. ShapedAs(GuardBeneath(a.built), OtelLayers(a), OtelLayers(a) + 1, user) BY <1>3, <1>5, GuardShape
<1> QED BY <1>1, <1>2, <1>4, <1>6 DEF BuiltAs

\* create_app: the middleware of the package, and the guard.
LEMMA CreateAppKeeps ==
    ASSUME NEW log \in BOOLEAN, NEW instrument \in BOOLEAN, NEW origins \in BOOLEAN, AppSound(app),
           CreateApp(log, instrument, origins)
    PROVE  AppSound(app')
<1>1. PICK a : a = app OBVIOUS
<1>2. a \in AppRecord /\ a.made = "no" /\ a.built = <<>> BY <1>1 DEF AppSound, CreateApp
<1>3. PICK user \in Seq(ServiceLayers) :
        /\ user = (IF origins THEN <<"cors", "requestId">> ELSE <<"requestId">>) \o (IF log THEN <<"log">> ELSE <<>>)
        /\ origins => 1 \in DOMAIN user /\ user[1] = "cors"
  <2>1. /\ <<"cors", "requestId">> \in Seq(ServiceLayers) /\ <<"requestId">> \in Seq(ServiceLayers)
        /\ <<"log">> \in Seq(ServiceLayers) /\ <<>> \in Seq(ServiceLayers)
    BY DEF ServiceLayers
  <2>2. PICK two \in Seq(ServiceLayers) :
          two = IF origins THEN <<"cors", "requestId">> ELSE <<"requestId">>
    BY <2>1
  <2>8. Len(two) \in Nat /\ 1 <= Len(two) /\ (origins => two[1] = "cors")
    <3>1. CASE two = <<"cors", "requestId">>
      <4>1. Len(two) = 2 /\ two[1] = "cors" BY <3>1
      <4> QED BY <4>1
    <3>2. CASE ~origins /\ two = <<"requestId">>
      <4>1. Len(two) = 1 BY <3>2
      <4> QED BY <3>2, <4>1
    <3> QED BY <2>2, <3>1, <3>2
  <2>3. PICK more \in Seq(ServiceLayers) : more = IF log THEN <<"log">> ELSE <<>> BY <2>1
  <2>4. /\ two \o more \in Seq(ServiceLayers) /\ Len(two \o more) = Len(two) + Len(more)
        /\ \A i \in 1 .. Len(two) + Len(more) : (two \o more)[i] = IF i <= Len(two) THEN two[i] ELSE more[i - Len(two)]
    BY ConcatProperties
  <2>5. Len(more) \in Nat OBVIOUS
  <2>6. 1 \in 1 .. Len(two) + Len(more) BY <2>5, <2>8
  <2>7. origins => (two \o more)[1] = "cors" /\ 1 \in DOMAIN (two \o more) BY <2>4, <2>6, <2>8
  <2> QED BY <2>2, <2>3, <2>4, <2>7
<1>4. PICK w \in Seq({"guard", "otel"}) :
        /\ w = (IF instrument THEN <<"otel">> ELSE <<>>) \o <<"guard">>
        /\ \A i, j \in DOMAIN w : w[i] = w[j] => i = j
        /\ \E i \in DOMAIN w : w[i] = "guard"
  <2>1. <<"otel">> \in Seq({"guard", "otel"}) /\ <<"guard">> \in Seq({"guard", "otel"}) /\ <<>> \in Seq({"guard", "otel"}) OBVIOUS
  <2>2. PICK first \in Seq({"guard", "otel"}) :
          /\ first = IF instrument THEN <<"otel">> ELSE <<>>
          /\ Len(first) = 0 \/ (Len(first) = 1 /\ first[1] = "otel")
    BY <2>1
  <2>3. PICK second \in Seq({"guard", "otel"}) : second = <<"guard">> /\ Len(second) = 1 /\ second[1] = "guard" BY <2>1
  <2>4. PICK w \in Seq({"guard", "otel"}) :
          /\ w = first \o second /\ Len(w) = Len(first) + Len(second)
          /\ \A i \in 1 .. Len(first) + Len(second) : w[i] = IF i <= Len(first) THEN first[i] ELSE second[i - Len(first)]
    <3>1. /\ first \o second \in Seq({"guard", "otel"}) /\ Len(first \o second) = Len(first) + Len(second)
          /\ \A i \in 1 .. Len(first) + Len(second) :
               (first \o second)[i] = IF i <= Len(first) THEN first[i] ELSE second[i - Len(first)]
      BY ConcatProperties
    <3> QED BY <3>1
  <2>5. DOMAIN w = 1 .. Len(w) OBVIOUS
  <2>6. CASE Len(first) = 0
    <3>1. Len(w) = 1 /\ w[1] = "guard" BY <2>3, <2>4, <2>6
    <3> QED BY <2>2, <2>3, <2>4, <2>5, <3>1
  <2>7. CASE Len(first) = 1 /\ first[1] = "otel"
    <3>1. Len(w) = 2 /\ w[1] = "otel" /\ w[2] = "guard" BY <2>3, <2>4, <2>7
    <3> QED BY <2>2, <2>3, <2>4, <2>5, <3>1
  <2> QED BY <2>2, <2>6, <2>7
<1>5. PICK made \in {"create_app", "with_origins"} : made = IF origins THEN "with_origins" ELSE "create_app" OBVIOUS
<1>6. PICK b : b = [a EXCEPT !.made = made, !.user = user, !.wraps = w, !.guarded = TRUE] OBVIOUS
<1>7. app' = b BY <1>1, <1>3, <1>4, <1>5, <1>6 DEF CreateApp
<1>8. /\ b \in AppRecord /\ b.made = made /\ b.user = user /\ b.wraps = w /\ b.guarded = TRUE /\ b.built = <<>>
  BY <1>2, <1>6 DEF AppRecord
<1> QED BY <1>3, <1>4, <1>5, <1>7, <1>8 DEF AppSound

\* A middleware more, before the stack is built.
LEMMA AddMiddlewareKeeps ==
    ASSUME AppSound(app), AddMiddleware
    PROVE  AppSound(app')
<1>1. PICK a : a = app OBVIOUS
<1>2. a \in AppRecord /\ a.made # "no" /\ a.built = <<>> BY <1>1 DEF AppSound, AddMiddleware, Mutable
<1>3. PICK old \in Seq(ServiceLayers) : old = a.user BY <1>2 DEF AppRecord
<1>4. PICK user \in Seq(ServiceLayers) :
        /\ user = <<"product">> \o old
        /\ \A i \in DOMAIN old : i + 1 \in DOMAIN user /\ user[i + 1] = old[i]
  <2>1. PICK one \in Seq(ServiceLayers) : one = <<"product">> /\ Len(one) = 1
    <3>1. <<"product">> \in Seq(ServiceLayers) BY DEF ServiceLayers
    <3> QED BY <3>1
  <2>2. /\ one \o old \in Seq(ServiceLayers) /\ Len(one \o old) = Len(one) + Len(old)
        /\ \A i \in 1 .. Len(one) + Len(old) : (one \o old)[i] = IF i <= Len(one) THEN one[i] ELSE old[i - Len(one)]
    BY ConcatProperties
  <2>3. Len(old) \in Nat /\ DOMAIN old = 1 .. Len(old) OBVIOUS
  <2>4. ASSUME NEW i \in DOMAIN old PROVE i + 1 \in DOMAIN (one \o old) /\ (one \o old)[i + 1] = old[i]
    <3>1. i \in 1 .. Len(old) /\ i + 1 \in 1 .. Len(one) + Len(old) /\ ~(i + 1 <= Len(one)) /\ (i + 1) - Len(one) = i BY <2>1, <2>3
    <3> QED BY <2>2, <3>1
  <2> QED BY <2>1, <2>2, <2>4
<1>5. PICK b : b = [a EXCEPT !.user = user] OBVIOUS
<1>6. app' = b BY <1>1, <1>3, <1>4, <1>5 DEF AddMiddleware
<1>7. /\ b \in AppRecord /\ b.made = a.made /\ b.user = user /\ b.wraps = a.wraps /\ b.guarded = a.guarded /\ b.built = <<>>
  BY <1>2, <1>5 DEF AppRecord
<1>8. a.made = "with_origins" => a.guarded /\ \E i \in DOMAIN user : user[i] = "cors"
  <2>1. SUFFICES ASSUME a.made = "with_origins" PROVE a.guarded /\ \E i \in DOMAIN user : user[i] = "cors" OBVIOUS
  <2>2. a.guarded /\ \E i \in DOMAIN old : old[i] = "cors" BY <1>1, <1>3, <2>1 DEF AppSound
  <2>3. PICK i \in DOMAIN old : old[i] = "cors" BY <2>2
  <2>4. i + 1 \in DOMAIN user /\ user[i + 1] = "cors" BY <1>4, <2>3
  <2> QED BY <2>2, <2>4
<1>9. /\ \A i, j \in DOMAIN a.wraps : a.wraps[i] = a.wraps[j] => i = j
      /\ a.guarded <=> \E i \in DOMAIN a.wraps : a.wraps[i] = "guard"
  BY <1>1 DEF AppSound
<1> QED BY <1>2, <1>6, <1>7, <1>8, <1>9 DEF AppSound

\* An application is instrumented once.
LEMMA InstrumentKeeps ==
    ASSUME AppSound(app), Instrument
    PROVE  AppSound(app')
<1>1. PICK a : a = app OBVIOUS
<1>2. a \in AppRecord /\ a.made # "no" /\ a.built = <<>> BY <1>1 DEF AppSound, Instrument, Mutable
<1>3. PICK w \in Seq({"guard", "otel"}) : w = a.wraps BY <1>2 DEF AppRecord
<1>4. \A i \in DOMAIN w : w[i] # "otel" BY <1>1, <1>3 DEF Instrument, ToSet
<1>5. /\ \A i, j \in DOMAIN w : w[i] = w[j] => i = j
      /\ a.guarded <=> \E i \in DOMAIN w : w[i] = "guard"
  BY <1>1, <1>3 DEF AppSound
<1>6. PICK v \in Seq({"guard", "otel"}) :
        /\ v = Append(w, "otel")
        /\ \A i, j \in DOMAIN v : v[i] = v[j] => i = j
        /\ (\E i \in DOMAIN v : v[i] = "guard") <=> \E i \in DOMAIN w : w[i] = "guard"
  <2>1. PICK v : v = Append(w, "otel") OBVIOUS
  <2>2. v \in Seq({"guard", "otel"}) /\ \A i, j \in DOMAIN v : v[i] = v[j] => i = j BY <1>4, <1>5, <2>1, OneWrapMore
  <2>3. (\E i \in DOMAIN v : v[i] = "guard") <=> "guard" = "otel" \/ \E i \in DOMAIN w : w[i] = "guard"
    BY <1>4, <1>5, <2>1, OneWrapMore
  <2> QED BY <2>1, <2>2, <2>3
<1>7. PICK b : b = [a EXCEPT !.wraps = v] OBVIOUS
<1>8. app' = b BY <1>1, <1>3, <1>6, <1>7 DEF Instrument
<1>9. /\ b \in AppRecord /\ b.made = a.made /\ b.user = a.user /\ b.wraps = v /\ b.guarded = a.guarded /\ b.built = <<>>
  BY <1>2, <1>7 DEF AppRecord
<1>10. a.made = "with_origins" => a.guarded /\ \E i \in DOMAIN a.user : a.user[i] = "cors" BY <1>1 DEF AppSound
<1> QED BY <1>2, <1>5, <1>6, <1>8, <1>9, <1>10 DEF AppSound

\* guard_exception_groups, before the stack is built or after.
LEMMA GuardExceptionGroupsKeeps ==
    ASSUME AppSound(app), GuardExceptionGroups
    PROVE  AppSound(app')
<1>1. PICK a : a = app OBVIOUS
<1>2. a \in AppRecord /\ a.made # "no" /\ ~a.guarded BY <1>1 DEF AppSound, GuardExceptionGroups
<1>3. PICK w \in Seq({"guard", "otel"}) : w = a.wraps BY <1>2 DEF AppRecord
<1>4. /\ \A i, j \in DOMAIN w : w[i] = w[j] => i = j
      /\ \A i \in DOMAIN w : w[i] # "guard"
  BY <1>1, <1>2, <1>3 DEF AppSound
<1>5. PICK v \in Seq({"guard", "otel"}) :
        /\ v = Append(w, "guard")
        /\ \A i, j \in DOMAIN v : v[i] = v[j] => i = j
        /\ \E i \in DOMAIN v : v[i] = "guard"
  <2>1. PICK v : v = Append(w, "guard") OBVIOUS
  <2>2. v \in Seq({"guard", "otel"}) /\ \A i, j \in DOMAIN v : v[i] = v[j] => i = j BY <1>4, <2>1, OneWrapMore
  <2>3. (\E i \in DOMAIN v : v[i] = "guard") <=> "guard" = "guard" \/ \E i \in DOMAIN w : w[i] = "guard" BY <1>4, <2>1, OneWrapMore
  <2> QED BY <2>1, <2>2, <2>3
<1>6. PICK built : built = IF a.built = <<>> THEN a.built ELSE GuardBeneath(a.built) OBVIOUS
<1>7. PICK b : b = [a EXCEPT !.guarded = TRUE, !.wraps = v, !.built = built] OBVIOUS
<1>8. app' = b
  <2>1. app' = [app EXCEPT !.guarded = TRUE, !.wraps = Append(@, "guard"), !.built = IF Mutable THEN @ ELSE GuardBeneath(@)]
    BY DEF GuardExceptionGroups
  <2>2. Mutable <=> a.built = <<>> BY <1>1 DEF Mutable
  <2> QED BY <1>1, <1>3, <1>5, <1>6, <1>7, <2>1, <2>2
<1>9. b.made = a.made /\ b.user = a.user /\ b.wraps = v /\ b.guarded = TRUE /\ b.built = built BY <1>2, <1>7 DEF AppRecord
<1>10. built # <<>> => BuiltAs(b, built)
  <2>1. a.built # <<>> => BuiltAs(b, GuardBeneath(a.built)) BY <1>1, <1>2, <1>3, <1>5, <1>9, LateGuardKeepsTheShape
  <2> QED BY <1>6, <2>1
<1>11. built \in Seq(Layers)
  <2>1. a.built # <<>> => built \in Seq(Layers)
    <3>1. a.built # <<>> => BuiltAs(b, GuardBeneath(a.built)) BY <1>1, <1>2, <1>3, <1>5, <1>9, LateGuardKeepsTheShape
    <3> QED BY <1>6, <3>1 DEF BuiltAs, ShapedAs
  <2> QED BY <1>2, <1>6, <2>1 DEF AppRecord
<1>12. b \in AppRecord BY <1>2, <1>7, <1>11 DEF AppRecord
<1>13. a.made # "with_origins" BY <1>1, <1>2 DEF AppSound
<1> QED BY <1>2, <1>5, <1>8, <1>9, <1>10, <1>12, <1>13 DEF AppSound

\* The stack is built.
LEMMA BuildStackKeeps ==
    ASSUME AppSound(app), BuildStack
    PROVE  AppSound(app')
<1>1. PICK a : a = app OBVIOUS
<1>2. a \in AppRecord /\ a.made # "no" BY <1>1 DEF AppSound, BuildStack
<1>3. PICK stack : stack = Wrapped(<<"serverError">> \o a.user \o <<"handlers">>, a.wraps) OBVIOUS
<1>4. PICK b : b = [a EXCEPT !.built = stack] OBVIOUS
<1>5. app' = b BY <1>1, <1>3, <1>4 DEF BuildStack
<1>6. BuiltAs(a, stack) BY <1>1, <1>3, BuilderKeepsTheShape
<1>7. stack \in Seq(Layers) BY <1>6 DEF BuiltAs, ShapedAs
<1>8. b \in AppRecord /\ b.made = a.made /\ b.user = a.user /\ b.wraps = a.wraps /\ b.guarded = a.guarded /\ b.built = stack
  BY <1>2, <1>4, <1>7 DEF AppRecord
<1>9. BuiltAs(b, stack) BY <1>6, <1>8 DEF BuiltAs, OtelLayers, Depth
<1>10. /\ \A i, j \in DOMAIN a.wraps : a.wraps[i] = a.wraps[j] => i = j
       /\ a.guarded <=> \E i \in DOMAIN a.wraps : a.wraps[i] = "guard"
       /\ a.made = "with_origins" => a.guarded /\ \E i \in DOMAIN a.user : a.user[i] = "cors"
  BY <1>1 DEF AppSound
<1> QED BY <1>2, <1>5, <1>8, <1>9, <1>10 DEF AppSound

\* However an application is put together, its stack has its shape.
LEMMA AssemblingKeepsTheApp ==
    ASSUME AppSound(app), Assembling
    PROVE  AppSound(app')
<1>1. ASSUME BareApp PROVE AppSound(app')
  <2>1. PICK a : a = app OBVIOUS
  <2>2. a \in AppRecord /\ a.made = "no" /\ a.built = <<>> /\ a.wraps = <<>> BY <1>1, <2>1 DEF AppSound, BareApp
  <2>3. PICK b : b = [a EXCEPT !.made = "bare"] OBVIOUS
  <2>4. app' = b BY <1>1, <2>1, <2>3 DEF BareApp
  <2>5. b \in AppRecord /\ b.made = "bare" /\ b.user = a.user /\ b.wraps = a.wraps /\ b.guarded = a.guarded /\ b.built = <<>>
    BY <2>2, <2>3 DEF AppRecord
  <2>6. /\ \A i, j \in DOMAIN a.wraps : a.wraps[i] = a.wraps[j] => i = j
        /\ a.guarded <=> \E i \in DOMAIN a.wraps : a.wraps[i] = "guard"
    BY <2>1 DEF AppSound
  <2> QED BY <2>4, <2>5, <2>6 DEF AppSound
<1> QED
  BY <1>1, CreateAppKeeps, AddMiddlewareKeeps, InstrumentKeeps, GuardExceptionGroupsKeeps, BuildStackKeeps DEF Assembling

\* What the layers of a stack are.
LEMMA WhereLayersAre ==
    ASSUME AppSound(app), ~Mutable
    PROVE  /\ Stack \in Seq(Layers) /\ Len(Stack) \in Nat /\ DOMAIN Stack = 1 .. Len(Stack)
           /\ Depth(app) \in 1 .. 4 /\ Depth(app) < Len(Stack)
           /\ \A l \in 1 .. Len(Stack) :
                /\ Stack[l] \in {"serverError", "otel", "guard"} <=> l <= Depth(app)
                /\ Stack[l] = "guard" <=> app.guarded /\ l = Depth(app)
                /\ Stack[l] = "handlers" <=> l = Len(Stack)
           /\ Stack[1] = "serverError"
           /\ app.guarded => Depth(app) > 1 /\ Stack[Depth(app) - 1] = "serverError"
           /\ app.made = "with_origins" => app.guarded /\ \E l \in 1 .. Len(Stack) : Stack[l] = "cors"
<1>1. PICK user \in Seq(ServiceLayers) : user = app.user BY DEF AppSound, AppRecord
<1>2. PICK outer \in {1, 3} : outer = OtelLayers(app) BY DEF OtelLayers
<1>3. app.guarded \in BOOLEAN BY DEF AppSound, AppRecord
<1>4. PICK depth \in 1 .. 4 : depth = Depth(app) /\ (app.guarded => depth = outer + 1) /\ (~app.guarded => depth = outer)
  BY <1>2, <1>3 DEF Depth
<1>5. PICK n \in Nat : n = Len(user) OBVIOUS
<1>6. PICK stack \in Seq(Layers) : stack = Stack /\ Len(stack) = depth + n + 1
                                 /\ \A l \in 1 .. depth + n + 1 : stack[l] = LayerAt(outer, depth, user, l)
  <2>1. ShapedAs(app.built, outer, depth, user) BY <1>1, <1>2, <1>4 DEF AppSound, BuiltAs, Mutable
  <2> QED BY <1>5, <2>1 DEF ShapedAs, Stack
<1>7. \A i \in 1 .. n : user[i] \in ServiceLayers BY <1>5
<1>8. ASSUME NEW l \in 1 .. depth + n + 1
      PROVE  /\ stack[l] \in {"serverError", "otel", "guard"} <=> l <= depth
             /\ stack[l] = "guard" <=> app.guarded /\ l = depth
             /\ stack[l] = "handlers" <=> l = depth + n + 1
  <2>1. stack[l] = LayerAt(outer, depth, user, l) BY <1>6
  <2>2. CASE l > depth + n
    <3>1. stack[l] = "handlers" /\ l = depth + n + 1 /\ ~(l <= depth) BY <1>5, <2>1, <2>2 DEF LayerAt
    <3> QED BY <3>1
  <2>3. CASE l > depth /\ ~(l > depth + n)
    <3>1. l - depth \in 1 .. n BY <2>3
    <3>2. stack[l] = user[l - depth] BY <1>5, <2>1, <2>3 DEF LayerAt
    <3>3. stack[l] \in ServiceLayers BY <1>7, <3>1, <3>2
    <3>4. ~(l <= depth) /\ l # depth + n + 1 BY <2>3
    <3> QED BY <3>3, <3>4 DEF ServiceLayers
  <2>4. CASE ~(l > depth)
    <3>1. ~(l > depth + n) /\ l # depth + n + 1 BY <2>4
    <3>2. stack[l] = IF l > outer THEN "guard" ELSE IF l = 2 THEN "otel" ELSE "serverError"
      BY <1>5, <2>1, <2>4, <3>1 DEF LayerAt
    <3>3. l > outer <=> app.guarded /\ l = depth BY <1>3, <1>4, <2>4
    <3> QED BY <2>4, <3>1, <3>2, <3>3
  <2> QED BY <2>2, <2>3, <2>4
<1>9. stack[1] = "serverError"
  <2>1. stack[1] = LayerAt(outer, depth, user, 1) BY <1>6
  <2>2. ~(1 > depth + n) /\ ~(1 > depth) /\ ~(1 > outer) OBVIOUS
  <2> QED BY <1>5, <2>1, <2>2 DEF LayerAt
<1>10. app.guarded => depth > 1 /\ stack[depth - 1] = "serverError"
  <2>1. SUFFICES ASSUME app.guarded PROVE depth > 1 /\ stack[depth - 1] = "serverError" OBVIOUS
  <2>2. depth = outer + 1 BY <1>4, <2>1
  <2>3. stack[outer] = LayerAt(outer, depth, user, outer) BY <1>6, <2>2
  <2>4. ~(outer > depth + n) /\ ~(outer > depth) /\ outer # 2 BY <2>2
  <2> QED BY <1>5, <2>2, <2>3, <2>4 DEF LayerAt
<1>11. ASSUME app.made = "with_origins" PROVE app.guarded /\ \E l \in 1 .. depth + n + 1 : stack[l] = "cors"
  <2>1. PICK i \in DOMAIN user : user[i] = "cors" BY <1>1, <1>11 DEF AppSound
  <2>2. i \in 1 .. n BY <1>5
  <2>3. depth + i \in 1 .. depth + n + 1 /\ ~(depth + i > depth + n) /\ depth + i > depth /\ depth + i - depth = i BY <2>2
  <2>4. stack[depth + i] = "cors" BY <1>5, <1>6, <2>1, <2>3 DEF LayerAt
  <2>5. app.guarded BY <1>11 DEF AppSound
  <2> QED BY <2>3, <2>4, <2>5
<1>12. depth < depth + n + 1 /\ depth + n + 1 \in Nat OBVIOUS
<1> QED BY <1>4, <1>6, <1>8, <1>9, <1>10, <1>11, <1>12

\* A stack of that shape has its guard in its place.
LEMMA GuardsArePlaced ==
    ASSUME AppSound(app)
    PROVE  GuardIsPlaced
<1>1. SUFFICES ASSUME app.guarded, ~Mutable
               PROVE  \E g \in DOMAIN Stack :
                        /\ Positions(Stack, "guard") = {g} /\ g > 1 /\ Stack[g - 1] = "serverError"
                        /\ \A l \in DOMAIN Stack : Stack[l] \in {"serverError", "otel"} <=> l < g
  BY DEF GuardIsPlaced
<1> DEFINE n == Len(Stack)
           g == Depth(app)
<1>2. /\ DOMAIN Stack = 1 .. n /\ n \in Nat /\ g \in 1 .. 4 /\ g < n /\ g > 1 /\ Stack[g - 1] = "serverError"
      /\ \A l \in 1 .. n : /\ Stack[l] \in {"serverError", "otel", "guard"} <=> l <= g
                           /\ Stack[l] = "guard" <=> app.guarded /\ l = g
  BY <1>1, WhereLayersAre, Zenon
<1> HIDE DEF n, g
<1>3. g \in 1 .. n BY <1>2
<1>4. Positions(Stack, "guard") = {g} BY <1>1, <1>2, <1>3 DEF Positions
<1>5. \A l \in 1 .. n : Stack[l] \in {"serverError", "otel"} <=> l < g BY <1>1, <1>2
<1> QED BY <1>2, <1>3, <1>4, <1>5

\* What the handlers render: a 500 for what has no handler.
LEMMA KindFacts ==
    /\ Raisable \subseteq Kinds /\ {"fault", "cancel", "broken"} \subseteq Kinds
    /\ \A kind \in Kinds : HandlerFor(kind) \in Nat /\ (HandlerFor(kind) = 0 <=> kind \in {"fault", "cancel", "broken"})
    /\ \A kind \in Kinds : Rendered(kind) \in Nat /\ (kind \notin {"fault", "cancel", "broken"} => Rendered(kind) = HandlerFor(kind))
    /\ Rendered("fault") = 500
<1>1. {"fault", "cancel", "broken"} \subseteq Kinds BY DEF Kinds
<1>2. ASSUME NEW kind \in DOMAIN DynamoStatus
      PROVE  HandlerFor(kind) \in Nat \ {0} /\ kind \notin {"fault", "cancel", "broken"}
  <2>1. kind \in {"ItemNotFound", "ConditionFailed", "UnprocessedItems", "TransactionCanceled", "TransactionConflict"}
    BY DEF DynamoStatus
  <2>2. DynamoStatus[kind] \in {404, 409, 503, 500} BY <2>1 DEF DynamoStatus
  <2>3. DOMAIN ClientErrorStatus = {"ConditionalCheck", "Throttled", "NoTable", "CanceledByCondition", "Canceled", "OtherClientError"}
    BY DEF ClientErrorStatus
  <2>4. kind \notin DOMAIN ClientErrorStatus /\ kind \notin {"http", "invalid", "mapped"} BY <2>1, <2>3
  <2>5. HandlerFor(kind) = DynamoStatus[kind] BY <2>4 DEF HandlerFor
  <2> QED BY <2>1, <2>2, <2>5
<1>3. ASSUME NEW kind \in DOMAIN ClientErrorStatus
      PROVE  HandlerFor(kind) \in Nat \ {0} /\ kind \notin {"fault", "cancel", "broken"}
  BY DEF HandlerFor, DynamoStatus, ClientErrorStatus
<1>4. ASSUME NEW kind \in {"http", "invalid", "mapped"} PROVE HandlerFor(kind) \in Nat \ {0}
  BY DEF HandlerFor, DynamoStatus, ClientErrorStatus
<1>5. ASSUME NEW kind \in {"broken", "fault", "cancel"} PROVE HandlerFor(kind) = 0
  BY DEF HandlerFor, DynamoStatus, ClientErrorStatus
<1>6. ASSUME NEW kind \in Kinds
      PROVE  HandlerFor(kind) \in Nat /\ (HandlerFor(kind) = 0 <=> kind \in {"fault", "cancel", "broken"})
  <2>1. kind \in DOMAIN DynamoStatus \/ kind \in DOMAIN ClientErrorStatus
        \/ kind \in {"http", "invalid", "mapped"} \/ kind \in {"broken", "fault", "cancel"}
    BY DEF Kinds
  <2> QED BY <1>2, <1>3, <1>4, <1>5, <2>1
<1>7. \A kind \in Kinds : Rendered(kind) \in Nat /\ (kind \notin {"fault", "cancel", "broken"} => Rendered(kind) = HandlerFor(kind))
  BY <1>6 DEF Rendered
<1>8. Rendered("fault") = 500 BY <1>5 DEF Rendered
<1> QED BY HttpAssumption, <1>1, <1>6, <1>7, <1>8

\* What holds of a request that has arrived holds whatever else moves.
LEMMA SoundStands ==
    ASSUME NEW s, Sound(s), UNCHANGED app
    PROVE  Sound(s)'
<1>1. UNCHANGED <<Stack, Bottom, Depth(app)>> BY DEF Stack, Bottom, Depth, OtelLayers
<1>2. Placed(s)' BY <1>1 DEF Sound, Placed
<1>3. Outbound(s)' BY <1>1 DEF Sound, Outbound
<1>4. Concluded(s)' BY <1>1 DEF Sound, Concluded
<1>5. Headed(s)' BY <1>1 DEF Sound, Headed
<1> QED BY <1>2, <1>3, <1>4, <1>5 DEF Sound

\* A response starts on its way out.
LEMMA ResponseStarts ==
    ASSUME AppSound(app), ~Mutable, NEW r, Sound(r), r.seen # 0, NEW s \in WireRecord, s.at = "rising",
           s.layer \in 0 .. Len(Stack), s.layer < r.seen, s.by \in Responders, s.by = "serverError" /\ app.guarded => ~s.escaped.group,
           app.guarded /\ s.status = 500 /\ ~r.above /\ ~r.lone => RendersFault(r),
           s.by \in {"route", "handlers"} => \A k \in DOMAIN Stack : s.layer < k => Stack[k] # "cors",
           s.by = "guard" /\ app.made = "with_origins" => s.cors,
           s.seen = r.seen, s.starts = r.starts, s.kinds = r.kinds, s.above = r.above, s.lone = r.lone
    PROVE  Sound(s)
<1>1. Len(Stack) \in Nat BY WhereLayersAre
<1>2. Placed(s)
  <2>1. s.starts = IF s.seen = 0 THEN 1 ELSE 0 BY DEF Sound, Placed
  <2>2. s.layer < s.seen /\ s.layer <= Len(Stack) /\ s.by \in Responders BY <1>1
  <2> QED BY <2>1, <2>2 DEF Placed
<1>3. Outbound(s) BY DEF Outbound
<1>4. Concluded(s) BY DEF Concluded, RendersFault
<1>5. Headed(s) BY DEF Headed, Responders
<1> QED BY <1>2, <1>3, <1>4, <1>5 DEF Sound

\* An exception leaves a layer, the same or another one.
LEMMA ExceptionLeaves ==
    ASSUME AppSound(app), ~Mutable, NEW r, Sound(r), r.at = "failing", NEW s \in WireRecord, s.at = "failing",
           r.layer \in 1 .. Len(Stack), s.layer = r.layer - 1,
           Len(s.error.leaves) > 0, ~s.error.group => Len(s.error.leaves) = 1,
           app.guarded /\ r.layer <= Depth(app) => ~s.error.group \/ OnlyCancelled(s.error),
           r.layer = 1 => r.seen = 0 \/ "cancel" \in ToSet(s.error.leaves),
           ~s.above => ToSet(s.error.leaves) \subseteq r.kinds,
           ~s.above /\ ~s.lone /\ ~s.error.group /\ r.seen # 0 => s.error.leaves[1] \in {"fault", "cancel"},
           r.above => s.above, r.lone => s.lone,
           s.seen = r.seen, s.starts = r.starts, s.kinds = r.kinds, s.status = r.status, s.by = r.by, s.cors = r.cors
    PROVE  Sound(s)
<1>1. Len(Stack) \in Nat /\ r.layer \in Nat /\ Depth(app) \in Nat
  <2>1. Len(Stack) \in Nat /\ Depth(app) \in 1 .. 4 BY WhereLayersAre
  <2> QED BY <2>1
<1>2. Placed(s)
  <2>1. s.starts = IF s.seen = 0 THEN 1 ELSE 0 BY DEF Sound, Placed
  <2>2. s.seen \in Nat BY DEF WireRecord
  <2>3. r.seen = 0 \/ r.layer < r.seen BY DEF Sound, Placed
  <2>4. s.seen = 0 \/ s.layer < s.seen BY <1>1, <2>2, <2>3
  <2>5. s.layer <= Len(Stack) BY <1>1
  <2> QED BY <2>1, <2>4, <2>5 DEF Placed
<1>3. Outbound(s)
  <2>1. s.layer < Depth(app) => r.layer <= Depth(app) BY <1>1
  <2>2. s.layer = 0 => r.layer = 1 BY <1>1
  <2> QED BY <2>1, <2>2 DEF Outbound
<1>4. Concluded(s) BY DEF Sound, Concluded, RendersFault
<1>5. Headed(s) BY DEF Sound, Headed
<1> QED BY <1>2, <1>3, <1>4, <1>5 DEF Sound

\* A layer that lets an exception by, as it is.
LEMMA ExceptionPasses ==
    ASSUME AppSound(app), ~Mutable, NEW r, Sound(r), r.at = "failing", r.layer \in 1 .. Len(Stack),
           app.guarded /\ r.layer = Depth(app) => ~r.error.group \/ OnlyCancelled(r.error),
           r.layer = 1 => r.seen = 0 \/ "cancel" \in ToSet(r.error.leaves),
           r.layer = Len(Stack) /\ ~r.error.group => r.error.leaves[1] \in {"fault", "cancel"},
           NEW line \in Nat, NEW s, s = [r EXCEPT !.layer = @ - 1, !.line = line]
    PROVE  Sound(s) /\ s.at = "failing"
<1>1. r \in WireRecord BY DEF Sound
<1>2. Len(Stack) \in Nat /\ r.layer \in Nat /\ r.layer - 1 \in Nat /\ Depth(app) \in Nat BY WhereLayersAre
<1>3. s \in WireRecord BY <1>1, <1>2 DEF WireRecord
<1>4. /\ s.at = "failing" /\ s.layer = r.layer - 1 /\ s.error = r.error /\ s.above = r.above /\ s.lone = r.lone
      /\ s.seen = r.seen /\ s.starts = r.starts /\ s.kinds = r.kinds /\ s.status = r.status /\ s.by = r.by /\ s.cors = r.cors
  BY <1>1 DEF WireRecord
<1>5. /\ Len(r.error.leaves) > 0 /\ (~r.error.group => Len(r.error.leaves) = 1)
      /\ (app.guarded /\ r.layer < Depth(app) => ~r.error.group \/ OnlyCancelled(r.error))
      /\ (~r.above => ToSet(r.error.leaves) \subseteq r.kinds)
      /\ (~r.above /\ ~r.lone /\ ~r.error.group /\ r.layer < Len(Stack) /\ r.seen # 0 => r.error.leaves[1] \in {"fault", "cancel"})
  BY DEF Sound, Outbound
<1>6. app.guarded /\ r.layer <= Depth(app) => ~r.error.group \/ OnlyCancelled(r.error) BY <1>2, <1>5
<1>7. ~r.above /\ ~r.lone /\ ~r.error.group /\ r.seen # 0 => r.error.leaves[1] \in {"fault", "cancel"} BY <1>2, <1>5
<1> QED BY <1>3, <1>4, <1>5, <1>6, <1>7, ExceptionLeaves

\* What a failing request is made of.
LEMMA Failing ==
    ASSUME AppSound(app), ~Mutable, NEW r, Sound(r), r.at = "failing", r.layer > 0
    PROVE  /\ r \in WireRecord /\ r.layer \in 1 .. Len(Stack) /\ r.layer \in Nat /\ r.seen \in Nat
           /\ Started(r) <=> r.seen = 0
           /\ ~Started(r) => r.layer < r.seen
           /\ r.error \in Errors /\ Len(r.error.leaves) > 0 /\ r.error.leaves[1] \in ToSet(r.error.leaves)
           /\ r.error.leaves[1] = Head(r.error.leaves) /\ ToSet(r.error.leaves) \subseteq Kinds
           /\ ~r.above => ToSet(r.error.leaves) \subseteq r.kinds
<1>1. r \in WireRecord /\ r.layer \in Nat /\ r.seen \in Nat /\ r.error \in Errors BY DEF Sound, WireRecord
<1>2. r.layer <= Len(Stack) /\ (r.seen = 0 \/ r.layer < r.seen) BY DEF Sound, Placed
<1>3. Len(Stack) \in Nat BY WhereLayersAre
<1>4. Started(r) <=> r.seen = 0 BY <1>1, <1>2 DEF Started
<1>5. Len(r.error.leaves) > 0 /\ (~r.above => ToSet(r.error.leaves) \subseteq r.kinds) BY DEF Sound, Outbound
<1>6. PICK leaves \in Seq(Kinds) : leaves = r.error.leaves BY <1>1 DEF Errors
<1>7. leaves[1] \in ToSet(leaves) /\ leaves[1] = Head(leaves) /\ ToSet(leaves) \subseteq Kinds
  <2>1. 1 \in DOMAIN leaves BY <1>5, <1>6
  <2> QED BY <2>1 DEF ToSet
<1> QED BY <1>1, <1>2, <1>3, <1>4, <1>5, <1>6, <1>7

\* An exception the application raised goes where the server puts a plain one.
LEMMA PlainError ==
    ASSUME NEW kind \in Kinds
    PROVE  /\ Plain(kind) \in Errors /\ ~Plain(kind).group /\ Len(Plain(kind).leaves) = 1
           /\ Plain(kind).leaves[1] = kind /\ ToSet(Plain(kind).leaves) = {kind}
<1>1. PICK leaves \in Seq(Kinds) : leaves = <<kind>> /\ Len(leaves) = 1 /\ leaves[1] = kind
  <2>1. <<kind>> \in Seq(Kinds) OBVIOUS
  <2> QED BY <2>1
<1>2. DOMAIN leaves = {1} BY <1>1
<1>3. ToSet(leaves) = {kind} BY <1>1, <1>2 DEF ToSet
<1>4. Plain(kind) = [group |-> FALSE, leaves |-> leaves] BY <1>1 DEF Plain
<1> QED BY <1>1, <1>3, <1>4 DEF Errors

\* Starlette's handlers answer for a plain exception that is mapped.
LEMMA HandlersKeep ==
    ASSUME AppSound(app), ~Mutable, NEW r, Sound(r), r.at = "failing", r.layer > 0, Stack[r.layer] = "handlers",
           NEW s \in HandlersCatch(r)
    PROVE  Sound(s) /\ s.at # "idle"
<1> DEFINE kind == Head(r.error.leaves)
<1>1. /\ r \in WireRecord /\ r.layer \in 1 .. Len(Stack) /\ r.layer \in Nat /\ r.seen \in Nat
      /\ Started(r) <=> r.seen = 0
      /\ ~Started(r) => r.layer < r.seen
      /\ kind \in ToSet(r.error.leaves) /\ kind = r.error.leaves[1] /\ kind \in Kinds
      /\ ~r.above => ToSet(r.error.leaves) \subseteq r.kinds
  BY Failing
<1>2. r.layer = Len(Stack) /\ r.layer > Depth(app) /\ r.layer > 1 /\ Len(Stack) \in Nat /\ Depth(app) \in Nat
  <2>1. /\ Len(Stack) \in Nat /\ Depth(app) \in 1 .. 4 /\ Depth(app) < Len(Stack)
        /\ \A l \in 1 .. Len(Stack) : Stack[l] = "handlers" <=> l = Len(Stack)
    BY WhereLayersAre
  <2>2. r.layer = Len(Stack) BY <1>1, <2>1
  <2> QED BY <2>1, <2>2
<1>3. ASSUME r.error.group \/ kind \in {"fault", "cancel"} PROVE Sound(s) /\ s.at # "idle"
  <2>1. s = [r EXCEPT !.layer = @ - 1] BY <1>3 DEF HandlersCatch, Climb
  <2>2. r.line \in Nat BY <1>1 DEF WireRecord
  <2>3. s = [r EXCEPT !.layer = @ - 1, !.line = r.line] BY <1>1, <2>1 DEF WireRecord
  <2>4. r.layer = Len(Stack) /\ ~r.error.group => r.error.leaves[1] \in {"fault", "cancel"} BY <1>1, <1>3
  <2>5. ~(r.layer = Depth(app)) /\ r.layer # 1 BY <1>2
  <2>6. Sound(s) /\ s.at = "failing" BY <1>1, <2>2, <2>3, <2>4, <2>5, ExceptionPasses
  <2> QED BY <2>6
<1>4. ASSUME ~(r.error.group \/ kind \in {"fault", "cancel"}), kind = "broken" \/ Started(r) PROVE Sound(s) /\ s.at # "idle"
  <2>1. s = [[r EXCEPT !.layer = @ - 1] EXCEPT !.error = Plain("fault"), !.above = TRUE] BY <1>4 DEF HandlersCatch, Climb
  <2>2. Plain("fault") \in Errors /\ ~Plain("fault").group /\ Len(Plain("fault").leaves) = 1 BY KindFacts, PlainError
  <2>3. r.layer - 1 \in Nat BY <1>2
  <2>4. s \in WireRecord BY <1>1, <2>1, <2>2, <2>3 DEF WireRecord
  <2>5. /\ s.at = "failing" /\ s.layer = r.layer - 1 /\ s.error = Plain("fault") /\ s.above = TRUE /\ s.lone = r.lone
        /\ s.seen = r.seen /\ s.starts = r.starts /\ s.kinds = r.kinds /\ s.status = r.status /\ s.by = r.by /\ s.cors = r.cors
    BY <1>1, <2>1 DEF WireRecord
  <2>6. ~(r.layer <= Depth(app)) /\ r.layer # 1 BY <1>2
  <2>7. Len(s.error.leaves) > 0 /\ Len(s.error.leaves) = 1 /\ ~s.error.group
    <3>1. Len(s.error.leaves) = 1 BY <2>2, <2>5, Zenon
    <3>2. ~s.error.group BY <2>2, <2>5, Zenon
    <3> QED BY <3>1, <3>2
  <2>8. s.above /\ (r.lone => s.lone) BY <2>5
  <2>9. Sound(s) BY <1>1, <2>4, <2>5, <2>6, <2>7, <2>8, ExceptionLeaves
  <2> QED BY <2>5, <2>9
<1>5. ASSUME ~(r.error.group \/ kind \in {"fault", "cancel"}), ~(kind = "broken" \/ Started(r)) PROVE Sound(s) /\ s.at # "idle"
  <2>1. s = [r EXCEPT !.at = "rising", !.layer = r.layer - 1, !.status = HandlerFor(kind), !.by = "handlers", !.cors = FALSE, !.error = NoError]
    BY <1>5 DEF HandlersCatch, Responds
  <2>2. HandlerFor(kind) \in Nat /\ Rendered(kind) = HandlerFor(kind) BY <1>1, <1>5, KindFacts
  <2>3. r.layer - 1 \in Nat /\ r.layer - 1 \in 0 .. Len(Stack) BY <1>2
  <2>4. NoError \in Errors BY DEF NoError, Errors
  <2>5. s \in WireRecord BY <1>1, <2>1, <2>2, <2>3, <2>4 DEF WireRecord, Responders
  <2>6. /\ s.at = "rising" /\ s.layer = r.layer - 1 /\ s.status = HandlerFor(kind) /\ s.by = "handlers"
        /\ s.seen = r.seen /\ s.starts = r.starts /\ s.kinds = r.kinds /\ s.above = r.above /\ s.lone = r.lone
    BY <1>1, <2>1 DEF WireRecord
  <2>7. r.seen # 0 /\ r.layer - 1 < r.seen BY <1>1, <1>5
  <2>8. \A k \in DOMAIN Stack : r.layer - 1 < k => Stack[k] # "cors"
    <3>1. DOMAIN Stack = 1 .. Len(Stack) BY WhereLayersAre
    <3>2. \A k \in 1 .. Len(Stack) : r.layer - 1 < k => k = r.layer BY <1>2
    <3> QED BY <3>1, <3>2
  <2>9. s.status = 500 /\ ~r.above /\ ~r.lone => RendersFault(r)
    <3>1. SUFFICES ASSUME s.status = 500, ~r.above PROVE RendersFault(r) OBVIOUS
    <3>2. kind \in r.kinds \ {"cancel"} BY <1>1, <1>5, <3>1
    <3>3. Rendered(kind) = 500 BY <2>2, <2>6, <3>1
    <3> QED BY <3>2, <3>3 DEF RendersFault
  <2>10. s.by \in Responders /\ s.by # "serverError" /\ s.by # "guard" BY <2>6 DEF Responders
  <2> QED BY <2>3, <2>5, <2>6, <2>7, <2>8, <2>9, <2>10, ResponseStarts
<1> QED BY <1>3, <1>4, <1>5

\* The request log passes an exception on.
LEMMA LogKeeps ==
    ASSUME AppSound(app), ~Mutable, NEW r, Sound(r), r.at = "failing", r.layer > 0, Stack[r.layer] = "log",
           NEW s \in LogSees(r)
    PROVE  Sound(s) /\ s.at # "idle"
<1>1. r \in WireRecord /\ r.layer \in 1 .. Len(Stack) BY Failing
<1>2. /\ Stack[1] = "serverError"
      /\ \A l \in 1 .. Len(Stack) : /\ Stack[l] \in {"serverError", "otel", "guard"} <=> l <= Depth(app)
                                    /\ Stack[l] = "guard" <=> app.guarded /\ l = Depth(app)
                                    /\ Stack[l] = "handlers" <=> l = Len(Stack)
  BY WhereLayersAre
<1>3. r.layer # 1 /\ ~(app.guarded /\ r.layer = Depth(app)) /\ r.layer # Len(Stack) BY <1>1, <1>2
<1>4. PICK line : line = IF ~IsException(r.error) THEN r.line ELSE IF Started(r) THEN r.status ELSE 500 OBVIOUS
<1>5. line \in Nat
  <2>1. r.line \in Nat /\ r.status \in Nat BY <1>1 DEF WireRecord
  <2> QED BY <1>4, <2>1
<1>6. s = [r EXCEPT !.layer = @ - 1, !.line = line] BY <1>1, <1>4 DEF LogSees, Climb, WireRecord
<1>7. Sound(s) /\ s.at = "failing" BY <1>1, <1>3, <1>5, <1>6, ExceptionPasses
<1> QED BY <1>7

\* A layer that is neither the guard nor the handlers, and beneath the first.
LEMMA OthersKeep ==
    ASSUME AppSound(app), ~Mutable, NEW r, Sound(r), r.at = "failing", r.layer > 0,
           Stack[r.layer] \notin {"handlers", "guard", "serverError"}, NEW s, s = Climb(r)
    PROVE  Sound(s) /\ s.at # "idle"
<1>1. r \in WireRecord /\ r.layer \in 1 .. Len(Stack) BY Failing
<1>2. /\ Stack[1] = "serverError"
      /\ \A l \in 1 .. Len(Stack) : /\ Stack[l] = "guard" <=> app.guarded /\ l = Depth(app)
                                    /\ Stack[l] = "handlers" <=> l = Len(Stack)
  BY WhereLayersAre
<1>3. r.layer # 1 /\ ~(app.guarded /\ r.layer = Depth(app)) /\ r.layer # Len(Stack) BY <1>1, <1>2
<1>4. r.line \in Nat BY <1>1 DEF WireRecord
<1>5. s = [r EXCEPT !.layer = @ - 1, !.line = r.line] BY <1>1 DEF Climb, WireRecord
<1>6. Sound(s) /\ s.at = "failing" BY <1>1, <1>3, <1>4, <1>5, ExceptionPasses
<1> QED BY <1>6

\* A task group passes an exception on, in a group or out of one, or beside another.
LEMMA TaskGroupKeeps ==
    ASSUME AppSound(app), ~Mutable, NEW r, Sound(r), r.at = "failing", r.layer > 0, Stack[r.layer] \in {"product", "requestId"},
           NEW s \in TaskGroup(r)
    PROVE  Sound(s) /\ s.at # "idle"
<1>1. /\ r \in WireRecord /\ r.layer \in 1 .. Len(Stack) /\ r.layer \in Nat
      /\ r.error \in Errors /\ Len(r.error.leaves) > 0 /\ ToSet(r.error.leaves) \subseteq Kinds
      /\ ~r.above => ToSet(r.error.leaves) \subseteq r.kinds
  BY Failing
<1>2. /\ Stack[1] = "serverError" /\ Depth(app) \in 1 .. 4 /\ Len(Stack) \in Nat
      /\ \A l \in 1 .. Len(Stack) : /\ Stack[l] \in {"serverError", "otel", "guard"} <=> l <= Depth(app)
                                    /\ Stack[l] = "handlers" <=> l = Len(Stack)
  BY WhereLayersAre
<1>3. r.layer # 1 /\ ~(r.layer <= Depth(app)) /\ r.layer < Len(Stack)
  <2>1. r.layer # 1 /\ ~(r.layer <= Depth(app)) /\ r.layer # Len(Stack) BY <1>1, <1>2
  <2> QED BY <1>1, <1>2, <2>1
<1>4. r.layer - 1 \in Nat BY <1>1, <1>3
<1>5. PICK leaves \in Seq(Kinds) : leaves = r.error.leaves BY <1>1 DEF Errors
<1>6. /\ ~r.error.group => Len(leaves) = 1
      /\ ~r.above /\ ~r.lone /\ ~r.error.group /\ r.seen # 0 => leaves[1] \in {"fault", "cancel"}
  BY <1>3, <1>5 DEF Sound, Outbound
<1>7. r.error.group \in BOOLEAN /\ r.lone \in BOOLEAN /\ r.above \in BOOLEAN /\ r.raised \in Nat BY <1>1 DEF WireRecord, Errors
<1>8. ASSUME s = [Climb(r) EXCEPT !.error = [group |-> Len(r.error.leaves) > 1, leaves |-> r.error.leaves],
                                  !.lone = @ \/ (r.error.group /\ Len(r.error.leaves) = 1)]
      PROVE  Sound(s) /\ s.at # "idle"
  <2>1. PICK many \in BOOLEAN : many <=> Len(leaves) > 1 OBVIOUS
  <2>2. PICK e \in Errors : e = [group |-> Len(leaves) > 1, leaves |-> leaves] /\ e.leaves = leaves /\ (e.group <=> Len(leaves) > 1)
    <3>1. [group |-> Len(leaves) > 1, leaves |-> leaves] \in Errors BY DEF Errors
    <3> QED BY <3>1
  <2>3. PICK lone \in BOOLEAN : lone <=> r.lone \/ (r.error.group /\ Len(leaves) = 1) OBVIOUS
  <2>4. s = [[r EXCEPT !.layer = @ - 1] EXCEPT !.error = e, !.lone = @ \/ (r.error.group /\ Len(leaves) = 1)]
    BY <1>5, <1>8, <2>2 DEF Climb
  <2>5. s \in WireRecord BY <1>1, <1>4, <1>7, <2>4 DEF WireRecord
  <2>6. /\ s.at = "failing" /\ s.layer = r.layer - 1 /\ s.error = e /\ s.above = r.above
        /\ s.seen = r.seen /\ s.starts = r.starts /\ s.kinds = r.kinds /\ s.status = r.status /\ s.by = r.by /\ s.cors = r.cors
    BY <1>1, <2>4 DEF WireRecord
  <2>7. s.lone <=> r.lone \/ (r.error.group /\ Len(leaves) = 1) BY <1>1, <2>4 DEF WireRecord
  <2>8. Len(s.error.leaves) > 0 /\ (~s.error.group => Len(s.error.leaves) = 1)
    <3>1. s.error.leaves = leaves /\ (s.error.group <=> Len(leaves) > 1) BY <2>2, <2>6, Zenon
    <3>2. Len(leaves) > 0 /\ Len(leaves) \in Nat BY <1>1, <1>5
    <3>3. ~(Len(leaves) > 1) => Len(leaves) = 1
      <4>1. PICK n \in Nat : n = Len(leaves) BY <3>2
      <4>2. n > 0 BY <3>2, <4>1
      <4>3. ~(n > 1) => n = 1 BY <4>2
      <4> QED BY <4>1, <4>3
    <3> QED BY <3>1, <3>2, <3>3, Zenon
  <2>9. ~s.above => ToSet(s.error.leaves) \subseteq r.kinds BY <1>1, <1>5, <2>2, <2>6
  <2>10. ~s.above /\ ~s.lone /\ ~s.error.group /\ r.seen # 0 => s.error.leaves[1] \in {"fault", "cancel"}
    <3>1. SUFFICES ASSUME ~s.above, ~s.lone, ~s.error.group, r.seen # 0 PROVE s.error.leaves[1] \in {"fault", "cancel"} OBVIOUS
    <3>2. Len(leaves) = 1 BY <2>2, <2>6, <2>8, <3>1
    <3>3. ~r.lone /\ ~r.error.group BY <2>7, <3>1, <3>2
    <3> QED BY <1>6, <2>2, <2>6, <3>1, <3>3
  <2>11. (r.above => s.above) /\ (r.lone => s.lone) BY <2>6, <2>7
  <2>12. Sound(s) BY <1>1, <1>3, <2>5, <2>6, <2>8, <2>9, <2>10, <2>11, ExceptionLeaves
  <2> QED BY <2>6, <2>12
<1>9. ASSUME NEW kind \in Raisable, NEW both \in {<<kind>> \o r.error.leaves, r.error.leaves \o <<kind>>},
             s = [Climb(r) EXCEPT !.error = [group |-> TRUE, leaves |-> both], !.raised = @ + 1, !.above = TRUE]
      PROVE  Sound(s) /\ s.at # "idle"
  <2>1. PICK one \in Seq(Kinds) : one = <<kind>> /\ Len(one) = 1
    <3>1. <<kind>> \in Seq(Kinds) BY KindFacts
    <3> QED BY <3>1
  <2>2. /\ one \o leaves \in Seq(Kinds) /\ Len(one \o leaves) = Len(one) + Len(leaves)
        /\ leaves \o one \in Seq(Kinds) /\ Len(leaves \o one) = Len(leaves) + Len(one)
    BY ConcatProperties
  <2>3. both \in Seq(Kinds) /\ Len(both) > 0
    <3>1. Len(leaves) \in Nat OBVIOUS
    <3>2. both = one \o leaves \/ both = leaves \o one BY <1>5, <2>1
    <3>3. CASE both = one \o leaves BY <2>1, <2>2, <3>1, <3>3
    <3>4. CASE both = leaves \o one BY <2>1, <2>2, <3>1, <3>4
    <3> QED BY <3>2, <3>3, <3>4
  <2>4. PICK e \in Errors : e = [group |-> TRUE, leaves |-> both] /\ e.leaves = both /\ e.group = TRUE
    <3>1. [group |-> TRUE, leaves |-> both] \in Errors BY <2>3 DEF Errors
    <3> QED BY <3>1
  <2>5. PICK c \in WireRecord :
          /\ c = Climb(r) /\ c.at = "failing" /\ c.layer = r.layer - 1 /\ c.lone = r.lone /\ c.raised \in Nat
          /\ c.seen = r.seen /\ c.starts = r.starts /\ c.kinds = r.kinds /\ c.status = r.status /\ c.by = r.by /\ c.cors = r.cors
    <3>1. PICK c : c = [r EXCEPT !.layer = @ - 1] OBVIOUS
    <3>2. c \in WireRecord BY <1>1, <1>4, <3>1 DEF WireRecord
    <3>3. /\ c.at = "failing" /\ c.layer = r.layer - 1 /\ c.lone = r.lone /\ c.raised \in Nat
          /\ c.seen = r.seen /\ c.starts = r.starts /\ c.kinds = r.kinds /\ c.status = r.status /\ c.by = r.by /\ c.cors = r.cors
      BY <1>1, <1>7, <3>1 DEF WireRecord
    <3> QED BY <3>1, <3>2, <3>3 DEF Climb
  <2>6. s = [c EXCEPT !.error = e, !.raised = @ + 1, !.above = TRUE] BY <1>9, <2>4, <2>5, Zenon
  <2>7. PICK n \in Nat : n = c.raised + 1 BY <2>5
  <2>8. s \in WireRecord BY <2>6, <2>7 DEF WireRecord
  <2>9. /\ s.at = "failing" /\ s.layer = r.layer - 1 /\ s.error = e /\ s.above = TRUE /\ s.lone = r.lone
        /\ s.seen = r.seen /\ s.starts = r.starts /\ s.kinds = r.kinds /\ s.status = r.status /\ s.by = r.by /\ s.cors = r.cors
    BY <2>5, <2>6 DEF WireRecord
  <2>10. Len(s.error.leaves) > 0 /\ s.error.group BY <2>3, <2>4, <2>9
  <2>11. s.above /\ (r.lone => s.lone) BY <2>9
  <2>12. Sound(s) BY <1>1, <1>3, <2>8, <2>9, <2>10, <2>11, ExceptionLeaves
  <2> QED BY <2>9, <2>12
<1>10. \/ s = [Climb(r) EXCEPT !.error = [group |-> Len(r.error.leaves) > 1, leaves |-> r.error.leaves],
                               !.lone = @ \/ (r.error.group /\ Len(r.error.leaves) = 1)]
       \/ \E kind \in Raisable : \E both \in {<<kind>> \o r.error.leaves, r.error.leaves \o <<kind>>} :
            s = [Climb(r) EXCEPT !.error = [group |-> TRUE, leaves |-> both], !.raised = @ + 1, !.above = TRUE]
  <2>1. CASE s \in IF Len(r.error.leaves) > 1 \/ r.raised >= MaxRaised THEN {}
                   ELSE {[Climb(r) EXCEPT !.error = [group |-> TRUE, leaves |-> both], !.raised = @ + 1, !.above = TRUE] :
                           both \in UNION {{<<kind>> \o r.error.leaves, r.error.leaves \o <<kind>>} : kind \in Raisable}}
    <3>1. PICK both \in UNION {{<<kind>> \o r.error.leaves, r.error.leaves \o <<kind>>} : kind \in Raisable} :
            s = [Climb(r) EXCEPT !.error = [group |-> TRUE, leaves |-> both], !.raised = @ + 1, !.above = TRUE]
      BY <2>1, Zenon
    <3>2. PICK kind \in Raisable : both \in {<<kind>> \o r.error.leaves, r.error.leaves \o <<kind>>} BY Zenon
    <3> QED BY <3>1, <3>2, Zenon
  <2> QED BY <2>1, Zenon DEF TaskGroup
<1> QED BY <1>8, <1>9, <1>10

\* The record of a response that starts.
LEMMA Responding ==
    ASSUME NEW r \in WireRecord, NEW l \in Nat, NEW status \in Nat, NEW who \in Responders, NEW c, c = Responds(r, l, status, who)
    PROVE  /\ c \in WireRecord
           /\ c.at = "rising" /\ c.layer = l /\ c.status = status /\ c.by = who /\ c.escaped = r.escaped
           /\ c.seen = r.seen /\ c.starts = r.starts /\ c.kinds = r.kinds /\ c.above = r.above /\ c.lone = r.lone
<1>1. NoError \in Errors BY DEF NoError, Errors
<1>2. who \in Responders \cup {""} OBVIOUS
<1>3. c \in WireRecord BY <1>1, <1>2 DEF Responds, WireRecord
<1>4. /\ c.at = "rising" /\ c.layer = l /\ c.status = status /\ c.by = who /\ c.escaped = r.escaped
      /\ c.seen = r.seen /\ c.starts = r.starts /\ c.kinds = r.kinds /\ c.above = r.above /\ c.lone = r.lone
  BY DEF Responds, WireRecord
<1> QED BY <1>3, <1>4

\* The guard reports a group as the response of one of its faults.
LEMMA GuardKeeps ==
    ASSUME AppSound(app), ~Mutable, NEW r, Sound(r), r.at = "failing", r.layer > 0, Stack[r.layer] = "guard",
           NEW s \in GuardHandles(r)
    PROVE  Sound(s) /\ s.at # "idle"
<1>1. /\ r \in WireRecord /\ r.layer \in 1 .. Len(Stack) /\ r.layer \in Nat /\ r.seen \in Nat
      /\ Started(r) <=> r.seen = 0
      /\ ~Started(r) => r.layer < r.seen
      /\ r.error \in Errors /\ Len(r.error.leaves) > 0 /\ ToSet(r.error.leaves) \subseteq Kinds
      /\ ~r.above => ToSet(r.error.leaves) \subseteq r.kinds
  BY Failing
<1>2. app.guarded /\ r.layer = Depth(app) /\ r.layer > 1 /\ r.layer < Len(Stack) /\ Len(Stack) \in Nat
  <2>1. /\ Len(Stack) \in Nat /\ Depth(app) \in 1 .. 4 /\ Depth(app) < Len(Stack) /\ (app.guarded => Depth(app) > 1)
        /\ \A l \in 1 .. Len(Stack) : Stack[l] = "guard" <=> app.guarded /\ l = Depth(app)
    BY WhereLayersAre
  <2>2. app.guarded /\ r.layer = Depth(app) BY <1>1, <2>1
  <2> QED BY <2>1, <2>2
<1>3. r.layer - 1 \in Nat /\ r.layer - 1 \in 0 .. Len(Stack) /\ r.layer # 1 /\ r.layer # Len(Stack) BY <1>1, <1>2
<1>4. ASSUME ~r.error.group \/ OnlyCancelled(r.error) PROVE Sound(s) /\ s.at # "idle"
  <2>1. s = Climb(r) BY <1>4 DEF GuardHandles
  <2>2. r.line \in Nat BY <1>1 DEF WireRecord
  <2>3. s = [r EXCEPT !.layer = @ - 1, !.line = r.line] BY <1>1, <2>1 DEF Climb, WireRecord
  <2>4. Sound(s) /\ s.at = "failing" BY <1>1, <1>3, <1>4, <2>2, <2>3, ExceptionPasses
  <2> QED BY <2>4
<1> DEFINE leaf == PrimaryLeaf(r.error)
<1>5. ASSUME ~(~r.error.group \/ OnlyCancelled(r.error))
      PROVE  leaf \in ToSet(r.error.leaves) \ {"cancel"} /\ leaf \in Kinds
  <2>1. PICK leaves \in Seq(Kinds) : leaves = r.error.leaves BY <1>1 DEF Errors
  <2>2. DOMAIN leaves = 1 .. Len(leaves) /\ Len(leaves) > 0 /\ Len(leaves) \in Nat BY <1>1, <2>1
  <2> DEFINE faults == {i \in DOMAIN leaves : leaves[i] # "cancel"}
  <2>3. faults # {}
    <3>1. SUFFICES ASSUME faults = {} PROVE FALSE OBVIOUS
    <3>2. \A i \in DOMAIN leaves : leaves[i] = "cancel" BY <3>1
    <3>3. 1 \in DOMAIN leaves BY <2>2
    <3>4. ToSet(leaves) = {"cancel"} BY <3>2, <3>3 DEF ToSet
    <3> QED BY <1>5, <2>1, <3>4 DEF OnlyCancelled
  <2>4. faults \subseteq Nat BY <2>2
  <2>5. PICK i \in faults : i = CHOOSE k \in faults : \A j \in faults : k <= j
    <3>1. \E k \in faults : \A j \in faults : k <= j BY <2>3, <2>4, TheEarliest
    <3> QED BY <3>1
  <2>6. leaf = leaves[i] BY <2>1, <2>5 DEF PrimaryLeaf
  <2>7. leaves[i] \in ToSet(leaves) /\ leaves[i] # "cancel" BY DEF ToSet
  <2> QED BY <1>1, <2>1, <2>6, <2>7
<1>6. ASSUME ~(~r.error.group \/ OnlyCancelled(r.error)), Started(r) PROVE Sound(s) /\ s.at # "idle"
  <2>1. s = [[r EXCEPT !.layer = @ - 1] EXCEPT !.error = Plain(leaf)] BY <1>6 DEF GuardHandles, Climb
  <2>2. PICK e \in Errors : /\ e = Plain(leaf) /\ ~e.group /\ Len(e.leaves) = 1 /\ e.leaves[1] = leaf /\ ToSet(e.leaves) = {leaf}
    BY <1>5, <1>6, PlainError
  <2>3. s \in WireRecord BY <1>1, <1>3, <2>1, <2>2 DEF WireRecord
  <2>4. /\ s.at = "failing" /\ s.layer = r.layer - 1 /\ s.error = e /\ s.above = r.above /\ s.lone = r.lone
        /\ s.seen = r.seen /\ s.starts = r.starts /\ s.kinds = r.kinds /\ s.status = r.status /\ s.by = r.by /\ s.cors = r.cors
    BY <1>1, <2>1, <2>2 DEF WireRecord
  <2>5. Len(s.error.leaves) = 1 /\ ~s.error.group BY <2>2, <2>4, Zenon
  <2>6. Len(s.error.leaves) > 0 BY <2>5
  <2>7. ~s.above => ToSet(s.error.leaves) \subseteq r.kinds BY <1>1, <1>5, <1>6, <2>2, <2>4
  <2>8. r.seen = 0 BY <1>1, <1>6
  <2>9. (r.above => s.above) /\ (r.lone => s.lone) BY <2>4
  <2>10. Sound(s) BY <1>1, <1>3, <2>3, <2>4, <2>5, <2>6, <2>7, <2>8, <2>9, ExceptionLeaves
  <2> QED BY <2>4, <2>10
<1>7. ASSUME ~(~r.error.group \/ OnlyCancelled(r.error)), ~Started(r) PROVE Sound(s) /\ s.at # "idle"
  <2>1. PICK cors \in BOOLEAN : cors = ("cors" \in ToSet(Stack))
    <3>1. ("cors" \in ToSet(Stack)) \in BOOLEAN OBVIOUS
    <3> QED BY <3>1
  <2>2. PICK c : c = Responds(r, r.layer - 1, Rendered(leaf), "guard") OBVIOUS
  <2>3. Rendered(leaf) \in Nat BY <1>5, <1>7, KindFacts
  <2>4. /\ c \in WireRecord
        /\ c.at = "rising" /\ c.layer = r.layer - 1 /\ c.status = Rendered(leaf) /\ c.by = "guard"
        /\ c.seen = r.seen /\ c.starts = r.starts /\ c.kinds = r.kinds /\ c.above = r.above /\ c.lone = r.lone
    <3>1. PICK l \in Nat, n \in Nat, who \in Responders : l = r.layer - 1 /\ n = Rendered(leaf) /\ who = "guard"
      BY <1>3, <2>3 DEF Responders
    <3>2. c = Responds(r, l, n, who) BY <2>2, <3>1
    <3>3. /\ c \in WireRecord
          /\ c.at = "rising" /\ c.layer = l /\ c.status = n /\ c.by = who
          /\ c.seen = r.seen /\ c.starts = r.starts /\ c.kinds = r.kinds /\ c.above = r.above /\ c.lone = r.lone
      <4>1. r \in WireRecord BY <1>1
      <4> QED BY <3>2, <4>1, Responding, SMTT(30)
    <3> QED BY <3>1, <3>3
  <2>5. s = [c EXCEPT !.cors = "cors" \in ToSet(Stack)] BY <1>7, <2>2 DEF GuardHandles
  <2>6. /\ s \in WireRecord
        /\ s.at = "rising" /\ s.layer = r.layer - 1 /\ s.status = Rendered(leaf) /\ s.by = "guard"
        /\ s.seen = r.seen /\ s.starts = r.starts /\ s.kinds = r.kinds /\ s.above = r.above /\ s.lone = r.lone
    <3>1. s \in WireRecord
      <4>1. s = [c EXCEPT !.cors = cors] BY <2>1, <2>5
      <4> QED BY <2>4, <4>1 DEF WireRecord
    <3>2. /\ s.at = "rising" /\ s.layer = r.layer - 1 /\ s.status = Rendered(leaf) /\ s.by = "guard"
          /\ s.seen = r.seen /\ s.starts = r.starts /\ s.kinds = r.kinds /\ s.above = r.above /\ s.lone = r.lone
      BY <2>4, <2>5 DEF WireRecord
    <3> QED BY <3>1, <3>2
  <2>7. s.cors <=> "cors" \in ToSet(Stack) BY <2>4, <2>5 DEF WireRecord
  <2>8. app.made = "with_origins" => s.cors
    <3>1. app.made = "with_origins" => \E l \in DOMAIN Stack : Stack[l] = "cors" BY WhereLayersAre
    <3> QED BY <2>7, <3>1 DEF ToSet
  <2>9. r.seen # 0 /\ r.layer - 1 < r.seen BY <1>1, <1>7
  <2>10. s.status = 500 /\ ~r.above /\ ~r.lone => RendersFault(r)
    <3>1. SUFFICES ASSUME s.status = 500, ~r.above PROVE RendersFault(r) OBVIOUS
    <3>2. leaf \in r.kinds \ {"cancel"} BY <1>1, <1>5, <1>7, <3>1
    <3>3. Rendered(leaf) = 500 BY <2>6, <3>1
    <3> QED BY <3>2, <3>3 DEF RendersFault
  <2>11. s.by \in Responders /\ s.by \notin {"route", "handlers"} /\ s.by # "serverError" BY <2>6 DEF Responders
  <2> QED BY <1>3, <2>6, <2>8, <2>9, <2>10, <2>11, ResponseStarts
<1> QED BY <1>4, <1>6, <1>7

\* The 500 of what nothing else answered.
LEMMA ServerErrorsKeep ==
    ASSUME AppSound(app), ~Mutable, NEW r, Sound(r), r.at = "failing", r.layer > 0, Stack[r.layer] = "serverError",
           NEW s \in ServerErrors(r)
    PROVE  Sound(s) /\ s.at # "idle"
<1>1. /\ r \in WireRecord /\ r.layer \in 1 .. Len(Stack) /\ r.layer \in Nat /\ r.seen \in Nat
      /\ Started(r) <=> r.seen = 0
      /\ ~Started(r) => r.layer < r.seen
      /\ r.error \in Errors /\ r.error.leaves[1] \in ToSet(r.error.leaves)
      /\ ~r.above => ToSet(r.error.leaves) \subseteq r.kinds
  BY Failing
<1>2. /\ Len(Stack) \in Nat /\ Depth(app) \in 1 .. 4 /\ Depth(app) < Len(Stack) /\ DOMAIN Stack = 1 .. Len(Stack)
      /\ \A l \in 1 .. Len(Stack) : /\ Stack[l] \in {"serverError", "otel", "guard"} <=> l <= Depth(app)
                                    /\ Stack[l] = "guard" <=> app.guarded /\ l = Depth(app)
  BY WhereLayersAre
<1>3. r.layer <= Depth(app) /\ ~(app.guarded /\ r.layer = Depth(app)) BY <1>1, <1>2
<1>4. r.layer < Len(Stack) /\ r.layer # Len(Stack) /\ r.layer - 1 \in Nat /\ r.layer - 1 \in 0 .. Len(Stack) BY <1>1, <1>2, <1>3
<1>5. app.guarded => ~r.error.group \/ OnlyCancelled(r.error)
  <2>1. app.guarded => r.layer < Depth(app) BY <1>1, <1>2, <1>3
  <2> QED BY <2>1 DEF Sound, Outbound
<1>6. ASSUME ~IsException(r.error) \/ Started(r) PROVE Sound(s) /\ s.at # "idle"
  <2>1. s = Climb(r) BY <1>6 DEF ServerErrors
  <2>2. r.line \in Nat BY <1>1 DEF WireRecord
  <2>3. s = [r EXCEPT !.layer = @ - 1, !.line = r.line] BY <1>1, <2>1 DEF Climb, WireRecord
  <2>4. r.seen = 0 \/ "cancel" \in ToSet(r.error.leaves) BY <1>1, <1>6 DEF IsException
  <2>5. Sound(s) /\ s.at = "failing" BY <1>1, <1>3, <1>4, <2>2, <2>3, <2>4, ExceptionPasses
  <2> QED BY <2>5
<1>7. ASSUME ~(~IsException(r.error) \/ Started(r)) PROVE Sound(s) /\ s.at # "idle"
  <2>1. PICK c : c = Responds(r, r.layer - 1, 500, "serverError") OBVIOUS
  <2>2. /\ c \in WireRecord
        /\ c.at = "rising" /\ c.layer = r.layer - 1 /\ c.status = 500 /\ c.by = "serverError"
        /\ c.seen = r.seen /\ c.starts = r.starts /\ c.kinds = r.kinds /\ c.above = r.above /\ c.lone = r.lone
    <3>1. PICK l \in Nat, n \in Nat, who \in Responders : l = r.layer - 1 /\ n = 500 /\ who = "serverError"
      BY <1>4 DEF Responders
    <3>2. c = Responds(r, l, n, who) BY <2>1, <3>1
    <3>3. /\ c \in WireRecord
          /\ c.at = "rising" /\ c.layer = l /\ c.status = n /\ c.by = who
          /\ c.seen = r.seen /\ c.starts = r.starts /\ c.kinds = r.kinds /\ c.above = r.above /\ c.lone = r.lone
      <4>1. r \in WireRecord BY <1>1
      <4> QED BY <3>2, <4>1, Responding, SMTT(30)
    <3> QED BY <3>1, <3>3
  <2>3. s = [c EXCEPT !.escaped = r.error] BY <1>7, <2>1 DEF ServerErrors
  <2>4. /\ s \in WireRecord
        /\ s.at = "rising" /\ s.layer = r.layer - 1 /\ s.status = 500 /\ s.by = "serverError" /\ s.escaped = r.error
        /\ s.seen = r.seen /\ s.starts = r.starts /\ s.kinds = r.kinds /\ s.above = r.above /\ s.lone = r.lone
    <3>1. s \in WireRecord BY <1>1, <2>2, <2>3 DEF WireRecord
    <3>2. /\ s.at = "rising" /\ s.layer = r.layer - 1 /\ s.status = 500 /\ s.by = "serverError" /\ s.escaped = r.error
          /\ s.seen = r.seen /\ s.starts = r.starts /\ s.kinds = r.kinds /\ s.above = r.above /\ s.lone = r.lone
      BY <2>2, <2>3 DEF WireRecord
    <3> QED BY <3>1, <3>2
  <2>5. "cancel" \notin ToSet(r.error.leaves) BY <1>7 DEF IsException
  <2>6. app.guarded => ~r.error.group BY <1>1, <1>5, <2>5 DEF OnlyCancelled
  <2>7. r.seen # 0 /\ r.layer - 1 < r.seen BY <1>1, <1>7
  <2>8. app.guarded /\ ~r.above /\ ~r.lone => RendersFault(r)
    <3>1. SUFFICES ASSUME app.guarded, ~r.above, ~r.lone PROVE RendersFault(r) OBVIOUS
    <3>2. r.error.leaves[1] \in {"fault", "cancel"} BY <1>4, <2>6, <2>7, <3>1 DEF Sound, Outbound
    <3>3. "fault" \in r.kinds \ {"cancel"} BY <1>1, <2>5, <3>1, <3>2
    <3> QED BY <3>3, KindFacts DEF RendersFault
  <2>9. s.by \in Responders /\ s.by \notin {"route", "handlers"} /\ s.by # "guard" BY <2>4 DEF Responders
  <2>10. s.by = "serverError" /\ app.guarded => ~s.escaped.group BY <2>4, <2>6
  <2> QED BY <1>4, <2>4, <2>7, <2>8, <2>9, <2>10, ResponseStarts
<1> QED BY <1>6, <1>7

\* Whatever layer an exception comes to, what leaves it is sound.
LEMMA EveryLayerKeeps ==
    ASSUME AppSound(app), ~Mutable, NEW r, Sound(r), r.at = "failing", r.layer > 0, NEW s \in Catches(r)
    PROVE  Sound(s) /\ s.at # "idle"
<1>1. r.layer \in 1 .. Len(Stack) BY Failing
<1>2. CASE Stack[r.layer] = "handlers"
  <2>1. s \in HandlersCatch(r) BY <1>2 DEF Catches, Grouping
  <2> QED BY <1>2, <2>1, HandlersKeep
<1>3. CASE Stack[r.layer] = "log"
  <2>1. s \in LogSees(r) BY <1>3 DEF Catches, Grouping
  <2> QED BY <1>3, <2>1, LogKeeps
<1>4. CASE Stack[r.layer] = "guard"
  <2>1. s \in GuardHandles(r) BY <1>4 DEF Catches, Grouping
  <2> QED BY <1>4, <2>1, GuardKeeps
<1>5. CASE Stack[r.layer] = "serverError"
  <2>1. s \in ServerErrors(r) BY <1>5 DEF Catches, Grouping
  <2> QED BY <1>5, <2>1, ServerErrorsKeep
<1>6. CASE Stack[r.layer] \in {"product", "requestId"}
  <2>1. s \in TaskGroup(r) BY <1>6 DEF Catches, Grouping
  <2> QED BY <1>6, <2>1, TaskGroupKeeps
<1>7. CASE Stack[r.layer] \notin {"handlers", "log", "guard", "serverError", "product", "requestId"}
  <2>1. s = Climb(r) BY <1>7 DEF Catches, Grouping
  <2> QED BY <1>7, <2>1, OthersKeep
<1> QED BY <1>2, <1>3, <1>4, <1>5, <1>6, <1>7

\* One request moves, and the others stay as they are.
LEMMA OneRequestMoves ==
    ASSUME AppSound(app), WireInvariant, NEW q \in HttpRequests, NEW s, Sound(s), s.at # "idle", ~Mutable,
           wire' = [wire EXCEPT ![q] = s], UNCHANGED app, worker' \in BOOLEAN, app.guarded => worker', worker' \/ s.at = "done"
    PROVE  WireInvariant'
<1>1. DOMAIN wire = HttpRequests /\ DOMAIN wire' = HttpRequests BY DEF WireInvariant
<1>2. wire'[q] = s /\ \A o \in HttpRequests : o # q => wire'[o] = wire[o] BY <1>1
<1>3. ~Mutable' BY DEF Mutable
<1>4. ASSUME NEW o \in HttpRequests PROVE (wire[o] = Unsent \/ (wire[o].at # "idle" /\ ~Mutable /\ Sound(wire[o])))'
  <2>1. PICK t : t = wire'[o] OBVIOUS
  <2>2. t = Unsent \/ (t.at # "idle" /\ Sound(t))
    <3>1. CASE o = q
      <4>1. t = s BY <1>2, <2>1, <3>1
      <4> QED BY <4>1
    <3>2. CASE o # q
      <4>1. t = wire[o] BY <1>2, <2>1, <3>2
      <4> QED BY <4>1 DEF WireInvariant
    <3> QED BY <3>1, <3>2
  <2>3. t = Unsent \/ (t.at # "idle" /\ Sound(t)') BY <2>2, SoundStands
  <2> QED BY <1>3, <2>1, <2>3
<1>5. (app.guarded => worker)' OBVIOUS
<1>6. (~worker => \E o \in HttpRequests : wire[o].at = "done")' BY <1>2
<1> QED BY <1>1, <1>4, <1>5, <1>6 DEF WireInvariant

\* A request arrives at a stack that is built.
LEMMA ArriveKeeps ==
    ASSUME AppSound(app), WireInvariant, NEW q \in HttpRequests, Arrive(q), UNCHANGED <<app, worker>>
    PROVE  WireInvariant'
<1>1. worker /\ ~Mutable /\ wire[q] = Unsent BY DEF Arrive, Now, WireInvariant
<1>2. PICK s : s = [Unsent EXCEPT !.at = "inside", !.seen = Bottom] OBVIOUS
<1>3. wire' = [wire EXCEPT ![q] = s] BY <1>1, <1>2 DEF Arrive, RequestIs
<1>4. PICK n \in Nat : n = Bottom /\ n # 0
  <2>1. Len(Stack) \in Nat BY <1>1, WhereLayersAre
  <2> QED BY <2>1 DEF Bottom
<1>5. NoError \in Errors BY DEF NoError, Errors
<1>6. s \in WireRecord BY <1>2, <1>4, <1>5 DEF Unsent, WireRecord
<1>7. s.at = "inside" /\ s.seen = Bottom /\ s.starts = 0 /\ s.status = 0 /\ s.by = "" BY <1>2 DEF Unsent
<1>8. Placed(s) /\ Outbound(s) /\ Concluded(s) /\ Headed(s)
  <2>1. Placed(s) BY <1>4, <1>7 DEF Placed
  <2>2. Outbound(s) BY <1>7 DEF Outbound
  <2>3. Concluded(s)
    <3>1. s.status # 500
      <4>1. PICK none \in Nat : none = s.status /\ none = 0 BY <1>7
      <4> QED BY <4>1
    <3>2. s.by # "serverError" /\ s.at # "done" BY <1>7
    <3> QED BY <3>1, <3>2 DEF Concluded
  <2>4. s.seen # 0 BY <1>4, <1>7
  <2>5. Headed(s) BY <1>7, <2>4 DEF Headed
  <2> QED BY <2>1, <2>2, <2>3, <2>5
<1>9. Sound(s) /\ s.at # "idle" BY <1>6, <1>7, <1>8 DEF Sound
<1> QED BY <1>1, <1>3, <1>9, OneRequestMoves DEF WireInvariant

\* A request under way.
LEMMA UnderWay ==
    ASSUME WireInvariant, NEW q \in HttpRequests, NEW where, where # "idle", Now(q, where)
    PROVE  worker /\ ~Mutable /\ Sound(wire[q]) /\ wire[q] \in WireRecord /\ wire[q].at = where
<1>1. worker /\ wire[q].at = where BY DEF Now
<1>2. wire[q] # Unsent
  <2>1. Unsent.at = "idle" BY DEF Unsent
  <2> QED BY <1>1, <2>1
<1> QED BY <1>1, <1>2 DEF WireInvariant, Sound

\* The route answers with a 200.
LEMMA RouteAnswersKeeps ==
    ASSUME AppSound(app), WireInvariant, NEW q \in HttpRequests, RouteAnswers(q), UNCHANGED <<app, worker>>
    PROVE  WireInvariant'
<1>1. Now(q, "inside") BY DEF RouteAnswers
<1>2. PICK r \in WireRecord : r = wire[q] /\ Sound(r) /\ r.at = "inside" /\ worker /\ ~Mutable BY <1>1, UnderWay
<1>3. PICK l \in Nat, n \in Nat, who \in Responders : l = Len(Stack) /\ n = 200 /\ who = "route"
  <2>1. Len(Stack) \in Nat BY <1>2, WhereLayersAre
  <2> QED BY <2>1 DEF Responders
<1>4. PICK s : s = Responds(r, l, n, who) OBVIOUS
<1>5. wire' = [wire EXCEPT ![q] = s] BY <1>2, <1>3, <1>4 DEF RouteAnswers, RequestIs
<1>6. /\ s \in WireRecord
      /\ s.at = "rising" /\ s.layer = l /\ s.status = n /\ s.by = who
      /\ s.seen = r.seen /\ s.starts = r.starts /\ s.kinds = r.kinds /\ s.above = r.above /\ s.lone = r.lone
  BY <1>4, Responding
<1>7. r.seen = l + 1 BY <1>2, <1>3 DEF Sound, Placed, Bottom
<1>8. r.seen # 0 /\ s.layer \in 0 .. Len(Stack) /\ s.layer < r.seen BY <1>3, <1>6, <1>7
<1>9. \A k \in DOMAIN Stack : s.layer < k => Stack[k] # "cors"
  <2>1. DOMAIN Stack = 1 .. l BY <1>2, <1>3, WhereLayersAre
  <2> QED BY <1>6, <2>1
<1>10. s.by \in Responders /\ s.by # "serverError" /\ s.by # "guard" /\ s.status # 500 BY <1>3, <1>6
<1>11. Sound(s) BY <1>2, <1>6, <1>8, <1>9, <1>10, ResponseStarts
<1>12. s.at # "idle" BY <1>6
<1> QED BY <1>2, <1>5, <1>11, <1>12, OneRequestMoves DEF WireInvariant

\* Something fails, the route or a layer.
LEMMA FailureStarts ==
    ASSUME AppSound(app), ~Mutable, NEW q \in HttpRequests, NEW r \in WireRecord, r = wire[q], Sound(r),
           NEW l \in Nat, l > 1, l <= Bottom, r.seen = 0 \/ l - 1 < r.seen,
           NEW e \in Errors, Len(e.leaves) > 0, ~e.group => Len(e.leaves) = 1, e.group => l = Bottom,
           NEW s, s = Fails(q, l, e)
    PROVE  Sound(s) /\ s.at = "failing"
<1>1. /\ Len(Stack) \in Nat /\ Depth(app) \in Nat /\ Depth(app) < Len(Stack) /\ Bottom = Len(Stack) + 1
  <2>1. Len(Stack) \in Nat /\ Depth(app) \in 1 .. 4 /\ Depth(app) < Len(Stack) BY WhereLayersAre
  <2> QED BY <2>1 DEF Bottom
<1>2. PICK m \in Nat : m = l - 1 /\ m > 0 /\ m <= Len(Stack) /\ (e.group => m = Len(Stack)) /\ (l = Bottom <=> m = Len(Stack)) BY <1>1
<1>3. PICK leaves \in SUBSET Kinds : leaves = ToSet(e.leaves)
  <2>1. PICK f \in Seq(Kinds) : f = e.leaves BY DEF Errors
  <2>2. ToSet(f) \subseteq Kinds BY DEF ToSet
  <2> QED BY <2>1, <2>2
<1>4. r.raised + 1 \in Nat /\ r.kinds \cup leaves \in SUBSET Kinds /\ r.kinds \subseteq Kinds /\ r.above \in BOOLEAN
  <2>1. PICK n \in Nat : n = r.raised BY DEF WireRecord
  <2>2. r.raised + 1 \in Nat BY <2>1
  <2>3. r.kinds \in SUBSET Kinds /\ r.above \in BOOLEAN BY DEF WireRecord
  <2> QED BY <2>2, <2>3
<1>5. PICK above \in BOOLEAN : above = (r.above \/ l # Bottom)
  <2>1. (r.above \/ l # Bottom) \in BOOLEAN OBVIOUS
  <2> QED BY <2>1
<1>6. s = [r EXCEPT !.at = "failing", !.layer = m, !.error = e, !.raised = r.raised + 1, !.above = above, !.kinds = r.kinds \cup leaves]
  BY <1>2, <1>3, <1>5 DEF Fails
<1>7. s \in WireRecord
  <2>1. PICK n \in Nat, kinds \in SUBSET Kinds : n = r.raised + 1 /\ kinds = r.kinds \cup leaves BY <1>4
  <2>2. s = [r EXCEPT !.at = "failing", !.layer = m, !.error = e, !.raised = n, !.above = above, !.kinds = kinds] BY <1>6, <2>1
  <2>3. "failing" \in {"idle", "inside", "rising", "failing", "streaming", "done"} OBVIOUS
  <2> QED BY <2>2, <2>3, ZenonT(60) DEF WireRecord
<1>8. /\ s.at = "failing" /\ s.layer = m /\ s.error = e /\ s.above = above /\ s.kinds = r.kinds \cup leaves
      /\ s.seen = r.seen /\ s.starts = r.starts /\ s.status = r.status /\ s.by = r.by /\ s.cors = r.cors /\ s.lone = r.lone
  BY <1>6 DEF WireRecord
<1>9. Placed(s)
  <2>1. s.starts = IF s.seen = 0 THEN 1 ELSE 0 BY <1>8 DEF Sound, Placed
  <2>2. s.seen = 0 \/ s.layer < s.seen BY <1>2, <1>8
  <2>3. s.layer <= Len(Stack) BY <1>2, <1>8
  <2> QED BY <1>8, <2>1, <2>2, <2>3 DEF Placed
<1>10. Outbound(s)
  <2>1. e.group => ~(m < Depth(app)) BY <1>1, <1>2
  <2>2. m < Len(Stack) => above
    <3>1. m < Len(Stack) => l # Bottom BY <1>1, <1>2
    <3> QED BY <1>5, <3>1
  <2>3. m # 0 BY <1>2
  <2> QED BY <1>3, <1>8, <2>1, <2>2, <2>3 DEF Outbound
<1>11. Concluded(s)
  <2>1. r.above => s.above BY <1>5, <1>8
  <2>2. RendersFault(r) => RendersFault(s) BY <1>8 DEF RendersFault
  <2>3. app.guarded /\ s.status = 500 /\ ~s.above /\ ~s.lone => RendersFault(s)
    <3>1. app.guarded /\ r.status = 500 /\ ~r.above /\ ~r.lone => RendersFault(r) BY DEF Sound, Concluded
    <3> QED BY <1>8, <2>1, <2>2, <3>1
  <2> QED BY <1>8, <2>3 DEF Concluded
<1>12. Headed(s) BY <1>8 DEF Sound, Headed
<1> QED BY <1>7, <1>8, <1>9, <1>10, <1>11, <1>12 DEF Sound

\* The route raises, before or while its response streams.
LEMMA RouteRaisesKeeps ==
    ASSUME AppSound(app), WireInvariant, NEW q \in HttpRequests, RouteRaises(q), UNCHANGED <<app, worker>>
    PROVE  WireInvariant'
<1>1. Now(q, "inside") \/ Now(q, "streaming") BY DEF RouteRaises
<1>2. PICK r \in WireRecord : r = wire[q] /\ Sound(r) /\ r.at \in {"inside", "streaming"} /\ worker /\ ~Mutable BY <1>1, UnderWay
<1>3. PICK kind \in Raisable, other \in Raisable :
        \E error \in {Plain(kind), [group |-> TRUE, leaves |-> <<kind>>], [group |-> TRUE, leaves |-> <<kind, other>>]} :
          RequestIs(q, Fails(q, Bottom, error))
  BY DEF RouteRaises
<1>4. PICK e \in {Plain(kind), [group |-> TRUE, leaves |-> <<kind>>], [group |-> TRUE, leaves |-> <<kind, other>>]} :
        RequestIs(q, Fails(q, Bottom, e))
  BY <1>3
<1>5. e \in Errors /\ Len(e.leaves) > 0 /\ (~e.group => Len(e.leaves) = 1)
  <2>1. kind \in Kinds /\ other \in Kinds BY KindFacts
  <2>2. CASE e = Plain(kind)
    <3>1. e \in Errors /\ Len(e.leaves) = 1 BY <2>1, <2>2, PlainError
    <3> QED BY <3>1
  <2>3. CASE e = [group |-> TRUE, leaves |-> <<kind>>]
    <3>1. PICK f \in Seq(Kinds) : f = <<kind>> /\ Len(f) = 1
      <4>1. <<kind>> \in Seq(Kinds) BY <2>1
      <4> QED BY <4>1
    <3>2. e \in Errors BY <2>3, <3>1 DEF Errors
    <3>3. e.leaves = f BY <2>3, <3>1
    <3> QED BY <3>1, <3>2, <3>3
  <2>4. CASE e = [group |-> TRUE, leaves |-> <<kind, other>>]
    <3>1. PICK f \in Seq(Kinds) : f = <<kind, other>> /\ Len(f) = 2
      <4>1. <<kind, other>> \in Seq(Kinds) BY <2>1
      <4> QED BY <4>1
    <3>2. e \in Errors BY <2>4, <3>1 DEF Errors
    <3>3. e.leaves = f /\ e.group BY <2>4, <3>1
    <3> QED BY <3>1, <3>2, <3>3
  <2> QED BY <2>2, <2>3, <2>4
<1>6. PICK s : s = Fails(q, Bottom, e) OBVIOUS
<1>7. wire' = [wire EXCEPT ![q] = s] BY <1>4, <1>6 DEF RequestIs
<1>8. Bottom \in Nat /\ Bottom > 1
  <2>1. Len(Stack) \in Nat /\ Depth(app) \in 1 .. 4 /\ Depth(app) < Len(Stack) BY <1>2, WhereLayersAre
  <2> QED BY <2>1 DEF Bottom
<1>9. r.seen = 0 \/ Bottom - 1 < r.seen BY <1>2, <1>8 DEF Sound, Placed
<1>10. Sound(s) /\ s.at = "failing" BY <1>2, <1>5, <1>6, <1>8, <1>9, FailureStarts
<1>11. s.at # "idle" BY <1>10
<1> QED BY <1>2, <1>7, <1>10, <1>11, OneRequestMoves DEF WireInvariant

\* A middleware of the service fails.
LEMMA MiddlewareRaisesKeeps ==
    ASSUME AppSound(app), WireInvariant, NEW q \in HttpRequests, MiddlewareRaises(q), UNCHANGED <<app, worker>>
    PROVE  WireInvariant'
<1>1. PICK l \in DOMAIN Stack, kind \in Raisable :
        /\ Stack[l] = "product" /\ (Now(q, "inside") \/ (Now(q, "rising") /\ wire[q].layer = l))
        /\ RequestIs(q, Fails(q, l, Plain(kind)))
  BY DEF MiddlewareRaises
<1>2. PICK r \in WireRecord : r = wire[q] /\ Sound(r) /\ (r.at = "inside" \/ (r.at = "rising" /\ r.layer = l)) /\ worker /\ ~Mutable
  BY <1>1, UnderWay
<1>3. PICK e \in Errors : e = Plain(kind) /\ ~e.group /\ Len(e.leaves) = 1 BY KindFacts, PlainError
<1>4. PICK s : s = Fails(q, l, e) OBVIOUS
<1>5. wire' = [wire EXCEPT ![q] = s] BY <1>1, <1>3, <1>4 DEF RequestIs
<1>6. l \in Nat /\ l > 1 /\ l <= Len(Stack) /\ Len(Stack) \in Nat
  <2>1. Len(Stack) \in Nat /\ DOMAIN Stack = 1 .. Len(Stack) /\ Stack[1] = "serverError" BY <1>2, WhereLayersAre
  <2>2. l \in 1 .. Len(Stack) BY <2>1
  <2>3. l # 1 BY <1>1, <2>1
  <2> QED BY <2>1, <2>2, <2>3
<1>7. l <= Bottom /\ l - 1 < Bottom BY <1>6 DEF Bottom
<1>8. r.seen = 0 \/ l - 1 < r.seen
  <2>1. r.at = "inside" => r.seen = Bottom BY <1>2 DEF Sound, Placed
  <2>2. r.at = "rising" => r.layer < r.seen BY <1>2 DEF Sound, Placed
  <2>3. r.seen \in Nat BY <1>2 DEF WireRecord
  <2> QED BY <1>2, <1>6, <1>7, <2>1, <2>2, <2>3
<1>9. Len(e.leaves) > 0 BY <1>3
<1>10. Sound(s) /\ s.at = "failing" BY <1>2, <1>3, <1>4, <1>6, <1>7, <1>8, <1>9, FailureStarts
<1>11. s.at # "idle" BY <1>10
<1> QED BY <1>2, <1>5, <1>10, <1>11, OneRequestMoves DEF WireInvariant

\* An exception comes to the layer above.
LEMMA PropagateKeeps ==
    ASSUME AppSound(app), WireInvariant, NEW q \in HttpRequests, Propagate(q), UNCHANGED app
    PROVE  WireInvariant'
<1>1. Now(q, "failing") /\ wire[q].layer > 0 /\ worker' = worker BY DEF Propagate
<1>2. PICK r \in WireRecord : r = wire[q] /\ Sound(r) /\ r.at = "failing" /\ worker /\ ~Mutable BY <1>1, UnderWay
<1>3. PICK s \in Catches(r) : wire' = [wire EXCEPT ![q] = s] BY <1>2 DEF Propagate, RequestIs
<1>4. Sound(s) /\ s.at # "idle"
  <2>1. r.layer > 0 BY <1>1, <1>2
  <2> QED BY <1>2, <2>1, EveryLayerKeeps
<1> QED BY <1>1, <1>2, <1>3, <1>4, OneRequestMoves DEF WireInvariant

\* A response passes a layer, or reaches the server.
LEMMA RiseKeeps ==
    ASSUME AppSound(app), WireInvariant, NEW q \in HttpRequests, Rise(q), UNCHANGED <<app, worker>>
    PROVE  WireInvariant'
<1>1. Now(q, "rising") BY DEF Rise
<1>2. PICK r \in WireRecord : r = wire[q] /\ Sound(r) /\ r.at = "rising" /\ worker /\ ~Mutable BY <1>1, UnderWay
<1>3. PICK s : s = IF r.layer = 0 THEN [r EXCEPT !.at = "streaming", !.seen = 0, !.starts = @ + 1]
                   ELSE [r EXCEPT !.layer = r.layer - 1, !.seen = r.layer, !.cors = @ \/ Stack[r.layer] = "cors"]
  OBVIOUS
<1>4. wire' = [wire EXCEPT ![q] = s] BY <1>2, <1>3 DEF Rise, RequestIs
<1>5. /\ r.layer \in Nat /\ r.seen \in Nat /\ r.layer < r.seen /\ r.layer <= Len(Stack) /\ Len(Stack) \in Nat
      /\ DOMAIN Stack = 1 .. Len(Stack) /\ r.by \in Responders
  <2>1. Len(Stack) \in Nat /\ DOMAIN Stack = 1 .. Len(Stack) BY <1>2, WhereLayersAre
  <2>2. r.layer \in Nat /\ r.seen \in Nat BY DEF WireRecord
  <2>3. r.layer < r.seen /\ r.layer <= Len(Stack) /\ r.by \in Responders BY <1>2 DEF Sound, Placed
  <2> QED BY <2>1, <2>2, <2>3
<1>6. r.starts = 0
  <2>1. r.seen # 0 BY <1>5
  <2> QED BY <1>2, <2>1 DEF Sound, Placed
<1>7. ASSUME r.layer = 0 PROVE Sound(s) /\ s.at # "idle"
  <2>1. s = [r EXCEPT !.at = "streaming", !.seen = 0, !.starts = 1] BY <1>3, <1>6, <1>7
  <2>2. s \in WireRecord BY <2>1 DEF WireRecord
  <2>3. /\ s.at = "streaming" /\ s.seen = 0 /\ s.starts = 1
        /\ s.by = r.by /\ s.cors = r.cors /\ s.escaped = r.escaped /\ s.status = r.status
        /\ s.above = r.above /\ s.lone = r.lone /\ s.kinds = r.kinds
    BY <2>1 DEF WireRecord
  <2>4. Placed(s) BY <2>3 DEF Placed
  <2>5. Outbound(s) BY <2>3 DEF Outbound
  <2>6. Concluded(s) BY <1>2, <2>3 DEF Sound, Concluded, RendersFault
  <2>7. app.made = "with_origins" => r.by \in Responders /\ (r.by # "serverError" => r.cors)
    <3>1. SUFFICES ASSUME app.made = "with_origins", r.by # "serverError" PROVE r.cors BY <1>5
    <3>2. CASE r.by = "guard" BY <1>2, <3>1, <3>2 DEF Sound, Headed
    <3>3. CASE r.by \in {"route", "handlers"}
      <4>1. PICK l \in DOMAIN Stack : Stack[l] = "cors" BY <1>2, <3>1, WhereLayersAre
      <4>2. r.layer < l BY <1>5, <1>7
      <4> QED BY <1>2, <3>1, <3>3, <4>1, <4>2 DEF Sound, Headed
    <3> QED BY <1>5, <3>1, <3>2, <3>3 DEF Responders
  <2>8. Headed(s) BY <2>3, <2>7 DEF Headed
  <2> QED BY <2>2, <2>3, <2>4, <2>5, <2>6, <2>8 DEF Sound
<1>8. ASSUME r.layer # 0 PROVE Sound(s) /\ s.at # "idle"
  <2>1. PICK m \in Nat : m = r.layer - 1 BY <1>5, <1>8
  <2>2. PICK cors \in BOOLEAN : cors = (r.cors \/ Stack[r.layer] = "cors")
    <3>1. (r.cors \/ Stack[r.layer] = "cors") \in BOOLEAN OBVIOUS
    <3> QED BY <3>1
  <2>3. s = [r EXCEPT !.layer = m, !.seen = r.layer, !.cors = cors] BY <1>3, <1>8, <2>1, <2>2
  <2>4. s \in WireRecord BY <1>5, <2>3 DEF WireRecord
  <2>5. /\ s.at = "rising" /\ s.layer = m /\ s.seen = r.layer /\ s.starts = 0
        /\ s.by = r.by /\ s.cors = cors /\ s.escaped = r.escaped /\ s.status = r.status
        /\ s.above = r.above /\ s.lone = r.lone /\ s.kinds = r.kinds
    BY <1>2, <1>6, <2>3 DEF WireRecord
  <2>6. Placed(s)
    <3>1. s.seen # 0 /\ s.layer < s.seen /\ s.layer <= Len(Stack) BY <1>5, <1>8, <2>1, <2>5
    <3> QED BY <1>5, <2>5, <3>1 DEF Placed
  <2>7. Outbound(s) BY <2>5 DEF Outbound
  <2>8. Concluded(s) BY <1>2, <2>5 DEF Sound, Concluded, RendersFault
  <2>9. Headed(s)
    <3>1. SUFFICES ASSUME app.made = "with_origins"
          PROVE  /\ s.by \in {"route", "handlers"} => \A l \in DOMAIN Stack : Stack[l] = "cors" /\ s.layer < l => s.cors
                 /\ s.by = "guard" => s.cors
      BY <1>8, <2>5 DEF Headed
    <3>2. s.by = "guard" => s.cors BY <1>2, <2>2, <2>5, <3>1 DEF Sound, Headed
    <3>3. ASSUME s.by \in {"route", "handlers"}, NEW l \in DOMAIN Stack, Stack[l] = "cors", s.layer < l PROVE s.cors
      <4>1. l \in Nat BY <1>5
      <4>2. l = r.layer \/ r.layer < l BY <1>5, <2>1, <2>5, <3>3, <4>1
      <4>3. CASE l = r.layer BY <2>2, <2>5, <3>3, <4>3
      <4>4. CASE r.layer < l
        <5>1. r.cors BY <1>2, <2>5, <3>1, <3>3, <4>4 DEF Sound, Headed
        <5> QED BY <2>2, <2>5, <5>1
      <4> QED BY <4>2, <4>3, <4>4
    <3> QED BY <3>2, <3>3
  <2> QED BY <2>4, <2>5, <2>6, <2>7, <2>8, <2>9 DEF Sound
<1>9. Sound(s) /\ s.at # "idle" BY <1>7, <1>8
<1> QED BY <1>2, <1>4, <1>9, OneRequestMoves DEF WireInvariant

\* A request is over, with its body or without.
LEMMA RequestEnds ==
    ASSUME AppSound(app), NEW r \in WireRecord, Sound(r), r.at \in {"failing", "streaming"}, NEW s \in WireRecord, s.at = "done",
           r.at = "failing" => r.layer = 0 /\ s.escaped = r.error,
           s.seen = r.seen, s.starts = r.starts, s.kinds = r.kinds, s.above = r.above, s.lone = r.lone, s.status = r.status,
           s.by = r.by, s.cors = r.cors
    PROVE  Sound(s)
<1>1. Placed(s) BY DEF Sound, Placed
<1>2. Outbound(s) BY DEF Outbound
<1>3. Concluded(s)
  <2>1. s.starts = 0 => r.seen # 0 BY DEF Sound, Placed
  <2>2. s.starts = 0 => r.at = "failing" BY <2>1 DEF Sound, Placed
  <2>3. s.starts = 0 => "cancel" \in ToSet(s.escaped.leaves) BY <2>1, <2>2 DEF Sound, Outbound
  <2>4. app.guarded /\ s.status = 500 /\ ~s.above /\ ~s.lone => RendersFault(s) BY DEF Sound, Concluded, RendersFault
  <2> QED BY <2>3, <2>4 DEF Concluded
<1>4. Headed(s) BY DEF Sound, Headed
<1> QED BY <1>1, <1>2, <1>3, <1>4 DEF Sound

\* A body is complete.
LEMMA BodyEndsKeeps ==
    ASSUME AppSound(app), WireInvariant, NEW q \in HttpRequests, BodyEnds(q), UNCHANGED <<app, worker>>
    PROVE  WireInvariant'
<1>1. Now(q, "streaming") BY DEF BodyEnds
<1>2. PICK r \in WireRecord : r = wire[q] /\ Sound(r) /\ r.at = "streaming" /\ worker /\ ~Mutable BY <1>1, UnderWay
<1>3. PICK n : n = IF r.line = 0 /\ "log" \in ToSet(Stack) /\ r.by \in {"route", "handlers"} THEN r.status ELSE r.line OBVIOUS
<1>4. PICK s : s = [r EXCEPT !.at = "done", !.line = n] OBVIOUS
<1>5. wire' = [wire EXCEPT ![q] = s] BY <1>2, <1>3, <1>4 DEF BodyEnds, RequestIs
<1>6. n \in Nat BY <1>3 DEF WireRecord
<1>7. s \in WireRecord BY <1>4, <1>6 DEF WireRecord
<1>8. /\ s.at = "done" /\ s.seen = r.seen /\ s.starts = r.starts /\ s.kinds = r.kinds /\ s.above = r.above /\ s.lone = r.lone
      /\ s.status = r.status /\ s.by = r.by /\ s.cors = r.cors
  BY <1>4 DEF WireRecord
<1>9. Sound(s) BY <1>2, <1>7, <1>8, RequestEnds
<1>10. s.at # "idle" BY <1>8
<1> QED BY <1>2, <1>5, <1>9, <1>10, OneRequestMoves DEF WireInvariant

\* What the server is left with is a group with a fault in it only where no guard is.
LEMMA EscapeKeeps ==
    ASSUME AppSound(app), WireInvariant, NEW q \in HttpRequests, Escape(q), UNCHANGED app
    PROVE  WireInvariant'
<1>1. Now(q, "failing") \/ Now(q, "streaming") BY DEF Escape
<1>2. PICK r \in WireRecord : r = wire[q] /\ Sound(r) /\ r.at \in {"failing", "streaming"} /\ worker /\ ~Mutable BY <1>1, UnderWay
<1>3. /\ r.at = "failing" => r.layer = 0
      /\ r.at = "streaming" => r.by = "serverError"
  BY <1>2 DEF Escape, Now
<1>4. PICK e \in Errors : e = IF r.at = "failing" THEN r.error ELSE r.escaped
  <2>1. (IF r.at = "failing" THEN r.error ELSE r.escaped) \in Errors BY DEF WireRecord
  <2> QED BY <2>1
<1>5. PICK s : s = [r EXCEPT !.at = "done", !.escaped = e] OBVIOUS
<1>6. wire' = [wire EXCEPT ![q] = s] /\ worker' = (~e.group \/ OnlyCancelled(e)) BY <1>2, <1>4, <1>5 DEF Escape, RequestIs
<1>7. s \in WireRecord BY <1>5 DEF WireRecord
<1>8. /\ s.at = "done" /\ s.seen = r.seen /\ s.starts = r.starts /\ s.kinds = r.kinds /\ s.above = r.above /\ s.lone = r.lone
      /\ s.status = r.status /\ s.by = r.by /\ s.cors = r.cors /\ s.escaped = e
  BY <1>5 DEF WireRecord
<1>9. Sound(s)
  <2>1. r.at = "failing" => r.layer = 0 /\ s.escaped = r.error BY <1>3, <1>4, <1>8
  <2> QED BY <1>2, <1>7, <1>8, <2>1, RequestEnds
<1>10. app.guarded => worker'
  <2>1. SUFFICES ASSUME app.guarded PROVE ~e.group \/ OnlyCancelled(e) BY <1>6
  <2>2. CASE r.at = "failing"
    <3>1. 0 < Depth(app)
      <4>1. Depth(app) \in 1 .. 4 BY <1>2, WhereLayersAre
      <4> QED BY <4>1
    <3>2. r.layer < Depth(app) BY <1>3, <2>2, <3>1
    <3> QED BY <1>2, <1>4, <2>1, <2>2, <3>2 DEF Sound, Outbound
  <2>3. CASE r.at = "streaming"
    <3>1. ~r.escaped.group BY <1>2, <1>3, <2>1, <2>3 DEF Sound, Concluded
    <3> QED BY <1>4, <2>3, <3>1
  <2> QED BY <1>2, <2>2, <2>3
<1>11. worker' \in BOOLEAN
  <2>1. (~e.group \/ OnlyCancelled(e)) \in BOOLEAN OBVIOUS
  <2> QED BY <1>6, <2>1
<1>12. s.at # "idle" /\ (worker' \/ s.at = "done") BY <1>8
<1> QED BY <1>2, <1>6, <1>9, <1>10, <1>11, <1>12, OneRequestMoves

\* An application changes before its first request, or is guarded between two.
LEMMA AssemblingKeepsTheWire ==
    ASSUME AppSound(app), WireInvariant, Assembling
    PROVE  WireInvariant'
<1>1. UNCHANGED <<worker, wire>> BY DEF Assembling
<1>2. ASSUME Mutable \/ \A q \in HttpRequests : wire[q].at = "idle"
      PROVE  WireInvariant'
  <2>1. \A q \in HttpRequests : wire[q] = Unsent BY <1>2 DEF WireInvariant
  <2>2. Unsent.at # "done" BY DEF Unsent
  <2>3. worker BY <2>1, <2>2 DEF WireInvariant
  <2>4. \A q \in HttpRequests : (wire[q] = Unsent)' BY <1>1, <2>1
  <2>5. worker' BY <1>1, <2>3
  <2>6. (DOMAIN wire = HttpRequests)' /\ (worker \in BOOLEAN)' BY <1>1 DEF WireInvariant
  <2> QED BY <2>4, <2>5, <2>6 DEF WireInvariant
<1>3. CASE GuardExceptionGroups BY <1>2, <1>3 DEF GuardExceptionGroups
<1>4. CASE \E log, instrument, origins \in BOOLEAN : CreateApp(log, instrument, origins)
  <2>1. app.made = "no" BY <1>4 DEF CreateApp
  <2>2. Mutable BY <2>1 DEF AppSound, Mutable
  <2> QED BY <1>2, <2>2
<1>5. CASE BareApp
  <2>1. Mutable BY <1>5 DEF BareApp, AppSound, Mutable
  <2> QED BY <1>2, <2>1
<1>6. CASE AddMiddleware \/ Instrument \/ BuildStack
  <2>1. Mutable BY <1>6 DEF AddMiddleware, Instrument, BuildStack
  <2> QED BY <1>2, <2>1
<1> QED BY <1>3, <1>4, <1>5, <1>6 DEF Assembling

\* Every step of every request.
LEMMA ServingKeepsTheWire ==
    ASSUME AppSound(app), WireInvariant, Serving
    PROVE  WireInvariant'
<1>1. UNCHANGED app BY DEF Serving
<1>2. PICK q \in HttpRequests :
        \/ (Arrive(q) \/ RouteAnswers(q) \/ RouteRaises(q) \/ MiddlewareRaises(q) \/ Rise(q)) /\ UNCHANGED worker
        \/ Propagate(q)
        \/ BodyEnds(q) /\ wire[q].by # "serverError" /\ UNCHANGED worker
        \/ Escape(q)
  BY DEF Serving
<1>3. CASE Arrive(q) /\ UNCHANGED worker BY <1>1, <1>3, ArriveKeeps
<1>4. CASE RouteAnswers(q) /\ UNCHANGED worker BY <1>1, <1>4, RouteAnswersKeeps
<1>5. CASE RouteRaises(q) /\ UNCHANGED worker BY <1>1, <1>5, RouteRaisesKeeps
<1>6. CASE MiddlewareRaises(q) /\ UNCHANGED worker BY <1>1, <1>6, MiddlewareRaisesKeeps
<1>7. CASE Rise(q) /\ UNCHANGED worker BY <1>1, <1>7, RiseKeeps
<1>8. CASE Propagate(q) BY <1>1, <1>8, PropagateKeeps
<1>9. CASE BodyEnds(q) /\ UNCHANGED worker BY <1>1, <1>9, BodyEndsKeeps
<1>10. CASE Escape(q) BY <1>1, <1>10, EscapeKeeps
<1> QED BY <1>2, <1>3, <1>4, <1>5, <1>6, <1>7, <1>8, <1>9, <1>10

\* The copy a client has is never older than what it was last told.
PollInvariant ==
    /\ poll \in [version : Int, read : Int, copy : Int, tag : Int, told : Int, starred : BOOLEAN, at : {"idle", "loading"}]
    /\ (poll.starred \/ poll.told <= poll.copy) /\ poll.tag <= poll.copy /\ poll.copy <= poll.version /\ poll.read <= poll.version

\* A walk is at the last item it has, and its cursor is signed for that one.
PagerInvariant ==
    /\ pager \in [items : SUBSET Nat, got : Seq(Nat), cursor : [after : Int, signed : {<<>>} \cup (Nat \X {1, 2}), dotted : BOOLEAN],
                  key : {1, 2}, at : {"pages", "ended"}]
    /\ 0 \notin pager.items
    /\ IF pager.cursor.signed = <<>> THEN pager.cursor.after = 0 /\ ~pager.cursor.dotted /\ pager.got = <<>>
       ELSE pager.got # <<>> /\ pager.cursor.signed[1] = pager.got[Len(pager.got)]
    /\ WalksSkipNothing

\* The version is read before the payload, so a copy is no older than its tag.
LEMMA PollingKeeps ==
    ASSUME PollInvariant, Changes \/ AskForChanges \/ ConditionalResponse
    PROVE  PollInvariant'
<1> DEFINE Polls == [version : Int, read : Int, copy : Int, tag : Int, told : Int, starred : BOOLEAN, at : {"idle", "loading"}]
<1>1. PICK r \in Polls : r = poll BY DEF PollInvariant
<1>2. PICK v \in Int, rd \in Int, c \in Int, t \in Int, d \in Int :
        /\ v = r.version /\ rd = r.read /\ c = r.copy /\ t = r.tag /\ d = r.told
        /\ (r.starred \/ d <= c) /\ t <= c /\ c <= v /\ rd <= v
  BY <1>1 DEF PollInvariant
<1>3. CASE Changes
  <2>1. PICK n \in Int : n = v + 1 /\ v <= n OBVIOUS
  <2>2. poll' = [r EXCEPT !.version = n] BY <1>1, <1>2, <1>3, <2>1 DEF Changes
  <2>3. poll' \in Polls BY <2>2
  <2>4. /\ poll'.version = n /\ poll'.read = rd /\ poll'.copy = c /\ poll'.tag = t /\ poll'.told = d /\ poll'.starred = r.starred
    BY <1>2, <2>2
  <2>5. c <= n /\ rd <= n BY <1>2, <2>1
  <2>6. ((poll.starred \/ poll.told <= poll.copy) /\ poll.tag <= poll.copy /\ poll.copy <= poll.version /\ poll.read <= poll.version)'
    BY <1>2, <2>4, <2>5
  <2> QED BY <2>3, <2>6 DEF PollInvariant
<1>4. CASE AskForChanges
  <2>1. PICK shown \in {{}, {poll.tag} \ {NoTag}, {AnyTag}} :
          poll' = IF EtagMatches(shown, poll.version)
                  THEN [poll EXCEPT !.told = poll.version, !.starred = AnyTag \in shown]
                  ELSE [poll EXCEPT !.at = "loading", !.read = poll.version]
    BY <1>4 DEF AskForChanges
  <2>2. CASE EtagMatches(shown, v)
    <3>0. (AnyTag \in shown) \in BOOLEAN OBVIOUS
    <3>1. PICK star \in BOOLEAN : star = (AnyTag \in shown) BY <3>0
    <3>2. ~star => v = t BY <1>1, <1>2, <2>1, <2>2, <3>1 DEF EtagMatches
    <3>3. poll' = [r EXCEPT !.told = v, !.starred = star] BY <1>1, <1>2, <2>1, <2>2, <3>1
    <3>4. poll' \in Polls BY <3>3
    <3>5. /\ poll'.version = v /\ poll'.read = rd /\ poll'.copy = c /\ poll'.tag = t /\ poll'.told = v /\ poll'.starred = star
      BY <1>2, <3>3
    <3>6. star \/ v <= c BY <1>2, <3>2
    <3>7. ((poll.starred \/ poll.told <= poll.copy) /\ poll.tag <= poll.copy /\ poll.copy <= poll.version /\ poll.read <= poll.version)'
      BY <1>2, <3>5, <3>6
    <3> QED BY <3>4, <3>7 DEF PollInvariant
  <2>3. CASE ~EtagMatches(shown, v)
    <3>1. poll' = [r EXCEPT !.at = "loading", !.read = v] BY <1>1, <1>2, <2>1, <2>3
    <3>2. poll' \in Polls BY <3>1
    <3>3. /\ poll'.version = v /\ poll'.read = v /\ poll'.copy = c /\ poll'.tag = t /\ poll'.told = d /\ poll'.starred = r.starred
      BY <1>2, <3>1
    <3>4. v <= v OBVIOUS
    <3>5. ((poll.starred \/ poll.told <= poll.copy) /\ poll.tag <= poll.copy /\ poll.copy <= poll.version /\ poll.read <= poll.version)'
      BY <1>2, <3>3, <3>4
    <3> QED BY <3>2, <3>5 DEF PollInvariant
  <2> QED BY <2>2, <2>3
<1>5. CASE ConditionalResponse
  <2>1. poll' = [r EXCEPT !.at = "idle", !.copy = v, !.tag = rd] BY <1>1, <1>2, <1>5 DEF ConditionalResponse
  <2>2. poll' \in Polls BY <2>1
  <2>3. /\ poll'.version = v /\ poll'.read = rd /\ poll'.copy = v /\ poll'.tag = rd /\ poll'.told = d /\ poll'.starred = r.starred
    BY <1>2, <2>1
  <2>4. r.starred \/ d <= v BY <1>2
  <2>5. ((poll.starred \/ poll.told <= poll.copy) /\ poll.tag <= poll.copy /\ poll.copy <= poll.version /\ poll.read <= poll.version)'
    BY <1>2, <2>3, <2>4
  <2> QED BY <2>2, <2>5 DEF PollInvariant
<1> QED BY <1>3, <1>4, <1>5

\* What a walk has read is in order, and nothing that is still there was passed over.
InOrder(got, items) ==
    \A i \in DOMAIN got : /\ \A j \in 1 .. i - 1 : got[j] < got[i]
                          /\ \A x \in items : x < got[i] => x \in ToSet(got)

\* The next item of a page is the least that is left.
LEMMA NextItemKeepsTheOrder ==
    ASSUME NEW got \in Seq(Nat), NEW items \in SUBSET Nat, InOrder(got, items), 0 \notin items, NEW after \in Nat, NEW i \in items,
           after = IF got = <<>> THEN 0 ELSE got[Len(got)],
           i > after, \A j \in items : j > after => i <= j
    PROVE  InOrder(Append(got, i), items)
<1>1. PICK n \in Nat : n = Len(got) OBVIOUS
<1>2. PICK more \in Seq(Nat) : more = Append(got, i)
  <2>1. i \in Nat OBVIOUS
  <2>2. Append(got, i) \in Seq(Nat) BY <2>1
  <2> QED BY <2>2
<1>3. Len(more) = n + 1 /\ more[n + 1] = i /\ \A k \in 1 .. n : more[k] = got[k] BY <1>1, <1>2
<1>4. DOMAIN more = 1 .. n + 1 /\ DOMAIN got = 1 .. n BY <1>1, <1>3
<1>5. \A x \in ToSet(got) : x \in ToSet(more) BY <1>3, <1>4 DEF ToSet
<1>6. \A k \in 1 .. n : got[k] \in Nat BY <1>4
<1>7. ASSUME NEW k \in 1 .. n PROVE got[k] <= after
  <2>1. got # <<>> /\ after = got[n] BY <1>1
  <2>2. CASE k = n BY <1>6, <2>1, <2>2
  <2>3. CASE k # n
    <3>1. n \in 1 .. n /\ k \in 1 .. n - 1 BY <2>3
    <3>2. got[k] < got[n] BY <1>4, <3>1 DEF InOrder
    <3> QED BY <1>6, <2>1, <3>1, <3>2
  <2> QED BY <2>2, <2>3
<1>8. ASSUME NEW k \in 1 .. n
      PROVE  /\ \A j \in 1 .. k - 1 : more[j] < more[k]
             /\ \A x \in items : x < more[k] => x \in ToSet(more)
  <2>1. \A j \in 1 .. k - 1 : got[j] < got[k] BY <1>4 DEF InOrder
  <2>2. \A j \in 1 .. k - 1 : j \in 1 .. n OBVIOUS
  <2>3. \A x \in items : x < got[k] => x \in ToSet(got) BY <1>4 DEF InOrder
  <2> QED BY <1>3, <1>5, <2>1, <2>2, <2>3
<1>9. \A j \in 1 .. n : more[j] < more[n + 1] BY <1>3, <1>6, <1>7
<1>10. ASSUME NEW x \in items, x < more[n + 1] PROVE x \in ToSet(more)
  <2>1. x <= after BY <1>3, <1>10
  <2>2. got # <<>> BY <2>1
  <2>3. n \in 1 .. n /\ after = got[n] BY <1>1, <2>2
  <2>4. CASE x = after
    <3>1. after \in ToSet(got) BY <1>4, <2>3 DEF ToSet
    <3> QED BY <1>5, <2>4, <3>1
  <2>5. CASE x # after
    <3>1. x < got[n] BY <2>1, <2>3, <2>5
    <3> QED BY <1>4, <1>5, <2>3, <3>1 DEF InOrder
  <2> QED BY <2>4, <2>5
<1>11. n + 1 - 1 = n OBVIOUS
<1>12. ASSUME NEW k \in 1 .. n + 1
       PROVE  /\ \A j \in 1 .. k - 1 : more[j] < more[k]
              /\ \A x \in items : x < more[k] => x \in ToSet(more)
  <2>1. k \in 1 .. n \/ k = n + 1 OBVIOUS
  <2>2. CASE k \in 1 .. n BY <1>8, <2>2
  <2>3. CASE k = n + 1
    <3>1. \A j \in 1 .. k - 1 : more[j] < more[k] BY <1>9, <1>11, <2>3
    <3>2. \A x \in items : x < more[k] => x \in ToSet(more) BY <1>10, <2>3
    <3> QED BY <3>1, <3>2
  <2> QED BY <2>1, <2>2, <2>3
<1> QED BY <1>2, <1>4, <1>12 DEF InOrder

\* The walk of one client, in whatever step it is.
Cursors == [after : Int, signed : {<<>>} \cup (Nat \X {1, 2}), dotted : BOOLEAN]
Pagers == [items : SUBSET Nat, got : Seq(Nat), cursor : Cursors, key : {1, 2}, at : {"pages", "ended"}]
Walks(p) ==
    /\ p \in Pagers /\ 0 \notin p.items /\ InOrder(p.got, p.items)
    /\ IF p.cursor.signed = <<>> THEN p.cursor.after = 0 /\ ~p.cursor.dotted /\ p.got = <<>>
       ELSE p.got # <<>> /\ p.cursor.signed[1] = p.got[Len(p.got)]

\* A page, or the end, or a cursor that does not verify.
LEMMA PagesKeepTheWalk ==
    ASSUME PagerInvariant, FromPage
    PROVE  Walks(pager')
<1>1. PICK p \in Pagers : p = pager /\ Walks(p)
  BY DEF PagerInvariant, WalksSkipNothing, InOrder, Pagers, Cursors, Walks
<1> DEFINE rest == {i \in p.items : i > p.cursor.after}
<1>2. ASSUME ~DecodeCursor(p.cursor, p.key) PROVE Walks(pager')
  <2>1. pager' = [p EXCEPT !.got = <<>>, !.cursor = NoCursor] BY <1>1, <1>2 DEF FromPage
  <2>2. NoCursor \in Cursors /\ NoCursor.signed = <<>> /\ NoCursor.after = 0 /\ ~NoCursor.dotted BY DEF NoCursor, Cursors
  <2>3. PICK none \in Seq(Nat) : none = <<>> BY EmptySeq
  <2>4. pager' \in Pagers BY <2>1, <2>2, <2>3 DEF Pagers
  <2>5. pager'.items = p.items /\ pager'.got = <<>> /\ pager'.cursor = NoCursor BY <2>1 DEF Pagers
  <2>6. InOrder(none, p.items)
    <3>1. DOMAIN none = {} BY <2>3
    <3> QED BY <3>1 DEF InOrder
  <2> QED BY <1>1, <2>2, <2>3, <2>4, <2>5, <2>6 DEF Walks
<1>3. ASSUME DecodeCursor(p.cursor, p.key), rest = {} PROVE Walks(pager')
  <2>1. pager' = [p EXCEPT !.at = "ended"] BY <1>1, <1>3 DEF FromPage
  <2>2. pager' \in Pagers BY <2>1 DEF Pagers
  <2>3. pager'.items = p.items /\ pager'.got = p.got /\ pager'.cursor = p.cursor BY <2>1 DEF Pagers
  <2> QED BY <1>1, <2>2, <2>3 DEF Walks
<1>4. ASSUME DecodeCursor(p.cursor, p.key), rest # {} PROVE Walks(pager')
  <2>0. PICK dotted \in BOOLEAN :
          pager' = LET i == CHOOSE k \in rest : \A j \in rest : k <= j IN
                   [p EXCEPT !.got = Append(@, i), !.cursor = EncodeCursor(i, p.key, dotted)]
    BY <1>1, <1>4 DEF FromPage
  <2>1. PICK i \in rest : i = (CHOOSE k \in rest : \A j \in rest : k <= j) /\ \A j \in rest : i <= j
    <3>1. rest \subseteq Nat BY DEF Pagers
    <3>2. \E k \in rest : \A j \in rest : k <= j BY <1>4, <3>1, TheEarliest
    <3> QED BY <3>2
  <2>2. i \in p.items /\ i \in Nat BY DEF Pagers
  <2>3. PICK after : after = p.cursor.after OBVIOUS
  <2>4. after = (IF p.got = <<>> THEN 0 ELSE p.got[Len(p.got)])
    <3>1. CASE p.cursor = NoCursor BY <1>1, <2>3, <3>1 DEF NoCursor, Walks
    <3>2. CASE p.cursor # NoCursor
      <4>1. p.cursor.signed = <<p.cursor.after, p.key>> BY <1>4, <3>2 DEF DecodeCursor
      <4>2. p.cursor.signed # <<>> /\ p.cursor.signed[1] = p.cursor.after BY <4>1
      <4> QED BY <1>1, <2>3, <4>2 DEF Walks
    <3> QED BY <3>1, <3>2
  <2>5. after \in Nat
    <3>1. PICK got \in Seq(Nat) : got = p.got BY DEF Pagers
    <3>2. got # <<>> => Len(got) \in 1 .. Len(got) /\ got[Len(got)] \in Nat OBVIOUS
    <3> QED BY <2>4, <3>1, <3>2
  <2>6. PICK more \in Seq(Nat) : more = Append(p.got, i) /\ Len(more) \in 1 .. Len(more) /\ more[Len(more)] = i
    <3>1. PICK got \in Seq(Nat) : got = p.got BY DEF Pagers
    <3>2. PICK more \in Seq(Nat) : more = Append(got, i)
      <4>1. Append(got, i) \in Seq(Nat) BY <2>2
      <4> QED BY <4>1
    <3>3. Len(more) = Len(got) + 1 /\ more[Len(got) + 1] = i BY <3>2
    <3>4. PICK n \in Nat : n = Len(got) OBVIOUS
    <3>5. Len(more) = n + 1 /\ more[n + 1] = i BY <3>3, <3>4
    <3>6. n + 1 \in 1 .. n + 1 OBVIOUS
    <3>7. Len(more) \in 1 .. Len(more) /\ more[Len(more)] = i BY <3>5, <3>6
    <3> QED BY <3>1, <3>2, <3>7
  <2>7. InOrder(more, p.items)
    <3>1. p.got \in Seq(Nat) /\ p.items \in SUBSET Nat BY DEF Pagers
    <3>2. i > after /\ \A j \in p.items : j > after => i <= j BY <2>1, <2>3
    <3>3. InOrder(p.got, p.items) /\ 0 \notin p.items BY <1>1 DEF Walks
    <3>4. InOrder(Append(p.got, i), p.items) BY <2>2, <2>4, <2>5, <3>1, <3>2, <3>3, NextItemKeepsTheOrder
    <3> QED BY <2>6, <3>4
  <2>8. PICK c \in Cursors : c = EncodeCursor(i, p.key, dotted) /\ c.signed # <<>> /\ c.signed[1] = i
    <3>1. PICK k \in {1, 2} : k = p.key BY DEF Pagers
    <3>2. PICK signed \in Nat \X {1, 2} : signed = <<i, k>> /\ signed # <<>> /\ signed[1] = i
      <4>1. <<i, k>> \in Nat \X {1, 2} BY <2>2
      <4>2. <<i, k>> # <<>> /\ <<i, k>>[1] = i OBVIOUS
      <4> QED BY <4>1, <4>2
    <3>3. PICK c : c = [after |-> i, signed |-> signed, dotted |-> dotted] OBVIOUS
    <3>4. i \in Int BY <2>2
    <3>5. c \in Cursors BY <3>3, <3>4 DEF Cursors
    <3>6. c = EncodeCursor(i, p.key, dotted) BY <3>1, <3>2, <3>3 DEF EncodeCursor
    <3>7. c.signed = signed BY <3>3
    <3> QED BY <3>2, <3>5, <3>6, <3>7
  <2>9. pager' = [p EXCEPT !.got = more, !.cursor = c] BY <2>0, <2>1, <2>6, <2>8
  <2>10. pager' \in Pagers BY <2>9 DEF Pagers
  <2>11. pager'.items = p.items /\ pager'.got = more /\ pager'.cursor = c BY <2>9 DEF Pagers
  <2>12. more # <<>> BY <2>6
  <2> QED BY <1>1, <2>6, <2>7, <2>8, <2>10, <2>11, <2>12 DEF Walks
<1> QED BY <1>2, <1>3, <1>4

\* Whatever the client does to its cursor, an item going or the key rotated.
LEMMA WalkingKeeps ==
    ASSUME PagerInvariant, FromPage \/ EditsCursor \/ ItemGoes \/ KeyRotates
    PROVE  PagerInvariant'
<1>1. PICK p \in Pagers : p = pager /\ Walks(p)
  BY DEF PagerInvariant, WalksSkipNothing, InOrder, Pagers, Cursors, Walks
<1>2. SUFFICES Walks(pager')
  <2>1. ASSUME NEW n, n = pager', Walks(n)
        PROVE  /\ n \in [items : SUBSET Nat, got : Seq(Nat), cursor : [after : Int, signed : {<<>>} \cup (Nat \X {1, 2}), dotted : BOOLEAN],
                          key : {1, 2}, at : {"pages", "ended"}]
               /\ 0 \notin n.items
               /\ IF n.cursor.signed = <<>> THEN n.cursor.after = 0 /\ ~n.cursor.dotted /\ n.got = <<>>
                  ELSE n.got # <<>> /\ n.cursor.signed[1] = n.got[Len(n.got)]
               /\ \A i \in DOMAIN n.got : /\ \A j \in 1 .. i - 1 : n.got[j] < n.got[i]
                                          /\ \A x \in n.items : x < n.got[i] => x \in ToSet(n.got)
    BY <2>1 DEF Walks, InOrder, Pagers, Cursors
  <2> QED BY <2>1 DEF PagerInvariant, WalksSkipNothing
<1>3. CASE FromPage BY <1>3, PagesKeepTheWalk
<1>4. CASE EditsCursor
  <2>1. PICK after \in 0 .. ListItems : pager' = [p EXCEPT !.cursor.after = after] BY <1>1, <1>4 DEF EditsCursor
  <2>2. after \in Int BY HttpAssumption
  <2>3. PICK c \in Cursors : c = [p.cursor EXCEPT !.after = after] /\ c.signed = p.cursor.signed
    <3>1. PICK d \in Cursors : d = p.cursor BY DEF Pagers
    <3>2. PICK c : c = [d EXCEPT !.after = after] OBVIOUS
    <3>3. c \in Cursors BY <2>2, <3>2 DEF Cursors
    <3>4. c.signed = d.signed BY <3>2 DEF Cursors
    <3> QED BY <3>1, <3>2, <3>3, <3>4
  <2>4. pager' = [p EXCEPT !.cursor = c] BY <2>1, <2>3 DEF Pagers
  <2>5. pager' \in Pagers BY <2>4 DEF Pagers
  <2>6. pager'.items = p.items /\ pager'.got = p.got /\ pager'.cursor = c BY <2>4 DEF Pagers
  <2>7. p.cursor.signed # <<>>
    <3>1. SUFFICES ASSUME p.cursor.signed = <<>> PROVE FALSE OBVIOUS
    <3>2. p.cursor \in Cursors /\ p.cursor.after = 0 /\ ~p.cursor.dotted BY <1>1, <3>1 DEF Walks, Pagers
    <3>3. p.cursor = NoCursor BY <3>1, <3>2 DEF Cursors, NoCursor
    <3> QED BY <1>1, <1>4, <3>3 DEF EditsCursor
  <2> QED BY <1>1, <2>3, <2>5, <2>6, <2>7 DEF Walks
<1>5. CASE ItemGoes
  <2>1. PICK i \in p.items : pager' = [p EXCEPT !.items = @ \ {i}] BY <1>1, <1>5 DEF ItemGoes
  <2>2. PICK items \in SUBSET Nat : items = p.items \ {i} BY DEF Pagers
  <2>3. pager' = [p EXCEPT !.items = items] BY <2>1, <2>2
  <2>4. pager' \in Pagers BY <2>3 DEF Pagers
  <2>5. pager'.items = items /\ pager'.got = p.got /\ pager'.cursor = p.cursor BY <2>3 DEF Pagers
  <2>6. 0 \notin items /\ InOrder(p.got, items) BY <1>1, <2>2 DEF Walks, InOrder
  <2> QED BY <1>1, <2>4, <2>5, <2>6 DEF Walks
<1>6. CASE KeyRotates
  <2>1. pager' = [p EXCEPT !.key = 2] BY <1>1, <1>6 DEF KeyRotates
  <2>2. pager' \in Pagers BY <2>1 DEF Pagers
  <2>3. pager'.items = p.items /\ pager'.got = p.got /\ pager'.cursor = p.cursor BY <2>1 DEF Pagers
  <2> QED BY <1>1, <2>2, <2>3 DEF Walks
<1> QED BY <1>3, <1>4, <1>5, <1>6

HttpInvariant == AppSound(app) /\ WireInvariant /\ PollInvariant /\ PagerInvariant

\* At first no application is there.
LEMMA NothingHasArrived == HttpInit => HttpInvariant
<1> SUFFICES ASSUME HttpInit PROVE HttpInvariant OBVIOUS
<1>1. AppSound(app)
  <2>1. PICK user \in Seq(ServiceLayers), wraps \in Seq({"guard", "otel"}), built \in Seq(Layers) :
          user = <<>> /\ wraps = <<>> /\ built = <<>>
    BY EmptySeq
  <2>2. app = [made |-> "no", user |-> user, wraps |-> wraps, guarded |-> FALSE, built |-> built] BY <2>1 DEF HttpInit
  <2>3. app \in AppRecord BY <2>2 DEF AppRecord
  <2>4. app.made = "no" /\ app.wraps = <<>> /\ app.guarded = FALSE /\ app.built = <<>> BY <2>1, <2>2
  <2>5. DOMAIN wraps = {} BY <2>1
  <2> QED BY <2>1, <2>2, <2>3, <2>4, <2>5 DEF AppSound
<1>2. WireInvariant
  <2>1. wire = [q \in HttpRequests |-> Unsent] /\ worker = TRUE BY DEF HttpInit
  <2> QED BY <2>1 DEF WireInvariant
<1>3. PollInvariant
  <2>1. poll = [version |-> 0, at |-> "idle", read |-> 0, copy |-> 0 - 1, tag |-> 0 - 1, told |-> 0 - 1, starred |-> FALSE] BY DEF HttpInit, NoTag
  <2>2. poll \in [version : Int, read : Int, copy : Int, tag : Int, told : Int, starred : BOOLEAN, at : {"idle", "loading"}] BY <2>1
  <2>3. (poll.starred \/ poll.told <= poll.copy) /\ poll.tag <= poll.copy /\ poll.copy <= poll.version /\ poll.read <= poll.version BY <2>1
  <2> QED BY <2>2, <2>3 DEF PollInvariant
<1>4. PagerInvariant
  <2>1. PICK got \in Seq(Nat) : got = <<>> BY EmptySeq
  <2>2. PICK items \in SUBSET Nat : items = 1 .. ListItems /\ 0 \notin items
    <3>1. 1 .. ListItems \subseteq Nat /\ 0 \notin 1 .. ListItems BY HttpAssumption
    <3> QED BY <3>1
  <2>3. PICK c \in Cursors : c = NoCursor /\ c.signed = <<>> /\ c.after = 0 /\ ~c.dotted
    <3>1. NoCursor \in Cursors BY DEF NoCursor, Cursors
    <3>2. NoCursor.signed = <<>> /\ NoCursor.after = 0 /\ ~NoCursor.dotted BY DEF NoCursor
    <3> QED BY <3>1, <3>2
  <2>4. pager = [items |-> items, got |-> got, cursor |-> c, key |-> 1, at |-> "pages"] BY <2>1, <2>2, <2>3 DEF HttpInit
  <2>5. pager \in [items : SUBSET Nat, got : Seq(Nat), cursor : Cursors, key : {1, 2}, at : {"pages", "ended"}] BY <2>4
  <2>6. pager.items = items /\ pager.got = got /\ pager.cursor = c BY <2>4
  <2>7. DOMAIN pager.got = {} BY <2>1, <2>6
  <2>8. WalksSkipNothing BY <2>7 DEF WalksSkipNothing
  <2> QED BY <2>1, <2>2, <2>3, <2>5, <2>6, <2>8 DEF PagerInvariant, Cursors
<1> QED BY <1>1, <1>2, <1>3, <1>4 DEF HttpInvariant

\* The inductive step.
LEMMA HttpStepsKeep == HttpInvariant /\ [HttpNext]_httpVars => HttpInvariant'
<1> SUFFICES ASSUME HttpInvariant, [HttpNext]_httpVars PROVE HttpInvariant' OBVIOUS
<1>1. AppSound(app) /\ WireInvariant /\ PollInvariant /\ PagerInvariant BY DEF HttpInvariant
<1>2. ASSUME UNCHANGED app PROVE AppSound(app)'
  BY <1>1, <1>2 DEF AppSound, BuiltAs, OtelLayers, Depth
<1>3. ASSUME UNCHANGED <<app, worker, wire>> PROVE WireInvariant'
  <2>1. \A q \in HttpRequests : (wire[q] = Unsent \/ (wire[q].at # "idle" /\ ~Mutable /\ Sound(wire[q])))'
    <3>1. SUFFICES ASSUME NEW q \in HttpRequests
                   PROVE  (wire[q] = Unsent \/ (wire[q].at # "idle" /\ ~Mutable /\ Sound(wire[q])))'
      OBVIOUS
    <3>2. PICK r : r = wire[q] OBVIOUS
    <3>3. r = Unsent \/ (r.at # "idle" /\ ~Mutable /\ Sound(r)) BY <1>1, <3>2 DEF WireInvariant
    <3>4. ~Mutable => ~Mutable' BY <1>3 DEF Mutable
    <3>5. r = Unsent \/ (r.at # "idle" /\ ~Mutable' /\ Sound(r)') BY <1>3, <3>3, <3>4, SoundStands
    <3> QED BY <1>3, <3>2, <3>5
  <2> QED BY <1>1, <1>3, <2>1 DEF WireInvariant
<1>4. ASSUME UNCHANGED poll PROVE PollInvariant' BY <1>1, <1>4 DEF PollInvariant
<1>5. ASSUME UNCHANGED pager PROVE PagerInvariant' BY <1>1, <1>5 DEF PagerInvariant, WalksSkipNothing
<1>6. CASE Assembling
  <2>1. UNCHANGED <<poll, pager>> BY <1>6 DEF Assembling
  <2> QED BY <1>1, <1>4, <1>5, <1>6, <2>1, AssemblingKeepsTheApp, AssemblingKeepsTheWire DEF HttpInvariant
<1>7. CASE Serving
  <2>1. UNCHANGED <<app, poll, pager>> BY <1>7 DEF Serving
  <2> QED BY <1>1, <1>2, <1>4, <1>5, <1>7, <2>1, ServingKeepsTheWire DEF HttpInvariant
<1>8. CASE (Changes \/ AskForChanges \/ ConditionalResponse) /\ UNCHANGED <<app, worker, wire, pager>>
  BY <1>1, <1>2, <1>3, <1>5, <1>8, PollingKeeps DEF HttpInvariant
<1>9. CASE (FromPage \/ EditsCursor \/ ItemGoes \/ KeyRotates) /\ UNCHANGED <<app, worker, wire, poll>>
  BY <1>1, <1>2, <1>3, <1>4, <1>9, WalkingKeeps DEF HttpInvariant
<1>10. CASE UNCHANGED httpVars
  <2>1. UNCHANGED <<app, worker, wire>> /\ UNCHANGED poll /\ UNCHANGED pager BY <1>10 DEF httpVars
  <2> QED BY <1>2, <1>3, <1>4, <1>5, <2>1 DEF HttpInvariant
<1> QED BY <1>6, <1>7, <1>8, <1>9, <1>10 DEF HttpNext, ReadingAgain

\* What the invariant gives the callers of the layer.
LEMMA HttpInvariantGives == HttpInvariant => RequestsAreAnswered
<1> SUFFICES ASSUME HttpInvariant PROVE RequestsAreAnswered OBVIOUS
<1>1. AppSound(app) /\ WireInvariant /\ PollInvariant /\ PagerInvariant BY DEF HttpInvariant
<1>2. GuardIsPlaced BY <1>1, GuardsArePlaced
<1>3. WorkersSurvive BY <1>1 DEF WireInvariant, WorkersSurvive
<1>4. ASSUME NEW q \in HttpRequests, wire[q].at = "done" PROVE Sound(wire[q])
  <2>1. Unsent.at = "idle" BY DEF Unsent
  <2> QED BY <1>1, <1>4, <2>1 DEF WireInvariant
<1>5. AnsweredOnce
  <2>1. SUFFICES ASSUME NEW q \in HttpRequests
                 PROVE  /\ wire[q].starts <= 1
                        /\ (app.guarded /\ wire[q].at = "done" /\ wire[q].starts = 0) => "cancel" \in ToSet(wire[q].escaped.leaves)
    BY DEF AnsweredOnce
  <2>2. wire[q].starts <= 1
    <3>1. CASE wire[q] = Unsent
      <4>1. PICK n \in Nat : n = wire[q].starts /\ n = 0
        <5>1. Unsent.starts = 0 BY DEF Unsent
        <5> QED BY <3>1, <5>1
      <4> QED BY <4>1
    <3>2. CASE wire[q] # Unsent BY <1>1, <3>2 DEF WireInvariant, Sound, Placed
    <3> QED BY <3>1, <3>2
  <2>3. (app.guarded /\ wire[q].at = "done" /\ wire[q].starts = 0) => "cancel" \in ToSet(wire[q].escaped.leaves)
    BY <1>4 DEF Sound, Concluded
  <2> QED BY <2>2, <2>3
<1>6. HandlersAnswer BY <1>4 DEF HandlersAnswer, Sound, Concluded, RendersFault
<1>7. BrowsersCanRead
  <2>1. SUFFICES ASSUME NEW q \in HttpRequests, app.made = "with_origins", wire[q].at = "done", wire[q].starts = 1,
                        wire[q].by # "serverError"
                 PROVE  wire[q].cors
    BY DEF BrowsersCanRead
  <2>2. Sound(wire[q]) BY <1>4, <2>1
  <2>3. wire[q].seen = 0 BY <2>1, <2>2 DEF Sound, Placed
  <2> QED BY <2>1, <2>2, <2>3 DEF Sound, Headed
<1>8. NotModifiedIsTrue BY <1>1 DEF PollInvariant, NotModifiedIsTrue
<1>9. WalksSkipNothing BY <1>1 DEF PagerInvariant
<1> QED BY <1>2, <1>3, <1>5, <1>6, <1>7, <1>8, <1>9 DEF RequestsAreAnswered

\* http.py: whatever order an application is put together in, and whatever its routes
\* and its middleware raise, a guarded application keeps its worker, its guard is in
\* its place, each request is answered once or was cancelled, with the status the
\* handlers give and with its CORS headers; a client told "not modified" has the copy,
\* and a walk passes over no item.
THEOREM AnsweredRequests == HttpSpec => []RequestsAreAnswered
<1>1. HttpInit => HttpInvariant BY NothingHasArrived
<1>2. HttpInvariant /\ [HttpNext]_httpVars => HttpInvariant' BY HttpStepsKeep
<1>3. HttpInvariant => RequestsAreAnswered BY HttpInvariantGives
<1> QED BY <1>1, <1>2, <1>3, PTL DEF HttpSpec

-----------------------------------------------------------------------------
(* Pages and batches.                                                      *)

\* A finite set has a row that is furthest on: the one with the fewest behind it.
LEMMA OneIsLast ==
    ASSUME NEW S, IsFiniteSet(S), S # {}, NEW rank, \A r \in S : rank[r] \in Int
    PROVE  \E m \in S : \A q \in S : rank[q] <= rank[m]
<1> DEFINE Behind(r) == {q \in S : rank[q] > rank[r]}
           counts == {Cardinality(Behind(r)) : r \in S}
<1>1. ASSUME NEW r \in S PROVE IsFiniteSet(Behind(r)) /\ Cardinality(Behind(r)) \in Nat
  <2>1. Behind(r) \in SUBSET S OBVIOUS
  <2>2. IsFiniteSet(Behind(r)) BY <2>1, FS_Subset
  <2> QED BY <2>2, FS_CardinalityType
<1>2. counts \subseteq Nat /\ counts # {} BY <1>1
<1>3. PICK least \in counts : \A n \in counts : least <= n
  <2> HIDE DEF counts
  <2> QED BY <1>2, TheEarliest
<1>4. PICK m \in S : least = Cardinality(Behind(m)) BY <1>3
<1>5. ASSUME NEW q \in S, rank[q] > rank[m] PROVE FALSE
  <2>1. Behind(q) \in SUBSET Behind(m)
    <3>1. ASSUME NEW x \in S, rank[x] > rank[q] PROVE rank[x] > rank[m]
      <4>1. rank[x] \in Int /\ rank[q] \in Int /\ rank[m] \in Int OBVIOUS
      <4> QED BY <1>5, <3>1, <4>1
    <3> QED BY <3>1
  <2>2. q \in Behind(m) BY <1>5
  <2>3. q \notin Behind(q)
    <3>1. rank[q] \in Int OBVIOUS
    <3> QED BY <3>1
  <2>4. Behind(q) # Behind(m) BY <2>2, <2>3
  <2>5. Cardinality(Behind(q)) \in Nat /\ Cardinality(Behind(m)) \in Nat /\ IsFiniteSet(Behind(m)) BY <1>1
  <2>6. Cardinality(Behind(q)) <= Cardinality(Behind(m)) /\ Cardinality(Behind(q)) # Cardinality(Behind(m))
    <3> HIDE DEF Behind
    <3> QED BY <2>1, <2>4, <2>5, FS_Subset
  <2>7. least <= Cardinality(Behind(q)) BY <1>3
  <2> QED BY <1>4, <2>5, <2>6, <2>7
<1>6. ASSUME NEW q \in S PROVE rank[q] <= rank[m]
  <2>1. rank[q] \in Int /\ rank[m] \in Int OBVIOUS
  <2> QED BY <1>5, <2>1
<1> QED BY <1>6

First(S, rank, n) == {r \in S : Cardinality({q \in S : rank[q] <= rank[r]}) <= n}

\* What the first n of some rows are: no more than n, ahead of the others, and all of
\* them when they are fewer.
LEMMA TheFirst ==
    ASSUME NEW S, IsFiniteSet(S), NEW rank, \A r \in S : rank[r] \in Int,
           \A r, q \in S : rank[r] = rank[q] => r = q, NEW n \in Nat
    PROVE  /\ First(S, rank, n) \subseteq S /\ IsFiniteSet(First(S, rank, n))
           /\ Cardinality(First(S, rank, n)) \in Nat /\ Cardinality(First(S, rank, n)) <= n
           /\ \A r \in First(S, rank, n), q \in S : q \notin First(S, rank, n) => rank[r] < rank[q]
           /\ Cardinality(First(S, rank, n)) # n => First(S, rank, n) = S
<1>0. PICK first : first = First(S, rank, n) OBVIOUS
<1> DEFINE Upto(r) == {q \in S : rank[q] <= rank[r]}
<1>1. first \in SUBSET S /\ IsFiniteSet(first) /\ Cardinality(first) \in Nat
  <2>1. first \in SUBSET S BY <1>0 DEF First
  <2>2. IsFiniteSet(first) BY <2>1, FS_Subset
  <2> QED BY <2>1, <2>2, FS_CardinalityType
<1>2. ASSUME NEW r \in S PROVE Upto(r) \in SUBSET S /\ IsFiniteSet(Upto(r)) /\ Cardinality(Upto(r)) \in Nat
  <2>1. Upto(r) \in SUBSET S OBVIOUS
  <2>2. IsFiniteSet(Upto(r)) BY <2>1, FS_Subset
  <2> QED BY <2>1, <2>2, FS_CardinalityType
<1>3. \A r \in S : r \in first <=> Cardinality(Upto(r)) <= n BY <1>0 DEF First
<1>4. ASSUME NEW r \in S, NEW q \in S, rank[r] <= rank[q], q \in first PROVE r \in first
  <2>1. Upto(r) \in SUBSET Upto(q)
    <3>1. ASSUME NEW x \in S, rank[x] <= rank[r] PROVE rank[x] <= rank[q]
      <4>1. rank[x] \in Int /\ rank[q] \in Int /\ rank[r] \in Int OBVIOUS
      <4> QED BY <1>4, <3>1, <4>1
    <3> QED BY <3>1
  <2>2. Cardinality(Upto(r)) <= Cardinality(Upto(q))
    <3> HIDE DEF Upto
    <3> QED BY <1>2, <2>1, FS_Subset
  <2>3. Cardinality(Upto(r)) \in Nat /\ Cardinality(Upto(q)) \in Nat BY <1>2
  <2>4. Cardinality(Upto(q)) <= n BY <1>3, <1>4
  <2>5. Cardinality(Upto(r)) <= n BY <2>2, <2>3, <2>4
  <2> QED BY <1>3, <2>5
<1>5. \A r \in first, q \in S : q \notin first => rank[r] < rank[q]
  <2>1. SUFFICES ASSUME NEW r \in first, NEW q \in S, q \notin first PROVE rank[r] < rank[q] OBVIOUS
  <2>2. rank[r] \in Int /\ rank[q] \in Int /\ r \in S BY <1>1
  <2>3. ~(rank[q] <= rank[r]) BY <1>4, <2>1, <2>2
  <2> QED BY <2>2, <2>3
<1>6. Cardinality(first) <= n
  <2>1. CASE first = {}
    <3>1. Cardinality(first) = 0 BY <2>1, FS_EmptySet
    <3> QED BY <3>1
  <2>2. CASE first # {}
    <3>1. \A r \in first : rank[r] \in Int BY <1>1
    <3>2. PICK m \in first : \A q \in first : rank[q] <= rank[m] BY <1>1, <2>2, <3>1, OneIsLast
    <3>3. first \in SUBSET Upto(m) BY <1>1, <3>2
    <3>4. m \in S BY <1>1
    <3>5. IsFiniteSet(Upto(m)) /\ Cardinality(Upto(m)) \in Nat /\ Cardinality(Upto(m)) <= n BY <1>2, <1>3, <3>4
    <3>6. Cardinality(first) <= Cardinality(Upto(m))
      <4> HIDE DEF Upto
      <4> QED BY <3>3, <3>5, FS_Subset
    <3> QED BY <1>1, <3>5, <3>6
  <2> QED BY <2>1, <2>2
<1>7. ASSUME Cardinality(first) # n, first # S PROVE FALSE
  <2> DEFINE rest == S \ first
             back == [r \in rest |-> 0 - rank[r]]
  <2>1. rest \in SUBSET S /\ rest # {} BY <1>1, <1>7
  <2>2. IsFiniteSet(rest) BY <2>1, FS_Subset
  <2>3. \A r \in rest : rank[r] \in Int /\ back[r] \in Int /\ back[r] = 0 - rank[r] BY <2>1
  <2>4. PICK m \in rest : \A q \in rest : back[q] <= back[m]
    <3> HIDE DEF rest, back
    <3> QED BY <2>1, <2>2, <2>3, OneIsLast
  <2>5. \A q \in rest : rank[m] <= rank[q]
    <3>1. SUFFICES ASSUME NEW q \in rest PROVE rank[m] <= rank[q] OBVIOUS
    <3>2. rank[m] \in Int /\ rank[q] \in Int /\ back[m] = 0 - rank[m] /\ back[q] = 0 - rank[q] /\ back[q] <= back[m] BY <2>3, <2>4
    <3> QED BY <3>2
  <2>6. Upto(m) \in SUBSET (first \cup {m})
    <3>1. ASSUME NEW x \in S, rank[x] <= rank[m], x \notin first PROVE x = m
      <4>1. x \in rest BY <3>1
      <4>2. rank[x] \in Int /\ rank[m] \in Int /\ rank[m] <= rank[x] BY <2>3, <2>5, <4>1
      <4>3. rank[x] = rank[m] BY <3>1, <4>2
      <4> QED BY <4>3
    <3> QED BY <3>1
  <2>7. IsFiniteSet(first \cup {m}) /\ Cardinality(first \cup {m}) = Cardinality(first) + 1 BY <1>1, FS_AddElement
  <2>8. Cardinality(Upto(m)) <= Cardinality(first \cup {m})
    <3> HIDE DEF Upto
    <3> QED BY <2>6, <2>7, FS_Subset
  <2>9. Cardinality(Upto(m)) \in Nat BY <1>2
  <2>10. Cardinality(first) + 1 <= n
    <3>1. PICK c \in Nat : c = Cardinality(first) BY <1>1
    <3>2. c <= n /\ c # n BY <1>6, <1>7, <3>1
    <3>3. c + 1 <= n BY <3>2
    <3> QED BY <3>1, <3>3
  <2>11. Cardinality(Upto(m)) <= n
    <3>1. Cardinality(Upto(m)) <= Cardinality(first) + 1 /\ Cardinality(first) \in Nat BY <1>1, <2>7, <2>8
    <3> HIDE DEF Upto
    <3> QED BY <2>9, <2>10, <3>1
  <2> QED BY <1>3, <2>1, <2>4, <2>11
<1> QED BY <1>0, <1>1, <1>5, <1>6, <1>7

\* One more page.
LEMMA PagesAppend ==
    ASSUME NEW T, NEW pages \in Seq(T), NEW page \in T
    PROVE  /\ Append(pages, page) \in Seq(T)
           /\ DOMAIN Append(pages, page) = 1 .. Len(pages) + 1 /\ DOMAIN pages = 1 .. Len(pages) /\ Len(pages) \in Nat
           /\ \A i \in 1 .. Len(pages) : Append(pages, page)[i] = pages[i]
           /\ Append(pages, page)[Len(pages) + 1] = page
           /\ \A r : r \in UNION {Append(pages, page)[i] : i \in DOMAIN Append(pages, page)}
                    <=> r \in UNION {pages[i] : i \in DOMAIN pages} \/ r \in page
<1>1. PICK longer \in Seq(T) : longer = Append(pages, page) BY AppendProperties
<1>2. /\ DOMAIN longer = 1 .. Len(pages) + 1 /\ DOMAIN pages = 1 .. Len(pages) /\ Len(pages) \in Nat
      /\ \A i \in 1 .. Len(pages) : longer[i] = pages[i]
      /\ longer[Len(pages) + 1] = page
  BY <1>1, AppendProperties, LenProperties
<1>3. ASSUME NEW r, r \in UNION {longer[i] : i \in DOMAIN longer} PROVE r \in UNION {pages[i] : i \in DOMAIN pages} \/ r \in page
  <2>1. PICK i \in DOMAIN longer : r \in longer[i] BY <1>3
  <2>2. i \in 1 .. Len(pages) \/ i = Len(pages) + 1 BY <1>2, <2>1
  <2>3. CASE i \in 1 .. Len(pages)
    <3>1. i \in DOMAIN pages /\ r \in pages[i] BY <1>2, <2>1, <2>3
    <3> QED BY <3>1
  <2>4. CASE i = Len(pages) + 1 BY <1>2, <2>1, <2>4
  <2> QED BY <2>2, <2>3, <2>4
<1>4. ASSUME NEW r, r \in UNION {pages[i] : i \in DOMAIN pages} PROVE r \in UNION {longer[i] : i \in DOMAIN longer}
  <2>1. PICK i \in DOMAIN pages : r \in pages[i] BY <1>4
  <2>2. i \in DOMAIN longer /\ r \in longer[i] BY <1>2, <2>1
  <2> QED BY <2>2
<1>5. ASSUME NEW r \in page PROVE r \in UNION {longer[i] : i \in DOMAIN longer}
  <2>1. Len(pages) + 1 \in DOMAIN longer /\ r \in longer[Len(pages) + 1] BY <1>2
  <2> QED BY <2>1
<1> QED BY <1>1, <1>2, <1>3, <1>4, <1>5

WalkRecord ==
    [at : {"idle", "reading", "capped", "exhausted"}, kind : {"query", "scan"}, scope : Scopes \cup {1},
     token : [k : Nat, s : Scopes \cup {1}], seen : Seq(SUBSET Row), yielded : Nat, stable : SUBSET Row]
BatchRecord ==
    [at : {"idle", "reading", "returned", "UnprocessedItems"}, wanted : SUBSET Row, pending : SUBSET Row, attempt : Nat,
     found : SUBSET Row, stable : SUBSET Row]
ReadTypes == rows \in SUBSET Row /\ walk \in WalkRecord /\ batch \in BatchRecord

SeenInOrder == \A i, j \in DOMAIN walk.seen : i < j => \A r \in walk.seen[i], q \in walk.seen[j] : Position[r] < Position[q]

\* A walk has seen what is due up to its cursor, and nothing behind it.
WalkSound ==
    /\ walk.token.s = walk.scope /\ walk.stable \subseteq rows
    /\ walk.kind = "query" => \A r \in Seen \cup walk.stable : r[1] = walk.scope
    /\ SeenInOrder
    /\ walk.at = "reading" =>
         /\ walk.yielded < MaxItems
         /\ \A r \in Seen : Position[r] <= walk.token.k
         /\ \A r \in Due : r \in Seen \/ Position[r] > walk.token.k
    /\ walk.at = "exhausted" => Due \subseteq Seen

\* What a batch is asked for was found, is being asked for, or waits its turn.
BatchSound ==
    /\ batch.stable \subseteq rows
    /\ batch.at = "reading" => batch.stable \subseteq batch.found \cup batch.pending \cup batch.wanted
    /\ batch.at = "returned" => batch.stable \subseteq batch.found

ReadInvariant == ReadTypes /\ WalkSound /\ BatchSound

LEMMA RowsArePlaced ==
    /\ IsFiniteSet(Row) /\ PageSize \in Nat /\ PageSize # 0 /\ MaxItems \in Nat /\ MaxItems # 0
    /\ \A r \in Row : Position[r] \in Int /\ Position[r] \in Nat /\ Position[r] # 0
    /\ \A r, q \in Row : Position[r] = Position[q] => r = q
<1>1. IsFiniteSet(Row) BY ReadsAssumption, FS_Product DEF Row
<1>2. \A r \in Row : Position[r] \in Nat \ {0} BY ReadsAssumption
<1> QED BY <1>1, <1>2, ReadsAssumption

LEMMA ForemostRows ==
    ASSUME NEW S, S \subseteq Row, NEW n \in Nat
    PROVE  /\ Foremost(S, n) \subseteq S /\ IsFiniteSet(Foremost(S, n))
           /\ Cardinality(Foremost(S, n)) \in Nat /\ Cardinality(Foremost(S, n)) <= n
           /\ \A r \in Foremost(S, n), q \in S : q \notin Foremost(S, n) => Position[r] < Position[q]
           /\ Cardinality(Foremost(S, n)) # n => Foremost(S, n) = S
<1>1. S \in SUBSET Row /\ IsFiniteSet(S) BY RowsArePlaced, FS_Subset
<1>2. (\A r \in S : Position[r] \in Int) /\ \A r, q \in S : Position[r] = Position[q] => r = q BY <1>1, RowsArePlaced
<1>3. Foremost(S, n) = First(S, Position, n) BY DEF Foremost, First
<1> QED BY <1>1, <1>2, <1>3, TheFirst

LEMMA FarthestRow ==
    ASSUME NEW S, S \subseteq Row, S # {}
    PROVE  \E m \in S : Farthest(S) = Position[m] /\ \A q \in S : Position[q] <= Position[m]
<1>1. S \in SUBSET Row /\ IsFiniteSet(S) BY RowsArePlaced, FS_Subset
<1>2. \A r \in S : Position[r] \in Int BY <1>1, RowsArePlaced
<1>3. PICK m \in S : \A q \in S : Position[q] <= Position[m] BY <1>1, <1>2, OneIsLast
<1>4. \E n \in {Position[r] : r \in S} : \A q \in S : Position[q] <= n BY <1>3
<1>5. Farthest(S) \in {Position[r] : r \in S} /\ \A q \in S : Position[q] <= Farthest(S) BY <1>4 DEF Farthest
<1> QED BY <1>5

\* A page holds what the filter keeps of the candidates up to its cursor, and without
\* one all of them.
Reaches(page, candidates, from) ==
    /\ page.items \subseteq candidates /\ page.last \in Nat
    /\ \A r \in page.items : Position[r] > from
    /\ page.last # 0 => page.last > from /\ \A r \in page.items : Position[r] <= page.last
    /\ \A r \in candidates : Position[r] > from /\ r[2] \notin Unmatched =>
         r \in page.items \/ (page.last # 0 /\ Position[r] > page.last)

LEMMA PagesReach ==
    ASSUME NEW candidates, candidates \subseteq Row, NEW from \in Nat
    PROVE  Reaches(PageOf(candidates, from), candidates, from)
<1>0. PICK page : page = PageOf(candidates, from) OBVIOUS
<1>1. PICK ahead : ahead = {r \in candidates : Position[r] > from} OBVIOUS
<1>2. PICK read : read = Foremost(ahead, PageSize) OBVIOUS
<1>3. page.items = {r \in read : r[2] \notin Unmatched} /\ page.last = IF Cardinality(read) = PageSize THEN Farthest(read) ELSE 0
  BY <1>0, <1>1, <1>2 DEF PageOf
<1>4. ahead \subseteq Row BY <1>1
<1>5. /\ read \subseteq ahead /\ IsFiniteSet(read) /\ \A r \in read, q \in ahead : q \notin read => Position[r] < Position[q]
      /\ Cardinality(read) # PageSize => read = ahead
  BY <1>2, <1>4, RowsArePlaced, ForemostRows
<1>6. page.items \subseteq candidates /\ \A r \in page.items : Position[r] > from BY <1>1, <1>3, <1>5
<1>7. CASE Cardinality(read) = PageSize
  <2>1. read # {} BY <1>7, FS_EmptySet, RowsArePlaced
  <2>2. read \subseteq Row BY <1>4, <1>5
  <2>3. PICK m \in read : Farthest(read) = Position[m] /\ \A q \in read : Position[q] <= Position[m] BY <2>1, <2>2, FarthestRow
  <2>4. page.last = Position[m] /\ page.last \in Nat /\ page.last # 0 BY <1>3, <1>7, <2>2, <2>3, RowsArePlaced
  <2>5. page.last > from BY <1>1, <1>5, <2>4
  <2>6. \A r \in page.items : Position[r] <= page.last BY <1>3, <2>3, <2>4
  <2>7. ASSUME NEW r \in candidates, Position[r] > from, r[2] \notin Unmatched, r \notin page.items PROVE Position[r] > page.last
    <3>1. r \in ahead /\ r \notin read BY <1>1, <1>3, <2>7
    <3>2. Position[m] < Position[r] BY <1>5, <3>1
    <3>3. Position[m] \in Int /\ Position[r] \in Int BY <1>4, <2>2, <3>1, RowsArePlaced
    <3> QED BY <2>4, <3>2, <3>3
  <2> QED BY <1>0, <1>6, <2>4, <2>5, <2>6, <2>7 DEF Reaches
<1>8. CASE Cardinality(read) # PageSize
  <2>1. page.last = 0 /\ read = ahead BY <1>3, <1>5, <1>8
  <2> QED BY <1>0, <1>1, <1>3, <1>6, <2>1 DEF Reaches
<1> QED BY <1>7, <1>8

LEMMA PagesYield ==
    ASSUME NEW page, page.items \subseteq Row, walk.yielded \in Nat, walk.yielded < MaxItems
    PROVE  /\ Yielded(page) \subseteq page.items /\ Cardinality(Yielded(page)) \in Nat
           /\ walk.yielded + Cardinality(Yielded(page)) <= MaxItems
           /\ walk.yielded + Cardinality(Yielded(page)) # MaxItems => Yielded(page) = page.items
<1>1. PICK room \in Nat : room = MaxItems - walk.yielded BY RowsArePlaced
<1>2. Yielded(page) = Foremost(page.items, room) BY <1>1 DEF Yielded
<1>3. /\ Foremost(page.items, room) \subseteq page.items /\ Cardinality(Foremost(page.items, room)) \in Nat
      /\ Cardinality(Foremost(page.items, room)) <= room
      /\ Cardinality(Foremost(page.items, room)) # room => Foremost(page.items, room) = page.items
  BY ForemostRows
<1>4. PICK n \in Nat : n = Cardinality(Yielded(page)) BY <1>2, <1>3
<1>5. n <= room /\ (n # room => Yielded(page) = page.items) BY <1>2, <1>3, <1>4
<1>6. walk.yielded + n <= MaxItems /\ (walk.yielded + n # MaxItems => n # room) BY <1>1, <1>5, RowsArePlaced
<1> QED BY <1>2, <1>3, <1>4, <1>5, <1>6

\* A page is read under the scope the walk began with, from where its cursor is.
LEMMA PageRead ==
    ASSUME ReadInvariant, NEW scope \in Scopes, ReadPage(scope)
    PROVE  /\ scope = walk.scope
           /\ \E candidates, page :
                /\ candidates \in SUBSET rows /\ page = PageOf(candidates, walk.token.k)
                /\ candidates = IF walk.kind = "scan" THEN rows ELSE {r \in rows : r[1] = walk.scope}
                /\ walk' = [walk EXCEPT !.seen = Append(@, Yielded(page)), !.yielded = walk.yielded + Cardinality(Yielded(page)),
                                        !.token = [k |-> page.last, s |-> walk.scope],
                                        !.at = IF walk.yielded + Cardinality(Yielded(page)) = MaxItems THEN "capped"
                                               ELSE IF page.last # 0 THEN "reading" ELSE "exhausted"]
<1>1. walk.token.s = walk.scope /\ walk.token \in [k : Nat, s : Scopes \cup {1}] BY DEF ReadInvariant, WalkSound, ReadTypes, WalkRecord
<1>2. walk.kind \in {"query", "scan"} BY DEF ReadInvariant, ReadTypes, WalkRecord
<1>3. scope = walk.scope
  <2>1. CASE walk.token.k = 0 BY <2>1 DEF ReadPage
  <2>2. CASE walk.token.k # 0
    <3>1. DecodeStartKey(walk.token, scope) # InvalidStartKey BY DEF ReadPage
    <3> QED BY <1>1, <2>2, <3>1 DEF DecodeStartKey
  <2> QED BY <2>1, <2>2
<1>4. DecodeStartKey(walk.token, scope).k = walk.token.k BY <1>1, <1>3 DEF DecodeStartKey
<1>5. PICK candidates : candidates = IF walk.kind = "scan" THEN rows ELSE {r \in rows : r[1] = walk.scope} OBVIOUS
<1>6. candidates \in SUBSET rows BY <1>5
<1>7. PICK page : page = PageOf(candidates, walk.token.k) OBVIOUS
<1>8. page = IF walk.kind = "scan" THEN ScanPage(DecodeStartKey(walk.token, scope).k) ELSE QueryPage(scope, DecodeStartKey(walk.token, scope).k)
  BY <1>3, <1>4, <1>5, <1>7 DEF ScanPage, QueryPage
<1>9. walk' = [walk EXCEPT !.seen = Append(@, Yielded(page)), !.yielded = walk.yielded + Cardinality(Yielded(page)),
                           !.token = [k |-> page.last, s |-> walk.scope],
                           !.at = IF walk.yielded + Cardinality(Yielded(page)) = MaxItems THEN "capped"
                                  ELSE IF page.last # 0 THEN "reading" ELSE "exhausted"]
  BY <1>3, <1>8 DEF ReadPage, HasMore, EncodeStartKey
<1> QED BY <1>3, <1>5, <1>6, <1>7, <1>9

LEMMA ReadPageKeeps ==
    ASSUME ReadInvariant, NEW scope \in Scopes, ReadPage(scope)
    PROVE  ReadInvariant'
<1>1. rows' = rows /\ batch' = batch /\ walk.at = "reading" BY DEF ReadPage
<1>2. walk \in WalkRecord /\ rows \subseteq Row /\ WalkSound BY DEF ReadInvariant, ReadTypes
<1>3. PICK candidates, page :
        /\ candidates \in SUBSET rows /\ page = PageOf(candidates, walk.token.k)
        /\ candidates = IF walk.kind = "scan" THEN rows ELSE {r \in rows : r[1] = walk.scope}
        /\ walk' = [walk EXCEPT !.seen = Append(@, Yielded(page)), !.yielded = walk.yielded + Cardinality(Yielded(page)),
                                !.token = [k |-> page.last, s |-> walk.scope],
                                !.at = IF walk.yielded + Cardinality(Yielded(page)) = MaxItems THEN "capped"
                                       ELSE IF page.last # 0 THEN "reading" ELSE "exhausted"]
  BY PageRead
<1>4. PICK k \in Nat, seen \in Seq(SUBSET Row), sofar \in Nat : k = walk.token.k /\ seen = walk.seen /\ sofar = walk.yielded
  BY <1>2 DEF WalkRecord
<1>5. /\ page.items \subseteq candidates /\ candidates \subseteq Row /\ page.last \in Nat
      /\ \A r \in page.items : Position[r] > k
      /\ page.last # 0 => page.last > k /\ \A r \in page.items : Position[r] <= page.last
      /\ \A r \in candidates : Position[r] > k /\ r[2] \notin Unmatched =>
           r \in page.items \/ (page.last # 0 /\ Position[r] > page.last)
  <2>1. candidates \subseteq Row /\ page = PageOf(candidates, k) BY <1>2, <1>3, <1>4
  <2>2. Reaches(page, candidates, k) BY <2>1, PagesReach
  <2> QED BY <2>1, <2>2 DEF Reaches
<1>6. PICK got : got = Yielded(page) OBVIOUS
<1>7. PICK n \in Nat : n = Cardinality(got) /\ got \subseteq page.items /\ sofar + n <= MaxItems /\ (sofar + n # MaxItems => got = page.items)
  <2>1. sofar < MaxItems BY <1>1, <1>2, <1>4 DEF WalkSound
  <2> QED BY <1>2, <1>4, <1>5, <1>6, <2>1, PagesYield
<1>8. PICK last \in Nat : last = page.last BY <1>5
<1>9. PICK at \in {"reading", "capped", "exhausted"} :
        at = IF sofar + n = MaxItems THEN "capped" ELSE IF last # 0 THEN "reading" ELSE "exhausted"
  OBVIOUS
<1>10. walk' = [walk EXCEPT !.seen = Append(seen, got), !.yielded = sofar + n, !.token = [k |-> last, s |-> walk.scope], !.at = at]
  BY <1>3, <1>4, <1>6, <1>7, <1>8, <1>9
<1>11. got \subseteq Row /\ Append(seen, got) \in Seq(SUBSET Row)
  <2>1. got \in SUBSET Row BY <1>2, <1>5, <1>7
  <2> QED BY <2>1, AppendProperties
<1>12. walk' \in WalkRecord
  <2>1. [k |-> last, s |-> walk.scope] \in [k : Nat, s : Scopes \cup {1}] BY <1>2 DEF WalkRecord
  <2>2. sofar + n \in Nat OBVIOUS
  <2> QED BY <1>2, <1>10, <1>11, <2>1, <2>2 DEF WalkRecord
<1>13. /\ walk'.seen = Append(seen, got) /\ walk'.yielded = sofar + n /\ walk'.token.k = last /\ walk'.token.s = walk.scope
       /\ walk'.at = at /\ walk'.scope = walk.scope /\ walk'.kind = walk.kind /\ walk'.stable = walk.stable
  BY <1>2, <1>10 DEF WalkRecord
<1>14. Seen' = Seen \cup got
  <2>1. got \in SUBSET Row BY <1>11
  <2>2. \A r : r \in UNION {Append(seen, got)[i] : i \in DOMAIN Append(seen, got)} <=> r \in UNION {seen[i] : i \in DOMAIN seen} \/ r \in got
    BY <2>1, PagesAppend
  <2>3. \A r : r \in Seen' <=> r \in UNION {Append(seen, got)[i] : i \in DOMAIN Append(seen, got)} BY <1>13 DEF Seen
  <2>4. \A r : r \in Seen <=> r \in UNION {seen[i] : i \in DOMAIN seen} BY <1>4 DEF Seen
  <2> HIDE DEF Seen
  <2> QED BY <2>2, <2>3, <2>4
<1>15. Due' = Due BY <1>13 DEF Due
<1>16. \A r \in Seen : Position[r] <= k BY <1>1, <1>2, <1>4 DEF WalkSound
<1>17. SeenInOrder'
  <2>1. SUFFICES ASSUME NEW i \in DOMAIN Append(seen, got), NEW j \in DOMAIN Append(seen, got), i < j,
                        NEW r \in Append(seen, got)[i], NEW q \in Append(seen, got)[j]
                 PROVE  Position[r] < Position[q]
    BY <1>13 DEF SeenInOrder
  <2>2. /\ DOMAIN Append(seen, got) = 1 .. Len(seen) + 1 /\ DOMAIN seen = 1 .. Len(seen) /\ Len(seen) \in Nat
        /\ \A m \in 1 .. Len(seen) : Append(seen, got)[m] = seen[m]
        /\ Append(seen, got)[Len(seen) + 1] = got
    BY <1>4, <1>11, AppendProperties, LenProperties
  <2>3. i \in 1 .. Len(seen) /\ r \in seen[i] BY <2>1, <2>2
  <2>4. CASE j \in 1 .. Len(seen)
    <3>1. q \in seen[j] BY <2>1, <2>2, <2>4
    <3> QED BY <1>2, <1>4, <2>1, <2>2, <2>3, <2>4, <3>1 DEF WalkSound, SeenInOrder
  <2>5. CASE j = Len(seen) + 1
    <3>1. q \in got /\ r \in Seen BY <1>4, <2>1, <2>2, <2>3, <2>5 DEF Seen
    <3>2. Position[r] <= k /\ Position[q] > k /\ Position[q] \in Int BY <1>5, <1>7, <1>11, <1>16, <3>1, RowsArePlaced
    <3>3. r \in Row
      <4>1. seen[i] \in SUBSET Row BY <2>2, <2>3, ElementOfSeq
      <4> QED BY <2>3, <4>1
    <3>4. Position[r] \in Int BY <3>3, RowsArePlaced
    <3> QED BY <3>2, <3>4
  <2> QED BY <2>1, <2>2, <2>4, <2>5
<1>18. walk.kind = "query" => \A r \in Seen' \cup walk.stable : r[1] = walk.scope
  <2>1. ASSUME walk.kind = "query", NEW r \in got PROVE r[1] = walk.scope BY <1>3, <1>5, <1>7, <2>1
  <2> QED BY <1>2, <1>14, <2>1 DEF WalkSound
<1>19. ASSUME at # "capped", NEW r \in Due PROVE r \in Seen' \/ (last # 0 /\ Position[r] > last)
  <2>1. sofar + n # MaxItems /\ got = page.items BY <1>7, <1>9, <1>19
  <2>2. r \in walk.stable /\ r[2] \notin Unmatched /\ r \in rows BY <1>2 DEF Due, WalkSound
  <2>3. r \in candidates
    <3>1. walk.kind = "scan" \/ walk.kind = "query" BY <1>2 DEF WalkRecord
    <3>2. walk.kind = "query" => r[1] = walk.scope BY <1>2, <2>2 DEF WalkSound
    <3> QED BY <1>3, <2>2, <3>1, <3>2
  <2>4. r \in Seen \/ Position[r] > k BY <1>1, <1>2, <1>4 DEF WalkSound
  <2> QED BY <1>5, <1>8, <1>14, <2>1, <2>2, <2>3, <2>4
<1>20. at = "reading" => /\ sofar + n < MaxItems
                         /\ \A r \in Seen' : Position[r] <= last
                         /\ \A r \in Due : r \in Seen' \/ Position[r] > last
  <2>1. SUFFICES ASSUME at = "reading"
                 PROVE  /\ sofar + n < MaxItems /\ \A r \in Seen' : Position[r] <= last
                        /\ \A r \in Due : r \in Seen' \/ Position[r] > last
    OBVIOUS
  <2>2. last # 0 /\ sofar + n # MaxItems BY <1>9, <2>1
  <2>3. sofar + n < MaxItems BY <1>7, <2>2, RowsArePlaced
  <2>4. ASSUME NEW r \in Seen' PROVE Position[r] <= last
    <3>1. CASE r \in got BY <1>5, <1>7, <1>8, <2>2, <3>1
    <3>2. CASE r \in Seen
      <4>1. PICK i \in DOMAIN seen : r \in seen[i] BY <1>4, <3>2 DEF Seen
      <4>2. seen[i] \in SUBSET Row BY <4>1, ElementOfSeq, LenProperties
      <4>3. Position[r] \in Int /\ Position[r] <= k BY <1>16, <3>2, <4>1, <4>2, RowsArePlaced
      <4>4. last > k BY <1>5, <1>8, <2>2
      <4> QED BY <4>3, <4>4
    <3> QED BY <1>14, <2>4, <3>1, <3>2
  <2> QED BY <1>19, <2>1, <2>3, <2>4
<1>21. at = "exhausted" => Due \subseteq Seen'
  <2>1. SUFFICES ASSUME at = "exhausted", NEW r \in Due PROVE r \in Seen' OBVIOUS
  <2>2. last = 0 BY <1>9, <2>1
  <2> QED BY <1>19, <2>1, <2>2
<1>22. WalkSound' BY <1>1, <1>2, <1>13, <1>15, <1>17, <1>18, <1>20, <1>21 DEF WalkSound
<1>23. BatchSound' /\ ReadTypes' BY <1>1, <1>12 DEF ReadInvariant, BatchSound, ReadTypes
<1> QED BY <1>22, <1>23 DEF ReadInvariant

LEMMA StartWalkKeeps ==
    ASSUME ReadInvariant, NEW kind \in {"query", "scan"}, NEW scope \in Scopes, StartWalk(kind, scope)
    PROVE  ReadInvariant'
<1>1. rows' = rows /\ batch' = batch BY DEF StartWalk
<1>2. PICK stable \in SUBSET rows : stable = IF kind = "scan" THEN rows ELSE {r \in rows : r[1] = scope} OBVIOUS
<1>3. walk' = [at |-> "reading", kind |-> kind, scope |-> scope, token |-> [k |-> 0, s |-> scope], seen |-> <<>>, yielded |-> 0,
               stable |-> stable]
  BY <1>2 DEF StartWalk, EncodeStartKey
<1>4. rows \subseteq Row BY DEF ReadInvariant, ReadTypes
<1>5. walk' \in WalkRecord
  <2>1. <<>> \in Seq(SUBSET Row) BY EmptySeq
  <2>2. [k |-> 0, s |-> scope] \in [k : Nat, s : Scopes \cup {1}] OBVIOUS
  <2> QED BY <1>2, <1>3, <1>4, <2>1, <2>2 DEF WalkRecord
<1>6. DOMAIN walk'.seen = {} /\ walk'.at = "reading" BY <1>3
<1>7. Seen' = {} /\ SeenInOrder' BY <1>6 DEF Seen, SeenInOrder
<1>8. \A r \in Due' : Position[r] > 0
  <2>1. SUFFICES ASSUME NEW r \in Due' PROVE Position[r] > 0 OBVIOUS
  <2>2. r \in Row BY <1>2, <1>3, <1>4, <2>1 DEF Due
  <2> QED BY <2>2, RowsArePlaced
<1>9. kind = "query" => \A r \in stable : r[1] = scope BY <1>2
<1>10. WalkSound'
  <2>1. 0 < MaxItems BY RowsArePlaced
  <2> QED BY <1>1, <1>2, <1>3, <1>7, <1>8, <1>9, <2>1 DEF WalkSound
<1>11. BatchSound' /\ ReadTypes' BY <1>1, <1>5 DEF ReadInvariant, BatchSound, ReadTypes
<1> QED BY <1>10, <1>11 DEF ReadInvariant

LEMMA WalkStands ==
    ASSUME WalkSound, UNCHANGED walk, walk.stable \subseteq rows'
    PROVE  WalkSound'
<1>1. Seen' = Seen /\ Due' = Due /\ (SeenInOrder' <=> SeenInOrder) BY DEF Seen, Due, SeenInOrder
<1> QED BY <1>1 DEF WalkSound

LEMMA StartBatchKeeps ==
    ASSUME ReadInvariant, NEW ids \in SUBSET Row, StartBatch(ids)
    PROVE  ReadInvariant'
<1>1. rows' = rows /\ walk' = walk BY DEF StartBatch
<1>2. PICK chunk \in SUBSET Row : chunk = Foremost(ids, BatchLimit) BY DEF Foremost
<1>3. PICK at \in {"returned", "reading"} : at = IF ids = {} THEN "returned" ELSE "reading" OBVIOUS
<1>4. batch' = [at |-> at, wanted |-> ids \ chunk, pending |-> chunk, attempt |-> 1, found |-> {}, stable |-> rows \cap ids]
  BY <1>2, <1>3 DEF StartBatch
<1>5. batch' \in BatchRecord BY <1>4 DEF BatchRecord
<1>6. BatchSound' BY <1>1, <1>3, <1>4 DEF BatchSound
<1>7. WalkSound' BY <1>1, WalkStands DEF ReadInvariant, WalkSound
<1> QED BY <1>1, <1>5, <1>6, <1>7 DEF ReadInvariant, ReadTypes

LEMMA BatchGetKeeps ==
    ASSUME ReadInvariant, NEW served \in SUBSET batch.pending, BatchGet(served)
    PROVE  ReadInvariant'
<1>1. rows' = rows /\ walk' = walk /\ batch.at = "reading" BY DEF BatchGet
<1>2. batch \in BatchRecord /\ rows \subseteq Row BY DEF ReadInvariant, ReadTypes
<1>3. batch.stable \subseteq rows /\ batch.stable \subseteq batch.found \cup batch.pending \cup batch.wanted
  BY <1>1 DEF ReadInvariant, BatchSound
<1>4. PICK found \in SUBSET Row : found = batch.found \cup (served \cap rows) BY <1>2 DEF BatchRecord
<1>5. PICK left \in SUBSET Row : left = batch.pending \ served BY <1>2 DEF BatchRecord
<1>6. PICK step \in BatchRecord : step = [batch EXCEPT !.found = found] BY <1>2, <1>4 DEF BatchRecord
<1>7. /\ step.found = found /\ step.stable = batch.stable /\ step.wanted = batch.wanted /\ step.attempt = batch.attempt
      /\ step.at = "reading"
  BY <1>1, <1>2, <1>6 DEF BatchRecord
<1>8. step.stable \subseteq found \cup left \cup batch.wanted BY <1>3, <1>4, <1>5, <1>7
<1>9. step = [batch EXCEPT !.found = @ \cup (served \cap rows)] BY <1>4, <1>6
<1>10. batch' \in BatchRecord /\ BatchSound'
  <2>1. CASE left # {} /\ batch.attempt = BatchAttempts
    <3>1. batch' = [step EXCEPT !.at = "UnprocessedItems"] BY <1>5, <1>9, <2>1 DEF BatchGet
    <3>2. batch' \in BatchRecord /\ batch'.at = "UnprocessedItems" /\ batch'.stable = step.stable BY <1>6, <3>1 DEF BatchRecord
    <3> QED BY <1>1, <1>3, <1>7, <3>2 DEF BatchSound
  <2>2. CASE left # {} /\ batch.attempt # BatchAttempts
    <3>1. PICK n \in Nat : n = batch.attempt + 1 BY <1>2 DEF BatchRecord
    <3>2. batch' = [step EXCEPT !.pending = left, !.attempt = n] BY <1>5, <1>7, <1>9, <2>2, <3>1 DEF BatchGet
    <3>3. batch' \in BatchRecord /\ batch'.at = "reading" /\ batch'.stable = step.stable /\ batch'.found = found
          /\ batch'.pending = left /\ batch'.wanted = batch.wanted
      BY <1>6, <1>7, <3>2 DEF BatchRecord
    <3> QED BY <1>1, <1>3, <1>7, <1>8, <3>3 DEF BatchSound
  <2>3. CASE left = {} /\ batch.wanted = {}
    <3>1. batch' = [step EXCEPT !.at = "returned", !.pending = {}] BY <1>5, <1>9, <2>3 DEF BatchGet
    <3>2. batch' \in BatchRecord /\ batch'.at = "returned" /\ batch'.stable = step.stable /\ batch'.found = found
      BY <1>6, <1>7, <3>1 DEF BatchRecord
    <3> QED BY <1>1, <1>3, <1>7, <1>8, <2>3, <3>2 DEF BatchSound
  <2>4. CASE left = {} /\ batch.wanted # {}
    <3>1. PICK chunk \in SUBSET Row : chunk = Foremost(batch.wanted, BatchLimit) BY <1>2 DEF Foremost, BatchRecord
    <3>2. PICK wanted \in SUBSET Row : wanted = batch.wanted \ chunk BY <1>2 DEF BatchRecord
    <3>3. batch' = [step EXCEPT !.pending = chunk, !.attempt = 1, !.wanted = wanted]
      BY <1>5, <1>7, <1>9, <2>4, <3>1, <3>2 DEF BatchGet
    <3>4. batch' \in BatchRecord /\ batch'.at = "reading" /\ batch'.stable = step.stable /\ batch'.found = found
          /\ batch'.pending = chunk /\ batch'.wanted = wanted
      BY <1>6, <1>7, <3>3 DEF BatchRecord
    <3> QED BY <1>1, <1>3, <1>7, <1>8, <2>4, <3>2, <3>4 DEF BatchSound
  <2> QED BY <2>1, <2>2, <2>3, <2>4
<1>11. WalkSound' BY <1>1, WalkStands DEF ReadInvariant, WalkSound
<1> QED BY <1>1, <1>10, <1>11 DEF ReadInvariant, ReadTypes

\* A write between two pages adds to what may be read, or takes away from what is due.
LEMMA WritesKeep ==
    ASSUME ReadInvariant, NEW r \in Row, PutRow(r) \/ DeleteRow(r)
    PROVE  ReadInvariant'
<1>1. walk \in WalkRecord /\ batch \in BatchRecord /\ rows \subseteq Row BY DEF ReadInvariant, ReadTypes
<1>2. WalkSound /\ BatchSound BY DEF ReadInvariant
<1>3. CASE PutRow(r)
  <2>1. walk' = walk /\ batch' = batch /\ rows' = rows \cup {r} BY <1>3 DEF PutRow
  <2>2. walk.stable \subseteq rows' /\ batch.stable \subseteq rows' BY <1>2, <2>1 DEF WalkSound, BatchSound
  <2>3. WalkSound' BY <1>2, <2>1, <2>2, WalkStands
  <2>4. BatchSound' BY <1>2, <2>1, <2>2 DEF BatchSound
  <2> QED BY <1>1, <2>1, <2>3, <2>4 DEF ReadInvariant, ReadTypes
<1>4. CASE DeleteRow(r)
  <2>1. PICK kept \in SUBSET Row, due \in SUBSET Row : kept = walk.stable \ {r} /\ due = batch.stable \ {r}
    BY <1>1 DEF WalkRecord, BatchRecord
  <2>2. rows' = rows \ {r} /\ walk' = [walk EXCEPT !.stable = kept] /\ batch' = [batch EXCEPT !.stable = due] BY <1>4, <2>1 DEF DeleteRow
  <2>3. walk' \in WalkRecord /\ batch' \in BatchRecord BY <1>1, <2>1, <2>2 DEF WalkRecord, BatchRecord
  <2>4. /\ walk'.at = walk.at /\ walk'.kind = walk.kind /\ walk'.scope = walk.scope /\ walk'.token = walk.token
        /\ walk'.seen = walk.seen /\ walk'.yielded = walk.yielded /\ walk'.stable = kept
    BY <1>1, <2>2 DEF WalkRecord
  <2>5. /\ batch'.at = batch.at /\ batch'.wanted = batch.wanted /\ batch'.pending = batch.pending /\ batch'.found = batch.found
        /\ batch'.stable = due
    BY <1>1, <2>2 DEF BatchRecord
  <2>6. Seen' = Seen /\ Due' \subseteq Due /\ (SeenInOrder' <=> SeenInOrder) BY <2>1, <2>4 DEF Seen, Due, SeenInOrder
  <2>7. WalkSound' BY <1>2, <2>1, <2>2, <2>4, <2>6 DEF WalkSound
  <2>8. BatchSound' BY <1>2, <2>1, <2>2, <2>5 DEF BatchSound
  <2> QED BY <1>1, <2>2, <2>3, <2>7, <2>8 DEF ReadInvariant, ReadTypes
<1> QED BY <1>3, <1>4

LEMMA ReadersGoOn == ReadInvariant /\ [ReadNext]_readVars => ReadInvariant'
<1> SUFFICES ASSUME ReadInvariant, [ReadNext]_readVars PROVE ReadInvariant' OBVIOUS
<1>1. CASE \E kind \in {"query", "scan"}, s \in Scopes : StartWalk(kind, s) BY <1>1, StartWalkKeeps
<1>2. CASE \E s \in Scopes : ReadPage(s) BY <1>2, ReadPageKeeps
<1>3. CASE \E ids \in SUBSET Row : StartBatch(ids) BY <1>3, StartBatchKeeps
<1>4. CASE \E served \in SUBSET batch.pending : BatchGet(served) BY <1>4, BatchGetKeeps
<1>5. CASE \E r \in Row : PutRow(r) \/ DeleteRow(r) BY <1>5, WritesKeep
<1>6. CASE UNCHANGED readVars
  <2>1. rows' = rows /\ walk' = walk /\ batch' = batch BY <1>6 DEF readVars
  <2>2. WalkSound' BY <2>1, WalkStands DEF ReadInvariant, WalkSound
  <2> QED BY <2>1, <2>2 DEF ReadInvariant, ReadTypes, BatchSound
<1> QED BY <1>1, <1>2, <1>3, <1>4, <1>5, <1>6 DEF ReadNext

LEMMA ReadersBegin == ReadInit => ReadInvariant
<1> SUFFICES ASSUME ReadInit PROVE ReadInvariant OBVIOUS
<1>1. rows \subseteq Row BY DEF ReadInit
<1>2. walk = [at |-> "idle", kind |-> "query", scope |-> 1, token |-> [k |-> 0, s |-> 1], seen |-> <<>>, yielded |-> 0, stable |-> {}]
  BY DEF ReadInit, EncodeStartKey
<1>3. batch = [at |-> "idle", wanted |-> {}, pending |-> {}, attempt |-> 0, found |-> {}, stable |-> {}] BY DEF ReadInit
<1>4. walk \in WalkRecord
  <2>1. <<>> \in Seq(SUBSET Row) BY EmptySeq
  <2>2. [k |-> 0, s |-> 1] \in [k : Nat, s : Scopes \cup {1}] OBVIOUS
  <2> QED BY <1>2, <2>1, <2>2 DEF WalkRecord
<1>5. batch \in BatchRecord BY <1>3 DEF BatchRecord
<1>6. DOMAIN walk.seen = {} BY <1>2
<1>7. Seen = {} /\ SeenInOrder BY <1>6 DEF Seen, SeenInOrder
<1>8. WalkSound BY <1>2, <1>7 DEF WalkSound
<1>9. BatchSound BY <1>3 DEF BatchSound
<1> QED BY <1>1, <1>4, <1>5, <1>8, <1>9 DEF ReadInvariant, ReadTypes

LEMMA ReadsAnswerAll == ReadInvariant => ReadsAreComplete
<1> SUFFICES ASSUME ReadInvariant PROVE ReadsAreComplete OBVIOUS
<1>1. WalkSound /\ BatchSound BY DEF ReadInvariant
<1>2. ExhaustedWalkMissesNothing BY <1>1 DEF WalkSound, SeenInOrder, ExhaustedWalkMissesNothing
<1>3. BatchIsNeverShort BY <1>1 DEF BatchSound, BatchIsNeverShort
<1> QED BY <1>2, <1>3 DEF ReadsAreComplete

-----------------------------------------------------------------------------
(* The audit log.                                                          *)

ListingRecord ==
    [at : {"idle", "reading", "listed", "InvalidStartKey"}, tenant : AuditTenants \cup {0}, via : {"table", "index", "memory"},
     low : Nat, high : Nat, last : Nat, count : Nat, round : Nat, seen : Seq(SUBSET AuditEvents), due : SUBSET AuditEvents]
PurgerRecord ==
    [at : {"idle", "reading", "purged", "died"}, tenant : AuditTenants \cup {0}, todo : SUBSET AuditEvents, due : SUBSET AuditEvents]
AuditTypes ==
    /\ trail \in SUBSET AuditEvents /\ indexed \in SUBSET AuditEvents /\ recorded \in SUBSET AuditEvents
    /\ writer \in AuditEvents \cup {NoEvent}
    /\ listing \in ListingRecord /\ purger \in PurgerRecord
    /\ spent \in [minted : SUBSET AuditEvents, records : Nat, faults : Nat]

NewerFirst ==
    \A i, j \in DOMAIN listing.seen : i < j => \A e \in listing.seen[i], d \in listing.seen[j] : e[2] > d[2]

\* What a listing has to give, and what one that read up to its cursor has given.
DueNow(e) ==
    /\ e \in trail /\ (listing.via = "index" => e \in indexed /\ InTargetIndex(e))
    /\ e[1] = listing.tenant /\ Within(e[2], listing.low, listing.high) /\ e[2] \in ByActor
ListingSound ==
    /\ \A e \in Listed : e[1] = listing.tenant /\ e[2] \in ByActor
    /\ NewerFirst
    /\ \A e \in listing.due : DueNow(e)
    /\ listing.at = "idle" => Listed = {} /\ listing.count = 0
    /\ listing.at = "reading" =>
         /\ listing.count < ListSize
         /\ \A e \in Listed : e[2] >= listing.last
         /\ \A e \in listing.due : e \in Listed \/ e[2] < listing.last
    /\ listing.at = "listed" => listing.due \subseteq Listed

\* An id is minted once, so what a purge owes is not recorded behind its back.
TrailSound ==
    /\ trail \subseteq spent.minted /\ (writer # NoEvent => writer \in spent.minted)
    /\ recorded \subseteq trail /\ clear \cap SecretFields = {}
    /\ purger.due \subseteq spent.minted /\ (writer # NoEvent => writer \notin purger.due)
    /\ \A e \in purger.due : e[1] = purger.tenant
    /\ purger.at = "purged" => purger.due \cap trail = {}

AuditInvariant == AuditTypes /\ ListingSound /\ TrailSound

LEMMA EventsAreDated ==
    /\ IsFiniteSet(AuditEvents) /\ ListSize \in Nat /\ ListSize # 0 /\ PurgeSize \in Nat /\ PurgeSize # 0
    /\ \A e \in AuditEvents : e[2] \in Nat /\ e[2] \in Int /\ e[2] > 0 /\ e[1] \in AuditTenants
    /\ \A e, d \in AuditEvents : e[1] = d[1] /\ e[2] = d[2] => e = d
<1>1. AuditEvents \subseteq AuditTenants \X (1 .. NewestId) /\ NewestId \in Nat BY AuditAssumption
<1>2. \A e \in AuditEvents : e[2] \in 1 .. NewestId /\ e[1] \in AuditTenants BY <1>1
<1>3. \A e \in AuditEvents : e[2] \in Nat /\ e[2] > 0 BY <1>1, <1>2
<1>4. ASSUME NEW e \in AuditEvents, NEW d \in AuditEvents, e[1] = d[1], e[2] = d[2] PROVE e = d
  <2>1. e \in AuditTenants \X (1 .. NewestId) /\ d \in AuditTenants \X (1 .. NewestId) BY <1>1
  <2> QED BY <1>4, <2>1
<1> QED BY <1>2, <1>3, <1>4, AuditAssumption

\* The events of one tenant, newest first and oldest first.
LEMMA NewestEvents ==
    ASSUME NEW S, S \subseteq AuditEvents, NEW tenant, \A e \in S : e[1] = tenant, NEW n \in Nat
    PROVE  /\ Newest(S, n) \subseteq S /\ IsFiniteSet(Newest(S, n))
           /\ Cardinality(Newest(S, n)) \in Nat /\ Cardinality(Newest(S, n)) <= n
           /\ \A e \in Newest(S, n), d \in S : d \notin Newest(S, n) => e[2] > d[2]
           /\ Cardinality(Newest(S, n)) # n => Newest(S, n) = S
<1>1. S \in SUBSET AuditEvents /\ IsFiniteSet(S) BY EventsAreDated, FS_Subset
<1>2. PICK rank : rank = [e \in S |-> 0 - e[2]] OBVIOUS
<1>3. \A e \in S : e[2] \in Int /\ rank[e] = 0 - e[2] /\ rank[e] \in Int BY <1>1, <1>2, EventsAreDated
<1>4. ASSUME NEW e \in S, NEW d \in S PROVE (rank[d] <= rank[e] <=> d[2] >= e[2]) /\ (rank[e] < rank[d] <=> e[2] > d[2])
  <2>1. e[2] \in Int /\ d[2] \in Int /\ rank[e] = 0 - e[2] /\ rank[d] = 0 - d[2] BY <1>3
  <2> QED BY <2>1
<1>5. ASSUME NEW e \in S, NEW d \in S, rank[e] = rank[d] PROVE e = d
  <2>1. e[2] = d[2] BY <1>3, <1>5
  <2> QED BY <1>1, <2>1, EventsAreDated
<1>6. Newest(S, n) = First(S, rank, n)
  <2>1. \A e \in S : {d \in S : rank[d] <= rank[e]} = {d \in S : d[2] >= e[2]} BY <1>4
  <2> QED BY <2>1 DEF Newest, First
<1>7. /\ First(S, rank, n) \subseteq S /\ IsFiniteSet(First(S, rank, n))
      /\ Cardinality(First(S, rank, n)) \in Nat /\ Cardinality(First(S, rank, n)) <= n
      /\ \A e \in First(S, rank, n), d \in S : d \notin First(S, rank, n) => rank[e] < rank[d]
      /\ Cardinality(First(S, rank, n)) # n => First(S, rank, n) = S
  BY <1>1, <1>3, <1>5, TheFirst
<1>8. \A e \in First(S, rank, n), d \in S : d \notin First(S, rank, n) => e[2] > d[2] BY <1>4, <1>7
<1> QED BY <1>6, <1>7, <1>8

LEMMA EarliestEvents ==
    ASSUME NEW S, S \subseteq AuditEvents, NEW tenant, \A e \in S : e[1] = tenant, NEW n \in Nat, n # 0, Earliest(S, n) = {}
    PROVE  S = {}
<1>1. S \in SUBSET AuditEvents /\ IsFiniteSet(S) BY EventsAreDated, FS_Subset
<1>2. PICK rank : rank = [e \in S |-> e[2]] OBVIOUS
<1>3. \A e \in S : rank[e] = e[2] /\ rank[e] \in Int BY <1>1, <1>2, EventsAreDated
<1>4. ASSUME NEW e \in S, NEW d \in S, rank[e] = rank[d] PROVE e = d
  <2>1. e[2] = d[2] BY <1>3, <1>4
  <2> QED BY <1>1, <2>1, EventsAreDated
<1>5. Earliest(S, n) = First(S, rank, n)
  <2>1. \A e \in S : {d \in S : rank[d] <= rank[e]} = {d \in S : d[2] <= e[2]} BY <1>3
  <2> QED BY <2>1 DEF Earliest, First
<1>6. Cardinality(First(S, rank, n)) # n => First(S, rank, n) = S BY <1>1, <1>3, <1>4, TheFirst
<1>7. Cardinality(First(S, rank, n)) = 0 BY <1>5, FS_EmptySet
<1> QED BY <1>5, <1>6, <1>7

LEMMA LastOfPage ==
    ASSUME NEW S, S \subseteq AuditEvents, S # {}
    PROVE  \E m \in S : LastId(S) = m[2] /\ \A d \in S : d[2] >= m[2]
<1>1. S \in SUBSET AuditEvents /\ IsFiniteSet(S) BY EventsAreDated, FS_Subset
<1>2. PICK rank : rank = [e \in S |-> 0 - e[2]] OBVIOUS
<1>3. \A e \in S : e[2] \in Int /\ rank[e] = 0 - e[2] /\ rank[e] \in Int BY <1>1, <1>2, EventsAreDated
<1>4. PICK m \in S : \A d \in S : rank[d] <= rank[m] BY <1>1, <1>3, OneIsLast
<1>5. ASSUME NEW d \in S PROVE d[2] >= m[2]
  <2>1. d[2] \in Int /\ m[2] \in Int /\ rank[d] = 0 - d[2] /\ rank[m] = 0 - m[2] /\ rank[d] <= rank[m] BY <1>3, <1>4
  <2> QED BY <2>1
<1>6. \E id \in {e[2] : e \in S} : \A d \in S : d[2] >= id BY <1>5
<1>7. LastId(S) \in {e[2] : e \in S} /\ \A d \in S : d[2] >= LastId(S) BY <1>6 DEF LastId
<1> QED BY <1>7

LEMMA ListingFields ==
    ASSUME AuditTypes
    PROVE  /\ listing.at \in {"idle", "reading", "listed", "InvalidStartKey"} /\ listing.tenant \in AuditTenants \cup {0}
           /\ listing.via \in {"table", "index", "memory"}
           /\ listing.low \in Nat /\ listing.high \in Nat /\ listing.last \in Nat /\ listing.count \in Nat /\ listing.round \in Nat
           /\ listing.seen \in Seq(SUBSET AuditEvents) /\ listing.due \in SUBSET AuditEvents
BY DEF AuditTypes, ListingRecord

LEMMA ListedEvents ==
    ASSUME AuditTypes
    PROVE  /\ Listed \subseteq AuditEvents
           /\ \A i \in DOMAIN listing.seen : listing.seen[i] \subseteq Listed
<1>1. PICK pages \in Seq(SUBSET AuditEvents) : pages = listing.seen BY ListingFields
<1>2. \A i \in DOMAIN pages : pages[i] \in SUBSET AuditEvents BY <1>1, ElementOfSeq, LenProperties
<1> QED BY <1>1, <1>2 DEF Listed

\* A listing that gave one more page, and what was due has been given or is behind
\* its cursor.
LEMMA ListingAdvances ==
    ASSUME AuditTypes, ListingSound, listing.at = "reading", UNCHANGED <<trail, indexed>>,
           NEW got \in SUBSET AuditEvents,
           listing' \in ListingRecord, listing'.at \in {"reading", "listed"},
           listing'.seen = Append(listing.seen, got), listing'.due = listing.due, listing'.tenant = listing.tenant,
           listing'.via = listing.via, listing'.low = listing.low, listing'.high = listing.high,
           \A e \in got : e[1] = listing.tenant /\ e[2] \in ByActor /\ e[2] < listing.last,
           listing'.at = "reading" =>
             listing'.count < ListSize /\ listing'.last <= listing.last /\ \A e \in got : e[2] >= listing'.last,
           \A e \in listing.due : e[2] < listing.last => e \in got \/ (listing'.at = "reading" /\ e[2] < listing'.last)
    PROVE  ListingSound'
<1>1. PICK pages \in Seq(SUBSET AuditEvents) : pages = listing.seen BY ListingFields
<1>2. PICK longer \in Seq(SUBSET AuditEvents) : longer = Append(pages, got) BY PagesAppend
<1>3. /\ DOMAIN longer = 1 .. Len(pages) + 1 /\ DOMAIN pages = 1 .. Len(pages) /\ Len(pages) \in Nat
      /\ \A i \in 1 .. Len(pages) : longer[i] = pages[i]
      /\ longer[Len(pages) + 1] = got
  BY <1>1, <1>2, PagesAppend
<1>4. \A r : r \in UNION {longer[i] : i \in DOMAIN longer} <=> r \in UNION {pages[i] : i \in DOMAIN pages} \/ r \in got
  BY <1>1, <1>2, PagesAppend
<1>5. listing'.seen = longer BY <1>1, <1>2
<1>6. \A r : r \in Listed' <=> r \in Listed \/ r \in got BY <1>1, <1>4, <1>5 DEF Listed
<1>7. \A e \in Listed' : e[1] = listing'.tenant /\ e[2] \in ByActor BY <1>6 DEF ListingSound
<1>8. Listed \subseteq AuditEvents /\ \A i \in DOMAIN pages : pages[i] \subseteq Listed BY <1>1, ListedEvents
<1>9. listing.last \in Nat /\ listing'.last \in Nat BY ListingFields DEF ListingRecord
<1>10. \A e \in Listed, d \in got : e[2] > d[2]
  <2>1. SUFFICES ASSUME NEW e \in Listed, NEW d \in got PROVE e[2] > d[2] OBVIOUS
  <2>2. e[2] >= listing.last /\ d[2] < listing.last BY DEF ListingSound
  <2>3. e[2] \in Int /\ d[2] \in Int BY <1>8, EventsAreDated
  <2> QED BY <1>9, <2>2, <2>3
<1>11. NewerFirst'
  <2>1. SUFFICES ASSUME NEW i \in DOMAIN longer, NEW j \in DOMAIN longer, i < j, NEW e \in longer[i], NEW d \in longer[j]
                 PROVE  e[2] > d[2]
    BY <1>5 DEF NewerFirst
  <2>2. i \in 1 .. Len(pages) + 1 /\ j \in 1 .. Len(pages) + 1 BY <1>3, <2>1
  <2>3. i \in 1 .. Len(pages) BY <1>3, <2>1, <2>2
  <2>4. e \in pages[i] /\ i \in DOMAIN pages BY <1>3, <2>1, <2>3
  <2>5. CASE j = Len(pages) + 1
    <3>1. e \in Listed /\ d \in got BY <1>3, <1>8, <2>1, <2>4, <2>5
    <3> QED BY <1>10, <3>1
  <2>6. CASE j # Len(pages) + 1
    <3>1. j \in 1 .. Len(pages) BY <1>3, <2>2, <2>6
    <3>2. d \in pages[j] /\ j \in DOMAIN pages BY <1>3, <2>1, <3>1
    <3>3. NewerFirst BY DEF ListingSound
    <3> QED BY <1>1, <2>1, <2>4, <3>2, <3>3 DEF NewerFirst
  <2> QED BY <2>5, <2>6
<1>12. \A e \in listing'.due : DueNow(e)'
  <2>1. \A e \in listing.due : DueNow(e) BY DEF ListingSound
  <2> QED BY <2>1 DEF DueNow, InTargetIndex, Within
<1>13. ASSUME listing'.at = "reading", NEW e \in Listed' PROVE e[2] >= listing'.last
  <2>1. CASE e \in got BY <1>13, <2>1
  <2>2. CASE e \in Listed
    <3>1. e[2] >= listing.last /\ listing'.last <= listing.last BY <1>13, <2>2 DEF ListingSound
    <3>2. e[2] \in Int BY <1>8, <2>2, EventsAreDated
    <3> QED BY <1>9, <3>1, <3>2
  <2> QED BY <1>6, <1>13, <2>1, <2>2
<1>14. \A e \in listing.due : e \in Listed \/ e[2] < listing.last BY DEF ListingSound
<1>15. \A e \in listing'.due : e \in Listed' \/ (listing'.at = "reading" /\ e[2] < listing'.last) BY <1>6, <1>14
<1>16. listing'.at # "idle" OBVIOUS
<1>17. listing'.at = "listed" => listing'.due \subseteq Listed' BY <1>15
<1> QED BY <1>7, <1>11, <1>12, <1>13, <1>15, <1>16, <1>17 DEF ListingSound

LEMMA CoveredEvents ==
    ASSUME AuditTypes
    PROVE  /\ Covered(listing) \subseteq AuditEvents
           /\ \A e \in Covered(listing) : e[1] = listing.tenant
           /\ \A e : DueNow(e) => e \in Covered(listing) /\ MatchesQuery(e, listing)
<1>1. trail \in SUBSET AuditEvents /\ indexed \in SUBSET AuditEvents BY DEF AuditTypes
<1>2. Covered(listing) \subseteq AuditEvents /\ \A e \in Covered(listing) : e[1] = listing.tenant BY <1>1 DEF Covered
<1>3. ASSUME NEW e, DueNow(e) PROVE e \in Covered(listing) /\ MatchesQuery(e, listing)
  <2>1. MatchesQuery(e, listing) BY <1>3 DEF DueNow, MatchesQuery
  <2>2. PICK source : source = IF listing.via = "index" THEN indexed ELSE trail OBVIOUS
  <2>3. e \in source /\ e[1] = listing.tenant /\ Within(e[2], listing.low, listing.high)
        /\ (listing.via = "index" => InTargetIndex(e))
    BY <1>3, <2>2 DEF DueNow
  <2>4. Covered(listing) = {d \in source : /\ d[1] = listing.tenant /\ Within(d[2], listing.low, listing.high)
                                           /\ listing.via = "index" => InTargetIndex(d)}
    BY <2>2 DEF Covered
  <2> QED BY <2>1, <2>3, <2>4
<1> QED BY <1>2, <1>3

\* A listing keeps its fields but for the page, the cursor and the counts of its rounds.
LEMMA OnePage ==
    ASSUME AuditTypes, NEW got \in SUBSET AuditEvents, NEW last \in Nat, NEW at \in {"reading", "listed"},
           NEW count \in Nat, NEW round \in Nat,
           listing' = [listing EXCEPT !.seen = Append(@, got), !.last = last, !.at = at, !.count = count, !.round = round]
    PROVE  /\ listing' \in ListingRecord /\ listing'.at = at /\ listing'.last = last /\ listing'.count = count
           /\ listing'.seen = Append(listing.seen, got) /\ listing'.due = listing.due /\ listing'.tenant = listing.tenant
           /\ listing'.via = listing.via /\ listing'.low = listing.low /\ listing'.high = listing.high
<1>1. PICK longer \in Seq(SUBSET AuditEvents) : longer = Append(listing.seen, got) BY ListingFields, PagesAppend
<1>2. listing \in ListingRecord BY DEF AuditTypes
<1>3. listing' = [listing EXCEPT !.seen = longer, !.last = last, !.at = at, !.count = count, !.round = round] BY <1>1, <1>2 DEF ListingRecord
<1>4. listing' \in ListingRecord BY <1>1, <1>2, <1>3, ZenonT(60) DEF ListingRecord
<1>5. /\ listing'.at = at /\ listing'.last = last /\ listing'.count = count
      /\ listing'.seen = longer /\ listing'.due = listing.due /\ listing'.tenant = listing.tenant
      /\ listing'.via = listing.via /\ listing'.low = listing.low /\ listing'.high = listing.high
  BY <1>2, <1>3, ZenonT(60) DEF ListingRecord
<1> QED BY <1>1, <1>4, <1>5

\* A page takes the newest of what is behind the cursor.
LEMMA PageTakesTheNewest ==
    ASSUME AuditTypes, ListingSound, NEW S, S \subseteq {e \in Covered(listing) : e[2] < listing.last}, NEW limit \in Nat
    PROVE  /\ Newest(S, limit) \in SUBSET AuditEvents /\ Cardinality(Newest(S, limit)) \in Nat
           /\ Cardinality(Newest(S, limit)) <= limit
           /\ \A e \in Newest(S, limit) : e \in S /\ e[1] = listing.tenant /\ e[2] < listing.last
           /\ Cardinality(Newest(S, limit)) # limit => Newest(S, limit) = S
           /\ Newest(S, limit) # {} =>
                /\ LastId(Newest(S, limit)) \in Nat /\ LastId(Newest(S, limit)) < listing.last
                /\ \A e \in Newest(S, limit) : e[2] >= LastId(Newest(S, limit))
                /\ \A e \in S : e \in Newest(S, limit) \/ e[2] < LastId(Newest(S, limit))
<1>1. S \subseteq AuditEvents /\ \A e \in S : e[1] = listing.tenant BY CoveredEvents
<1>2. PICK read : read = Newest(S, limit) OBVIOUS
<1>3. /\ read \subseteq S /\ Cardinality(read) \in Nat /\ Cardinality(read) <= limit
      /\ \A e \in read, d \in S : d \notin read => e[2] > d[2]
      /\ Cardinality(read) # limit => read = S
  BY <1>1, <1>2, NewestEvents
<1>4. read \subseteq AuditEvents BY <1>1, <1>3
<1>5. ASSUME read # {}
      PROVE  /\ LastId(read) \in Nat /\ LastId(read) < listing.last
             /\ \A e \in read : e[2] >= LastId(read)
             /\ \A e \in S : e \in read \/ e[2] < LastId(read)
  <2>1. PICK m \in read : LastId(read) = m[2] /\ \A d \in read : d[2] >= m[2] BY <1>4, <1>5, LastOfPage
  <2>2. m[2] \in Nat /\ m[2] < listing.last BY <1>3, <1>4, EventsAreDated
  <2>3. ASSUME NEW e \in S, e \notin read PROVE e[2] < m[2]
    <3>1. m[2] > e[2] /\ e[2] \in Int /\ m[2] \in Int BY <1>1, <1>3, <2>2, <2>3, EventsAreDated
    <3> QED BY <3>1
  <2> QED BY <2>1, <2>2, <2>3
<1> QED BY <1>1, <1>2, <1>3, <1>4, <1>5

LEMMA ListRoundKeeps ==
    ASSUME AuditTypes, ListingSound, ListRound
    PROVE  listing' \in ListingRecord /\ ListingSound'
<1>1. PICK limit : limit = ListSize - listing.count OBVIOUS
<1>2. PICK S : S = {e \in Covered(listing) : e[2] < listing.last} OBVIOUS
<1>3. PICK read : read = Newest(S, limit) OBVIOUS
<1>4. PICK kept : kept = {e \in read : MatchesQuery(e, listing)} OBVIOUS
<1>5. listing.at = "reading" /\ UNCHANGED <<trail, indexed>> BY DEF ListRound
<1>6. limit \in Nat /\ limit # 0 /\ limit + listing.count = ListSize
  <2>1. listing.count \in Nat /\ ListSize \in Nat /\ listing.count < ListSize BY <1>5, ListingFields, EventsAreDated DEF ListingSound
  <2> QED BY <1>1, <2>1
<1>7. /\ read \in SUBSET AuditEvents /\ Cardinality(read) \in Nat
      /\ \A e \in read : e \in S /\ e[1] = listing.tenant /\ e[2] < listing.last
      /\ Cardinality(read) # limit => read = S
      /\ read # {} =>
           /\ LastId(read) \in Nat /\ LastId(read) < listing.last
           /\ \A e \in read : e[2] >= LastId(read)
           /\ \A e \in S : e \in read \/ e[2] < LastId(read)
  BY <1>2, <1>3, <1>6, PageTakesTheNewest
<1>8. kept \in SUBSET AuditEvents /\ Cardinality(kept) \in Nat
  <2>1. kept \in SUBSET AuditEvents BY <1>4, <1>7
  <2>2. IsFiniteSet(kept) BY <2>1, EventsAreDated, FS_Subset
  <2> QED BY <2>1, <2>2, FS_CardinalityType
<1>9. Cardinality(read) = limit => read # {} BY <1>6, FS_EmptySet
<1>10. PICK last : last = IF Cardinality(read) = limit THEN LastId(read) ELSE 0 OBVIOUS
<1>11. PICK at : at = IF Cardinality(read) = limit THEN "reading" ELSE "listed" OBVIOUS
<1>12. PICK count : count = IF PageIsAnswered(listing, kept) THEN 0 ELSE listing.count + Cardinality(kept) OBVIOUS
<1>13. PICK round : round = IF PageIsAnswered(listing, kept) THEN 1 ELSE listing.round + 1 OBVIOUS
<1>14. last \in Nat /\ at \in {"reading", "listed"} BY <1>7, <1>9, <1>10, <1>11
<1>15. count \in Nat /\ count < ListSize
  <2>1. ListSize \in Nat /\ ListSize # 0 /\ listing.count \in Nat BY ListingFields, EventsAreDated
  <2>2. ~PageIsAnswered(listing, kept) => ~(listing.count + Cardinality(kept) >= ListSize) BY DEF PageIsAnswered
  <2>3. CASE PageIsAnswered(listing, kept) BY <1>12, <2>1, <2>3
  <2>4. CASE ~PageIsAnswered(listing, kept)
    <3>1. PICK c \in Nat : c = Cardinality(kept) BY <1>8
    <3> QED BY <1>12, <2>1, <2>2, <2>4, <3>1
  <2> QED BY <2>3, <2>4
<1>16. round \in Nat BY <1>13, ListingFields
<1>17. listing' = [listing EXCEPT !.seen = Append(@, kept), !.last = last, !.at = at, !.count = count, !.round = round]
  <2>1. listing \in ListingRecord BY DEF AuditTypes
  <2>2. listing.count \in Nat /\ listing.round \in Nat BY ListingFields
  <2> QED BY <1>1, <1>2, <1>3, <1>4, <1>10, <1>11, <1>12, <1>13, <2>1, ZenonT(60) DEF ListRound, ListingRecord
<1>18. /\ listing' \in ListingRecord /\ listing'.at = at /\ listing'.last = last /\ listing'.count = count
       /\ listing'.seen = Append(listing.seen, kept) /\ listing'.due = listing.due /\ listing'.tenant = listing.tenant
       /\ listing'.via = listing.via /\ listing'.low = listing.low /\ listing'.high = listing.high
  BY <1>8, <1>14, <1>15, <1>16, <1>17, OnePage, ZenonT(60)
<1>19. \A e \in kept : e[1] = listing.tenant /\ e[2] \in ByActor /\ e[2] < listing.last BY <1>4, <1>7 DEF MatchesQuery
<1>20. ASSUME at = "reading" PROVE last <= listing.last /\ \A e \in kept : e[2] >= last
  <2>1. Cardinality(read) = limit /\ last = LastId(read) BY <1>10, <1>11, <1>20
  <2>2. last < listing.last /\ \A e \in read : e[2] >= last BY <1>7, <1>9, <2>1
  <2>3. last \in Nat /\ listing.last \in Nat BY <1>14, ListingFields
  <2> QED BY <1>4, <2>2, <2>3
<1>21. ASSUME NEW e \in listing.due, e[2] < listing.last PROVE e \in kept \/ (at = "reading" /\ e[2] < last)
  <2>1. e \in S /\ MatchesQuery(e, listing)
    <3>1. DueNow(e) BY DEF ListingSound
    <3> QED BY <1>2, <1>21, <3>1, CoveredEvents
  <2>2. CASE Cardinality(read) = limit BY <1>4, <1>7, <1>9, <1>10, <1>11, <2>1, <2>2
  <2>3. CASE Cardinality(read) # limit BY <1>4, <1>7, <2>1, <2>3
  <2> QED BY <2>2, <2>3
<1>22. ListingSound' BY <1>5, <1>8, <1>14, <1>15, <1>18, <1>19, <1>20, <1>21, ListingAdvances
<1> QED BY <1>18, <1>22

LEMMA MemoryPageKeeps ==
    ASSUME AuditTypes, ListingSound, MemoryPage
    PROVE  listing' \in ListingRecord /\ ListingSound'
<1>1. PICK S : S = {e \in Covered(listing) : e[2] < listing.last /\ MatchesQuery(e, listing)} OBVIOUS
<1>2. PICK page : page = Newest(S, ListSize) OBVIOUS
<1>3. listing.at = "reading" /\ UNCHANGED <<trail, indexed>> BY DEF MemoryPage
<1>4. S \subseteq {e \in Covered(listing) : e[2] < listing.last} BY <1>1
<1>5. /\ page \in SUBSET AuditEvents /\ Cardinality(page) \in Nat /\ Cardinality(page) <= ListSize
      /\ \A e \in page : e \in S /\ e[1] = listing.tenant /\ e[2] < listing.last
      /\ Cardinality(page) # ListSize => page = S
      /\ page # {} =>
           /\ LastId(page) \in Nat /\ LastId(page) < listing.last
           /\ \A e \in page : e[2] >= LastId(page)
           /\ \A e \in S : e \in page \/ e[2] < LastId(page)
  BY <1>2, <1>4, EventsAreDated, PageTakesTheNewest
<1>6. S \in SUBSET AuditEvents /\ IsFiniteSet(S) /\ Cardinality(S) \in Nat
  <2>1. S \in SUBSET AuditEvents BY <1>1, CoveredEvents
  <2>2. IsFiniteSet(S) BY <2>1, EventsAreDated, FS_Subset
  <2> QED BY <2>1, <2>2, FS_CardinalityType
<1>7. Cardinality(S) > ListSize => page # {}
  <2>1. page = S => ~(Cardinality(S) > ListSize)
    <3>1. PICK c \in Nat : c = Cardinality(S) BY <1>6
    <3>2. PICK size \in Nat : size = ListSize BY EventsAreDated
    <3> QED BY <1>5, <3>1, <3>2
  <2>2. page = {} => Cardinality(page) # ListSize BY FS_EmptySet, EventsAreDated
  <2> QED BY <1>5, <2>1, <2>2
<1>8. ~(Cardinality(S) > ListSize) => page = S
  <2>1. SUFFICES ASSUME ~(Cardinality(S) > ListSize), Cardinality(page) = ListSize PROVE page = S BY <1>5
  <2>2. page \in SUBSET S BY <1>5
  <2>3. Cardinality(page) <= Cardinality(S) /\ (Cardinality(page) = Cardinality(S) => page = S) BY <1>6, <2>2, FS_Subset
  <2>4. PICK c \in Nat : c = Cardinality(S) BY <1>6
  <2>5. PICK size \in Nat : size = ListSize BY EventsAreDated
  <2>6. c = size BY <2>1, <2>3, <2>4, <2>5
  <2> QED BY <2>1, <2>3, <2>4, <2>5, <2>6
<1>9. PICK last : last = IF Cardinality(S) > ListSize THEN LastId(page) ELSE 0 OBVIOUS
<1>10. PICK at : at = IF Cardinality(S) > ListSize THEN "reading" ELSE "listed" OBVIOUS
<1>11. last \in Nat /\ at \in {"reading", "listed"} BY <1>5, <1>7, <1>9, <1>10
<1>12. listing.count \in Nat /\ listing.round \in Nat /\ listing.count < ListSize BY <1>3, ListingFields DEF ListingSound
<1>13. listing' = [listing EXCEPT !.seen = Append(@, page), !.last = last, !.at = at,
                                  !.count = listing.count, !.round = listing.round]
  <2>1. listing \in ListingRecord BY DEF AuditTypes
  <2>2. listing' = [listing EXCEPT !.seen = Append(@, page), !.last = last, !.at = at] BY <1>1, <1>2, <1>9, <1>10 DEF MemoryPage
  <2> QED BY <2>1, <2>2, ZenonT(60) DEF ListingRecord
<1>14. /\ listing' \in ListingRecord /\ listing'.at = at /\ listing'.last = last /\ listing'.count = listing.count
       /\ listing'.seen = Append(listing.seen, page) /\ listing'.due = listing.due /\ listing'.tenant = listing.tenant
       /\ listing'.via = listing.via /\ listing'.low = listing.low /\ listing'.high = listing.high
  BY <1>5, <1>11, <1>12, <1>13, OnePage, ZenonT(60)
<1>15. \A e \in page : e[1] = listing.tenant /\ e[2] \in ByActor /\ e[2] < listing.last BY <1>1, <1>5 DEF MatchesQuery
<1>16. ASSUME at = "reading" PROVE last <= listing.last /\ \A e \in page : e[2] >= last
  <2>1. Cardinality(S) > ListSize /\ last = LastId(page) BY <1>9, <1>10, <1>16
  <2>2. last < listing.last /\ \A e \in page : e[2] >= last BY <1>5, <1>7, <2>1
  <2>3. last \in Nat /\ listing.last \in Nat BY <1>11, ListingFields
  <2> QED BY <2>2, <2>3
<1>17. ASSUME NEW e \in listing.due, e[2] < listing.last PROVE e \in page \/ (at = "reading" /\ e[2] < last)
  <2>1. e \in S
    <3>1. DueNow(e) BY DEF ListingSound
    <3> QED BY <1>1, <1>17, <3>1, CoveredEvents
  <2>2. CASE Cardinality(S) > ListSize BY <1>5, <1>7, <1>9, <1>10, <2>1, <2>2
  <2>3. CASE ~(Cardinality(S) > ListSize) BY <1>8, <2>1, <2>3
  <2> QED BY <2>2, <2>3
<1>18. ListingSound' BY <1>3, <1>5, <1>11, <1>12, <1>14, <1>15, <1>16, <1>17, ListingAdvances
<1> QED BY <1>14, <1>18

LEMMA DueOfListing ==
    ASSUME AuditTypes, NEW l \in ListingRecord, NEW e \in DueOf(l)
    PROVE  /\ e \in AuditEvents /\ e \in trail /\ (l.via = "index" => e \in indexed /\ InTargetIndex(e))
           /\ e[1] = l.tenant /\ Within(e[2], l.low, l.high) /\ e[2] \in ByActor /\ e[2] < l.last
<1>1. PICK source : source = IF l.via = "index" THEN indexed ELSE trail OBVIOUS
<1>2. Covered(l) = {d \in source : /\ d[1] = l.tenant /\ Within(d[2], l.low, l.high)
                                   /\ l.via = "index" => InTargetIndex(d)}
  BY <1>1 DEF Covered
<1>3. e \in Covered(l) /\ MatchesQuery(e, l) /\ e[2] < l.last /\ (l.via = "index" => e \in trail) BY DEF DueOf
<1>4. e \in source /\ e[1] = l.tenant /\ Within(e[2], l.low, l.high) /\ (l.via = "index" => InTargetIndex(e)) BY <1>2, <1>3
<1>5. e \in trail /\ (l.via = "index" => e \in indexed)
  <2>1. CASE l.via = "index" BY <1>1, <1>3, <1>4, <2>1
  <2>2. CASE l.via # "index" BY <1>1, <1>4, <2>2
  <2> QED BY <2>1, <2>2
<1>6. e \in AuditEvents BY <1>5 DEF AuditTypes
<1>7. e[2] \in ByActor BY <1>3 DEF MatchesQuery
<1> QED BY <1>3, <1>4, <1>5, <1>6, <1>7

\* A listing that begins, or goes on in another range, owes what is behind its cursor.
LEMMA ListingOwes ==
    ASSUME AuditTypes, ListingSound, listing.at \in {"idle", "reading"}, UNCHANGED <<trail, indexed>>,
           NEW l \in ListingRecord, l.at = "reading", l.last = listing.last, l.count = listing.count, l.seen = listing.seen,
           l.tenant = listing.tenant \/ listing.at = "idle",
           listing' = [l EXCEPT !.due = DueOf(l)]
    PROVE  listing' \in ListingRecord /\ ListingSound'
<1>1. PICK due : due = DueOf(l) OBVIOUS
<1>2. \A e \in due : /\ e \in AuditEvents /\ e \in trail /\ (l.via = "index" => e \in indexed /\ InTargetIndex(e))
                     /\ e[1] = l.tenant /\ Within(e[2], l.low, l.high) /\ e[2] \in ByActor /\ e[2] < l.last
  BY <1>1, DueOfListing
<1>3. due \in SUBSET AuditEvents BY <1>2
<1>4. /\ listing' \in ListingRecord /\ listing'.at = "reading" /\ listing'.last = listing.last /\ listing'.count = listing.count
      /\ listing'.seen = listing.seen /\ listing'.due = due /\ listing'.tenant = l.tenant
      /\ listing'.via = l.via /\ listing'.low = l.low /\ listing'.high = l.high
  BY <1>1, <1>3 DEF ListingRecord
<1>5. Listed' = Listed BY <1>4 DEF Listed
<1>6. NewerFirst' BY <1>4 DEF ListingSound, NewerFirst
<1>7. \A e \in listing'.due : DueNow(e)' BY <1>2, <1>4 DEF DueNow, InTargetIndex, Within
<1>8. \A e \in Listed' : e[1] = listing'.tenant /\ e[2] \in ByActor BY <1>4, <1>5 DEF ListingSound
<1>9. listing'.count < ListSize
  <2>1. CASE listing.at = "idle" BY <1>4, <2>1, EventsAreDated DEF ListingSound
  <2>2. CASE listing.at = "reading" BY <1>4, <2>2 DEF ListingSound
  <2> QED BY <2>1, <2>2
<1>10. \A e \in Listed' : e[2] >= listing'.last
  <2>1. CASE listing.at = "idle" BY <1>5, <2>1 DEF ListingSound
  <2>2. CASE listing.at = "reading" BY <1>4, <1>5, <2>2 DEF ListingSound
  <2> QED BY <2>1, <2>2
<1>11. \A e \in listing'.due : e[2] < listing'.last BY <1>2, <1>4
<1> QED BY <1>4, <1>6, <1>7, <1>8, <1>9, <1>10, <1>11 DEF ListingSound

LEMMA StartListingKeeps ==
    ASSUME AuditTypes, ListingSound, NEW tenant \in AuditTenants, NEW via \in {"table", "index", "memory"},
           NEW low \in Floors, NEW high \in Floors, StartListing(tenant, via, low, high)
    PROVE  listing' \in ListingRecord /\ ListingSound'
<1>1. PICK l : l = [listing EXCEPT !.at = "reading", !.tenant = tenant, !.via = via, !.low = low, !.high = high] OBVIOUS
<1>2. low \in Nat /\ high \in Nat BY AuditAssumption
<1>3. listing \in ListingRecord BY DEF AuditTypes
<1>4. l \in ListingRecord /\ l.at = "reading" /\ l.last = listing.last /\ l.count = listing.count /\ l.seen = listing.seen
  BY <1>1, <1>2, <1>3 DEF ListingRecord
<1>5. listing.at = "idle" /\ UNCHANGED <<trail, indexed>> /\ listing' = [l EXCEPT !.due = DueOf(l)] BY <1>1 DEF StartListing
<1> QED BY <1>4, <1>5, ListingOwes

LEMMA ResumeKeeps ==
    ASSUME AuditTypes, ListingSound, NEW low \in Floors, NEW high \in Floors, Resume(low, high)
    PROVE  listing' \in ListingRecord /\ ListingSound'
<1>1. PICK l : l = [listing EXCEPT !.low = low, !.high = high] OBVIOUS
<1>2. low \in Nat /\ high \in Nat BY AuditAssumption
<1>3. listing \in ListingRecord BY DEF AuditTypes
<1>4. listing.at = "reading" /\ UNCHANGED <<trail, indexed>> BY DEF Resume
<1>5. /\ l \in ListingRecord /\ l.at = "reading" /\ l.last = listing.last /\ l.count = listing.count /\ l.seen = listing.seen
      /\ l.tenant = listing.tenant
  BY <1>1, <1>2, <1>3, <1>4 DEF ListingRecord
<1>6. CASE Within(listing.last, low, high)
  <2>1. listing' = [l EXCEPT !.due = DueOf(l)] BY <1>1, <1>6 DEF Resume
  <2> QED BY <1>4, <1>5, <2>1, ListingOwes
<1>7. CASE ~Within(listing.last, low, high)
  <2>1. listing' = [listing EXCEPT !.at = "InvalidStartKey"] BY <1>7 DEF Resume
  <2>2. /\ listing' \in ListingRecord /\ listing'.at = "InvalidStartKey" /\ listing'.seen = listing.seen /\ listing'.due = listing.due
        /\ listing'.tenant = listing.tenant /\ listing'.via = listing.via /\ listing'.low = listing.low /\ listing'.high = listing.high
    BY <1>3, <2>1 DEF ListingRecord
  <2>3. Listed' = Listed BY <2>2 DEF Listed
  <2>4. NewerFirst' BY <2>2 DEF ListingSound, NewerFirst
  <2>5. \A e \in listing'.due : DueNow(e)' BY <1>4, <2>2 DEF ListingSound, DueNow, InTargetIndex, Within
  <2> QED BY <2>2, <2>3, <2>4, <2>5 DEF ListingSound
<1> QED BY <1>6, <1>7

\* Events that come and go beside a listing: it owes no more than it did, and only what
\* is still there.
LEMMA ListingOwesLess ==
    ASSUME AuditTypes, ListingSound, NEW due \in SUBSET listing.due, listing' = [listing EXCEPT !.due = due],
           \A e \in due : e \in trail' /\ (e \in indexed => e \in indexed')
    PROVE  listing' \in ListingRecord /\ ListingSound'
<1>1. listing \in ListingRecord BY DEF AuditTypes
<1>2. due \in SUBSET AuditEvents BY ListingFields
<1>3. /\ listing' \in ListingRecord /\ listing'.at = listing.at /\ listing'.last = listing.last /\ listing'.count = listing.count
      /\ listing'.seen = listing.seen /\ listing'.due = due /\ listing'.tenant = listing.tenant
      /\ listing'.via = listing.via /\ listing'.low = listing.low /\ listing'.high = listing.high
  BY <1>1, <1>2 DEF ListingRecord
<1>4. Listed' = Listed BY <1>3 DEF Listed
<1>5. NewerFirst' BY <1>3 DEF ListingSound, NewerFirst
<1>6. \A e \in listing'.due : DueNow(e)'
  <2>1. \A e \in due : DueNow(e) BY DEF ListingSound
  <2> QED BY <1>3, <2>1 DEF DueNow, InTargetIndex, Within
<1> QED BY <1>3, <1>4, <1>5, <1>6 DEF ListingSound

\* A listing nobody moves, while events are put and indexed.
LEMMA ListingWaits ==
    ASSUME AuditTypes, ListingSound, UNCHANGED listing, trail \subseteq trail',
           \A e \in trail : e \in indexed => e \in indexed'
    PROVE  ListingSound'
<1>1. listing \in ListingRecord BY DEF AuditTypes
<1>2. Listed' = Listed BY DEF Listed
<1>3. NewerFirst' BY DEF ListingSound, NewerFirst
<1>4. \A e \in listing'.due : DueNow(e)'
  <2>1. \A e \in listing.due : DueNow(e) BY DEF ListingSound
  <2> QED BY <2>1 DEF DueNow, InTargetIndex, Within
<1> QED BY <1>2, <1>3, <1>4 DEF ListingSound

LEMMA TrailFields ==
    ASSUME AuditTypes
    PROVE  /\ purger.at \in {"idle", "reading", "purged", "died"} /\ purger.tenant \in AuditTenants \cup {0}
           /\ purger.todo \in SUBSET AuditEvents /\ purger.due \in SUBSET AuditEvents
           /\ spent.minted \in SUBSET AuditEvents /\ spent.records \in Nat /\ spent.faults \in Nat
BY DEF AuditTypes, PurgerRecord

LEMMA RecordKeeps ==
    ASSUME AuditInvariant, NEW e \in AuditEvents, NEW payload, Record(e, payload)
    PROVE  AuditInvariant'
<1>1. AuditTypes /\ ListingSound /\ TrailSound BY DEF AuditInvariant
<1>2. UNCHANGED <<trail, indexed, listing, purger, recorded>> /\ writer' = e /\ e \notin spent.minted BY DEF Record
<1>3. spent' \in [minted : SUBSET AuditEvents, records : Nat, faults : Nat] /\ spent'.minted = spent.minted \cup {e}
  <2>1. PICK m \in SUBSET AuditEvents : m = spent.minted \cup {e} BY <1>1, TrailFields
  <2>2. PICK n \in Nat : n = spent.records + 1 BY <1>1, TrailFields
  <2>3. spent \in [minted : SUBSET AuditEvents, records : Nat, faults : Nat] BY <1>1 DEF AuditTypes
  <2>4. spent' = [spent EXCEPT !.records = n, !.minted = m] BY <2>1, <2>2, <2>3 DEF Record
  <2> QED BY <2>1, <2>3, <2>4
<1>4. AuditTypes' BY <1>1, <1>2, <1>3 DEF AuditTypes
<1>5. ListingSound' BY <1>1, <1>2, ListingWaits
<1>6. clear' \cap SecretFields = {}
  <2>1. clear \cap SecretFields = {} BY <1>1 DEF TrailSound
  <2>2. clear' = clear \cup BuildEvent(payload) BY DEF Record
  <2> QED BY <2>1, <2>2 DEF BuildEvent, Scrubbed
<1>7. TrailSound' BY <1>1, <1>2, <1>3, <1>6 DEF TrailSound
<1> QED BY <1>4, <1>5, <1>7 DEF AuditInvariant

LEMMA PutEventKeeps ==
    ASSUME AuditInvariant, NEW answered \in BOOLEAN, PutEvent(answered)
    PROVE  AuditInvariant'
<1>1. AuditTypes /\ ListingSound /\ TrailSound BY DEF AuditInvariant
<1>2. /\ UNCHANGED <<indexed, listing, purger, clear>> /\ writer # NoEvent /\ trail' = trail \cup {writer}
      /\ recorded' = (IF answered /\ writer \notin trail THEN recorded \cup {writer} ELSE recorded)
      /\ writer' = (IF answered THEN NoEvent ELSE writer)
  BY DEF PutEvent
<1>3. writer \in AuditEvents BY <1>1, <1>2 DEF AuditTypes
<1>4. spent' \in [minted : SUBSET AuditEvents, records : Nat, faults : Nat] /\ spent'.minted = spent.minted
  <2>1. PICK n \in Nat : n = spent.faults + 1 BY <1>1, TrailFields
  <2>2. spent \in [minted : SUBSET AuditEvents, records : Nat, faults : Nat] BY <1>1 DEF AuditTypes
  <2>3. CASE answered BY <2>2, <2>3 DEF PutEvent
  <2>4. CASE ~answered
    <3>1. spent' = [spent EXCEPT !.faults = n] BY <2>1, <2>2, <2>4 DEF PutEvent
    <3> QED BY <2>1, <2>2, <3>1
  <2> QED BY <2>3, <2>4
<1>5. trail' \in SUBSET AuditEvents /\ recorded' \in SUBSET AuditEvents /\ writer' \in AuditEvents \cup {NoEvent}
  BY <1>1, <1>2, <1>3 DEF AuditTypes
<1>6. AuditTypes' BY <1>1, <1>2, <1>4, <1>5 DEF AuditTypes
<1>7. ListingSound' BY <1>1, <1>2, ListingWaits
<1>8. recorded' \subseteq trail' BY <1>1, <1>2 DEF TrailSound
<1>9. trail' \subseteq spent'.minted /\ (writer' # NoEvent => writer' \in spent'.minted) BY <1>1, <1>2, <1>4 DEF TrailSound
<1>10. (writer' # NoEvent => writer' \notin purger'.due) /\ (purger'.at = "purged" => purger'.due \cap trail' = {})
  BY <1>1, <1>2 DEF TrailSound
<1>11. TrailSound' BY <1>1, <1>2, <1>4, <1>8, <1>9, <1>10 DEF TrailSound
<1> QED BY <1>6, <1>7, <1>11 DEF AuditInvariant

LEMMA StoreRefusesKeeps ==
    ASSUME AuditInvariant, StoreRefuses
    PROVE  AuditInvariant'
<1>1. AuditTypes /\ ListingSound /\ TrailSound BY DEF AuditInvariant
<1>2. writer' = NoEvent /\ UNCHANGED <<trail, indexed, listing, purger, clear, recorded, spent>> BY DEF StoreRefuses
<1>3. AuditTypes' BY <1>1, <1>2 DEF AuditTypes
<1>4. ListingSound' BY <1>1, <1>2, ListingWaits
<1>5. TrailSound' BY <1>1, <1>2 DEF TrailSound
<1> QED BY <1>3, <1>4, <1>5 DEF AuditInvariant

LEMMA IndexRowKeeps ==
    ASSUME AuditInvariant, NEW e \in AuditEvents, IndexRow(e)
    PROVE  AuditInvariant'
<1>1. AuditTypes /\ ListingSound /\ TrailSound BY DEF AuditInvariant
<1>2. /\ UNCHANGED <<trail, writer, listing, purger, clear, recorded, spent>>
      /\ indexed' = (IF e \in trail THEN indexed \cup {e} ELSE indexed \ {e})
  BY DEF IndexRow
<1>3. indexed' \in SUBSET AuditEvents BY <1>1, <1>2 DEF AuditTypes
<1>4. AuditTypes' BY <1>1, <1>2, <1>3 DEF AuditTypes
<1>5. \A d \in trail : d \in indexed => d \in indexed' BY <1>2
<1>6. ListingSound' BY <1>1, <1>2, <1>5, ListingWaits
<1>7. TrailSound' BY <1>1, <1>2 DEF TrailSound
<1> QED BY <1>4, <1>6, <1>7 DEF AuditInvariant

\* A row that is gone is owed to no reader, and owes no purge.
LEMMA GoneKeeps ==
    ASSUME AuditInvariant, NEW e \in AuditEvents, Gone(e), UNCHANGED <<indexed, writer, clear>>,
           spent' \in [minted : SUBSET AuditEvents, records : Nat, faults : Nat], spent'.minted = spent.minted,
           purger' \in PurgerRecord, purger'.at = purger.at, purger'.tenant = purger.tenant, purger'.due = purger.due
    PROVE  AuditInvariant'
<1>1. AuditTypes /\ ListingSound /\ TrailSound BY DEF AuditInvariant
<1>2. trail' = trail \ {e} /\ recorded' = recorded \ {e} /\ listing' = [listing EXCEPT !.due = @ \ {e}] BY DEF Gone
<1>3. PICK due \in SUBSET listing.due : due = listing.due \ {e} OBVIOUS
<1>4. listing' = [listing EXCEPT !.due = due]
  <2>1. listing \in ListingRecord BY <1>1 DEF AuditTypes
  <2> QED BY <1>2, <1>3, <2>1 DEF ListingRecord
<1>5. \A d \in due : d \in trail' /\ (d \in indexed => d \in indexed')
  <2>1. \A d \in listing.due : d \in trail BY <1>1 DEF ListingSound, DueNow
  <2> QED BY <1>2, <1>3, <2>1
<1>6. listing' \in ListingRecord /\ ListingSound' BY <1>1, <1>4, <1>5, ListingOwesLess
<1>7. trail' \in SUBSET AuditEvents /\ recorded' \in SUBSET AuditEvents BY <1>1, <1>2 DEF AuditTypes
<1>8. AuditTypes' BY <1>1, <1>6, <1>7 DEF AuditTypes
<1>9. recorded' \subseteq trail' /\ trail' \subseteq spent'.minted BY <1>1, <1>2 DEF TrailSound
<1>10. purger'.at = "purged" => purger'.due \cap trail' = {} BY <1>1, <1>2 DEF TrailSound
<1>11. TrailSound' BY <1>1, <1>9, <1>10 DEF TrailSound
<1> QED BY <1>6, <1>8, <1>11 DEF AuditInvariant

LEMMA ExpireEventKeeps ==
    ASSUME AuditInvariant, NEW e \in AuditEvents, ExpireEvent(e)
    PROVE  AuditInvariant'
<1>1. AuditTypes BY DEF AuditInvariant
<1>2. Gone(e) /\ UNCHANGED <<indexed, writer, purger, clear>> BY DEF ExpireEvent
<1>3. PICK n \in Nat : n = spent.faults + 1 BY <1>1, TrailFields
<1>4. spent \in [minted : SUBSET AuditEvents, records : Nat, faults : Nat] /\ purger \in PurgerRecord BY <1>1 DEF AuditTypes
<1>5. spent' = [spent EXCEPT !.faults = n] BY <1>3, <1>4 DEF ExpireEvent
<1>6. spent' \in [minted : SUBSET AuditEvents, records : Nat, faults : Nat] /\ spent'.minted = spent.minted BY <1>3, <1>4, <1>5
<1> QED BY <1>2, <1>4, <1>6, GoneKeeps

LEMMA PurgeDeleteKeeps ==
    ASSUME AuditInvariant, NEW e \in AuditEvents, PurgeDelete(e)
    PROVE  AuditInvariant'
<1>1. AuditTypes BY DEF AuditInvariant
<1>2. Gone(e) /\ UNCHANGED <<indexed, writer, clear, spent>> BY DEF PurgeDelete
<1>3. PICK todo \in SUBSET AuditEvents : todo = purger.todo \ {e} BY <1>1, TrailFields
<1>4. spent \in [minted : SUBSET AuditEvents, records : Nat, faults : Nat] /\ purger \in PurgerRecord BY <1>1 DEF AuditTypes
<1>5. purger' = [purger EXCEPT !.todo = todo] BY <1>3, <1>4 DEF PurgeDelete, PurgerRecord
<1>6. purger' \in PurgerRecord /\ purger'.at = purger.at /\ purger'.tenant = purger.tenant /\ purger'.due = purger.due
  BY <1>3, <1>4, <1>5 DEF PurgerRecord
<1> QED BY <1>2, <1>4, <1>6, GoneKeeps

\* A purge that moves, beside a table that does not.
LEMMA PurgeMoves ==
    ASSUME AuditInvariant, UNCHANGED <<trail, indexed, writer, listing, clear, recorded>>,
           spent' \in [minted : SUBSET AuditEvents, records : Nat, faults : Nat], spent'.minted = spent.minted,
           purger' \in PurgerRecord, purger'.due \subseteq trail \ {writer} \/ purger'.due = purger.due,
           \A e \in purger'.due : e[1] = purger'.tenant,
           purger'.at = "purged" => purger'.due \cap trail = {}
    PROVE  AuditInvariant'
<1>1. AuditTypes /\ ListingSound /\ TrailSound BY DEF AuditInvariant
<1>2. AuditTypes' BY <1>1 DEF AuditTypes
<1>3. ListingSound' BY <1>1, ListingWaits
<1>4. purger'.due \subseteq spent'.minted /\ (writer' # NoEvent => writer' \notin purger'.due)
  <2>1. CASE purger'.due = purger.due BY <1>1, <2>1 DEF TrailSound
  <2>2. CASE purger'.due \subseteq trail \ {writer} BY <1>1, <2>2 DEF TrailSound
  <2> QED BY <2>1, <2>2
<1>5. TrailSound' BY <1>1, <1>4 DEF TrailSound
<1> QED BY <1>2, <1>3, <1>5 DEF AuditInvariant

LEMMA StartPurgeKeeps ==
    ASSUME AuditInvariant, NEW tenant \in AuditTenants, StartPurge(tenant)
    PROVE  AuditInvariant'
<1>1. AuditTypes /\ UNCHANGED <<trail, indexed, writer, listing, clear, recorded, spent>> BY DEF AuditInvariant, StartPurge
<1>2. PICK due : due = {e \in trail : e[1] = tenant /\ e # writer} OBVIOUS
<1>3. purger' = [at |-> "reading", tenant |-> tenant, todo |-> {}, due |-> due] BY <1>2 DEF StartPurge
<1>4. due \in SUBSET AuditEvents BY <1>1, <1>2 DEF AuditTypes
<1>5. purger' \in PurgerRecord /\ purger'.due = due /\ purger'.tenant = tenant /\ purger'.at = "reading" BY <1>3, <1>4 DEF PurgerRecord
<1>6. due \subseteq trail \ {writer} /\ \A e \in due : e[1] = tenant BY <1>2
<1>7. spent' \in [minted : SUBSET AuditEvents, records : Nat, faults : Nat] /\ spent'.minted = spent.minted BY <1>1 DEF AuditTypes
<1> QED BY <1>1, <1>5, <1>6, <1>7, PurgeMoves

LEMMA PurgeReadKeeps ==
    ASSUME AuditInvariant, PurgeRead
    PROVE  AuditInvariant'
<1>1. /\ AuditTypes /\ TrailSound /\ UNCHANGED <<trail, indexed, writer, listing, clear, recorded, spent>>
      /\ purger.at = "reading"
  BY DEF AuditInvariant, PurgeRead
<1>2. PICK left : left = {e \in trail : e[1] = purger.tenant} OBVIOUS
<1>3. PICK page : page = Earliest(left, PurgeSize) OBVIOUS
<1>4. purger' = [purger EXCEPT !.todo = page, !.at = IF page = {} THEN "purged" ELSE @] BY <1>2, <1>3 DEF PurgeRead
<1>5. left \subseteq AuditEvents BY <1>1, <1>2 DEF AuditTypes
<1>6. page \in SUBSET AuditEvents BY <1>3, <1>5 DEF Earliest
<1>7. purger \in PurgerRecord BY <1>1 DEF AuditTypes
<1>8. PICK at : at = IF page = {} THEN "purged" ELSE "reading" OBVIOUS
<1>9. purger' = [purger EXCEPT !.todo = page, !.at = at] BY <1>1, <1>4, <1>7, <1>8 DEF PurgerRecord
<1>10. purger' \in PurgerRecord /\ purger'.at = at /\ purger'.tenant = purger.tenant /\ purger'.due = purger.due
  BY <1>6, <1>7, <1>8, <1>9 DEF PurgerRecord
<1>11. page = {} => left = {}
  <2>1. \A e \in left : e[1] = purger.tenant BY <1>2
  <2> QED BY <1>3, <1>5, <2>1, EventsAreDated, EarliestEvents
<1>12. \A e \in purger.due : e[1] = purger.tenant BY <1>1 DEF TrailSound
<1>13. purger'.at = "purged" => purger'.due \cap trail = {} BY <1>2, <1>8, <1>10, <1>11, <1>12
<1>14. spent' \in [minted : SUBSET AuditEvents, records : Nat, faults : Nat] /\ spent'.minted = spent.minted BY <1>1 DEF AuditTypes
<1> QED BY <1>1, <1>10, <1>12, <1>13, <1>14, PurgeMoves

LEMMA PurgeDiesKeeps ==
    ASSUME AuditInvariant, PurgeDies
    PROVE  AuditInvariant'
<1>1. AuditTypes /\ TrailSound /\ UNCHANGED <<trail, indexed, writer, listing, clear, recorded>> BY DEF AuditInvariant, PurgeDies
<1>2. purger \in PurgerRecord /\ spent \in [minted : SUBSET AuditEvents, records : Nat, faults : Nat] BY <1>1 DEF AuditTypes
<1>3. purger' = [purger EXCEPT !.at = "died", !.todo = {}] BY DEF PurgeDies
<1>4. purger' \in PurgerRecord /\ purger'.at = "died" /\ purger'.tenant = purger.tenant /\ purger'.due = purger.due
  BY <1>2, <1>3 DEF PurgerRecord
<1>5. PICK n \in Nat : n = spent.faults + 1 BY <1>1, TrailFields
<1>6. spent' = [spent EXCEPT !.faults = n] BY <1>2, <1>5 DEF PurgeDies
<1>7. spent' \in [minted : SUBSET AuditEvents, records : Nat, faults : Nat] /\ spent'.minted = spent.minted BY <1>2, <1>5, <1>6
<1>8. \A e \in purger.due : e[1] = purger.tenant BY <1>1 DEF TrailSound
<1> QED BY <1>1, <1>4, <1>7, <1>8, PurgeMoves

LEMMA ListingKeeps ==
    ASSUME AuditInvariant, listing' \in ListingRecord, ListingSound',
           UNCHANGED <<trail, indexed, writer, purger, clear, recorded, spent>>
    PROVE  AuditInvariant'
BY DEF AuditInvariant, AuditTypes, TrailSound

LEMMA TheTrailGoesOn ==
    ASSUME AuditInvariant, [AuditNext]_auditVars
    PROVE  AuditInvariant'
<1>0. AuditTypes /\ ListingSound BY DEF AuditInvariant
<1>1. ASSUME NEW e \in AuditEvents, Record(e, AuditFields) PROVE AuditInvariant' BY <1>1, RecordKeeps
<1>2. ASSUME NEW answered \in BOOLEAN, PutEvent(answered) PROVE AuditInvariant' BY <1>2, PutEventKeeps
<1>3. CASE StoreRefuses BY <1>3, StoreRefusesKeeps
<1>4. ASSUME NEW e \in AuditEvents, IndexRow(e) PROVE AuditInvariant' BY <1>4, IndexRowKeeps
<1>5. ASSUME NEW e \in AuditEvents, ExpireEvent(e) PROVE AuditInvariant' BY <1>5, ExpireEventKeeps
<1>6. ASSUME NEW e \in AuditEvents, PurgeDelete(e) PROVE AuditInvariant' BY <1>6, PurgeDeleteKeeps
<1>7. ASSUME NEW t \in AuditTenants, NEW via \in {"table", "index", "memory"}, NEW low \in Floors, NEW high \in Floors,
             StartListing(t, via, low, high)
      PROVE  AuditInvariant'
  <2>1. listing' \in ListingRecord /\ ListingSound' BY <1>0, <1>7, StartListingKeeps
  <2>2. UNCHANGED <<trail, indexed, writer, purger, clear, recorded, spent>> BY <1>7 DEF StartListing
  <2> QED BY <2>1, <2>2, ListingKeeps
<1>8. CASE ListRound
  <2>1. listing' \in ListingRecord /\ ListingSound' BY <1>0, <1>8, ListRoundKeeps
  <2>2. UNCHANGED <<trail, indexed, writer, purger, clear, recorded, spent>> BY <1>8 DEF ListRound
  <2> QED BY <2>1, <2>2, ListingKeeps
<1>9. CASE MemoryPage
  <2>1. listing' \in ListingRecord /\ ListingSound' BY <1>0, <1>9, MemoryPageKeeps
  <2>2. UNCHANGED <<trail, indexed, writer, purger, clear, recorded, spent>> BY <1>9 DEF MemoryPage
  <2> QED BY <2>1, <2>2, ListingKeeps
<1>10. ASSUME NEW low \in Floors, NEW high \in Floors, Resume(low, high) PROVE AuditInvariant'
  <2>1. listing' \in ListingRecord /\ ListingSound' BY <1>0, <1>10, ResumeKeeps
  <2>2. UNCHANGED <<trail, indexed, writer, purger, clear, recorded, spent>> BY <1>10 DEF Resume
  <2> QED BY <2>1, <2>2, ListingKeeps
<1>11. ASSUME NEW t \in AuditTenants, StartPurge(t) PROVE AuditInvariant' BY <1>11, StartPurgeKeeps
<1>12. CASE PurgeRead BY <1>12, PurgeReadKeeps
<1>13. CASE PurgeDies BY <1>13, PurgeDiesKeeps
<1>14. CASE UNCHANGED auditVars
  <2>1. UNCHANGED <<trail, indexed, listing>> /\ UNCHANGED <<writer, purger, clear, recorded, spent>> BY <1>14 DEF auditVars
  <2>2. listing' \in ListingRecord BY <1>0, <2>1 DEF AuditTypes
  <2>3. ListingSound' BY <1>0, <2>1, ListingWaits
  <2> QED BY <2>1, <2>2, <2>3, ListingKeeps
<1> QED BY <1>1, <1>2, <1>3, <1>4, <1>5, <1>6, <1>7, <1>8, <1>9, <1>10, <1>11, <1>12, <1>13, <1>14 DEF AuditNext

LEMMA TheTrailBegins ==
    ASSUME AuditInit
    PROVE  AuditInvariant
<1>1. NewestId \in Nat /\ Top \in Nat /\ ListSize \in Nat /\ ListSize # 0 BY AuditAssumption DEF Top
<1>2. trail \in SUBSET AuditEvents /\ indexed \in SUBSET AuditEvents /\ writer = NoEvent /\ clear = {} /\ recorded = {}
  BY DEF AuditInit
<1>3. PICK none \in Seq(SUBSET AuditEvents) : none = <<>> BY EmptySeq
<1>4. listing = [at |-> "idle", tenant |-> 0, via |-> "table", low |-> 0, high |-> Top,
                 last |-> Top, count |-> 0, round |-> 1, seen |-> none, due |-> {}]
  BY <1>3 DEF AuditInit
<1>5. listing \in ListingRecord BY <1>1, <1>4 DEF ListingRecord
<1>6. listing.seen = <<>> /\ listing.due = {} /\ listing.at = "idle" /\ listing.count = 0 BY <1>3, <1>4
<1>7. purger \in PurgerRecord /\ purger.due = {} BY DEF AuditInit, PurgerRecord
<1>8. spent \in [minted : SUBSET AuditEvents, records : Nat, faults : Nat] /\ spent.minted = trail BY <1>2 DEF AuditInit
<1>9. AuditTypes BY <1>2, <1>5, <1>7, <1>8 DEF AuditTypes
<1>10. DOMAIN listing.seen = {} BY <1>6
<1>11. Listed = {} BY <1>10 DEF Listed
<1>12. ListingSound BY <1>6, <1>10, <1>11 DEF ListingSound, NewerFirst
<1>13. TrailSound BY <1>2, <1>7, <1>8 DEF TrailSound
<1> QED BY <1>9, <1>12, <1>13 DEF AuditInvariant

LEMMA TheTrailAnswers == AuditInvariant => TheTrailHolds
BY DEF AuditInvariant, ListingSound, TrailSound, NewerFirst, TheTrailHolds, TheListingMissesNothing, ThePurgeLeavesNothing, RecordsStand

\* dynamodb.py and audit.py: for every table, order of reading and interleaving of the
\* writers, a walk that ran out of cursors and a batch that returned have given every row
\* that stayed, in order and nothing else; so has a listing of the audit log, whose purges
\* leave nothing and whose answered events stay.
THEOREM ReadersAreTold == ReadSpec /\ AuditInit /\ [][AuditNext]_auditVars => []ReadersSeeItAll
<1>1. ReadInit => ReadInvariant BY ReadersBegin
<1>2. ReadInvariant /\ [ReadNext]_readVars => ReadInvariant' BY ReadersGoOn
<1>3. AuditInit => AuditInvariant BY TheTrailBegins
<1>4. AuditInvariant /\ [AuditNext]_auditVars => AuditInvariant' BY TheTrailGoesOn
<1>5. ReadInvariant /\ AuditInvariant => ReadersSeeItAll BY ReadsAnswerAll, TheTrailAnswers DEF ReadersSeeItAll
<1> QED BY <1>1, <1>2, <1>3, <1>4, <1>5, PTL DEF ReadSpec

=============================================================================
