--------------------------- MODULE WebhookDispatch ---------------------------
(***************************************************************************)
(* WebhookDispatcher of webbpulse.events.webhooks: one webhook signed once *)
(* and attempted under its RetryPolicy, and the endpoint that checks its   *)
(* timestamp.  Time counts eighths of a second, so that the shortest       *)
(* jittered pause is a whole number.                                       *)
(***************************************************************************)
EXTENDS Integers, Sequences

CONSTANTS PolicyAttempts, BaseDelay, MaxDelay, JitterPercent, SendTimeout,  \* RetryPolicy
          ReplayWindow,  \* DEFAULT_REPLAY_WINDOW_SECONDS
          ClockSkews,    \* the endpoint's clock minus the sender's
          Secrets        \* what the endpoint may hold, the dispatcher's being "shared"

VARIABLES sendNow,    \* the sender's clock
          skew,       \* of the endpoint
          endpointSecret, \* the endpoint's secret
          delivery,   \* [at, attempt, signedAt, delivered]
          responses,  \* the statuses of the attempts
          accepted,   \* how often the endpoint acted on the event
          deadLetters \* what the dead-letter hook was told

sendVars == <<sendNow, skew, endpointSecret, delivery, responses, accepted, deadLetters>>

Retryable == {0, 408, 409, 425, 429, 500, 502, 503, 504}
Delivered(status) == status \in 200..299

\* The pause before an attempt: none before the first, then doubling up to a
\* cap, less the jitter.
DelayBefore(attempt) ==
  IF attempt <= 1 THEN {0}
  ELSE LET doubled == BaseDelay * 2^(attempt - 2)
           raw == IF doubled < MaxDelay THEN doubled ELSE MaxDelay
       IN {raw - (raw * JitterPercent) \div 100, raw}

\* A policy that fits the window: as many of its longest pause as it makes retries,
\* each with the time a request may take, leave room for the endpoint's clock.  The
\* shipped policy does: its retries are over within half a minute of its 300 seconds.
ASSUME PolicyFitsTheWindow ==
  /\ PolicyAttempts \in Nat \ {0} /\ SendTimeout \in Nat /\ ReplayWindow \in Nat
  /\ \E longest \in 0 .. MaxDelay :
       /\ \A attempt \in 1 .. PolicyAttempts : DelayBefore(attempt) \subseteq 0 .. longest
       /\ \A s \in ClockSkews :
            /\ s \in Int /\ 0 - ReplayWindow <= s
            /\ (PolicyAttempts - 1) * (longest + SendTimeout) + s <= ReplayWindow

\* The window applies in both directions.
WithinReplayWindow(at, now) == now - at \in (0 - ReplayWindow)..ReplayWindow

\* signed_message, under the dispatcher's secret: the timestamp is covered too.
SignatureOf(at) == [secret |-> "shared", covers |-> at]

\* verify_hmac_signature at the endpoint, over the timestamp the header names.
VerifyHmacSignature(presented, at) == presented = [secret |-> endpointSecret, covers |-> at]

DispatchInit ==
  /\ sendNow = 0
  /\ skew \in ClockSkews /\ endpointSecret \in Secrets
  /\ delivery = [at |-> "idle", attempt |-> 0, signedAt |-> 0, delivered |-> FALSE]
  /\ responses = <<>>
  /\ accepted = 0
  /\ deadLetters = <<>>

Sign == /\ delivery.at = "idle"
        /\ delivery' = [delivery EXCEPT !.at = "attempt", !.attempt = 1, !.signedAt = sendNow]
        /\ UNCHANGED <<sendNow, skew, endpointSecret, responses, accepted, deadLetters>>

\* _finish: the hook hears of a delivery that never succeeded, once; what it
\* raises is swallowed.
Finish(delivered, statuses) ==
  /\ delivery' = [delivery EXCEPT !.at = "finished", !.delivered = delivered]
  /\ deadLetters' = IF delivered THEN deadLetters ELSE Append(deadLetters, statuses)

\* What becomes of a post: it may not arrive, the endpoint may refuse a signature or
\* an old timestamp, fail, act and answer, or act while its answer is lost.
Reply(arrival) ==
  IF ~VerifyHmacSignature(SignatureOf(delivery.signedAt), delivery.signedAt)
  THEN {[status |-> 401, acts |-> FALSE], [status |-> 0, acts |-> FALSE]}
  ELSE IF ~WithinReplayWindow(delivery.signedAt, arrival + skew)
  THEN {[status |-> 400, acts |-> FALSE], [status |-> 0, acts |-> FALSE]}
  ELSE {[status |-> 204, acts |-> TRUE], [status |-> 0, acts |-> TRUE],
        [status |-> 0, acts |-> FALSE], [status |-> 503, acts |-> FALSE],
        [status |-> 404, acts |-> FALSE]}

\* Whether a status ends the loop.
Hopeless(status) == status \notin Retryable

Attempt(pause, taken, reply) ==
  LET statuses == Append(responses, reply.status)
  IN /\ delivery.at = "attempt"
     /\ responses' = statuses
     /\ sendNow' = sendNow + pause + taken
     /\ accepted' = accepted + (IF reply.acts THEN 1 ELSE 0)
     /\ UNCHANGED <<skew, endpointSecret>>
     /\ \/ Delivered(reply.status) /\ Finish(TRUE, statuses)
        \/ ~Delivered(reply.status) /\ Hopeless(reply.status) /\ Finish(FALSE, statuses)
        \/ /\ ~Hopeless(reply.status) /\ delivery.attempt = PolicyAttempts
           /\ Finish(FALSE, statuses)
        \/ /\ ~Hopeless(reply.status) /\ delivery.attempt < PolicyAttempts
           /\ delivery' = [delivery EXCEPT !.attempt = @ + 1]
           /\ UNCHANGED deadLetters

DispatchNext ==
  \/ Sign
  \/ \E pause \in DelayBefore(delivery.attempt), taken \in {0, SendTimeout} :
       \E reply \in Reply(sendNow + pause) : Attempt(pause, taken, reply)

DispatchSpec == DispatchInit /\ [][DispatchNext]_sendVars

-------------------------------------------------------------------------------
\* WebhookDispatcher.send (webhooks.py 281): a webhook told to the dead-letter
\* hook is one the endpoint never answered for, told once with every status; if
\* the endpoint acted on it all the same, an answer of its was lost.
DeadLettersAreTrue ==
  delivery.at = "finished" =>
    /\ deadLetters = IF delivery.delivered THEN <<>> ELSE <<responses>>
    /\ accepted > 0 /\ ~delivery.delivered => 0 \in {responses[i] : i \in DOMAIN responses}
    /\ delivery.delivered => accepted > 0

\* Reusing one signature for every attempt (webhooks.py 281): under the shipped
\* policy the last retry still falls into the receiver's replay window, even with
\* both timeouts spent and a clock that is off by the skew.
RetriesStayFresh == 400 \notin {responses[i] : i \in DOMAIN responses}

\* What the dispatcher reports of a webhook is what became of it.
OutcomesAreTrue == DeadLettersAreTrue /\ RetriesStayFresh
===============================================================================
