--------------------------- MODULE BillingCustomers --------------------------
(***************************************************************************)
(* One owner's Stripe customer and subscriptions, through StripeGateway of *)
(* webbpulse.integrations.stripe: callers that race to create the          *)
(* customer, against a search index that lags and an idempotency key that  *)
(* expires, and the delete cascade that ends the subscriptions.            *)
(***************************************************************************)
EXTENDS Naturals, FiniteSets

CONSTANTS Callers,          \* concurrent checkouts and cascades
          Emails,           \* what the creates of two callers may differ in
          Legacy,           \* customers the owner has from before, indexed
          Subscriptions,    \* subscriptions checkouts may start
          IndexLag,         \* how long a new customer may be missing from search
          KeyLife,          \* how long Stripe answers for an idempotency key
          CallLimit,        \* how long a caller lives
          ConflictAttempts, \* _CONFLICT_ATTEMPTS
          MaxBillTime       \* bound on the clock

\* Stripe keeps a key for a day; its search lags by a minute, and a caller is a request.
ASSUME TheKeyOutlivesTheLag ==
  /\ Legacy \subseteq Nat /\ ConflictAttempts \in Nat
  /\ IndexLag \in Nat /\ KeyLife \in Nat /\ CallLimit \in Nat
  /\ IndexLag + CallLimit < KeyLife /\ CallLimit + CallLimit < KeyLife

VARIABLES billNow,
          customers,  \* [id, indexed] of the owner, ids and creation times ascend
          idemKey,    \* the one key every create of the owner carries
          caller,     \* what each caller is doing
          storedId,   \* the id the product stored, 0 when none
          subs,       \* each subscription: its state, and the customer it is of
          cascade     \* the delete cascade: customers to list, subscriptions to cancel

billVars == <<billNow, customers, idemKey, caller, storedId, subs, cascade>>

IdleCaller == [at |-> "idle", email |-> "", attempt |-> 0, since |-> 0, answer |-> 0]
NoKey == [state |-> "none", at |-> 0, email |-> "", id |-> 0]
Unbilled == [state |-> "none", of |-> 0]

\* live and settled are history: what was live when the cascade began, and
\* whether search had caught up with the owner's customer by then.
NoCascade == [at |-> "idle", ids |-> {}, todo |-> {}, live |-> {}, settled |-> FALSE]
Busy(p) == caller[p].at \in {"search", "create", "sent", "search again"}

BillInit ==
  /\ billNow = 0
  /\ customers \in {[id : 1..n, indexed : {TRUE}] : n \in Legacy}
  /\ idemKey = NoKey
  /\ caller = [p \in Callers |-> IdleCaller]
  /\ storedId = 0
  /\ subs \in [Subscriptions -> {Unbilled} \cup {[state |-> "live", of |-> c.id] : c \in customers}]
  /\ cascade = NoCascade

\* find_customer_ids: what search shows of the owner's customers, oldest first.
FindCustomerIds == {c.id : c \in {d \in customers : d.indexed}}
Oldest(ids) == CHOOSE i \in ids : \A j \in ids : i <= j

AnswerCaller(p, id) == caller' = [caller EXCEPT ![p].at = "answered", ![p].answer = id]

\* A caller with a stored id is answered as is; the others search first.
EnsureCustomer(p, email) ==
  /\ caller[p].at = "idle"
  /\ caller' = [caller EXCEPT ![p] =
                  [IdleCaller EXCEPT !.at = IF storedId # 0 THEN "answered" ELSE "search",
                                     !.email = email, !.attempt = 1, !.since = billNow,
                                     !.answer = storedId]]
  /\ UNCHANGED <<billNow, customers, idemKey, storedId, subs, cascade>>

\* The search before the create, and the one after Stripe refused the key.
Search(p) ==
  /\ caller[p].at \in {"search", "search again"}
  /\ \/ FindCustomerIds # {} /\ AnswerCaller(p, Oldest(FindCustomerIds))
     \/ /\ FindCustomerIds = {}
        /\ caller' = [caller EXCEPT ![p].at =
                        IF @ = "search" THEN "create" ELSE "StripeCustomerConflict"]
  /\ UNCHANGED <<billNow, customers, idemKey, storedId, subs, cascade>>

\* Variant: creates of different callers carry different keys.
KeyHeldByEmail == idemKey.state # "none" /\ idemKey.email = "never"

KeyHeld == idemKey.state # "none" /\ billNow < idemKey.at + KeyLife

\* One create request: the first under the key starts the work, a later one is
\* answered with its response, refused while it is in flight, or refused
\* because its parameters differ.
SendCreate(p) ==
  /\ caller[p].at = "create"
  /\ \/ /\ ~KeyHeld
        /\ idemKey' = [state |-> "in flight", at |-> billNow, email |-> caller[p].email, id |-> 0]
        /\ caller' = [caller EXCEPT ![p].at = "sent"]
     \/ /\ KeyHeld /\ idemKey.email # caller[p].email
        /\ caller' = [caller EXCEPT ![p].at = "search again"]
        /\ UNCHANGED idemKey
     \/ /\ KeyHeld /\ idemKey.state = "in flight"
        /\ caller' = [caller EXCEPT ![p].at = IF caller[p].attempt = ConflictAttempts THEN "raised" ELSE @,
                                    ![p].attempt = IF @ = ConflictAttempts THEN @ ELSE @ + 1]
        /\ UNCHANGED idemKey
     \/ /\ KeyHeld /\ idemKey.state = "done" /\ idemKey.email = caller[p].email
        /\ AnswerCaller(p, idemKey.id)
        /\ UNCHANGED idemKey
  /\ UNCHANGED <<billNow, customers, storedId, subs, cascade>>

\* Stripe makes the customer.  Its answer reaches the caller, or the caller
\* sees a transport error and raises: the customer is there all the same.
CreateCompletes(p, lost) ==
  /\ caller[p].at = "sent"
  /\ LET id == Cardinality(customers) + 1
     IN /\ customers' = customers \cup {[id |-> id, indexed |-> FALSE]}
        /\ idemKey' = [idemKey EXCEPT !.state = "done", !.id = id]
        /\ IF lost THEN caller' = [caller EXCEPT ![p].at = "raised"] ELSE AnswerCaller(p, id)
  /\ UNCHANGED <<billNow, storedId, subs, cascade>>

IndexCustomer(c) ==
  /\ ~c.indexed
  /\ customers' = (customers \ {c}) \cup {[c EXCEPT !.indexed = TRUE]}
  /\ UNCHANGED <<billNow, idemKey, caller, storedId, subs, cascade>>

\* The product stores the answer, unconditionally, and may start a checkout.
StoreId(p) ==
  /\ caller[p].at = "answered"
  /\ storedId' = caller[p].answer
  /\ caller' = [caller EXCEPT ![p].at = "stored"]
  /\ UNCHANGED <<billNow, customers, idemKey, subs, cascade>>

Checkout(p, s) ==
  /\ caller[p].at = "stored"
  /\ subs[s] = Unbilled
  /\ subs' = [subs EXCEPT ![s] = [state |-> "live", of |-> caller[p].answer]]
  /\ UNCHANGED <<billNow, customers, idemKey, caller, storedId, cascade>>

SubscriptionEnds(s) ==
  /\ subs[s].state = "live"
  /\ subs' = [subs EXCEPT ![s].state = "ended"]
  /\ UNCHANGED <<billNow, customers, idemKey, caller, storedId, cascade>>

\* Search has had its lag since the owner's customer was made, if one was.
SearchIsCurrent ==
  idemKey.state = "done" => billNow > idemKey.at + IndexLag /\ billNow > idemKey.at + CallLimit

\* cancel_owner_subscriptions goes by what search shows now: a customer that is
\* missing from it is not listed, and with none there is nothing to do.
CancelOwnerSubscriptions ==
  /\ cascade.at = "idle"
  /\ cascade' = [at |-> IF FindCustomerIds = {} THEN "done" ELSE "listing",
                 ids |-> FindCustomerIds, todo |-> {},
                 live |-> {s \in Subscriptions : subs[s].state = "live"}, settled |-> SearchIsCurrent]
  /\ UNCHANGED <<billNow, customers, idemKey, caller, storedId, subs>>

\* Where the loops over customers and over subscriptions go on.
NextAt(ids, todo) == IF todo # {} THEN "cancelling" ELSE IF ids # {} THEN "listing" ELSE "done"

\* cancel_subscriptions, of one customer after another.
ListSubscriptions ==
  /\ cascade.at = "listing"
  /\ LET id == Oldest(cascade.ids)
         due == {s \in Subscriptions : subs[s].state = "live" /\ subs[s].of = id}
     IN cascade' = [cascade EXCEPT !.ids = @ \ {id}, !.todo = due, !.at = NextAt(cascade.ids \ {id}, due)]
  /\ UNCHANGED <<billNow, customers, idemKey, caller, storedId, subs>>

\* A cancel succeeds, or is refused because the subscription has ended, which a
\* second read shows and the loop goes on.
CancelListed(s) ==
  /\ cascade.at = "cancelling"
  /\ s \in cascade.todo
  /\ subs' = [subs EXCEPT ![s].state = "ended"]
  /\ cascade' = [cascade EXCEPT !.todo = @ \ {s}, !.at = NextAt(cascade.ids, cascade.todo \ {s})]
  /\ UNCHANGED <<billNow, customers, idemKey, caller, storedId>>

\* Any other error, of Stripe or of the way to it, ends the cascade.
CascadeFails ==
  /\ cascade.at \in {"listing", "cancelling"}
  /\ cascade' = [cascade EXCEPT !.at = "raised"]
  /\ UNCHANGED <<billNow, customers, idemKey, caller, storedId, subs>>

\* The stream delivers the cascade again after an error, and may at any time.
RetryCascade ==
  /\ cascade.at \in {"raised", "done"}
  /\ cascade' = NoCascade
  /\ UNCHANGED <<billNow, customers, idemKey, caller, storedId, subs>>

\* Search has indexed a customer within its lag, and callers are short lived.
BillTick ==
  /\ billNow < MaxBillTime
  /\ \A c \in customers : ~c.indexed => billNow < idemKey.at + IndexLag
  /\ \A p \in Callers : Busy(p) => billNow < caller[p].since + CallLimit
  /\ billNow' = billNow + 1
  /\ caller' = [p \in Callers |-> IF caller[p].at \in {"raised", "StripeCustomerConflict"}
                                  THEN IdleCaller ELSE caller[p]]
  /\ UNCHANGED <<customers, idemKey, storedId, subs, cascade>>

BillNext ==
  \/ \E p \in Callers :
       \/ \E email \in Emails : EnsureCustomer(p, email)
       \/ Search(p) \/ SendCreate(p) \/ StoreId(p)
       \/ \E lost \in BOOLEAN : CreateCompletes(p, lost)
       \/ \E s \in Subscriptions : Checkout(p, s)
  \/ \E c \in customers : IndexCustomer(c)
  \/ \E s \in Subscriptions : SubscriptionEnds(s) \/ CancelListed(s)
  \/ CancelOwnerSubscriptions \/ ListSubscriptions \/ CascadeFails \/ RetryCascade \/ BillTick

BillSpec == BillInit /\ [][BillNext]_billVars

-------------------------------------------------------------------------------
\* ensure_customer (stripe.py 520): callers that race, lose answers, retry later
\* or send other parameters make the owner at most one new customer, and none
\* when it has one; everyone answered is answered with the oldest.
OneCustomerPerOwner ==
  /\ \A p \in Callers : caller[p].at \in {"answered", "stored"} => caller[p].answer = 1
  /\ Cardinality(customers) > 1 => idemKey = NoKey

\* cancel_owner_subscriptions (stripe.py 686): a cascade that returned left live
\* none of the owner's subscriptions that were when it began, of whichever of its
\* customers, whatever ended, was refused or was checked out meanwhile, provided
\* that search had caught up with the customer.
CascadeEndsWhatSearchShows ==
  cascade.at = "done" /\ cascade.settled => \A s \in cascade.live : subs[s].state = "ended"

\* The owner is billed through one customer, and for nothing once its deletion has
\* been carried through.
OwnerIsBilledOnce == OneCustomerPerOwner /\ CascadeEndsWhatSearchShows

\* "Cancel every live subscription of every customer whose metadata names the
\* owner" (stripe.py 687), in a cascade that search has not caught up with too.
CascadeEndsEveryLive ==
  cascade.at = "done" => \A s \in cascade.live : subs[s].state = "ended"
===============================================================================
