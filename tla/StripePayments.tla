--------------------------- MODULE StripePayments ---------------------------
(***************************************************************************)
(* The Stripe half of the payments plugin, for one active order of one     *)
(* customer: requests of the storefront for a payment intent, Stripe's     *)
(* customers and intents, and the webhook handlers that record at the shop *)
(* what Stripe received.  Every await is a step of its own.  The webhook   *)
(* works in a transaction: what it writes is seen by the others when it    *)
(* commits, and the last to commit wins; createStripePaymentIntent has     *)
(* none.                                                                   *)
(*                                                                         *)
(* The shop's OrderService and Stripe are outside the repository: they are *)
(* modelled by what the plugin relies on.  A checkout is shorter than the  *)
(* day for which Stripe remembers an idempotency key.                      *)
(***************************************************************************)
EXTENDS Integers, Sequences, FiniteSets, FiniteSetsExt

CONSTANTS
    Requests,       \* concurrent createStripePaymentIntent mutations
    Handlers,       \* concurrent webhook requests
    Totals,         \* totals the order can have, in hundredths
    HasFraction,    \* currencyHasFractionPart
    NoCustomer,     \* no Stripe customer: undefined in the code
    MaxIntents,     \* bound: intents at Stripe
    MaxRequests,    \* bound: mutations made
    MaxFaults       \* bound: requests that throw, failed payments, repeated webhooks

VARIABLES
    order,          \* state, totalWithTax, whether checkout is complete
    payments,       \* the intents recorded as payments of the order, in order
    savedCustomer,  \* Customer.customFields.stripeCustomerId
    customers,      \* Stripe: how many customers have the e-mail address
    intents,        \* Stripe: the payment intents, in the order of creation
    pending,        \* Stripe: events that have not been answered with 200
    request,        \* the local state of every mutation
    handler,        \* the local state of every webhook request
    made,           \* mutations made so far
    faults,         \* faults so far
    history         \* what has happened, for the properties

shop == <<order, payments, savedCustomer>>
stripe == <<customers, intents, pending>>
vars == <<order, payments, savedCustomer, customers, intents, pending, request, handler,
          made, faults, history>>

OrderStates == {"AddingItems", "ArrangingPayment", "PaymentSettled", "Cancelled"}

\* getAmountInStripeMinorUnits: Math.round of a hundredth.
Minor(amount) == IF HasFraction THEN amount ELSE (amount + 50) \div 100

\* getAmountFromStripeMinorUnits.
FromMinor(amount) == IF HasFraction THEN amount ELSE amount * 100

Intent == [key : Nat, customer : Nat \cup {NoCustomer}, paid : BOOLEAN]

Event == {"succeeded", "failed"} \X (Nat \ {0})

IdleRequest == [step |-> "idle", total |-> 0, customer |-> NoCustomer]

IdleHandler == [step |-> "idle", event |-> <<"failed", 1>>, arranging |-> FALSE, state |-> "none"]

Init ==
    /\ \E t \in Totals : order = [state |-> "AddingItems", total |-> t, complete |-> FALSE]
    /\ payments = <<>>
    /\ savedCustomer = NoCustomer
    /\ customers = 0
    /\ intents = <<>>
    /\ pending = {}
    /\ request = [r \in Requests |-> IdleRequest]
    /\ handler = [h \in Handlers |-> IdleHandler]
    /\ made = 0
    /\ faults = 0
    /\ history = [amended |-> FALSE, moved |-> FALSE, raced |-> FALSE,
                  overlapped |-> FALSE, partial |-> {}]

Fault ==
    /\ faults < MaxFaults
    /\ faults' = faults + 1

-----------------------------------------------------------------------------
(* The order, as its owner and the administrators change it.               *)

SomethingPaid == \E i \in DOMAIN intents : intents[i].paid

Moved == history' = [history EXCEPT !.moved = @ \/ SomethingPaid]

\* The order's lines change: only while items are added.
Amend(t) ==
    /\ order.state = "AddingItems"
    /\ t # order.total
    /\ order' = [order EXCEPT !.total = t]
    /\ history' = [history EXCEPT !.amended = TRUE, !.moved = @ \/ SomethingPaid]
    /\ UNCHANGED <<payments, savedCustomer, stripe, request, handler, made, faults>>

\* A shipping method and an address: without them an order cannot go to
\* ArrangingPayment, while an intent can be created for it.
CompleteCheckout ==
    /\ order.state = "AddingItems"
    /\ ~order.complete
    /\ order' = [order EXCEPT !.complete = TRUE]
    /\ Moved
    /\ UNCHANGED <<payments, savedCustomer, stripe, request, handler, made, faults>>

MayGoTo(state) ==
    \/ state = "ArrangingPayment" /\ order.state = "AddingItems" /\ order.complete
    \/ state = "AddingItems" /\ order.state = "ArrangingPayment"
    \/ state = "Cancelled" /\ order.state \in {"AddingItems", "ArrangingPayment"}

Move(state) ==
    /\ MayGoTo(state)
    /\ order' = [order EXCEPT !.state = state]
    /\ Moved
    /\ UNCHANGED <<payments, savedCustomer, stripe, request, handler, made, faults>>

-----------------------------------------------------------------------------
(* createStripePaymentIntent and StripeService.createPaymentIntent.        *)

\* The active order is read; an order that is not active is an error. A guest
\* has no Stripe customer.
Begin(r, loggedIn) ==
    /\ request[r].step = "idle"
    /\ made < MaxRequests
    /\ order.state \in {"AddingItems", "ArrangingPayment"}
    /\ made' = made + 1
    /\ request' = [request EXCEPT ![r] =
          [step |-> IF loggedIn THEN "findCustomer" ELSE "createIntent",
           total |-> order.total, customer |-> NoCustomer]]
    /\ history' = [history EXCEPT !.raced = @ \/ \E s \in Requests \ {r} : request[s].step # "idle"]
    /\ UNCHANGED <<shop, stripe, handler, faults>>

\* getStripeCustomerId: the id the customer has.
FindCustomer(r) ==
    /\ request[r].step = "findCustomer"
    /\ request' = [request EXCEPT
          ![r].step = IF savedCustomer = NoCustomer THEN "listCustomers" ELSE "createIntent",
          ![r].customer = savedCustomer]
    /\ UNCHANGED <<shop, stripe, handler, made, faults, history>>

\* A slip of Listed: Stripe is not asked who has the e-mail address.
NobodyListed == NoCustomer

\* customers.list({ email }): the newest comes first.
Listed == IF customers = 0 THEN NoCustomer ELSE customers

ListCustomers(r) ==
    /\ request[r].step = "listCustomers"
    /\ request' = [request EXCEPT
          ![r].step = IF Listed = NoCustomer THEN "createCustomer" ELSE "saveCustomer",
          ![r].customer = Listed]
    /\ UNCHANGED <<shop, stripe, handler, made, faults, history>>

CreateCustomer(r) ==
    /\ request[r].step = "createCustomer"
    /\ customers' = customers + 1
    /\ request' = [request EXCEPT ![r].step = "saveCustomer", ![r].customer = customers + 1]
    /\ UNCHANGED <<shop, intents, pending, handler, made, faults, history>>

SaveCustomer(r) ==
    /\ request[r].step = "saveCustomer"
    /\ savedCustomer' = request[r].customer
    /\ request' = [request EXCEPT ![r].step = "createIntent"]
    /\ UNCHANGED <<order, payments, stripe, handler, made, faults, history>>

\* A slip of IdempotencyKey: every attempt has a key of its own.
KeyOfAttempt(total) == made

\* `${order.code}_${amountInMinorUnits}`, of the order that was read first.
IdempotencyKey(total) == Minor(total)

WithKey(key) == {i \in DOMAIN intents : intents[i].key = key}

\* paymentIntents.create: a key Stripe has seen returns the intent it stands
\* for, and an error when the parameters are not the same.
CreateIntent(r) ==
    LET key == IdempotencyKey(request[r].total) IN
    /\ request[r].step = "createIntent"
    /\ intents' = IF WithKey(key) = {}
                  THEN Append(intents, [key |-> key, customer |-> request[r].customer, paid |-> FALSE])
                  ELSE intents
    /\ Len(intents') <= MaxIntents
    /\ request' = [request EXCEPT ![r] = IdleRequest]
    /\ UNCHANGED <<shop, customers, pending, handler, made, faults, history>>

\* getStripeClient finds no enabled and eligible method, a call fails, the
\* process stops.
RequestThrows(r) ==
    /\ request[r].step # "idle"
    /\ Fault
    /\ request' = [request EXCEPT ![r] = IdleRequest]
    /\ UNCHANGED <<shop, stripe, handler, made, history>>

-----------------------------------------------------------------------------
(* Stripe.                                                                  *)

\* The customer pays an intent: its whole amount, once, whatever has become of
\* the order.
Pay(i) ==
    /\ i \in DOMAIN intents
    /\ ~intents[i].paid
    /\ intents' = [intents EXCEPT ![i].paid = TRUE]
    /\ pending' = pending \cup {<<"succeeded", i>>}
    /\ Moved
    /\ UNCHANGED <<shop, customers, request, handler, made, faults>>

PaymentFails(i) ==
    /\ i \in DOMAIN intents
    /\ ~intents[i].paid
    /\ Fault
    /\ pending' = pending \cup {<<"failed", i>>}
    /\ UNCHANGED <<shop, customers, intents, request, handler, made, history>>

-----------------------------------------------------------------------------
(* StripeController.webhook.                                                *)

Busy == {h \in Handlers : handler[h].step # "idle"}

Handled(e) == {h \in Busy : handler[h].event = e}

Overlap == history' = [history EXCEPT !.overlapped = @ \/ Busy # {}]

\* withTransaction, findOneByCode: the handler keeps whether the order is in
\* ArrangingPayment.
Found(e) == [step |-> "verify", event |-> e, arranging |-> order.state = "ArrangingPayment",
             state |-> "none"]

Receive(h, e) ==
    /\ handler[h].step = "idle"
    /\ e \in pending
    /\ Handled(e) = {}
    /\ handler' = [handler EXCEPT ![h] = Found(e)]
    /\ Overlap
    /\ UNCHANGED <<shop, stripe, request, made, faults>>

\* Stripe delivers an event again although it was answered, or is still being
\* handled.
Redeliver(h, e) ==
    /\ handler[h].step = "idle"
    /\ e[1] = "succeeded" /\ e[2] \in DOMAIN intents /\ intents[e[2]].paid
    /\ e \notin pending \/ Handled(e) # {}
    /\ Fault
    /\ handler' = [handler EXCEPT ![h] = Found(e)]
    /\ pending' = pending \cup {e}
    /\ Overlap
    /\ UNCHANGED <<shop, customers, intents, request, made>>

Goto(h, step, state) ==
    handler' = [handler EXCEPT ![h].step = step, ![h].state = state, ![h].arranging = FALSE]

\* Answered with 200: Stripe does not deliver the event again.
Acknowledge(h) ==
    /\ handler' = [handler EXCEPT ![h] = IdleHandler]
    /\ pending' = pending \ {handler[h].event}

\* The signature is right. A failed payment changes nothing.
Verify(h) ==
    /\ handler[h].step = "verify"
    /\ \/ /\ handler[h].event[1] = "failed"
          /\ Acknowledge(h)
       \/ /\ handler[h].event[1] = "succeeded"
          /\ Goto(h, IF handler[h].arranging THEN "addPayment" ELSE "transition", "none")
          /\ UNCHANGED pending
    /\ UNCHANGED <<shop, customers, intents, request, made, faults, history>>

\* transitionToState reads the order again. A refusal is logged, and answered
\* with 200 like a success.
Transition(h) ==
    /\ handler[h].step = "transition"
    /\ IF MayGoTo("ArrangingPayment")
       THEN Goto(h, "addPayment", "ArrangingPayment") /\ UNCHANGED pending
       ELSE Acknowledge(h)
    /\ UNCHANGED <<shop, customers, intents, request, made, faults, history>>

Received(i) == FromMinor(intents[i].key)

Covered(ps) == MapThenSumSet(LAMBDA k : Received(ps[k]), DOMAIN ps) >= order.total

\* What the transaction sees of the order: its own writes, then what others
\* have committed.
StateSeen(h) == IF handler[h].state = "none" THEN order.state ELSE handler[h].state

\* addPaymentToOrder refuses unless the order is in ArrangingPayment.
MayAddPayment(h) == StateSeen(h) = "ArrangingPayment"

\* addPaymentToOrder: the handler's createPayment makes a settled payment of
\* the amount received, and the order is settled when its total is covered.
\* An error result is logged, and answered with 200.
AddPayment(h) ==
    LET i == handler[h].event[2] IN
    /\ handler[h].step = "addPayment"
    /\ IF MayAddPayment(h)
       THEN /\ Goto(h, "commit", IF Covered(Append(payments, i)) THEN "PaymentSettled" ELSE handler[h].state)
            /\ history' = [history EXCEPT !.partial =
                               IF Covered(Append(payments, i)) THEN @ ELSE @ \cup {i}]
            /\ UNCHANGED pending
       ELSE Acknowledge(h) /\ UNCHANGED history
    /\ UNCHANGED <<shop, customers, intents, request, made, faults>>

\* A slip of Commit: the order is saved as it was found.
CommitPayment(h) ==
    /\ handler[h].step = "commit"
    /\ payments' = Append(payments, handler[h].event[2])
    /\ Goto(h, "answer", "none")
    /\ UNCHANGED <<order, savedCustomer, stripe, request, made, faults, history>>

Commit(h) ==
    /\ handler[h].step = "commit"
    /\ payments' = Append(payments, handler[h].event[2])
    /\ order' = [order EXCEPT !.state = StateSeen(h)]
    /\ Goto(h, "answer", "none")
    /\ UNCHANGED <<savedCustomer, stripe, request, made, faults, history>>

Answer(h) ==
    /\ handler[h].step = "answer"
    /\ Acknowledge(h)
    /\ UNCHANGED <<shop, customers, intents, request, made, faults, history>>

\* A slip of AfterThrow: the event is answered with 200 all the same.
ThrowAnswered(h) == pending \ {handler[h].event}

\* An error, or no answer: Stripe keeps the event.
AfterThrow(h) == pending

\* The signature cannot be verified (400), something throws and the
\* transaction is rolled back (500), the process stops.
HandlerThrows(h) ==
    /\ handler[h].step # "idle"
    /\ Fault
    /\ pending' = AfterThrow(h)
    /\ handler' = [handler EXCEPT ![h] = IdleHandler]
    /\ UNCHANGED <<shop, customers, intents, request, made, history>>

-----------------------------------------------------------------------------
Shopper ==
    \/ \E t \in Totals : Amend(t)
    \/ CompleteCheckout
    \/ \E state \in OrderStates : Move(state)

RequestStep(r) ==
    \/ \E loggedIn \in BOOLEAN : Begin(r, loggedIn)
    \/ FindCustomer(r) \/ ListCustomers(r) \/ CreateCustomer(r) \/ SaveCustomer(r)
    \/ CreateIntent(r) \/ RequestThrows(r)

HandlerStep(h) ==
    \/ Verify(h) \/ Transition(h) \/ AddPayment(h) \/ Commit(h) \/ Answer(h)

IntentEvents == {"succeeded", "failed"} \X DOMAIN intents

Next ==
    \/ Shopper
    \/ \E r \in Requests : RequestStep(r)
    \/ \E i \in DOMAIN intents : Pay(i) \/ PaymentFails(i)
    \/ \E h \in Handlers : \/ \E e \in IntentEvents : Receive(h, e) \/ Redeliver(h, e)
                           \/ HandlerStep(h) \/ HandlerThrows(h)

Spec == Init /\ [][Next]_vars

\* Stripe goes on delivering what was not answered, and the handlers go on.
Webhooks == \E h \in Handlers : HandlerStep(h) \/ \E e \in IntentEvents : Receive(h, e)

Fairness == WF_vars(Webhooks)

FairSpec == Spec /\ Fairness

-----------------------------------------------------------------------------
(* Properties.                                                              *)

RequestSteps == {"idle", "findCustomer", "listCustomers", "createCustomer", "saveCustomer",
                 "createIntent"}
HandlerSteps == {"idle", "verify", "transition", "addPayment", "commit", "answer"}

\* The state of the order, of Stripe and of every request keeps its type: a
\* handler that commits has a state to write, and every event is of an intent.
TypeOK ==
    /\ order \in [state : OrderStates, total : Totals, complete : BOOLEAN]
    /\ payments \in Seq(DOMAIN intents)
    /\ savedCustomer \in (1 .. customers) \cup {NoCustomer}
    /\ customers \in Nat
    /\ intents \in Seq(Intent)
    /\ pending \in SUBSET IntentEvents
    /\ request \in [Requests -> [step : RequestSteps, total : Totals \cup {0},
                                 customer : (1 .. customers) \cup {NoCustomer}]]
    /\ handler \in [Handlers -> [step : HandlerSteps, event : Event, arranging : BOOLEAN,
                                 state : {"none", "ArrangingPayment", "PaymentSettled"}]]
    /\ \A h \in Handlers : handler[h].step # "idle" => handler[h].event \in IntentEvents
    /\ made \in Nat /\ faults \in Nat
    /\ history \in [amended : BOOLEAN, moved : BOOLEAN, raced : BOOLEAN,
                    overlapped : BOOLEAN, partial : SUBSET Nat]

\* An order whose total was never changed is charged once, however many
\* intents the storefront asks for and whoever asks: the idempotency key.
UnamendedOrderIsChargedOnce ==
    ~history.amended => Cardinality({i \in DOMAIN intents : intents[i].paid}) <= 1

\* An intent is recorded as one payment, although nothing compares intent ids:
\* a repeated event finds the order out of ArrangingPayment. It is recorded
\* twice only when two handlers work at once, or when the payment leaves the
\* order uncovered, and so in ArrangingPayment.
IntentIsRecordedOnce ==
    \A j, k \in DOMAIN payments :
        (j # k /\ payments[j] = payments[k]) =>
            history.overlapped \/ payments[j] \in history.partial

\* A customer has two records at Stripe only when two requests overlapped: the
\* search by e-mail finds the one a request left that threw before it saved it.
OneStripeCustomer == customers > 1 => history.raced

\* An order that Stripe was paid for does not stay unsettled, if it could take
\* a payment and its owner has left it alone since, and paid no second intent:
\* failed and repeated webhooks do not matter.
PaidInFull == \E i \in DOMAIN intents : intents[i].paid /\ Received(i) >= order.total

PaidOrderIsSettled ==
    []<>((PaidInFull /\ order.complete /\ order.state # "Cancelled" /\ ~history.moved)
            => order.state = "PaymentSettled")

=============================================================================
