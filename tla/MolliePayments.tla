--------------------------- MODULE MolliePayments ---------------------------
(***************************************************************************)
(* The Mollie half of the payments plugin: one shop order, the Mollie      *)
(* orders created for it, and every actor that moves money between the     *)
(* two: webhook handlers (POST mollie/:channelToken/:paymentMethodId),     *)
(* storefronts calling createMolliePaymentIntent, administrators settling  *)
(* an authorized payment.  Every await of a handler is a step of its own,  *)
(* so handlers interleave, act on stale snapshots, and can fail between    *)
(* two steps.  The webhook's RequestContext carries no transaction (see    *)
(* createContext), so each step commits when it is taken.                  *)
(*                                                                         *)
(* The shop's OrderService and the Mollie API are outside the repository:  *)
(* they are modelled by what the plugin relies on.                         *)
(***************************************************************************)
EXTENDS Integers, Sequences, FiniteSets, FiniteSetsExt

CONSTANTS
    MollieIds,      \* the Mollie orders that can be created for the shop order
    Webhooks,       \* concurrent webhook requests (actors)
    Shoppers,       \* concurrent createMolliePaymentIntent requests (actors)
    Admins,         \* concurrent settlePayment mutations (actors)
    NoMollie,       \* no Mollie order: undefined in the code
    AutoCapture,    \* the payment method's autoCapture argument
    MaxTotal,       \* bound: greatest order total
    MaxEdits,       \* bound: edits of the order by its owner or an administrator
    MaxFaults       \* bound: lost calls, crashed handlers and repeated webhooks

ASSUME MollieAssumption ==
    /\ NoMollie \notin MollieIds
    /\ AutoCapture \in BOOLEAN
    /\ MaxTotal \in Nat /\ MaxEdits \in Nat /\ MaxFaults \in Nat
    /\ Webhooks \cap Shoppers = {}
    /\ Webhooks \cap Admins = {}
    /\ Shoppers \cap Admins = {}

VARIABLES
    orderState,     \* Order.state
    total,          \* Order.totalWithTax
    mollieRef,      \* Order.customFields.mollieOrderId
    payments,       \* Order.payments, oldest first
    mollie,         \* Mollie's side: status and amount of each Mollie order
    pending,        \* webhook notifications Mollie still has to deliver
    saves,          \* custom-field updates started and not awaited
    actor,          \* the local state of every request being handled
    edits,          \* edits made so far
    faults,         \* faults so far
    amended         \* history: the total changed after an intent was started

shopVars == <<orderState, total, mollieRef, payments>>
vars == <<orderState, total, mollieRef, payments, mollie, pending, saves,
          actor, edits, faults, amended>>

Actors == Webhooks \cup Shoppers \cup Admins

OrderStates == {"AddingItems", "Draft", "ArrangingPayment", "ArrangingAdditionalPayment",
                "PaymentAuthorized", "PaymentSettled", "Cancelled"}

MollieStatus == {"none", "created", "paid", "authorized", "completed", "expired", "canceled"}

Payment == [mollie : MollieIds \cup {NoMollie}, amount : 0 .. MaxTotal,
            state : {"Authorized", "Settled"}]

Steps == {"idle", "getMollieOrder", "findOrder", "transition", "addPayment",
          "capture", "ship", "settle", "update", "create"}

\* A request: the step it takes next, the Mollie order it is about, the
\* notification that started it, the status and amount it last read, and the
\* position of the payment it settles.
Request == [step : Steps, id : MollieIds \cup {NoMollie}, note : MollieStatus,
            status : MollieStatus, amount : 0 .. MaxTotal, payment : Nat]

Idle == [step |-> "idle", id |-> NoMollie, note |-> "none", status |-> "none",
         amount |-> 0, payment |-> 0]

\* A slip of StatesThatRequireAction: a draft order is not listed.
StatesWithoutDraft ==
    {"AddingItems", "ArrangingPayment", "ArrangingAdditionalPayment", "PaymentAuthorized"}

\* statesThatRequireAction of handleMollieStatusUpdate.
StatesThatRequireAction ==
    {"AddingItems", "ArrangingPayment", "ArrangingAdditionalPayment", "PaymentAuthorized", "Draft"}

\* The states in which the shop takes a payment, and in which addPayment does
\* not ask for a transition first.
Arranging == {"ArrangingPayment", "ArrangingAdditionalPayment"}

-----------------------------------------------------------------------------
(* The order of the shop: totals and the core's own reactions.             *)

PaidBy(ps, states) ==
    MapThenSumSet(LAMBDA i : ps[i].amount, {i \in DOMAIN ps : ps[i].state \in states})

\* totalCoveredByPayments(order): the plugin passes no state, so authorized
\* and settled payments both count.
TotalCovered == PaidBy(payments, {"Authorized", "Settled"})

\* A slip of AmountToPay: shipping (1) is not part of the Mollie order's lines.
AmountWithoutShipping == IF total - TotalCovered > 0 THEN total - TotalCovered - 1 ELSE 0

AmountToPay == total - TotalCovered

\* transitionOrderIfTotalIsCovered: what addPaymentToOrder leaves as state.
StateOnceCovered(ps) ==
    CASE PaidBy(ps, {"Settled"}) >= total -> "PaymentSettled"
      [] PaidBy(ps, {"Settled"}) < total /\ PaidBy(ps, {"Authorized", "Settled"}) >= total
            -> "PaymentAuthorized"
      [] OTHER -> orderState

\* Slips of PaymentStatus: every payment is settled; Mollie's status is stored.
PaymentAlwaysSettled(status) == "Settled"
PaymentStatusVerbatim(status) == status

\* The state addPayment asks the handler's createPayment to record: a paid
\* order and an order with nothing left to pay are Settled.
PaymentStatus(status) == IF status = "authorized" THEN "Authorized" ELSE "Settled"

RecordedIn(ps, m) == {i \in DOMAIN ps : ps[i].mollie = m}

Recorded(m) == RecordedIn(payments, m)

\* order.payments.find(p => p.transactionId === mollieOrderId)
FirstPayment(ps, m) ==
    CHOOSE i \in RecordedIn(ps, m) : \A j \in RecordedIn(ps, m) : i <= j

-----------------------------------------------------------------------------
(* How a request moves on, succeeds, or throws.                            *)

Goto(a, step) == actor' = [actor EXCEPT ![a].step = step]

\* settleExistingPayment picks the payment from the order it was given.
GotoCapture(a, i) == actor' = [actor EXCEPT ![a].step = "capture", ![a].payment = i]

\* The webhook is answered with 200: Mollie does not deliver it again.
Answer(a) ==
    /\ actor' = [actor EXCEPT ![a] = Idle]
    /\ pending' = pending \ {<<actor[a].id, actor[a].note>>}

\* The request throws: a webhook is answered with an error and stays pending.
Throw(a) ==
    /\ actor' = [actor EXCEPT ![a] = Idle]
    /\ UNCHANGED pending

Init ==
    /\ orderState \in {"AddingItems", "Draft"}
    /\ total \in 0 .. MaxTotal
    /\ mollieRef = NoMollie
    /\ payments = <<>>
    /\ mollie = [m \in MollieIds |-> [status |-> "none", amount |-> 0]]
    /\ pending = {}
    /\ saves = {}
    /\ actor = [a \in Actors |-> Idle]
    /\ edits = 0
    /\ faults = 0
    /\ amended = FALSE

-----------------------------------------------------------------------------
(* Webhooks: handleMollieStatusUpdate.                                      *)

\* Mollie delivers a notification; only the id of the Mollie order is in it.
Deliver(a, n) ==
    /\ actor[a].step = "idle"
    /\ n \in pending
    /\ actor' = [actor EXCEPT ![a] = [Idle EXCEPT !.step = "getMollieOrder",
                                                  !.id = n[1], !.note = n[2]]]
    /\ UNCHANGED <<shopVars, mollie, pending, saves, edits, faults, amended>>

\* client.orders.get(orderId): the status and the amount acted on from here.
GetMollieOrder(a) ==
    /\ actor[a].step = "getMollieOrder"
    /\ actor' = [actor EXCEPT ![a].step = "findOrder",
                              ![a].status = mollie[actor[a].id].status,
                              ![a].amount = mollie[actor[a].id].amount]
    /\ UNCHANGED <<shopVars, mollie, pending, saves, edits, faults, amended>>

\* A slip of NextStep: autoCapture is looked at before the state of the order.
NextStepIgnoringCompleted(m, status) ==
    CASE orderState \notin StatesThatRequireAction -> "answer"
      [] status \in {"expired", "completed"} -> "answer"
      [] status = "paid" -> IF orderState \in Arranging THEN "addPayment" ELSE "transition"
      [] status = "authorized" /\ orderState = "AddingItems" -> "transition"
      [] OTHER -> "throw"

\* The step a webhook takes once it has read the order: "answer" and "throw"
\* end it, the latter also when the payment to settle is not found.
NextStep(m, status) ==
    CASE orderState \notin StatesThatRequireAction -> "answer"
      [] status = "expired" -> "answer"
      [] status = "paid" -> IF orderState \in Arranging THEN "addPayment" ELSE "transition"
      [] status = "authorized" /\ orderState = "AddingItems" -> "transition"
      [] status = "completed" /\ orderState = "PaymentAuthorized" ->
            IF Recorded(m) # {} THEN "capture" ELSE "throw"
      [] status = "completed" /\ AutoCapture -> "answer"
      [] OTHER -> "throw"

\* findOneByCode and the choice made from the order's state and the status.
FindOrder(a) ==
    LET m == actor[a].id
        next == NextStep(m, actor[a].status)
    IN
    /\ actor[a].step = "findOrder"
    /\ \/ next = "answer" /\ Answer(a)
       \/ next = "throw" /\ Throw(a)
       \/ next = "capture" /\ GotoCapture(a, FirstPayment(payments, m)) /\ UNCHANGED pending
       \/ next \in {"transition", "addPayment"} /\ Goto(a, next) /\ UNCHANGED pending
    /\ UNCHANGED <<shopVars, mollie, saves, edits, faults, amended>>

-----------------------------------------------------------------------------
(* addPayment, for a webhook and for an intent with nothing to pay.        *)

\* transitionToState(ctx, order.id, 'ArrangingPayment')
TransitionToArranging(a) ==
    /\ actor[a].step = "transition"
    /\ \/ /\ orderState \in {"AddingItems", "Draft"}
          /\ orderState' = "ArrangingPayment"
          /\ Goto(a, "addPayment")
          /\ UNCHANGED pending
       \/ /\ orderState \notin {"AddingItems", "Draft"}
          /\ Throw(a)
          /\ UNCHANGED orderState
    /\ UNCHANGED <<total, mollieRef, payments, mollie, saves, edits, faults, amended>>

\* addPaymentToOrder, which calls the handler's createPayment; an authorized
\* payment is captured at once when autoCapture is set.
AddPayment(a) ==
    LET payment == [mollie |-> actor[a].id, amount |-> actor[a].amount,
                    state |-> PaymentStatus(actor[a].status)]
        ps == Append(payments, payment)
    IN
    /\ actor[a].step = "addPayment"
    /\ \/ /\ orderState \in Arranging
          /\ payments' = ps
          /\ orderState' = StateOnceCovered(ps)
          /\ IF AutoCapture /\ actor[a].status = "authorized"
             THEN GotoCapture(a, FirstPayment(ps, actor[a].id)) /\ UNCHANGED pending
             ELSE Answer(a)
       \/ /\ orderState \notin Arranging
          /\ Throw(a)
          /\ UNCHANGED <<orderState, payments>>
    /\ UNCHANGED <<total, mollieRef, mollie, saves, edits, faults, amended>>

-----------------------------------------------------------------------------
(* settlePayment, called by settleExistingPayment or by an administrator.  *)

\* The handler asks Mollie whether the order still has to be captured.
Capture(a) ==
    /\ actor[a].step = "capture"
    /\ Goto(a, IF mollie[actor[a].id].status = "completed" THEN "settle" ELSE "ship")
    /\ UNCHANGED <<shopVars, mollie, pending, saves, edits, faults, amended>>

\* orderShipments.create captures an authorized Mollie order; Mollie refuses it
\* for any other, and reports the completed order.
Ship(a) ==
    LET m == actor[a].id IN
    /\ actor[a].step = "ship"
    /\ \/ /\ mollie[m].status = "authorized"
          /\ mollie' = [mollie EXCEPT ![m].status = "completed"]
          /\ pending' = pending \cup {<<m, "completed">>}
          /\ Goto(a, "settle")
       \/ /\ mollie[m].status # "authorized"
          /\ Throw(a)
          /\ UNCHANGED mollie
    /\ UNCHANGED <<shopVars, saves, edits, faults, amended>>

\* The handler reported success: the payment becomes Settled, and with it the
\* order when settled payments cover it.
Settle(a) ==
    LET i == actor[a].payment
        ps == [payments EXCEPT ![i].state = "Settled"]
    IN
    /\ actor[a].step = "settle"
    /\ \/ /\ payments[i].state = "Authorized"
          /\ payments' = ps
          /\ orderState' = IF /\ PaidBy(ps, {"Settled"}) >= total
                              /\ orderState \in {"ArrangingPayment", "PaymentAuthorized"}
                           THEN "PaymentSettled" ELSE orderState
          /\ Answer(a)
       \/ /\ payments[i].state = "Settled"
          /\ Throw(a)
          /\ UNCHANGED <<orderState, payments>>
    /\ UNCHANGED <<total, mollieRef, mollie, saves, edits, faults, amended>>

\* An administrator settles an authorized payment.
AdminSettle(a, i) ==
    /\ actor[a].step = "idle"
    /\ payments[i].state = "Authorized"
    /\ actor' = [actor EXCEPT ![a] = [Idle EXCEPT !.step = "capture", !.id = payments[i].mollie,
                                                  !.payment = i]]
    /\ UNCHANGED <<shopVars, mollie, pending, saves, edits, faults, amended>>

-----------------------------------------------------------------------------
(* createPaymentIntent.                                                     *)

\* The order is read and checked, and the amount still to pay computed. An
\* order with nothing left to pay gets a Settled payment of 0; a negative
\* amount is refused by Mollie, which changes nothing.
StartIntent(a) ==
    LET next == CASE AmountToPay = 0 /\ orderState \in Arranging -> "addPayment"
                  [] AmountToPay = 0 /\ orderState \notin Arranging -> "transition"
                  [] AmountToPay # 0 /\ mollieRef # NoMollie -> "update"
                  [] AmountToPay # 0 /\ mollieRef = NoMollie -> "create"
    IN
    /\ actor[a].step = "idle"
    /\ orderState \in Arranging \cup {"AddingItems", "Draft"}
    /\ AmountToPay \in 0 .. MaxTotal
    /\ actor' = [actor EXCEPT ![a] =
                    [Idle EXCEPT !.step = next, !.amount = AmountToPay,
                                 !.id = IF next = "update" THEN mollieRef ELSE NoMollie]]
    /\ UNCHANGED <<shopVars, mollie, pending, saves, edits, faults, amended>>

\* updateMollieOrder: the lines of an open Mollie order are replaced by those
\* of the order, and its checkout url is returned. Without such a url a new
\* Mollie order is created.
UpdateMollieOrder(a) ==
    LET m == actor[a].id IN
    /\ actor[a].step = "update"
    /\ \/ /\ mollie[m].status = "created"
          /\ mollie' = [mollie EXCEPT ![m].amount = actor[a].amount]
          /\ actor' = [actor EXCEPT ![a] = Idle]
       \/ /\ mollie[m].status # "created"
          /\ actor' = [actor EXCEPT ![a].step = "create", ![a].id = NoMollie]
          /\ UNCHANGED mollie
    /\ UNCHANGED <<shopVars, pending, saves, edits, faults, amended>>

\* orders.create, and the start of the custom-field update nobody awaits.
CreateMollieOrder(a, m) ==
    /\ actor[a].step = "create"
    /\ mollie[m].status = "none"
    /\ mollie' = [mollie EXCEPT ![m] = [status |-> "created", amount |-> actor[a].amount]]
    /\ saves' = saves \cup {m}
    /\ actor' = [actor EXCEPT ![a] = Idle]
    /\ UNCHANGED <<shopVars, pending, edits, faults, amended>>

\* updateCustomFields(ctx, order.id, { mollieOrderId }) completes.
SaveMollieRef(m) ==
    /\ m \in saves
    /\ mollieRef' = m
    /\ saves' = saves \ {m}
    /\ UNCHANGED <<orderState, total, payments, mollie, pending, actor, edits, faults, amended>>

-----------------------------------------------------------------------------
(* The customer at Mollie, and Mollie's dashboard.                          *)

MollieMoves == {<<"created", "paid">>, <<"created", "authorized">>, <<"created", "expired">>,
                <<"created", "canceled">>, <<"authorized", "completed">>}

MollieStatusChange(m) ==
    \E move \in MollieMoves :
        /\ mollie[m].status = move[1]
        /\ mollie' = [mollie EXCEPT ![m].status = move[2]]
        /\ pending' = pending \cup {<<m, move[2]>>}
        /\ UNCHANGED <<shopVars, saves, actor, edits, faults, amended>>

-----------------------------------------------------------------------------
(* The owner of the order, and the administrators of the shop.             *)

IntentStarted == \/ \E m \in MollieIds : mollie[m].status # "none"
                 \/ \E s \in Shoppers : actor[s].step # "idle"

EditLines ==
    /\ orderState \in {"AddingItems", "Draft"}
    /\ edits < MaxEdits
    /\ \E t \in (0 .. MaxTotal) \ {total} : total' = t
    /\ edits' = edits + 1
    /\ amended' = (amended \/ IntentStarted)
    /\ UNCHANGED <<orderState, mollieRef, payments, mollie, pending, saves, actor, faults>>

\* The storefront moves the order to the checkout and back to the cart.
Checkout ==
    /\ \/ orderState = "AddingItems" /\ orderState' = "ArrangingPayment"
       \/ orderState = "ArrangingPayment" /\ orderState' = "AddingItems"
    /\ edits < MaxEdits
    /\ edits' = edits + 1
    /\ UNCHANGED <<total, mollieRef, payments, mollie, pending, saves, actor, faults, amended>>

\* An administrator adds to an order that was already paid for.
ModifyOrder ==
    /\ orderState \in {"PaymentSettled", "PaymentAuthorized"}
    /\ edits < MaxEdits
    /\ \E t \in 0 .. MaxTotal : t > total /\ total' = t
    /\ orderState' = "ArrangingAdditionalPayment"
    /\ edits' = edits + 1
    /\ amended' = TRUE
    /\ UNCHANGED <<mollieRef, payments, mollie, pending, saves, actor, faults>>

CancelOrder ==
    /\ orderState # "Cancelled"
    /\ edits < MaxEdits
    /\ orderState' = "Cancelled"
    /\ edits' = edits + 1
    /\ UNCHANGED <<total, mollieRef, payments, mollie, pending, saves, actor, faults, amended>>

-----------------------------------------------------------------------------
(* Faults: a call to the shop's database or to Mollie fails, the process    *)
(* stops, or Mollie repeats a notification that was already answered.       *)

Fault == faults < MaxFaults /\ faults' = faults + 1

RequestFails(a) ==
    /\ actor[a].step # "idle"
    /\ Fault
    /\ actor' = [actor EXCEPT ![a] = Idle]
    /\ UNCHANGED <<shopVars, mollie, pending, saves, edits, amended>>

\* One of the two calls of updateMollieOrder fails; the lines may have been
\* replaced all the same. The error is logged and a new Mollie order created.
UpdateFails(a) ==
    LET m == actor[a].id IN
    /\ actor[a].step = "update"
    /\ Fault
    /\ actor' = [actor EXCEPT ![a].step = "create", ![a].id = NoMollie]
    /\ \/ UNCHANGED mollie
       \/ /\ mollie[m].status = "created"
          /\ mollie' = [mollie EXCEPT ![m].amount = actor[a].amount]
    /\ UNCHANGED <<shopVars, pending, saves, edits, amended>>

SaveFails(m) ==
    /\ m \in saves
    /\ Fault
    /\ saves' = saves \ {m}
    /\ UNCHANGED <<shopVars, mollie, pending, actor, edits, amended>>

RepeatNotification(m) ==
    /\ mollie[m].status \notin {"none", "created"}
    /\ <<m, mollie[m].status>> \notin pending
    /\ Fault
    /\ pending' = pending \cup {<<m, mollie[m].status>>}
    /\ UNCHANGED <<shopVars, mollie, saves, actor, edits, amended>>

-----------------------------------------------------------------------------
HandleWebhook(a) == GetMollieOrder(a) \/ FindOrder(a)

RunRequest(a) ==
    \/ TransitionToArranging(a)
    \/ AddPayment(a)
    \/ Capture(a)
    \/ Ship(a)
    \/ Settle(a)
    \/ UpdateMollieOrder(a)
    \/ \E m \in MollieIds : CreateMollieOrder(a, m)
    \/ HandleWebhook(a)

Next ==
    \/ \E a \in Webhooks, n \in pending : Deliver(a, n)
    \/ \E a \in Actors : RunRequest(a)
    \/ \E a \in Admins, i \in DOMAIN payments : AdminSettle(a, i)
    \/ \E a \in Shoppers : StartIntent(a)
    \/ \E m \in MollieIds : SaveMollieRef(m) \/ MollieStatusChange(m)
    \/ EditLines \/ Checkout \/ ModifyOrder \/ CancelOrder
    \/ \E a \in Actors : RequestFails(a) \/ UpdateFails(a)
    \/ \E m \in MollieIds : SaveFails(m) \/ RepeatNotification(m)

Spec == Init /\ [][Next]_vars
-----------------------------------------------------------------------------
(* Properties.                                                              *)

\* The state the shop's order, Mollie and the requests can be in: addPayment
\* only ever stores the states createPayment returns.
TypeOK ==
    /\ orderState \in OrderStates
    /\ total \in 0 .. MaxTotal
    /\ mollieRef \in MollieIds \cup {NoMollie}
    /\ payments \in Seq(Payment)
    /\ mollie \in [MollieIds -> [status : MollieStatus, amount : 0 .. MaxTotal]]
    /\ pending \in SUBSET (MollieIds \X MollieStatus)
    /\ saves \in SUBSET MollieIds
    /\ actor \in [Actors -> Request]
    /\ edits \in 0 .. MaxEdits
    /\ faults \in 0 .. MaxFaults
    /\ amended \in BOOLEAN

Captured == {"paid", "completed"}
Committed == Captured \cup {"authorized"}

\* Every payment the shop has recorded for a Mollie order is backed by money at
\* Mollie: the order was authorized or paid there for exactly that amount, and
\* a Settled payment was paid or captured, whatever the webhooks and the
\* administrators read before they recorded it.
PaymentsBacked ==
    \A i \in DOMAIN payments :
        LET p == payments[i] IN
        /\ p.mollie = NoMollie => p.amount = 0 /\ p.state = "Settled"
        /\ p.mollie # NoMollie =>
              /\ mollie[p.mollie].status \in Committed
              /\ mollie[p.mollie].amount = p.amount
              /\ p.state = "Settled" => mollie[p.mollie].status \in Captured

\* What a request carries between two steps stays true however long it waits:
\* the id of a Mollie order where one is needed, a status and an amount that
\* Mollie cannot take back, and a payment of that Mollie order to settle. With
\* TypeOK and PaymentsBacked this is inductive.
RequestBacked(a) ==
    LET r == actor[a] IN
    /\ r.step \in {"getMollieOrder", "findOrder", "capture", "ship", "settle", "update"}
          => r.id \in MollieIds
    /\ r.step \in {"findOrder", "transition", "addPayment"} /\ r.id # NoMollie =>
          /\ r.status \in Committed => /\ mollie[r.id].status \in Committed
                                      /\ mollie[r.id].amount = r.amount
          /\ r.status \in Captured => mollie[r.id].status \in Captured
    /\ r.step \in {"transition", "addPayment"} =>
          IF r.id = NoMollie THEN r.amount = 0 /\ r.status = "none"
                             ELSE r.status \in {"paid", "authorized"}
    /\ r.step \in {"capture", "ship", "settle"} => r.payment \in Recorded(r.id)
    /\ r.step = "settle" => mollie[r.id].status = "completed"

RequestsBacked == \A a \in Actors : RequestBacked(a)

\* An order whose total never changed once an intent was started gets one
\* payment at most, for its full total, however many webhooks, intents and
\* settlements run at once, fail half-way or are repeated.
UnamendedOrderIsPaidOnce ==
    ~amended =>
        /\ Len(payments) <= 1
        /\ \A i \in DOMAIN payments : payments[i].amount = total

\* createPayment's comment: "a mollie order equals a payment". No Mollie order
\* is recorded as two payments of the shop's order.
OnePaymentPerMollieOrder ==
    \A i, j \in DOMAIN payments :
        payments[i].mollie = payments[j].mollie /\ payments[i].mollie # NoMollie => i = j

\* A request runs to its end, and Mollie delivers a notification of money again
\* until it is answered. Nobody else is obliged to do anything.
Fairness ==
    /\ \A m \in MollieIds, s \in {"paid", "authorized", "completed"} :
          SF_vars(\E a \in Webhooks : Deliver(a, <<m, s>>))
    /\ \A a \in Actors : WF_vars(RunRequest(a))

FairSpec == Spec /\ Fairness

\* A paid Mollie order is not forgotten: it is recorded as a payment unless the
\* shop's order has left the states that take one.
PaidIsRecorded ==
    \A m \in MollieIds :
        mollie[m].status = "paid" ~>
            (Recorded(m) # {} \/ orderState \in {"PaymentAuthorized", "PaymentSettled", "Cancelled"})

\* A payment authorized in the shop and captured at Mollie, by the plugin, by
\* an administrator or in Mollie's dashboard, ends up Settled in the shop, as
\* long as the order stays PaymentAuthorized.
CapturedIsSettled ==
    \A m \in MollieIds :
        (mollie[m].status = "completed" /\ Recorded(m) # {}) ~>
            (\/ \E i \in Recorded(m) : payments[i].state = "Settled"
             \/ orderState # "PaymentAuthorized")

\* The plugin's documentation: after the hosted checkout a pay-later order is
\* PaymentAuthorized, and captured at once with autoCapture.
AuthorizedIsRecorded ==
    \A m \in MollieIds :
        mollie[m].status = "authorized" ~>
            (\/ Recorded(m) # {}
             \/ orderState \in {"PaymentAuthorized", "PaymentSettled", "Cancelled"}
             \/ mollie[m].status = "completed")

\* The autoCapture argument: "Automatically capture payments immediately after
\* authorization."
AutoCaptured ==
    \A m \in MollieIds :
        (AutoCapture /\ mollie[m].status = "authorized" /\ Recorded(m) # {}) ~>
            (mollie[m].status # "authorized" \/ orderState = "Cancelled")

\* The plugin's documentation: paying for an order that grew while the payment
\* was open leaves it in ArrangingAdditionalPayment.
PartialPaymentAsksForMore ==
    [][(/\ Len(payments') > Len(payments)
        /\ payments'[Len(payments')].mollie # NoMollie
        /\ PaidBy(payments', {"Authorized", "Settled"}) < total)
          => orderState' = "ArrangingAdditionalPayment"]_vars
=============================================================================
