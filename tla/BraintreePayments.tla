-------------------------- MODULE BraintreePayments --------------------------
(***************************************************************************)
(* The Braintree half of the payments plugin, for one order of one         *)
(* customer: addPaymentToOrder mutations that reach createPayment of the   *)
(* handler, and client tokens.  The mutation runs in a transaction of the  *)
(* shop, so what it saves is undone when it throws; what it did at         *)
(* Braintree is not.                                                       *)
(*                                                                         *)
(* The shop's OrderService, TypeORM and Braintree are outside the          *)
(* repository: they are modelled by what the plugin relies on.             *)
(***************************************************************************)
EXTENDS Integers, FiniteSets

CONSTANTS
    Requests,       \* concurrent mutations and queries
    Nonces,         \* payment methods the storefront hands over: each can be used once
    Undefined,      \* no Braintree customer
    MaxPayments,    \* bound: addPaymentToOrder mutations
    MaxFaults       \* bound: calls that fail, changes of the Braintree account

VARIABLES
    settled,        \* the order's payments in state Settled, by nonce
    declined,       \* the order's payments in state Declined or Error
    orderState,     \* Order.state
    savedId,        \* Customer.customFields.braintreeCustomerId
    customers,      \* Braintree: how many customers were created for the customer
    known,          \* Braintree: those the account still knows
    charged,        \* Braintree: nonces money was taken for
    used,           \* Braintree: nonces that were used
    request,        \* the local state of every request
    made,           \* mutations made so far
    faults,         \* faults so far
    history         \* whether payments overlapped, whether an answer to a sale was lost

shop == <<settled, declined, orderState, savedId>>
braintree == <<customers, known, charged, used>>
vars == <<settled, declined, orderState, savedId, customers, known, charged, used, request,
          made, faults, history>>

Outcomes == {"none", "Settled", "Declined", "Error"}

Idle == [step |-> "idle", nonce |-> Undefined, id |-> Undefined, fresh |-> FALSE, outcome |-> "none"]

Init ==
    /\ settled = {} /\ declined = {}
    /\ orderState = "ArrangingPayment"
    /\ savedId = Undefined
    /\ customers = 0 /\ known = {}
    /\ charged = {} /\ used = {}
    /\ request = [r \in Requests |-> Idle]
    /\ made = 0 /\ faults = 0
    /\ history = [overlapped |-> FALSE, lost |-> FALSE]

Fault ==
    /\ faults < MaxFaults
    /\ faults' = faults + 1

Goto(r, step) == request' = [request EXCEPT ![r].step = step]

-----------------------------------------------------------------------------
(* createPayment.                                                           *)

\* A slip of MayPay: an order that is paid for takes payments.
MayPayAgain == TRUE

MayPay == orderState = "ArrangingPayment"

\* addPaymentToOrder reads the order, and the handler hydrates its customer.
\* vault: storeCustomersInBraintree, a user is logged in, and includeCustomerId
\* was not false.
Pay(r, nonce, vault) ==
    /\ request[r].step = "idle"
    /\ MayPay
    /\ made < MaxPayments
    /\ made' = made + 1
    /\ request' = [request EXCEPT ![r] =
          [step |-> IF vault /\ savedId = Undefined THEN "createCustomer" ELSE "sale",
           nonce |-> nonce, id |-> IF vault THEN savedId ELSE Undefined,
           fresh |-> FALSE, outcome |-> "none"]]
    /\ history' = [history EXCEPT !.overlapped = @ \/ \E q \in Requests : request[q].nonce # Undefined]
    /\ UNCHANGED <<shop, braintree, faults>>

\* getBraintreeCustomerId: nobody looks for a customer Braintree has already.
CreateCustomer(r) ==
    /\ request[r].step = "createCustomer"
    /\ customers' = customers + 1
    /\ known' = known \cup {customers + 1}
    /\ request' = [request EXCEPT ![r].step = "sale", ![r].id = customers + 1, ![r].fresh = TRUE]
    /\ UNCHANGED <<shop, charged, used, made, faults, history>>

\* A refusal and an exception are logged, and the sale goes on without a
\* customer.
CreateCustomerFails(r) ==
    /\ request[r].step = "createCustomer"
    /\ Fault
    /\ Goto(r, "sale")
    /\ UNCHANGED <<shop, braintree, made, history>>

\* transaction.sale is refused without a transaction: the nonce was used, or
\* the account does not know the customer.
Invalid(r) ==
    \/ request[r].nonce \in used
    \/ request[r].id # Undefined /\ request[r].id \notin known

\* A slip of Outcome: the answer's success is not looked at.
OutcomeUnread(success) == "Settled"

\* What processPayment makes of Braintree's answer.
Outcome(success) == IF success THEN "Settled" ELSE "Declined"

\* The sale is answered: the money was taken, or the card was declined.
Sale(r, success) ==
    /\ request[r].step = "sale"
    /\ ~Invalid(r)
    /\ used' = used \cup {request[r].nonce}
    /\ charged' = IF success THEN charged \cup {request[r].nonce} ELSE charged
    /\ request' = [request EXCEPT ![r].step = "record", ![r].outcome = Outcome(success)]
    /\ UNCHANGED <<shop, customers, known, made, faults, history>>

\* What becomes of a request whose sale threw. processPayment is returned, not
\* awaited, inside the try: its catch, which would make a payment of state
\* Error, is not reached, and the mutation is rolled back.
AfterThrow == Idle

\* An answer without a transaction: reading its metadata throws.
SaleInvalid(r) ==
    /\ request[r].step = "sale"
    /\ Invalid(r)
    /\ request' = [request EXCEPT ![r] = AfterThrow]
    /\ UNCHANGED <<shop, braintree, made, faults, history>>

\* The call to Braintree fails, and the money may have been taken.
SaleFails(r, taken) ==
    /\ request[r].step = "sale"
    /\ Fault
    /\ taken => ~Invalid(r)
    /\ used' = IF taken THEN used \cup {request[r].nonce} ELSE used
    /\ charged' = IF taken THEN charged \cup {request[r].nonce} ELSE charged
    /\ history' = [history EXCEPT !.lost = @ \/ taken]
    /\ request' = [request EXCEPT ![r] = AfterThrow]
    /\ UNCHANGED <<shop, customers, known, made>>

\* The transaction commits: the payment, the customer's id, and the state of
\* an order whose total is covered.
Record(r) ==
    LET q == request[r] IN
    /\ q.step = "record"
    /\ settled' = IF q.outcome = "Settled" THEN settled \cup {q.nonce} ELSE settled
    /\ declined' = IF q.outcome = "Settled" THEN declined ELSE declined \cup {q.nonce}
    /\ orderState' = IF q.outcome = "Settled" THEN "PaymentSettled" ELSE orderState
    /\ savedId' = IF q.fresh THEN q.id ELSE savedId
    /\ request' = [request EXCEPT ![r] = Idle]
    /\ UNCHANGED <<braintree, made, faults, history>>

-----------------------------------------------------------------------------
(* generateBraintreeClientToken.                                            *)

\* The id is read, and a token asked for. With an id the account does not know
\* (or a caller that wants none) there is more to do.
Token(r, include) ==
    /\ request[r].step = "idle"
    /\ request' = IF include /\ savedId # Undefined /\ savedId \notin known
                  THEN [request EXCEPT ![r] = [Idle EXCEPT !.step = "clearCustomer"]]
                  ELSE request
    /\ UNCHANGED <<shop, braintree, made, faults, history>>

\* TypeORM's save skips properties that are undefined.
SavedValue(old, new) == IF new = Undefined THEN old ELSE new

\* braintreeCustomerId = undefined; save(customer). Then a token without a
\* customer.
ClearCustomer(r) ==
    /\ request[r].step = "clearCustomer"
    /\ savedId' = SavedValue(savedId, Undefined)
    /\ request' = [request EXCEPT ![r] = Idle]
    /\ UNCHANGED <<settled, declined, orderState, braintree, made, faults, history>>

-----------------------------------------------------------------------------
\* The shop is pointed at another account, from the sandbox to production.
SwitchAccount ==
    /\ Fault
    /\ known # {}
    /\ known' = {}
    /\ UNCHANGED <<shop, customers, charged, used, request, made, history>>

\* The process stops, or the transaction cannot commit.
Crash(r) ==
    /\ request[r].step # "idle"
    /\ Fault
    /\ request' = [request EXCEPT ![r] = Idle]
    /\ history' = [history EXCEPT !.lost = @ \/ request[r].outcome = "Settled"]
    /\ UNCHANGED <<shop, braintree, made>>

RequestStep(r) ==
    \/ \E nonce \in Nonces, vault \in BOOLEAN : Pay(r, nonce, vault)
    \/ CreateCustomer(r) \/ CreateCustomerFails(r)
    \/ \E success \in BOOLEAN : Sale(r, success)
    \/ SaleInvalid(r)
    \/ \E taken \in BOOLEAN : SaleFails(r, taken)
    \/ Record(r)
    \/ \E include \in BOOLEAN : Token(r, include)
    \/ ClearCustomer(r) \/ Crash(r)

Next ==
    \/ \E r \in Requests : RequestStep(r)
    \/ SwitchAccount

Spec == Init /\ [][Next]_vars

-----------------------------------------------------------------------------
(* Properties.                                                              *)

\* The shop's records, Braintree's and the requests keep their types, and a
\* request that holds an outcome has sold.
TypeOK ==
    /\ settled \in SUBSET Nonces /\ declined \in SUBSET Nonces
    /\ orderState \in {"ArrangingPayment", "PaymentSettled"}
    /\ customers \in Nat
    /\ savedId \in (1 .. customers) \cup {Undefined}
    /\ known \in SUBSET (1 .. customers)
    /\ charged \in SUBSET used /\ used \in SUBSET Nonces
    /\ request \in [Requests ->
          [step : {"idle", "createCustomer", "sale", "record", "clearCustomer"},
           nonce : Nonces \cup {Undefined}, id : (1 .. customers) \cup {Undefined},
           fresh : BOOLEAN, outcome : Outcomes]]
    /\ made \in Nat /\ faults \in Nat
    /\ history \in [overlapped : BOOLEAN, lost : BOOLEAN]

Recording == {request[r].nonce : r \in {r \in Requests : request[r].outcome = "Settled"}}

\* The shop has a settled payment exactly for the money Braintree took, once
\* the mutations under way are done: money without a payment needs an answer
\* that was lost or a transaction that was rolled back after the sale.
MoneyIsRecorded ==
    /\ settled \subseteq charged
    /\ charged # settled \cup Recording => history.lost

\* A customer is charged a second time only when two payments overlapped, or
\* after money was taken and its payment lost.
ChargedOnce ==
    Cardinality(charged) > 1 => history.overlapped \/ history.lost

\* The comment in generateBraintreeClientToken: an id the account does not know
\* is removed, and "a new one [is] generated when the payment is created".
UnknownCustomerIsRemoved ==
    [][\A r \in Requests : ClearCustomer(r) => savedId' = Undefined]_vars
=============================================================================
