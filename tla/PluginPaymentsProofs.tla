------------------------ MODULE PluginPaymentsProofs -------------------------
(*****************************************************************************)
(* What is proved of Stripe and Braintree, beside each other and beside the  *)
(* other plugins: that the customer is charged and the order paid once.      *)
(*****************************************************************************)
EXTENDS Plugins, FiniteSetTheorems, TLAPS

-----------------------------------------------------------------------------
(* Stripe.                                                                   *)

\* Cardinality is the same inside the module.
LEMMA StripeCounts == \A S : Stripe!Cardinality(S) = Cardinality(S)
BY DEF Stripe!Cardinality, Cardinality

\* The local state of a request for an intent, of a webhook request, and what is
\* kept of the past.
StripeRequestState ==
    [step : Stripe!RequestSteps, total : Totals \cup {0}, customer : (1 .. stripeCustomers)
      \cup {NoCustomer}]

StripeHandlerState ==
    [step : Stripe!HandlerSteps, event : Stripe!Event, arranging : BOOLEAN,
     state : {"none", "ArrangingPayment", "PaymentSettled"}]

StripeHistoryState ==
    [amended : BOOLEAN, moved : BOOLEAN, raced : BOOLEAN, overlapped : BOOLEAN,
      partial : SUBSET Nat]

\* An amount in the minor unit is a number.
LEMMA MinorIsNat == ASSUME NEW t \in Nat PROVE Stripe!Minor(t) \in Nat
<1>1. CASE HasFraction
  BY <1>1 DEF Stripe!Minor
<1>2. CASE ~HasFraction
  <2>1. (t + 50) \div 100 \in Nat
    OBVIOUS
  <2> QED
    BY <1>2, <2>1 DEF Stripe!Minor
<1> QED
  BY <1>1, <1>2

LEMMA StripeTypeInit == Stripe!Init => Stripe!TypeOK
<1> SUFFICES ASSUME Stripe!Init PROVE Stripe!TypeOK
  OBVIOUS
<1>1. stripeIntents = <<>> /\ DOMAIN stripeIntents = {} /\ stripeIntents \in Seq(Stripe!Intent)
  BY DEF Stripe!Init
<1>2. stripePayments \in Seq(DOMAIN stripeIntents)
  BY DEF Stripe!Init
<1>3. stripeOrder \in [state : Stripe!OrderStates, total : Totals, complete : BOOLEAN]
  BY DEF Stripe!Init, Stripe!OrderStates
<1>4. stripeRequest \in [Requests -> StripeRequestState]
  BY DEF Stripe!Init, Stripe!IdleRequest, StripeRequestState, Stripe!RequestSteps
<1>5. stripeHandler \in [Handlers -> StripeHandlerState]
  BY DEF Stripe!Init, Stripe!IdleHandler, StripeHandlerState, Stripe!HandlerSteps, Stripe!Event
<1>6. stripeHistory \in StripeHistoryState
  BY DEF Stripe!Init, StripeHistoryState
<1> QED
  BY <1>1, <1>2, <1>3, <1>4, <1>5, <1>6
     DEF Stripe!Init, Stripe!TypeOK, StripeRequestState, StripeHandlerState,
         StripeHistoryState, Stripe!IdleHandler

\* The steps of the shopper.
LEMMA ShopperKeepsTypes ==
    ASSUME Stripe!TypeOK, Stripe!Shopper
    PROVE  Stripe!TypeOK'
<1>1. UNCHANGED <<stripePayments, stripeSavedCustomer, stripeCustomers, stripeIntents,
        stripePending, stripeRequest, stripeHandler, stripeMade, stripeFaults>>
  BY DEF Stripe!Shopper, Stripe!Amend, Stripe!CompleteCheckout, Stripe!Move, Stripe!stripe
<1>2. stripeOrder' \in [state : Stripe!OrderStates, total : Totals, complete : BOOLEAN]
  BY DEF Stripe!TypeOK, Stripe!Shopper, Stripe!Amend, Stripe!CompleteCheckout, Stripe!Move
<1>3. stripeHistory' \in StripeHistoryState
  BY DEF Stripe!TypeOK, Stripe!Shopper, Stripe!Amend, Stripe!CompleteCheckout, Stripe!Move,
         Stripe!Moved, StripeHistoryState, Stripe!SomethingPaid
<1> QED
  BY <1>1, <1>2, <1>3 DEF Stripe!TypeOK, StripeHistoryState, Stripe!IntentEvents

\* A request goes on, and the number of customers may grow.
LEMMA RequestKeepsTypes ==
    ASSUME Stripe!TypeOK, stripeRequest' \in [Requests -> StripeRequestState'],
           stripeCustomers' \in Nat,
           stripeSavedCustomer' \in (1 .. stripeCustomers') \cup {NoCustomer},
           stripeMade' \in Nat, stripeFaults' \in Nat,
           stripeHistory' \in StripeHistoryState,
           UNCHANGED <<stripeOrder, stripePayments, stripeIntents, stripePending,
             stripeHandler>>
    PROVE  Stripe!TypeOK'
BY DEF Stripe!TypeOK, StripeHistoryState, Stripe!IntentEvents, StripeRequestState

\* One step of a request for an intent.
LEMMA RequestStepKeepsTypes ==
    ASSUME Stripe!TypeOK, NEW r \in Requests, Stripe!RequestStep(r)
    PROVE  Stripe!TypeOK'
<1> USE DEF Stripe!shop, Stripe!stripe
<1>0. /\ stripeRequest \in [Requests -> StripeRequestState]
           /\ stripeHistory \in StripeHistoryState
      /\ stripeCustomers \in Nat /\ stripeSavedCustomer \in (1 .. stripeCustomers)
           \cup {NoCustomer}
      /\ stripeMade \in Nat /\ stripeFaults \in Nat
  BY DEF Stripe!TypeOK, StripeRequestState, StripeHistoryState
<1>1. ASSUME NEW loggedIn \in BOOLEAN, Stripe!Begin(r, loggedIn) PROVE Stripe!TypeOK'
  <2>1. stripeRequest' \in [Requests -> StripeRequestState']
    BY <1>0, <1>1 DEF Stripe!Begin, Stripe!TypeOK, StripeRequestState, Stripe!RequestSteps
  <2>2. stripeHistory' \in StripeHistoryState
    BY <1>1 DEF Stripe!TypeOK, Stripe!Begin, StripeHistoryState
  <2> QED
    BY <1>0, <1>1, <2>1, <2>2, RequestKeepsTypes DEF Stripe!Begin
<1>2. CASE Stripe!FindCustomer(r)
  <2> DEFINE mine == stripeRequest[r]
             step == IF stripeSavedCustomer = NoCustomer THEN "listCustomers"
               ELSE "createIntent"
             customer == stripeSavedCustomer
  <2>2. mine \in StripeRequestState /\ StripeRequestState \subseteq StripeRequestState'
    BY <1>0, <1>2 DEF Stripe!FindCustomer, StripeRequestState
  <2>3. step \in Stripe!RequestSteps /\ customer \in (1 .. stripeCustomers') \cup {NoCustomer}
    BY <1>0, <1>2 DEF Stripe!FindCustomer, Stripe!RequestSteps
  <2>4. stripeRequest' =
          [stripeRequest EXCEPT ![r] = [mine EXCEPT !.step = step, !.customer = customer]]
    BY <1>2 DEF Stripe!FindCustomer
  <2>5. stripeRequest' \in [Requests -> StripeRequestState']
    <3> HIDE DEF mine, step, customer
    <3>1. [mine EXCEPT !.step = step, !.customer = customer] \in StripeRequestState'
      BY <2>2, <2>3 DEF StripeRequestState
    <3> QED
      BY <1>0, <2>2, <2>4, <3>1
  <2> HIDE DEF mine, step, customer
  <2> QED
    BY <1>0, <1>2, <2>5, RequestKeepsTypes DEF Stripe!FindCustomer
<1>3. CASE Stripe!ListCustomers(r)
  <2> DEFINE mine == stripeRequest[r]
             step == IF Stripe!Listed = NoCustomer THEN "createCustomer" ELSE "saveCustomer"
             customer == Stripe!Listed
  <2>2. mine \in StripeRequestState /\ StripeRequestState \subseteq StripeRequestState'
    BY <1>0, <1>3 DEF Stripe!ListCustomers, StripeRequestState
  <2>3. step \in Stripe!RequestSteps /\ customer \in (1 .. stripeCustomers') \cup {NoCustomer}
    BY <1>0, <1>3 DEF Stripe!ListCustomers, Stripe!Listed, Stripe!RequestSteps
  <2>4. stripeRequest' =
          [stripeRequest EXCEPT ![r] = [mine EXCEPT !.step = step, !.customer = customer]]
    BY <1>3 DEF Stripe!ListCustomers
  <2>5. stripeRequest' \in [Requests -> StripeRequestState']
    <3> HIDE DEF mine, step, customer
    <3>1. [mine EXCEPT !.step = step, !.customer = customer] \in StripeRequestState'
      BY <2>2, <2>3 DEF StripeRequestState
    <3> QED
      BY <1>0, <2>2, <2>4, <3>1
  <2> HIDE DEF mine, step, customer
  <2> QED
    BY <1>0, <1>3, <2>5, RequestKeepsTypes DEF Stripe!ListCustomers
<1>4. CASE Stripe!CreateCustomer(r)
  <2> DEFINE mine == stripeRequest[r]
             step == "saveCustomer"
             customer == stripeCustomers + 1
  <2>1. stripeCustomers' = stripeCustomers + 1
    BY <1>4 DEF Stripe!CreateCustomer
  <2>2. mine \in StripeRequestState /\ StripeRequestState \subseteq StripeRequestState'
    BY <1>0, <1>4, <2>1 DEF Stripe!CreateCustomer, StripeRequestState
  <2>3. step \in Stripe!RequestSteps /\ customer \in (1 .. stripeCustomers') \cup {NoCustomer}
    BY <1>0, <1>4, <2>1 DEF Stripe!CreateCustomer, Stripe!RequestSteps
  <2>4. stripeRequest' =
          [stripeRequest EXCEPT ![r] = [mine EXCEPT !.step = step, !.customer = customer]]
    BY <1>4 DEF Stripe!CreateCustomer
  <2>5. stripeRequest' \in [Requests -> StripeRequestState']
    <3> HIDE DEF mine, step, customer
    <3>1. [mine EXCEPT !.step = step, !.customer = customer] \in StripeRequestState'
      BY <2>2, <2>3 DEF StripeRequestState
    <3> QED
      BY <1>0, <2>2, <2>4, <3>1
  <2> HIDE DEF mine, step, customer
  <2>6. stripeSavedCustomer' \in (1 .. stripeCustomers') \cup {NoCustomer}
    BY <1>0, <1>4, <2>1 DEF Stripe!CreateCustomer
  <2> QED
    BY <1>0, <1>4, <2>1, <2>5, <2>6, RequestKeepsTypes DEF Stripe!CreateCustomer
<1>5. CASE Stripe!SaveCustomer(r)
  <2>1. stripeRequest' \in [Requests -> StripeRequestState']
    BY <1>0, <1>5 DEF Stripe!SaveCustomer, StripeRequestState, Stripe!RequestSteps
  <2>2. stripeSavedCustomer' \in (1 .. stripeCustomers') \cup {NoCustomer}
    BY <1>0, <1>5 DEF Stripe!SaveCustomer, StripeRequestState
  <2> QED
    BY <1>0, <1>5, <2>1, <2>2, RequestKeepsTypes DEF Stripe!SaveCustomer
<1>6. CASE Stripe!CreateIntent(r)
  <2> DEFINE key == Stripe!IdempotencyKey(stripeRequest[r].total)
             new == [key |-> key, customer |-> stripeRequest[r].customer, paid |-> FALSE]
  <2>0. stripeRequest[r].total \in Nat /\ stripeRequest[r].customer \in Nat \cup {NoCustomer}
    <3>1. stripeRequest[r] \in StripeRequestState
      BY <1>0
    <3>2. stripeRequest[r].total \in Totals \cup {0}
            /\ stripeRequest[r].customer \in (1 .. stripeCustomers) \cup {NoCustomer}
      BY <3>1 DEF StripeRequestState
    <3>3. stripeRequest[r].total \in Nat
      <4> DEFINE total == stripeRequest[r].total
      <4>1. total \in Totals \cup {0}
        BY <3>2
      <4> HIDE DEF total
      <4>2. total \in Nat
        BY <4>1, StripeAssumption
      <4> QED
        BY <4>2 DEF total
    <3>4. 1 .. stripeCustomers \subseteq Nat
      BY <1>0
    <3> QED
      BY <3>2, <3>3, <3>4
  <2>1. new \in Stripe!Intent
    BY <2>0, MinorIsNat DEF Stripe!Intent, Stripe!IdempotencyKey
  <2>2. stripeIntents' = stripeIntents \/ stripeIntents' = Append(stripeIntents, new)
    BY <1>6 DEF Stripe!CreateIntent
  <2> HIDE DEF new
  <2>3. stripeIntents' \in Seq(Stripe!Intent)
          /\ DOMAIN stripeIntents \subseteq DOMAIN stripeIntents'
    <3>1. stripeIntents \in Seq(Stripe!Intent)
      BY DEF Stripe!TypeOK
    <3> QED
      BY <2>1, <2>2, <3>1
  <2>4. stripePayments' \in Seq(DOMAIN stripeIntents')
    BY <1>6, <2>3 DEF Stripe!CreateIntent, Stripe!TypeOK
  <2>5. Stripe!IntentEvents \subseteq Stripe!IntentEvents'
    BY <2>3 DEF Stripe!IntentEvents
  <2>6. stripeRequest' \in [Requests -> StripeRequestState']
    BY <1>6
       DEF Stripe!CreateIntent, Stripe!TypeOK, StripeRequestState, Stripe!RequestSteps,
           Stripe!IdleRequest
  <2> QED
    BY <1>6, <2>3, <2>4, <2>5, <2>6 DEF Stripe!CreateIntent, Stripe!TypeOK, StripeRequestState
<1>7. CASE Stripe!RequestThrows(r)
  <2>1. stripeRequest' \in [Requests -> StripeRequestState']
    BY <1>0, <1>7
       DEF Stripe!RequestThrows, Stripe!IdleRequest, StripeRequestState, Stripe!RequestSteps
  <2> QED
    BY <1>0, <1>7, <2>1, RequestKeepsTypes DEF Stripe!RequestThrows, Stripe!Fault
<1> QED
  BY <1>1, <1>2, <1>3, <1>4, <1>5, <1>6, <1>7 DEF Stripe!RequestStep

\* Stripe takes the money, or does not.
LEMMA StripePaysKeepsTypes ==
    ASSUME Stripe!TypeOK, NEW i \in DOMAIN stripeIntents, Stripe!Pay(i)
             \/ Stripe!PaymentFails(i)
    PROVE  Stripe!TypeOK'
<1>1. UNCHANGED <<stripeOrder, stripePayments, stripeSavedCustomer, stripeCustomers,
        stripeRequest, stripeHandler, stripeMade>> /\ stripeFaults' \in Nat
  BY DEF Stripe!Pay, Stripe!PaymentFails, Stripe!shop, Stripe!Fault, Stripe!TypeOK
<1>2. stripeIntents' \in Seq(Stripe!Intent) /\ DOMAIN stripeIntents' = DOMAIN stripeIntents
  <2>1. stripeIntents \in Seq(Stripe!Intent)
    BY DEF Stripe!TypeOK
  <2>2. stripeIntents[i] \in Stripe!Intent
          /\ [stripeIntents[i] EXCEPT !.paid = TRUE] \in Stripe!Intent
    <3>1. stripeIntents[i] \in Stripe!Intent
      BY <2>1
    <3> QED
      BY <3>1 DEF Stripe!Intent
  <2>3. stripeIntents' = stripeIntents
          \/ stripeIntents' =
          [stripeIntents EXCEPT ![i] = [stripeIntents[i] EXCEPT !.paid = TRUE]]
    BY DEF Stripe!Pay, Stripe!PaymentFails
  <2>4. \A k \in 1 .. Len(stripeIntents) : stripeIntents[k] \in Stripe!Intent
    BY <2>1
  <2>5. CASE stripeIntents' =
               [stripeIntents EXCEPT ![i] = [stripeIntents[i] EXCEPT !.paid = TRUE]]
    <3>1. DOMAIN stripeIntents' = 1 .. Len(stripeIntents)
            /\ \A k \in 1 .. Len(stripeIntents) : stripeIntents'[k] \in Stripe!Intent
      BY <2>1, <2>2, <2>4, <2>5
    <3>2. Len(stripeIntents) \in Nat /\ DOMAIN stripeIntents = 1 .. Len(stripeIntents)
      BY <2>1
    <3>3. stripeIntents' = [k \in DOMAIN stripeIntents |-> stripeIntents'[k]]
      BY <2>5
    <3> QED
      BY <3>1, <3>2, <3>3
  <2> QED
    BY <2>1, <2>3, <2>5
<1>3. stripePending' \in SUBSET Stripe!IntentEvents'
  BY <1>2 DEF Stripe!Pay, Stripe!PaymentFails, Stripe!TypeOK, Stripe!IntentEvents
<1>4. stripeHistory' \in StripeHistoryState
  BY DEF Stripe!Pay, Stripe!PaymentFails, Stripe!TypeOK, StripeHistoryState, Stripe!Moved,
         Stripe!SomethingPaid
<1> QED
  BY <1>1, <1>2, <1>3, <1>4 DEF Stripe!TypeOK, StripeHistoryState, Stripe!IntentEvents

\* The events of the intents that exist are events.
LEMMA EventsAreEvent == Stripe!TypeOK => Stripe!IntentEvents \subseteq Stripe!Event
BY DEF Stripe!TypeOK, Stripe!IntentEvents, Stripe!Event

\* A webhook request goes on.
LEMMA HandlerKeepsTypes ==
    ASSUME Stripe!TypeOK, stripeHandler' \in [Handlers -> StripeHandlerState],
           \A g \in Handlers : stripeHandler'[g].step # "idle"
             => stripeHandler'[g].event \in Stripe!IntentEvents,
           stripeOrder' \in [state : Stripe!OrderStates, total : Totals, complete : BOOLEAN],
           stripePayments' \in Seq(DOMAIN stripeIntents),
           stripePending' \in SUBSET Stripe!IntentEvents, stripeFaults' \in Nat,
           stripeHistory' \in StripeHistoryState,
           UNCHANGED <<stripeSavedCustomer, stripeCustomers, stripeIntents, stripeRequest,
             stripeMade>>
    PROVE  Stripe!TypeOK'
BY DEF Stripe!TypeOK, StripeHistoryState, Stripe!IntentEvents, StripeHandlerState

\* Webhook requests have the fields of one.
LEMMA HandlerFunction == Stripe!TypeOK => stripeHandler \in [Handlers -> StripeHandlerState]
BY DEF Stripe!TypeOK, StripeHandlerState

\* What Goto does, and what it leaves alone.
LEMMA GotoFacts ==
    ASSUME Stripe!TypeOK, NEW h \in Handlers, NEW step \in Stripe!HandlerSteps,
           NEW state \in {"none", "ArrangingPayment", "PaymentSettled"},
                 Stripe!Goto(h, step, state)
    PROVE  /\ stripeHandler' \in [Handlers -> StripeHandlerState]
           /\ stripeHandler'[h].step = step /\ stripeHandler'[h].state = state
           /\ stripeHandler'[h].event = stripeHandler[h].event
           /\ \A g \in Handlers \ {h} : stripeHandler'[g] = stripeHandler[g]
<1> DEFINE mine == stripeHandler[h]
           next == [[[mine EXCEPT !.step = step] EXCEPT !.state =
             state] EXCEPT !.arranging = FALSE]
<1>1. stripeHandler \in [Handlers -> StripeHandlerState] /\ mine \in StripeHandlerState
  BY HandlerFunction DEF StripeHandlerState
<1>2. stripeHandler' = [stripeHandler EXCEPT ![h] = next]
  BY DEF Stripe!Goto
<1> HIDE DEF mine
<1>3. next \in StripeHandlerState /\ next.step = step /\ next.state = state
        /\ next.event = mine.event
  BY <1>1 DEF StripeHandlerState
<1> HIDE DEF next
<1>4. /\ stripeHandler' \in [Handlers -> StripeHandlerState] /\ stripeHandler'[h] = next
      /\ \A g \in Handlers \ {h} : stripeHandler'[g] = stripeHandler[g]
  BY <1>1, <1>2, <1>3
<1> QED
  BY <1>3, <1>4 DEF mine

\* A webhook request is over, or a new one begins.
LEMMA IdleHandlerType == Stripe!IdleHandler \in StripeHandlerState
    /\ Stripe!IdleHandler.step = "idle"
BY DEF Stripe!IdleHandler, StripeHandlerState, Stripe!HandlerSteps, Stripe!Event

\* An answered webhook request is idle again.
LEMMA AcknowledgeFacts ==
    ASSUME Stripe!TypeOK, NEW h \in Handlers, Stripe!Acknowledge(h)
    PROVE  /\ stripeHandler' \in [Handlers -> StripeHandlerState]
                /\ stripeHandler'[h].step = "idle"
           /\ \A g \in Handlers \ {h} : stripeHandler'[g] = stripeHandler[g]
           /\ stripePending' \in SUBSET Stripe!IntentEvents
BY HandlerFunction, IdleHandlerType DEF Stripe!Acknowledge, Stripe!TypeOK

\* A webhook request that arrives.
LEMMA ReceiveFacts ==
    ASSUME Stripe!TypeOK, NEW h \in Handlers, NEW e \in Stripe!IntentEvents, Stripe!Receive(h, e)
             \/ Stripe!Redeliver(h, e)
    PROVE  /\ stripeHandler' \in [Handlers -> StripeHandlerState]
           /\ stripeHandler'[h].step = "verify" /\ stripeHandler'[h].event = e
           /\ \A g \in Handlers \ {h} : stripeHandler'[g] = stripeHandler[g]
           /\ stripePending' \in SUBSET Stripe!IntentEvents /\ stripeFaults' \in Nat
           /\ stripeHistory' = [stripeHistory EXCEPT !.overlapped = @ \/ Stripe!Busy # {}]
           /\ UNCHANGED <<stripeOrder, stripePayments, stripeSavedCustomer, stripeCustomers,
                stripeIntents, stripeRequest, stripeMade>>
<1>1. e \in Stripe!Event
  BY EventsAreEvent
<1>2. Stripe!Found(e) \in StripeHandlerState /\ Stripe!Found(e).step = "verify"
        /\ Stripe!Found(e).event = e
  BY <1>1 DEF Stripe!Found, StripeHandlerState, Stripe!HandlerSteps
<1>3. stripeHandler' = [stripeHandler EXCEPT ![h] = Stripe!Found(e)]
  BY DEF Stripe!Receive, Stripe!Redeliver
<1>4. stripeHandler \in [Handlers -> StripeHandlerState]
  BY HandlerFunction
<1>5. /\ stripeHandler' \in [Handlers -> StripeHandlerState]
           /\ stripeHandler'[h] = Stripe!Found(e)
      /\ \A g \in Handlers \ {h} : stripeHandler'[g] = stripeHandler[g]
  BY <1>2, <1>3, <1>4
<1>6. /\ stripePending' \in SUBSET Stripe!IntentEvents /\ stripeFaults' \in Nat
      /\ stripeHistory' = [stripeHistory EXCEPT !.overlapped = @ \/ Stripe!Busy # {}]
      /\ UNCHANGED <<stripeOrder, stripePayments, stripeSavedCustomer, stripeCustomers,
           stripeIntents, stripeRequest, stripeMade>>
  BY DEF Stripe!Receive, Stripe!Redeliver, Stripe!Overlap, Stripe!Fault, Stripe!shop,
         Stripe!stripe, Stripe!TypeOK
<1> QED
  BY <1>2, <1>5, <1>6

LEMMA ReceiveKeepsTypes ==
    ASSUME Stripe!TypeOK, NEW h \in Handlers, NEW e \in Stripe!IntentEvents, Stripe!Receive(h, e)
             \/ Stripe!Redeliver(h, e)
    PROVE  Stripe!TypeOK'
<1>1. \A g \in Handlers : stripeHandler'[g].step # "idle"
        => stripeHandler'[g].event \in Stripe!IntentEvents
  <2>1. stripeHandler'[h].event \in Stripe!IntentEvents
    BY ReceiveFacts
  <2>2. \A g \in Handlers \ {h} : stripeHandler'[g] = stripeHandler[g]
    BY ReceiveFacts
  <2>3. \A g \in Handlers : stripeHandler[g].step # "idle"
          => stripeHandler[g].event \in Stripe!IntentEvents
    BY DEF Stripe!TypeOK
  <2> QED
    BY <2>1, <2>2, <2>3
<1>2. stripeHistory \in StripeHistoryState
  BY DEF Stripe!TypeOK, StripeHistoryState
<1>3. stripeHistory' \in StripeHistoryState
  BY <1>2, ReceiveFacts DEF StripeHistoryState
<1>4. stripeOrder \in [state : Stripe!OrderStates, total : Totals, complete : BOOLEAN]
        /\ stripePayments \in Seq(DOMAIN stripeIntents)
  BY DEF Stripe!TypeOK
<1> QED
  BY <1>1, <1>3, <1>4, ReceiveFacts, HandlerKeepsTypes

\* One step of a webhook request.
LEMMA HandlerStepKeepsTypes ==
    ASSUME Stripe!TypeOK, NEW h \in Handlers, Stripe!HandlerStep(h) \/ Stripe!HandlerThrows(h)
    PROVE  Stripe!TypeOK'
<1> USE DEF Stripe!shop, Stripe!stripe
<1>0. /\ stripeOrder \in [state : Stripe!OrderStates, total : Totals, complete : BOOLEAN]
      /\ stripePayments \in Seq(DOMAIN stripeIntents)
      /\ stripePending \in SUBSET Stripe!IntentEvents
      /\ stripeHistory \in StripeHistoryState /\ stripeFaults \in Nat
      /\ \A g \in Handlers : stripeHandler[g].step # "idle"
           => stripeHandler[g].event \in Stripe!IntentEvents
  BY DEF Stripe!TypeOK, StripeHistoryState
<1>a. ASSUME Stripe!Acknowledge(h)
      PROVE  \A g \in Handlers : stripeHandler'[g].step # "idle"
               => stripeHandler'[g].event \in Stripe!IntentEvents
  BY <1>0, <1>a, AcknowledgeFacts
<1>g. ASSUME stripeHandler[h].step # "idle", NEW step \in Stripe!HandlerSteps,
             NEW state \in {"none", "ArrangingPayment", "PaymentSettled"},
                   Stripe!Goto(h, step, state)
      PROVE  \A g \in Handlers : stripeHandler'[g].step # "idle"
               => stripeHandler'[g].event \in Stripe!IntentEvents
  BY <1>0, <1>g, GotoFacts
<1>h. stripeHandler[h] \in StripeHandlerState
        /\ stripeHandler[h].state \in {"none", "ArrangingPayment", "PaymentSettled"}
  <2>1. stripeHandler[h] \in StripeHandlerState
    BY HandlerFunction
  <2> QED
    BY <2>1 DEF StripeHandlerState
<1>1. CASE Stripe!Verify(h)
  <2>1. CASE Stripe!Acknowledge(h)
    BY <1>0, <1>1, <1>a, <2>1, AcknowledgeFacts, HandlerKeepsTypes DEF Stripe!Verify
  <2>2. CASE /\ Stripe!Goto(h, IF stripeHandler[h].arranging THEN "addPayment"
                  ELSE "transition", "none")
             /\ UNCHANGED stripePending
    <3> DEFINE step == IF stripeHandler[h].arranging THEN "addPayment" ELSE "transition"
    <3>1. step \in Stripe!HandlerSteps /\ stripeHandler[h].step # "idle"
            /\ Stripe!Goto(h, step, "none")
      BY <1>1, <2>2 DEF Stripe!HandlerSteps, Stripe!Verify
    <3> HIDE DEF step
    <3>2. /\ stripeHandler' \in [Handlers -> StripeHandlerState]
          /\ \A g \in Handlers : stripeHandler'[g].step # "idle"
               => stripeHandler'[g].event \in Stripe!IntentEvents
      BY <1>g, <3>1, GotoFacts
    <3> QED
      BY <1>0, <1>1, <2>2, <3>2, HandlerKeepsTypes DEF Stripe!Verify
  <2> QED
    BY <1>1, <2>1, <2>2 DEF Stripe!Verify
<1>2. CASE Stripe!Transition(h)
  <2>1. CASE Stripe!Acknowledge(h)
    BY <1>0, <1>2, <1>a, <2>1, AcknowledgeFacts, HandlerKeepsTypes DEF Stripe!Transition
  <2>2. CASE Stripe!Goto(h, "addPayment", "ArrangingPayment") /\ UNCHANGED stripePending
    <3>1. "addPayment" \in Stripe!HandlerSteps /\ stripeHandler[h].step # "idle"
      BY <1>2 DEF Stripe!HandlerSteps, Stripe!Transition
    <3>2. /\ stripeHandler' \in [Handlers -> StripeHandlerState]
          /\ \A g \in Handlers : stripeHandler'[g].step # "idle"
               => stripeHandler'[g].event \in Stripe!IntentEvents
      BY <1>g, <2>2, <3>1, GotoFacts
    <3> QED
      BY <1>0, <1>2, <2>2, <3>2, HandlerKeepsTypes DEF Stripe!Transition
  <2> QED
    BY <1>2, <2>1, <2>2 DEF Stripe!Transition
<1>3. CASE Stripe!AddPayment(h)
  <2> DEFINE i == stripeHandler[h].event[2]
             state == IF Stripe!Covered(Append(stripePayments, i)) THEN "PaymentSettled"
               ELSE stripeHandler[h].state
  <2>0. UNCHANGED <<stripeOrder, stripePayments, stripeSavedCustomer, stripeCustomers,
          stripeIntents, stripeRequest, stripeMade, stripeFaults>>
    BY <1>3 DEF Stripe!AddPayment
  <2>1. CASE Stripe!Acknowledge(h) /\ UNCHANGED stripeHistory
    BY <1>0, <1>a, <2>0, <2>1, AcknowledgeFacts, HandlerKeepsTypes
  <2>2. CASE /\ Stripe!Goto(h, "commit", state) /\ UNCHANGED stripePending
             /\ stripeHistory' =
                  [stripeHistory EXCEPT !.partial =
                  IF Stripe!Covered(Append(stripePayments, i)) THEN @ ELSE @ \cup {i}]
    <3>1. "commit" \in Stripe!HandlerSteps /\ stripeHandler[h].step # "idle"
      BY <1>3 DEF Stripe!HandlerSteps, Stripe!AddPayment
    <3>2. state \in {"none", "ArrangingPayment", "PaymentSettled"}
      BY <1>h
    <3>3. i \in Nat
      <4>1. stripeHandler[h].event \in Stripe!Event
        BY <1>h DEF StripeHandlerState
      <4> QED
        BY <4>1 DEF Stripe!Event
    <3>4. stripeHistory' \in StripeHistoryState
      <4> HIDE DEF i
      <4> QED
        BY <1>0, <2>2, <3>3 DEF StripeHistoryState
    <3> HIDE DEF i, state
    <3>5. /\ stripeHandler' \in [Handlers -> StripeHandlerState]
          /\ \A g \in Handlers : stripeHandler'[g].step # "idle"
               => stripeHandler'[g].event \in Stripe!IntentEvents
      BY <1>g, <2>2, <3>1, <3>2, GotoFacts
    <3> QED
      BY <1>0, <2>0, <2>2, <3>4, <3>5, HandlerKeepsTypes
  <2> QED
    BY <1>3, <2>1, <2>2 DEF Stripe!AddPayment
<1>4. CASE Stripe!Commit(h)
  <2>1. /\ Stripe!Goto(h, "answer", "none") /\ stripeHandler[h].step # "idle"
             /\ "answer" \in Stripe!HandlerSteps
        /\ stripeHandler[h].event \in Stripe!IntentEvents
    BY <1>0, <1>4 DEF Stripe!Commit, Stripe!HandlerSteps
  <2>2. /\ stripeHandler' \in [Handlers -> StripeHandlerState]
        /\ \A g \in Handlers : stripeHandler'[g].step # "idle"
             => stripeHandler'[g].event \in Stripe!IntentEvents
    BY <1>g, <2>1, GotoFacts
  <2>3. Stripe!StateSeen(h) \in Stripe!OrderStates
    BY <1>0, <1>h DEF Stripe!StateSeen, Stripe!OrderStates
  <2>4. stripeOrder' \in [state : Stripe!OrderStates, total : Totals, complete : BOOLEAN]
    BY <1>0, <1>4, <2>3 DEF Stripe!Commit
  <2>5. stripeHandler[h].event[2] \in DOMAIN stripeIntents
    BY <2>1 DEF Stripe!IntentEvents
  <2>6. stripePayments' \in Seq(DOMAIN stripeIntents)
    BY <1>0, <1>4, <2>5 DEF Stripe!Commit
  <2> QED
    BY <1>0, <1>4, <2>2, <2>4, <2>6, HandlerKeepsTypes DEF Stripe!Commit
<1>5. CASE Stripe!Answer(h)
  BY <1>0, <1>5, <1>a, AcknowledgeFacts, HandlerKeepsTypes DEF Stripe!Answer
<1>6. CASE Stripe!HandlerThrows(h)
  <2>1. stripeHandler' = [stripeHandler EXCEPT ![h] = Stripe!IdleHandler]
    BY <1>6 DEF Stripe!HandlerThrows
  <2>2. /\ stripeHandler' \in [Handlers -> StripeHandlerState]
        /\ \A g \in Handlers : stripeHandler'[g].step # "idle"
             => stripeHandler'[g].event \in Stripe!IntentEvents
    BY <1>0, <2>1, IdleHandlerType, HandlerFunction
  <2> QED
    BY <1>0, <1>6, <2>2, HandlerKeepsTypes
       DEF Stripe!HandlerThrows, Stripe!AfterThrow, Stripe!Fault
<1> QED
  BY <1>1, <1>2, <1>3, <1>4, <1>5, <1>6 DEF Stripe!HandlerStep

\* Every step keeps the types.
LEMMA StripeTypeStep == Stripe!TypeOK /\ [Stripe!Next]_(Stripe!vars) => Stripe!TypeOK'
<1> SUFFICES ASSUME Stripe!TypeOK, [Stripe!Next]_(Stripe!vars) PROVE Stripe!TypeOK'
  OBVIOUS
<1>1. CASE UNCHANGED Stripe!vars
  BY <1>1 DEF Stripe!vars, Stripe!TypeOK, Stripe!IntentEvents
<1>2. CASE Stripe!Next
  BY <1>2, ShopperKeepsTypes, RequestStepKeepsTypes, StripePaysKeepsTypes, ReceiveKeepsTypes,
     HandlerStepKeepsTypes DEF Stripe!Next
<1> QED
  BY <1>1, <1>2

\* One customer at Stripe: while no two requests overlap, the only one at work
\* creates a customer when there is none.
OneCustomer ==
    ~stripeHistory.raced =>
        /\ \A r, s \in Requests :
              stripeRequest[r].step # "idle" /\ stripeRequest[s].step # "idle" => r = s
        /\ \A r \in Requests : stripeRequest[r].step = "createCustomer" => stripeCustomers = 0
        /\ stripeCustomers <= 1

LEMMA OneCustomerInit == Stripe!Init => OneCustomer
BY DEF Stripe!Init, OneCustomer, Stripe!IdleRequest

\* What a step of a request does to the steps of all.
LEMMA RequestStepFacts ==
    ASSUME Stripe!TypeOK, NEW r \in Requests, Stripe!RequestStep(r)
    PROVE  /\ \A s \in Requests \ {r} : stripeRequest'[s] = stripeRequest[s]
           /\ stripeRequest[r].step = "idle"
                => \E loggedIn \in BOOLEAN : Stripe!Begin(r, loggedIn)
           /\ stripeRequest'[r].step = "createCustomer" => Stripe!ListCustomers(r)
           /\ stripeCustomers' # stripeCustomers => Stripe!CreateCustomer(r)
<1>0. stripeRequest \in [Requests -> StripeRequestState]
  BY DEF Stripe!TypeOK, StripeRequestState
<1>1. CASE \E loggedIn \in BOOLEAN : Stripe!Begin(r, loggedIn)
  <2>1. PICK loggedIn \in BOOLEAN : Stripe!Begin(r, loggedIn)
    BY <1>1
  <2>2. stripeCustomers' = stripeCustomers
    BY <2>1 DEF Stripe!Begin, Stripe!stripe
  <2>3. /\ \A s \in Requests \ {r} : stripeRequest'[s] = stripeRequest[s]
        /\ stripeRequest'[r].step # "createCustomer"
    BY <1>0, <2>1 DEF Stripe!Begin
  <2> QED
    BY <1>1, <2>2, <2>3
<1>2. CASE Stripe!FindCustomer(r)
  <2>1. stripeRequest[r].step # "idle" /\ stripeCustomers' = stripeCustomers
    BY <1>2 DEF Stripe!FindCustomer, Stripe!stripe
  <2>2. /\ \A s \in Requests \ {r} : stripeRequest'[s] = stripeRequest[s]
        /\ stripeRequest'[r].step \in {"listCustomers", "createIntent"}
    BY <1>0, <1>2 DEF Stripe!FindCustomer, StripeRequestState
  <2> QED
    BY <2>1, <2>2
<1>3. CASE Stripe!ListCustomers(r)
  BY <1>0, <1>3 DEF Stripe!ListCustomers, Stripe!stripe
<1>4. CASE Stripe!CreateCustomer(r)
  <2>1. stripeRequest[r].step # "idle"
    BY <1>4 DEF Stripe!CreateCustomer
  <2>2. /\ \A s \in Requests \ {r} : stripeRequest'[s] = stripeRequest[s]
        /\ stripeRequest'[r].step = "saveCustomer"
    BY <1>0, <1>4 DEF Stripe!CreateCustomer, StripeRequestState
  <2> QED
    BY <1>4, <2>1, <2>2
<1>5. CASE Stripe!SaveCustomer(r)
  <2>1. stripeRequest[r].step # "idle" /\ stripeCustomers' = stripeCustomers
    BY <1>5 DEF Stripe!SaveCustomer, Stripe!stripe
  <2>2. /\ \A s \in Requests \ {r} : stripeRequest'[s] = stripeRequest[s]
        /\ stripeRequest'[r].step = "createIntent"
    BY <1>0, <1>5 DEF Stripe!SaveCustomer, StripeRequestState
  <2> QED
    BY <2>1, <2>2
<1>6. CASE Stripe!CreateIntent(r) \/ Stripe!RequestThrows(r)
  <2>1. stripeRequest[r].step # "idle" /\ stripeCustomers' = stripeCustomers
    BY <1>6 DEF Stripe!CreateIntent, Stripe!RequestThrows, Stripe!stripe
  <2>2. /\ \A s \in Requests \ {r} : stripeRequest'[s] = stripeRequest[s]
        /\ stripeRequest'[r].step = "idle"
    BY <1>0, <1>6 DEF Stripe!CreateIntent, Stripe!RequestThrows, Stripe!IdleRequest
  <2> QED
    BY <2>1, <2>2
<1> QED
  BY <1>1, <1>2, <1>3, <1>4, <1>5, <1>6 DEF Stripe!RequestStep

\* What the steps that are not of a request leave alone.
LEMMA OtherStepsFacts ==
    ASSUME Stripe!TypeOK,
           \/ Stripe!Shopper
           \/ \E i \in DOMAIN stripeIntents : Stripe!Pay(i) \/ Stripe!PaymentFails(i)
           \/ \E h \in Handlers : \/ \E e \in Stripe!IntentEvents :
                                      Stripe!Receive(h, e) \/ Stripe!Redeliver(h, e)
                                  \/ Stripe!HandlerStep(h) \/ Stripe!HandlerThrows(h)
    PROVE  UNCHANGED <<stripeRequest, stripeCustomers>>
             /\ stripeHistory'.raced = stripeHistory.raced
<1> USE DEF Stripe!shop, Stripe!stripe
<1>0. stripeHistory \in StripeHistoryState
  BY DEF Stripe!TypeOK, StripeHistoryState
<1>1. CASE Stripe!Shopper
  BY <1>0, <1>1
     DEF Stripe!Shopper, Stripe!Amend, Stripe!CompleteCheckout, Stripe!Move, Stripe!Moved,
         StripeHistoryState
<1>2. CASE \E i \in DOMAIN stripeIntents : Stripe!Pay(i) \/ Stripe!PaymentFails(i)
  BY <1>0, <1>2 DEF Stripe!Pay, Stripe!PaymentFails, Stripe!Moved, StripeHistoryState
<1>3. ASSUME NEW h \in Handlers, NEW e \in Stripe!IntentEvents, Stripe!Receive(h, e)
                   \/ Stripe!Redeliver(h, e)
      PROVE  UNCHANGED <<stripeRequest, stripeCustomers>>
               /\ stripeHistory'.raced = stripeHistory.raced
  BY <1>0, <1>3 DEF Stripe!Receive, Stripe!Redeliver, Stripe!Overlap, StripeHistoryState
<1>4. ASSUME NEW h \in Handlers, Stripe!HandlerStep(h)
      PROVE  UNCHANGED <<stripeRequest, stripeCustomers>>
               /\ stripeHistory'.raced = stripeHistory.raced
  BY <1>0, <1>4
     DEF Stripe!HandlerStep, Stripe!Verify, Stripe!Transition, Stripe!AddPayment,
         Stripe!Commit, Stripe!Answer, StripeHistoryState
<1>5. ASSUME NEW h \in Handlers, Stripe!HandlerThrows(h)
      PROVE  UNCHANGED <<stripeRequest, stripeCustomers>>
               /\ stripeHistory'.raced = stripeHistory.raced
  BY <1>5 DEF Stripe!HandlerThrows
<1> QED
  BY <1>1, <1>2, <1>3, <1>4, <1>5

\* A customer is created by a request that found none and is alone.
LEMMA OneCustomerStep ==
    Stripe!TypeOK /\ OneCustomer /\ [Stripe!Next]_(Stripe!vars) => OneCustomer'
<1> SUFFICES ASSUME Stripe!TypeOK, OneCustomer, [Stripe!Next]_(Stripe!vars) PROVE OneCustomer'
  OBVIOUS
<1>1. CASE UNCHANGED Stripe!vars
  BY <1>1 DEF Stripe!vars, OneCustomer
<1>2. CASE \/ Stripe!Shopper
           \/ \E i \in DOMAIN stripeIntents : Stripe!Pay(i) \/ Stripe!PaymentFails(i)
           \/ \E h \in Handlers : \/ \E e \in Stripe!IntentEvents :
                                      Stripe!Receive(h, e) \/ Stripe!Redeliver(h, e)
                                  \/ Stripe!HandlerStep(h) \/ Stripe!HandlerThrows(h)
  BY <1>2, OtherStepsFacts DEF OneCustomer
<1>3. ASSUME NEW r \in Requests, Stripe!RequestStep(r) PROVE OneCustomer'
  <2>0. stripeHistory \in StripeHistoryState /\ stripeCustomers \in Nat
    BY DEF Stripe!TypeOK, StripeHistoryState
  <2>1. CASE \E loggedIn \in BOOLEAN : Stripe!Begin(r, loggedIn)
    <3>1. stripeCustomers' = stripeCustomers /\ stripeRequest'[r].step # "createCustomer"
      <4>1. stripeRequest \in [Requests -> StripeRequestState]
        BY DEF Stripe!TypeOK, StripeRequestState
      <4> QED
        BY <2>1, <4>1 DEF Stripe!Begin, Stripe!stripe
    <3>2. stripeHistory'.raced = (stripeHistory.raced
            \/ \E s \in Requests \ {r} : stripeRequest[s].step # "idle")
      BY <2>0, <2>1 DEF Stripe!Begin, StripeHistoryState
    <3>3. \A s \in Requests \ {r} : stripeRequest'[s] = stripeRequest[s]
      BY <1>3, RequestStepFacts
    <3> SUFFICES ASSUME ~stripeHistory.raced,
                          \A s \in Requests \ {r} : stripeRequest[s].step = "idle"
                 PROVE  OneCustomer'
      BY <3>2 DEF OneCustomer
    <3>4. stripeCustomers <= 1 /\ \A s \in Requests \ {r} : stripeRequest'[s].step = "idle"
      BY <3>3 DEF OneCustomer
    <3> QED
      BY <3>1, <3>4 DEF OneCustomer
  <2>2. CASE stripeRequest[r].step # "idle"
    <3>1. stripeHistory'.raced = stripeHistory.raced
      BY <1>3, <2>2
         DEF Stripe!RequestStep, Stripe!Begin, Stripe!FindCustomer, Stripe!ListCustomers,
             Stripe!CreateCustomer, Stripe!SaveCustomer,
         Stripe!CreateIntent, Stripe!RequestThrows
    <3> SUFFICES ASSUME ~stripeHistory.raced
                 PROVE  /\ \A s, t \in Requests : stripeRequest'[s].step # "idle"
                             /\ stripeRequest'[t].step # "idle" => s = t
                        /\ \A s \in Requests : stripeRequest'[s].step = "createCustomer"
                             => stripeCustomers' = 0
                        /\ stripeCustomers' <= 1
      BY <3>1 DEF OneCustomer
    <3>2. \A s \in Requests \ {r} : stripeRequest'[s].step = "idle"
      BY <1>3, <2>2, RequestStepFacts DEF OneCustomer
    <3>3. ASSUME stripeRequest'[r].step = "createCustomer" PROVE stripeCustomers' = 0
      <4>1. Stripe!ListCustomers(r)
        BY <1>3, <3>3, RequestStepFacts
      <4>2. Stripe!Listed = NoCustomer
        <5>1. stripeRequest \in [Requests -> StripeRequestState]
          BY DEF Stripe!TypeOK, StripeRequestState
        <5>2. stripeRequest'[r].step = IF Stripe!Listed = NoCustomer THEN "createCustomer"
                ELSE "saveCustomer"
          BY <4>1, <5>1 DEF Stripe!ListCustomers, StripeRequestState
        <5> QED
          BY <3>3, <5>2
      <4>3. stripeCustomers = 0
        BY <2>0, <4>2, StripeAssumption DEF Stripe!Listed
      <4> QED
        BY <4>1, <4>3 DEF Stripe!ListCustomers, Stripe!stripe
    <3>4. stripeCustomers' <= 1
      <4>1. CASE stripeCustomers' = stripeCustomers
        BY <4>1 DEF OneCustomer
      <4>2. CASE stripeCustomers' # stripeCustomers
        <5>1. stripeRequest[r].step = "createCustomer" /\ stripeCustomers' = stripeCustomers + 1
          BY <1>3, <4>2, RequestStepFacts DEF Stripe!CreateCustomer
        <5>2. stripeCustomers = 0
          BY <5>1 DEF OneCustomer
        <5> QED
          BY <5>1, <5>2
      <4> QED
        BY <4>1, <4>2
    <3> QED
      BY <3>2, <3>3, <3>4
  <2> QED
    BY <1>3, <2>1, <2>2, RequestStepFacts
<1> QED
  BY <1>1, <1>2, <1>3 DEF Stripe!Next

LEMMA OneCustomerSuffices == Stripe!TypeOK /\ OneCustomer => Stripe!OneStripeCustomer
BY DEF Stripe!TypeOK, OneCustomer, Stripe!OneStripeCustomer

\* While the order is not amended, every request has its total, and one intent
\* bears it.
OneIntent ==
    ~stripeHistory.amended =>
        /\ \A r \in Requests :
              stripeRequest[r].step # "idle" => stripeRequest[r].total = stripeOrder.total
        /\ \A i \in DOMAIN stripeIntents : stripeIntents[i].key = Stripe!Minor(stripeOrder.total)
        /\ Len(stripeIntents) <= 1

LEMMA OneIntentInit == Stripe!Init => OneIntent
BY DEF Stripe!Init, OneIntent, Stripe!IdleRequest

\* The steps that neither amend the order nor touch a request or an intent's key.
LEMMA OneIntentKept ==
    ASSUME OneIntent, stripeRequest' = stripeRequest,
             stripeHistory'.amended = stripeHistory.amended,
             stripeOrder'.total = stripeOrder.total,
           DOMAIN stripeIntents' = DOMAIN stripeIntents,
             Len(stripeIntents') = Len(stripeIntents),
           \A i \in DOMAIN stripeIntents : stripeIntents'[i].key = stripeIntents[i].key
    PROVE  OneIntent'
BY DEF OneIntent

\* An intent is created with the key of the total that did not change.
LEMMA OneIntentStep ==
    Stripe!TypeOK /\ OneIntent /\ [Stripe!Next]_(Stripe!vars) => OneIntent'
<1> SUFFICES ASSUME Stripe!TypeOK, OneIntent, [Stripe!Next]_(Stripe!vars) PROVE OneIntent'
  OBVIOUS
<1> USE DEF Stripe!shop, Stripe!stripe
<1>0. /\ stripeOrder \in [state : Stripe!OrderStates, total : Totals, complete : BOOLEAN]
      /\ stripeHistory \in StripeHistoryState /\ stripeIntents \in Seq(Stripe!Intent)
           /\ stripeRequest \in [Requests -> StripeRequestState]
  BY DEF Stripe!TypeOK, StripeHistoryState, StripeRequestState
<1>1. CASE UNCHANGED Stripe!vars
  BY <1>1 DEF Stripe!vars, OneIntent
<1>2. ASSUME NEW t \in Totals, Stripe!Amend(t) PROVE OneIntent'
  BY <1>0, <1>2 DEF Stripe!Amend, OneIntent, StripeHistoryState
<1>3. ASSUME Stripe!CompleteCheckout \/ \E state \in Stripe!OrderStates : Stripe!Move(state)
               PROVE OneIntent'
  <2>1. /\ UNCHANGED <<stripeRequest, stripeIntents>>
        /\ stripeHistory'.amended = stripeHistory.amended
             /\ stripeOrder'.total = stripeOrder.total
    BY <1>0, <1>3 DEF Stripe!CompleteCheckout, Stripe!Move, Stripe!Moved, StripeHistoryState
  <2> QED
    BY <2>1, OneIntentKept
<1>4. ASSUME NEW r \in Requests, Stripe!RequestStep(r) PROVE OneIntent'
  <2>0. stripeOrder' = stripeOrder /\ stripeHistory'.amended = stripeHistory.amended
    BY <1>0, <1>4
       DEF Stripe!RequestStep, Stripe!Begin, Stripe!FindCustomer, Stripe!ListCustomers,
           Stripe!CreateCustomer, Stripe!SaveCustomer,
       Stripe!CreateIntent, Stripe!RequestThrows, StripeHistoryState
  <2>1. \A s \in Requests \ {r} : stripeRequest'[s] = stripeRequest[s]
    BY <1>4, RequestStepFacts
  <2>2. \/ stripeRequest'[r].step = "idle"
        \/ stripeRequest'[r].total = stripeOrder.total
        \/ stripeRequest[r].step # "idle" /\ stripeRequest'[r].total = stripeRequest[r].total
    <3>1. CASE \E loggedIn \in BOOLEAN : Stripe!Begin(r, loggedIn)
      <4>1. PICK loggedIn \in BOOLEAN : Stripe!Begin(r, loggedIn)
        BY <3>1
      <4>2. stripeRequest'[r] = [step |-> IF loggedIn THEN "findCustomer" ELSE "createIntent",
                           total |-> stripeOrder.total, customer |-> NoCustomer]
        BY <1>0, <4>1 DEF Stripe!Begin
      <4>3. stripeRequest'[r].total = stripeOrder.total
        BY <4>2
      <4> QED
        BY <4>3
    <3>2. CASE Stripe!FindCustomer(r) \/ Stripe!ListCustomers(r) \/ Stripe!CreateCustomer(r)
                 \/ Stripe!SaveCustomer(r)
      <4> DEFINE mine == stripeRequest[r]
      <4>1. mine \in StripeRequestState /\ mine.step # "idle"
        BY <1>0, <3>2
           DEF Stripe!FindCustomer, Stripe!ListCustomers, Stripe!CreateCustomer,
               Stripe!SaveCustomer
      <4>4. stripeRequest'[r].total = mine.total
        <5>1. CASE Stripe!FindCustomer(r)
          <6> DEFINE step == IF stripeSavedCustomer = NoCustomer THEN "listCustomers"
                       ELSE "createIntent"
          <6>1. stripeRequest' =
                  [stripeRequest EXCEPT ![r] = [mine EXCEPT !.step = step,
                  !.customer = stripeSavedCustomer]]
            BY <5>1 DEF Stripe!FindCustomer
          <6> HIDE DEF mine, step
          <6>2. [mine EXCEPT !.step = step, !.customer = stripeSavedCustomer].total = mine.total
            BY <4>1 DEF StripeRequestState
          <6> QED
            BY <1>0, <6>1, <6>2
        <5>2. CASE Stripe!ListCustomers(r)
          <6> DEFINE step == IF Stripe!Listed = NoCustomer THEN "createCustomer"
                       ELSE "saveCustomer"
          <6>1. stripeRequest' =
                  [stripeRequest EXCEPT ![r] = [mine EXCEPT !.step = step,
                  !.customer = Stripe!Listed]]
            BY <5>2 DEF Stripe!ListCustomers
          <6> HIDE DEF mine, step
          <6>2. [mine EXCEPT !.step = step, !.customer = Stripe!Listed].total = mine.total
            BY <4>1 DEF StripeRequestState
          <6> QED
            BY <1>0, <6>1, <6>2
        <5>3. CASE Stripe!CreateCustomer(r)
          <6>1. stripeRequest' =
                  [stripeRequest EXCEPT ![r] = [mine EXCEPT !.step = "saveCustomer",
                  !.customer = stripeCustomers + 1]]
            BY <5>3 DEF Stripe!CreateCustomer
          <6> HIDE DEF mine
          <6>2. [mine EXCEPT !.step = "saveCustomer",
                  !.customer = stripeCustomers + 1].total = mine.total
            BY <4>1 DEF StripeRequestState
          <6> QED
            BY <1>0, <6>1, <6>2
        <5>4. CASE Stripe!SaveCustomer(r)
          <6>1. stripeRequest' =
                  [stripeRequest EXCEPT ![r] = [mine EXCEPT !.step = "createIntent"]]
            BY <5>4 DEF Stripe!SaveCustomer
          <6> HIDE DEF mine
          <6>2. [mine EXCEPT !.step = "createIntent"].total = mine.total
            BY <4>1 DEF StripeRequestState
          <6> QED
            BY <1>0, <6>1, <6>2
        <5> QED
          BY <3>2, <5>1, <5>2, <5>3, <5>4
      <4> QED
        BY <4>1, <4>4 DEF mine
    <3>3. CASE Stripe!CreateIntent(r) \/ Stripe!RequestThrows(r)
      BY <1>0, <3>3 DEF Stripe!CreateIntent, Stripe!RequestThrows, Stripe!IdleRequest
    <3> QED
      BY <1>4, <3>1, <3>2, <3>3 DEF Stripe!RequestStep
  <2>3. ASSUME ~stripeHistory.amended
        PROVE  \A s \in Requests : stripeRequest'[s].step # "idle"
                 => stripeRequest'[s].total = stripeOrder'.total
    BY <2>0, <2>1, <2>2, <2>3 DEF OneIntent
  <2>4. CASE stripeIntents' = stripeIntents
    BY <2>0, <2>3, <2>4 DEF OneIntent
  <2>5. CASE stripeIntents' # stripeIntents
    <3>1. Stripe!CreateIntent(r)
      BY <1>4, <2>5
         DEF Stripe!RequestStep, Stripe!Begin, Stripe!FindCustomer, Stripe!ListCustomers,
             Stripe!CreateCustomer, Stripe!SaveCustomer,
         Stripe!RequestThrows
    <3> DEFINE key == Stripe!IdempotencyKey(stripeRequest[r].total)
               new == [key |-> key, customer |-> stripeRequest[r].customer, paid |-> FALSE]
    <3>2. stripeIntents' = Append(stripeIntents, new) /\ Stripe!WithKey(key) = {}
            /\ stripeRequest[r].step # "idle"
      BY <2>5, <3>1 DEF Stripe!CreateIntent
    <3> HIDE DEF new
    <3>3. ASSUME ~stripeHistory.amended
          PROVE  Len(stripeIntents') = 1 /\ stripeIntents'[1] = new
                   /\ new.key = Stripe!Minor(stripeOrder.total)
      <4>1. key = Stripe!Minor(stripeOrder.total)
        BY <3>2, <3>3 DEF OneIntent, Stripe!IdempotencyKey
      <4>2. DOMAIN stripeIntents = {}
        BY <3>2, <3>3, <4>1 DEF OneIntent, Stripe!WithKey
      <4>3. Len(stripeIntents) = 0
        BY <1>0, <4>2
      <4> QED
        BY <1>0, <3>2, <4>1, <4>3 DEF new
    <3>4. ASSUME ~stripeHistory.amended PROVE DOMAIN stripeIntents' = {1}
      <4>1. DOMAIN stripeIntents' = 1 .. Len(stripeIntents')
        BY <1>0, <3>2
      <4> QED
        BY <3>3, <3>4, <4>1
    <3> SUFFICES ASSUME ~stripeHistory.amended
                 PROVE  /\ \A i \in DOMAIN stripeIntents' : stripeIntents'[i].key =
                             Stripe!Minor(stripeOrder'.total)
                        /\ Len(stripeIntents') <= 1
      BY <2>0, <2>3 DEF OneIntent
    <3>5. Stripe!Minor(stripeOrder'.total) = Stripe!Minor(stripeOrder.total)
      BY <2>0
    <3>6. \A i \in DOMAIN stripeIntents' : stripeIntents'[i].key =
            Stripe!Minor(stripeOrder.total)
      BY <3>3, <3>4
    <3>7. Len(stripeIntents') <= 1
      <4>1. Len(stripeIntents') = 1
        BY <3>3
      <4> QED
        BY <4>1
    <3> QED
      BY <3>5, <3>6, <3>7
  <2> QED
    BY <2>4, <2>5
<1>5. ASSUME NEW i \in DOMAIN stripeIntents, Stripe!Pay(i) \/ Stripe!PaymentFails(i)
                   PROVE OneIntent'
  <2>1. stripeRequest' = stripeRequest /\ stripeOrder' = stripeOrder
          /\ stripeHistory'.amended = stripeHistory.amended
    BY <1>0, <1>5 DEF Stripe!Pay, Stripe!PaymentFails, Stripe!Moved, StripeHistoryState
  <2> DEFINE mine == stripeIntents[i]
  <2>2. mine \in Stripe!Intent
    BY <1>0
  <2>3. stripeIntents' = stripeIntents
          \/ stripeIntents' = [stripeIntents EXCEPT ![i] = [mine EXCEPT !.paid = TRUE]]
    BY <1>5 DEF Stripe!Pay, Stripe!PaymentFails
  <2> HIDE DEF mine
  <2>4. [mine EXCEPT !.paid = TRUE].key = mine.key
    BY <2>2 DEF Stripe!Intent
  <2>5. DOMAIN stripeIntents' = DOMAIN stripeIntents /\ Len(stripeIntents') = Len(stripeIntents)
    BY <1>0, <2>3
  <2>6. \A k \in DOMAIN stripeIntents : stripeIntents'[k].key = stripeIntents[k].key
    BY <1>0, <2>3, <2>4 DEF mine
  <2> QED
    BY <2>1, <2>5, <2>6, OneIntentKept
<1>6. ASSUME NEW h \in Handlers,
             \/ \E e \in Stripe!IntentEvents : Stripe!Receive(h, e) \/ Stripe!Redeliver(h, e)
             \/ Stripe!HandlerStep(h) \/ Stripe!HandlerThrows(h)
      PROVE  OneIntent'
  <2>1. stripeRequest' = stripeRequest /\ stripeIntents' = stripeIntents
    BY <1>6
       DEF Stripe!Receive, Stripe!Redeliver, Stripe!HandlerStep, Stripe!Verify,
           Stripe!Transition, Stripe!AddPayment, Stripe!Commit, Stripe!Answer,
           Stripe!HandlerThrows
  <2>2. stripeOrder'.total = stripeOrder.total
    BY <1>0, <1>6
       DEF Stripe!Receive, Stripe!Redeliver, Stripe!HandlerStep, Stripe!Verify,
           Stripe!Transition, Stripe!AddPayment, Stripe!Commit, Stripe!Answer,
           Stripe!HandlerThrows
  <2>3. stripeHistory'.amended = stripeHistory.amended
    BY <1>0, <1>6
       DEF Stripe!Receive, Stripe!Redeliver, Stripe!HandlerStep, Stripe!Verify,
           Stripe!Transition, Stripe!AddPayment, Stripe!Commit, Stripe!Answer,
           Stripe!HandlerThrows,
       Stripe!Overlap, StripeHistoryState
  <2> QED
    BY <2>1, <2>2, <2>3, OneIntentKept
<1> QED
  BY <1>1, <1>2, <1>3, <1>4, <1>5, <1>6 DEF Stripe!Next, Stripe!Shopper

LEMMA OneIntentSuffices == Stripe!TypeOK /\ OneIntent => Stripe!UnamendedOrderIsChargedOnce
<1> SUFFICES ASSUME Stripe!TypeOK, OneIntent, ~stripeHistory.amended
             PROVE  Cardinality({i \in DOMAIN stripeIntents : stripeIntents[i].paid}) <= 1
  BY StripeCounts DEF Stripe!UnamendedOrderIsChargedOnce
<1>1. stripeIntents \in Seq(Stripe!Intent) /\ Len(stripeIntents) <= 1
  BY DEF Stripe!TypeOK, OneIntent
<1>2. DOMAIN stripeIntents \subseteq {1}
  BY <1>1
<1> DEFINE paid == {i \in DOMAIN stripeIntents : stripeIntents[i].paid}
<1>3. paid = {} \/ paid = {1}
  BY <1>2
<1> HIDE DEF paid
<1>4. CASE paid = {}
  <2>1. Cardinality(paid) = 0
    BY <1>4, FS_EmptySet
  <2> QED
    BY <2>1 DEF paid
<1>5. CASE paid = {1}
  <2>1. Cardinality(paid) = 1
    BY <1>5, FS_Singleton
  <2> QED
    BY <2>1 DEF paid
<1> QED
  BY <1>3, <1>4, <1>5

\* While no two webhook requests overlap: a payment that is recorded settled
\* the order or left it uncovered, and the one handler that is about to record
\* another found the order unsettled, will settle it or leaves it uncovered.
RecordedOnce ==
    ~stripeHistory.overlapped =>
        /\ \A g, h \in Stripe!Busy : g = h
        /\ \A k \in DOMAIN stripePayments :
              stripePayments[k] \in stripeHistory.partial \/ stripeOrder.state = "PaymentSettled"
        /\ \A h \in Handlers :
              (\/ stripeHandler[h].step = "commit"
               \/ stripeHandler[h].step = "addPayment" /\ stripeHandler[h].state # "none")
                  => stripeOrder.state # "PaymentSettled"
        /\ \A h \in Handlers :
              stripeHandler[h].step = "commit" =>
                  stripeHandler[h].event[2] \in stripeHistory.partial
                    \/ stripeHandler[h].state = "PaymentSettled"
        /\ \A j, k \in DOMAIN stripePayments :
              j # k /\ stripePayments[j] = stripePayments[k]
                => stripePayments[j] \in stripeHistory.partial

LEMMA RecordedOnceInit == Stripe!Init => RecordedOnce
BY DEF Stripe!Init, RecordedOnce, Stripe!IdleHandler, Stripe!Busy

LEMMA RecordedOnceSuffices == RecordedOnce => Stripe!IntentIsRecordedOnce
BY DEF RecordedOnce, Stripe!IntentIsRecordedOnce

\* The steps before the payment is added, those that end a webhook request, and
\* those that are not the webhook's.
LEMMA RecordedOnceKept ==
    ASSUME Stripe!TypeOK, RecordedOnce, stripePayments' = stripePayments,
             stripeHistory'.partial = stripeHistory.partial,
           stripeHistory'.overlapped = stripeHistory.overlapped,
           stripeOrder'.state = "PaymentSettled" <=> stripeOrder.state = "PaymentSettled",
           \A g \in Handlers :
              \/ stripeHandler'[g] = stripeHandler[g]
              \/ stripeHandler'[g].step = "idle"
              \/ /\ stripeHandler[g].step # "idle" /\ stripeHandler'[g].step # "commit"
                 /\ stripeHandler'[g].step = "addPayment" /\ stripeHandler'[g].state # "none"
                       => stripeOrder.state # "PaymentSettled"
    PROVE  RecordedOnce'
<1> SUFFICES ASSUME ~stripeHistory.overlapped
             PROVE  /\ \A g, h \in Handlers : stripeHandler'[g].step # "idle"
                         /\ stripeHandler'[h].step # "idle" => g = h
                    /\ \A k \in DOMAIN stripePayments :
                         stripePayments[k] \in stripeHistory.partial
                         \/ stripeOrder'.state = "PaymentSettled"
                    /\ \A h \in Handlers :
                          \/ stripeHandler'[h].step = "commit"
                          \/ stripeHandler'[h].step = "addPayment"
                               /\ stripeHandler'[h].state # "none"
                          => stripeOrder'.state # "PaymentSettled"
                    /\ \A h \in Handlers :
                          stripeHandler'[h].step = "commit" =>
                              stripeHandler'[h].event[2] \in stripeHistory.partial
                                \/ stripeHandler'[h].state = "PaymentSettled"
                    /\ \A j, k \in DOMAIN stripePayments :
                          j # k /\ stripePayments[j] = stripePayments[k]
                            => stripePayments[j] \in stripeHistory.partial
  BY DEF RecordedOnce, Stripe!Busy
<1>1. \A g, h \in Handlers : stripeHandler[g].step # "idle"
        /\ stripeHandler[h].step # "idle" => g = h
  BY DEF RecordedOnce, Stripe!Busy
<1>2. \A g \in Handlers : stripeHandler'[g].step # "idle" => stripeHandler[g].step # "idle"
  OBVIOUS
<1>3. \A g \in Handlers : stripeHandler'[g].step = "commit"
        => stripeHandler'[g] = stripeHandler[g]
  OBVIOUS
<1>4. \A h \in Handlers :
        \/ stripeHandler'[h].step = "commit"
        \/ stripeHandler'[h].step = "addPayment" /\ stripeHandler'[h].state # "none"
        => stripeOrder'.state # "PaymentSettled"
  BY <1>3 DEF RecordedOnce
<1>5. \A h \in Handlers :
        stripeHandler'[h].step = "commit" =>
            stripeHandler'[h].event[2] \in stripeHistory.partial
              \/ stripeHandler'[h].state = "PaymentSettled"
  BY <1>3 DEF RecordedOnce
<1> QED
  BY <1>1, <1>2, <1>4, <1>5 DEF RecordedOnce

\* A webhook request that is alone sees whether the order is settled.
LEMMA RecordedOnceStep ==
    Stripe!TypeOK /\ RecordedOnce /\ [Stripe!Next]_(Stripe!vars) => RecordedOnce'
<1> SUFFICES ASSUME Stripe!TypeOK, RecordedOnce, [Stripe!Next]_(Stripe!vars) PROVE RecordedOnce'
  OBVIOUS
<1> USE DEF Stripe!shop, Stripe!stripe
<1>0. /\ stripeOrder \in [state : Stripe!OrderStates, total : Totals, complete : BOOLEAN]
      /\ stripeHistory \in StripeHistoryState
           /\ stripeHandler \in [Handlers -> StripeHandlerState]
      /\ stripePayments \in Seq(DOMAIN stripeIntents)
  BY HandlerFunction DEF Stripe!TypeOK, StripeHistoryState
<1>1. CASE UNCHANGED Stripe!vars
  BY <1>1, RecordedOnceKept DEF Stripe!vars
<1>2. CASE Stripe!Shopper
  <2>1. /\ stripePayments' = stripePayments /\ stripeHandler' = stripeHandler
             /\ stripeHistory'.partial = stripeHistory.partial
        /\ stripeHistory'.overlapped = stripeHistory.overlapped
    BY <1>0, <1>2
       DEF Stripe!Shopper, Stripe!Amend, Stripe!CompleteCheckout, Stripe!Move, Stripe!Moved,
           StripeHistoryState
  <2>2. stripeOrder'.state = "PaymentSettled" <=> stripeOrder.state = "PaymentSettled"
    BY <1>0, <1>2
       DEF Stripe!Shopper, Stripe!Amend, Stripe!CompleteCheckout, Stripe!Move,
           Stripe!MayGoTo, Stripe!OrderStates
  <2> QED
    BY <2>1, <2>2, RecordedOnceKept
<1>3. ASSUME \/ \E r \in Requests : Stripe!RequestStep(r)
             \/ \E i \in DOMAIN stripeIntents : Stripe!Pay(i) \/ Stripe!PaymentFails(i)
      PROVE  RecordedOnce'
  <2>1. stripePayments' = stripePayments /\ stripeHandler' = stripeHandler
          /\ stripeOrder' = stripeOrder
    BY <1>3
       DEF Stripe!RequestStep, Stripe!Begin, Stripe!FindCustomer, Stripe!ListCustomers,
           Stripe!CreateCustomer, Stripe!SaveCustomer,
       Stripe!CreateIntent, Stripe!RequestThrows, Stripe!Pay, Stripe!PaymentFails
  <2>2. stripeHistory'.partial = stripeHistory.partial
          /\ stripeHistory'.overlapped = stripeHistory.overlapped
    BY <1>0, <1>3
       DEF Stripe!RequestStep, Stripe!Begin, Stripe!FindCustomer, Stripe!ListCustomers,
           Stripe!CreateCustomer, Stripe!SaveCustomer,
       Stripe!CreateIntent, Stripe!RequestThrows, Stripe!Pay, Stripe!PaymentFails,
         Stripe!Moved, StripeHistoryState
  <2> QED
    BY <2>1, <2>2, RecordedOnceKept
<1>4. ASSUME NEW h \in Handlers, NEW e \in Stripe!IntentEvents, Stripe!Receive(h, e)
                   \/ Stripe!Redeliver(h, e)
      PROVE  RecordedOnce'
  <2>1. /\ stripeHistory'.overlapped = (stripeHistory.overlapped \/ Stripe!Busy # {})
             /\ stripeHistory'.partial = stripeHistory.partial
        /\ stripePayments' = stripePayments /\ stripeOrder' = stripeOrder
    BY <1>0, <1>4, ReceiveFacts DEF StripeHistoryState
  <2>2. stripeHandler'[h].step = "verify"
          /\ \A g \in Handlers \ {h} : stripeHandler'[g] = stripeHandler[g]
    BY <1>4, ReceiveFacts
  <2> SUFFICES ASSUME ~stripeHistory.overlapped, Stripe!Busy = {} PROVE RecordedOnce'
    BY <2>1 DEF RecordedOnce
  <2>3. \A g \in Handlers \ {h} : stripeHandler'[g].step = "idle"
    BY <2>2 DEF Stripe!Busy
  <2> QED
    BY <2>1, <2>2, <2>3 DEF RecordedOnce, Stripe!Busy
<1>5. ASSUME NEW h \in Handlers, Stripe!HandlerStep(h) PROVE RecordedOnce'
  <2>1. CASE Stripe!Verify(h) \/ Stripe!Transition(h) \/ Stripe!Answer(h)
    <3>1. stripePayments' = stripePayments /\ stripeHistory' = stripeHistory
            /\ stripeOrder' = stripeOrder /\ stripeHandler[h].step # "idle"
      BY <2>1 DEF Stripe!Verify, Stripe!Transition, Stripe!Answer
    <3>2. CASE Stripe!Acknowledge(h)
      BY <3>1, <3>2, AcknowledgeFacts, RecordedOnceKept
    <3>3. ASSUME NEW step \in {"addPayment", "transition"}, Stripe!Goto(h, step, "none")
          PROVE  RecordedOnce'
      <4>1. step \in Stripe!HandlerSteps
        BY DEF Stripe!HandlerSteps
      <4> QED
        BY <3>1, <3>3, <4>1, GotoFacts, RecordedOnceKept
    <3>4. CASE Stripe!MayGoTo("ArrangingPayment")
                 /\ Stripe!Goto(h, "addPayment", "ArrangingPayment")
      <4>1. "addPayment" \in Stripe!HandlerSteps
        BY DEF Stripe!HandlerSteps
      <4>2. stripeOrder.state # "PaymentSettled"
        BY <3>4 DEF Stripe!MayGoTo
      <4> QED
        BY <3>1, <3>4, <4>1, <4>2, GotoFacts, RecordedOnceKept
    <3> QED
      BY <2>1, <3>2, <3>3, <3>4 DEF Stripe!Verify, Stripe!Transition, Stripe!Answer
  <2>2. CASE Stripe!AddPayment(h)
    <3> DEFINE i == stripeHandler[h].event[2]
               state == IF Stripe!Covered(Append(stripePayments, i)) THEN "PaymentSettled"
                 ELSE stripeHandler[h].state
    <3>1. stripePayments' = stripePayments /\ stripeOrder' = stripeOrder
            /\ stripeHandler[h].step = "addPayment"
      BY <2>2 DEF Stripe!AddPayment
    <3>2. CASE Stripe!Acknowledge(h) /\ UNCHANGED stripeHistory
      BY <3>1, <3>2, AcknowledgeFacts, RecordedOnceKept
    <3>3. CASE /\ Stripe!MayAddPayment(h) /\ Stripe!Goto(h, "commit", state)
               /\ stripeHistory' =
                    [stripeHistory EXCEPT !.partial =
                    IF Stripe!Covered(Append(stripePayments, i)) THEN @ ELSE @ \cup {i}]
      <4>1. "commit" \in Stripe!HandlerSteps
              /\ state \in {"none", "ArrangingPayment", "PaymentSettled"}
        <5>1. stripeHandler[h] \in StripeHandlerState
          BY <1>0
        <5>2. stripeHandler[h].state \in {"none", "ArrangingPayment", "PaymentSettled"}
          BY <5>1 DEF StripeHandlerState
        <5> QED
          BY <5>2 DEF Stripe!HandlerSteps
      <4>2. stripeHistory'.overlapped = stripeHistory.overlapped
        BY <1>0, <3>3 DEF StripeHistoryState
      <4>3. stripeHistory.partial \subseteq stripeHistory'.partial
        BY <1>0, <3>3 DEF StripeHistoryState
      <4>4. i \in stripeHistory'.partial \/ state = "PaymentSettled"
        BY <1>0, <3>3 DEF StripeHistoryState
      <4> HIDE DEF state
      <4>5. /\ stripeHandler'[h].step = "commit" /\ stripeHandler'[h].state = state
            /\ stripeHandler'[h].event = stripeHandler[h].event
            /\ \A g \in Handlers \ {h} : stripeHandler'[g] = stripeHandler[g]
        BY <3>3, <4>1, GotoFacts
      <4> SUFFICES ASSUME ~stripeHistory.overlapped PROVE RecordedOnce'
        BY <4>2 DEF RecordedOnce
      <4>6. stripeOrder.state # "PaymentSettled"
        BY <3>1, <3>3 DEF RecordedOnce, Stripe!MayAddPayment, Stripe!StateSeen
      <4>7. \A g \in Handlers \ {h} : stripeHandler'[g].step = "idle"
        BY <3>1, <4>5 DEF RecordedOnce, Stripe!Busy
      <4>8. \A k \in DOMAIN stripePayments' : stripePayments'[k] \in stripeHistory'.partial
        BY <3>1, <4>3, <4>6 DEF RecordedOnce
      <4>9. i = stripeHandler'[h].event[2]
        BY <4>5
      <4> HIDE DEF i
      <4> QED
        BY <3>1, <4>4, <4>5, <4>6, <4>7, <4>8, <4>9 DEF RecordedOnce, Stripe!Busy
    <3> QED
      BY <2>2, <3>2, <3>3 DEF Stripe!AddPayment
  <2>3. CASE Stripe!Commit(h)
    <3> DEFINE i == stripeHandler[h].event[2]
    <3>1. /\ stripeHandler[h].step = "commit" /\ stripePayments' = Append(stripePayments, i)
          /\ stripeOrder' = [stripeOrder EXCEPT !.state = Stripe!StateSeen(h)]
               /\ stripeHistory' = stripeHistory
          /\ Stripe!Goto(h, "answer", "none")
      BY <2>3 DEF Stripe!Commit
    <3>2. "answer" \in Stripe!HandlerSteps
      BY DEF Stripe!HandlerSteps
    <3>3. stripeHandler'[h].step = "answer"
            /\ \A g \in Handlers \ {h} : stripeHandler'[g] = stripeHandler[g]
      BY <3>1, <3>2, GotoFacts
    <3> SUFFICES ASSUME ~stripeHistory.overlapped PROVE RecordedOnce'
      BY <3>1 DEF RecordedOnce
    <3>4. \A g \in Handlers \ {h} : stripeHandler'[g].step = "idle"
      BY <3>1, <3>3 DEF RecordedOnce, Stripe!Busy
    <3>5. \A k \in DOMAIN stripePayments : stripePayments[k] \in stripeHistory.partial
      BY <3>1 DEF RecordedOnce
    <3>6. i \in stripeHistory.partial \/ stripeOrder'.state = "PaymentSettled"
      <4>1. i \in stripeHistory.partial \/ stripeHandler[h].state = "PaymentSettled"
        BY <3>1 DEF RecordedOnce
      <4> QED
        BY <1>0, <3>1, <4>1 DEF Stripe!StateSeen
    <3> HIDE DEF i
    <3>7. \A k \in DOMAIN stripePayments' :
            \/ k \in DOMAIN stripePayments /\ stripePayments'[k] = stripePayments[k]
            \/ k = Len(stripePayments) + 1 /\ stripePayments'[k] = i
      <4>1. stripePayments \in Seq(DOMAIN stripeIntents)
              /\ stripePayments' = Append(stripePayments, i)
        BY <1>0, <3>1
      <4> QED
        BY <4>1
    <3>8. \A k \in DOMAIN stripePayments' : stripePayments'[k] \in stripeHistory.partial
            \/ stripeOrder'.state = "PaymentSettled"
      BY <3>5, <3>6, <3>7
    <3>9. \A j, k \in DOMAIN stripePayments' : j # k
            /\ stripePayments'[j] = stripePayments'[k]
            => stripePayments'[j] \in stripeHistory.partial
      BY <3>5, <3>7
    <3>10. \A g \in Handlers : stripeHandler'[g].step \in {"idle", "answer"}
      BY <3>3, <3>4
    <3> QED
      BY <3>1, <3>3, <3>4, <3>8, <3>9, <3>10 DEF RecordedOnce, Stripe!Busy
  <2> QED
    BY <1>5, <2>1, <2>2, <2>3 DEF Stripe!HandlerStep
<1>6. ASSUME NEW h \in Handlers, Stripe!HandlerThrows(h) PROVE RecordedOnce'
  <2>1. /\ stripePayments' = stripePayments /\ stripeOrder' = stripeOrder
             /\ stripeHistory' = stripeHistory
        /\ stripeHandler' = [stripeHandler EXCEPT ![h] = Stripe!IdleHandler]
    BY <1>6 DEF Stripe!HandlerThrows
  <2>2. \A g \in Handlers : stripeHandler'[g] = stripeHandler[g]
          \/ stripeHandler'[g].step = "idle"
    BY <1>0, <2>1, IdleHandlerType
  <2> QED
    BY <2>1, <2>2, RecordedOnceKept
<1> QED
  BY <1>1, <1>2, <1>3, <1>4, <1>5, <1>6 DEF Stripe!Next

\* Seen from Stripe a step of another plugin is none.
LEMMA StripeAlone == Spec => Stripe!Spec
<1>1. Init => Stripe!Init
  BY DEF Init
<1>2. [Next]_vars => [Stripe!Next]_(Stripe!vars)
  BY DEF Next, vars, Stripe!vars, stripeVars, StripeStep, BraintreeStep,
         PubSubStep, RedisStep, EmailStep, AssetsStep, StellateStep, SearchStep, DashboardStep,
         butStripe, butBraintree, butPubSub, butRedis, butEmail, butAssets, butStellate,
         butSearch, butDashboard
<1> QED
  BY <1>1, <1>2, PTL DEF Spec, Stripe!Spec

\* What is known of the orders, the intents and the webhooks together.
StripeInv == Stripe!TypeOK /\ OneCustomer /\ OneIntent /\ RecordedOnce

LEMMA StripeInit == Stripe!Init => StripeInv
BY StripeTypeInit, OneCustomerInit, OneIntentInit, RecordedOnceInit DEF StripeInv

LEMMA StripeInvStep == StripeInv /\ [Stripe!Next]_(Stripe!vars) => StripeInv'
BY StripeTypeStep, OneCustomerStep, OneIntentStep, RecordedOnceStep DEF StripeInv

\* A customer has one record at Stripe unless requests overlap.
THEOREM CustomersHaveOneRecord == Spec => []OneStripeCustomer
<1>1. StripeInv => OneStripeCustomer
  BY OneCustomerSuffices DEF StripeInv, OneStripeCustomer
<1> QED
  BY <1>1, StripeAlone, StripeInit, StripeInvStep, PTL DEF Stripe!Spec

\* An order that is not amended is charged once: every request for it gets the
\* intent that the idempotency key names.
THEOREM UnamendedOrdersAreChargedOnce == Spec => []UnamendedOrderIsChargedOnce
<1>1. StripeInv => UnamendedOrderIsChargedOnce
  BY OneIntentSuffices DEF StripeInv, UnamendedOrderIsChargedOnce
<1> QED
  BY <1>1, StripeAlone, StripeInit, StripeInvStep, PTL DEF Stripe!Spec

\* An intent becomes one payment of the order, however often its webhook is
\* delivered, unless two are handled at a time or it pays the order in part.
THEOREM IntentsAreRecordedOnce == Spec => []IntentIsRecordedOnce
<1>1. StripeInv => IntentIsRecordedOnce
  BY RecordedOnceSuffices DEF StripeInv, IntentIsRecordedOnce
<1> QED
  BY <1>1, StripeAlone, StripeInit, StripeInvStep, PTL DEF Stripe!Spec

-----------------------------------------------------------------------------
(* Braintree.                                                                *)

\* Cardinality is the same inside the module.
LEMMA BraintreeCounts == \A S : Braintree!Cardinality(S) = Cardinality(S)
BY DEF Braintree!Cardinality, Cardinality

\* The local state of a payment.
BraintreeLocalState(ids) ==
    [step : {"idle", "createCustomer", "sale", "record", "clearCustomer"},
     nonce : Nonces \cup {Undefined}, id : ids \cup {Undefined},
     fresh : BOOLEAN, outcome : Braintree!Outcomes]

BraintreeIds == 1 .. braintreeCustomers

Paying == {"createCustomer", "sale", "record"}

\* The type invariant, with the customers known one by one.
MoneyTypes ==
    /\ braintreeSettled \in SUBSET Nonces /\ braintreeDeclined \in SUBSET Nonces
    /\ braintreeOrderState \in {"ArrangingPayment", "PaymentSettled"}
    /\ braintreeCustomers \in Nat
    /\ braintreeSavedId \in BraintreeIds \cup {Undefined}
    /\ braintreeKnown \in SUBSET BraintreeIds
    /\ braintreeCharged \in SUBSET braintreeUsed /\ braintreeUsed \in SUBSET Nonces
    /\ braintreeRequest \in [Requests -> BraintreeLocalState(BraintreeIds)]
    /\ braintreeMade \in Nat /\ braintreeFaults \in Nat
    /\ braintreeHistory \in [overlapped : BOOLEAN, lost : BOOLEAN]

\* A request that pays has a nonce, and an outcome once it has sold.
RequestOK(q) ==
    /\ q.step \in Paying => q.nonce \in Nonces
    /\ q.step \notin Paying => q.nonce = Undefined
    /\ q.step # "record" => q.outcome = "none"

\* What is settled, or about to be, was taken, and nothing else was unless an
\* answer or a transaction was lost.
MoneyInv ==
    /\ MoneyTypes
    /\ \A r \in Requests : RequestOK(braintreeRequest[r])
    /\ braintreeSettled \subseteq braintreeCharged
    /\ Braintree!Recording \subseteq braintreeCharged
    /\ braintreeHistory.lost \/ braintreeCharged = braintreeSettled \cup Braintree!Recording

LEMMA BraintreeTypesAreTypeOK == MoneyTypes <=> Braintree!TypeOK
BY DEF MoneyTypes, Braintree!TypeOK, BraintreeLocalState, BraintreeIds

LEMMA MoneyInit == Braintree!Init => MoneyInv
BY DEF Braintree!Init, MoneyInv, MoneyTypes, RequestOK, Braintree!Recording, Braintree!Idle,
       BraintreeLocalState, Braintree!Outcomes, Paying, BraintreeIds

-----------------------------------------------------------------------------
\* A request goes on without an outcome, and nothing is taken.
LEMMA NothingTaken ==
    ASSUME MoneyInv, NEW r \in Requests, NEW next,
           braintreeRequest' = [braintreeRequest EXCEPT ![r] = next],
           MoneyTypes', RequestOK(next), next.outcome # "Settled",
           braintreeRequest[r].outcome = "Settled" => braintreeHistory'.lost,
           braintreeHistory.lost => braintreeHistory'.lost,
           UNCHANGED <<braintreeSettled, braintreeCharged>>
    PROVE  MoneyInv'
<1>1. /\ braintreeRequest'[r] = next
      /\ \A q \in Requests : q # r => braintreeRequest'[q] = braintreeRequest[q]
  BY DEF MoneyInv, MoneyTypes
<1>2. \A q \in Requests : RequestOK(braintreeRequest[q])'
  BY <1>1 DEF MoneyInv, RequestOK
<1>3. Braintree!Recording' \subseteq Braintree!Recording
  BY <1>1 DEF Braintree!Recording
<1>4. braintreeRequest[r].outcome # "Settled" => Braintree!Recording' = Braintree!Recording
  BY <1>1 DEF Braintree!Recording
<1> QED
  BY <1>2, <1>3, <1>4 DEF MoneyInv

\* What was remembered of the past stays of its type.
LEMMA HistoryGrows ==
    ASSUME NEW h \in [overlapped : BOOLEAN, lost : BOOLEAN], NEW b \in BOOLEAN
    PROVE  /\ [h EXCEPT !.lost = @ \/ b] \in [overlapped : BOOLEAN, lost : BOOLEAN]
           /\ [h EXCEPT !.lost = @ \/ b].lost = (h.lost \/ b)
           /\ [h EXCEPT !.overlapped = @ \/ b] \in [overlapped : BOOLEAN, lost : BOOLEAN]
           /\ [h EXCEPT !.overlapped = @ \/ b].lost = h.lost
           /\ [h EXCEPT !.overlapped = @ \/ b].overlapped = (h.overlapped \/ b)
OBVIOUS

\* A payment begins.
LEMMA PayKeeps ==
    ASSUME MoneyInv, NEW r \in Requests, NEW nonce \in Nonces, NEW vault \in BOOLEAN,
           Braintree!Pay(r, nonce, vault)
    PROVE  MoneyInv'
<1> DEFINE next == [step |-> IF vault /\ braintreeSavedId = Undefined THEN "createCustomer"
             ELSE "sale",
                    nonce |-> nonce, id |-> IF vault THEN braintreeSavedId ELSE Undefined,
                    fresh |-> FALSE, outcome |-> "none"]
<1>1. next \in BraintreeLocalState(BraintreeIds) /\ RequestOK(next) /\ next.outcome = "none"
  BY DEF MoneyInv, MoneyTypes, BraintreeLocalState, RequestOK, Braintree!Outcomes, Paying
<1>2. /\ braintreeRequest' = [braintreeRequest EXCEPT ![r] = next]
      /\ braintreeHistory'.lost = braintreeHistory.lost /\ braintreeRequest[r].outcome = "none"
      /\ UNCHANGED <<braintreeSettled, braintreeCharged>>
  BY DEF Braintree!Pay, MoneyInv, MoneyTypes, RequestOK, Braintree!shop, Braintree!braintree
<1>3. /\ UNCHANGED <<braintreeSettled, braintreeDeclined, braintreeOrderState,
           braintreeSavedId, braintreeCustomers, braintreeKnown, braintreeCharged,
           braintreeUsed, braintreeFaults>>
      /\ braintreeMade' \in Nat
  BY DEF Braintree!Pay, MoneyInv, MoneyTypes, Braintree!shop, Braintree!braintree
<1>4. braintreeHistory' \in [overlapped : BOOLEAN, lost : BOOLEAN]
  <2>1. PICK b \in BOOLEAN : braintreeHistory' = [braintreeHistory EXCEPT !.overlapped = @ \/ b]
    BY DEF Braintree!Pay
  <2> QED
    BY <2>1, HistoryGrows DEF MoneyInv, MoneyTypes
<1>5. MoneyTypes'
  BY <1>1, <1>2, <1>3, <1>4 DEF MoneyInv, MoneyTypes, BraintreeIds
<1> QED
  BY <1>1, <1>2, <1>5, NothingTaken

\* Its customer is created.
LEMMA CreateCustomerKeeps ==
    ASSUME MoneyInv, NEW r \in Requests, Braintree!CreateCustomer(r)
    PROVE  MoneyInv'
<1> DEFINE next == [braintreeRequest[r] EXCEPT !.step = "sale",
             !.id = braintreeCustomers + 1, !.fresh = TRUE]
<1>1. /\ braintreeRequest[r] \in BraintreeLocalState(BraintreeIds)
           /\ RequestOK(braintreeRequest[r])
      /\ braintreeRequest[r].step = "createCustomer" /\ braintreeCustomers \in Nat
  BY DEF Braintree!CreateCustomer, MoneyInv, MoneyTypes
<1>2. BraintreeIds \subseteq BraintreeIds' /\ braintreeCustomers' = braintreeCustomers + 1
        /\ braintreeCustomers + 1 \in BraintreeIds'
  BY <1>1 DEF Braintree!CreateCustomer, BraintreeIds
<1>3. next \in BraintreeLocalState(BraintreeIds') /\ RequestOK(next) /\ next.outcome = "none"
  BY <1>1, <1>2 DEF BraintreeLocalState, RequestOK, Paying
<1>4. /\ braintreeRequest' = [braintreeRequest EXCEPT ![r] = next]
      /\ UNCHANGED <<braintreeSettled, braintreeDeclined, braintreeOrderState,
           braintreeSavedId, braintreeCharged, braintreeUsed, braintreeMade,
           braintreeFaults, braintreeHistory>>
      /\ braintreeKnown' = braintreeKnown \cup {braintreeCustomers + 1}
  BY DEF Braintree!CreateCustomer, Braintree!shop
<1>5. braintreeRequest' \in [Requests -> BraintreeLocalState(BraintreeIds')]
  <2>1. BraintreeLocalState(BraintreeIds) \subseteq BraintreeLocalState(BraintreeIds')
    BY <1>2 DEF BraintreeLocalState
  <2>2. braintreeRequest \in [Requests -> BraintreeLocalState(BraintreeIds')]
    BY <2>1 DEF MoneyInv, MoneyTypes
  <2> QED
    BY <1>3, <1>4, <2>2
<1>6. MoneyTypes'
  BY <1>1, <1>2, <1>4, <1>5 DEF MoneyInv, MoneyTypes
<1> QED
  BY <1>1, <1>3, <1>4, <1>6, NothingTaken DEF RequestOK

\* A request ends, or goes on with the sale.
LEMMA CreateCustomerFailsKeeps ==
    ASSUME MoneyInv, NEW r \in Requests, Braintree!CreateCustomerFails(r)
    PROVE  MoneyInv'
<1> DEFINE next == [braintreeRequest[r] EXCEPT !.step = "sale"]
<1>1. /\ braintreeRequest[r] \in BraintreeLocalState(BraintreeIds)
           /\ RequestOK(braintreeRequest[r])
      /\ braintreeRequest[r].step = "createCustomer"
  BY DEF Braintree!CreateCustomerFails, MoneyInv, MoneyTypes
<1>2. next \in BraintreeLocalState(BraintreeIds) /\ RequestOK(next) /\ next.outcome = "none"
  BY <1>1 DEF BraintreeLocalState, RequestOK, Paying
<1>3. /\ braintreeRequest' = [braintreeRequest EXCEPT ![r] = next]
      /\ UNCHANGED <<braintreeSettled, braintreeDeclined, braintreeOrderState,
           braintreeSavedId, braintreeCustomers, braintreeKnown, braintreeCharged,
           braintreeUsed, braintreeMade, braintreeHistory>>
      /\ braintreeFaults' \in Nat
  BY DEF Braintree!CreateCustomerFails, Braintree!Goto, Braintree!Fault, Braintree!shop,
         Braintree!braintree, MoneyInv, MoneyTypes
<1>4. MoneyTypes'
  BY <1>2, <1>3 DEF MoneyInv, MoneyTypes, BraintreeIds
<1> QED
  BY <1>1, <1>2, <1>3, <1>4, NothingTaken DEF RequestOK

LEMMA IdleIsOK == Braintree!Idle \in BraintreeLocalState(BraintreeIds)
    /\ RequestOK(Braintree!Idle) /\ Braintree!Idle.outcome = "none"
BY DEF Braintree!Idle, BraintreeLocalState, RequestOK, Braintree!Outcomes, Paying

\* The answer to a sale: the only step that takes money and knows it.
LEMMA SaleKeeps ==
    ASSUME MoneyInv, NEW r \in Requests, NEW success \in BOOLEAN, Braintree!Sale(r, success)
    PROVE  MoneyInv'
<1> DEFINE next == [braintreeRequest[r] EXCEPT !.step = "record",
             !.outcome = Braintree!Outcome(success)]
<1>1. /\ braintreeRequest[r] \in BraintreeLocalState(BraintreeIds)
           /\ RequestOK(braintreeRequest[r]) /\ braintreeRequest[r].step = "sale"
      /\ braintreeRequest[r].nonce \in Nonces /\ braintreeRequest[r].outcome = "none"
  BY DEF Braintree!Sale, MoneyInv, MoneyTypes, RequestOK, Paying
<1>2. /\ next \in BraintreeLocalState(BraintreeIds) /\ RequestOK(next)
      /\ next.nonce = braintreeRequest[r].nonce /\ next.outcome = Braintree!Outcome(success)
  BY <1>1 DEF BraintreeLocalState, RequestOK, Paying, Braintree!Outcome, Braintree!Outcomes
<1>3. /\ braintreeRequest' = [braintreeRequest EXCEPT ![r] = next]
      /\ braintreeUsed' = braintreeUsed \cup {braintreeRequest[r].nonce}
      /\ braintreeCharged' = IF success THEN braintreeCharged
           \cup {braintreeRequest[r].nonce} ELSE braintreeCharged
      /\ UNCHANGED <<braintreeSettled, braintreeDeclined, braintreeOrderState,
           braintreeSavedId, braintreeCustomers, braintreeKnown, braintreeMade,
           braintreeFaults, braintreeHistory>>
  BY DEF Braintree!Sale, Braintree!shop
<1>4. /\ braintreeRequest'[r] = next
      /\ \A q \in Requests : q # r => braintreeRequest'[q] = braintreeRequest[q]
  BY <1>3 DEF MoneyInv, MoneyTypes
<1>5. MoneyTypes'
  BY <1>1, <1>2, <1>3 DEF MoneyInv, MoneyTypes, BraintreeIds
<1>6. \A q \in Requests : RequestOK(braintreeRequest[q])'
  BY <1>2, <1>4 DEF MoneyInv, RequestOK
<1>7. CASE success
  <2>1. next.outcome = "Settled"
    BY <1>2, <1>7 DEF Braintree!Outcome
  <2>2. braintreeRequest[r].nonce \in Braintree!Recording'
    BY <1>2, <1>4, <2>1 DEF Braintree!Recording
  <2>3. Braintree!Recording \subseteq Braintree!Recording'
    BY <1>1, <1>4 DEF Braintree!Recording
  <2>4. Braintree!Recording' \subseteq Braintree!Recording \cup {braintreeRequest[r].nonce}
    <3> SUFFICES ASSUME NEW p \in Requests, braintreeRequest'[p].outcome = "Settled"
                 PROVE  braintreeRequest'[p].nonce \in Braintree!Recording
                          \cup {braintreeRequest[r].nonce}
      BY DEF Braintree!Recording
    <3> HIDE DEF next
    <3> QED
      BY <1>2, <1>4 DEF Braintree!Recording
  <2> QED
    BY <1>3, <1>5, <1>6, <1>7, <2>2, <2>3, <2>4 DEF MoneyInv
<1>8. CASE ~success
  <2>1. next.outcome = "Declined"
    BY <1>2, <1>8 DEF Braintree!Outcome
  <2>2. Braintree!Recording \subseteq Braintree!Recording'
    BY <1>1, <1>4 DEF Braintree!Recording
  <2>3. Braintree!Recording' \subseteq Braintree!Recording
    <3> SUFFICES ASSUME NEW p \in Requests, braintreeRequest'[p].outcome = "Settled"
                 PROVE  braintreeRequest'[p].nonce \in Braintree!Recording
      BY DEF Braintree!Recording
    <3> HIDE DEF next
    <3> QED
      BY <1>4, <2>1 DEF Braintree!Recording
  <2> QED
    BY <1>3, <1>5, <1>6, <1>8, <2>2, <2>3 DEF MoneyInv
<1> QED
  BY <1>7, <1>8

\* Braintree refuses the sale.
LEMMA SaleInvalidKeeps ==
    ASSUME MoneyInv, NEW r \in Requests, Braintree!SaleInvalid(r)
    PROVE  MoneyInv'
<1>1. /\ braintreeRequest' = [braintreeRequest EXCEPT ![r] = Braintree!Idle]
      /\ UNCHANGED <<braintreeSettled, braintreeDeclined, braintreeOrderState,
           braintreeSavedId, braintreeCustomers, braintreeKnown, braintreeCharged,
           braintreeUsed, braintreeMade, braintreeFaults, braintreeHistory>>
      /\ braintreeRequest[r].outcome = "none"
  BY DEF Braintree!SaleInvalid, Braintree!AfterThrow, Braintree!shop, Braintree!braintree,
         MoneyInv, RequestOK
<1>2. MoneyTypes'
  BY <1>1, IdleIsOK DEF MoneyInv, MoneyTypes, BraintreeIds
<1> QED
  BY <1>1, <1>2, IdleIsOK, NothingTaken

\* The answer is lost, perhaps after money was taken.
LEMMA SaleFailsKeeps ==
    ASSUME MoneyInv, NEW r \in Requests, NEW taken \in BOOLEAN, Braintree!SaleFails(r, taken)
    PROVE  MoneyInv'
<1>1. /\ braintreeRequest' = [braintreeRequest EXCEPT ![r] = Braintree!Idle]
      /\ UNCHANGED <<braintreeSettled, braintreeDeclined, braintreeOrderState,
           braintreeSavedId, braintreeCustomers, braintreeKnown, braintreeMade>>
      /\ braintreeUsed' = IF taken THEN braintreeUsed \cup {braintreeRequest[r].nonce}
           ELSE braintreeUsed
      /\ braintreeCharged' = IF taken THEN braintreeCharged \cup {braintreeRequest[r].nonce}
           ELSE braintreeCharged
      /\ braintreeHistory' \in [overlapped : BOOLEAN, lost : BOOLEAN]
      /\ braintreeHistory'.lost = (braintreeHistory.lost \/ taken)
      /\ braintreeFaults' \in Nat
      /\ braintreeRequest[r].outcome = "none" /\ braintreeRequest[r].nonce \in Nonces
  BY DEF Braintree!SaleFails, Braintree!AfterThrow, Braintree!Fault, Braintree!shop,
         MoneyInv, MoneyTypes, RequestOK, Paying
<1>2. MoneyTypes'
  BY <1>1, IdleIsOK DEF MoneyInv, MoneyTypes, BraintreeIds
<1>3. CASE ~taken
  BY <1>1, <1>2, <1>3, IdleIsOK, NothingTaken
<1>4. CASE taken
  <2>1. /\ braintreeRequest'[r] = Braintree!Idle
        /\ \A q \in Requests : q # r => braintreeRequest'[q] = braintreeRequest[q]
    BY <1>1 DEF MoneyInv, MoneyTypes
  <2>2. \A q \in Requests : RequestOK(braintreeRequest[q])'
    BY <2>1, IdleIsOK DEF MoneyInv, RequestOK
  <2>3. Braintree!Recording' \subseteq Braintree!Recording
    BY <2>1, IdleIsOK DEF Braintree!Recording
  <2> QED
    BY <1>1, <1>2, <1>4, <2>2, <2>3 DEF MoneyInv
<1> QED
  BY <1>3, <1>4

\* The shop records the payment.
LEMMA RecordKeeps ==
    ASSUME MoneyInv, NEW r \in Requests, Braintree!Record(r)
    PROVE  MoneyInv'
<1> DEFINE q == braintreeRequest[r]
<1>1. q \in BraintreeLocalState(BraintreeIds) /\ RequestOK(q) /\ q.nonce \in Nonces
        /\ q.step = "record"
  BY DEF Braintree!Record, MoneyInv, MoneyTypes, RequestOK, Paying
<1>2. /\ braintreeRequest' = [braintreeRequest EXCEPT ![r] = Braintree!Idle]
      /\ braintreeSettled' = IF q.outcome = "Settled" THEN braintreeSettled \cup {q.nonce}
           ELSE braintreeSettled
      /\ braintreeDeclined' = IF q.outcome = "Settled" THEN braintreeDeclined
           ELSE braintreeDeclined \cup {q.nonce}
      /\ braintreeOrderState' = IF q.outcome = "Settled" THEN "PaymentSettled"
           ELSE braintreeOrderState
      /\ braintreeSavedId' = IF q.fresh THEN q.id ELSE braintreeSavedId
      /\ UNCHANGED <<braintreeCustomers, braintreeKnown, braintreeCharged, braintreeUsed,
           braintreeMade, braintreeFaults, braintreeHistory>>
  BY DEF Braintree!Record, Braintree!braintree
<1>3. q.id \in BraintreeIds \cup {Undefined}
  BY <1>1 DEF BraintreeLocalState
<1>4. MoneyTypes'
  BY <1>1, <1>2, <1>3, IdleIsOK DEF MoneyInv, MoneyTypes, BraintreeIds
<1>5. /\ braintreeRequest'[r] = Braintree!Idle
      /\ \A p \in Requests : p # r => braintreeRequest'[p] = braintreeRequest[p]
  BY <1>2 DEF MoneyInv, MoneyTypes
<1>6. \A p \in Requests : RequestOK(braintreeRequest[p])'
  BY <1>5, IdleIsOK DEF MoneyInv, RequestOK
<1>7. CASE q.outcome = "Settled"
  <2>1. Braintree!Recording' \subseteq Braintree!Recording
          /\ Braintree!Recording \subseteq Braintree!Recording'
          \cup {braintreeRequest[r].nonce}
    BY <1>5, IdleIsOK DEF Braintree!Recording
  <2>2. braintreeRequest[r].nonce \in Braintree!Recording
    BY <1>7 DEF Braintree!Recording
  <2> QED
    BY <1>2, <1>4, <1>6, <1>7, <2>1, <2>2 DEF MoneyInv
<1>8. CASE q.outcome # "Settled"
  <2>1. Braintree!Recording' = Braintree!Recording
    BY <1>5, <1>8, IdleIsOK DEF Braintree!Recording
  <2> QED
    BY <1>2, <1>4, <1>6, <1>8, <2>1 DEF MoneyInv
<1> QED
  BY <1>7, <1>8

\* A client token is made.
LEMMA TokenKeeps ==
    ASSUME MoneyInv, NEW r \in Requests, NEW include \in BOOLEAN, Braintree!Token(r, include)
    PROVE  MoneyInv'
<1> DEFINE next == [Braintree!Idle EXCEPT !.step = "clearCustomer"]
<1>1. next \in BraintreeLocalState(BraintreeIds) /\ RequestOK(next) /\ next.outcome = "none"
  BY DEF Braintree!Idle, BraintreeLocalState, RequestOK, Braintree!Outcomes, Paying
<1>2. /\ UNCHANGED <<braintreeSettled, braintreeDeclined, braintreeOrderState,
           braintreeSavedId, braintreeCustomers, braintreeKnown, braintreeCharged,
           braintreeUsed, braintreeMade, braintreeFaults, braintreeHistory>>
      /\ braintreeRequest[r].outcome = "none"
  BY DEF Braintree!Token, Braintree!shop, Braintree!braintree, MoneyInv, RequestOK
<1>3. CASE braintreeRequest' = braintreeRequest
  BY <1>2, <1>3 DEF MoneyInv, MoneyTypes, BraintreeIds, Braintree!Recording
<1>4. CASE braintreeRequest' = [braintreeRequest EXCEPT ![r] = next]
  <2>1. MoneyTypes'
    BY <1>1, <1>2, <1>4 DEF MoneyInv, MoneyTypes, BraintreeIds
  <2> QED
    BY <1>1, <1>2, <1>4, <2>1, NothingTaken
<1> QED
  BY <1>3, <1>4 DEF Braintree!Token

\* A customer Braintree does not know is forgotten.
LEMMA ClearCustomerKeeps ==
    ASSUME MoneyInv, NEW r \in Requests, Braintree!ClearCustomer(r)
    PROVE  MoneyInv'
<1>1. /\ braintreeRequest' = [braintreeRequest EXCEPT ![r] = Braintree!Idle]
      /\ braintreeSavedId' = braintreeSavedId
      /\ UNCHANGED <<braintreeSettled, braintreeDeclined, braintreeOrderState,
           braintreeCustomers, braintreeKnown, braintreeCharged, braintreeUsed,
           braintreeMade, braintreeFaults, braintreeHistory>>
      /\ braintreeRequest[r].outcome = "none"
  BY DEF Braintree!ClearCustomer, Braintree!SavedValue, Braintree!braintree, MoneyInv, RequestOK
<1>2. MoneyTypes'
  BY <1>1, IdleIsOK DEF MoneyInv, MoneyTypes, BraintreeIds
<1> QED
  BY <1>1, <1>2, IdleIsOK, NothingTaken

\* The process stops.
LEMMA BraintreeCrashKeeps ==
    ASSUME MoneyInv, NEW r \in Requests, Braintree!Crash(r)
    PROVE  MoneyInv'
<1>1. /\ braintreeRequest' = [braintreeRequest EXCEPT ![r] = Braintree!Idle]
      /\ UNCHANGED <<braintreeSettled, braintreeDeclined, braintreeOrderState,
           braintreeSavedId, braintreeCustomers, braintreeKnown, braintreeCharged,
           braintreeUsed, braintreeMade>>
      /\ braintreeFaults' \in Nat
  BY DEF Braintree!Crash, Braintree!Fault, Braintree!shop, Braintree!braintree, MoneyInv,
         MoneyTypes
<1>2. /\ braintreeHistory' \in [overlapped : BOOLEAN, lost : BOOLEAN]
      /\ braintreeHistory'.lost = (braintreeHistory.lost
           \/ braintreeRequest[r].outcome = "Settled")
  <2> DEFINE b == braintreeRequest[r].outcome = "Settled"
  <2>1. braintreeHistory' = [braintreeHistory EXCEPT !.lost = @ \/ b]
    BY DEF Braintree!Crash
  <2>2. b \in BOOLEAN /\ braintreeHistory \in [overlapped : BOOLEAN, lost : BOOLEAN]
    BY DEF MoneyInv, MoneyTypes
  <2> HIDE DEF b
  <2>3. /\ braintreeHistory' \in [overlapped : BOOLEAN, lost : BOOLEAN]
        /\ braintreeHistory'.lost = (braintreeHistory.lost \/ b)
    BY <2>1, <2>2, HistoryGrows
  <2> QED
    BY <2>3 DEF b
<1>3. MoneyTypes'
  BY <1>1, <1>2, IdleIsOK DEF MoneyInv, MoneyTypes, BraintreeIds
<1> QED
  BY <1>1, <1>2, <1>3, IdleIsOK, NothingTaken

LEMMA MoneyStep == MoneyInv /\ [Braintree!Next]_(Braintree!vars) => MoneyInv'
<1> SUFFICES ASSUME MoneyInv, [Braintree!Next]_(Braintree!vars) PROVE MoneyInv'
  OBVIOUS
<1>1. CASE Braintree!SwitchAccount
  BY <1>1
     DEF Braintree!SwitchAccount, Braintree!Fault, Braintree!shop, MoneyInv, MoneyTypes,
         BraintreeIds, Braintree!Recording
<1>2. CASE UNCHANGED Braintree!vars
  BY <1>2 DEF Braintree!vars, MoneyInv, MoneyTypes, BraintreeIds, Braintree!Recording
<1>3. ASSUME NEW r \in Requests, Braintree!RequestStep(r) PROVE MoneyInv'
  BY <1>3, PayKeeps, CreateCustomerKeeps, CreateCustomerFailsKeeps, SaleKeeps, SaleInvalidKeeps,
     SaleFailsKeeps, RecordKeeps, TokenKeeps, ClearCustomerKeeps,
       BraintreeCrashKeeps DEF Braintree!RequestStep
<1> QED
  BY <1>1, <1>2, <1>3 DEF Braintree!Next

\* The shop has a settled payment exactly for the money Braintree took, for
\* every number of requests: nothing is settled that was not taken, and nothing
\* taken is missing unless an answer or a transaction was lost.
-----------------------------------------------------------------------------
(* Nobody pays twice.                                                        *)

\* The order is paid exactly when a payment settled. As long as no payments
\* overlapped one request pays at a time, none after the order is paid, and
\* one payment settles it.
OneAtATime ==
    /\ braintreeOrderState = "ArrangingPayment" <=> braintreeSettled = {}
    /\ braintreeHistory.overlapped \/ \A p, q \in Requests :
          braintreeRequest[p].nonce # Undefined /\ braintreeRequest[q].nonce # Undefined
            => p = q
    /\ braintreeHistory.overlapped \/ braintreeSettled = {}
         \/ \A r \in Requests : braintreeRequest[r].nonce = Undefined
    /\ braintreeHistory.overlapped \/ \A x, y \in braintreeSettled : x = y

OnceInv == MoneyInv /\ OneAtATime

LEMMA OnceInit == Braintree!Init => OnceInv
<1>1. Braintree!Init => OneAtATime
  BY DEF Braintree!Init, OneAtATime, Braintree!Idle
<1> QED
  BY <1>1, MoneyInit DEF OnceInv

\* A request goes on with its payment method, or ends.
LEMMA NobodyPays ==
    ASSUME OnceInv, NEW r \in Requests,
           \A q \in Requests : q # r => braintreeRequest'[q] = braintreeRequest[q],
           braintreeRequest'[r].nonce \in {Undefined, braintreeRequest[r].nonce},
           braintreeHistory'.overlapped = braintreeHistory.overlapped,
           UNCHANGED <<braintreeSettled, braintreeOrderState>>
    PROVE  OneAtATime'
<1>1. \A q \in Requests : braintreeRequest'[q].nonce \in {Undefined, braintreeRequest[q].nonce}
  OBVIOUS
<1> QED
  BY <1>1 DEF OnceInv, OneAtATime

\* A payment begins on an order that is not paid.
LEMMA PayIsAlone ==
    ASSUME OnceInv,
           NEW r \in Requests, NEW nonce \in Nonces, NEW vault \in BOOLEAN,
           Braintree!Pay(r, nonce, vault)
    PROVE  OneAtATime'
<1>1. /\ braintreeSettled = {} /\ braintreeSettled' = {}
           /\ braintreeOrderState' = braintreeOrderState
  BY DEF Braintree!Pay, Braintree!MayPay, OnceInv, OneAtATime, Braintree!shop
<1>2. \A q \in Requests : q # r => braintreeRequest'[q] = braintreeRequest[q]
  BY DEF Braintree!Pay, OnceInv, MoneyInv, MoneyTypes
<1>3. PICK b \in BOOLEAN : /\ b <=> \E q \in Requests : braintreeRequest[q].nonce # Undefined
                          /\ braintreeHistory' = [braintreeHistory EXCEPT !.overlapped = @ \/ b]
  BY DEF Braintree!Pay
<1>4. braintreeHistory'.overlapped = (braintreeHistory.overlapped \/ b)
  BY <1>3, HistoryGrows DEF OnceInv, MoneyInv, MoneyTypes
<1>5. braintreeHistory'.overlapped \/ \A q \in Requests : q # r
        => braintreeRequest'[q].nonce = Undefined
  BY <1>2, <1>3, <1>4
<1> QED
  BY <1>1, <1>5 DEF OnceInv, OneAtATime

\* The payment that is recorded settles the order.
LEMMA RecordIsLast ==
    ASSUME OnceInv, NEW r \in Requests, Braintree!Record(r)
    PROVE  OneAtATime'
<1> DEFINE q == braintreeRequest[r]
<1>1. q.nonce \in Nonces /\ q.nonce # Undefined
  BY BraintreeAssumption DEF Braintree!Record, OnceInv, MoneyInv, RequestOK, Paying
<1>2. /\ braintreeRequest'[r] = Braintree!Idle /\ Braintree!Idle.nonce = Undefined
      /\ \A p \in Requests : p # r => braintreeRequest'[p] = braintreeRequest[p]
  BY DEF Braintree!Record, OnceInv, MoneyInv, MoneyTypes, Braintree!Idle
<1>3. braintreeHistory' = braintreeHistory
  BY DEF Braintree!Record
<1>4. CASE q.outcome # "Settled"
  <2>1. UNCHANGED <<braintreeSettled, braintreeOrderState>>
    BY <1>4 DEF Braintree!Record
  <2> QED
    BY <1>2, <1>3, <2>1, NobodyPays
<1>5. CASE q.outcome = "Settled"
  <2>1. braintreeSettled' = braintreeSettled \cup {q.nonce}
          /\ braintreeOrderState' = "PaymentSettled"
    BY <1>5 DEF Braintree!Record
  <2>2. braintreeHistory.overlapped \/ braintreeSettled = {}
    BY <1>1 DEF OnceInv, OneAtATime
  <2>3. braintreeHistory.overlapped
          \/ \A p \in Requests : braintreeRequest'[p].nonce = Undefined
    BY <1>1, <1>2 DEF OnceInv, OneAtATime
  <2> QED
    BY <1>3, <2>1, <2>2, <2>3 DEF OneAtATime
<1> QED
  BY <1>4, <1>5

\* Every other step keeps a request's payment method or ends the request.
LEMMA OthersGoOn ==
    ASSUME OnceInv, NEW r \in Requests,
           \/ Braintree!CreateCustomer(r) \/ Braintree!CreateCustomerFails(r)
           \/ \E success \in BOOLEAN : Braintree!Sale(r, success)
           \/ Braintree!SaleInvalid(r)
           \/ \E taken \in BOOLEAN : Braintree!SaleFails(r, taken)
           \/ \E include \in BOOLEAN : Braintree!Token(r, include)
           \/ Braintree!ClearCustomer(r) \/ Braintree!Crash(r)
    PROVE  OneAtATime'
<1>1. /\ UNCHANGED <<braintreeSettled, braintreeOrderState>>
  BY DEF Braintree!CreateCustomer, Braintree!CreateCustomerFails, Braintree!Sale,
         Braintree!SaleInvalid, Braintree!SaleFails, Braintree!Token,
         Braintree!ClearCustomer,
         Braintree!Crash, Braintree!shop
<1>2. \A q \in Requests : q # r => braintreeRequest'[q] = braintreeRequest[q]
  BY DEF Braintree!CreateCustomer, Braintree!CreateCustomerFails, Braintree!Goto,
         Braintree!Sale, Braintree!SaleInvalid, Braintree!SaleFails, Braintree!Token,
         Braintree!ClearCustomer, Braintree!Crash, OnceInv, MoneyInv, MoneyTypes
<1>3. braintreeHistory'.overlapped = braintreeHistory.overlapped
  <2>1. PICK b \in BOOLEAN : braintreeHistory' = braintreeHistory
               \/ braintreeHistory' = [braintreeHistory EXCEPT !.lost = @ \/ b]
    BY DEF Braintree!CreateCustomer, Braintree!CreateCustomerFails, Braintree!Sale,
           Braintree!SaleInvalid, Braintree!SaleFails, Braintree!Token,
           Braintree!ClearCustomer, Braintree!Crash
  <2> QED
    BY <2>1 DEF OnceInv, MoneyInv, MoneyTypes
<1>4. braintreeRequest'[r].nonce \in {Undefined, braintreeRequest[r].nonce}
  <2>1. braintreeRequest[r] \in BraintreeLocalState(BraintreeIds)
          /\ braintreeRequest \in [Requests -> BraintreeLocalState(BraintreeIds)]
    BY DEF OnceInv, MoneyInv, MoneyTypes
  <2>2. Braintree!Idle.nonce = Undefined /\ Braintree!Idle \in BraintreeLocalState(BraintreeIds)
    BY IdleIsOK DEF Braintree!Idle
  <2>3. [Braintree!Idle EXCEPT !.step = "clearCustomer"].nonce = Undefined
    BY <2>2 DEF BraintreeLocalState
  <2> QED
    BY <2>1, <2>2, <2>3
       DEF Braintree!CreateCustomer, Braintree!CreateCustomerFails, Braintree!Goto,
           Braintree!Sale, Braintree!SaleInvalid, Braintree!SaleFails,
       Braintree!AfterThrow, Braintree!Token, Braintree!ClearCustomer, Braintree!Crash,
         BraintreeLocalState
<1> QED
  BY <1>1, <1>2, <1>3, <1>4, NobodyPays

LEMMA OnceStep == OnceInv /\ [Braintree!Next]_(Braintree!vars) => OnceInv'
<1> SUFFICES ASSUME OnceInv, [Braintree!Next]_(Braintree!vars) PROVE OneAtATime'
  BY MoneyStep DEF OnceInv
<1>1. CASE Braintree!SwitchAccount \/ UNCHANGED Braintree!vars
  BY <1>1 DEF Braintree!SwitchAccount, Braintree!vars, Braintree!shop, OnceInv, OneAtATime
<1>2. ASSUME NEW r \in Requests, Braintree!RequestStep(r) PROVE OneAtATime'
  BY <1>2, PayIsAlone, RecordIsLast, OthersGoOn DEF Braintree!RequestStep
<1> QED
  BY <1>1, <1>2 DEF Braintree!Next

LEMMA OneAtATimeChargesOnce ==
    ASSUME OnceInv
    PROVE  Braintree!ChargedOnce
<1> SUFFICES ASSUME ~braintreeHistory.overlapped, ~braintreeHistory.lost
                      PROVE Cardinality(braintreeCharged) \in {0, 1}
  BY BraintreeCounts DEF Braintree!ChargedOnce
<1>1. braintreeCharged = braintreeSettled \cup Braintree!Recording
  BY DEF OnceInv, MoneyInv
<1>2. \A r \in Requests : braintreeRequest[r].outcome = "Settled"
        => braintreeRequest[r].nonce # Undefined
  BY BraintreeAssumption DEF OnceInv, MoneyInv, RequestOK, Paying
<1>3. braintreeSettled = {} \/ Braintree!Recording = {}
  BY <1>2 DEF OnceInv, OneAtATime, Braintree!Recording
<1>4. \A x, y \in Braintree!Recording : x = y
  BY <1>2 DEF OnceInv, OneAtATime, Braintree!Recording
<1>5. \A x, y \in braintreeCharged : x = y
  BY <1>1, <1>3, <1>4 DEF OnceInv, OneAtATime
<1>6. CASE braintreeCharged = {}
  BY <1>6, FS_EmptySet
<1>7. CASE braintreeCharged # {}
  <2>1. PICK x \in braintreeCharged : TRUE
    BY <1>7
  <2>2. braintreeCharged = {x}
    BY <1>5, <2>1
  <2> QED
    BY <2>2, FS_Singleton
<1> QED
  BY <1>6, <1>7

\* Seen from Braintree a step of another plugin is none.
LEMMA BraintreeAlone == Spec => Braintree!Spec
<1>1. Init => Braintree!Init
  BY DEF Init
<1>2. [Next]_vars => [Braintree!Next]_(Braintree!vars)
  BY DEF Next, vars, Braintree!vars, braintreeVars, StripeStep, BraintreeStep,
         PubSubStep, RedisStep, EmailStep, AssetsStep, StellateStep, SearchStep, DashboardStep,
         butStripe, butBraintree, butPubSub, butRedis, butEmail, butAssets, butStellate,
         butSearch, butDashboard
<1> QED
  BY <1>1, <1>2, PTL DEF Spec, Braintree!Spec

\* Money that was taken is recorded or about to be, unless an answer was lost.
THEOREM TakenIsRecorded == Spec => []MoneyIsRecorded
<1>1. MoneyInv => MoneyIsRecorded
  BY DEF MoneyIsRecorded, Braintree!MoneyIsRecorded, MoneyInv
<1> QED
  BY <1>1, BraintreeAlone, MoneyInit, MoneyStep, PTL DEF Braintree!Spec

\* A customer is charged once as long as the payments do not overlap and no
\* money that was taken is lost to the shop.
THEOREM NobodyPaysTwice == Spec => []ChargedOnce
<1>1. OnceInv => ChargedOnce
  BY OneAtATimeChargesOnce DEF ChargedOnce
<1> QED
  BY <1>1, BraintreeAlone, OnceInit, OnceStep, PTL DEF Braintree!Spec
=============================================================================
