------------------------ MODULE MolliePaymentsProofs ------------------------
(* Proofs about MolliePayments, for any number of Mollie orders, webhook    *)
(* handlers, intents, administrators, edits and faults: its type invariant, *)
(* that every payment the shop records is backed by money at Mollie, and    *)
(* that an order nobody amends is paid once.                                *)
EXTENDS MolliePayments, SequenceTheorems, WellFoundedInduction, TLAPS

\* The inductive invariant: the payments are backed because what the requests
\* carry towards them is.
Inv == TypeOK /\ PaymentsBacked /\ RequestsBacked

-----------------------------------------------------------------------------
\* A non-empty set of naturals has a least element, so find() over payments
\* that hold the transaction returns one of them.
LEMMA LeastNatural ==
    ASSUME NEW S \in SUBSET Nat, S # {}
    PROVE  \E i \in S : \A j \in S : i <= j
<1>1. PICK i \in S : \A j \in S : ~ (<<j, i>> \in OpToRel(<, Nat))
  BY NatLessThanWellFounded, WFMin
<1>2. \A j \in S : ~ (j < i)
  BY <1>1 DEF OpToRel
<1> QED
  BY <1>2

\* order.payments.find returns a payment of the given Mollie order.
LEMMA FirstPaymentIsRecorded ==
    ASSUME NEW ps \in Seq(Payment), NEW m, RecordedIn(ps, m) # {}
    PROVE  FirstPayment(ps, m) \in RecordedIn(ps, m) /\ FirstPayment(ps, m) \in Nat
<1>1. RecordedIn(ps, m) \in SUBSET Nat
  BY DEF RecordedIn
<1>2. \E i \in RecordedIn(ps, m) : \A j \in RecordedIn(ps, m) : i <= j
  BY <1>1, LeastNatural
<1> QED
  BY <1>1, <1>2 DEF FirstPayment

-----------------------------------------------------------------------------
LEMMA InitInv == Init => Inv
<1> SUFFICES ASSUME Init PROVE Inv
  OBVIOUS
<1> USE MollieAssumption DEF MollieAssumption
<1>1. TypeOK
  <2>1. payments \in Seq(Payment)
    BY EmptySeq DEF Init
  <2>2. mollie \in [MollieIds -> [status : MollieStatus, amount : 0 .. MaxTotal]]
    BY DEF Init, MollieStatus
  <2>3. actor \in [Actors -> Request]
    BY DEF Init, Request, Idle, Steps, MollieStatus
  <2>4. edits \in 0 .. MaxEdits /\ faults \in 0 .. MaxFaults
    BY DEF Init
  <2>5. pending \in SUBSET (MollieIds \X MollieStatus) /\ saves \in SUBSET MollieIds
    BY DEF Init
  <2>6. orderState \in OrderStates /\ amended \in BOOLEAN /\ mollieRef \in MollieIds \cup {NoMollie} /\ total \in 0 .. MaxTotal
    BY DEF Init, OrderStates
  <2> QED
    BY <2>1, <2>2, <2>3, <2>4, <2>5, <2>6 DEF TypeOK
<1>2. PaymentsBacked
  BY DEF Init, PaymentsBacked
<1>3. RequestsBacked
  BY DEF Init, RequestsBacked, RequestBacked, Idle
<1> QED
  BY <1>1, <1>2, <1>3 DEF Inv

-----------------------------------------------------------------------------
(* Type correctness of a step.                                              *)

LEMMA IdleIsRequest == Idle \in Request
BY MollieAssumption DEF MollieAssumption, Idle, Request, Steps, MollieStatus

\* Settling changes the state of one recorded payment and nothing else of it.
LEMMA SettledPayments ==
    ASSUME payments \in Seq(Payment), NEW i \in DOMAIN payments
    PROVE  LET ps == [payments EXCEPT ![i].state = "Settled"] IN
           /\ ps \in Seq(Payment)
           /\ DOMAIN ps = DOMAIN payments
           /\ \A j \in DOMAIN payments :
                 /\ ps[j].mollie = payments[j].mollie
                 /\ ps[j].amount = payments[j].amount
                 /\ ps[j].state = IF j = i THEN "Settled" ELSE payments[j].state
<1> DEFINE p == [payments[i] EXCEPT !.state = "Settled"]
           ps == [payments EXCEPT ![i] = p]
<1>1. payments[i] \in Payment
  OBVIOUS
<1>2. /\ p \in Payment
      /\ p.mollie = payments[i].mollie
      /\ p.amount = payments[i].amount
      /\ p.state = "Settled"
  BY <1>1 DEF Payment
<1>3. ps \in Seq(Payment)
  BY <1>2, ExceptSeq
<1> QED
  BY <1>2, <1>3

\* transitionOrderIfTotalIsCovered leaves a state of the order.
LEMMA CoveredState ==
    ASSUME NEW ps, orderState \in OrderStates
    PROVE  StateOnceCovered(ps) \in OrderStates
BY DEF StateOnceCovered, OrderStates

LEMMA PaymentStatusType ==
    ASSUME NEW s PROVE PaymentStatus(s) \in {"Authorized", "Settled"}
BY DEF PaymentStatus

\* A request that goes to its next step, throws, or is answered is a request.
LEMMA ActorMoves ==
    ASSUME actor \in [Actors -> Request], NEW a \in Actors
    PROVE  /\ \A step \in Steps : Goto(a, step) => actor' \in [Actors -> Request]
           /\ \A i \in Nat : GotoCapture(a, i) => actor' \in [Actors -> Request]
           /\ Throw(a) => actor' \in [Actors -> Request]
           /\ Answer(a) => actor' \in [Actors -> Request]
<1>1. \A step \in Steps : [actor[a] EXCEPT !.step = step] \in Request
  BY DEF Request
<1>2. \A i \in Nat : [actor[a] EXCEPT !.step = "capture", !.payment = i] \in Request
  BY DEF Request, Steps
<1> QED
  BY <1>1, <1>2, IdleIsRequest DEF Goto, GotoCapture, Throw, Answer

\* An intent that cannot update its Mollie order creates a new one.
LEMMA CreateInstead ==
    ASSUME actor \in [Actors -> Request], NEW a \in Actors
    PROVE  [actor EXCEPT ![a].step = "create", ![a].id = NoMollie] \in [Actors -> Request]
<1>1. [actor[a] EXCEPT !.step = "create", !.id = NoMollie] \in Request
  BY DEF Request, Steps
<1> QED
  BY <1>1

\* The amount of a Mollie order follows the lines an intent gives it.
LEMMA LinesReplaced ==
    ASSUME mollie \in [MollieIds -> [status : MollieStatus, amount : 0 .. MaxTotal]],
           actor \in [Actors -> Request], NEW a \in Actors
    PROVE  [mollie EXCEPT ![actor[a].id].amount = actor[a].amount]
              \in [MollieIds -> [status : MollieStatus, amount : 0 .. MaxTotal]]
<1>1. actor[a].amount \in 0 .. MaxTotal
  BY DEF Request
<1>2. \A m \in MollieIds : [mollie[m] EXCEPT !.amount = actor[a].amount]
                              \in [status : MollieStatus, amount : 0 .. MaxTotal]
  BY <1>1
<1> QED
  BY <1>2

LEMMA TypeStep ==
    ASSUME Inv, [Next]_vars
    PROVE  TypeOK'
<1> USE MollieAssumption, IdleIsRequest DEF MollieAssumption
<1>0. TypeOK /\ PaymentsBacked /\ RequestsBacked
  BY DEF Inv
<1>1. ASSUME NEW a \in Webhooks, NEW n \in pending, Deliver(a, n)
      PROVE  TypeOK'
  <2>1. n[1] \in MollieIds /\ n[2] \in MollieStatus
    BY <1>0 DEF TypeOK
  <2>2. actor' \in [Actors -> Request]
    BY <1>0, <1>1, <2>1 DEF Deliver, TypeOK, Request, Steps, Idle, Actors
  <2> QED
    BY <1>0, <1>1, <2>2 DEF Deliver, TypeOK, shopVars
<1>2. ASSUME NEW a \in Actors, GetMollieOrder(a)
      PROVE  TypeOK'
  <2>1. actor[a].id \in MollieIds
    BY <1>0, <1>2 DEF GetMollieOrder, RequestsBacked, RequestBacked
  <2>2. actor' \in [Actors -> Request]
    <3> DEFINE o == mollie[actor[a].id]
    <3>1. o \in [status : MollieStatus, amount : 0 .. MaxTotal]
      BY <1>0, <2>1 DEF TypeOK
    <3>2. actor[a] \in Request /\ actor \in [Actors -> Request]
      BY <1>0 DEF TypeOK
    <3>3. actor' = [actor EXCEPT ![a].step = "findOrder", ![a].status = o.status,
                                 ![a].amount = o.amount]
      BY <1>2 DEF GetMollieOrder
    <3> HIDE DEF o
    <3>4. [actor[a] EXCEPT !.step = "findOrder", !.status = o.status, !.amount = o.amount]
             \in Request
      BY <3>1, <3>2 DEF Request, Steps
    <3> QED
      BY <3>2, <3>3, <3>4
  <2> QED
    BY <1>0, <1>2, <2>2 DEF GetMollieOrder, TypeOK, shopVars
<1>3. ASSUME NEW a \in Actors, FindOrder(a)
      PROVE  TypeOK'
  <2> DEFINE m == actor[a].id
  <2>1. NextStep(m, actor[a].status) = "capture" => Recorded(m) # {}
    BY DEF NextStep
  <2>2. actor' \in [Actors -> Request]
    <3>1. CASE NextStep(m, actor[a].status) = "capture"
      <4>1. FirstPayment(payments, m) \in Nat
        BY <1>0, <2>1, <3>1, FirstPaymentIsRecorded DEF TypeOK, Recorded
      <4> QED
        BY <1>0, <1>3, <3>1, <4>1, ActorMoves DEF FindOrder, TypeOK
    <3>2. CASE NextStep(m, actor[a].status) # "capture"
      BY <1>0, <1>3, <3>2, ActorMoves DEF FindOrder, TypeOK, Steps
    <3> QED
      BY <3>1, <3>2
  <2>3. pending' \in SUBSET (MollieIds \X MollieStatus)
    BY <1>0, <1>3 DEF FindOrder, TypeOK, Answer, Throw, Goto
  <2> QED
    BY <1>0, <1>3, <2>2, <2>3 DEF FindOrder, TypeOK, shopVars
<1>4. ASSUME NEW a \in Actors, TransitionToArranging(a)
      PROVE  TypeOK'
  <2>1. actor' \in [Actors -> Request]
    BY <1>0, <1>4, ActorMoves DEF TransitionToArranging, TypeOK, Steps
  <2>2. orderState' \in OrderStates /\ pending' = pending
    BY <1>0, <1>4 DEF TransitionToArranging, TypeOK, OrderStates, Throw
  <2> QED
    BY <1>0, <1>4, <2>1, <2>2 DEF TransitionToArranging, TypeOK
<1>5. ASSUME NEW a \in Actors, AddPayment(a)
      PROVE  TypeOK'
  <2> DEFINE p == [mollie |-> actor[a].id, amount |-> actor[a].amount,
                   state |-> PaymentStatus(actor[a].status)]
  <2>1. p \in Payment
    BY <1>0, PaymentStatusType DEF TypeOK, Payment, Request
  <2>2. Append(payments, p) \in Seq(Payment)
    BY <1>0, <2>1, AppendProperties DEF TypeOK
  <2>3. StateOnceCovered(Append(payments, p)) \in OrderStates
    BY <1>0, CoveredState DEF TypeOK
  <2>4. payments' \in Seq(Payment) /\ orderState' \in OrderStates
    BY <1>0, <1>5, <2>2, <2>3 DEF AddPayment, TypeOK
  <2>5. actor' \in [Actors -> Request]
    <3>1. Len(payments) + 1 \in RecordedIn(Append(payments, p), actor[a].id)
      BY <1>0, AppendProperties DEF TypeOK, RecordedIn
    <3>2. FirstPayment(Append(payments, p), actor[a].id) \in Nat
      BY <2>2, <3>1, FirstPaymentIsRecorded
    <3> QED
      BY <1>0, <1>5, <3>2, ActorMoves DEF AddPayment, TypeOK
  <2>6. pending' \in SUBSET (MollieIds \X MollieStatus)
    BY <1>0, <1>5 DEF AddPayment, TypeOK, Answer, Throw, GotoCapture
  <2> QED
    BY <1>0, <1>5, <2>4, <2>5, <2>6 DEF AddPayment, TypeOK
<1>6. ASSUME NEW a \in Actors, Capture(a)
      PROVE  TypeOK'
  <2>1. actor' \in [Actors -> Request]
    BY <1>0, <1>6, ActorMoves DEF Capture, TypeOK, Steps
  <2> QED
    BY <1>0, <1>6, <2>1 DEF Capture, TypeOK, shopVars
<1>7. ASSUME NEW a \in Actors, Ship(a)
      PROVE  TypeOK'
  <2>1. actor' \in [Actors -> Request]
    BY <1>0, <1>7, ActorMoves DEF Ship, TypeOK, Steps
  <2>2. actor[a].id \in MollieIds
    BY <1>0, <1>7 DEF Ship, RequestsBacked, RequestBacked
  <2>3. mollie' \in [MollieIds -> [status : MollieStatus, amount : 0 .. MaxTotal]]
    <3>1. \/ mollie' = [mollie EXCEPT ![actor[a].id].status = "completed"]
          \/ mollie' = mollie
      BY <1>7 DEF Ship
    <3>2. mollie \in [MollieIds -> [status : MollieStatus, amount : 0 .. MaxTotal]]
      BY <1>0 DEF TypeOK
    <3>3. "completed" \in MollieStatus
      BY DEF MollieStatus
    <3> QED
      BY <3>1, <3>2, <3>3
  <2>4. pending' \in SUBSET (MollieIds \X MollieStatus)
    BY <1>0, <1>7, <2>2 DEF Ship, TypeOK, MollieStatus, Throw
  <2> QED
    BY <1>0, <1>7, <2>1, <2>3, <2>4 DEF Ship, TypeOK, shopVars
<1>8. ASSUME NEW a \in Actors, Settle(a)
      PROVE  TypeOK'
  <2>1. actor[a].payment \in DOMAIN payments
    BY <1>0, <1>8 DEF Settle, RequestsBacked, RequestBacked, Recorded, RecordedIn
  <2>2. payments' \in Seq(Payment)
    <3>1. payments \in Seq(Payment)
      BY <1>0 DEF TypeOK
    <3>2. [payments EXCEPT ![actor[a].payment].state = "Settled"] \in Seq(Payment)
      BY <2>1, <3>1, SettledPayments
    <3> QED
      BY <1>8, <3>1, <3>2 DEF Settle
  <2>3. orderState' \in OrderStates
    BY <1>0, <1>8 DEF Settle, TypeOK, OrderStates
  <2>4. actor' \in [Actors -> Request]
    BY <1>0, <1>8, ActorMoves DEF Settle, TypeOK
  <2>5. pending' \in SUBSET (MollieIds \X MollieStatus)
    BY <1>0, <1>8 DEF Settle, TypeOK, Answer, Throw
  <2> QED
    BY <1>0, <1>8, <2>2, <2>3, <2>4, <2>5 DEF Settle, TypeOK
<1>9. ASSUME NEW a \in Admins, NEW i \in DOMAIN payments, AdminSettle(a, i)
      PROVE  TypeOK'
  <2>1. payments[i].mollie \in MollieIds \cup {NoMollie} /\ i \in Nat
    <3>1. payments \in Seq(Payment)
      BY <1>0 DEF TypeOK
    <3>2. payments[i] \in Payment /\ i \in Nat
      BY <3>1
    <3> QED
      BY <3>2 DEF Payment
  <2>2. [Idle EXCEPT !.step = "capture", !.id = payments[i].mollie, !.payment = i] \in Request
    BY <2>1 DEF Request, Steps, Idle, MollieStatus
  <2>3. actor' \in [Actors -> Request]
    BY <1>0, <1>9, <2>2 DEF AdminSettle, TypeOK, Actors
  <2> QED
    BY <1>0, <1>9, <2>3 DEF AdminSettle, TypeOK, shopVars
<1>10. ASSUME NEW a \in Shoppers, StartIntent(a)
       PROVE  TypeOK'
  <2>1. AmountToPay \in 0 .. MaxTotal /\ mollieRef \in MollieIds \cup {NoMollie}
    BY <1>0, <1>10 DEF StartIntent, TypeOK
  <2>2. actor' \in [Actors -> Request]
    <3> DEFINE next == CASE AmountToPay = 0 /\ orderState \in Arranging -> "addPayment"
                         [] AmountToPay = 0 /\ orderState \notin Arranging -> "transition"
                         [] AmountToPay # 0 /\ mollieRef # NoMollie -> "update"
                         [] AmountToPay # 0 /\ mollieRef = NoMollie -> "create"
    <3>1. next \in Steps
      BY DEF Steps
    <3>2. actor' = [actor EXCEPT ![a] =
                      [Idle EXCEPT !.step = next, !.amount = AmountToPay,
                                   !.id = IF next = "update" THEN mollieRef ELSE NoMollie]]
      BY <1>10 DEF StartIntent
    <3> HIDE DEF next
    <3>3. [Idle EXCEPT !.step = next, !.amount = AmountToPay,
                       !.id = IF next = "update" THEN mollieRef ELSE NoMollie] \in Request
      BY <3>1, <2>1 DEF Request, Idle
    <3> QED
      BY <1>0, <3>2, <3>3 DEF TypeOK, Actors
  <2> QED
    BY <1>0, <1>10, <2>2 DEF StartIntent, TypeOK, shopVars
<1>11. ASSUME NEW a \in Actors, UpdateMollieOrder(a)
       PROVE  TypeOK'
  <2>1. actor' \in [Actors -> Request]
    <3>1. actor \in [Actors -> Request]
      BY <1>0 DEF TypeOK
    <3>2. \/ actor' = [actor EXCEPT ![a] = Idle]
          \/ actor' = [actor EXCEPT ![a].step = "create", ![a].id = NoMollie]
      BY <1>11 DEF UpdateMollieOrder
    <3> QED
      BY <3>1, <3>2, CreateInstead
  <2>2. mollie' \in [MollieIds -> [status : MollieStatus, amount : 0 .. MaxTotal]]
    <3>1. /\ actor \in [Actors -> Request]
          /\ mollie \in [MollieIds -> [status : MollieStatus, amount : 0 .. MaxTotal]]
      BY <1>0 DEF TypeOK
    <3>2. \/ mollie' = mollie
          \/ mollie' = [mollie EXCEPT ![actor[a].id].amount = actor[a].amount]
      BY <1>11 DEF UpdateMollieOrder
    <3> QED
      BY <3>1, <3>2, LinesReplaced
  <2> QED
    BY <1>0, <1>11, <2>1, <2>2 DEF UpdateMollieOrder, TypeOK, shopVars
<1>12. ASSUME NEW a \in Actors, NEW m \in MollieIds, CreateMollieOrder(a, m)
       PROVE  TypeOK'
  <2>1. actor' \in [Actors -> Request]
    BY <1>0, <1>12 DEF CreateMollieOrder, TypeOK
  <2>2. mollie' \in [MollieIds -> [status : MollieStatus, amount : 0 .. MaxTotal]]
    BY <1>0, <1>12 DEF CreateMollieOrder, TypeOK, Request, MollieStatus
  <2> QED
    BY <1>0, <1>12, <2>1, <2>2 DEF CreateMollieOrder, TypeOK, shopVars
<1>13. ASSUME NEW m \in MollieIds, SaveMollieRef(m)
       PROVE  TypeOK'
  BY <1>0, <1>13 DEF SaveMollieRef, TypeOK
<1>14. ASSUME NEW m \in MollieIds, MollieStatusChange(m)
       PROVE  TypeOK'
  <2>1. PICK move \in MollieMoves :
            /\ mollie' = [mollie EXCEPT ![m].status = move[2]]
            /\ pending' = pending \cup {<<m, move[2]>>}
    BY <1>14 DEF MollieStatusChange
  <2>2. move[2] \in MollieStatus
    BY DEF MollieMoves, MollieStatus
  <2>3. mollie' \in [MollieIds -> [status : MollieStatus, amount : 0 .. MaxTotal]]
    BY <1>0, <2>1, <2>2 DEF TypeOK
  <2>4. pending' \in SUBSET (MollieIds \X MollieStatus)
    BY <1>0, <2>1, <2>2 DEF TypeOK
  <2> QED
    BY <1>0, <1>14, <2>3, <2>4 DEF MollieStatusChange, TypeOK, shopVars
<1>15. ASSUME EditLines \/ Checkout \/ ModifyOrder \/ CancelOrder
       PROVE  TypeOK'
  <2>1. CASE EditLines
    BY <1>0, <2>1 DEF EditLines, IntentStarted, TypeOK
  <2>2. CASE Checkout
    BY <1>0, <2>2 DEF Checkout, TypeOK, OrderStates
  <2>3. CASE ModifyOrder
    BY <1>0, <2>3 DEF ModifyOrder, TypeOK, OrderStates
  <2>4. CASE CancelOrder
    BY <1>0, <2>4 DEF CancelOrder, TypeOK, OrderStates
  <2> QED
    BY <1>15, <2>1, <2>2, <2>3, <2>4
<1>16. ASSUME NEW a \in Actors, RequestFails(a)
       PROVE  TypeOK'
  <2>1. actor' \in [Actors -> Request]
    BY <1>0, <1>16 DEF RequestFails, TypeOK
  <2> QED
    BY <1>0, <1>16, <2>1 DEF RequestFails, Fault, TypeOK, shopVars
<1>17. ASSUME NEW m \in MollieIds, SaveFails(m) \/ RepeatNotification(m)
       PROVE  TypeOK'
  <2>1. CASE SaveFails(m)
    BY <1>0, <2>1 DEF SaveFails, Fault, TypeOK, shopVars
  <2>2. CASE RepeatNotification(m)
    <3>1. mollie[m].status \in MollieStatus
      BY <1>0 DEF TypeOK
    <3> QED
      BY <1>0, <2>2, <3>1 DEF RepeatNotification, Fault, TypeOK, shopVars
  <2> QED
    BY <1>17, <2>1, <2>2
<1>18. ASSUME NEW a \in Actors, UpdateFails(a)
       PROVE  TypeOK'
  <2>1. actor' \in [Actors -> Request]
    BY <1>0, <1>18, CreateInstead DEF UpdateFails, TypeOK
  <2>2. mollie' \in [MollieIds -> [status : MollieStatus, amount : 0 .. MaxTotal]]
    <3>1. /\ actor \in [Actors -> Request]
          /\ mollie \in [MollieIds -> [status : MollieStatus, amount : 0 .. MaxTotal]]
      BY <1>0 DEF TypeOK
    <3>2. \/ mollie' = mollie
          \/ mollie' = [mollie EXCEPT ![actor[a].id].amount = actor[a].amount]
      BY <1>18 DEF UpdateFails
    <3> QED
      BY <3>1, <3>2, LinesReplaced
  <2> QED
    BY <1>0, <1>18, <2>1, <2>2 DEF UpdateFails, Fault, TypeOK, shopVars
<1>19. CASE UNCHANGED vars
  BY <1>0, <1>19 DEF vars, TypeOK
<1> QED
  BY <1>1, <1>2, <1>3, <1>4, <1>5, <1>6, <1>7, <1>8, <1>9, <1>10, <1>11, <1>12, <1>13,
     <1>14, <1>15, <1>16, <1>17, <1>18, <1>19 DEF Next, RunRequest, HandleWebhook

-----------------------------------------------------------------------------
(* What no step takes back.                                                 *)

\* Only shipping, intents and the customer touch Mollie orders.
LEMMA MollieFrame ==
    ASSUME [Next]_vars
    PROVE  \/ UNCHANGED mollie
           \/ \E a \in Actors : Ship(a) \/ UpdateMollieOrder(a) \/ UpdateFails(a)
           \/ \E a \in Actors, m \in MollieIds : CreateMollieOrder(a, m)
           \/ \E m \in MollieIds : MollieStatusChange(m)
<1>1. CASE \E a \in Webhooks, n \in pending : Deliver(a, n)
  BY <1>1 DEF Deliver
<1>2. CASE \E a \in Actors : RunRequest(a)
  BY <1>2 DEF RunRequest, HandleWebhook, TransitionToArranging, AddPayment, Capture, Settle,
     GetMollieOrder, FindOrder
<1>3. CASE \/ \E a \in Admins, i \in DOMAIN payments : AdminSettle(a, i)
           \/ \E a \in Shoppers : StartIntent(a)
  BY <1>3 DEF AdminSettle, StartIntent
<1>4. CASE \E m \in MollieIds : SaveMollieRef(m) \/ MollieStatusChange(m)
  BY <1>4 DEF SaveMollieRef
<1>5. CASE EditLines \/ Checkout \/ ModifyOrder \/ CancelOrder
  BY <1>5 DEF EditLines, Checkout, ModifyOrder, CancelOrder
<1>6. CASE \/ \E a \in Actors : RequestFails(a) \/ UpdateFails(a)
           \/ \E m \in MollieIds : SaveFails(m) \/ RepeatNotification(m)
  BY <1>6 DEF RequestFails, SaveFails, RepeatNotification
<1>7. CASE UNCHANGED vars
  BY <1>7 DEF vars
<1> QED
  BY <1>1, <1>2, <1>3, <1>4, <1>5, <1>6, <1>7 DEF Next

\* Money committed to a Mollie order stays committed, for the same amount, and
\* what was captured stays captured.
LEMMA MollieMonotone ==
    ASSUME Inv, [Next]_vars, NEW m \in MollieIds
    PROVE  /\ mollie[m].status \in Committed =>
                 mollie'[m].status \in Committed /\ mollie'[m].amount = mollie[m].amount
           /\ mollie[m].status \in Captured => mollie'[m].status \in Captured
           /\ mollie[m].status = "completed" => mollie'[m].status = "completed"
<1>0. mollie \in [MollieIds -> [status : MollieStatus, amount : 0 .. MaxTotal]]
  BY DEF Inv, TypeOK
<1>1. CASE UNCHANGED mollie
  BY <1>1
<1>2. CASE \E a \in Actors : Ship(a) \/ UpdateMollieOrder(a) \/ UpdateFails(a)
  BY <1>0, <1>2 DEF Ship, UpdateMollieOrder, UpdateFails, Committed, Captured
<1>3. CASE \E a \in Actors, n \in MollieIds : CreateMollieOrder(a, n)
  BY <1>0, <1>3 DEF CreateMollieOrder, Committed, Captured
<1>4. CASE \E n \in MollieIds : MollieStatusChange(n)
  BY <1>0, <1>4 DEF MollieStatusChange, MollieMoves, Committed, Captured
<1> QED
  BY <1>1, <1>2, <1>3, <1>4, MollieFrame

\* Only addPayment and settlePayment touch the payments.
LEMMA PaymentsFrame ==
    ASSUME [Next]_vars
    PROVE  UNCHANGED payments \/ \E a \in Actors : AddPayment(a) \/ Settle(a)
<1>1. CASE \E a \in Webhooks, n \in pending : Deliver(a, n)
  BY <1>1 DEF Deliver, shopVars
<1>2. CASE \E a \in Actors : RunRequest(a)
  BY <1>2 DEF RunRequest, HandleWebhook, TransitionToArranging, Capture, Ship,
     UpdateMollieOrder, CreateMollieOrder, GetMollieOrder, FindOrder, shopVars
<1>3. CASE \/ \E a \in Admins, i \in DOMAIN payments : AdminSettle(a, i)
           \/ \E a \in Shoppers : StartIntent(a)
  BY <1>3 DEF AdminSettle, StartIntent, shopVars
<1>4. CASE \E m \in MollieIds : SaveMollieRef(m) \/ MollieStatusChange(m)
  BY <1>4 DEF SaveMollieRef, MollieStatusChange, shopVars
<1>5. CASE EditLines \/ Checkout \/ ModifyOrder \/ CancelOrder
  BY <1>5 DEF EditLines, Checkout, ModifyOrder, CancelOrder
<1>6. CASE \/ \E a \in Actors : RequestFails(a) \/ UpdateFails(a)
           \/ \E m \in MollieIds : SaveFails(m) \/ RepeatNotification(m)
  BY <1>6 DEF RequestFails, UpdateFails, SaveFails, RepeatNotification, shopVars
<1>7. CASE UNCHANGED vars
  BY <1>7 DEF vars
<1> QED
  BY <1>1, <1>2, <1>3, <1>4, <1>5, <1>6, <1>7 DEF Next

\* The payments a step of a request leaves behind: those there were, one of
\* them settled or a new one added.
LEMMA AddedPayment ==
    ASSUME payments \in Seq(Payment), NEW p \in Payment
    PROVE  LET ps == Append(payments, p) IN
           /\ DOMAIN ps = DOMAIN payments \cup {Len(payments) + 1}
           /\ ps[Len(payments) + 1] = p
           /\ \A i \in DOMAIN payments : ps[i] = payments[i]
BY AppendProperties

\* A payment stays recorded, for the same Mollie order.
LEMMA PaymentsMonotone ==
    ASSUME Inv, [Next]_vars, NEW i \in DOMAIN payments
    PROVE  i \in DOMAIN payments' /\ payments'[i].mollie = payments[i].mollie
<1>0. payments \in Seq(Payment) /\ actor \in [Actors -> Request]
  BY DEF Inv, TypeOK
<1>1. CASE UNCHANGED payments
  BY <1>1
<1>2. ASSUME NEW a \in Actors, AddPayment(a)
      PROVE  i \in DOMAIN payments' /\ payments'[i].mollie = payments[i].mollie
  <2> DEFINE p == [mollie |-> actor[a].id, amount |-> actor[a].amount,
                   state |-> PaymentStatus(actor[a].status)]
  <2>1. p \in Payment
    BY <1>0, PaymentStatusType DEF Payment, Request
  <2>2. payments' = Append(payments, p) \/ payments' = payments
    BY <1>2 DEF AddPayment
  <2> QED
    BY <1>0, <2>1, <2>2, AddedPayment
<1>3. ASSUME NEW a \in Actors, Settle(a)
      PROVE  i \in DOMAIN payments' /\ payments'[i].mollie = payments[i].mollie
  <2>1. actor[a].payment \in DOMAIN payments
    BY <1>3 DEF Inv, Settle, RequestsBacked, RequestBacked, Recorded, RecordedIn
  <2>2. \/ payments' = [payments EXCEPT ![actor[a].payment].state = "Settled"]
        \/ payments' = payments
    BY <1>3 DEF Settle
  <2> QED
    BY <1>0, <2>1, <2>2, SettledPayments
<1> QED
  BY <1>1, <1>2, <1>3, PaymentsFrame

-----------------------------------------------------------------------------
\* Each step keeps every payment backed.
LEMMA PaymentsStep ==
    ASSUME Inv, [Next]_vars
    PROVE  PaymentsBacked'
<1>0. /\ payments \in Seq(Payment) /\ actor \in [Actors -> Request]
      /\ PaymentsBacked /\ RequestsBacked
  BY DEF Inv, TypeOK
<1>1. \A i \in DOMAIN payments : payments[i].mollie \in MollieIds \cup {NoMollie}
  <2>1. \A i \in DOMAIN payments : payments[i] \in Payment
    BY <1>0
  <2> QED
    BY <2>1 DEF Payment
<1> DEFINE Backed(p) == /\ p.mollie = NoMollie => p.amount = 0 /\ p.state = "Settled"
                        /\ p.mollie # NoMollie =>
                              /\ mollie'[p.mollie].status \in Committed
                              /\ mollie'[p.mollie].amount = p.amount
                              /\ p.state = "Settled" => mollie'[p.mollie].status \in Captured
<1>2. \A i \in DOMAIN payments : Backed(payments[i])
  <2> SUFFICES ASSUME NEW i \in DOMAIN payments PROVE Backed(payments[i])
    OBVIOUS
  <2>1. CASE payments[i].mollie = NoMollie
    BY <1>0, <2>1 DEF PaymentsBacked
  <2>2. CASE payments[i].mollie # NoMollie
    <3>1. payments[i].mollie \in MollieIds
      BY <1>1, <2>2
    <3> QED
      BY <1>0, <2>2, <3>1, MollieMonotone DEF PaymentsBacked
  <2> QED
    BY <2>1, <2>2
<1>3. SUFFICES \A i \in DOMAIN payments' : Backed(payments'[i])
  BY DEF PaymentsBacked
<1>4. CASE UNCHANGED payments
  BY <1>2, <1>4
<1>5. ASSUME NEW a \in Actors, AddPayment(a)
      PROVE  \A i \in DOMAIN payments' : Backed(payments'[i])
  <2> DEFINE p == [mollie |-> actor[a].id, amount |-> actor[a].amount,
                   state |-> PaymentStatus(actor[a].status)]
  <2>1. p \in Payment
    BY <1>0, PaymentStatusType DEF Payment, Request
  <2>2. Backed(p)
    BY <1>0, <1>5 DEF AddPayment, RequestsBacked, RequestBacked, PaymentStatus, Committed, Captured
  <2>3. payments' = Append(payments, p) \/ payments' = payments
    BY <1>5 DEF AddPayment
  <2> HIDE DEF p, Backed
  <2> QED
    BY <1>0, <1>2, <2>1, <2>2, <2>3, AddedPayment
<1>6. ASSUME NEW a \in Actors, Settle(a)
      PROVE  \A i \in DOMAIN payments' : Backed(payments'[i])
  <2> DEFINE k == actor[a].payment
  <2>1. k \in DOMAIN payments /\ payments[k].mollie = actor[a].id /\ actor[a].id \in MollieIds
    BY <1>0, <1>6 DEF Settle, RequestsBacked, RequestBacked, Recorded, RecordedIn
  <2>2. mollie'[payments[k].mollie].status \in Captured /\ payments[k].mollie # NoMollie
    BY <1>0, <1>6, <2>1, MollieAssumption
       DEF Settle, RequestsBacked, RequestBacked, Captured, MollieAssumption
  <2>3. CASE payments' = payments
    BY <1>2, <2>3
  <2>4. CASE payments' = [payments EXCEPT ![k].state = "Settled"]
    BY <1>0, <1>2, <2>1, <2>2, <2>4, SettledPayments
  <2> QED
    BY <1>6, <2>3, <2>4 DEF Settle
<1> QED
  BY <1>4, <1>5, <1>6, PaymentsFrame

-----------------------------------------------------------------------------
(* What the requests carry.                                                 *)

LEMMA RecordedMonotone ==
    ASSUME Inv, [Next]_vars, NEW m
    PROVE  \A i \in Recorded(m) : i \in Recorded(m)'
BY PaymentsMonotone DEF Recorded, RecordedIn

\* Waiting does not hurt: whatever step is taken meanwhile, what a request
\* carries stays true.
LEMMA RequestStays ==
    ASSUME Inv, [Next]_vars, NEW b \in Actors, actor'[b] = actor[b]
    PROVE  RequestBacked(b)'
<1>0. actor \in [Actors -> Request] /\ RequestBacked(b)
  BY DEF Inv, TypeOK, RequestsBacked
<1>1. actor[b].id \in MollieIds \cup {NoMollie}
  BY <1>0 DEF Request
<1>2. CASE actor[b].id \in MollieIds
  <2>1. actor[b].id # NoMollie
    BY <1>2, MollieAssumption DEF MollieAssumption
  <2> DEFINE m == actor[b].id
  <2>2. /\ mollie[m].status \in Committed =>
              mollie'[m].status \in Committed /\ mollie'[m].amount = mollie[m].amount
        /\ mollie[m].status \in Captured => mollie'[m].status \in Captured
        /\ mollie[m].status = "completed" => mollie'[m].status = "completed"
    BY <1>2, MollieMonotone
  <2> QED
    BY <1>0, <1>2, <2>1, <2>2, RecordedMonotone DEF RequestBacked
<1>3. CASE actor[b].id = NoMollie
  <2>1. actor[b].step \notin {"getMollieOrder", "findOrder", "capture", "ship", "settle", "update"}
    BY <1>0, <1>3, MollieAssumption DEF RequestBacked, MollieAssumption
  <2> QED
    BY <1>0, <1>3, <2>1 DEF RequestBacked
<1> QED
  BY <1>1, <1>2, <1>3

\* A request that was answered or threw carries nothing.
LEMMA IdleBacked ==
    ASSUME NEW a \in Actors, actor'[a] = Idle
    PROVE  RequestBacked(a)'
BY DEF RequestBacked, Idle

LEMMA RequestsStep ==
    ASSUME Inv, [Next]_vars
    PROVE  RequestsBacked'
<1>0. /\ actor \in [Actors -> Request] /\ payments \in Seq(Payment)
      /\ mollie \in [MollieIds -> [status : MollieStatus, amount : 0 .. MaxTotal]]
      /\ mollieRef \in MollieIds \cup {NoMollie}
      /\ pending \in SUBSET (MollieIds \X MollieStatus)
      /\ PaymentsBacked /\ RequestsBacked
  BY DEF Inv, TypeOK
<1> DEFINE Moves(a) == RequestBacked(a)' /\ \A b \in Actors : b # a => actor'[b] = actor[b]
<1>1. ASSUME NEW a \in Webhooks, NEW n \in pending, Deliver(a, n)
      PROVE  Moves(a)
  <2>1. n[1] \in MollieIds
    BY <1>0
  <2> QED
    BY <1>0, <1>1, <2>1 DEF Deliver, RequestBacked, Idle, Actors
<1>2. ASSUME NEW a \in Actors, GetMollieOrder(a)
      PROVE  Moves(a)
  <2>1. actor[a].id \in MollieIds
    BY <1>0, <1>2 DEF GetMollieOrder, RequestsBacked, RequestBacked
  <2>2. actor'[a] = [actor[a] EXCEPT !.step = "findOrder", !.status = mollie[actor[a].id].status,
                                     !.amount = mollie[actor[a].id].amount]
    BY <1>0, <1>2 DEF GetMollieOrder
  <2> QED
    BY <1>0, <1>2, <2>1, <2>2 DEF GetMollieOrder, RequestBacked, Request, Committed, Captured
<1>3. ASSUME NEW a \in Actors, FindOrder(a)
      PROVE  Moves(a)
  <2> DEFINE m == actor[a].id
  <2>1. RequestBacked(a) /\ m \in MollieIds /\ m # NoMollie
    BY <1>0, <1>3, MollieAssumption DEF FindOrder, RequestsBacked, RequestBacked, MollieAssumption
  <2>2. CASE Answer(a) \/ Throw(a)
    BY <1>0, <2>2, IdleBacked DEF Answer, Throw
  <2>3. CASE NextStep(m, actor[a].status) = "capture"
    <3>1. Recorded(m) # {}
      BY <2>3 DEF NextStep
    <3>2. FirstPayment(payments, m) \in Recorded(m)
      BY <1>0, <3>1, FirstPaymentIsRecorded DEF Recorded
    <3>3. UNCHANGED payments /\ GotoCapture(a, FirstPayment(payments, m))
      BY <1>3, <2>3 DEF FindOrder, shopVars
    <3>4. actor'[a] = [actor[a] EXCEPT !.step = "capture", !.payment = FirstPayment(payments, m)]
      BY <1>0, <3>3 DEF GotoCapture
    <3> QED
      BY <1>0, <2>1, <3>2, <3>3, <3>4
         DEF GotoCapture, RequestBacked, Request, Recorded, RecordedIn
  <2>4. CASE NextStep(m, actor[a].status) \in {"transition", "addPayment"}
    <3>1. actor[a].status \in {"paid", "authorized"}
      BY <2>4 DEF NextStep
    <3>2. UNCHANGED mollie /\ Goto(a, NextStep(m, actor[a].status))
      BY <1>3, <2>4 DEF FindOrder
    <3>3. actor'[a] = [actor[a] EXCEPT !.step = NextStep(m, actor[a].status)]
      BY <1>0, <3>2 DEF Goto
    <3>4. actor'[a].step \in {"transition", "addPayment"} /\ actor'[a].id = m
          /\ actor'[a].status = actor[a].status /\ actor'[a].amount = actor[a].amount
      BY <1>0, <2>4, <3>3 DEF Request
    <3>5. RequestBacked(a)'
      BY <1>3, <2>1, <3>1, <3>2, <3>4 DEF FindOrder, RequestBacked
    <3> QED
      BY <1>0, <3>2, <3>5 DEF Goto
  <2> QED
    BY <1>3, <2>2, <2>3, <2>4 DEF FindOrder
<1>4. ASSUME NEW a \in Actors, TransitionToArranging(a)
      PROVE  Moves(a)
  <2>1. CASE Throw(a)
    BY <1>0, <2>1, IdleBacked DEF Throw
  <2>2. CASE Goto(a, "addPayment")
    <3>1. RequestBacked(a) /\ actor[a].step = "transition"
      BY <1>0, <1>4 DEF TransitionToArranging, RequestsBacked
    <3>2. actor'[a] = [actor[a] EXCEPT !.step = "addPayment"]
      BY <1>0, <2>2 DEF Goto
    <3>3. actor'[a].step = "addPayment" /\ actor'[a].id = actor[a].id
          /\ actor'[a].status = actor[a].status /\ actor'[a].amount = actor[a].amount
      BY <1>0, <3>2 DEF Request
    <3>4. RequestBacked(a)'
      BY <1>4, <3>1, <3>3 DEF TransitionToArranging, RequestBacked
    <3> QED
      BY <1>0, <2>2, <3>4 DEF Goto
  <2> QED
    BY <1>4, <2>1, <2>2 DEF TransitionToArranging
<1>5. ASSUME NEW a \in Actors, AddPayment(a)
      PROVE  Moves(a)
  <2> DEFINE p == [mollie |-> actor[a].id, amount |-> actor[a].amount,
                   state |-> PaymentStatus(actor[a].status)]
             ps == Append(payments, p)
             i == FirstPayment(ps, actor[a].id)
  <2>1. CASE Answer(a) \/ Throw(a)
    BY <1>0, <2>1, IdleBacked DEF Answer, Throw
  <2>2. CASE /\ actor[a].status = "authorized" /\ payments' = ps
             /\ GotoCapture(a, i)
    <3>1. p \in Payment
      BY <1>0, PaymentStatusType DEF Payment, Request
    <3>2. ps \in Seq(Payment) /\ Len(payments) + 1 \in RecordedIn(ps, actor[a].id)
      BY <1>0, <3>1, AppendProperties DEF RecordedIn
    <3>3. i \in RecordedIn(ps, actor[a].id)
      BY <3>2, FirstPaymentIsRecorded
    <3>4. actor[a].id \in MollieIds
      BY <1>0, <1>5, <2>2 DEF AddPayment, RequestsBacked, RequestBacked, Request
    <3>5. actor'[a] = [actor[a] EXCEPT !.step = "capture", !.payment = i]
      BY <1>0, <2>2 DEF GotoCapture
    <3>6. actor'[a].step = "capture" /\ actor'[a].id = actor[a].id /\ actor'[a].payment = i
      BY <1>0, <3>5 DEF Request
    <3>7. RequestBacked(a)'
      BY <2>2, <3>3, <3>4, <3>6 DEF RequestBacked, Recorded
    <3> QED
      BY <1>0, <2>2, <3>7 DEF GotoCapture
  <2> QED
    BY <1>5, <2>1, <2>2 DEF AddPayment
<1>6. ASSUME NEW a \in Actors, Capture(a)
      PROVE  Moves(a)
  <2> DEFINE next == IF mollie[actor[a].id].status = "completed" THEN "settle" ELSE "ship"
  <2>1. RequestBacked(a) /\ actor[a].step = "capture"
    BY <1>0, <1>6 DEF Capture, RequestsBacked
  <2>2. actor' = [actor EXCEPT ![a].step = next] /\ UNCHANGED <<payments, mollie>>
    BY <1>6 DEF Capture, Goto, shopVars
  <2>3. actor'[a].step = next /\ actor'[a].id = actor[a].id /\ actor'[a].payment = actor[a].payment
    BY <1>0, <2>2 DEF Request
  <2>4. RequestBacked(a)'
    BY <2>1, <2>2, <2>3 DEF RequestBacked, Recorded, RecordedIn
  <2> QED
    BY <1>0, <2>2, <2>4
<1>7. ASSUME NEW a \in Actors, Ship(a)
      PROVE  Moves(a)
  <2> DEFINE m == actor[a].id
  <2>1. CASE Throw(a)
    BY <1>0, <2>1, IdleBacked DEF Throw
  <2>2. CASE mollie' = [mollie EXCEPT ![m].status = "completed"] /\ Goto(a, "settle")
    <3>1. RequestBacked(a) /\ actor[a].step = "ship" /\ UNCHANGED payments
      BY <1>0, <1>7 DEF Ship, RequestsBacked, shopVars
    <3>2. m \in MollieIds
      BY <3>1 DEF RequestBacked
    <3>3. actor'[a] = [actor[a] EXCEPT !.step = "settle"]
      BY <1>0, <2>2 DEF Goto
    <3>4. actor'[a].step = "settle" /\ actor'[a].id = m /\ actor'[a].payment = actor[a].payment
      BY <1>0, <3>3 DEF Request
    <3>5. mollie'[m].status = "completed"
      BY <1>0, <2>2, <3>2
    <3>6. RequestBacked(a)'
      BY <3>1, <3>2, <3>4, <3>5 DEF RequestBacked, Recorded, RecordedIn
    <3> QED
      BY <1>0, <2>2, <3>6 DEF Goto
  <2> QED
    BY <1>7, <2>1, <2>2 DEF Ship
<1>8. ASSUME NEW a \in Actors, Settle(a)
      PROVE  Moves(a)
  BY <1>0, <1>8, IdleBacked DEF Settle, Answer, Throw
<1>9. ASSUME NEW a \in Admins, NEW i \in DOMAIN payments, AdminSettle(a, i)
      PROVE  Moves(a)
  <2>1. payments[i] \in Payment
    BY <1>0
  <2>2. payments[i].mollie \in MollieIds
    BY <1>0, <1>9, <2>1 DEF AdminSettle, Payment, PaymentsBacked
  <2>3. /\ actor' = [actor EXCEPT ![a] = [Idle EXCEPT !.step = "capture",
                                             !.id = payments[i].mollie, !.payment = i]]
        /\ UNCHANGED payments
    BY <1>9 DEF AdminSettle, shopVars
  <2>4. actor'[a].step = "capture" /\ actor'[a].id = payments[i].mollie /\ actor'[a].payment = i
    BY <1>0, <2>3 DEF Idle, Actors
  <2>5. RequestBacked(a)'
    BY <2>2, <2>3, <2>4 DEF RequestBacked, Recorded, RecordedIn
  <2> QED
    BY <1>0, <2>3, <2>5 DEF Actors
<1>10. ASSUME NEW a \in Shoppers, StartIntent(a)
       PROVE  Moves(a)
  <2> DEFINE next == CASE AmountToPay = 0 /\ orderState \in Arranging -> "addPayment"
                       [] AmountToPay = 0 /\ orderState \notin Arranging -> "transition"
                       [] AmountToPay # 0 /\ mollieRef # NoMollie -> "update"
                       [] AmountToPay # 0 /\ mollieRef = NoMollie -> "create"
             id == IF next = "update" THEN mollieRef ELSE NoMollie
  <2>1. actor' = [actor EXCEPT ![a] = [Idle EXCEPT !.step = next, !.amount = AmountToPay, !.id = id]]
    BY <1>10 DEF StartIntent
  <2>2. /\ next \in {"transition", "addPayment", "update", "create"}
        /\ next \in {"transition", "addPayment"} => AmountToPay = 0
        /\ next = "update" => mollieRef \in MollieIds
    BY <1>0
  <2> HIDE DEF next
  <2>3. /\ actor'[a].step = next /\ actor'[a].id = id /\ actor'[a].amount = AmountToPay
        /\ actor'[a].status = "none"
    BY <1>0, <2>1 DEF Idle, Actors
  <2>4. RequestBacked(a)'
    BY <2>2, <2>3 DEF RequestBacked
  <2> QED
    BY <1>0, <2>1, <2>4 DEF Actors
<1>11. ASSUME NEW a \in Actors, UpdateMollieOrder(a)
       PROVE  Moves(a)
  <2>1. CASE actor' = [actor EXCEPT ![a] = Idle]
    BY <1>0, <2>1, IdleBacked
  <2>2. CASE actor' = [actor EXCEPT ![a].step = "create", ![a].id = NoMollie]
    BY <1>0, <2>2 DEF RequestBacked, Request
  <2> QED
    BY <1>11, <2>1, <2>2 DEF UpdateMollieOrder
<1>12. ASSUME NEW a \in Actors, NEW m \in MollieIds, CreateMollieOrder(a, m)
       PROVE  Moves(a)
  BY <1>0, <1>12, IdleBacked DEF CreateMollieOrder
<1>13. ASSUME NEW a \in Actors, RequestFails(a) \/ UpdateFails(a)
       PROVE  Moves(a)
  <2>1. CASE RequestFails(a)
    BY <1>0, <2>1, IdleBacked DEF RequestFails
  <2>2. CASE UpdateFails(a)
    BY <1>0, <2>2 DEF UpdateFails, RequestBacked, Request
  <2> QED
    BY <1>13, <2>1, <2>2
<1>14. CASE UNCHANGED actor
  BY <1>14, RequestStays DEF RequestsBacked
<1>15. CASE \E a \in Actors : Moves(a)
  BY <1>15, RequestStays DEF RequestsBacked
<1>16. Webhooks \subseteq Actors /\ Admins \subseteq Actors /\ Shoppers \subseteq Actors
  BY DEF Actors
<1>17. UNCHANGED actor \/ \E a \in Actors : Moves(a)
  <2> HIDE DEF Moves
  <2>1. CASE \E a \in Webhooks, n \in pending : Deliver(a, n)
    BY <1>1, <1>16, <2>1
  <2>2. CASE \E a \in Actors : RunRequest(a)
    BY <1>2, <1>3, <1>4, <1>5, <1>6, <1>7, <1>8, <1>11, <1>12, <2>2 DEF RunRequest, HandleWebhook
  <2>3. CASE \/ \E a \in Admins, i \in DOMAIN payments : AdminSettle(a, i)
             \/ \E a \in Shoppers : StartIntent(a)
             \/ \E a \in Actors : RequestFails(a) \/ UpdateFails(a)
    BY <1>9, <1>10, <1>13, <1>16, <2>3
  <2>4. CASE \E m \in MollieIds : SaveMollieRef(m) \/ MollieStatusChange(m)
    BY <2>4 DEF SaveMollieRef, MollieStatusChange
  <2>5. CASE EditLines \/ Checkout \/ ModifyOrder \/ CancelOrder
    BY <2>5 DEF EditLines, Checkout, ModifyOrder, CancelOrder
  <2>6. CASE \E m \in MollieIds : SaveFails(m) \/ RepeatNotification(m)
    BY <2>6 DEF SaveFails, RepeatNotification
  <2>7. CASE UNCHANGED vars
    BY <2>7 DEF vars
  <2> QED
    BY <2>1, <2>2, <2>3, <2>4, <2>5, <2>6, <2>7 DEF Next
<1> QED
  BY <1>14, <1>15, <1>17

-----------------------------------------------------------------------------
\* Inv holds in every reachable state.
LEMMA Invariance == Spec => []Inv
<1>1. Init => Inv
  BY InitInv
<1>2. Inv /\ [Next]_vars => Inv'
  <2> SUFFICES ASSUME Inv, [Next]_vars PROVE Inv'
    OBVIOUS
  <2>1. TypeOK'
    BY TypeStep
  <2>2. PaymentsBacked'
    BY PaymentsStep
  <2>3. RequestsBacked'
    BY RequestsStep
  <2> QED
    BY <2>1, <2>2, <2>3 DEF Inv
<1> QED
  BY <1>1, <1>2, PTL DEF Spec

\* The shop's order, Mollie's orders and the requests only ever hold values of
\* their types: no payment in a state createPayment does not return, none for
\* an order Mollie does not know.
THEOREM TypeCorrect == Spec => []TypeOK
<1>1. Inv => TypeOK
  BY DEF Inv
<1> QED
  BY <1>1, Invariance, PTL

\* Every payment addPayment and settlePayment record is backed by money at
\* Mollie, for any number of Mollie orders, requests, edits and faults.
THEOREM PaymentsAreBacked == Spec => []PaymentsBacked
<1>1. Inv => PaymentsBacked
  BY DEF Inv
<1> QED
  BY <1>1, Invariance, PTL

\* No request acts on a status, an amount or a payment that has gone stale
\* while it waited.
THEOREM RequestsAreBacked == Spec => []RequestsBacked
<1>1. Inv => RequestsBacked
  BY DEF Inv
<1> QED
  BY <1>1, Invariance, PTL

-----------------------------------------------------------------------------
(* An order that nobody amends is paid once.                                *)

\* The sum over nothing, and over one payment.
LEMMA NothingPaid ==
    ASSUME NEW ps, NEW states, {i \in DOMAIN ps : ps[i].state \in states} = {}
    PROVE  PaidBy(ps, states) = 0
<1> DEFINE Summed(g) == g = [s \in SUBSET {} |->
               IF s = {} THEN 0 ELSE LET x == CHOOSE x \in s : TRUE IN ps[x].amount + g[s \ {x}]]
           zero == [s \in SUBSET {} |-> 0]
<1>1. PaidBy(ps, states) = (CHOOSE g : Summed(g))[{}]
  BY DEF PaidBy, MapThenSumSet, MapThenFoldSet
<1>2. Summed(zero)
  OBVIOUS
<1>3. Summed(CHOOSE g : Summed(g))
  BY <1>2
<1> DEFINE h == CHOOSE g : Summed(g)
<1>4. Summed(h)
  BY <1>3
<1> HIDE DEF h
<1>5. h[{}] = 0
  BY <1>4
<1> QED
  BY <1>1, <1>5 DEF h
LEMMA OnePaid ==
    ASSUME NEW ps, NEW states, {i \in DOMAIN ps : ps[i].state \in states} = {1}, ps[1].amount \in Nat
    PROVE  PaidBy(ps, states) = ps[1].amount
<1> DEFINE Summed(g) == g = [s \in SUBSET {1} |->
               IF s = {} THEN 0 ELSE LET x == CHOOSE x \in s : TRUE IN ps[x].amount + g[s \ {x}]]
           sums == [s \in SUBSET {1} |-> IF s = {} THEN 0 ELSE ps[1].amount]
<1>1. PaidBy(ps, states) = (CHOOSE g : Summed(g))[{1}]
  BY DEF PaidBy, MapThenSumSet, MapThenFoldSet
<1>2. \A s \in SUBSET {1} : s = {} \/ s = {1}
  OBVIOUS
<1>3. (CHOOSE x \in {1} : TRUE) = 1
  OBVIOUS
<1>4. Summed(sums)
  <2>1. ASSUME NEW s \in SUBSET {1}
        PROVE  sums[s] = IF s = {} THEN 0
                         ELSE LET x == CHOOSE x \in s : TRUE IN ps[x].amount + sums[s \ {x}]
    <3>1. CASE s = {}
      BY <3>1
    <3>2. CASE s = {1}
      <4>1. sums[{1}] = ps[1].amount /\ sums[{}] = 0 /\ {1} \ {1} = {}
        OBVIOUS
      <4> HIDE DEF sums
      <4> QED
        BY <1>3, <3>2, <4>1
    <3> QED
      BY <1>2, <3>1, <3>2
  <2> QED
    BY <2>1
<1> DEFINE h == CHOOSE g : Summed(g)
<1>5. Summed(h)
  BY <1>4
<1> HIDE DEF h
<1>6. h[{}] = 0
  BY <1>5
<1>7. h[{1}] = ps[1].amount + h[{1} \ {1}]
  BY <1>3, <1>5
<1>8. h[{1}] = ps[1].amount
  BY <1>6, <1>7
<1> QED
  BY <1>1, <1>8 DEF h

LEMMA NothingToSubtract ==
    ASSUME total \in Nat, payments = <<>>
    PROVE  AmountToPay = total
<1>1. {i \in DOMAIN payments : payments[i].state \in {"Authorized", "Settled"}} = {}
  OBVIOUS
<1>2. TotalCovered = 0
  BY <1>1, NothingPaid DEF TotalCovered
<1> QED
  BY <1>2 DEF AmountToPay

\* A payment of the whole total leaves no order that takes another.
LEMMA CoveredByOne ==
    ASSUME NEW p \in Payment, p.amount = total, MaxTotal \in Nat
    PROVE  StateOnceCovered(<<p>>) \in {"PaymentAuthorized", "PaymentSettled"}
<1> DEFINE ps == <<p>>
           both == {"Authorized", "Settled"}
<1>1. DOMAIN ps = {1} /\ ps[1] = p
  OBVIOUS
<1>2. p.state \in both /\ p.amount \in Nat /\ total \in Nat
  BY DEF Payment
<1> HIDE DEF ps
<1>3. PaidBy(ps, both) = total
  <2>1. {i \in DOMAIN ps : ps[i].state \in both} = {1} /\ ps[1].amount = total /\ ps[1].amount \in Nat
    BY <1>1, <1>2
  <2> QED
    BY <2>1, OnePaid
<1>4. CASE p.state = "Settled"
  <2>1. {i \in DOMAIN ps : ps[i].state \in {"Settled"}} = {1} /\ ps[1].amount = total /\ ps[1].amount \in Nat
    BY <1>1, <1>2, <1>4
  <2>2. PaidBy(ps, {"Settled"}) = total
    BY <2>1, OnePaid
  <2>3. StateOnceCovered(ps) = "PaymentSettled"
    BY <1>2, <2>2 DEF StateOnceCovered
  <2> QED
    BY <2>3 DEF ps
<1>5. CASE p.state = "Authorized"
  <2>1. {i \in DOMAIN ps : ps[i].state \in {"Settled"}} = {}
    BY <1>1, <1>5
  <2>2. PaidBy(ps, {"Settled"}) = 0
    BY <2>1, NothingPaid
  <2>3. StateOnceCovered(ps) \in {"PaymentAuthorized", "PaymentSettled"}
    BY <1>2, <1>3, <2>2 DEF StateOnceCovered
  <2> QED
    BY <2>3 DEF ps
<1> QED
  BY <1>2, <1>4, <1>5

\* Every Mollie order is for the order's total, and so is what an intent
\* carries towards one, or towards a payment of nothing.
PriceKept == \A m \in MollieIds : mollie[m].status # "none" => mollie[m].amount = total

Fresh(a) ==
    LET r == actor[a] IN
    (\/ r.step \in {"update", "create"}
     \/ r.step \in {"transition", "addPayment"} /\ r.id = NoMollie)
        => a \in Shoppers /\ r.amount = total

\* The order takes a payment only as long as it has none.
PaidOnce ==
    \/ payments = <<>>
    \/ /\ Len(payments) = 1
       /\ payments[1].amount = total
       /\ orderState \in {"PaymentAuthorized", "PaymentSettled", "Cancelled"}

OnceInv == Inv /\ (~amended => PriceKept /\ (\A a \in Actors : Fresh(a)) /\ PaidOnce)

LEMMA OnceInit == Init => OnceInv
<1> SUFFICES ASSUME Init PROVE OnceInv
  OBVIOUS
<1>1. PriceKept /\ PaidOnce
  BY DEF Init, PriceKept, PaidOnce
<1>2. \A a \in Actors : Fresh(a)
  BY DEF Init, Fresh, Idle
<1> QED
  BY <1>1, <1>2, InitInv DEF OnceInv

\* What changes the total of an order, and its state.
LEMMA OrderFrame ==
    ASSUME [Next]_vars
    PROVE  /\ UNCHANGED total \/ EditLines \/ ModifyOrder
           /\ \/ UNCHANGED orderState \/ Checkout \/ ModifyOrder \/ CancelOrder
              \/ \E a \in Actors : TransitionToArranging(a) \/ AddPayment(a) \/ Settle(a)
           /\ UNCHANGED amended \/ EditLines \/ ModifyOrder
<1>1. CASE \E a \in Webhooks, n \in pending : Deliver(a, n)
  BY <1>1 DEF Deliver, shopVars
<1>2. CASE \E a \in Actors : RunRequest(a)
  <2>1. PICK a \in Actors : RunRequest(a)
    BY <1>2
  <2>2. CASE TransitionToArranging(a) \/ AddPayment(a) \/ Settle(a)
    BY <2>2 DEF TransitionToArranging, AddPayment, Settle
  <2>3. CASE ~(TransitionToArranging(a) \/ AddPayment(a) \/ Settle(a))
    BY <2>1, <2>3 DEF RunRequest, HandleWebhook, Capture, Ship, UpdateMollieOrder, CreateMollieOrder,
                      GetMollieOrder, FindOrder, shopVars
  <2> QED
    BY <2>2, <2>3
<1>3. CASE \/ \E a \in Admins, i \in DOMAIN payments : AdminSettle(a, i)
           \/ \E a \in Shoppers : StartIntent(a)
  BY <1>3 DEF AdminSettle, StartIntent, shopVars
<1>4. CASE \E m \in MollieIds : SaveMollieRef(m) \/ MollieStatusChange(m)
  BY <1>4 DEF SaveMollieRef, MollieStatusChange, shopVars
<1>5. CASE EditLines \/ Checkout \/ ModifyOrder \/ CancelOrder
  BY <1>5 DEF EditLines, Checkout, CancelOrder
<1>6. CASE \/ \E a \in Actors : RequestFails(a) \/ UpdateFails(a)
           \/ \E m \in MollieIds : SaveFails(m) \/ RepeatNotification(m)
  BY <1>6 DEF RequestFails, UpdateFails, SaveFails, RepeatNotification, shopVars
<1>7. CASE UNCHANGED vars
  BY <1>7 DEF vars
<1> QED
  BY <1>1, <1>2, <1>3, <1>4, <1>5, <1>6, <1>7 DEF Next

LEMMA AmendedForGood ==
    ASSUME [Next]_vars, amended \in BOOLEAN, ~amended'
    PROVE  ~amended
BY OrderFrame DEF EditLines, ModifyOrder

\* An order without amendments is edited before anything else is done with it.
LEMMA TotalKept ==
    ASSUME [Next]_vars, ~amended'
    PROVE  \/ UNCHANGED total
           \/ /\ EditLines
              /\ \A m \in MollieIds : mollie[m].status = "none"
              /\ \A a \in Shoppers : actor[a].step = "idle"
BY OrderFrame DEF EditLines, ModifyOrder, IntentStarted

LEMMA PriceStep ==
    ASSUME OnceInv, [Next]_vars, ~amended, ~amended'
    PROVE  PriceKept'
<1>0. /\ mollie \in [MollieIds -> [status : MollieStatus, amount : 0 .. MaxTotal]]
      /\ PriceKept /\ \A a \in Actors : Fresh(a)
  BY DEF OnceInv, Inv, TypeOK
<1>1. CASE EditLines /\ \A m \in MollieIds : mollie[m].status = "none"
  BY <1>1 DEF EditLines, PriceKept
<1>2. CASE UNCHANGED total
  <2>1. CASE UNCHANGED mollie
    BY <1>0, <1>2, <2>1 DEF PriceKept
  <2>2. ASSUME NEW a \in Actors, Ship(a) PROVE PriceKept'
    BY <1>0, <1>2, <2>2 DEF Ship, PriceKept
  <2>3. ASSUME NEW a \in Actors, UpdateMollieOrder(a) \/ UpdateFails(a) PROVE PriceKept'
    <3>1. actor[a].amount = total
      BY <1>0, <2>3 DEF UpdateMollieOrder, UpdateFails, Fresh
    <3>2. \/ UNCHANGED mollie
          \/ /\ mollie[actor[a].id].status = "created"
             /\ mollie' = [mollie EXCEPT ![actor[a].id].amount = actor[a].amount]
      BY <2>3 DEF UpdateMollieOrder, UpdateFails
    <3> QED
      BY <1>0, <1>2, <3>1, <3>2 DEF PriceKept
  <2>4. ASSUME NEW a \in Actors, NEW m \in MollieIds, CreateMollieOrder(a, m) PROVE PriceKept'
    <3>1. actor[a].amount = total
      BY <1>0, <2>4 DEF CreateMollieOrder, Fresh
    <3> QED
      BY <1>0, <1>2, <2>4, <3>1 DEF CreateMollieOrder, PriceKept
  <2>5. ASSUME NEW m \in MollieIds, MollieStatusChange(m) PROVE PriceKept'
    BY <1>0, <1>2, <2>5 DEF MollieStatusChange, MollieMoves, PriceKept
  <2> QED
    BY <2>1, <2>2, <2>3, <2>4, <2>5, MollieFrame
<1> QED
  BY <1>1, <1>2, TotalKept

LEMMA PaidOnceStep ==
    ASSUME OnceInv, [Next]_vars, ~amended, ~amended'
    PROVE  PaidOnce'
<1>0. /\ payments \in Seq(Payment) /\ actor \in [Actors -> Request] /\ MaxTotal \in Nat
      /\ RequestsBacked /\ PriceKept /\ PaidOnce /\ \A a \in Actors : Fresh(a)
  BY MollieAssumption DEF OnceInv, Inv, TypeOK, MollieAssumption
<1>1. ASSUME NEW a \in Actors, AddPayment(a), payments' # payments
      PROVE  PaidOnce'
  <2> DEFINE p == [mollie |-> actor[a].id, amount |-> actor[a].amount,
                   state |-> PaymentStatus(actor[a].status)]
  <2>1. /\ orderState \in Arranging /\ UNCHANGED total /\ actor[a].step = "addPayment"
        /\ payments' = Append(payments, p) /\ orderState' = StateOnceCovered(payments')
    BY <1>1 DEF AddPayment
  <2>2. payments = <<>>
    BY <1>0, <2>1 DEF PaidOnce, Arranging
  <2>3. p \in Payment
    BY <1>0, PaymentStatusType DEF Payment, Request
  <2>4. actor[a].amount = total
    <3>1. CASE actor[a].id = NoMollie
      BY <1>0, <2>1, <3>1 DEF Fresh
    <3>2. CASE actor[a].id # NoMollie
      <4>1. actor[a].id \in MollieIds
        BY <1>0, <3>2 DEF Request
      <4>2. /\ mollie[actor[a].id].status \in Committed
            /\ mollie[actor[a].id].amount = actor[a].amount
        BY <1>0, <2>1, <3>2 DEF RequestsBacked, RequestBacked, Committed, Captured
      <4> QED
        BY <1>0, <4>1, <4>2 DEF PriceKept, Committed, Captured
    <3> QED
      BY <3>1, <3>2
  <2>5. payments' = <<p>> /\ p.amount = total
    BY <2>1, <2>2, <2>4
  <2> HIDE DEF p
  <2>6. StateOnceCovered(<<p>>) \in {"PaymentAuthorized", "PaymentSettled"}
    BY <1>0, <2>3, <2>5, CoveredByOne
  <2> QED
    BY <2>1, <2>5, <2>6 DEF PaidOnce
<1>2. ASSUME NEW a \in Actors, Settle(a)
      PROVE  PaidOnce'
  <2>1. actor[a].payment \in DOMAIN payments
    BY <1>0, <1>2 DEF Settle, RequestsBacked, RequestBacked, Recorded, RecordedIn
  <2>2. Len(payments) = 1 /\ payments[1].amount = total /\ DOMAIN payments = {1}
    BY <1>0, <2>1 DEF PaidOnce
  <2>3. /\ UNCHANGED total
        /\ orderState' \in {"PaymentSettled", orderState}
        /\ \/ payments' = payments
           \/ payments' = [payments EXCEPT ![actor[a].payment].state = "Settled"]
    BY <1>2 DEF Settle
  <2>4. Len(payments') = 1 /\ payments'[1].amount = total
    <3>1. CASE payments' = payments
      BY <2>2, <3>1
    <3>2. CASE payments' = [payments EXCEPT ![actor[a].payment].state = "Settled"]
      <4>1. /\ payments' \in Seq(Payment) /\ DOMAIN payments' = DOMAIN payments
            /\ \A j \in DOMAIN payments : payments'[j].amount = payments[j].amount
        BY <1>0, <2>1, <3>2, SettledPayments
      <4> QED
        BY <1>0, <2>2, <4>1
    <3> QED
      BY <2>3, <3>1, <3>2
  <2> QED
    BY <1>0, <2>2, <2>3, <2>4 DEF PaidOnce
<1>3. CASE UNCHANGED payments
  <2>1. CASE payments = <<>>
    BY <1>3, <2>1 DEF PaidOnce
  <2>2. CASE payments # <<>>
    <3>1. UNCHANGED total
      BY <1>0, <2>2, TotalKept DEF PaidOnce, EditLines
    <3>2. UNCHANGED orderState \/ orderState' \in {"Cancelled", "PaymentSettled"}
      <4>1. CASE Checkout \/ ModifyOrder \/ CancelOrder
        BY <1>0, <2>2, <4>1 DEF PaidOnce, Checkout, ModifyOrder, CancelOrder
      <4>2. CASE \E a \in Actors : TransitionToArranging(a) \/ AddPayment(a)
        BY <1>0, <2>2, <4>2 DEF PaidOnce, TransitionToArranging, AddPayment, Arranging
      <4>3. CASE \E a \in Actors : Settle(a)
        BY <4>3 DEF Settle
      <4> QED
        BY <4>1, <4>2, <4>3, OrderFrame
    <3> QED
      BY <1>0, <1>3, <2>2, <3>1, <3>2 DEF PaidOnce
  <2> QED
    BY <2>1, <2>2
<1> QED
  BY <1>1, <1>2, <1>3, PaymentsFrame

LEMMA FreshStep ==
    ASSUME OnceInv, [Next]_vars, ~amended, ~amended'
    PROVE  \A a \in Actors : Fresh(a)'
<1>0. /\ actor \in [Actors -> Request] /\ total \in Nat /\ NoMollie \notin MollieIds
      /\ RequestsBacked /\ PaidOnce /\ \A a \in Actors : Fresh(a)
  BY MollieAssumption DEF OnceInv, Inv, TypeOK, MollieAssumption
<1>1. CASE EditLines /\ \A a \in Shoppers : actor[a].step = "idle"
  BY <1>0, <1>1 DEF EditLines, Fresh
<1> DEFINE Moves(a) == /\ \A b \in Actors : b # a => actor'[b] = actor[b]
                       /\ Fresh(a)'
<1> SUFFICES ASSUME UNCHANGED total PROVE \A a \in Actors : Fresh(a)'
  BY <1>1, TotalKept
<1>2. ASSUME NEW a \in Actors, actor' = [actor EXCEPT ![a] = Idle] PROVE Moves(a)
  BY <1>0, <1>2 DEF Fresh, Idle
<1>3. ASSUME NEW a \in Actors, NEW step \in {"findOrder", "capture", "ship", "settle", "getMollieOrder"},
             \A b \in Actors : b # a => actor'[b] = actor[b], actor'[a].step = step
      PROVE  Moves(a)
  BY <1>3 DEF Fresh
<1>4. ASSUME NEW a \in Webhooks, NEW n \in pending, Deliver(a, n) PROVE Moves(a)
  BY <1>0, <1>4 DEF Deliver, Fresh, Actors, Idle
<1>5. ASSUME NEW a \in Actors, HandleWebhook(a) PROVE Moves(a)
  <2>1. CASE GetMollieOrder(a)
    BY <1>0, <2>1 DEF GetMollieOrder, Fresh
  <2>2. CASE FindOrder(a)
    <3>1. actor[a].id \in MollieIds
      BY <1>0, <2>2 DEF FindOrder, RequestsBacked, RequestBacked
    <3>2. \/ actor' = [actor EXCEPT ![a] = Idle]
          \/ \E i : actor' = [actor EXCEPT ![a].step = "capture", ![a].payment = i]
          \/ \E step \in {"transition", "addPayment"} : actor' = [actor EXCEPT ![a].step = step]
      BY <2>2 DEF FindOrder, Answer, Throw, Goto, GotoCapture
    <3>3. CASE \E i : actor' = [actor EXCEPT ![a].step = "capture", ![a].payment = i]
      BY <1>0, <3>3 DEF Fresh, Request
    <3>4. CASE \E step \in {"transition", "addPayment"} : actor' = [actor EXCEPT ![a].step = step]
      <4>1. /\ actor'[a].id = actor[a].id /\ actor'[a].step \notin {"update", "create"}
            /\ \A b \in Actors : b # a => actor'[b] = actor[b]
        BY <1>0, <3>4 DEF Request
      <4> QED
        BY <1>0, <3>1, <4>1 DEF Fresh
    <3> QED
      BY <1>2, <3>2, <3>3, <3>4
  <2> QED
    BY <1>5, <2>1, <2>2 DEF HandleWebhook
<1>6. ASSUME NEW a \in Actors, TransitionToArranging(a) PROVE Moves(a)
  <2>1. CASE Throw(a)
    BY <1>2, <2>1 DEF Throw
  <2>2. CASE Goto(a, "addPayment")
    <3>1. /\ actor[a].step = "transition" /\ actor'[a].step = "addPayment"
          /\ actor'[a].id = actor[a].id /\ actor'[a].amount = actor[a].amount
          /\ \A b \in Actors : b # a => actor'[b] = actor[b]
      BY <1>0, <1>6, <2>2 DEF TransitionToArranging, Goto, Request
    <3> QED
      BY <1>0, <3>1 DEF Fresh
  <2> QED
    BY <1>6, <2>1, <2>2 DEF TransitionToArranging
<1>7. ASSUME NEW a \in Actors, AddPayment(a) PROVE Moves(a)
  <2>1. \/ actor' = [actor EXCEPT ![a] = Idle]
        \/ \E i : actor' = [actor EXCEPT ![a].step = "capture", ![a].payment = i]
    BY <1>7 DEF AddPayment, Answer, Throw, GotoCapture
  <2>2. CASE \E i : actor' = [actor EXCEPT ![a].step = "capture", ![a].payment = i]
    BY <1>0, <2>2 DEF Fresh, Request
  <2> QED
    BY <1>2, <2>1, <2>2
<1>8. ASSUME NEW a \in Actors, Capture(a) \/ Ship(a) \/ Settle(a) PROVE Moves(a)
  <2>1. \/ actor' = [actor EXCEPT ![a] = Idle]
        \/ \E step \in {"ship", "settle"} : actor' = [actor EXCEPT ![a].step = step]
    BY <1>8 DEF Capture, Ship, Settle, Answer, Throw, Goto
  <2>2. CASE \E step \in {"ship", "settle"} : actor' = [actor EXCEPT ![a].step = step]
    BY <1>0, <2>2 DEF Fresh, Request
  <2> QED
    BY <1>2, <2>1, <2>2
<1>9. ASSUME NEW a \in Admins, NEW i \in DOMAIN payments, AdminSettle(a, i) PROVE Moves(a)
  BY <1>0, <1>9 DEF AdminSettle, Fresh, Actors, Idle
<1>10. ASSUME NEW a \in Shoppers, StartIntent(a) PROVE Moves(a)
  <2>1. payments = <<>>
    BY <1>0, <1>10 DEF StartIntent, PaidOnce, Arranging
  <2>2. AmountToPay = total
    BY <1>0, <2>1, NothingToSubtract
  <2>3. \E step, id : actor' = [actor EXCEPT ![a] = [Idle EXCEPT !.step = step, !.amount = AmountToPay, !.id = id]]
    BY <1>10 DEF StartIntent
  <2>4. actor'[a].amount = total /\ \A b \in Actors : b # a => actor'[b] = actor[b]
    BY <1>0, <2>2, <2>3 DEF Actors, Idle
  <2> QED
    BY <2>4 DEF Fresh
<1>11. ASSUME NEW a \in Actors, UpdateMollieOrder(a) \/ UpdateFails(a) PROVE Moves(a)
  <2>1. \/ actor' = [actor EXCEPT ![a] = Idle]
        \/ actor' = [actor EXCEPT ![a].step = "create", ![a].id = NoMollie]
    BY <1>11 DEF UpdateMollieOrder, UpdateFails
  <2>2. a \in Shoppers /\ actor[a].amount = total
    BY <1>0, <1>11 DEF UpdateMollieOrder, UpdateFails, Fresh
  <2>3. CASE actor' = [actor EXCEPT ![a].step = "create", ![a].id = NoMollie]
    <3>1. actor'[a].amount = actor[a].amount /\ \A b \in Actors : b # a => actor'[b] = actor[b]
      BY <1>0, <2>3 DEF Request
    <3> QED
      BY <2>2, <3>1 DEF Fresh
  <2> QED
    BY <1>2, <2>1, <2>3
<1>12. ASSUME NEW a \in Actors, NEW m \in MollieIds, CreateMollieOrder(a, m) PROVE Moves(a)
  BY <1>2, <1>12 DEF CreateMollieOrder
<1>13. ASSUME NEW a \in Actors, RequestFails(a) PROVE Moves(a)
  BY <1>2, <1>13 DEF RequestFails
<1>14. CASE UNCHANGED actor
  BY <1>0, <1>14 DEF Fresh
<1>15. CASE \E a \in Actors : Moves(a)
  BY <1>0, <1>15 DEF Fresh
<1>16. Webhooks \subseteq Actors /\ Admins \subseteq Actors /\ Shoppers \subseteq Actors
  BY DEF Actors
<1>17. UNCHANGED actor \/ \E a \in Actors : Moves(a)
  <2> HIDE DEF Moves
  <2>1. CASE \E a \in Webhooks, n \in pending : Deliver(a, n)
    BY <1>4, <1>16, <2>1
  <2>2. CASE \E a \in Actors : RunRequest(a)
    BY <1>5, <1>6, <1>7, <1>8, <1>11, <1>12, <2>2 DEF RunRequest
  <2>3. CASE \/ \E a \in Admins, i \in DOMAIN payments : AdminSettle(a, i)
             \/ \E a \in Shoppers : StartIntent(a)
             \/ \E a \in Actors : RequestFails(a) \/ UpdateFails(a)
    BY <1>9, <1>10, <1>11, <1>13, <1>16, <2>3
  <2>4. CASE \E m \in MollieIds : SaveMollieRef(m) \/ MollieStatusChange(m)
    BY <2>4 DEF SaveMollieRef, MollieStatusChange
  <2>5. CASE EditLines \/ Checkout \/ ModifyOrder \/ CancelOrder
    BY <2>5 DEF EditLines, Checkout, ModifyOrder, CancelOrder
  <2>6. CASE \E m \in MollieIds : SaveFails(m) \/ RepeatNotification(m)
    BY <2>6 DEF SaveFails, RepeatNotification
  <2>7. CASE UNCHANGED vars
    BY <2>7 DEF vars
  <2> QED
    BY <2>1, <2>2, <2>3, <2>4, <2>5, <2>6, <2>7 DEF Next
<1> QED
  BY <1>14, <1>15, <1>17

\* For any number of Mollie orders, requests, edits and faults: an order whose
\* total never changed once an intent was started has one payment at most, of
\* its full total, whatever createPaymentIntent, addPayment and settlePayment
\* read before they wrote.
THEOREM UnamendedIsPaidOnce == Spec => []UnamendedOrderIsPaidOnce
<1>1. OnceInv /\ [Next]_vars => OnceInv'
  <2> SUFFICES ASSUME OnceInv, [Next]_vars PROVE OnceInv'
    OBVIOUS
  <2>1. Inv'
    <3>1. Inv
      BY DEF OnceInv
    <3> QED
      BY <3>1, TypeStep, PaymentsStep, RequestsStep DEF Inv
  <2>2. ASSUME ~amended' PROVE ~amended
    BY <2>2, AmendedForGood DEF OnceInv, Inv, TypeOK
  <2>3. ASSUME ~amended' PROVE PriceKept' /\ (\A a \in Actors : Fresh(a))' /\ PaidOnce'
    BY <2>2, <2>3, PriceStep, FreshStep, PaidOnceStep
  <2> QED
    BY <2>1, <2>3 DEF OnceInv
<1>2. OnceInv => UnamendedOrderIsPaidOnce
  <2> SUFFICES ASSUME OnceInv, ~amended
               PROVE  Len(payments) <= 1 /\ \A i \in DOMAIN payments : payments[i].amount = total
    BY DEF UnamendedOrderIsPaidOnce
  <2>1. PaidOnce /\ payments \in Seq(Payment)
    BY DEF OnceInv, Inv, TypeOK
  <2>2. CASE payments = <<>>
    BY <2>2
  <2>3. CASE Len(payments) = 1 /\ payments[1].amount = total
    <3>1. DOMAIN payments = {1}
      BY <2>1, <2>3
    <3> QED
      BY <2>3, <3>1
  <2> QED
    BY <2>1, <2>2, <2>3 DEF PaidOnce
<1> QED
  BY <1>1, <1>2, OnceInit, PTL DEF Spec
=============================================================================
