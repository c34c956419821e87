--------------------------- MODULE WebhooksProofs ---------------------------
(* Proofs about Webhooks, for any number of webhooks, events, processes and  *)
(* concurrent requests: types, that the eventHandlers map of a process never *)
(* holds a handler that is not on its event emitter, and that a webhook      *)
(* nobody works on is registered with its row in every process that is up.   *)
EXTENDS Webhooks, TLAPS

HandlerType == [emitter : [Events -> [Listener -> Nat]],
                handlers : [Events \X Ids -> Listener \cup {None}]]

\* What MappedIsListening says of one WebhookEventHandler.
Mapped(h) ==
    \A e \in Events, id \in Ids :
        LET l == h.handlers[<<e, id>>] IN
        l # None => l.id = id /\ l.row.event = e /\ h.emitter[e][l] > 0

Inv == TypeOK /\ MappedIsListening

-----------------------------------------------------------------------------
(* subscribeWebhookEvent and unsubscribeWebhookEvent.                       *)

\* Changing one entry of a table of tables.
LEMMA EntryChanged ==
    ASSUME NEW A, NEW B, NEW C, NEW f \in [A -> [B -> C]], NEW a \in A, NEW b \in B, NEW c \in C
    PROVE  LET g == [f EXCEPT ![a][b] = c] IN
           /\ g \in [A -> [B -> C]]
           /\ g[a][b] = c
           /\ \A x \in A, y \in B : ~(x = a /\ y = b) => g[x][y] = f[x][y]
<1> DEFINE t == [f[a] EXCEPT ![b] = c]
           g == [f EXCEPT ![a] = t]
<1>1. f[a] \in [B -> C]
  OBVIOUS
<1>2. t \in [B -> C] /\ t[b] = c /\ \A y \in B : y # b => t[y] = f[a][y]
  BY <1>1
<1> HIDE DEF t
<1>3. g \in [A -> [B -> C]] /\ g[a] = t /\ \A x \in A : x # a => g[x] = f[x]
  BY <1>2
<1>4. g = [f EXCEPT ![a][b] = c]
  BY DEF t
<1> QED
  BY <1>2, <1>3, <1>4

LEMMA NoneIsNothing == None \notin Listener /\ None \notin Row
BY NoneAssumption DEF NoneAssumption

\* A new WebhookEventHandler maps nothing.
LEMMA NoListenersOK == NoListeners \in HandlerType /\ Mapped(NoListeners)
BY DEF NoListeners, HandlerType, Mapped

\* Subscribing puts the handler it maps on the emitter.
LEMMA SubscribedOK ==
    ASSUME NEW h \in HandlerType, Mapped(h), NEW id \in Ids, NEW row \in Row
    PROVE  Subscribed(h, id, row) \in HandlerType /\ Mapped(Subscribed(h, id, row))
<1> DEFINE l == [id |-> id, row |-> row]
           ev == row.event
           n == h.emitter[ev][l] + 1
           em == [h.emitter EXCEPT ![ev][l] = n]
           ha == [h.handlers EXCEPT ![<<ev, id>>] = l]
           s == Subscribed(h, id, row)
<1>1. l \in Listener /\ ev \in Events /\ l.id = id /\ l.row.event = ev
  BY DEF Listener, Row
<1>2. /\ h.emitter \in [Events -> [Listener -> Nat]]
      /\ h.handlers \in [Events \X Ids -> Listener \cup {None}]
      /\ h = [emitter |-> h.emitter, handlers |-> h.handlers]
  BY DEF HandlerType
<1>3. s = [emitter |-> em, handlers |-> ha]
  BY DEF Subscribed
<1>4. h.emitter[ev] \in [Listener -> Nat]
  BY <1>1, <1>2
<1>5. h.emitter[ev][l] \in Nat /\ n \in Nat /\ n > 0 /\ n >= h.emitter[ev][l]
  BY <1>1, <1>4
<1>6. <<ev, id>> \in Events \X Ids
  BY <1>1
<1> HIDE DEF l, ev, n
<1>7. /\ em \in [Events -> [Listener -> Nat]]
      /\ em[ev][l] = n
      /\ \A e \in Events, o \in Listener : ~(e = ev /\ o = l) => em[e][o] = h.emitter[e][o]
  BY <1>1, <1>2, <1>5, EntryChanged
<1>8. ha \in [Events \X Ids -> Listener \cup {None}] /\ ha[<<ev, id>>] = l
  BY <1>1, <1>2, <1>6
<1>9. ASSUME NEW e \in Events, NEW i \in Ids, ha[<<e, i>>] # None
      PROVE  /\ ha[<<e, i>>].id = i
             /\ ha[<<e, i>>].row.event = e
             /\ em[e][ha[<<e, i>>]] > 0
  <2>1. CASE e = ev /\ i = id
    BY <1>1, <1>5, <1>7, <1>8, <2>1
  <2>2. CASE ~(e = ev /\ i = id)
    <3> DEFINE o == h.handlers[<<e, i>>]
    <3>1. ha[<<e, i>>] = o /\ o # None
      BY <1>2, <1>9, <2>2
    <3>2. o \in Listener /\ o.id = i /\ o.row.event = e /\ h.emitter[e][o] > 0
      BY <1>2, <3>1 DEF Mapped
    <3>3. em[e][o] > 0
      BY <1>5, <1>7, <3>2
    <3> QED
      BY <3>1, <3>2, <3>3
  <2> QED
    BY <2>1, <2>2
<1> HIDE DEF em, ha
<1>10. s \in HandlerType /\ s.emitter = em /\ s.handlers = ha
  BY <1>3, <1>7, <1>8 DEF HandlerType
<1> QED
  BY <1>9, <1>10 DEF Mapped

\* Unsubscribing takes off the handler it unmaps, and no other.
LEMMA UnsubscribedOK ==
    ASSUME NEW h \in HandlerType, Mapped(h), NEW ev \in Events, NEW id \in Ids
    PROVE  Unsubscribed(h, ev, id) \in HandlerType /\ Mapped(Unsubscribed(h, ev, id))
<1> DEFINE l == h.handlers[<<ev, id>>]
           n == h.emitter[ev][l] - 1
           em == [h.emitter EXCEPT ![ev][l] = n]
           ha == [h.handlers EXCEPT ![<<ev, id>>] = None]
           s == Unsubscribed(h, ev, id)
<1>1. /\ h.emitter \in [Events -> [Listener -> Nat]]
      /\ h.handlers \in [Events \X Ids -> Listener \cup {None}]
      /\ h = [emitter |-> h.emitter, handlers |-> h.handlers]
  BY DEF HandlerType
<1>2. CASE l = None
  BY <1>2 DEF Unsubscribed
<1>3. CASE l # None
  <2>1. l \in Listener /\ l.id = id /\ l.row.event = ev /\ h.emitter[ev][l] > 0
    BY <1>1, <1>3 DEF Mapped
  <2>2. s = [emitter |-> em, handlers |-> ha]
    BY <1>1, <1>3 DEF Unsubscribed
  <2>3. n \in Nat
    <3>1. h.emitter[ev] \in [Listener -> Nat]
      BY <1>1
    <3> QED
      BY <2>1, <3>1
  <2>4. ha \in [Events \X Ids -> Listener \cup {None}]
    BY <1>1
  <2> HIDE DEF n
  <2>5. /\ em \in [Events -> [Listener -> Nat]]
        /\ \A e \in Events, o \in Listener : ~(e = ev /\ o = l) => em[e][o] = h.emitter[e][o]
    BY <1>1, <2>1, <2>3, EntryChanged
  <2>6. ASSUME NEW e \in Events, NEW i \in Ids, ha[<<e, i>>] # None
        PROVE  /\ ha[<<e, i>>].id = i
               /\ ha[<<e, i>>].row.event = e
               /\ em[e][ha[<<e, i>>]] > 0
    <3> DEFINE o == h.handlers[<<e, i>>]
    <3>1. <<e, i>> \in Events \X Ids /\ <<e, i>> # <<ev, id>>
      BY <1>1, <2>6
    <3>2. ha[<<e, i>>] = o /\ o # None
      BY <1>1, <2>6, <3>1
    <3>3. o \in Listener /\ o.id = i /\ o.row.event = e /\ h.emitter[e][o] > 0
      BY <1>1, <3>2 DEF Mapped
    <3>4. em[e][o] = h.emitter[e][o]
      BY <2>1, <2>5, <3>1, <3>3
    <3> QED
      BY <3>2, <3>3, <3>4
  <2> HIDE DEF em, ha
  <2>7. s \in HandlerType /\ s.emitter = em /\ s.handlers = ha
    BY <2>2, <2>4, <2>5 DEF HandlerType
  <2> QED
    BY <2>6, <2>7 DEF Mapped
<1> QED
  BY <1>2, <1>3

\* Starting subscribes every row that was found.
LEMMA BootOK ==
    ASSUME NEW found \in [Ids -> Row \cup {None}]
    PROVE  LET h == [emitter |-> [e \in Events |-> [l \in Listener |->
                        IF l.id \in {id \in Ids : found[id] # None} /\ l.row = found[l.id]
                           /\ l.row.event = e THEN 1 ELSE 0]],
                     handlers |-> [k \in Events \X Ids |->
                        IF k[2] \in {id \in Ids : found[id] # None} /\ found[k[2]].event = k[1]
                        THEN [id |-> k[2], row |-> found[k[2]]] ELSE None]]
           IN  h \in HandlerType /\ Mapped(h)
<1> DEFINE there == {id \in Ids : found[id] # None}
           em == [e \in Events |-> [l \in Listener |->
                    IF l.id \in there /\ l.row = found[l.id] /\ l.row.event = e THEN 1 ELSE 0]]
           ha == [k \in Events \X Ids |->
                    IF k[2] \in there /\ found[k[2]].event = k[1]
                    THEN [id |-> k[2], row |-> found[k[2]]] ELSE None]
<1>1. \A id \in there : found[id] \in Row /\ [id |-> id, row |-> found[id]] \in Listener
  BY DEF Listener
<1>2. em \in [Events -> [Listener -> Nat]]
  OBVIOUS
<1>3. ha \in [Events \X Ids -> Listener \cup {None}]
  BY <1>1
<1>4. ASSUME NEW e \in Events, NEW i \in Ids, ha[<<e, i>>] # None
      PROVE  /\ ha[<<e, i>>].id = i
             /\ ha[<<e, i>>].row.event = e
             /\ em[e][ha[<<e, i>>]] > 0
  <2>1. i \in there /\ found[i].event = e /\ ha[<<e, i>>] = [id |-> i, row |-> found[i]]
    BY <1>4
  <2> QED
    BY <1>1, <2>1
<1> QED
  BY <1>2, <1>3, <1>4 DEF HandlerType, Mapped

-----------------------------------------------------------------------------
(* Requests.                                                                *)

Active == [step : Steps \ {"idle"}, process : Processes, id : Ids, row : Row,
           named : BOOLEAN, tx : BOOLEAN]

\* A request that is under way has the record of one.
LEMMA UnderWay ==
    ASSUME TypeOK, NEW r \in Requests, request[r].step # "idle"
    PROVE  /\ request[r] \in Active
           /\ request[r].process \in Processes
           /\ request[r].id \in Ids
           /\ request[r].row \in Row
           /\ request[r].row.event \in Events
<1>1. request[r] \in {Idle} \cup Active
  BY DEF TypeOK, Active
<1>2. request[r] \in Active
  BY <1>1 DEF Idle
<1> QED
  BY <1>2 DEF Active, Row

\* A request goes on at another step, or is over.
LEMMA RequestMoves ==
    ASSUME TypeOK, NEW r \in Requests, NEW q \in {Idle} \cup Active,
           request' = [request EXCEPT ![r] = q]
    PROVE  request' \in [Requests -> {Idle} \cup Active]
BY DEF TypeOK, Active

\* An update leaves an event, a channel and a url in the row.
LEMMA PreloadedIsRow ==
    ASSUME NEW row \in Row, NEW input \in Input, NEW channel \in Channels
    PROVE  Preloaded(row, input, channel) \in Row
BY DEF Preloaded, Row, Input

\* The WebhookEventHandler of one process changes.
LEMMA HandlerChanges ==
    ASSUME TypeOK, MappedIsListening, NEW p \in Processes,
           NEW h \in HandlerType, Mapped(h),
           eventHandler' = [eventHandler EXCEPT ![p] = h]
    PROVE  /\ eventHandler' \in [Processes -> HandlerType]
           /\ MappedIsListening'
<1>1. eventHandler \in [Processes -> HandlerType]
  BY DEF TypeOK, HandlerType
<1>2. \A q \in Processes : Mapped(eventHandler[q])
  BY DEF MappedIsListening, Mapped
<1>3. \A q \in Processes : Mapped(eventHandler'[q])
  BY <1>1, <1>2
<1> QED
  BY <1>1, <1>3 DEF MappedIsListening, Mapped

\* What the WebhookEventHandler of a process is.
LEMMA HandlerOK ==
    ASSUME TypeOK, MappedIsListening, NEW p \in Processes
    PROVE  eventHandler[p] \in HandlerType /\ Mapped(eventHandler[p])
BY DEF TypeOK, MappedIsListening, Mapped, HandlerType

\* The handlers stay as they are.
LEMMA HandlersStay ==
    ASSUME MappedIsListening, UNCHANGED eventHandler
    PROVE  MappedIsListening'
BY DEF MappedIsListening

-----------------------------------------------------------------------------
LEMMA InitInv == Init => Inv
<1> SUFFICES ASSUME Init PROVE Inv
  OBVIOUS
<1>1. \A p \in Processes : eventHandler[p] = NoListeners
  BY DEF Init
<1>2. MappedIsListening
  BY <1>1, NoListenersOK DEF MappedIsListening, Mapped
<1>3. eventHandler \in [Processes -> HandlerType]
  BY NoListenersOK DEF Init
<1>4. made \in 0 .. MaxRequests
  BY WebhookAssumption DEF Init, WebhookAssumption
<1> QED
  BY <1>2, <1>3, <1>4 DEF Init, Inv, TypeOK, HandlerType

\* Touch and its like only name processes and ids.
LEMMA TouchOK ==
    ASSUME TypeOK, NEW p \in Processes, NEW id \in Ids, NEW named, Touch(p, id, named)
    PROVE  disturbed' \in SUBSET (Processes \X Ids)
BY DEF TypeOK, Touch

LEMMA BeginOK ==
    ASSUME TypeOK, NEW r \in Requests, NEW p \in Processes, NEW id \in Ids,
           NEW state \in Active, Begin(r, p, id, state)
    PROVE  /\ request' \in [Requests -> {Idle} \cup Active]
           /\ made' \in 0 .. MaxRequests
           /\ UNCHANGED <<up, booting, eventHandler>>
<1>1. request' \in [Requests -> {Idle} \cup Active]
  BY RequestMoves DEF Begin
<1>2. made' \in 0 .. MaxRequests
  BY WebhookAssumption DEF Begin, TypeOK, WebhookAssumption
<1> QED
  BY <1>1, <1>2 DEF Begin

LEMMA CreateInv ==
    ASSUME Inv, NEW r \in Requests, NEW p \in Processes, NEW id \in Ids,
           NEW row \in Row, NEW tx \in BOOLEAN, Create(r, p, id, row, tx)
    PROVE  Inv'
<1> DEFINE state == [step |-> "subscribe", process |-> p, id |-> id, row |-> row,
                     named |-> FALSE, tx |-> tx]
<1>1. state \in Active
  BY DEF Active, Steps
<1>2. Begin(r, p, id, state) /\ Touch(p, id, FALSE)
  BY DEF Create
<1>3. rows' \in [Ids -> Row \cup {None}] /\ created' \in SUBSET Ids
  BY DEF Create, Inv, TypeOK
<1> HIDE DEF state
<1> QED
  BY <1>1, <1>2, <1>3, BeginOK, TouchOK, HandlersStay DEF Inv, TypeOK, Active

LEMMA UpdateInv ==
    ASSUME Inv, NEW r \in Requests, NEW p \in Processes, NEW id \in Ids,
           NEW input \in Input, NEW channel \in Channels, NEW tx \in BOOLEAN,
           Update(r, p, id, input, channel, tx)
    PROVE  Inv'
<1> DEFINE state == [step |-> "save", process |-> p, id |-> id, tx |-> tx,
                     row |-> Preloaded(rows[id], input, channel),
                     named |-> input.event # Absent]
<1>1. rows[id] \in Row
  BY DEF Update, Inv, TypeOK
<1>2. state \in Active
  BY <1>1, PreloadedIsRow DEF Active, Steps
<1>3. /\ Begin(r, p, id, state)
      /\ Touch(p, id, input.event # Absent)
      /\ UNCHANGED <<rows, created>>
  BY DEF Update
<1> HIDE DEF state
<1> QED
  BY <1>2, <1>3, BeginOK, TouchOK, HandlersStay DEF Inv, TypeOK, Active

LEMMA DeleteInv ==
    ASSUME Inv, NEW r \in Requests, NEW p \in Processes, NEW id \in Ids, NEW tx \in BOOLEAN,
           Delete(r, p, id, tx)
    PROVE  Inv'
<1> DEFINE state == [step |-> "delete", process |-> p, id |-> id, row |-> rows[id],
                     named |-> FALSE, tx |-> tx]
<1>1. rows[id] \in Row
  BY DEF Delete, Inv, TypeOK
<1>2. state \in Active
  BY <1>1 DEF Active, Steps
<1>3. /\ Begin(r, p, id, state)
      /\ Touch(p, id, FALSE)
      /\ UNCHANGED <<rows, created>>
  BY DEF Delete
<1> HIDE DEF state
<1> QED
  BY <1>2, <1>3, BeginOK, TouchOK, HandlersStay DEF Inv, TypeOK, Active

LEMMA ServeInv ==
    ASSUME Inv, NEW r \in Requests, Serve(r)
    PROVE  Inv'
<1> DEFINE q == request[r]
<1>1. /\ q \in Active
      /\ q.process \in Processes /\ q.id \in Ids /\ q.row \in Row /\ q.row.event \in Events
  BY UnderWay DEF Inv, Serve, CreateSubscribe, Commit, Rollback, UpdateSave,
                  UpdateResubscribe, DeleteRow, DeleteUnsubscribe
<1>2. \A s \in Steps \ {"idle"} : [q EXCEPT !.step = s] \in {Idle} \cup Active
  BY <1>1 DEF Active
<1>3. eventHandler[q.process] \in HandlerType /\ Mapped(eventHandler[q.process])
  BY <1>1, HandlerOK DEF Inv
<1>4. /\ \A s \in {"subscribe", "commit", "commit delete", "save", "resubscribe", "delete", "unsubscribe"} :
            s \in Steps \ {"idle"}
      /\ \A s \in {"commit", "commit delete"} : Served(q, s) \in {Idle} \cup Active
  BY <1>2 DEF Steps, Served
<1>5. /\ up' \in SUBSET Processes /\ made' \in 0 .. MaxRequests /\ created' \in SUBSET Ids
      /\ booting' \in [Processes -> [Ids -> Row \cup {None}] \cup {None}]
      /\ disturbed' \in SUBSET (Processes \X Ids)
  BY <1>1 DEF Inv, TypeOK, Serve, CreateSubscribe, Commit, Rollback, UpdateSave,
                  UpdateResubscribe, DeleteRow, DeleteUnsubscribe
<1>6. rows' \in [Ids -> Row \cup {None}]
  BY <1>1 DEF Inv, TypeOK, Serve, CreateSubscribe, Commit, Rollback, UpdateSave,
              UpdateResubscribe, DeleteRow, DeleteUnsubscribe, Written
<1>7. request' \in [Requests -> {Idle} \cup Active]
  BY <1>2, <1>4, RequestMoves
     DEF Inv, Serve, CreateSubscribe, Commit, Rollback, UpdateSave,
         UpdateResubscribe, DeleteRow, DeleteUnsubscribe
<1>8. eventHandler' \in [Processes -> HandlerType] /\ MappedIsListening'
  <2>1. CASE CreateSubscribe(r)
    <3>1. eventHandler' = [eventHandler EXCEPT ![q.process] =
                              Subscribed(eventHandler[q.process], q.id, q.row)]
      BY <2>1 DEF CreateSubscribe
    <3> QED
      BY <1>1, <1>3, <3>1, SubscribedOK, HandlerChanges DEF Inv
  <2>2. CASE UpdateResubscribe(r)
    <3> DEFINE h == eventHandler[q.process]
               u == Unsubscribed(h, q.row.event, q.id)
               n == IF MustResubscribe(q) THEN Subscribed(u, q.id, q.row) ELSE h
    <3>1. eventHandler' = [eventHandler EXCEPT ![q.process] = n]
      BY <2>2 DEF UpdateResubscribe
    <3>2. u \in HandlerType /\ Mapped(u)
      BY <1>1, <1>3, UnsubscribedOK
    <3>3. n \in HandlerType /\ Mapped(n)
      BY <1>1, <1>3, <3>2, SubscribedOK
    <3> QED
      BY <1>1, <3>1, <3>3, HandlerChanges DEF Inv
  <2>3. CASE DeleteUnsubscribe(r)
    <3>1. eventHandler' = [eventHandler EXCEPT ![q.process] =
                              Unsubscribed(eventHandler[q.process], q.row.event, q.id)]
      BY <2>3 DEF DeleteUnsubscribe
    <3> QED
      BY <1>1, <1>3, <3>1, UnsubscribedOK, HandlerChanges DEF Inv
  <2>4. CASE Commit(r) \/ Rollback(r) \/ UpdateSave(r) \/ DeleteRow(r)
    <3>1. UNCHANGED eventHandler
      BY <2>4 DEF Commit, Rollback, UpdateSave, DeleteRow
    <3> QED
      BY <3>1, HandlersStay DEF Inv, TypeOK, HandlerType
  <2> QED
    BY <2>1, <2>2, <2>3, <2>4 DEF Serve
<1> QED
  BY <1>5, <1>6, <1>7, <1>8 DEF Inv, TypeOK, HandlerType, Active

\* A process that stops, reads the table at its start, or starts.
LEMMA ProcessInv ==
    ASSUME Inv, NEW p \in Processes, Stop(p) \/ FindAll(p) \/ Boot(p)
    PROVE  Inv'
<1> USE DEF Inv
<1>1. CASE Stop(p)
  <2>1. eventHandler' \in [Processes -> HandlerType] /\ MappedIsListening'
    BY <1>1, NoListenersOK, HandlerChanges DEF Stop
  <2>2. request' \in [Requests -> {Idle} \cup Active]
    BY <1>1 DEF Stop, TypeOK, Active
  <2>3. disturbed' \in SUBSET (Processes \X Ids)
    <3>1. \A i \in Requests : request[i].step # "idle" => request[i].id \in Ids
      BY UnderWay
    <3> QED
      BY <1>1, <3>1 DEF Stop, TypeOK
  <2>4. /\ rows' \in [Ids -> Row \cup {None}] /\ created' \in SUBSET Ids
        /\ up' \in SUBSET Processes /\ made' \in 0 .. MaxRequests
        /\ booting' \in [Processes -> [Ids -> Row \cup {None}] \cup {None}]
    BY <1>1 DEF Stop, TypeOK
  <2> QED
    BY <2>1, <2>2, <2>3, <2>4 DEF TypeOK, HandlerType, Active
<1>2. CASE FindAll(p)
  <2>1. MappedIsListening'
    BY <1>2, HandlersStay DEF FindAll
  <2>2. TypeOK'
    BY <1>2 DEF FindAll, TypeOK
  <2> QED
    BY <2>1, <2>2
<1>3. CASE Boot(p)
  <2> DEFINE found == booting[p]
             h == [emitter |-> [e \in Events |-> [l \in Listener |->
                      IF l.id \in {id \in Ids : found[id] # None} /\ l.row = found[l.id]
                         /\ l.row.event = e THEN 1 ELSE 0]],
                   handlers |-> [k \in Events \X Ids |->
                      IF k[2] \in {id \in Ids : found[id] # None} /\ found[k[2]].event = k[1]
                      THEN [id |-> k[2], row |-> found[k[2]]] ELSE None]]
  <2>1. found \in [Ids -> Row \cup {None}]
    BY <1>3 DEF Boot, Booting, TypeOK
  <2>2. h \in HandlerType /\ Mapped(h)
    <3> HIDE DEF found
    <3> QED
      BY <2>1, BootOK
  <2>3. eventHandler' = [eventHandler EXCEPT ![p] = h]
    BY <1>3 DEF Boot
  <2> HIDE DEF h
  <2>4. eventHandler' \in [Processes -> HandlerType] /\ MappedIsListening'
    BY <2>2, <2>3, HandlerChanges
  <2>5. /\ UNCHANGED <<rows, created, request, made, disturbed>>
        /\ up' \in SUBSET Processes
        /\ booting' \in [Processes -> [Ids -> Row \cup {None}] \cup {None}]
    BY <1>3 DEF Boot, TypeOK
  <2> QED
    BY <2>4, <2>5 DEF TypeOK, HandlerType
<1> QED
  BY <1>1, <1>2, <1>3

-----------------------------------------------------------------------------
LEMMA Invariance == Spec => []Inv
<1>1. Init => Inv
  BY InitInv
<1>2. Inv /\ [Next]_vars => Inv'
  <2> SUFFICES ASSUME Inv, [Next]_vars PROVE Inv'
    OBVIOUS
  <2>1. CASE UNCHANGED vars
    <3>1. UNCHANGED <<rows, created, up, booting, eventHandler, request, made, disturbed>>
      BY <2>1 DEF vars
    <3>2. TypeOK'
      BY <3>1 DEF Inv, TypeOK
    <3> QED
      BY <3>1, <3>2, HandlersStay DEF Inv
  <2>2. CASE \E r \in Requests : Serve(r)
    BY <2>2, ServeInv
  <2>3. CASE \E p \in Processes : Stop(p) \/ FindAll(p) \/ Boot(p)
    BY <2>3, ProcessInv
  <2>4. ASSUME NEW r \in Requests, NEW p \in Processes, NEW id \in Ids, NEW tx \in BOOLEAN,
               \/ \E row \in Row : Create(r, p, id, row, tx)
               \/ \E input \in Input, channel \in Channels : Update(r, p, id, input, channel, tx)
               \/ Delete(r, p, id, tx)
        PROVE  Inv'
    BY <2>4, CreateInv, UpdateInv, DeleteInv
  <2> QED
    BY <2>1, <2>2, <2>3, <2>4 DEF Next
<1> QED
  BY <1>1, <1>2, PTL DEF Spec

\* The table, the listeners and the requests keep their types: a listener is
\* never taken off an emitter that does not have it, and an update never
\* leaves a row without its event.
THEOREM WebhookTypes == Spec => []TypeOK
BY Invariance, PTL DEF Inv

\* In every process a handler of the eventHandlers map is on the emitter, for
\* the event and the webhook it is kept under.
THEOREM MappedHandlersListen == Spec => []MappedIsListening
BY Invariance, PTL DEF Inv

-----------------------------------------------------------------------------
(* A webhook that nobody works on is registered as its row says.            *)

\* What a WebhookEventHandler has of a webhook whose row is x, None if it has
\* none: one listener on the event, closing over the row, and its handler.
Registered(h, id, x) ==
    /\ \A e \in Events, row \in Row :
          h.emitter[e][[id |-> id, row |-> row]] = IF x = row /\ row.event = e THEN 1 ELSE 0
    /\ \A e \in Events :
          h.handlers[<<e, id>>] = IF x # None /\ x.event = e THEN [id |-> id, row |-> x] ELSE None

\* How far the row x and the listeners of a webhook are when a request q, the
\* only one that works on it, is at its step.
InStep(h, id, x, q) ==
    CASE q.step = "subscribe"   -> Registered(h, id, None) /\ x = IF q.tx THEN None ELSE q.row
      [] q.step = "save"        -> x \in Row /\ Registered(h, id, x) /\ x.event = q.row.event
      [] q.step = "resubscribe" -> /\ q.tx \/ x = q.row
                                   /\ \E old \in Row : Registered(h, id, old) /\ old.event = q.row.event
      [] q.step = "delete"      -> Registered(h, id, q.row)
      [] q.step = "unsubscribe" -> (q.tx \/ x = None) /\ Registered(h, id, q.row)
      [] q.step = "commit"      -> Registered(h, id, q.row)
      [] q.step = "commit delete" -> Registered(h, id, None)
      [] OTHER                  -> FALSE

Works(r, id) == request[r].step # "idle" /\ request[r].id = id

\* A process that is up: one request, of its own, works on the webhook, or
\* none does and the listeners are what the row says.
UpSound(p, id) ==
    /\ \A r \in Requests : Works(r, id) =>
          /\ request[r].process = p /\ ~request[r].named
          /\ InStep(eventHandler[p], id, rows[id], request[r])
    /\ \A r, s \in Requests : Works(r, id) /\ Works(s, id) => r = s
    /\ ~Busy(id) => Registered(eventHandler[p], id, rows[id])

\* One that starts has read the row there is, and nobody works on it.
BootSound(p, id) == Booting(p) => ~Busy(id) /\ booting[p][id] = rows[id]

Sound(p, id) == <<p, id>> \notin disturbed => BootSound(p, id) /\ (p \in up => UpSound(p, id))

\* An id is given out before it has a row or a request.
Given ==
    /\ \A id \in Ids : id \notin created => rows[id] = None
    /\ \A r \in Requests : request[r].step # "idle" => request[r].id \in created
    /\ \A p \in up : ~Booting(p)

QuietInv == Inv /\ Given /\ \A p \in Processes, id \in Ids : Sound(p, id)

-----------------------------------------------------------------------------
(* What subscribing and unsubscribing do to a webhook, and to the others.   *)

LEMMA NothingRegistered == ASSUME NEW id \in Ids PROVE Registered(NoListeners, id, None)
<1>1. \A row \in Row : [id |-> id, row |-> row] \in Listener /\ row # None
  BY NoneIsNothing DEF Listener
<1> QED
  BY <1>1 DEF NoListeners, Registered

\* The parts of what subscribeWebhookEvent leaves.
LEMMA SubscribedParts ==
    ASSUME NEW h \in HandlerType, NEW id \in Ids, NEW row \in Row,
           NEW l, l = [id |-> id, row |-> row], NEW s, s = Subscribed(h, id, row)
    PROVE  /\ s.emitter[row.event][l] = h.emitter[row.event][l] + 1
           /\ \A e \in Events, o \in Listener : ~(e = row.event /\ o = l) => s.emitter[e][o] = h.emitter[e][o]
           /\ s.handlers[<<row.event, id>>] = l
           /\ \A e \in Events, i \in Ids :
                 ~(e = row.event /\ i = id) => s.handlers[<<e, i>>] = h.handlers[<<e, i>>]
<1> DEFINE ev == row.event
           n == h.emitter[ev][l] + 1
           em == [h.emitter EXCEPT ![ev][l] = n]
           ha == [h.handlers EXCEPT ![<<ev, id>>] = l]
<1>1. l \in Listener /\ ev \in Events
  BY DEF Listener, Row
<1>2. /\ h.emitter \in [Events -> [Listener -> Nat]]
      /\ h.handlers \in [Events \X Ids -> Listener \cup {None}]
  BY DEF HandlerType
<1>3. s.emitter = em /\ s.handlers = ha
  BY DEF Subscribed
<1>4. n \in Nat
  <2>1. h.emitter[ev] \in [Listener -> Nat]
    BY <1>1, <1>2
  <2> QED
    BY <1>1, <2>1
<1> HIDE DEF ev, n
<1>5. /\ em[ev][l] = n
      /\ \A e \in Events, o \in Listener : ~(e = ev /\ o = l) => em[e][o] = h.emitter[e][o]
  BY <1>1, <1>2, <1>4, EntryChanged
<1>6. /\ ha[<<ev, id>>] = l
      /\ \A e \in Events, i \in Ids : ~(e = ev /\ i = id) => ha[<<e, i>>] = h.handlers[<<e, i>>]
  BY <1>1, <1>2
<1> HIDE DEF em, ha
<1> QED
  BY <1>3, <1>5, <1>6 DEF ev, n

\* The parts of what unsubscribeWebhookEvent leaves of a handler it finds.
LEMMA UnsubscribedParts ==
    ASSUME NEW h \in HandlerType, Mapped(h), NEW ev \in Events, NEW id \in Ids,
           NEW l, l = h.handlers[<<ev, id>>], l # None, NEW s, s = Unsubscribed(h, ev, id)
    PROVE  /\ l \in Listener /\ l.id = id
           /\ s.emitter[ev][l] = h.emitter[ev][l] - 1
           /\ \A e \in Events, o \in Listener : ~(e = ev /\ o = l) => s.emitter[e][o] = h.emitter[e][o]
           /\ s.handlers[<<ev, id>>] = None
           /\ \A e \in Events, i \in Ids :
                 ~(e = ev /\ i = id) => s.handlers[<<e, i>>] = h.handlers[<<e, i>>]
<1> DEFINE n == h.emitter[ev][l] - 1
           em == [h.emitter EXCEPT ![ev][l] = n]
           ha == [h.handlers EXCEPT ![<<ev, id>>] = None]
<1>1. /\ h.emitter \in [Events -> [Listener -> Nat]]
      /\ h.handlers \in [Events \X Ids -> Listener \cup {None}]
  BY DEF HandlerType
<1>2. l \in Listener /\ l.id = id /\ h.emitter[ev][l] > 0
  BY <1>1 DEF Mapped
<1>3. s.emitter = em /\ s.handlers = ha
  BY DEF Unsubscribed
<1>4. n \in Nat
  <2>1. h.emitter[ev] \in [Listener -> Nat]
    BY <1>1
  <2> QED
    BY <1>2, <2>1
<1>5. /\ ha[<<ev, id>>] = None
      /\ \A e \in Events, i \in Ids : ~(e = ev /\ i = id) => ha[<<e, i>>] = h.handlers[<<e, i>>]
  BY <1>1
<1> HIDE DEF n
<1>6. /\ em[ev][l] = n
      /\ \A e \in Events, o \in Listener : ~(e = ev /\ o = l) => em[e][o] = h.emitter[e][o]
  BY <1>1, <1>2, <1>4, EntryChanged
<1> HIDE DEF em, ha
<1> QED
  BY <1>2, <1>3, <1>5, <1>6 DEF n

LEMMA SubscribingRegisters ==
    ASSUME NEW h \in HandlerType, NEW id \in Ids, NEW row \in Row, Registered(h, id, None)
    PROVE  Registered(Subscribed(h, id, row), id, row)
<1> DEFINE l(r) == [id |-> id, row |-> r]
           s == Subscribed(h, id, row)
<1>1. row.event \in Events /\ row # None /\ \A r \in Row : l(r) \in Listener /\ (l(r) = l(row) <=> r = row)
  BY NoneIsNothing DEF Listener, Row
<1>2. \A e \in Events, r \in Row : h.emitter[e][l(r)] = 0
  BY NoneIsNothing DEF Registered
<1>3. \A e \in Events : h.handlers[<<e, id>>] = None
  BY DEF Registered
<1>4. /\ s.emitter[row.event][l(row)] = h.emitter[row.event][l(row)] + 1
      /\ \A e \in Events, o \in Listener : ~(e = row.event /\ o = l(row)) => s.emitter[e][o] = h.emitter[e][o]
      /\ s.handlers[<<row.event, id>>] = l(row)
      /\ \A e \in Events : e # row.event => s.handlers[<<e, id>>] = h.handlers[<<e, id>>]
  <2> DEFINE m == l(row)
  <2>1. m = [id |-> id, row |-> row] /\ s = Subscribed(h, id, row)
    OBVIOUS
  <2> HIDE DEF m, s
  <2>2. /\ s.emitter[row.event][m] = h.emitter[row.event][m] + 1
        /\ \A e \in Events, o \in Listener : ~(e = row.event /\ o = m) => s.emitter[e][o] = h.emitter[e][o]
        /\ s.handlers[<<row.event, id>>] = m
        /\ \A e \in Events, i \in Ids :
              ~(e = row.event /\ i = id) => s.handlers[<<e, i>>] = h.handlers[<<e, i>>]
    BY <2>1, SubscribedParts
  <2> QED
    BY <2>2 DEF m
<1> HIDE DEF s
<1>5. ASSUME NEW e \in Events, NEW r \in Row
      PROVE  s.emitter[e][l(r)] = IF row = r /\ r.event = e THEN 1 ELSE 0
  BY <1>1, <1>2, <1>4
<1>6. ASSUME NEW e \in Events
      PROVE  s.handlers[<<e, id>>] = IF row # None /\ row.event = e THEN l(row) ELSE None
  BY <1>1, <1>3, <1>4
<1> QED
  BY <1>5, <1>6 DEF Registered, s

LEMMA UnsubscribingForgets ==
    ASSUME NEW h \in HandlerType, Mapped(h), NEW id \in Ids, NEW row \in Row, Registered(h, id, row)
    PROVE  Registered(Unsubscribed(h, row.event, id), id, None)
<1> DEFINE l(r) == [id |-> id, row |-> r]
           s == Unsubscribed(h, row.event, id)
<1>1. /\ row.event \in Events /\ row # None
      /\ \A r \in Row : r # None /\ l(r) \in Listener /\ (l(r) = l(row) <=> r = row)
  BY NoneIsNothing DEF Listener, Row
<1>2. \A e \in Events, r \in Row : h.emitter[e][l(r)] = IF row = r /\ r.event = e THEN 1 ELSE 0
  BY DEF Registered
<1>3. \A e \in Events : h.handlers[<<e, id>>] = IF row.event = e THEN l(row) ELSE None
  BY <1>1 DEF Registered
<1>4. h.handlers[<<row.event, id>>] = l(row) /\ l(row) # None
  BY <1>1, <1>3, NoneIsNothing
<1>5. /\ s.emitter[row.event][l(row)] = h.emitter[row.event][l(row)] - 1
      /\ \A e \in Events, o \in Listener : ~(e = row.event /\ o = l(row)) => s.emitter[e][o] = h.emitter[e][o]
      /\ s.handlers[<<row.event, id>>] = None
      /\ \A e \in Events : e # row.event => s.handlers[<<e, id>>] = h.handlers[<<e, id>>]
  <2> DEFINE m == h.handlers[<<row.event, id>>]
  <2>1. m # None /\ m = h.handlers[<<row.event, id>>] /\ s = Unsubscribed(h, row.event, id)
    BY <1>4
  <2> HIDE DEF m, s
  <2>2. /\ s.emitter[row.event][m] = h.emitter[row.event][m] - 1
        /\ \A e \in Events, o \in Listener : ~(e = row.event /\ o = m) => s.emitter[e][o] = h.emitter[e][o]
        /\ s.handlers[<<row.event, id>>] = None
        /\ \A e \in Events, i \in Ids :
              ~(e = row.event /\ i = id) => s.handlers[<<e, i>>] = h.handlers[<<e, i>>]
    BY <1>1, <2>1, UnsubscribedParts
  <2> QED
    BY <1>4, <2>2 DEF m
<1> HIDE DEF s
<1>6. ASSUME NEW e \in Events, NEW r \in Row
      PROVE  s.emitter[e][l(r)] = IF None = r /\ r.event = e THEN 1 ELSE 0
  <2>1. None # r
    BY <1>1
  <2>2. CASE e = row.event /\ r = row
    BY <1>1, <1>2, <1>5, <2>1, <2>2
  <2>3. CASE ~(e = row.event /\ r = row)
    <3>1. s.emitter[e][l(r)] = h.emitter[e][l(r)]
      BY <1>1, <1>5, <2>3
    <3>2. h.emitter[e][l(r)] = 0
      BY <1>2, <2>3
    <3> QED
      BY <2>1, <3>1, <3>2
  <2> QED
    BY <2>2, <2>3
<1>7. ASSUME NEW e \in Events PROVE s.handlers[<<e, id>>] = None
  BY <1>3, <1>5
<1> QED
  BY <1>6, <1>7 DEF Registered, s

\* What is registered of other webhooks stays.
LEMMA OthersStayRegistered ==
    ASSUME NEW h \in HandlerType, Mapped(h), NEW id \in Ids, NEW row \in Row, NEW ev \in Events,
           NEW other \in Ids, other # id, NEW x, Registered(h, other, x)
    PROVE  /\ Registered(Subscribed(h, id, row), other, x)
           /\ Registered(Unsubscribed(h, ev, id), other, x)
<1>1. \A r \in Row : [id |-> other, row |-> r] \in Listener /\ [id |-> other, row |-> r].id = other
  BY DEF Listener
<1>2. Registered(Subscribed(h, id, row), other, x)
  <2> DEFINE s == Subscribed(h, id, row)
  <2>1. /\ \A e \in Events, r \in Row :
              s.emitter[e][[id |-> other, row |-> r]] = h.emitter[e][[id |-> other, row |-> r]]
        /\ \A e \in Events : s.handlers[<<e, other>>] = h.handlers[<<e, other>>]
    <3> DEFINE l == [id |-> id, row |-> row]
    <3>1. /\ \A r \in Row : [id |-> other, row |-> r] # l
          /\ l = [id |-> id, row |-> row] /\ s = Subscribed(h, id, row)
      OBVIOUS
    <3> HIDE DEF l, s
    <3>2. /\ s.emitter[row.event][l] = h.emitter[row.event][l] + 1
          /\ \A e \in Events, o \in Listener : ~(e = row.event /\ o = l) => s.emitter[e][o] = h.emitter[e][o]
          /\ s.handlers[<<row.event, id>>] = l
          /\ \A e \in Events, i \in Ids :
                ~(e = row.event /\ i = id) => s.handlers[<<e, i>>] = h.handlers[<<e, i>>]
      BY <3>1, SubscribedParts
    <3> QED
      BY <1>1, <3>1, <3>2
  <2> HIDE DEF s
  <2>2. Registered(s, other, x)
    BY <2>1 DEF Registered
  <2> QED
    BY <2>2 DEF s
<1>3. Registered(Unsubscribed(h, ev, id), other, x)
  <2>1. CASE h.handlers[<<ev, id>>] = None
    BY <2>1 DEF Unsubscribed
  <2>2. CASE h.handlers[<<ev, id>>] # None
    <3> DEFINE l == h.handlers[<<ev, id>>]
               s == Unsubscribed(h, ev, id)
    <3>0. l # None /\ l = h.handlers[<<ev, id>>] /\ s = Unsubscribed(h, ev, id)
      BY <2>2
    <3> HIDE DEF l, s
    <3>1. /\ l.id = id
          /\ \A e \in Events, o \in Listener : ~(e = ev /\ o = l) => s.emitter[e][o] = h.emitter[e][o]
          /\ \A e \in Events, i \in Ids :
                ~(e = ev /\ i = id) => s.handlers[<<e, i>>] = h.handlers[<<e, i>>]
      BY <3>0, UnsubscribedParts
    <3>2. \A e \in Events, r \in Row :
              s.emitter[e][[id |-> other, row |-> r]] = h.emitter[e][[id |-> other, row |-> r]]
      BY <1>1, <3>1
    <3>3. Registered(s, other, x)
      BY <3>1, <3>2 DEF Registered
    <3> QED
      BY <3>3 DEF s
  <2> QED
    BY <2>1, <2>2
<1> QED
  BY <1>2, <1>3

-----------------------------------------------------------------------------
(* What a step leaves as it is.                                             *)

\* A step that has to do with other webhooks or other processes.
LEMMA Elsewhere ==
    ASSUME NEW p \in Processes, NEW id \in Ids, Sound(p, id),
           <<p, id>> \notin disturbed' => <<p, id>> \notin disturbed,
           rows'[id] = rows[id], booting'[p] = booting[p], p \in up' <=> p \in up,
           \A x \in Row \cup {None} :
               Registered(eventHandler[p], id, x) => Registered(eventHandler'[p], id, x),
           rows[id] \in Row \cup {None},
           \A r \in Requests : Works(r, id) => request[r].row \in Row,
           \A r \in Requests : Works(r, id) => request'[r] = request[r],
           \A r \in Requests : request'[r].step # "idle" /\ request'[r].id = id => Works(r, id)
    PROVE  Sound(p, id)'
<1> SUFFICES ASSUME <<p, id>> \notin disturbed' PROVE BootSound(p, id)' /\ (p \in up' => UpSound(p, id)')
  BY DEF Sound
<1>1. BootSound(p, id) /\ (p \in up => UpSound(p, id))
  BY DEF Sound
<1>2. \A r \in Requests : Works(r, id)' <=> Works(r, id)
  BY DEF Works
<1>3. Busy(id)' <=> Busy(id)
  BY <1>2 DEF Busy, Works
<1>4. BootSound(p, id)'
  BY <1>1, <1>3 DEF BootSound, Booting
<1>5. ASSUME p \in up' PROVE UpSound(p, id)'
  <2>1. ASSUME NEW r \in Requests, Works(r, id)'
        PROVE  /\ request'[r].process = p /\ ~request'[r].named
               /\ InStep(eventHandler'[p], id, rows'[id], request'[r])
    <3>1. Works(r, id) /\ request'[r] = request[r] /\ request[r].row \in Row
      BY <1>2, <2>1
    <3>2. request[r].process = p /\ ~request[r].named /\ InStep(eventHandler[p], id, rows[id], request[r])
      BY <1>1, <1>5, <3>1 DEF UpSound
    <3>3. InStep(eventHandler'[p], id, rows[id], request[r])
      BY <3>1, <3>2 DEF InStep
    <3> QED
      BY <3>1, <3>2, <3>3
  <2>2. \A r, s \in Requests : Works(r, id)' /\ Works(s, id)' => r = s
    BY <1>1, <1>2, <1>5 DEF UpSound
  <2>3. ~Busy(id)' => Registered(eventHandler'[p], id, rows'[id])
    BY <1>1, <1>3, <1>5 DEF UpSound
  <2> QED
    BY <2>1, <2>2, <2>3 DEF UpSound
<1> QED
  BY <1>4, <1>5

\* A process that is neither up nor starting has nothing to keep.
LEMMA Nowhere ==
    ASSUME NEW p \in Processes, NEW id \in Ids,
           <<p, id>> \in disturbed' \/ (p \notin up' /\ ~Booting(p)')
    PROVE  Sound(p, id)'
BY DEF Sound, BootSound

\* One request, of the process p itself, goes on with the webhook.
LEMMA WorkGoesOn ==
    ASSUME NEW p \in Processes, NEW id \in Ids, NEW r \in Requests, NEW q,
           request' = [request EXCEPT ![r] = q], DOMAIN request = Requests,
           \A s \in Requests : Works(s, id) => s = r,
           ~Booting(p)',
           q.step # "idle", q.id = id, q.process = p, ~q.named,
           InStep(eventHandler'[p], id, rows'[id], q)
    PROVE  Sound(p, id)'
<1>1. request'[r] = q /\ \A s \in Requests : s # r => request'[s] = request[s]
  OBVIOUS
<1>2. \A s \in Requests : Works(s, id)' => s = r
  BY <1>1 DEF Works
<1>3. Busy(id)'
  BY <1>1 DEF Busy
<1> QED
  BY <1>1, <1>2, <1>3 DEF Sound, BootSound, UpSound

\* It is done with it.
LEMMA WorkEnds ==
    ASSUME NEW p \in Processes, NEW id \in Ids, NEW r \in Requests,
           request' = [request EXCEPT ![r] = Idle], DOMAIN request = Requests,
           \A s \in Requests : Works(s, id) => s = r,
           ~Booting(p)',
           Registered(eventHandler'[p], id, rows'[id])
    PROVE  Sound(p, id)'
<1>1. request'[r].step = "idle" /\ \A s \in Requests : s # r => request'[s] = request[s]
  BY DEF Idle
<1>2. \A s \in Requests : ~Works(s, id)'
  BY <1>1 DEF Works
<1> QED
  BY <1>2 DEF Sound, BootSound, UpSound

\* What the invariant says of the pieces.
LEMMA Pieces ==
    ASSUME QuietInv
    PROVE  /\ rows \in [Ids -> Row \cup {None}]
           /\ eventHandler \in [Processes -> HandlerType]
           /\ \A p \in Processes : Mapped(eventHandler[p])
           /\ \A r \in Requests : request[r].step # "idle" => request[r].row \in Row
           /\ request \in [Requests -> {Idle} \cup Active]
           /\ DOMAIN request = Requests
BY HandlerOK, UnderWay DEF QuietInv, Inv, TypeOK, HandlerType, Active

-----------------------------------------------------------------------------
\* A request begins: in a process that is up, on a webhook that it may disturb.
LEMMA BeginQuiet ==
    ASSUME QuietInv, NEW r \in Requests, NEW p \in Processes, NEW id \in Ids, NEW named \in BOOLEAN,
           NEW state, Begin(r, p, id, state), Touch(p, id, named),
           state.step # "idle", state.id = id, state.process = p, state.named = named,
           \A i \in Ids : i # id => rows'[i] = rows[i],
           Registered(eventHandler[p], id, rows[id]) /\ ~named
               => InStep(eventHandler[p], id, rows'[id], state)
    PROVE  \A v \in Processes, i \in Ids : Sound(v, i)'
<1> SUFFICES ASSUME NEW v \in Processes, NEW i \in Ids PROVE Sound(v, i)'
  OBVIOUS
<1>1. /\ request' = [request EXCEPT ![r] = state] /\ request[r].step = "idle" /\ p \in up
      /\ UNCHANGED <<up, booting, eventHandler>>
  BY DEF Begin
<1>2. Sound(v, i) /\ ~Booting(p)
  BY <1>1 DEF QuietInv, Given
<1>3. disturbed \subseteq disturbed' /\ \A j : <<v, j>> \in disturbed' => <<v, j>> \in disturbed \/ j = id
  BY DEF Touch
<1>4. request'[r] = state /\ \A s \in Requests : s # r => request'[s] = request[s]
  BY <1>1, Pieces
<1>5. CASE i # id
  <2>1. /\ \A s \in Requests : Works(s, i) => request'[s] = request[s]
        /\ \A s \in Requests : request'[s].step # "idle" /\ request'[s].id = i => Works(s, i)
    BY <1>1, <1>4, <1>5 DEF Works
  <2>2. rows[i] \in Row \cup {None} /\ \A s \in Requests : Works(s, i) => request[s].row \in Row
    BY Pieces DEF Works
  <2> QED
    BY <1>1, <1>2, <1>3, <1>5, <2>1, <2>2, Elsewhere
<1>6. CASE i = id /\ <<v, id>> \in disturbed'
  BY <1>6, Nowhere
<1>7. CASE i = id /\ <<v, id>> \notin disturbed'
  <2>1. v = p /\ ~named /\ ~Busy(id) /\ <<p, id>> \notin disturbed
    BY <1>3, <1>7 DEF Touch
  <2>2. Registered(eventHandler[p], id, rows[id])
    BY <1>1, <1>2, <1>7, <2>1 DEF Sound, UpSound
  <2>3. \A s \in Requests : Works(s, id) => s = r
    BY <2>1 DEF Busy, Works
  <2>4. ~Booting(p)' /\ InStep(eventHandler'[p], id, rows'[id], state)
    BY <1>1, <1>2, <2>1, <2>2 DEF Booting
  <2> QED
    BY <1>1, <1>7, <2>1, <2>3, <2>4, Pieces, WorkGoesOn
<1> QED
  BY <1>5, <1>6, <1>7

LEMMA CreateQuiet ==
    ASSUME QuietInv, NEW r \in Requests, NEW p \in Processes, NEW id \in Ids,
           NEW row \in Row, NEW tx \in BOOLEAN, Create(r, p, id, row, tx)
    PROVE  \A v \in Processes, i \in Ids : Sound(v, i)'
<1> DEFINE state == [step |-> "subscribe", process |-> p, id |-> id, row |-> row,
                     named |-> FALSE, tx |-> tx]
<1>1. Begin(r, p, id, state) /\ Touch(p, id, FALSE)
  BY DEF Create
<1>2. rows[id] = None
  BY DEF Create, QuietInv, Given
<1>3. rows'[id] = (IF tx THEN None ELSE row) /\ \A i \in Ids : i # id => rows'[i] = rows[i]
  BY <1>2, Pieces DEF Create
<1>4. Registered(eventHandler[p], id, rows[id]) => InStep(eventHandler[p], id, rows'[id], state)
  BY <1>2, <1>3 DEF InStep
<1>5. state.step # "idle" /\ state.id = id /\ state.process = p /\ state.named = FALSE
  OBVIOUS
<1> HIDE DEF state
<1> QED
  BY <1>1, <1>3, <1>4, <1>5, BeginQuiet

LEMMA UpdateQuiet ==
    ASSUME QuietInv, NEW r \in Requests, NEW p \in Processes, NEW id \in Ids,
           NEW input \in Input, NEW channel \in Channels, NEW tx \in BOOLEAN,
           Update(r, p, id, input, channel, tx)
    PROVE  \A v \in Processes, i \in Ids : Sound(v, i)'
<1> DEFINE row == Preloaded(rows[id], input, channel)
           named == input.event # Absent
           state == [step |-> "save", process |-> p, id |-> id, tx |-> tx, row |-> row,
                     named |-> named]
<1>1. Begin(r, p, id, state) /\ Touch(p, id, named) /\ UNCHANGED rows /\ named \in BOOLEAN
  BY DEF Update
<1>2. rows[id] \in Row
  BY Pieces DEF Update
<1>3. ~named => row.event = rows[id].event
  BY <1>2 DEF Preloaded, Row
<1> HIDE DEF row, named
<1>4. Registered(eventHandler[p], id, rows[id]) /\ ~named => InStep(eventHandler[p], id, rows'[id], state)
  BY <1>1, <1>2, <1>3 DEF InStep
<1>5. state.step # "idle" /\ state.id = id /\ state.process = p /\ state.named = named
  OBVIOUS
<1> HIDE DEF state
<1> QED
  BY <1>1, <1>4, <1>5, BeginQuiet

LEMMA DeleteQuiet ==
    ASSUME QuietInv, NEW r \in Requests, NEW p \in Processes, NEW id \in Ids, NEW tx \in BOOLEAN,
           Delete(r, p, id, tx)
    PROVE  \A v \in Processes, i \in Ids : Sound(v, i)'
<1> DEFINE state == [step |-> "delete", process |-> p, id |-> id, row |-> rows[id],
                     named |-> FALSE, tx |-> tx]
<1>1. Begin(r, p, id, state) /\ Touch(p, id, FALSE) /\ UNCHANGED rows
  BY DEF Delete
<1>2. Registered(eventHandler[p], id, rows[id]) => InStep(eventHandler[p], id, rows'[id], state)
  BY DEF InStep
<1>3. state.step # "idle" /\ state.id = id /\ state.process = p /\ state.named = FALSE
  OBVIOUS
<1> HIDE DEF state
<1> QED
  BY <1>1, <1>2, <1>3, BeginQuiet

\* Where a request goes on, and the state of its webhook in its own process.
LEMMA ServeHere ==
    ASSUME QuietInv, NEW r \in Requests, NEW p \in Processes, NEW id \in Ids,
           Works(r, id), request[r].process = p, ~Rollback(r), Serve(r),
           p \in up, <<p, id>> \notin disturbed
    PROVE  Sound(p, id)'
<1> DEFINE q == request[r]
           h == eventHandler[p]
<1>1. /\ q \in Active /\ q.row \in Row /\ q.row.event \in Events /\ q.id = id
      /\ h \in HandlerType /\ Mapped(h)
      /\ rows \in [Ids -> Row \cup {None}] /\ eventHandler \in [Processes -> HandlerType]
  BY UnderWay, Pieces DEF Works, QuietInv, Inv
<1>2. /\ ~q.named /\ InStep(h, id, rows[id], q)
      /\ \A s \in Requests : Works(s, id) => s = r
  BY DEF QuietInv, Sound, UpSound
<1>3. ~Booting(p) /\ UNCHANGED <<booting, up>>
  BY DEF QuietInv, Given, Serve, CreateSubscribe, Commit, Rollback, UpdateSave, UpdateResubscribe,
         DeleteRow, DeleteUnsubscribe
<1>4. \A step : /\ [q EXCEPT !.step = step].step = step /\ [q EXCEPT !.step = step].id = id
                /\ [q EXCEPT !.step = step].process = p /\ ~[q EXCEPT !.step = step].named
                /\ [q EXCEPT !.step = step].row = q.row
  BY <1>1, <1>2 DEF Active
<1>5. ~Booting(p)' /\ DOMAIN request = Requests
  BY <1>3, Pieces DEF Booting
<1>6. ASSUME request' = [request EXCEPT ![r] = Idle], Registered(eventHandler'[p], id, rows'[id])
      PROVE  Sound(p, id)'
  BY <1>2, <1>5, <1>6, WorkEnds
<1>7. ASSUME NEW step, step # "idle", request' = [request EXCEPT ![r].step = step],
             InStep(eventHandler'[p], id, rows'[id], [q EXCEPT !.step = step])
      PROVE  Sound(p, id)'
  <2> DEFINE m == [q EXCEPT !.step = step]
  <2>1. request' = [request EXCEPT ![r] = m] /\ InStep(eventHandler'[p], id, rows'[id], m)
    BY <1>7
  <2>2. m.step # "idle" /\ m.id = id /\ m.process = p /\ ~m.named
    BY <1>4, <1>7
  <2> HIDE DEF m
  <2> QED
    BY <1>2, <1>5, <2>1, <2>2, WorkGoesOn
\* The service has returned: the mutation goes on to its commit, or it is over.
<1>8. ASSUME NEW commit \in {"commit", "commit delete"},
             request' = [request EXCEPT ![r] = Served(q, commit)],
             q.tx => InStep(eventHandler'[p], id, rows'[id], [q EXCEPT !.step = commit]),
             ~q.tx => Registered(eventHandler'[p], id, rows'[id])
      PROVE  Sound(p, id)'
  <2>1. CASE q.tx
    <3>1. request' = [request EXCEPT ![r].step = commit] /\ commit # "idle"
      BY <1>8, <2>1 DEF Served
    <3> QED
      BY <1>7, <1>8, <2>1, <3>1
  <2>2. CASE ~q.tx
    <3>1. request' = [request EXCEPT ![r] = Idle]
      BY <1>8, <2>2 DEF Served
    <3> QED
      BY <1>6, <1>8, <2>2, <3>1
  <2> QED
    BY <2>1, <2>2
<1>9. CASE CreateSubscribe(r)
  <2>1. /\ eventHandler'[p] = Subscribed(h, id, q.row) /\ UNCHANGED rows /\ q.step = "subscribe"
        /\ request' = [request EXCEPT ![r] = Served(q, "commit")]
    BY <1>1, <1>9 DEF CreateSubscribe
  <2>2. Registered(eventHandler'[p], id, q.row) /\ rows[id] = IF q.tx THEN None ELSE q.row
    BY <1>1, <1>2, <2>1, SubscribingRegisters DEF InStep
  <2>3. InStep(eventHandler'[p], id, rows'[id], [q EXCEPT !.step = "commit"])
    BY <1>4, <2>2 DEF InStep
  <2> QED
    BY <1>8, <2>1, <2>2, <2>3
<1>10. CASE UpdateSave(r)
  <2>1. /\ rows'[id] = (IF q.tx THEN rows[id] ELSE q.row) /\ UNCHANGED eventHandler
        /\ request' = [request EXCEPT ![r].step = "resubscribe"]
    BY <1>1, <1>10 DEF UpdateSave, Written
  <2>2. rows[id] \in Row /\ Registered(h, id, rows[id]) /\ rows[id].event = q.row.event
    BY <1>2, <1>10 DEF UpdateSave, InStep
  <2>3. [q EXCEPT !.step = "resubscribe"].tx = q.tx
    BY <1>1 DEF Active
  <2>4. InStep(eventHandler'[p], id, rows'[id], [q EXCEPT !.step = "resubscribe"])
    BY <1>4, <2>1, <2>2, <2>3 DEF InStep
  <2> QED
    BY <1>7, <2>1, <2>4
<1>11. CASE UpdateResubscribe(r)
  <2>1. /\ eventHandler'[p] = Subscribed(Unsubscribed(h, q.row.event, id), id, q.row)
        /\ UNCHANGED rows /\ request' = [request EXCEPT ![r] = Served(q, "commit")]
    BY <1>1, <1>2, <1>11 DEF UpdateResubscribe, MustResubscribe
  <2>2. /\ q.tx \/ rows[id] = q.row
        /\ \E old \in Row : Registered(h, id, old) /\ old.event = q.row.event
    BY <1>2, <1>11 DEF UpdateResubscribe, InStep
  <2>3. PICK old \in Row : Registered(h, id, old) /\ old.event = q.row.event
    BY <2>2
  <2>4. Registered(Unsubscribed(h, q.row.event, id), id, None)
    BY <1>1, <2>3, UnsubscribingForgets
  <2>5. Registered(eventHandler'[p], id, q.row)
    BY <1>1, <2>1, <2>4, UnsubscribedOK, SubscribingRegisters
  <2>6. InStep(eventHandler'[p], id, rows'[id], [q EXCEPT !.step = "commit"])
    BY <1>4, <2>5 DEF InStep
  <2> QED
    BY <1>8, <2>1, <2>2, <2>5, <2>6
<1>12. CASE DeleteRow(r)
  <2>1. /\ rows'[id] = (IF q.tx THEN rows[id] ELSE None) /\ UNCHANGED eventHandler
        /\ request' = [request EXCEPT ![r].step = "unsubscribe"]
    BY <1>1, <1>12 DEF DeleteRow, Written
  <2>2. Registered(h, id, q.row)
    BY <1>2, <1>12 DEF DeleteRow, InStep
  <2>3. [q EXCEPT !.step = "unsubscribe"].tx = q.tx
    BY <1>1 DEF Active
  <2>4. InStep(eventHandler'[p], id, rows'[id], [q EXCEPT !.step = "unsubscribe"])
    BY <1>4, <2>1, <2>2, <2>3 DEF InStep
  <2> QED
    BY <1>7, <2>1, <2>4
<1>13. CASE DeleteUnsubscribe(r)
  <2>1. /\ eventHandler'[p] = Unsubscribed(h, q.row.event, id)
        /\ UNCHANGED rows /\ request' = [request EXCEPT ![r] = Served(q, "commit delete")]
    BY <1>1, <1>13 DEF DeleteUnsubscribe
  <2>2. (q.tx \/ rows[id] = None) /\ Registered(h, id, q.row)
    BY <1>2, <1>13 DEF DeleteUnsubscribe, InStep
  <2>3. Registered(eventHandler'[p], id, None)
    BY <1>1, <2>1, <2>2, UnsubscribingForgets
  <2>4. InStep(eventHandler'[p], id, rows'[id], [q EXCEPT !.step = "commit delete"])
    BY <1>4, <2>3 DEF InStep
  <2> QED
    BY <1>8, <2>1, <2>2, <2>3, <2>4
<1>14. CASE Commit(r)
  <2>1. /\ rows'[id] = (IF q.step = "commit" THEN q.row ELSE None) /\ UNCHANGED eventHandler
        /\ request' = [request EXCEPT ![r] = Idle] /\ q.step \in {"commit", "commit delete"}
    BY <1>1, <1>14 DEF Commit
  <2>2. Registered(h, id, IF q.step = "commit" THEN q.row ELSE None)
    BY <1>2, <2>1 DEF InStep
  <2> QED
    BY <1>6, <2>1, <2>2
<1> QED
  BY <1>9, <1>10, <1>11, <1>12, <1>13, <1>14 DEF Serve

LEMMA ServeQuiet ==
    ASSUME QuietInv, NEW r \in Requests, Serve(r)
    PROVE  \A v \in Processes, i \in Ids : Sound(v, i)'
<1> SUFFICES ASSUME NEW v \in Processes, NEW i \in Ids PROVE Sound(v, i)'
  OBVIOUS
<1> DEFINE q == request[r]
<1>1. q.step # "idle"
  BY DEF Serve, CreateSubscribe, Commit, Rollback, UpdateSave, UpdateResubscribe, DeleteRow,
         DeleteUnsubscribe, Written, Served
<1>2. /\ q.process \in Processes /\ q.id \in Ids /\ q.row \in Row /\ q.row.event \in Events
      /\ q \in Active
  BY <1>1, UnderWay DEF QuietInv, Inv
<1>3. UNCHANGED <<up, booting>>
  BY DEF Serve, CreateSubscribe, Commit, Rollback, UpdateSave, UpdateResubscribe, DeleteRow,
         DeleteUnsubscribe, Written, Served
<1>4. disturbed' = disturbed \/ (Rollback(r) /\ disturbed' = disturbed \cup (Processes \X {q.id}))
  BY DEF Serve, CreateSubscribe, Commit, Rollback, UpdateSave, UpdateResubscribe, DeleteRow,
         DeleteUnsubscribe, Written, Served
<1>5. Sound(v, i)
  BY DEF QuietInv
<1>6. CASE i # q.id
  <2>1. rows'[i] = rows[i] /\ rows[i] \in Row \cup {None}
    BY <1>6, Pieces DEF Serve, CreateSubscribe, Commit, Rollback, UpdateSave, UpdateResubscribe,
                        DeleteRow, DeleteUnsubscribe, Written
  <2>2. PICK m : request' = [request EXCEPT ![r] = m] /\ (m.step = "idle" \/ m.id = q.id)
    <3>1. \A step : [q EXCEPT !.step = step].id = q.id
      BY <1>2 DEF Active
    <3>2. Idle.step = "idle"
      BY DEF Idle
    <3>3. request' = [request EXCEPT ![r] = Idle] \/ \E step : request' = [request EXCEPT ![r] = [q EXCEPT !.step = step]]
      BY DEF Serve, CreateSubscribe, Commit, Rollback, UpdateSave, UpdateResubscribe, DeleteRow,
             DeleteUnsubscribe, Served
    <3> QED
      BY <3>1, <3>2, <3>3
  <2>3. /\ \A s \in Requests : Works(s, i) => request'[s] = request[s] /\ request[s].row \in Row
        /\ \A s \in Requests : request'[s].step # "idle" /\ request'[s].id = i => Works(s, i)
    BY <1>6, <2>2, Pieces DEF Works
  <2>4. ASSUME NEW x \in Row \cup {None}, Registered(eventHandler[v], i, x)
        PROVE  Registered(eventHandler'[v], i, x)
    <3> DEFINE h == eventHandler[q.process]
               u == Unsubscribed(h, q.row.event, q.id)
    <3>1. CASE eventHandler'[v] = eventHandler[v]
      BY <2>4, <3>1
    <3>2. CASE eventHandler'[v] # eventHandler[v]
      <4>1. /\ v = q.process
            /\ eventHandler'[v] \in {Subscribed(h, q.id, q.row), u, Subscribed(u, q.id, q.row)}
        BY <3>2, Pieces DEF Serve, CreateSubscribe, Commit, Rollback, UpdateSave, UpdateResubscribe,
                            DeleteRow, DeleteUnsubscribe
      <4>2. h \in HandlerType /\ Mapped(h) /\ u \in HandlerType /\ Mapped(u)
        BY <1>2, Pieces, UnsubscribedOK
      <4>3. Registered(h, i, x)
        BY <2>4, <4>1
      <4>4. Registered(Subscribed(h, q.id, q.row), i, x) /\ Registered(u, i, x)
        BY <1>2, <1>6, <4>2, <4>3, OthersStayRegistered
      <4> HIDE DEF h, u
      <4>5. Registered(Subscribed(u, q.id, q.row), i, x)
        BY <1>2, <1>6, <4>2, <4>4, OthersStayRegistered
      <4> QED
        BY <4>1, <4>4, <4>5
    <3> QED
      BY <3>1, <3>2
  <2>5. <<v, i>> \notin disturbed' => <<v, i>> \notin disturbed
    BY <1>4
  <2> QED
    BY <1>3, <1>5, <2>1, <2>3, <2>4, <2>5, Elsewhere
<1>7. CASE i = q.id /\ (<<v, i>> \in disturbed' \/ (v \notin up /\ ~Booting(v)))
  BY <1>3, <1>7, Nowhere DEF Booting
<1>8. CASE i = q.id /\ <<v, i>> \notin disturbed' /\ (v \in up \/ Booting(v))
  <2>1. Works(r, i) /\ Busy(i) /\ <<v, i>> \notin disturbed /\ ~Rollback(r)
    BY <1>1, <1>2, <1>4, <1>8 DEF Works, Busy, Rollback
  <2>2. v \in up
    BY <1>5, <1>8, <2>1 DEF Sound, BootSound
  <2>3. q.process = v
    BY <1>5, <2>1, <2>2 DEF Sound, UpSound
  <2> QED
    BY <2>1, <2>2, <2>3, ServeHere
<1> QED
  BY <1>6, <1>7, <1>8

\* A process stops: what it worked on is disturbed everywhere. One that reads
\* the table answers for the webhooks nobody works on; it is up when it has
\* subscribed them.
LEMMA ProcessQuiet ==
    ASSUME QuietInv, NEW p \in Processes, Stop(p) \/ FindAll(p) \/ Boot(p)
    PROVE  \A v \in Processes, i \in Ids : Sound(v, i)'
<1> SUFFICES ASSUME NEW v \in Processes, NEW i \in Ids PROVE Sound(v, i)'
  OBVIOUS
<1>1. Sound(v, i) /\ rows[i] \in Row \cup {None} /\ UNCHANGED rows
      /\ \A s \in Requests : Works(s, i) => request[s].row \in Row
  BY Pieces DEF QuietInv, Stop, FindAll, Boot, Works
<1>2. booting \in [Processes -> [Ids -> Row \cup {None}] \cup {None}]
  BY DEF QuietInv, Inv, TypeOK
<1>3. CASE Stop(p)
  <2>1. CASE v = p
    <3>1. v \notin up' /\ ~Booting(v)'
      BY <1>2, <1>3, <2>1 DEF Stop, Booting
    <3> QED
      BY <3>1, Nowhere
  <2>2. CASE v # p /\ \E s \in Requests : Works(s, i) /\ request[s].process = p
    <3>1. <<v, i>> \in disturbed'
      BY <1>3, <2>2 DEF Stop, Works
    <3> QED
      BY <3>1, Nowhere
  <2>3. CASE v # p /\ ~\E s \in Requests : Works(s, i) /\ request[s].process = p
    <3>1. /\ eventHandler'[v] = eventHandler[v] /\ booting'[v] = booting[v] /\ (v \in up' <=> v \in up)
          /\ disturbed \subseteq disturbed'
      BY <1>3, <2>3, Pieces DEF Stop
    <3>2. /\ \A s \in Requests : Works(s, i) => request'[s] = request[s]
          /\ \A s \in Requests : request'[s].step # "idle" /\ request'[s].id = i => Works(s, i)
      BY <1>3, <2>3 DEF Stop, Works, Idle
    <3> QED
      BY <1>1, <3>1, <3>2, Elsewhere
  <2> QED
    BY <2>1, <2>2, <2>3
<1>4. CASE FindAll(p)
  <2>1. /\ UNCHANGED <<up, eventHandler, request>> /\ p \notin up
        /\ booting' = [booting EXCEPT ![p] = rows]
        /\ disturbed' = (disturbed \ ({p} \X Ids)) \cup ({p} \X {id \in Ids : Busy(id)})
    BY <1>4 DEF FindAll
  <2>2. CASE v = p
    <3>1. <<p, i>> \notin disturbed' => ~Busy(i)
      BY <2>1
    <3>2. Busy(i)' = Busy(i)
      BY <2>1 DEF Busy
    <3> QED
      BY <1>1, <1>2, <2>1, <2>2, <3>1, <3>2 DEF Sound, BootSound
  <2>3. CASE v # p
    <3>1. booting'[v] = booting[v] /\ (<<v, i>> \notin disturbed' => <<v, i>> \notin disturbed)
      BY <1>2, <2>1, <2>3
    <3> QED
      BY <1>1, <2>1, <3>1, Elsewhere DEF Works
  <2> QED
    BY <2>2, <2>3
<1>5. CASE Boot(p)
  <2>1. /\ UNCHANGED <<request, disturbed>> /\ Booting(p)
        /\ booting' = [booting EXCEPT ![p] = None] /\ up' = up \cup {p}
    BY <1>5 DEF Boot
  <2>2. CASE v = p
    <3> DEFINE found == booting[p]
    <3>1. found \in [Ids -> Row \cup {None}]
      BY <1>2, <2>1 DEF Booting
    <3>2. Registered(eventHandler'[p], i, found[i])
      <4> DEFINE there == {id \in Ids : found[id] # None}
      <4>1. eventHandler'[p] =
              [emitter |-> [e \in Events |-> [l \in Listener |->
                 IF l.id \in there /\ l.row = found[l.id] /\ l.row.event = e THEN 1 ELSE 0]],
               handlers |-> [k \in Events \X Ids |->
                 IF k[2] \in there /\ found[k[2]].event = k[1]
                 THEN [id |-> k[2], row |-> found[k[2]]] ELSE None]]
        BY <1>5, Pieces DEF Boot
      <4> HIDE DEF found
      <4>2. \A row \in Row : [id |-> i, row |-> row] \in Listener /\ row # None
        BY NoneIsNothing DEF Listener
      <4>3. ASSUME NEW e \in Events, NEW row \in Row
            PROVE  eventHandler'[p].emitter[e][[id |-> i, row |-> row]]
                      = IF found[i] = row /\ row.event = e THEN 1 ELSE 0
        BY <4>1, <4>2
      <4>4. ASSUME NEW e \in Events
            PROVE  eventHandler'[p].handlers[<<e, i>>]
                      = IF found[i] # None /\ found[i].event = e THEN [id |-> i, row |-> found[i]] ELSE None
        BY <4>1
      <4> QED
        BY <4>3, <4>4 DEF Registered
    <3>3. ~Booting(p)'
      BY <1>2, <2>1 DEF Booting
    <3>4. ASSUME <<p, i>> \notin disturbed PROVE UpSound(p, i)'
      <4>1. ~Busy(i) /\ found[i] = rows[i]
        BY <1>1, <2>1, <2>2, <3>4 DEF Sound, BootSound
      <4>2. \A s \in Requests : ~Works(s, i)'
        BY <2>1, <4>1 DEF Busy, Works
      <4> QED
        BY <1>1, <3>2, <4>1, <4>2 DEF UpSound
    <3> QED
      BY <2>1, <2>2, <3>3, <3>4 DEF Sound, BootSound
  <2>3. CASE v # p
    <3>1. booting'[v] = booting[v] /\ eventHandler'[v] = eventHandler[v] /\ (v \in up' <=> v \in up)
      BY <1>2, <1>5, <2>1, <2>3, Pieces DEF Boot
    <3> QED
      BY <1>1, <2>1, <3>1, Elsewhere DEF Works
  <2> QED
    BY <2>2, <2>3
<1> QED
  BY <1>3, <1>4, <1>5

-----------------------------------------------------------------------------
LEMMA GivenStep == QuietInv /\ [Next]_vars => Given'
<1> SUFFICES ASSUME QuietInv, [Next]_vars PROVE Given'
  OBVIOUS
<1> USE Pieces DEF QuietInv, Given, Booting
<1>1. CASE UNCHANGED vars
  BY <1>1 DEF vars
<1>2. ASSUME NEW r \in Requests, NEW p \in Processes, NEW id \in Ids,
             NEW row \in Row, NEW tx \in BOOLEAN, Create(r, p, id, row, tx)
      PROVE  Given'
  BY <1>2 DEF Create, Begin
<1>3. ASSUME NEW r \in Requests, NEW p \in Processes, NEW id \in Ids,
             NEW input \in Input, NEW channel \in Channels, NEW tx \in BOOLEAN,
             Update(r, p, id, input, channel, tx)
      PROVE  Given'
  BY <1>3 DEF Update, Begin
<1>4. ASSUME NEW r \in Requests, NEW p \in Processes, NEW id \in Ids, NEW tx \in BOOLEAN,
             Delete(r, p, id, tx)
      PROVE  Given'
  BY <1>4 DEF Delete, Begin
<1>5. ASSUME NEW r \in Requests, Serve(r) PROVE Given'
  <2>1. request[r].step # "idle" /\ UNCHANGED <<created, up, booting>>
    BY <1>5 DEF Serve, CreateSubscribe, Commit, Rollback, UpdateSave, UpdateResubscribe, DeleteRow,
                DeleteUnsubscribe
  <2>2. request[r].id \in created /\ request[r] \in Active
    BY <2>1, UnderWay DEF Inv
  <2>3. \A id \in Ids : id # request[r].id => rows'[id] = rows[id]
    BY <1>5 DEF Serve, CreateSubscribe, Commit, Rollback, UpdateSave, UpdateResubscribe, DeleteRow,
                DeleteUnsubscribe, Written
  <2>4. ASSUME NEW s \in Requests, request'[s].step # "idle" PROVE request'[s].id \in created
    <3>1. \A step : [request[r] EXCEPT !.step = step].id = request[r].id
      BY <2>2 DEF Active
    <3>2. \/ request' = [request EXCEPT ![r] = Idle]
          \/ \E step : request' = [request EXCEPT ![r] = [request[r] EXCEPT !.step = step]]
      BY <1>5 DEF Serve, CreateSubscribe, Commit, Rollback, UpdateSave, UpdateResubscribe, DeleteRow,
                  DeleteUnsubscribe, Served
    <3>3. DOMAIN request = Requests /\ Idle.step = "idle"
      BY DEF Inv, TypeOK, Idle
    <3>4. CASE s = r
      <4>1. request'[r].step # "idle"
        BY <2>4, <3>4
      <4>2. \E step : request'[r] = [request[r] EXCEPT !.step = step]
        <5>1. CASE request' = [request EXCEPT ![r] = Idle]
          BY <3>3, <4>1, <5>1
        <5>2. CASE \E step : request' = [request EXCEPT ![r] = [request[r] EXCEPT !.step = step]]
          BY <3>3, <5>2
        <5> QED
          BY <3>2, <5>1, <5>2
      <4>3. request'[r].id = request[r].id
        BY <3>1, <4>2
      <4> QED
        BY <2>2, <3>4, <4>3
    <3>5. CASE s # r
      <4>1. request'[s] = request[s]
        BY <3>2, <3>3, <3>5
      <4> QED
        BY <2>4, <4>1
    <3> QED
      BY <3>4, <3>5
  <2> QED
    BY <2>1, <2>2, <2>3, <2>4
<1>6. ASSUME NEW p \in Processes, Stop(p) PROVE Given'
  BY <1>6 DEF Stop, Idle, Inv, TypeOK
<1>7. ASSUME NEW p \in Processes, FindAll(p) PROVE Given'
  BY <1>7 DEF FindAll, Inv, TypeOK
<1>8. ASSUME NEW p \in Processes, Boot(p) PROVE Given'
  BY <1>8 DEF Boot, Inv, TypeOK
<1> QED
  BY <1>1, <1>2, <1>3, <1>4, <1>5, <1>6, <1>7, <1>8 DEF Next

LEMMA SoundStep == QuietInv /\ [Next]_vars => \A v \in Processes, i \in Ids : Sound(v, i)'
<1> SUFFICES ASSUME QuietInv, [Next]_vars PROVE \A v \in Processes, i \in Ids : Sound(v, i)'
  OBVIOUS
<1>1. CASE UNCHANGED vars
  <2> SUFFICES ASSUME NEW v \in Processes, NEW i \in Ids PROVE Sound(v, i)'
    OBVIOUS
  <2>1. UNCHANGED <<rows, up, booting, eventHandler, request, disturbed>>
    BY <1>1 DEF vars
  <2>2. /\ Sound(v, i) /\ rows[i] \in Row \cup {None}
        /\ \A s \in Requests : Works(s, i) => request[s].row \in Row
    BY Pieces DEF QuietInv, Works
  <2> QED
    BY <2>1, <2>2, Elsewhere DEF Works
<1>2. ASSUME NEW r \in Requests, NEW p \in Processes, NEW id \in Ids, NEW tx \in BOOLEAN,
             \/ \E row \in Row : Create(r, p, id, row, tx)
             \/ \E input \in Input, channel \in Channels : Update(r, p, id, input, channel, tx)
             \/ Delete(r, p, id, tx)
      PROVE  \A v \in Processes, i \in Ids : Sound(v, i)'
  BY <1>2, CreateQuiet, UpdateQuiet, DeleteQuiet
<1> QED
  BY <1>1, <1>2, ServeQuiet, ProcessQuiet DEF Next

LEMMA QuietInit == Init => QuietInv
<1> SUFFICES ASSUME Init PROVE QuietInv
  OBVIOUS
<1>1. Given
  BY DEF Init, Given, Idle, Booting
<1>2. ASSUME NEW p \in Processes, NEW id \in Ids PROVE Sound(p, id)
  <2>1. /\ eventHandler[p] = NoListeners /\ rows[id] = None /\ ~Booting(p)
        /\ \A r \in Requests : ~Works(r, id)
    BY DEF Init, Works, Idle, Booting
  <2> QED
    BY <2>1, NothingRegistered DEF Sound, BootSound, UpSound
<1> QED
  BY <1>1, <1>2, InitInv DEF QuietInv

LEMMA InvStep == Inv /\ [Next]_vars => Inv'
<1> SUFFICES ASSUME Inv, [Next]_vars PROVE Inv'
  OBVIOUS
<1>1. CASE UNCHANGED vars
  <2>1. UNCHANGED <<rows, created, up, booting, eventHandler, request, made, disturbed>>
    BY <1>1 DEF vars
  <2>2. TypeOK'
    BY <2>1 DEF Inv, TypeOK
  <2> QED
    BY <2>1, <2>2, HandlersStay DEF Inv
<1>2. ASSUME NEW r \in Requests, NEW p \in Processes, NEW id \in Ids, NEW tx \in BOOLEAN,
             \/ \E row \in Row : Create(r, p, id, row, tx)
             \/ \E input \in Input, channel \in Channels : Update(r, p, id, input, channel, tx)
             \/ Delete(r, p, id, tx)
      PROVE  Inv'
  BY <1>2, CreateInv, UpdateInv, DeleteInv
<1> QED
  BY <1>1, <1>2, ServeInv, ProcessInv DEF Next

\* A webhook nobody works on, that no two requests or processes handled, none
\* of whose mutations was rolled back and whose event no update named, is
\* called exactly as its row says, in every process: by create, update and
\* delete, in a transaction or not, and the start of a process.
THEOREM QuietWebhooksRegistered == Spec => []QuietWebhooksAreRegistered
<1>1. QuietInv => QuietWebhooksAreRegistered
  <2> SUFFICES ASSUME QuietInv, NEW p \in up, NEW id \in Ids, <<p, id>> \notin disturbed, ~Busy(id),
                      NEW e \in Events, NEW row \in Row
               PROVE  eventHandler[p].emitter[e][[id |-> id, row |-> row]] =
                          IF rows[id] = row /\ row.event = e THEN 1 ELSE 0
    BY DEF QuietWebhooksAreRegistered
  <2>1. p \in Processes
    BY DEF QuietInv, Inv, TypeOK
  <2>2. Registered(eventHandler[p], id, rows[id])
    BY <2>1 DEF QuietInv, Sound, UpSound
  <2> QED
    BY <2>2 DEF Registered
<1>2. QuietInv /\ [Next]_vars => QuietInv'
  BY GivenStep, SoundStep, InvStep DEF QuietInv
<1> QED
  BY <1>1, <1>2, QuietInit, PTL DEF Spec
=============================================================================
