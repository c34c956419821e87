------------------------------ MODULE Webhooks ------------------------------
(***************************************************************************)
(* The webhook plugin: rows of the Webhook table, and in every server      *)
(* process the listeners that WebhookEventHandler puts on the event        *)
(* emitter.  A listener closes over the entity it was subscribed with, so  *)
(* the table and the listeners are two copies of the same facts, kept in   *)
(* step by WebhookService.create, update and delete and by the             *)
(* application's start.                                                    *)
(*                                                                         *)
(* Every await is a step of its own.  What follows an await up to the next *)
(* one (unsubscribe and subscribe, for instance) is one step.              *)
(***************************************************************************)
EXTENDS Integers, FiniteSets

CONSTANTS
    Ids,            \* ids a webhook can get
    Events,         \* names of events
    Channels,       \* channels of the shop
    Urls,           \* everything else a webhook is configured with
    ClientTypes,    \* "rest" and others
    Processes,      \* server processes
    Requests,       \* concurrent requests
    Absent,         \* an input field that was not given: undefined
    None,           \* no row, no listener
    MaxRequests     \* bound: requests made

ASSUME WebhookAssumption ==
    /\ Absent \notin Events \cup Urls
    /\ MaxRequests \in Nat

Row == [event : Events, channel : Channels, url : Urls, client : ClientTypes]

\* What a listener closes over: the entity it was subscribed with.
Listener == [id : Ids, row : Row]

ASSUME NoneAssumption == None \notin Row \cup Listener

Input == [event : Events \cup {Absent}, url : Urls \cup {Absent}]

VARIABLES
    rows,           \* the Webhook table
    created,        \* ids given out so far: the database does not reuse one
    up,             \* processes that have started
    booting,        \* what findAll returned to a process that is starting
    eventHandler,   \* the WebhookEventHandler of each process
    request,        \* the local state of every request; tx: in a transaction
    made,           \* requests made so far
    disturbed       \* history: <<process, id>> whose listener may be out of step

vars == <<rows, created, up, booting, eventHandler, request, made, disturbed>>

Steps == {"idle", "subscribe", "save", "resubscribe", "delete", "unsubscribe", "commit", "commit delete"}

Idle == [step |-> "idle", process |-> None, id |-> None, row |-> None, named |-> FALSE, tx |-> FALSE]

\* A WebhookEventHandler: how often each listener is on the EventEmitter2 for
\* an event, and the eventHandlers map from event and id to listener.
NoListeners == [emitter |-> [e \in Events |-> [l \in Listener |-> 0]],
                handlers |-> [k \in Events \X Ids |-> None]]

Init ==
    /\ rows = [id \in Ids |-> None]
    /\ created = {}
    /\ up = Processes
    /\ booting = [p \in Processes |-> None]
    /\ eventHandler = [p \in Processes |-> NoListeners]
    /\ request = [r \in Requests |-> Idle]
    /\ made = 0
    /\ disturbed = {}

-----------------------------------------------------------------------------
(* WebhookEventHandler.                                                     *)

\* subscribeWebhookEvent: on the emitter and in the map.
Subscribed(h, id, row) ==
    LET l == [id |-> id, row |-> row] IN
    [emitter |-> [h.emitter EXCEPT ![row.event][l] = @ + 1],
     handlers |-> [h.handlers EXCEPT ![<<row.event, id>>] = l]]

\* A slip of Unsubscribed: the listener is taken off and the map keeps it.
UnsubscribedButMapped(h, event, id) ==
    LET l == h.handlers[<<event, id>>] IN
    IF l = None THEN h ELSE [h EXCEPT !.emitter[event][l] = @ - 1]

\* unsubscribeWebhookEvent: nothing happens when the map has no such handler.
Unsubscribed(h, event, id) ==
    LET l == h.handlers[<<event, id>>] IN
    IF l = None THEN h
    ELSE [emitter |-> [h.emitter EXCEPT ![event][l] = @ - 1],
          handlers |-> [h.handlers EXCEPT ![<<event, id>>] = None]]

\* proceedWebhook: the webhooks called over HTTP when the event occurs in a
\* channel.
Called(p, event, channel) ==
    {l \in Listener : /\ eventHandler[p].emitter[event][l] > 0
                      /\ l.row.channel = channel
                      /\ l.row.client = "rest"}

-----------------------------------------------------------------------------
(* What disturbs a webhook: somebody else works on it at the same time, in  *)
(* another process, an update names its event, or a request on it is rolled *)
(* back or cut off.                                                         *)

Busy(id) == \E r \in Requests : request[r].step # "idle" /\ request[r].id = id

Booting(p) == booting[p] # None

Touch(p, id, named) ==
    disturbed' = disturbed \cup
        {<<q, id>> : q \in {q \in Processes : named \/ Busy(id) \/ q # p}}

Begin(r, p, id, state) ==
    /\ request[r].step = "idle"
    /\ p \in up
    /\ made < MaxRequests
    /\ made' = made + 1
    /\ request' = [request EXCEPT ![r] = state]
    /\ UNCHANGED <<up, booting, eventHandler>>

-----------------------------------------------------------------------------
(* WebhookService. The mutations run in a transaction, so that what they     *)
(* write is in the table when they commit, after the listeners have         *)
(* changed; the REST controller has none, and each statement commits alone. *)

Written(q, row) == IF q.tx THEN rows ELSE [rows EXCEPT ![q.id] = row]

\* What is left to do when the service has returned.
Served(q, commit) == IF q.tx THEN [q EXCEPT !.step = commit] ELSE Idle

\* create: the row is saved.
Create(r, p, id, row, tx) ==
    /\ id \notin created
    /\ created' = created \cup {id}
    /\ Begin(r, p, id, [step |-> "subscribe", process |-> p, id |-> id, row |-> row,
                        named |-> FALSE, tx |-> tx])
    /\ rows' = IF tx THEN rows ELSE [rows EXCEPT ![id] = row]
    /\ Touch(p, id, FALSE)

CreateSubscribe(r) ==
    LET q == request[r] IN
    /\ q.step = "subscribe"
    /\ eventHandler' = [eventHandler EXCEPT ![q.process] = Subscribed(@, q.id, q.row)]
    /\ request' = [request EXCEPT ![r] = Served(q, "commit")]
    /\ UNCHANGED <<rows, created, up, booting, made, disturbed>>

\* A slip of Preloaded: a field that was not given overwrites the row's.
PreloadedVerbatim(row, input, channel) ==
    [row EXCEPT !.event = input.event, !.url = input.url, !.channel = channel]

\* The row with the given fields of the input in the place of its own.
Preloaded(row, input, channel) ==
    [row EXCEPT !.event = IF input.event = Absent THEN @ ELSE input.event,
                !.url = IF input.url = Absent THEN @ ELSE input.url,
                !.channel = channel]

\* update: preload merges the input into the row, and the current channel.
Update(r, p, id, input, channel, tx) ==
    /\ rows[id] # None
    /\ Begin(r, p, id, [step |-> "save", process |-> p, id |-> id, tx |-> tx,
                        row |-> Preloaded(rows[id], input, channel),
                        named |-> input.event # Absent])
    /\ Touch(p, id, input.event # Absent)
    /\ UNCHANGED <<rows, created>>

\* save inserts the row again when it was deleted meanwhile.
UpdateSave(r) ==
    /\ request[r].step = "save"
    /\ rows' = Written(request[r], request[r].row)
    /\ request' = [request EXCEPT ![r].step = "resubscribe"]
    /\ UNCHANGED <<created, up, booting, eventHandler, made, disturbed>>

\* A slip of MustResubscribe: only an input with an event is looked at.
ResubscribeWhenNamed(q) == q.named

\* existingEntity holds the merged input already: its event differs from that
\* of the input only when the input has none.
MustResubscribe(q) == ~q.named

UpdateResubscribe(r) ==
    LET q == request[r] IN
    /\ q.step = "resubscribe"
    /\ eventHandler' = [eventHandler EXCEPT ![q.process] =
          IF MustResubscribe(q)
          THEN Subscribed(Unsubscribed(@, q.row.event, q.id), q.id, q.row) ELSE @]
    /\ request' = [request EXCEPT ![r] = Served(q, "commit")]
    /\ UNCHANGED <<rows, created, up, booting, made, disturbed>>

\* delete: the row is read, deleted, and its event unsubscribed from.
Delete(r, p, id, tx) ==
    /\ rows[id] # None
    /\ Begin(r, p, id, [step |-> "delete", process |-> p, id |-> id, row |-> rows[id],
                        named |-> FALSE, tx |-> tx])
    /\ Touch(p, id, FALSE)
    /\ UNCHANGED <<rows, created>>

DeleteRow(r) ==
    /\ request[r].step = "delete"
    /\ rows' = Written(request[r], None)
    /\ request' = [request EXCEPT ![r].step = "unsubscribe"]
    /\ UNCHANGED <<created, up, booting, eventHandler, made, disturbed>>

DeleteUnsubscribe(r) ==
    LET q == request[r] IN
    /\ q.step = "unsubscribe"
    /\ eventHandler' = [eventHandler EXCEPT ![q.process] = Unsubscribed(@, q.row.event, q.id)]
    /\ request' = [request EXCEPT ![r] = Served(q, "commit delete")]
    /\ UNCHANGED <<rows, created, up, booting, made, disturbed>>

\* The transaction of a mutation commits.
Commit(r) ==
    LET q == request[r] IN
    /\ q.step \in {"commit", "commit delete"}
    /\ rows' = [rows EXCEPT ![q.id] = IF q.step = "commit" THEN q.row ELSE None]
    /\ request' = [request EXCEPT ![r] = Idle]
    /\ UNCHANGED <<created, up, booting, eventHandler, made, disturbed>>

\* It fails: the row is what it was, and nothing changes the listeners back.
Rollback(r) ==
    /\ request[r].step \in {"commit", "commit delete"}
    /\ request' = [request EXCEPT ![r] = Idle]
    /\ disturbed' = disturbed \cup (Processes \X {request[r].id})
    /\ UNCHANGED <<rows, created, up, booting, eventHandler, made>>

-----------------------------------------------------------------------------
(* The life of a process.                                                   *)

\* The process stops; its listeners and its requests are gone.
Stop(p) ==
    /\ p \in up \/ Booting(p)
    /\ up' = up \ {p}
    /\ booting' = [booting EXCEPT ![p] = None]
    /\ eventHandler' = [eventHandler EXCEPT ![p] = NoListeners]
    /\ request' = [r \in Requests |-> IF request[r].process = p THEN Idle ELSE request[r]]
    /\ disturbed' = disturbed \cup
          {<<q, request[r].id>> : q \in Processes,
                                  r \in {r \in Requests : /\ request[r].step # "idle"
                                                           /\ request[r].process = p}}
    /\ UNCHANGED <<rows, created, made>>

\* onApplicationBootstrap: findAll.
FindAll(p) ==
    /\ p \notin up
    /\ ~Booting(p)
    /\ booting' = [booting EXCEPT ![p] = rows]
    /\ disturbed' = (disturbed \ ({p} \X Ids)) \cup ({p} \X {id \in Ids : Busy(id)})
    /\ UNCHANGED <<rows, created, up, eventHandler, request, made>>

\* Every row found is subscribed, and the server starts to listen.
Boot(p) ==
    LET found == {id \in Ids : booting[p][id] # None} IN
    /\ Booting(p)
    /\ eventHandler' = [eventHandler EXCEPT ![p] =
          [emitter |-> [e \in Events |-> [l \in Listener |->
               IF l.id \in found /\ l.row = booting[p][l.id] /\ l.row.event = e THEN 1 ELSE 0]],
           handlers |-> [k \in Events \X Ids |->
               IF k[2] \in found /\ booting[p][k[2]].event = k[1]
               THEN [id |-> k[2], row |-> booting[p][k[2]]] ELSE None]]]
    /\ booting' = [booting EXCEPT ![p] = None]
    /\ up' = up \cup {p}
    /\ UNCHANGED <<rows, created, request, made, disturbed>>

-----------------------------------------------------------------------------
Serve(r) ==
    \/ CreateSubscribe(r)
    \/ UpdateSave(r) \/ UpdateResubscribe(r)
    \/ DeleteRow(r) \/ DeleteUnsubscribe(r)
    \/ Commit(r) \/ Rollback(r)

Next ==
    \/ \E r \in Requests, p \in Processes, id \in Ids, tx \in BOOLEAN :
          \/ \E row \in Row : Create(r, p, id, row, tx)
          \/ \E input \in Input, channel \in Channels : Update(r, p, id, input, channel, tx)
          \/ Delete(r, p, id, tx)
    \/ \E r \in Requests : Serve(r)
    \/ \E p \in Processes : Stop(p) \/ FindAll(p) \/ Boot(p)

Spec == Init /\ [][Next]_vars
-----------------------------------------------------------------------------
(* Properties.                                                              *)

\* The table, the listeners and the requests keep their types.
TypeOK ==
    /\ rows \in [Ids -> Row \cup {None}]
    /\ created \in SUBSET Ids
    /\ up \in SUBSET Processes
    /\ booting \in [Processes -> [Ids -> Row \cup {None}] \cup {None}]
    /\ eventHandler \in [Processes -> [emitter : [Events -> [Listener -> Nat]],
                                       handlers : [Events \X Ids -> Listener \cup {None}]]]
    /\ request \in [Requests -> {Idle} \cup
                       [step : Steps \ {"idle"}, process : Processes, id : Ids, row : Row,
                        named : BOOLEAN, tx : BOOLEAN]]
    /\ made \in 0 .. MaxRequests
    /\ disturbed \in SUBSET (Processes \X Ids)

\* A handler in the map is on the emitter, for the event and the webhook it is
\* kept under: unsubscribing takes a listener off whenever it says so. (The
\* converse fails: create and an update of the new row can both subscribe it.)
MappedIsListening ==
    \A p \in Processes, e \in Events, id \in Ids :
        LET l == eventHandler[p].handlers[<<e, id>>] IN
        l # None => l.id = id /\ l.row.event = e /\ eventHandler[p].emitter[e][l] > 0

\* A webhook that nobody works on, none of whose updates named the event,
\* none of whose mutations was rolled back, and which no two requests or two
\* processes handled, is called exactly as its row says: on its event, once,
\* with its url and channel; and a deleted one is not called at all.
QuietWebhooksAreRegistered ==
    \A p \in up, id \in Ids :
        (<<p, id>> \notin disturbed /\ ~Busy(id)) =>
            \A e \in Events, row \in Row :
                eventHandler[p].emitter[e][[id |-> id, row |-> row]] =
                    IF rows[id] = row /\ row.event = e THEN 1 ELSE 0

\* The plugin's README: "Each registered webhook is triggered automatically
\* when an associated event occurs."
RegisteredIsTriggered ==
    \A p \in up, id \in Ids :
        (rows[id] # None /\ ~Busy(id) /\ rows[id].client = "rest") =>
            \E l \in Called(p, rows[id].event, rows[id].channel) : l.id = id
=============================================================================
