# Formal model of the shoply plugins

This directory specifies, in TLA+, the stateful parts of the plugins in this
repository. `src/plugins/` holds the plugins; the server they plug into
(`@shoplyjs/core`), the databases and the services they talk to (Redis and
BullMQ, Mollie, Stripe, Elasticsearch, ...) are outside the repository and are
modelled only by what the plugins rely on.

    tlc -workers 2 -config MollieOneOrder.cfg MCMolliePayments   # model-check
    tlapm MolliePaymentsProofs.tla                               # check proofs

`PROJECT.json` lists the runs, the mutants, the theorems, and for every
definition the lines of source it stands for.

## 1. Inventory

| Component (under `src/plugins/`) | State it keeps | Operations | Talks to | What makes it hard | What makes it correct |
|---|---|---|---|---|---|
| Mollie (`payments-plugin/src/mollie`) | order state, total, payments, custom field `mollieOrderId`; the orders at Mollie | webhook, `createMolliePaymentIntent`, `settlePayment`, `createRefund` | OrderService, Mollie API | every `await` lets another request in; lost, repeated and reordered notifications; an update nobody awaits; a second Mollie order | money recorded is money held; an order is paid for once; what is paid ends up recorded |
| Stripe (`.../stripe`) | order, payment intents, the customer's id | webhook, `createStripePaymentIntent`, `settle`, `refund` | OrderService, Stripe API | refused transitions and payments answered with 200, redelivered and overlapping webhooks in transactions of their own, two intents creating two customers, amounts of currencies without decimals | as Mollie |
| Braintree (`.../braintree`) | the customer's id, the vault | `createPayment`, `createRefund`, `generateClientToken` | Braintree API | money is taken inside a transaction that can still be undone; a failed sale that nobody awaits | what is taken is recorded; nobody pays twice |
| Webhook plugin | `Webhook` table; in every process an event emitter and a map of handlers | create, update, delete, bootstrap, event → HTTP call | TypeORM, EventBus | table and listeners are two copies; several processes; transactions that commit, or do not, after the listeners have changed | a registered webhook is called as its row says, a deleted one is not |
| BullMQ job queue | a BullMQ queue, a set of cancelled jobs and a channel in Redis; a worker in every process | add, start, stop, workerProcessor, cancelJob, findOne/findMany, removeSettledJobs | BullMQ | crashes, stalled jobs, retries, cancellation in three places, questions to Redis one after the other | completed only when done; retries used; a cancellation reaches its job and no other |
| Redis job buffer | a list per buffer | add, flush, bufferSize | Redis | reading and deleting in two calls | nothing added is lost |
| Pub/Sub job queue | topics, subscriptions, listeners | add, start, stop, destroy | Google Pub/Sub | redelivery without end; destroy and start again | as BullMQ |
| Elasticsearch indexing | indices and aliases; a queue in memory; a buffer of events | update/delete product, variants, asset, channel, tax; reindex | job queue, EventBus, database, Elasticsearch | only some operations are serialised; a reindex switches the alias; bulk errors are swallowed | the index ends up equal to the database |
| Elasticsearch search | - | search, collections, facet values; start-up of the indices | Elasticsearch | an answer is put together from several requests, each with limits of its own | its numbers agree with each other |
| Email | data and details of a mail, a transport per channel of the sender | event → job → generate → send → publish | EventBus, job queue, transport | retry after a mail was sent; an event between subscription and queue; shared objects | a mail for every event that passes its filters, once; its outcome is announced |
| Asset server | files on disk or S3; cache of transformed images | preview, get, transform, delete | file system, sharp | a file that is there before it is written, two transforms of one image, two images with one name in the cache, rejections nobody catches | what is served is the image asked for; a request is answered |
| Stellate | a buffer of events for every purge rule | event → buffer → purge | EventBus, Stellate API | an answer computed before and stored after its purge, or from an index that lags; loss at shutdown | what changed is purged |
| Metrics | a cache | metricSummary | database | ticks at the turn of a year, an answer kept for a day, orders placed while they are read page by page | an order counts once, in its day |
| Harden | - | complexity of a query, hiding suggestions | Apollo | logarithm of list sizes | a larger query is not cheaper |
| Sentry, CLI, project creation, dashboard, testing | none to speak of | - | - | - | - |

The core of the system, where state lives in two places and several actors
change it, is the payments, the job queue, the webhooks and the search index:
these come first.

## 2. Plan

Done: `MolliePayments`, `Webhooks`, `JobQueue` with `BullMQJobQueue` and
`PubSubJobQueue`, `RedisJobBuffer`, `ElasticsearchIndexing` and
`ElasticsearchSearch`, `StripePayments`, `BraintreePayments`, `EmailJobs`,
`AssetServer`, `StellatePurging` and `Metrics`, and `Plugins`, which composes
the last nine (all but Mollie, webhooks, BullMQ and the index); proofs about
every module.

Left, in this order:

1. Refunds of the three payment services; `destroy` and `findMany` of BullMQ;
   the asset jobs and the debounced events of `ElasticsearchIndexing`.
2. Mollie's lines and amounts and the sorting of a search, each against a
   reference definition over small inputs.

Composition: `JobQueue` is what the rest of the shop relies on, and both
strategies are proved to implement it. `EmailJobs` and `ElasticsearchIndexing`
use no more of their queue than `JobQueue` promises: a job is run at least
once, and may be run again after a crash. `RedisJobBuffer` stands before such a
queue and hands it what a flush returns.

## 3. The modules

A step of a model is what the code does from one `await` to the next.
JavaScript runs nothing else in between, and what happens across an `await` is
exactly what a unit test does not reach.

### MolliePayments

One shop order, the Mollie orders created for it, and requests of three kinds:
webhooks (`mollie.controller.ts`, `mollie.service.ts`
`handleMollieStatusUpdate`), storefronts (`createPaymentIntent`) and
administrators (`settlePayment`). `actor[a]` is the local state of a request:
the step it takes next and the Mollie order, status, amount and payment it has
read. The context a webhook makes for itself has no transaction, so each of its
steps commits when it is taken.

| Code | Actions |
|---|---|
| `MollieController.webhook` | `Deliver`, `Answer`, `Throw` |
| `handleMollieStatusUpdate` | `GetMollieOrder`, `FindOrder` (`NextStep`) |
| `addPayment` | `TransitionToArranging`, `AddPayment` |
| `settleExistingPayment`, handler `settlePayment` | `Capture`, `Ship`, `Settle`, `AdminSettle` |
| `createPaymentIntent`, `updateMollieOrder` | `StartIntent`, `UpdateMollieOrder`, `CreateMollieOrder`, `SaveMollieRef` |
| outside | `MollieStatusChange`, `EditLines`, `Checkout`, `ModifyOrder`, `CancelOrder` |
| faults | `RequestFails`, `UpdateFails`, `SaveFails`, `RepeatNotification` |

Taken on trust of the outside: Mollie changes the lines of an order only while
it is `created`; it captures an order only once; the shop's
`addPaymentToOrder` and `settlePayment` are atomic and check the order's state.
Prices and lines are abstracted to one total.

### Webhooks

Rows of the `Webhook` table and, in every process, the listeners on the event
emitter and the map that finds them again. A listener closes over the entity
it was subscribed with, so it carries a copy of the row. `create`, `update` and
`delete` are each split at their awaits. The three mutations run in a
transaction (`webhook.resolver.ts`), and the REST controller calls the same
service without one: a request with `tx` leaves the table alone until `Commit`,
after it has changed the listeners, and `Rollback` leaves the table as it was
and the listeners changed. Every request is modelled both ways. The reuse of an
id by the database is left out. `disturbed` is a history variable: the process
and webhook for which table and listener may differ for a known reason (two
requests at a time, a request of another process, an update that names an
event, a request that was cut off, a transaction that was rolled back).

### JobQueue, BullMQJobQueue

`JobQueue` is the promise of any job queue strategy to the code that adds a
job. `BullMQJobQueue` is the strategy on top of BullMQ: `job` and `lock` are
BullMQ's records, `cancelledJobs` the Redis set, `worker[w].inbox` the messages
published and not yet heard by a process, `slot[w][s]` an attempt under way and
`request[r]` a request of the Admin API.

| Code | Actions |
|---|---|
| `init`, `start`, `stop` | `InitStrategy`, `Start`, `Subscribe`, `Stop`, `Closed` |
| `add` | `Add` |
| `workerProcessor` | `Take`, `CreateJob`, `BeginProcess`, `EndProcess`, `RemoveFromCancelled` |
| `subscribeToCancellationEvents` | `Deliver` |
| `cancelJob`, `setActiveJobAsCancelled` | `Ask`, `LookForActive`, `Publish`, `AddToCancelled`, `RemoveJob`, `Reply` |
| `getState` | `Check` (`AfterCheck`) |
| `removeSettledJobs` | `RemoveSettledJobs`, `Clean` |
| BullMQ (outside) | `Promote`, `Stalled`, `Settle`, `Crash` |

The refinement maps waiting, active and delayed jobs to `accepted`, and the
ways of disposal are `failed` and `removed`: BullMQ fails a job that is out of
attempts or stalled too often, and an administrator may remove a job that is
not locked. A job may be run twice at once (its lock ran out and it was taken
again); the promise is at least once.

### ElasticsearchIndexing

The Product and ProductVariant tables, the jobs of the queue
`update-search-index`, the indices with their aliases, and workers. A row of
the Product table is a version (everything an edit may change), its channels
and whether it is deleted; a document is the version of the product and of the
variants it was made from. An edit in a transaction of the core and the event
it publishes are one step, since jobs are only added for what was committed.
`worker[w]` is the local state of a job: its step, the products it has left and
the one it is at, the channel of its mutable context, what it has read and the
operations it has yet to send. Every read of the database and every request to
Elasticsearch is a step.

| Code | Actions |
|---|---|
| events in `plugin.ts`, `ElasticsearchIndexService` | `EditProduct`, `DeleteProduct`, `EditVariants`, `CreateOrDeleteVariant`, `ToggleProductChannel`, `ToggleVariantChannel`, `ReindexMutation` |
| job handlers of `ElasticsearchIndexerController` | `Take` |
| `deleteProductOperations` | `FindProduct`, `BulkSucceeds` |
| `updateProductsOperationsOnly` | `ReadProduct`, `VariantsAreRead`, `BulkSucceeds` |
| `reindex` | `IndicesAreCreated`, `ReadPage` |
| `switchAlias` | `LookupAlias`, `SwitchAlias`, `DropOldIndex`, `Finally` |
| faults | `BulkFails`, `VariantsReadFails`, `CreateIndicesFails`, `JobFails`, `SwitchFails`, `Crash` |

The history variable `stale` names the products whose last job could not be
relied on, each for a reason the code has:

* it ran while another job, or a reindex, wrote the same product: the two read
  and write in an order of their own, and an update that arrives during a
  reindex is written to the index that the reindex is about to replace;
* a bulk request failed, wholly or in part: that is logged and the job succeeds;
* the variants could not be read: that too is logged, and the product is
  indexed as if it had none;
* the job looked for the product in a channel it is not in, so that the old
  documents were not deleted. This happens to a product that was taken out of
  the channel of the edit before the job ran, and to the second product of a
  job: `setChannel` leaves the context in the last channel of the first;
* the job failed and has no retries;
* it was a reindex, and an earlier product was deleted under its pages.

Without these `QuietIndexIsCurrent` is refuted; with them it says that nothing
else can make search differ from the database.

Taken on trust of the outside: rows come in the order of their ids (the query
of `reindex` orders by nothing, and would have to); the exchange of aliases is
atomic and is refused when an alias it removes is missing; names made of the
time differ; a document's prices and options are read with the variants.

### StripePayments

One active order of one customer: requests for a payment intent
(`createStripePaymentIntent`), webhooks, and what Stripe keeps of customers and
intents. A webhook works in a transaction (`stripe.controller.ts`,
`withTransaction`): what it writes is seen by others at `Commit`, and the last
to commit wins. It answers 400 for a missing or a wrong signature and 200 for a
foreign order, a refused transition and a refused payment, and Stripe delivers
again only what was not answered with 200.
Amounts are in minor units: `Minor` and `FromMinor` are the conversion of
`stripe-utils.ts`, and `HasFraction` says whether the currency has decimals.

| Code | Actions |
|---|---|
| `createPaymentIntent`, `getStripeCustomerId` | `Begin`, `FindCustomer`, `ListCustomers`, `CreateCustomer`, `SaveCustomer`, `CreateIntent`, `RequestThrows` |
| `StripeController.webhook` | `Receive`, `Verify`, `Transition`, `AddPayment`, `Commit`, `Answer`, `HandlerThrows` |
| outside | `Amend`, `CompleteCheckout`, `Pay`, `PaymentFails`, `Redeliver` |

`history` says which exceptions have happened: the total was changed
(`amended`), the order was changed or left its state after something was paid
(`moved`), two requests (`raced`) or two webhooks (`overlapped`) were under way
at once, a payment left the order uncovered (`partial`). Taken on trust: Stripe answers two requests with one idempotency key with
one intent, for longer than a checkout lasts.

### BraintreePayments

`addPaymentToOrder` mutations that reach the handler's `createPayment` (`Pay`,
`CreateCustomer`, `Sale`, `Record`), and client tokens (`Token`,
`ClearCustomer`). The mutation's transaction is undone when it throws
(`AfterThrow`), what Braintree did is not: `SaleFails(r, taken)` is a sale whose
answer is lost, with the money taken or not, and `Crash` a process that dies in
between.

### PubSubJobQueue

The strategy object of every process: `hasInitialized`, what it was started
with before `init`, its map of `listeners` and those `attached` to the
subscription. Pub/Sub leases a message to one subscriber until it is
acknowledged (`Ack`), refused (`Nack`) or its deadline passes (`Expire`), and
may lose an acknowledgement (`LoseAck`). It implements `JobQueue` with no way of
disposal: unlike BullMQ it never gives a job up.

### RedisJobBuffer

A list per buffer (`list`), `Add`, and flushes one Redis call at a time:
`Read` (`lrange`), `Delete` (`del`), `Return`. `excused` holds the jobs added
between the two calls of a flush, read by two flushes, or held by a flush that
failed: each is lost or returned twice for a reason the code has.

### EmailJobs

One mail for each pair of event and handler. `details[m]` follows it through
the handler (`LoadData`, `Subject`, `ReadEvent`, `Queue` or `HandleFails`) and
`job[m]` through the processor (`Generate`, `Deliver` which finds or makes a
transport, `Send`, `Announce` and their failures). A failure goes through
`AnnounceFailure`, which tells the subscribers before the job rejects, for the
last attempt as for those before; a worker that stops (`StopWorker`) tells
nobody, and `cut` counts the attempts it ends. `Subscribe` and `CreateQueue` are
the two steps of the plugin's bootstrap.

### AssetServer

Requests (`visit[v]`) for assets and transformed images, the `source` files and
the `cache` of transformed images. On a local disk a file exists from
`OpenFile` and has its bytes from `FillFile`, and so does an asset from `Upload`
to `UploadCloses`, so that the beginning of it can be read, transformed and
kept; on S3 `PutObject` and `Upload` are one step.

A name is a path without its extension, and the extension. `FileKey` is the text
that `getFileNameFromRequest` hashes, as a sequence of the parts it is put
together from: width and height with the mode as it was sent, or else the
preset; focal point, format, quality. `CacheFile` is the path and the key, with
the format in the place of the extension (`addSuffix`). `Drawn` is what
`transformImage` makes of the same query. Neither mapping is injective, and
three things follow that the model has as the code does:

* `cat.jpg` and `cat.png` with the same query and a format share a cache file
  (`Namesakes`);
* a preset replaces the size it comes with, and the file is filed under the
  size: a query with both shares its cache file with the size alone. A mode is
  written into the key without being looked at, so that `mode=cropjpg` has the
  key of `mode=crop` with `format=jpg` (`ambiguous` holds the files asked for in
  one of these ways);
* a file may be used while somebody writes it (`torn`).

Left out: texts of numbers (two `w` that round to one width have two files and
one image; a `fpx` of 0 is in the key and draws nothing), the name of a preset
that ends like a format, and md5, which is taken to be injective.

### StellatePurging

`Change` is an event that every rule for it buffers; `Close` ends a buffer and
hands it to the rule's handler, which turns it into `purges`; `Arrive` and
`Fail` are what becomes of a purge.

With an event a product or a variant may come or go (`live`), and a product may
become a result of a search or cease to be one (`found`). A page of a product is
answered from the data, a search from the `index` of the search plugin, which
follows some time after the event (`Index`). `Tags` are the types and keys
that Stellate finds in the answer it keeps, so a page has the tag of a variant
only if the answer shows it. The cache fills in two steps (`Fetch` the answer,
`Fill` it in), which is how an old answer can arrive after its purge.

`Outdated` is an answer that shows what has changed or is gone. An answer that
lacks something is not: the code purges by what an answer contains
(`purgeSearchResults`), and nothing reaches the page of a product that has a new
variant, or a search that would find one more product, except a tax rate or a
change of the collection. Such a page stays as it is until Stellate forgets it.
`excused` holds the pages that are outdated for a reason the code has: an answer
that came to the cache out of date (fetched before and stored after its purge,
or made of an index that lagged), a purge that failed (it is logged) or was cut
short, a stop that loses the buffers. A current answer, or a purge of the page,
takes it out again. `KeyLimit` is how many keys `debugLogging` leaves, 5 in the
code.

### ElasticsearchSearch

`Matches` is the `bool` query that `build-elastic-body.ts` builds: `Must`,
`Should` and the filters; `Results` collapses by product, `Page` takes `from`
and `size`. An answer takes up to three requests (`Items`, `Total`,
`FacetCounts`), and `ChangeIndex` may come between them.

Both limits of the options are in the model. `Tracked` is `track_total_hits`
(`totalItemsMaxSize`): 10000 by default, nothing with `false`, everything with
`true`; it bounds the total of an ordinary search, and not that of a grouped
one, which is a cardinality. `Kept` are the buckets that a terms aggregation
returns, the `facetValueMaxSize` largest ones. A cardinality is exact up to
`Precision` products (3000 in Elasticsearch) and an estimate above (`Estimates`).
Taken on trust: the index has one shard, which is what Elasticsearch gives it
unless `indexSettings` says otherwise, so a terms aggregation counts exactly.

### Metrics

Days are numbers; `Year`, `GetDayOfYear` and `SetDayOfYear` are those of the
library the service uses, on a year of `MaxTick` days and a leap year of one
more. `Ticks` counts forward from the first day as `loadData` does.

`getMetrics` answers from the cache of a day (`Cached`) or reads the orders:
`ReadPage` is a query with `skip` and `take`, and its count is one of its own
(`getManyAndCount`), so that orders may be placed before it and between two pages
(`MoreOrders`). `Finish` computes the entries and keeps the answer under the key
of the day it was asked for. The query orders by nothing; with a join TypeORM
pages by the id, which an order gets when it becomes a cart. An order that is
placed while others are read therefore shifts the rows of all with a larger id:
one of them is read a second time, and counted twice. `read` counts how often a
row was read, and `Unmoved` are the orders this does not happen to. One request
is looked at at a time, as requests share the cache alone.

### Plugins, MCPlugins

`Plugins` composes the nine modules from `StripePayments` to `Metrics`: each is
an INSTANCE with variables of its own, and a step is one of theirs that leaves
the others' variables alone, as the plugins share no state and call each other
nowhere. Its `ASSUME`s are named after the plugin they are about: amounts are
natural numbers, a value that stands for "none" is none of the values it is
told apart from, a purge rule is one of the default ones, a variant has a
product, and the period of the metrics is shorter than a year.

`MCPlugins` is the instance for TLC. In the product of nine state spaces the
same question would be asked over and over: `on` names the plugin that takes
steps in a behaviour, and the others stay as they began. What is asked of a
plugin is about its own variables. Where all steps of a plugin at once are too
many they are cut: Stripe's in `OneBuyer` (one request and one webhook at a
time, a total that changes) and `TwoTabs` (two of each, a total that does not);
the asset server's in `OneAsset` (one name, two contents, everything that can
fail, on both storages) and `TwoAssets` (two names that share files, the queries
whose key is ambiguous, on a local disk where nothing fails); in `Stellate` one
of the two products with its variant stays where it is, and no purge fails and
the index stays where `debugLogging` cuts the keys; in `Search` the index stays
during a search where totals and facets are limited; in `Dashboard` a day ends
only while an order is recent enough. Of two tabs, webhooks, visitors or jobs
that have not begun the first begins, and of two contents the first is uploaded
first: they are alike until then, so behaviours are lost only up to a change of
names (`InTurn`, `JobsInTurn`, `AssetsInTurn`; a `SYMMETRY` would not be sound
beside the temporal properties). The theorems are about `Plugins` itself, with no
such cut. The fairness conditions of the modules are merged, since a condition
`WF(A \/ B)` where only A's module runs is `WF(A)`.

## 4. The runs

| Run | Instance | What it shows |
|---|---|---|
| `mollie_one_order` | 1 Mollie order, 2 webhooks, 1 shopper, 1 administrator, totals 0-2, 1 edit, 1 fault, no autoCapture; fair | types; every payment is backed; an unamended order is paid for once; what is paid is recorded; what is captured is settled |
| `mollie_two_orders` | 2 Mollie orders, 1 webhook, autoCapture, 1 fault | the same safety when a second Mollie order is created |
| `mollie_authorized` | 1 of each; expects a violation | the documentation's account of pay-later orders is refuted |
| `webhooks` | 2 webhooks, 2 events, 1 channel, 2 urls, 2 processes, 2 requests at a time and 3 in all, each with or without a transaction | the map and the emitter agree; a quiet webhook is called as its row says |
| `webhooks_triggered` | 1 webhook, 1 process; expects a violation | a webhook whose update names a new event is not triggered by it |
| `bullmq_two_jobs` | 2 jobs of 2 queues, 1 worker with 2 slots, 1 request, 1 stall, 1 retry | cancellations stay with their job; retries are used; `JobQueue` is implemented |
| `bullmq_one_job` | 1 job, 2 workers of which one may be stopped, a crash, a stall, a request; fair | `JobQueue` is implemented; every job is settled |
| `bullmq_state` | 1 job, 1 worker; expects a violation | `getState` can fail for a job that exists |
| `elastic_overlap` | 2 products with a variant each, 2 channels, 2 workers, pages of 1, bulk requests of 2 entries, 2 edits, 2 reindexes | types; a quiet product is found as the database has it; search has an index |
| `elastic_faults` | 1 of 2 products has a variant, 2 channels, 2 workers, 2 edits, 2 reindexes, 1 fault | the same when a call fails or a worker dies |
| `elastic_reindex` | 2 products, 1 channel, 1 worker; expects a violation | a reindex loses a product when another is deleted |
| `plugins`, `OneBuyer` | Stripe: 1 request and 1 webhook at a time, totals 249 and 300 of a currency without decimals, 2 intents, 2 requests, 1 fault; fair | an order nobody amended is charged once; an intent is recorded once; a customer has one Stripe customer; what was paid in full is settled |
| `plugins`, `TwoTabs` | Stripe: 2 requests and 2 webhooks at a time, 1 intent, 1 fault | the same safety when tabs and webhooks overlap |
| `plugins`, `Braintree` | 2 requests at a time, 3 payments, 2 nonces, 1 fault | money recorded is money taken; nobody pays twice |
| `plugins`, `PubSub` | 2 jobs, 2 processes, 2 lives, 1 fault; fair | `JobQueue` is implemented; every published job is settled, if its queue listens |
| `plugins`, `Redis` | 2 jobs, 2 buffers, 2 flushers, 2 flushes | a buffered job leaves once |
| `plugins`, `Email` | 1 event, 2 handlers, 1 retry, 2 faults, so that a job fails for good; fair | a mail leaves once; the outcome of every attempt is announced; an accepted event is mailed |
| `plugins`, `OneAsset` | 1 name uploaded with 2 contents, with and without a size, 2 requests, 1 fault, local and S3; fair | the image sent is the one asked for; a request is answered |
| `plugins`, `TwoAssets` | 2 names that differ in their extension, 3 queries with a key that is shared, 2 requests, local; fair | the same where files of the cache are shared |
| `plugins`, `Stellate` | 2 products with a variant each, a rule for variants and one for what a collection contains, 2 events, 1 answer, 1 key left by `debugLogging`, 1 fault; fair | what a quiet cache shows is current; a page that shows what is not is purged |
| `plugins`, `Search` | 4 documents of 2 products, 2 facet values, inputs that each use one or two filters, everything counted and listed or 1 of each, 1 change of the index when all is counted, cardinalities exact up to 1 | items, total and facet counts agree |
| `plugins`, `Dashboard` | 2 orders in pages of 1, years of 7 days and a leap year of 8, 17 days | a recent order counts once, in its day |

Why the bounds are enough. The races are between two actors: two webhooks of
one Mollie order are the smallest instance of a double payment, two Mollie
orders of an order paid twice, two requests of a lost update of a webhook, two
workers of a job run twice or of two reindexes that take the alias from each
other. Two products and pages of one are the smallest table with a page
boundary, and a bulk request of two entries splits every operation list. One fault is enough for every single point of
failure; two in a row only lead back to a state that one of them reaches, except
for a mail, which needs one for each attempt to fail for good. Two orders and
pages of one are the smallest loop in which a row can move between two pages.
The totals 249 and 300 stand on both sides of a rounding to hundreds, which is
what a wrong conversion of an amount without decimals does. Two events with one
key left are the smallest purge that is cut short; a year of seven days is left and entered, once
as a leap year, in seventeen days. A
total of 2 distinguishes nothing, a part and all of what is owed. The
theorems below need none of these bounds.

Symmetry is used in `mollie_two_orders` (Mollie orders) and in the runs of
`ElasticsearchIndexing` (workers); none of them has a temporal property.
`CHECK_DEADLOCK FALSE` is set everywhere because the bounded counters run out:
an order that is settled, a worker that was closed, or a shop with no requests
left really does stop.

### Fairness

* `MolliePayments`: a request runs to its end (weak: Node runs what is ready),
  and Mollie delivers a notification of money until it is answered with 200
  (strong on delivery: a free server handles it, though it need not be free all
  the time). No customer, administrator or edit is obliged to happen.
* `BullMQJobQueue`: a process that starts registers its queues; an attempt goes
  on (process functions return); BullMQ promotes delayed jobs and finds jobs
  whose process died; a waiting job is eventually taken (strong, since the one
  free slot may be taken by another). Requests of the Admin API, stops, crashes
  and locks that run out in live processes are never obliged.

* `StripePayments`: a request that was received runs to its end, and Stripe
  delivers an event again until it is answered with 200. Nobody is obliged to
  pay.
* `PubSubJobQueue`: Pub/Sub delivers to a subscriber that listens, and the
  process function of a job that was delivered ends. Nobody is obliged to start
  a process again.
* `EmailJobs`: a handler that has an event goes on, and the queue runs its jobs.
* `AssetServer`: a request goes on (its next step is a call of the storage or
  of the image library, which ends or fails).
* `StellatePurging`: events of a type pause for the buffer time in the end (the
  buffer is closed by `debounceTime`, and under a steady stream never), and a
  purge arrives or fails.

### Findings

* `mollie_authorized`. The documentation says a pay-later order is
  `PaymentAuthorized` after the checkout. `authorized` is handled only for an
  order in `AddingItems`; an order in `ArrangingPayment`, which
  `createPaymentIntent` accepts, throws on every delivery.
* `webhooks_triggered`. `update` compares the event of an entity that already
  has the input merged into it, so an update that names an event never moves
  the listener.
* `bullmq_state`. A job that moves between the questions of `getState` can
  answer no to each: `findMany`, `findOne` and `cancelJob` then throw for a job
  that exists.

* `elastic_reindex`. `reindex` pages through the live products with skip and
  take. When a product of a page already read is deleted the rest move up by
  one: a live product that nobody touched is skipped, and is not found any more
  once the alias is switched.

Stated in the modules and refuted by TLC, but in no run:

* `OnePaymentPerMollieOrder` (`mollie.handler.ts:92` "a mollie order equals a
  payment"): two webhooks of an order that was amended can both add a payment.
* `AutoCaptured` (`mollie.handler.ts:43` "Automatically capture payments
  immediately after authorization"): a handler that stops between recording and
  capturing is not repeated, since the state is then `PaymentAuthorized`, which
  no branch handles for `authorized`.
* `PartialPaymentAsksForMore` (`mollie.plugin.ts:188`): an order that grew while
  a payment was open stays in `ArrangingPayment`.
* `MarkedIsCancelled` (`bullmq-job-queue-strategy.ts:357-363`): the message goes
  out before the set is written and the attempt looks in the set before it
  subscribes; an attempt that does both in the gap is missed by both.
* `ConcurrencyAsConfigured` (`bullmq/plugin.ts:85`): `init` builds
  `workerOptions` anew from two of its fields, so a configured concurrency is
  dropped.

* `UnknownCustomerIsRemoved` (`braintree.resolver.ts:60`, the comment in
  `generateBraintreeClientToken`): the id is set to `undefined`, which TypeORM's `save`
  leaves as it was.
* `StartedQueueListens` (Pub/Sub): `destroy` clears the maps of topics and
  subscriptions and keeps the listeners, so a queue that is started again finds
  a listener and attaches none.
* `MailLeavesThroughItsTransport` and `MailHasItsOwnData` (email): the sender
  keeps the first transport of a type whatever its options
  (`nodemailer-email-sender.ts:79`), and `loadData` writes to the event that
  all its handlers share (`event-handler.ts:351`).
* `DeletedAssetIsGone` (asset server): a transformed image outlives its asset.
* `LoggingPurgesEverything` (`stellate.service.ts:118`): with `debugLogging` the
  keys are cut to five in the object that is then sent, and not only in what is
  logged: what the other keys stand for is not purged.
* `AdminTotalIsOfItsItems` (`elasticsearch.service.ts:194`): the total of a
  search of the Admin API grouped by product counts enabled products only, its
  items are of all.
* `EntriesAreTheLastDays` (metrics): at the turn of a year the days of last year
  get a date of this year, and the last day of a leap year is counted nowhere.

Met while modelling, and part of the models as the code has them: `flush()`
without ids flushes nothing; an event between the email plugin's subscription
and `createQueue` is dropped without a word; `processPayment` is returned and
not awaited inside the handler's `try` (`braintree.handler.ts:52`), so a failed
sale passes the `catch`; `loadData()` does not copy what `setSubjectFn` and
`setLanguageCodeFn` set; `purge-rule.ts:24` gives 5000 as the default buffer
time and the code 2000; a rejection of `transformImage` outside its `try`
leaves a request without an answer; a query with a size and a preset shares its
cache file with the size alone, and shows the preset; assets that differ in their
extension share one when a format is given; an upload to a local disk can be
read, transformed and kept before it is complete; a page of a product stays
cached without a variant that was added to it, and a search without a product
that it would find now; a search that is asked again before the search index is
up to date is cached as the index has it; a mutation of the webhook plugin that
is rolled back leaves the listeners as if it had not been; an order can be
counted twice in the metrics when another is placed while the pages are read;
with the default options a search counts no more than 10000 results, and its
facet values are the 50 with the most variants, whatever the number of products.

## 5. The theorems

Each is about `Spec`, for all values of the constants that satisfy the
module's `ASSUME`s.

* **MolliePaymentsProofs**: `TypeCorrect`, `PaymentsAreBacked`,
  `RequestsAreBacked` and `UnamendedIsPaidOnce`. The invariant is `TypeOK /\ PaymentsBacked /\
  RequestsBacked`. `PaymentsBacked` alone is not inductive: a payment is added
  from what a request read several steps ago. `RequestBacked` says that what it
  carries is stable: Mollie never takes back `paid`, `authorized` or
  `completed`, and never changes the amount of an order once it has left
  `created`. `UnamendedIsPaidOnce` adds, of an order that is not amended, that
  every Mollie order and every intent under way is for the order's total, and
  that an order with a payment is in one of three states, none of which takes
  another. `AmountToPay` and the total of the payments are sums over a set; it
  is never larger than one, so they are unfolded for none and for one only.
* **WebhooksProofs**: `WebhookTypes` and `MappedHandlersListen`. The invariant
  is `TypeOK /\ MappedIsListening`, and neither half is inductive alone: the
  number of times a listener is on the emitter is a natural number only because
  a listener that is taken off was mapped, and what is mapped is on it.
* **BullMQJobQueueProofs**: `BullMQTypes`, `RetriesUsed` and `KeepsThePromise`
  (`Spec => ImplementsJobQueue`). The invariant counts: a job's attempts begun
  are those BullMQ counted, plus its stalls, plus one while it is active; an
  attempt or a request is only ever about a job that exists; an attempt that
  is to be settled as a success belongs to a job whose process function
  returned. `KeepsThePromise` maps the initial state and every action to a step
  of `JobQueue` or to none.
* **ElasticsearchIndexingProofs**: `SearchHasAnIndex` and `QuietSearchIsCurrent`. That the alias stands for
  an index that exists is not inductive: `switchAlias` looks the index up, and
  deletes it three requests later. `AliasInv` says what that index may be
  meanwhile: not one that has the alias of its reindex, so not one the alias of
  search can still move to; and after the exchange not the one under the alias.
  The `finally` block deletes only an index that still has the alias of its
  reindex, and the one under the alias has lost it. All other steps keep
  `AliasInv` by one lemma, `KeepsInv`: no worker begins to hold an index
  without looking the alias up.
  `QuietSearchIsCurrent` is the longest proof here. `MainOK` says that the index
  under the alias is right about each product that is neither stale nor due,
  where a product is due while a job that will write it waits or is on its way
  to it. To keep it when a job is done with a product, and when the alias moves
  to an index that a reindex has built page by page, the invariant says what each
  worker can vouch for (`GoodOK`). It is about the index a worker writes to, and
  about a product that no other job is going to write and no other worker has
  overlapped: after the deletions nothing of the product is left; a worker that
  has read the product has read its current row; what is written once its
  operations are executed is what the current rows ask for. Of a reindex it says
  that the products before its page are right in the new index, those after it
  not there yet, and that an incomplete page is the last. The other
  parts are what `GoodOK` rests on: only a product that is already deleted has a
  job to delete it (`JobsOK`); what a worker has in hand at each step
  (`ShapesOK`); an index that is built is neither under the alias nor in the
  hands of another worker (`NamesOK`); two workers on one product both
  count it as overlapped (`OverlapOK`); and nothing is written of a variant before
  it exists (`NewOK`), so that the variants found for a deleted product are all
  that can have documents. Which products a page holds follows from their ranks: as
  many live products come before one as its rank says, and every smaller rank
  is that of one of them (`RankGrows`, `RanksAreDense`). The proof needs
  `NoneAssumption`, that the value which stands for none is neither a document
  nor a job. All three theorems are about up to five workers, the jobs that the
  queue lets run at once, and about bulk requests of an even number of entries
  (`IndexingAssumption`); the other constants are arbitrary.

Four modules are about `Plugins`. For every plugin a lemma (`StripeAlone`,
`EmailAlone`, ...) says that a behaviour of the composition is one of the
plugin, whose steps stutter while the others move; what follows is then proved
of the plugin, by the names of its instance (`Stripe!Next`), and holds of the
composition.

* **PluginPaymentsProofs**. *Stripe*: `CustomersHaveOneRecord`,
  `UnamendedOrdersAreChargedOnce`, `IntentsAreRecordedOnce`. `StripeInv` is the
  type invariant and one part for each. `OneCustomer`: unless two requests
  raced, only one is under way, and one that is about to create a record has
  found that there is none: it has listed them, and nobody else could have added
  one since. `OneIntent`: as long as the order is not amended, every request
  carries its total, every intent has the key of that total, and there is at
  most one. `RecordedOnce`: unless two webhooks overlapped, one is at work, and
  while it is about to record a payment (several steps after it looked) the order
  is not settled; a payment either is one of those that left the order uncovered
  or the order is settled, so that a repetition of its event finds it so. *Braintree*: `TakenIsRecorded`
  and `NobodyPaysTwice`. `MoneyInv` ties every request to what Braintree
  charged: one that is about to record a settled payment holds a nonce that was
  charged, and unless something was lost nothing else was charged. `OnceInv`
  adds that, unless payments overlapped, one request pays at a time, none once
  a payment has settled, and one payment settles the order.
* **PluginQueuesProofs**. *Pub/Sub*: `PubSubKeepsThePromise` (`Spec =>
  ImplementsJobQueue`). The invariant says of every call of the process function
  that its message was published, and, once it is to be acknowledged, that the
  function has returned: the acknowledgement comes steps after the return, and
  other deliveries of the message come between. *Redis*: `JobsLeaveOnce`. How
  often a job was returned is kept only because a job is in one place: in one
  list, or in the hands of one flush, or returned; and until a flush deletes a
  list, what is in the list and not excused is what the flush has read.
  *Email*: `MailsLeaveOnce`, `OutcomesAreAnnounced`. `EmailInv` counts, by the
  step a job is at, what has been sent and announced against the attempts it has
  begun: every attempt but the one under way, or the one that completed the job,
  has announced a failure or was cut off; an attempt sends at most one mail, and
  announces a success only of one it has sent; and unless a failure excuses the
  mail a job that will try again has sent nothing.
* **PluginCachesProofs**. *Stellate*: `QuietCacheFresh`. What is outdated is
  awaited: a request under way purges the page, or a rule would with what it has
  buffered (`CacheInv`). It holds after a change because of three facts about
  the handlers: an answer that shows what an event is about is purged by the
  event's rule (`TouchedIsPurged`: the answer then has the tag of it, or of its
  product), what the event is not about stays as it was, and where it was
  (`UntouchedStays`), and one more event only adds to what a buffer purges
  (`MoreKeysPurgeMore`). It needs that an answer never shows what its page
  cannot (`CacheTypes`): a page of a product shows that product and its variants.
  *Assets*: `SentImagesAreRight`. `AssetsInv` says of every file of the cache
  that it was drawn, for a query and from an asset that share its name, and is
  whole unless it or that asset is torn or being written (`FileOK`, `SourceOK`);
  and of every request that the file in its hands is one of the asset it names,
  and that what it was answered with was drawn for its cache file (`VisitOK`).
  What that leaves open is settled by two lemmas about the names. `KeyTells`:
  unless one of them is `ambiguous`, two queries with one key draw the same in
  the same format, since each word of the key can only have come from one part
  of the query. `SharedByNamesakes`: assets that share a cache file are the same
  one, or differ in an extension that the format replaced.
* **PluginReportsProofs**. *Search*: `SearchNumbersAgree`. `SearchInv` says of
  each number that has come back which set of documents it is the size of, and
  the lemmas that these sets are one another: the count of a facet value is the
  total of the search that selects it as well, a page is a part of the results.
  The limits enter in two places: a total is cut at what is tracked
  (`TotalRight`), and a value without a count has no documents, or is left out
  for as many values as are returned, each at least as large (`CountsRight`).
  *Metrics*: `RecentOrdersAreCounted`. That a row is read once is a fact about
  the loop: rows are numbered by how many come before them, no two alike
  (`Ranks`, `RanksIncrease`), so a page has no more of them than its length
  (`FewRanks`) and the next page goes on where it ends (`PageGoesOn`). A request
  has therefore read the rows before its `skip` once, of the orders that nothing
  moved (`ReadOnce`), and all of them when its last page is in. The days of the
  period have different numbers within their years (`MetricsAssumption`: the
  period is shorter than a year), so a recent order has one tick, and the entry
  of that tick counts it (`FinishedIsOK`).
  `FirstOf`, the first day of a year, is written in closed form, the days of the
  full years and one for each leap year among them, since nothing can be proved
  of a fold. `StateKeepsItsType` collects the type invariants.

Added to the older modules: `OnlyAskedCancelled` (BullMQ; the messages that a
process has yet to hear, the set in Redis and the requests that wrote to both
are about jobs that were asked for), `IndexingTypes` (Elasticsearch; what a
worker has read depends on its step, so the type invariant needs one type for
each step), and `QuietWebhooksRegistered` (webhooks). The invariant of the last
says of each undisturbed webhook and process that at most one request works on
it, and at which of its steps table and listener differ and how (`InStep`: without
a transaction the row changes first, with one it changes at `Commit`, after the
listeners, and is until then what it was); of a process that starts, that what it
found is what the table still holds. It needs that an update which names no event
leaves the row's event alone, since that is how the old listener is found. A
rollback leaves a listener without its row, or a row without its listener, and
counts as a disturbance.

Only model-checked: everything under fairness (`PaidIsRecorded`,
`CapturedIsSettled`, `EveryJobIsSettled` and the five of `plugins`), which is
out of the prover's reach. Every invariant that a passing run checks is proved.

## 6. Not modelled

The components marked so in `PROJECT.json`, with the reason there: the CLI,
project creation and the testing utilities turn text and prompts into files;
the dashboard shows pages; Sentry hands errors to its library; the complexity
that Harden computes is a product of logarithms, which has no counterpart over
the integers. They, with generated types, option types and their documentation,
are well over half of the lines under `src/plugins/`, and keep no state that a
model could be about.

Within the modelled ones: refunds of all payment services, and the conversion
of Mollie's lines and amounts (`mollie.helpers.ts` rounds each line, and the
sum of the lines may differ from the order by what was rounded); Stripe's
refunds are sent unconverted in currencies without decimals
(`stripe.service.ts:99`), and its metadata is cut to 50 keys wherever
`orderCode` stands; templates, the file transport and the development mailbox of
the email plugin; the image library, the naming of uploads and hashing of paths;
scores, sorting, highlights and price ranges of a search; averages of the
metrics;
`destroy`, the paging of `findMany` and its Lua script in BullMQ; the jobs about
assets of the indexer (`update_by_query`, whose result `updateAssetForIndex`
compares as `failures === 0` and so always reports as failed), the events of
collections it buffers for 50 ms, the queue that lets five of its jobs run in a
process at once (a module assumes no more workers than that), the mapping of
fields, and languages, which are taken as one; the request a webhook makes over
HTTP, whose outcome is ignored by the code.
