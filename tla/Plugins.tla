------------------------------- MODULE Plugins -------------------------------
(***************************************************************************)
(* The plugins that keep their state to themselves, side by side in one    *)
(* process.  Every step is one of theirs: they share no state and call     *)
(* each other nowhere.  Constants have the names they have in the modules; *)
(* variables carry the name of their plugin.                               *)
(***************************************************************************)
EXTENDS Integers, Sequences, FiniteSets

CONSTANTS
    Requests, MaxFaults, None,                      \* in more than one of them
    Handlers, Totals, HasFraction, NoCustomer,      \* StripePayments
    MaxIntents, MaxRequests,
    Nonces, Undefined, MaxPayments,                 \* BraintreePayments
    Jobs, Processes, Functions, MaxLives,           \* PubSubJobQueue
    Buffers, BufferedJobs, Flushers, MaxFlushes,    \* RedisJobBuffer
    Events, EmailHandlers, Channels, Retries,       \* EmailJobs
    MaxMailFaults,
    Names, Contents, Sizes, Modes, Presets,         \* AssetServer
    FocalPoints, Formats, Qualities, Queries,
    Visits, MaxVisits,
    Products, Variants, Collections, ProductOf,     \* StellatePurging
    PurgeRules, KeyLimit, MaxEvents, MaxFills,
    Documents, FacetValues, Inputs, DefaultTake,    \* ElasticsearchSearch
    SearchConfigs, Precision, MaxChanges,
    Orders, Take, MaxTick, NrOfEntries, LeapYears,  \* Metrics
    FirstDay, LastDay, Never

VARIABLES
    stripeOrder, stripePayments, stripeSavedCustomer, stripeCustomers, stripeIntents,
    stripePending, stripeRequest, stripeHandler, stripeMade, stripeFaults,
    stripeHistory,
    braintreeSettled, braintreeDeclined, braintreeOrderState, braintreeSavedId,
    braintreeCustomers, braintreeKnown, braintreeCharged, braintreeUsed,
    braintreeRequest, braintreeMade, braintreeFaults, braintreeHistory,
    pubSubHasInitialized, pubSubStarted, pubSubListeners, pubSubAttached, pubSubStatus,
    pubSubLeased, pubSubReturned, pubSubAttempts, pubSubRuns, pubSubLives, pubSubFaults,
    redisList, redisAdded, redisFlusher, redisFlushed, redisFlushes, redisExcused,
    emailBoot, emailChannel, emailData, emailDetails, emailJob, emailTransport,
    emailSent, emailAnnounced, emailFaults, emailExcused,
    assetStorage, assetSource, assetUploading, assetCache, assetVisit, assetVisits,
    assetFaults, assetUploaded, assetAmbiguous, assetTorn,
    stellateDebugLogging, stellateVersion, stellateLive, stellateFound, stellateIndex,
    stellateBuffer, stellatePurges, stellateCache, stellateFilling, stellateExcused,
    stellateCount,
    searchConfig, searchIndex, searchSearch, searchAnswer, searchChanges,
    metricsToday, metricsPlaced, metricsLoad, metricsCache, metricsAnswer

-----------------------------------------------------------------------------
Stripe == INSTANCE StripePayments WITH
        order <- stripeOrder, payments <- stripePayments,
        savedCustomer <- stripeSavedCustomer, customers <- stripeCustomers,
        intents <- stripeIntents, pending <- stripePending, request <- stripeRequest,
        handler <- stripeHandler, made <- stripeMade, faults <- stripeFaults,
        history <- stripeHistory

Braintree == INSTANCE BraintreePayments WITH
        settled <- braintreeSettled, declined <- braintreeDeclined,
        orderState <- braintreeOrderState, savedId <- braintreeSavedId,
        customers <- braintreeCustomers, known <- braintreeKnown,
        charged <- braintreeCharged, used <- braintreeUsed,
        request <- braintreeRequest, made <- braintreeMade, faults <- braintreeFaults,
        history <- braintreeHistory

PubSub == INSTANCE PubSubJobQueue WITH
        hasInitialized <- pubSubHasInitialized, started <- pubSubStarted,
        listeners <- pubSubListeners, attached <- pubSubAttached,
        status <- pubSubStatus, leased <- pubSubLeased, returned <- pubSubReturned,
        attempts <- pubSubAttempts, runs <- pubSubRuns, lives <- pubSubLives,
        faults <- pubSubFaults

Redis == INSTANCE RedisJobBuffer WITH
        list <- redisList, added <- redisAdded, flusher <- redisFlusher,
        flushed <- redisFlushed, flushes <- redisFlushes, excused <- redisExcused

Email == INSTANCE EmailJobs WITH
        boot <- emailBoot, channel <- emailChannel, data <- emailData,
        details <- emailDetails, job <- emailJob, transport <- emailTransport,
        sent <- emailSent, announced <- emailAnnounced, faults <- emailFaults,
        excused <- emailExcused, MaxFaults <- MaxMailFaults

Assets == INSTANCE AssetServer WITH
        storage <- assetStorage, source <- assetSource, uploading <- assetUploading,
        cache <- assetCache, visit <- assetVisit, visits <- assetVisits,
        faults <- assetFaults, uploaded <- assetUploaded, ambiguous <- assetAmbiguous,
        torn <- assetTorn

Stellate == INSTANCE StellatePurging WITH
        debugLogging <- stellateDebugLogging, version <- stellateVersion,
        live <- stellateLive, found <- stellateFound, index <- stellateIndex,
        buffer <- stellateBuffer, purges <- stellatePurges, cache <- stellateCache,
        filling <- stellateFilling, excused <- stellateExcused, count <- stellateCount

Search == INSTANCE ElasticsearchSearch WITH
        index <- searchIndex, search <- searchSearch, answer <- searchAnswer,
        changes <- searchChanges

Dashboard == INSTANCE Metrics WITH
        today <- metricsToday, placed <- metricsPlaced, load <- metricsLoad,
        cache <- metricsCache, answer <- metricsAnswer

-----------------------------------------------------------------------------
(* What the plugins are given: amounts and options are numbers, a value    *)
(* that stands for none is none, the requests are ones the API accepts.    *)

ASSUME StripeAssumption == Totals \subseteq Nat /\ NoCustomer \notin Nat

ASSUME BraintreeAssumption == Undefined \notin Nonces

ASSUME EmailAssumption == Retries \in Nat /\ None \notin Channels

\* The texts of different parameters differ.
ASSUME AssetsAssumption ==
    /\ Queries \subseteq Assets!Query
    /\ \A n \in Names : n = [base |-> n.base, ext |-> n.ext]
    /\ None \notin Names \cup Contents \cup {"undefined", "crop", "resize"}
    /\ {"undefined", "crop", "resize"}
          \cap (Sizes \cup Presets \cup FocalPoints \cup Formats \cup Qualities) = {}
    /\ Sizes \cap ({None} \cup Presets \cup FocalPoints \cup Formats \cup Qualities) = {}
    /\ Presets \cap ({None} \cup FocalPoints \cup Formats \cup Qualities) = {}
    /\ FocalPoints \cap ({None} \cup Formats \cup Qualities) = {}
    /\ Formats \cap ({None} \cup Qualities) = {}
    /\ None \notin Qualities

\* The option lists default rules, and every variant has a product.
ASSUME StellateAssumption ==
    /\ PurgeRules \subseteq Stellate!DefaultPurgeRules
    /\ ProductOf \in [Variants -> Products]

ASSUME SearchAssumption ==
    /\ None \notin FacetValues
    /\ Inputs \subseteq Search!Input
    /\ Documents \subseteq Search!Document
    /\ DefaultTake \in Nat /\ Precision \in Nat
    /\ SearchConfigs \subseteq Search!SearchConfig

\* The period is less than a year, and lies in years that are numbered.
ASSUME MetricsAssumption ==
    /\ MaxTick \in Nat /\ NrOfEntries \in Nat /\ NrOfEntries < MaxTick
    /\ Orders \subseteq Nat /\ IsFiniteSet(Orders) /\ Take \in Nat /\ Never \notin Nat
    /\ FirstDay \in Nat /\ LastDay \in Nat /\ NrOfEntries <= FirstDay /\ FirstDay <= LastDay

-----------------------------------------------------------------------------
stripeVars == <<stripeOrder, stripePayments, stripeSavedCustomer, stripeCustomers, stripeIntents,
    stripePending, stripeRequest, stripeHandler, stripeMade, stripeFaults, stripeHistory>>
braintreeVars == <<braintreeSettled, braintreeDeclined, braintreeOrderState, braintreeSavedId,
    braintreeCustomers, braintreeKnown, braintreeCharged, braintreeUsed, braintreeRequest,
    braintreeMade, braintreeFaults, braintreeHistory>>
pubSubVars == <<pubSubHasInitialized, pubSubStarted, pubSubListeners, pubSubAttached, pubSubStatus,
    pubSubLeased, pubSubReturned, pubSubAttempts, pubSubRuns, pubSubLives, pubSubFaults>>
redisVars == <<redisList, redisAdded, redisFlusher, redisFlushed, redisFlushes, redisExcused>>
emailVars == <<emailBoot, emailChannel, emailData, emailDetails, emailJob, emailTransport, emailSent,
    emailAnnounced, emailFaults, emailExcused>>
assetVars == <<assetStorage, assetSource, assetUploading, assetCache, assetVisit, assetVisits,
    assetFaults, assetUploaded, assetAmbiguous, assetTorn>>
stellateVars == <<stellateDebugLogging, stellateVersion, stellateLive, stellateFound, stellateIndex,
    stellateBuffer, stellatePurges, stellateCache, stellateFilling, stellateExcused, stellateCount>>
searchVars == <<searchConfig, searchIndex, searchSearch, searchAnswer, searchChanges>>
metricsVars == <<metricsToday, metricsPlaced, metricsLoad, metricsCache, metricsAnswer>>

vars == <<stripeVars, braintreeVars, pubSubVars, redisVars, emailVars, assetVars,
          stellateVars, searchVars, metricsVars>>

-----------------------------------------------------------------------------
Init ==
    /\ Stripe!Init /\ Braintree!Init /\ PubSub!Init /\ Redis!Init /\ Email!Init
    /\ Assets!Init /\ Stellate!Init /\ Search!Init /\ Dashboard!Init

butStripe ==
    <<braintreeVars, pubSubVars, redisVars, emailVars, assetVars, stellateVars,
      searchVars, metricsVars>>
butBraintree ==
    <<stripeVars, pubSubVars, redisVars, emailVars, assetVars, stellateVars,
      searchVars, metricsVars>>
butPubSub ==
    <<stripeVars, braintreeVars, redisVars, emailVars, assetVars, stellateVars,
      searchVars, metricsVars>>
butRedis ==
    <<stripeVars, braintreeVars, pubSubVars, emailVars, assetVars, stellateVars,
      searchVars, metricsVars>>
butEmail ==
    <<stripeVars, braintreeVars, pubSubVars, redisVars, assetVars, stellateVars,
      searchVars, metricsVars>>
butAssets ==
    <<stripeVars, braintreeVars, pubSubVars, redisVars, emailVars, stellateVars,
      searchVars, metricsVars>>
butStellate ==
    <<stripeVars, braintreeVars, pubSubVars, redisVars, emailVars, assetVars,
      searchVars, metricsVars>>
butSearch ==
    <<stripeVars, braintreeVars, pubSubVars, redisVars, emailVars, assetVars,
      stellateVars, metricsVars>>
butDashboard ==
    <<stripeVars, braintreeVars, pubSubVars, redisVars, emailVars, assetVars,
      stellateVars, searchVars>>

StripeStep == Stripe!Next /\ UNCHANGED butStripe
BraintreeStep == Braintree!Next /\ UNCHANGED butBraintree
PubSubStep == PubSub!Next /\ UNCHANGED butPubSub
RedisStep == Redis!Next /\ UNCHANGED butRedis
EmailStep == Email!Next /\ UNCHANGED butEmail
AssetsStep == Assets!Next /\ UNCHANGED butAssets
StellateStep == Stellate!Next /\ UNCHANGED butStellate
SearchStep == Search!Next /\ UNCHANGED butSearch
DashboardStep == Dashboard!Next /\ UNCHANGED butDashboard

Next ==
    \/ StripeStep \/ BraintreeStep \/ PubSubStep \/ RedisStep \/ EmailStep
    \/ AssetsStep \/ StellateStep \/ SearchStep \/ DashboardStep

Spec == Init /\ [][Next]_vars

-----------------------------------------------------------------------------
(* What is asked of each.                                                   *)

\* The state of a plugin keeps its type. Pub/Sub and the job buffer have no
\* type invariant: JobQueue and BufferedJobsLeaveOnce say more.
TypeOK ==
    /\ Stripe!TypeOK /\ Braintree!TypeOK /\ Email!TypeOK /\ Assets!TypeOK
    /\ Stellate!TypeOK /\ Search!TypeOK /\ Dashboard!TypeOK

\* Stripe: an order that was not amended is charged once.
UnamendedOrderIsChargedOnce == Stripe!UnamendedOrderIsChargedOnce

\* Stripe: an intent becomes one payment of the order, unless webhooks
\* overlap or it pays the order in part.
IntentIsRecordedOnce == Stripe!IntentIsRecordedOnce

\* Stripe: a customer has one record unless requests overlap.
OneStripeCustomer == Stripe!OneStripeCustomer

\* Stripe: what was paid settles the order in the end.
PaidOrderIsSettled == Stripe!PaidOrderIsSettled

\* Braintree: the shop knows of the money that was taken, unless an answer
\* was lost.
MoneyIsRecorded == Braintree!MoneyIsRecorded

\* Braintree: a customer is not charged a second time, unless payments
\* overlap or money was taken and lost.
ChargedOnce == Braintree!ChargedOnce

\* Pub/Sub: the strategy does what JobQueue promises.
ImplementsJobQueue == PubSub!ImplementsJobQueue

\* Pub/Sub: a job is settled while some process listens.
EveryPublishedJobIsSettled == PubSub!EveryPublishedJobIsSettled

\* Redis: a buffered job is returned by one flush, unless a flush failed or
\* two overlapped.
BufferedJobsLeaveOnce == Redis!BufferedJobsLeaveOnce

\* Email: a mail goes out twice only after a failure.
MailLeavesOnce == Email!MailLeavesOnce

\* Email: EmailSendEvents say what became of each attempt to send a mail.
OutcomeIsAnnounced == Email!OutcomeIsAnnounced

\* Email: an event that is accepted is mailed in the end, unless each attempt
\* failed or there was no queue.
AcceptedEventIsMailed == Email!AcceptedEventIsMailed

\* Asset server: an image shows what was asked for.
SentImageIsRight == Assets!SentImageIsRight

\* Asset server: a request is answered in the end.
RequestIsAnswered == Assets!RequestIsAnswered

\* Stellate: what an answer shows and nothing waits to purge is current.
QuietCacheIsFresh == Stellate!QuietCacheIsFresh

\* Stellate: an answer that shows what is stale is purged in the end.
StalePageIsPurged == Stellate!StalePageIsPurged

\* Elasticsearch: total, facet counts and items agree.
NumbersAgree == Search!NumbersAgree

\* Metrics: a recent order is counted once and on its day, unless one before it
\* is placed while the orders are read.
RecentOrderIsCountedOnce == Dashboard!RecentOrderIsCountedOnce
=============================================================================
