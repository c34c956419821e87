------------------------------ MODULE MCPlugins ------------------------------
(***************************************************************************)
(* Plugins for TLC.  What is asked of a plugin is about its own variables, *)
(* so TLC looks at those behaviours in which one of them runs: it is       *)
(* picked at the start and named by "on", and the others stay as they      *)
(* began.  Stripe is picked in two ways, with one buyer whose order        *)
(* changes and with two tabs and two webhooks at work, and so is the asset *)
(* server, with one asset and with two that share files of the cache.      *)
(***************************************************************************)
EXTENDS Plugins, TLC

CONSTANTS r1, r2, h1, h2, j1, j2, p1, p2, v1, v2, f1, f2, s1

VARIABLE on

-----------------------------------------------------------------------------
(* Some of the inputs of the asset server, of Stellate and of the search.   *)

\* Two assets that differ in their extension.
SomeNames == [base : {"cat"}, ext : {"jpg", "png"}]

SomeModes == {<<"crop">>, <<"crop", "jpg">>}

Asis == [size |-> None, mode |-> None, preset |-> None, focal |-> None, format |-> None,
         quality |-> None, cache |-> TRUE]

Sized == [Asis EXCEPT !.size = s1]

\* Those whose key says what is drawn, and those that share a key.
OwnKey == {Asis, Sized}

SharedKey ==
    {[Sized EXCEPT !.preset = p1], [Sized EXCEPT !.mode = <<"crop">>, !.format = "jpg"],
     [Sized EXCEPT !.mode = <<"crop", "jpg">>, !.cache = FALSE]}

SomeQueries == OwnKey \cup SharedKey

SomeVariants == v1 :> p1 @@ v2 :> p2

\* A rule for a variant, and one for what a search finds.
SomeRules == {"variant", "collectionModification"}

\* A small catalogue, and searches of one kind each.

Variant(product, enabled, values, price, inStock) ==
    [product |-> product, enabled |-> enabled, facetValueIds |-> values, price |-> price,
     inStock |-> inStock, productInStock |-> product = 1]

SomeDocuments ==
    {Variant(1, TRUE, {f1}, 1, TRUE), Variant(1, TRUE, {f1, f2}, 2, FALSE),
     Variant(2, TRUE, {f2}, 1, FALSE), Variant(2, FALSE, {f1}, 1, FALSE)}

Plain ==
    [facetValueIds |-> {}, all |-> FALSE, facetValueFilters |-> {}, maxPrice |-> None,
     inStock |-> "any", groupByProduct |-> FALSE, skip |-> 0, take |-> 1]

Selections ==
    {[Plain EXCEPT !.facetValueIds = values, !.all = all] : values \in SUBSET {f1, f2}, all \in BOOLEAN}
        \cup {[Plain EXCEPT !.facetValueFilters = {[and |-> and, or |-> or]}] :
                  and \in {None, f1}, or \in {{}, {f2}, {f1, f2}}}
        \cup {[Plain EXCEPT !.maxPrice = 1], [Plain EXCEPT !.skip = 1], [Plain EXCEPT !.take = 0]}
        \cup {[Plain EXCEPT !.inStock = stock] : stock \in {"yes", "no"}}

\* All is counted and listed, or some of it.
SomeConfigs ==
    {[totalItemsMaxSize |-> None, facetValueMaxSize |-> 2],
     [totalItemsMaxSize |-> 1, facetValueMaxSize |-> 1]}

SomeInputs == Selections \cup {[input EXCEPT !.groupByProduct = TRUE] : input \in Selections}

-----------------------------------------------------------------------------
Behaviours == {"OneBuyer", "TwoTabs", "Braintree", "PubSub", "Redis", "Email", "OneAsset", "TwoAssets",
               "Stellate", "Search", "Dashboard"}

MCInit ==
    /\ on \in Behaviours
    /\ Init
    /\ on = "OneBuyer" \/ stripeOrder.total = 300
    /\ on = "OneAsset" \/ assetStorage = "local"
    /\ on = "Stellate" \/ ~stellateDebugLogging
    /\ on = "Search" \/ searchConfig.totalItemsMaxSize = None
    /\ stellateLive = Stellate!Offers \ {<<"variant", v2>>}
    /\ stellateFound = {<<p1, s1>>}

\* One buyer: only r1 and h1 are at work.
OneBuyer ==
    /\ stripeRequest' = [stripeRequest EXCEPT ![r1] = stripeRequest'[r1]]
    /\ stripeHandler' = [stripeHandler EXCEPT ![h1] = stripeHandler'[h1]]

\* Two actors that are idle are alike, so the first of them begins.
InTurn(first, second, after) ==
    first.step = "idle" /\ second.step = "idle" => after.step = "idle"

\* Two tabs: the order keeps its total, so Stripe has one intent.
TwoTabs ==
    /\ stripeOrder'.total = stripeOrder.total
    /\ InTurn(stripeRequest[r1], stripeRequest[r2], stripeRequest'[r2])
    /\ InTurn(stripeHandler[h1], stripeHandler[h2], stripeHandler'[h2])

\* The same of two visitors, and of the first contents to be uploaded.
AssetsInTurn ==
    /\ InTurn(assetVisit[r1], assetVisit[r2], assetVisit'[r2])
    /\ \A n \in Names : j2 \in assetUploaded'[n] => \E m \in Names : j1 \in assetUploaded'[m]

\* So are two jobs that were not added, and the first of them is.
JobsInTurn == pubSubStatus[j1] = "none" => pubSubStatus'[j2] = "none"

\* One asset: the other one is not asked for.
OneAsset ==
    /\ AssetsInTurn
    /\ \A n \in Names : n.ext = "png" => assetUploaded'[n] = {}
    /\ \A v \in Visits : assetVisit'[v].step # "idle" =>
          assetVisit'[v].name.ext = "jpg" /\ assetVisit'[v].query \in OwnKey

\* Two assets: both are uploaded once and stay, and nothing fails.
TwoAssets ==
    /\ AssetsInTurn /\ assetFaults' = 0
    /\ \A n \in Names : assetUploaded'[n] # {} => assetSource'[n] # None
    /\ \A v \in Visits : assetVisit'[v].step # "idle" => assetVisit'[v].query \in SharedKey

\* One product changes: the other one, with its variant, stays where it is.
\* Where keys are cut, nothing fails and the search index stays as it was.
OneProduct ==
    /\ stellateDebugLogging =>
          stellateCount'.faults = 0 /\ \A p \in Products : stellateIndex'[p] = stellateIndex[p]
    /\ {<<"product", p1>>, <<"variant", v1>>} \subseteq stellateLive'
    /\ <<p1, s1>> \in stellateFound'

\* Where only some of it is counted, the index stays as it was during a search.
Searches == searchConfig.totalItemsMaxSize # None => searchChanges' = 0

\* Days go on until an order is too old for the dashboard, and a request is
\* answered before the second midnight.
RecentDays ==
    /\ \A o \in Orders : metricsPlaced'[o] # Never =>
          metricsToday' <= metricsPlaced'[o] + NrOfEntries + 1
    /\ metricsLoad'.step # "idle" => metricsToday' <= metricsLoad'.day + 1

Picked(plugin, Step) == on = plugin /\ Step /\ UNCHANGED on

MCNext ==
    \/ Picked("OneBuyer", StripeStep /\ OneBuyer) \/ Picked("TwoTabs", StripeStep /\ TwoTabs)
    \/ Picked("Braintree", BraintreeStep) \/ Picked("PubSub", PubSubStep /\ JobsInTurn)
    \/ Picked("Redis", RedisStep) \/ Picked("Email", EmailStep)
    \/ Picked("OneAsset", AssetsStep /\ OneAsset) \/ Picked("TwoAssets", AssetsStep /\ TwoAssets)
    \/ Picked("Stellate", StellateStep /\ OneProduct) \/ Picked("Search", SearchStep /\ Searches)
    \/ Picked("Dashboard", DashboardStep /\ RecentDays)

(* What the plugins, or what they wait for, go on doing: the fairness of    *)
(* each module.  As one of them runs at a time, one condition does for all. *)

StripeCalls ==
    /\ \/ Picked("OneBuyer", Stripe!Webhooks /\ OneBuyer)
       \/ Picked("TwoTabs", Stripe!Webhooks /\ TwoTabs)
    /\ UNCHANGED butStripe

Delivered(j) == Picked("PubSub", (\E p \in Processes : PubSub!Deliver(p, j)) /\ UNCHANGED butPubSub)

Settled == Picked("PubSub", PubSub!Settling /\ UNCHANGED butPubSub)

Mailed(h) ==
    Picked("Email", (\E e \in Events : Email!HandlerStep(<<e, h>>) \/ Email!ProcessStep(<<e, h>>))
                        /\ UNCHANGED butEmail)

Served(r) ==
    /\ \/ Picked("OneAsset", Assets!Serve(r) /\ OneAsset)
       \/ Picked("TwoAssets", Assets!Serve(r) /\ TwoAssets)
    /\ UNCHANGED butAssets

Purged == Picked("Stellate", Stellate!Purging /\ UNCHANGED butStellate)

MCSpec ==
    /\ MCInit /\ [][MCNext]_<<vars, on>>
    /\ WF_<<vars, on>>(StripeCalls \/ Delivered(j1) \/ Mailed(h1) \/ Served(r1) \/ Purged)
    /\ WF_<<vars, on>>(Delivered(j2) \/ Mailed(h2) \/ Served(r2))
    /\ WF_<<vars, on>>(Settled)
=============================================================================
