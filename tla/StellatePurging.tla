--------------------------- MODULE StellatePurging ---------------------------
(***************************************************************************)
(* The Stellate plugin: events of the shop are buffered by the default     *)
(* purge rules, and what a rule has buffered becomes purges of the cache   *)
(* that Stellate keeps in front of the shop's API.                         *)
(*                                                                         *)
(* Stellate is outside the repository: it keeps an answer until a purge    *)
(* names a type, or an entity of a type, that is in the answer.  That it   *)
(* also forgets an answer after some time is left out: it bounds how long  *)
(* the cache is wrong where nothing is purged.                             *)
(***************************************************************************)
EXTENDS Integers, Sequences, SequencesExt

CONSTANTS
    Products, Variants, Collections,
    ProductOf,      \* the product of every variant
    PurgeRules,     \* the option: the default rules, or some of them
    KeyLimit,       \* keys that are left of a purge when debugLogging is on: 5 in the code
    None,           \* not cached
    MaxEvents,      \* bound: events of the shop
    MaxFills,       \* bound: answers that go to the cache
    MaxFaults       \* bound: purges that fail, processes that stop

VARIABLES
    debugLogging,   \* an option of the plugin
    version,        \* the data of the shop
    live,           \* the products and variants that the shop offers
    found,          \* the searches that find each product: pairs of the two
    index,          \* of every product: what the search index has of it
    buffer,         \* of every purge rule: the keys of its events, in order
    purges,         \* requests to Stellate's API under way
    cache,          \* Stellate: the answers it keeps
    filling,        \* answers on their way from the shop to the cache
    excused,        \* history: pages whose answer nothing will purge, or overtook its purge
    count           \* events, answers and faults so far

vars == <<debugLogging, version, live, found, index, buffer, purges, cache, filling, excused, count>>

shop == <<version, live, found, index>>

-----------------------------------------------------------------------------
(* The shop's data, and the answers made of it.                             *)

Offers == ({"product"} \X Products) \cup ({"variant"} \X Variants)

Things == Offers \cup ({"collection"} \X Collections)

\* The product that an offer belongs to.
Owner(thing) == IF thing[1] = "variant" THEN ProductOf[thing[2]] ELSE thing[2]

\* A product that is offered is shown with its variants that are offered.
Shown(p) ==
    {thing \in Offers : Owner(thing) = p /\ {thing, <<"product", p>>} \subseteq live}

\* A product, a collection, a search in a collection.
Pages == ({"product"} \X Products) \cup ({"collection", "search"} \X Collections)

\* What a page should show.
OnPage(page) ==
    CASE page[1] = "product" -> Shown(page[2])
      [] page[1] = "collection" -> {page}
      [] page[1] = "search" -> UNION {Shown(p) : p \in {p \in Products : <<p, page[2]>> \in found}}

\* A product as the index has it: the searches that find it, and what they show.
Entry(p) ==
    [in |-> {c \in Collections : <<p, c>> \in found},
     shows |-> [thing \in Shown(p) |-> version[thing]]]

\* What a page shows. A search is answered from the index.
Answer(page) ==
    IF page[1] = "search"
    THEN LET rows == {p \in Products : page[2] \in index[p].in}
         IN  [thing \in UNION {DOMAIN index[p].shows : p \in rows} |->
                index[Owner(thing)].shows[thing]]
    ELSE [thing \in OnPage(page) |-> version[thing]]

\* An answer shows something that has changed or is not there any more. What it
\* lacks, a new variant or a product that the search would find now, does not
\* count: see QuietCacheIsFresh.
Outdated(page, answer) ==
    \E thing \in DOMAIN answer : thing \notin OnPage(page) \/ answer[thing] # version[thing]

\* The types and keys Stellate finds in a cached answer. A search names the
\* collection, as the documentation asks storefronts to.
Tags(page) ==
    LET shown == IF cache[page] = None THEN {} ELSE DOMAIN cache[page]
        owners == {Owner(thing) : thing \in shown}
    IN  CASE page[1] = "product" ->
               ({"Product"} \X owners)
                   \cup {<<"ProductVariant", v>> : v \in {v \in Variants : <<"variant", v>> \in shown}}
          [] page[1] = "collection" -> {<<"Collection", page[2]>>}
          [] page[1] = "search" ->
               ({"SearchResult"} \X owners)
                   \cup {<<"SearchResponse", "any">>, <<"SearchResponseCacheIdentifier", page[2]>>}

-----------------------------------------------------------------------------
(* default-purge-rules.ts.                                                  *)

OfProduct == {"product", "productChannel"}
OfVariant == {"variant", "variantChannel", "stockMovement"}
DefaultPurgeRules == OfProduct \cup OfVariant \cup {"collection", "collectionModification", "taxRate"}

\* What an event of the rule's type is about.
Keys(rule) ==
    CASE rule \in OfProduct -> Products
      [] rule \in OfVariant -> Variants
      [] rule \in {"collection", "collectionModification"} -> Collections
      [] rule = "taxRate" -> {"rates"}

\* What has changed when the event is published. A CollectionModificationEvent
\* without variants stands for no change, and is not purged.
Changed(rule, key) ==
    CASE rule \in OfProduct -> {<<"product", key>>}
      [] rule \in OfVariant -> {<<"variant", key>>}
      [] rule = "collection" -> {<<"collection", key>>}
      [] rule = "collectionModification" -> {}
      [] rule = "taxRate" -> {"variant"} \X Variants

\* What may have come or gone with it: an offer, and what searches find.
Toggled(rule, key) ==
    IF rule \in (OfProduct \cup OfVariant) \ {"stockMovement"} THEN Changed(rule, key) ELSE {}

Moved(rule, key) ==
    CASE rule \in OfProduct -> {key} \X Collections
      [] rule \in OfVariant -> {ProductOf[key]} \X Collections
      [] rule = "collectionModification" -> Products \X {key}
      [] rule \in {"collection", "taxRate"} -> {}

\* StellateService.purge. Logging the payload cuts the keys that are sent.
Sent(keys) ==
    IF debugLogging /\ Len(keys) > KeyLimit THEN SubSeq(keys, 1, KeyLimit) ELSE keys

Purge(type, keys) == [type |-> type, all |-> FALSE, keys |-> ToSet(keys)]

All(type) == [type |-> type, all |-> TRUE, keys |-> {}]

\* A slip of SearchKeys: the variant's own id.
OwnKeys(rule, keys) == keys

\* purgeSearchResults: results are found by the id of the product.
SearchKeys(rule, keys) ==
    IF rule \in OfVariant THEN [i \in DOMAIN keys |-> ProductOf[keys[i]]] ELSE keys

\* The handler of a rule, for the keys of the events it has buffered.
Handler(rule, keys) ==
    CASE rule \in OfProduct ->
            {Purge("Product", keys), Purge("SearchResult", SearchKeys(rule, keys))}
      [] rule \in OfVariant ->
            {Purge("ProductVariant", keys), Purge("SearchResult", SearchKeys(rule, keys))}
      [] rule = "collection" -> {Purge("Collection", keys)}
      [] rule = "collectionModification" ->
            {Purge("Collection", keys), Purge("SearchResponseCacheIdentifier", keys)}
      [] rule = "taxRate" -> {All("ProductVariant"), All("Product"), All("SearchResponse")}

Purged(purge, page) ==
    \E tag \in Tags(page) : tag[1] = purge.type /\ (purge.all \/ tag[2] \in purge.keys)

PagesOf(set) == {page \in Pages : \E purge \in set : Purged(purge, page)}

-----------------------------------------------------------------------------
Init ==
    /\ debugLogging \in BOOLEAN
    /\ version = [thing \in Things |-> 0]
    /\ live \in SUBSET Offers
    /\ found \in SUBSET (Products \X Collections)
    /\ index = [p \in Products |-> Entry(p)]
    /\ buffer = [rule \in PurgeRules |-> <<>>]
    /\ purges = {}
    /\ cache = [page \in Pages |-> None]
    /\ filling = [page \in Pages |-> None]
    /\ excused = {}
    /\ count = [events |-> 0, fills |-> 0, faults |-> 0]

Counted(what, bound) ==
    /\ count[what] < bound
    /\ count' = [count EXCEPT ![what] = @ + 1]

\* The data changes, and the event bus hands the event to the rule's buffer.
Change(rule, key) ==
    /\ Counted("events", MaxEvents)
    /\ version' = [thing \in Things |->
                      IF thing \in Changed(rule, key) THEN version[thing] + 1 ELSE version[thing]]
    /\ \E on \in SUBSET Toggled(rule, key) : live' = (live \ Toggled(rule, key)) \cup on
    /\ \E in \in SUBSET Moved(rule, key) : found' = (found \ Moved(rule, key)) \cup in
    /\ buffer' = [buffer EXCEPT ![rule] = Append(@, key)]
    /\ UNCHANGED <<debugLogging, index, purges, cache, filling, excused>>

\* The search plugin brings its index up to date, some time after an event.
Index(p) ==
    /\ index[p] # Entry(p)
    /\ index' = [index EXCEPT ![p] = Entry(p)]
    /\ UNCHANGED <<debugLogging, version, live, found, buffer, purges, cache, filling, excused, count>>

\* A slip of MayClose: a batch is not worth a call before it has two events.
MayCloseBatch(rule) == Len(buffer[rule]) > 1

\* debounceTime emits only after an event.
MayClose(rule) == buffer[rule] # <<>>

\* No event of the rule has come for bufferTimeMs. The handler's requests are
\* not awaited.
Close(rule) ==
    /\ MayClose(rule)
    /\ LET all == Handler(rule, buffer[rule])
           sent == Handler(rule, Sent(buffer[rule]))
       IN  /\ purges' = purges \cup sent
           /\ excused' = excused \cup (PagesOf(all) \ PagesOf(sent))
    /\ buffer' = [buffer EXCEPT ![rule] = <<>>]
    /\ UNCHANGED <<debugLogging, shop, cache, filling, count>>

\* Stellate purges.
Arrive(purge) ==
    /\ purge \in purges
    /\ purges' = purges \ {purge}
    /\ cache' = [page \in Pages |-> IF Purged(purge, page) THEN None ELSE cache[page]]
    /\ excused' = excused \ PagesOf({purge})
    /\ UNCHANGED <<debugLogging, shop, buffer, filling, count>>

\* The request fails or times out, or Stellate refuses: it is logged.
Fail(purge) ==
    /\ purge \in purges
    /\ Counted("faults", MaxFaults)
    /\ purges' = purges \ {purge}
    /\ excused' = excused \cup PagesOf({purge})
    /\ UNCHANGED <<debugLogging, shop, buffer, cache, filling>>

\* The process stops with what its rules have buffered.
Stop ==
    /\ Counted("faults", MaxFaults)
    /\ excused' = excused \cup PagesOf(UNION {Handler(rule, buffer[rule]) : rule \in PurgeRules})
    /\ buffer' = [rule \in PurgeRules |-> <<>>]
    /\ UNCHANGED <<debugLogging, shop, purges, cache, filling>>

\* A page that is not cached is asked for: the shop answers.
Fetch(page) ==
    /\ cache[page] = None /\ filling[page] = None
    /\ Counted("fills", MaxFills)
    /\ filling' = [filling EXCEPT ![page] = Answer(page)]
    /\ UNCHANGED <<debugLogging, shop, buffer, purges, cache, excused>>

\* Stellate keeps the answer.
Fill(page) ==
    /\ filling[page] # None
    /\ cache' = [cache EXCEPT ![page] = filling[page]]
    /\ filling' = [filling EXCEPT ![page] = None]
    /\ excused' = IF Outdated(page, filling[page]) THEN excused \cup {page} ELSE excused \ {page}
    /\ UNCHANGED <<debugLogging, shop, buffer, purges, count>>

Next ==
    \/ \E rule \in PurgeRules : Close(rule) \/ \E key \in Keys(rule) : Change(rule, key)
    \/ \E purge \in purges : Arrive(purge) \/ Fail(purge)
    \/ \E p \in Products : Index(p)
    \/ Stop
    \/ \E page \in Pages : Fetch(page) \/ Fill(page)

Spec == Init /\ [][Next]_vars

\* Events of a type pause for the time of the buffer in the end, and requests
\* are answered.
Purging == (\E rule \in PurgeRules : Close(rule)) \/ (\E purge \in purges : Arrive(purge))

Fairness == WF_vars(Purging)

-----------------------------------------------------------------------------
(* Properties.                                                              *)

\* What a page could ever show.
MayShow(page) ==
    CASE page[1] = "product" -> {thing \in Offers : Owner(thing) = page[2]}
      [] page[1] = "collection" -> {page}
      [] page[1] = "search" -> Offers

\* The cache, the buffers and the purges keep their types: what a rule buffers
\* is of the rule's kind, and an answer shows what its page can.
TypeOK ==
    /\ debugLogging \in BOOLEAN
    /\ version \in [Things -> Nat]
    /\ live \in SUBSET Offers /\ found \in SUBSET (Products \X Collections)
    /\ \A p \in Products :
          index[p].in \in SUBSET Collections /\ DOMAIN index[p].shows \subseteq MayShow(<<"product", p>>)
    /\ \A rule \in PurgeRules : buffer[rule] \in Seq(Keys(rule))
    /\ \A page \in Pages :
          /\ cache[page] = None \/ DOMAIN cache[page] \subseteq MayShow(page)
          /\ filling[page] = None \/ DOMAIN filling[page] \subseteq MayShow(page)
    /\ excused \in SUBSET Pages

Stale(page) == cache[page] # None /\ Outdated(page, cache[page]) /\ page \notin excused

\* What a cached answer shows, and nothing waits to purge, is what the shop has:
\* unless a purge of it was lost, or cut short for the log, or the answer came
\* to the cache out of date (late, or from an index that was), and none of the
\* purges since was of it. It is not said that the answer lacks nothing: the
\* page of a product has no tag of a variant that is added to it, nor a search
\* one of a product that it would find from now on.
QuietCacheIsFresh ==
    (purges = {} /\ \A rule \in PurgeRules : buffer[rule] = <<>>) => \A page \in Pages : ~Stale(page)

\* A change reaches the cache: what is stale is purged in the end, although
\* nothing is while events of its type go on coming.
StalePageIsPurged == []<>(\A page \in Pages : ~Stale(page))

\* The comment of debugLogging: it logs "the calls that would be made". The
\* calls that are made lose all but the first keys.
LoggingPurgesEverything ==
    [][\A rule \in PurgeRules : Close(rule) => Handler(rule, buffer[rule]) \subseteq purges']_vars
=============================================================================
