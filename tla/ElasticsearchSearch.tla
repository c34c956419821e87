------------------------- MODULE ElasticsearchSearch -------------------------
(***************************************************************************)
(* A search of the Elasticsearch plugin: the body that is built from its   *)
(* input, and the requests an answer is put together from (the items, the  *)
(* total of a search grouped by product, the facet values), between which  *)
(* the index may change.                                                   *)
(*                                                                         *)
(* Elasticsearch is outside the repository: a request sees the documents   *)
(* the index has then, and a query is what its clauses say.  The index has *)
(* one shard, so that a terms aggregation counts exactly; a cardinality    *)
(* aggregation does for small numbers.  The scores, the term and the       *)
(* sorting do not change how many results there are.                       *)
(***************************************************************************)
EXTENDS Integers, FiniteSets, FiniteSetsExt

CONSTANTS
    Documents,      \* variants that can be in the index
    FacetValues,
    Inputs,         \* searches that are made
    None,           \* not given
    DefaultTake,    \* 10 in the code
    SearchConfigs,  \* options of the search that are looked at
    Precision,      \* up to here a cardinality aggregation is exact: 3000
    MaxChanges      \* bound: changes of the index during a search

VARIABLES
    searchConfig,   \* the options
    index,          \* the documents
    search,         \* the local state of a search
    answer,         \* what it has so far
    changes         \* changes of the index since it began

vars == <<searchConfig, index, search, answer, changes>>

Document ==
    [product : Nat, enabled : BOOLEAN, facetValueIds : SUBSET FacetValues, price : Nat,
     inStock : BOOLEAN, productInStock : BOOLEAN]

Filter == [and : FacetValues \cup {None}, or : SUBSET FacetValues]

\* inStock: "any" stands for undefined.
Input ==
    [facetValueIds : SUBSET FacetValues, all : BOOLEAN, facetValueFilters : SUBSET Filter,
     maxPrice : Nat \cup {None}, inStock : {"any", "yes", "no"}, groupByProduct : BOOLEAN,
     skip : Nat, take : Nat]

\* totalItemsMaxSize: 10000 by default. None stands for true, and 0 for false.
\* facetValueMaxSize: 50 by default.
SearchConfig == [totalItemsMaxSize : Nat \cup {None}, facetValueMaxSize : Nat]

-----------------------------------------------------------------------------
(* buildElasticBody.                                                        *)

\* bool.must and bool.should, in a filter.
Must(d, values) == values \subseteq d.facetValueIds
Should(d, values) == values \cap d.facetValueIds # {}

\* A filter with both is refused.
Invalid(filter) == filter.and # None /\ filter.or # {}

PassesFilter(d, filter) ==
    /\ filter.and # None => filter.and \in d.facetValueIds
    /\ filter.or # {} => Should(d, filter.or)

InStock(d, input) == IF input.groupByProduct THEN d.productInStock ELSE d.inStock

Matches(d, input, enabledOnly) ==
    /\ enabledOnly => d.enabled
    /\ input.facetValueIds # {} =>
          IF input.all THEN Must(d, input.facetValueIds) ELSE Should(d, input.facetValueIds)
    /\ \A filter \in input.facetValueFilters : PassesFilter(d, filter)
    /\ input.maxPrice # None => d.price <= input.maxPrice
    /\ input.inStock # "any" => InStock(d, input) = (input.inStock = "yes")

Hits(input, enabledOnly) == {d \in index : Matches(d, input, enabledOnly)}

ProductsOf(documents) == {d.product : d \in documents}

\* collapse keeps one hit of a product.
Results(input, enabledOnly) ==
    IF input.groupByProduct THEN Cardinality(ProductsOf(Hits(input, enabledOnly)))
    ELSE Cardinality(Hits(input, enabledOnly))

\* size: take || 10.
Size(input) == IF input.take = 0 THEN DefaultTake ELSE input.take

\* from and size.
Page(input, enabledOnly) ==
    Min({Size(input), Max({0, Results(input, enabledOnly) - input.skip})})

\* track_total_hits: how far an ordinary search counts its hits. Where it does
\* not, hits.total is missing.
Tracked(n) ==
    IF searchConfig.totalItemsMaxSize = None THEN n ELSE Min({searchConfig.totalItemsMaxSize, n})

-----------------------------------------------------------------------------
(* Aggregations.                                                            *)

\* What a cardinality of n may be said to be.
Estimates(n) == IF n <= Precision THEN {n} ELSE 0 .. 2 * n

\* A slip of TotalHits: the documents are counted, and not their products.
TotalOfVariants(input) == Cardinality(Hits(input, input.groupByProduct))

\* totalHits, a cardinality of productId. The caller passes groupByProduct
\* where enabledOnly is expected.
TotalHits(input) == Cardinality(ProductsOf(Hits(input, input.groupByProduct)))

\* The documents of a facet value: of what is enabled, in both APIs.
Bucket(f, input) == {d \in Hits(input, TRUE) : f \in d.facetValueIds}

Larger(f, g, input) == Cardinality(Bucket(f, input)) >= Cardinality(Bucket(g, input))

\* Buckets that a terms aggregation may return: the largest that are not empty.
Kept(input) ==
    LET filled == {f \in FacetValues : Bucket(f, input) # {}}
    IN  {kept \in SUBSET filled :
           /\ Cardinality(kept) <= searchConfig.facetValueMaxSize
           /\ \A g \in filled \ kept :
                 /\ Cardinality(kept) = searchConfig.facetValueMaxSize
                 /\ \A f \in kept : Larger(f, g, input)}

\* The count of one bucket: doc_count, or the cardinality inside it.
BucketCounts(f, input) ==
    IF input.groupByProduct THEN Estimates(Cardinality(ProductsOf(Bucket(f, input))))
    ELSE {Cardinality(Bucket(f, input))}

-----------------------------------------------------------------------------
NoInput ==
    [facetValueIds |-> {}, all |-> FALSE, facetValueFilters |-> {}, maxPrice |-> None,
     inStock |-> "any", groupByProduct |-> FALSE, skip |-> 0, take |-> 0]

NoAnswer == [items |-> 0, totalItems |-> 0, counts |-> [f \in {} |-> 0]]

Idle == [step |-> "idle", shop |-> TRUE, input |-> NoInput]

Init ==
    /\ searchConfig \in SearchConfigs
    /\ index = {}
    /\ search = Idle
    /\ answer = NoAnswer
    /\ changes = 0

\* An indexing job adds or removes a document.
ChangeIndex(d) ==
    /\ changes < MaxChanges
    /\ changes' = IF search.step = "idle" THEN 0 ELSE changes + 1
    /\ index' = IF d \in index THEN index \ {d} ELSE index \cup {d}
    /\ UNCHANGED <<searchConfig, search, answer>>

Goto(step) == search' = [search EXCEPT !.step = step]

\* The shop's resolver searches what is enabled, that of the admin everything.
Begin(input, shop) ==
    /\ search.step = "idle"
    /\ search' = [step |-> IF \E f \in input.facetValueFilters : Invalid(f) THEN "refused" ELSE "items",
                  shop |-> shop, input |-> input]
    /\ UNCHANGED <<searchConfig, index, answer, changes>>

\* search: hits.total counts an ordinary search.
Items ==
    /\ search.step = "items"
    /\ answer' = [answer EXCEPT
          !.items = Page(search.input, search.shop),
          !.totalItems = IF search.input.groupByProduct THEN 0
                         ELSE Tracked(Results(search.input, search.shop))]
    /\ Goto(IF search.input.groupByProduct THEN "total" ELSE "facets")
    /\ UNCHANGED <<searchConfig, index, changes>>

Total ==
    /\ search.step = "total"
    /\ \E n \in Estimates(TotalHits(search.input)) : answer' = [answer EXCEPT !.totalItems = n]
    /\ Goto("facets")
    /\ UNCHANGED <<searchConfig, index, changes>>

\* facetValues and getDistinctBucketsOfField. A private facet is left out.
FacetCounts ==
    /\ search.step = "facets"
    /\ \E kept \in Kept(search.input) :
          \E counts \in [kept -> UNION {BucketCounts(f, search.input) : f \in kept}] :
              /\ \A f \in kept : counts[f] \in BucketCounts(f, search.input)
              /\ answer' = [answer EXCEPT !.counts = counts]
    /\ Goto("answered")
    /\ UNCHANGED <<searchConfig, index, changes>>

Leave ==
    /\ search.step \in {"answered", "refused"}
    /\ search' = Idle
    /\ answer' = NoAnswer
    /\ changes' = 0
    /\ UNCHANGED <<searchConfig, index>>

Next ==
    \/ \E d \in Documents : ChangeIndex(d)
    \/ \E input \in Inputs, shop \in BOOLEAN : Begin(input, shop)
    \/ Items \/ Total \/ FacetCounts \/ Leave

Spec == Init /\ [][Next]_vars

-----------------------------------------------------------------------------
(* Properties.                                                              *)

\* The index, the search and the numbers it has gathered keep their types.
TypeOK ==
    /\ searchConfig \in SearchConfigs
    /\ index \in SUBSET Documents
    /\ search.step \in {"idle", "items", "total", "facets", "answered", "refused"}
    /\ search.shop \in BOOLEAN
    /\ search.input \in Inputs \cup {NoInput}
    /\ answer.items \in Nat /\ answer.totalItems \in Nat
    /\ \E kept \in SUBSET FacetValues : answer.counts \in [kept -> Nat]
    /\ changes \in Nat

\* The search with one more facet value selected.
Narrowed(input, f) == [input EXCEPT !.facetValueFilters = @ \cup {[and |-> f, or |-> {}]}]

\* What all pages of a search in the shop hold, and the number is exact.
Found(input) == Results(input, TRUE)

Exact(input) == input.groupByProduct => Found(input) <= Precision

\* The numbers of an answer in the shop agree with each other, whatever the
\* filters and the grouping: the total is that of all pages, as far as an
\* ordinary search counts, and the count of a facet value is what selecting it
\* too would find, which the total of that search need not show. A facet value
\* is only left out if nothing has it, or if the answer has as many as it may and
\* none of fewer documents. A change of the index between the requests, and a
\* number of products too large to be exact, make the numbers differ.
NumbersAgree ==
    (search.step = "answered" /\ search.shop /\ changes = 0) =>
        LET input == search.input
            listed == DOMAIN answer.counts
        IN  /\ ~input.groupByProduct => answer.totalItems = Tracked(Found(input))
            /\ input.groupByProduct /\ Exact(input) =>
                  answer.totalItems = Found(input) /\ answer.items <= answer.totalItems
            /\ \A f \in listed : Exact(Narrowed(input, f)) =>
                  answer.counts[f] = Found(Narrowed(input, f))
            /\ \A g \in FacetValues \ listed :
                  \/ Hits(Narrowed(input, g), TRUE) = {}
                  \/ /\ Cardinality(listed) = searchConfig.facetValueMaxSize
                     /\ \A f \in listed : Cardinality(Hits(Narrowed(input, f), TRUE))
                                            >= Cardinality(Hits(Narrowed(input, g), TRUE))

\* The same of a search in the admin, whose total leaves out what is disabled
\* when it is grouped by product.
AdminTotalIsOfItsItems ==
    (search.step = "answered" /\ changes = 0
        /\ search.input.groupByProduct /\ Results(search.input, FALSE) <= Precision)
            => answer.items <= answer.totalItems
=============================================================================
