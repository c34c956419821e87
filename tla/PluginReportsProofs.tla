------------------------- MODULE PluginReportsProofs -------------------------
(*****************************************************************************)
(* What is proved of the numbers of a search and of the dashboard, and of the*)
(* types of all plugins.                                                     *)
(*****************************************************************************)
EXTENDS Plugins, FiniteSetTheorems, WellFoundedInduction, PluginPaymentsProofs,
        PluginQueuesProofs, PluginCachesProofs, TLAPS

-----------------------------------------------------------------------------
(* Searches.                                                                 *)

\* Cardinality is the same inside the module.
LEMMA SearchCounts == \A S : Search!Cardinality(S) = Cardinality(S)
BY DEF Search!Cardinality, Cardinality

-----------------------------------------------------------------------------
(* Counting.                                                                 *)

\* The larger, and the smaller, of two numbers.
LEMMA MaxWithZero ==
    ASSUME NEW n \in Int
    PROVE  Search!Max({0, n}) = IF n >= 0 THEN n ELSE 0
<1> DEFINE m == IF n >= 0 THEN n ELSE 0
<1>1. m \in {0, n} /\ \A y \in {0, n} : m >= y
  OBVIOUS
<1>2. ASSUME NEW x \in {0, n}, \A y \in {0, n} : x >= y
      PROVE  x = m
  BY <1>2
<1> HIDE DEF m
<1>3. Search!Max({0, n}) = m
  BY <1>1, <1>2 DEF Search!Max
<1> QED
  BY <1>3 DEF m

LEMMA MinOfTwo ==
    ASSUME NEW k \in Int, NEW n \in Int
    PROVE  Search!Min({k, n}) = IF k <= n THEN k ELSE n
<1> DEFINE m == IF k <= n THEN k ELSE n
<1>1. m \in {k, n} /\ \A y \in {k, n} : m =< y
  OBVIOUS
<1>2. ASSUME NEW x \in {k, n}, \A y \in {k, n} : x =< y
      PROVE  x = m
  BY <1>2
<1> HIDE DEF m
<1>3. Search!Min({k, n}) = m
  BY <1>1, <1>2 DEF Search!Min
<1> QED
  BY <1>3 DEF m

\* A set of documents and their products are counted by a number.
LEMMA ProductsCount ==
    ASSUME NEW D, IsFiniteSet(D)
    PROVE  IsFiniteSet(Search!ProductsOf(D)) /\ Cardinality(Search!ProductsOf(D)) \in Nat
<1> DEFINE f == [d \in D |-> d.product]
<1>1. f \in Surjection(D, Search!ProductsOf(D))
  BY DEF Surjection, Search!ProductsOf
<1>2. IsFiniteSet(Search!ProductsOf(D))
  BY <1>1, FS_Surjection
<1> QED
  BY <1>2, FS_CardinalityType

\* There are finitely many hits, and a number of results.
LEMMA HitsAreFinite ==
    ASSUME IsFiniteSet(searchIndex), NEW input, NEW enabledOnly
    PROVE  IsFiniteSet(Search!Hits(input, enabledOnly))
BY FS_Subset DEF Search!Hits

\* The number of the results, without the operators of the module's own library.
LEMMA ResultsAre ==
    ASSUME NEW input, NEW enabledOnly
    PROVE  Search!Results(input, enabledOnly) =
               IF input.groupByProduct
                    THEN Cardinality(Search!ProductsOf(Search!Hits(input, enabledOnly)))
               ELSE Cardinality(Search!Hits(input, enabledOnly))
BY SearchCounts DEF Search!Results

LEMMA TotalHitsAre ==
    ASSUME NEW input
    PROVE  Search!TotalHits(input) =
             Cardinality(Search!ProductsOf(Search!Hits(input, input.groupByProduct)))
BY SearchCounts DEF Search!TotalHits

LEMMA ResultsCount ==
    ASSUME IsFiniteSet(searchIndex), NEW input, NEW enabledOnly
    PROVE  Search!Results(input, enabledOnly) \in Nat
<1> DEFINE hits == Search!Hits(input, enabledOnly)
<1>1. IsFiniteSet(hits)
  BY HitsAreFinite
<1>2. Cardinality(hits) \in Nat /\ Cardinality(Search!ProductsOf(hits)) \in Nat
  BY <1>1, ProductsCount, FS_CardinalityType
<1> QED
  BY <1>2, ResultsAre

\* An input that is searched for has the fields of one.
LEMMA InputsAreInputs ==
    Inputs \cup {Search!NoInput} \subseteq Search!Input
<1>1. Search!NoInput \in Search!Input
  <2>1. {} \in SUBSET FacetValues /\ {} \in SUBSET Search!Filter /\ 0 \in Nat
          /\ None \in Nat \cup {None}
    OBVIOUS
  <2> QED
    BY <2>1, Zenon DEF Search!Input, Search!NoInput
<1> QED
  BY <1>1, SearchAssumption

\* A page holds some of the results.
LEMMA PageIsPart ==
    ASSUME IsFiniteSet(searchIndex), NEW input \in Search!Input, NEW enabledOnly
    PROVE  Search!Page(input, enabledOnly) \in Nat
             /\ Search!Page(input, enabledOnly) <= Search!Results(input, enabledOnly)
<1> DEFINE n == Search!Results(input, enabledOnly)
           left == Search!Max({0, n - input.skip})
<1>1. n \in Nat
  BY ResultsCount
<1>2. input.skip \in Nat /\ input.take \in Nat
  BY DEF Search!Input
<1>3. Search!Size(input) \in Nat
  BY <1>2, SearchAssumption DEF Search!Size
<1>4. left \in Nat /\ left <= n
  <2> DEFINE k == n - input.skip
  <2>1. k \in Int /\ k <= n
    BY <1>1, <1>2
  <2>2. Search!Max({0, k}) = IF k >= 0 THEN k ELSE 0
    BY <2>1, MaxWithZero
  <2> QED
    BY <1>1, <2>1, <2>2
<1>5. Search!Page(input, enabledOnly) = Search!Min({Search!Size(input), left})
  BY DEF Search!Page
<1> HIDE DEF n, left
<1>6. Search!Min({Search!Size(input), left}) = IF Search!Size(input) <= left
        THEN Search!Size(input) ELSE left
  BY <1>3, <1>4, MinOfTwo
<1> QED
  BY <1>1, <1>3, <1>4, <1>5, <1>6 DEF n

\* Selecting a facet value leaves the documents of its bucket.
LEMMA NarrowedHits ==
    ASSUME NEW input \in Search!Input, NEW f \in FacetValues
    PROVE  /\ Search!Narrowed(input, f) \in Search!Input
           /\ Search!Narrowed(input, f).groupByProduct = input.groupByProduct
           /\ Search!Hits(Search!Narrowed(input, f), TRUE) = Search!Bucket(f, input)
<1> DEFINE selected == [and |-> f, or |-> {}]
           narrowed == Search!Narrowed(input, f)
<1>1. /\ narrowed \in Search!Input
      /\ narrowed.facetValueIds = input.facetValueIds /\ narrowed.all = input.all
      /\ narrowed.facetValueFilters = input.facetValueFilters \cup {selected}
      /\ narrowed.maxPrice = input.maxPrice
      /\ narrowed.inStock = input.inStock /\ narrowed.groupByProduct = input.groupByProduct
  <2>1. selected \in Search!Filter
    BY DEF Search!Filter
  <2> QED
    BY <2>1 DEF Search!Narrowed, Search!Input
<1> HIDE DEF narrowed
<1>2. ASSUME NEW d PROVE Search!PassesFilter(d, selected) <=> f \in d.facetValueIds
  BY SearchAssumption DEF Search!PassesFilter
<1> HIDE DEF selected
<1>3. ASSUME NEW d
      PROVE  (\A filter \in narrowed.facetValueFilters : Search!PassesFilter(d, filter))
                <=> (\A filter \in input.facetValueFilters : Search!PassesFilter(d, filter))
                       /\ f \in d.facetValueIds
  BY <1>1, <1>2
<1>4. ASSUME NEW d
      PROVE  Search!Matches(d, narrowed, TRUE) <=> Search!Matches(d, input, TRUE)
               /\ f \in d.facetValueIds
  BY <1>1, <1>3 DEF Search!Matches, Search!InStock
<1>5. Search!Hits(narrowed, TRUE) = Search!Bucket(f, input)
  BY <1>4 DEF Search!Hits, Search!Bucket
<1> QED
  BY <1>1, <1>5 DEF narrowed

-----------------------------------------------------------------------------
(* The inductive invariant.                                                  *)

\* The local state of a search, and of its answer.
SearchState == [step : {"idle", "items", "total", "facets", "answered", "refused"},
                shop : BOOLEAN, input : Inputs \cup {Search!NoInput}]

SearchAnswerState ==
    [items : Nat, totalItems : Nat, counts : UNION {[kept -> Nat] : kept \in SUBSET FacetValues}]

SearchTypes ==
    /\ searchConfig \in SearchConfigs
    /\ searchIndex \in SUBSET Documents /\ IsFiniteSet(searchIndex)
    /\ searchSearch \in SearchState
    /\ searchAnswer \in SearchAnswerState
    /\ searchChanges \in Nat

\* The facet values of an answer, and their counts, are right for an input.
CountsRight(input, counts) ==
    /\ \A f \in DOMAIN counts :
          /\ f \in FacetValues
          /\ Search!Exact(Search!Narrowed(input, f)) =>
                counts[f] = Search!Found(Search!Narrowed(input, f))
    /\ \A g \in FacetValues \ DOMAIN counts :
          \/ Search!Bucket(g, input) = {}
          \/ /\ Search!Cardinality(DOMAIN counts) = searchConfig.facetValueMaxSize
             /\ \A f \in DOMAIN counts : Search!Larger(f, g, input)

\* So is the total.
TotalRight(input, total) ==
    /\ ~input.groupByProduct => total = Search!Tracked(Search!Found(input))
    /\ input.groupByProduct /\ Search!Exact(input) => total = Search!Found(input)

\* What the answer has is about the index as it is, until it changes.
Gathered ==
    /\ searchSearch.step \in {"total", "facets", "answered"}
         => searchAnswer.items <= Search!Found(searchSearch.input)
    /\ searchSearch.step = "total" => searchSearch.input.groupByProduct
    /\ searchSearch.step \in {"facets", "answered"}
         => TotalRight(searchSearch.input, searchAnswer.totalItems)
    /\ searchSearch.step = "answered" => CountsRight(searchSearch.input, searchAnswer.counts)

\* The inductive invariant.
SearchInv ==
    /\ SearchTypes
    /\ searchSearch.shop /\ searchChanges = 0 => Gathered

LEMMA NoAnswerYet == Search!NoAnswer \in SearchAnswerState
<1>1. [f \in {} |-> 0] \in [{} -> Nat] /\ {} \in SUBSET FacetValues
  OBVIOUS
<1> QED
  BY <1>1 DEF Search!NoAnswer, SearchAnswerState

LEMMA SearchInit == Search!Init => SearchInv
<1> SUFFICES ASSUME Search!Init PROVE SearchInv
  OBVIOUS
<1>1. SearchTypes
  BY FS_EmptySet, NoAnswerYet DEF Search!Init, SearchTypes, SearchState, Search!Idle
<1> QED
  BY <1>1 DEF SearchInv, Gathered, Search!Init, Search!Idle

\* What an aggregation may say is a number, the right one where it is exact.
LEMMA EstimatesAre ==
    ASSUME NEW n \in Nat
    PROVE  Search!Estimates(n) \subseteq Nat /\ (n <= Precision => Search!Estimates(n) = {n})
<1>1. CASE n <= Precision
  BY <1>1 DEF Search!Estimates
<1>2. CASE ~(n <= Precision)
  BY <1>2 DEF Search!Estimates
<1> QED
  BY <1>1, <1>2

\* How far hits are tracked is a number.
LEMMA TrackedIsNumber ==
    ASSUME searchConfig \in SearchConfigs, NEW n \in Nat
    PROVE  Search!Tracked(n) \in Nat
<1> DEFINE cap == searchConfig.totalItemsMaxSize
<1>1. cap = None \/ cap \in Nat
  BY SearchAssumption DEF Search!SearchConfig
<1>2. CASE cap = None
  BY <1>2 DEF Search!Tracked
<1>3. CASE cap # None
  <2>1. cap \in Nat /\ Search!Tracked(n) = Search!Min({cap, n})
    BY <1>1, <1>3 DEF Search!Tracked
  <2> HIDE DEF cap
  <2> QED
    BY <2>1, MinOfTwo
<1> QED
  BY <1>2, <1>3

\* The count of a bucket is that of the narrowed search.
LEMMA BucketsCount ==
    ASSUME IsFiniteSet(searchIndex), NEW input \in Search!Input, NEW f \in FacetValues,
           NEW n \in Search!BucketCounts(f, input)
    PROVE  /\ n \in Nat
           /\ Search!Exact(Search!Narrowed(input, f)) =>
                 n = Search!Found(Search!Narrowed(input, f))
<1> DEFINE found == Search!Found(Search!Narrowed(input, f))
<1>1. found = IF input.groupByProduct
              THEN Cardinality(Search!ProductsOf(Search!Bucket(f, input)))
              ELSE Cardinality(Search!Bucket(f, input))
  BY NarrowedHits, ResultsAre DEF Search!Found
<1>2. found \in Nat
  BY ResultsCount DEF Search!Found
<1>3. Search!Narrowed(input, f).groupByProduct = input.groupByProduct
  BY NarrowedHits
<1>4. n \in IF input.groupByProduct THEN Search!Estimates(found) ELSE {found}
  BY <1>1, SearchCounts DEF Search!BucketCounts
<1>5. Search!Exact(Search!Narrowed(input, f)) => (input.groupByProduct => found <= Precision)
  BY <1>3 DEF Search!Exact
<1> HIDE DEF found
<1> QED
  BY <1>2, <1>4, <1>5, EstimatesAre DEF found

\* What FacetCounts finds.
LEMMA FacetCountsFinds ==
    ASSUME SearchTypes, Search!FacetCounts
    PROVE  \E counts \in UNION {[kept -> Nat] : kept \in SUBSET FacetValues} :
              /\ searchAnswer' = [searchAnswer EXCEPT !.counts = counts]
              /\ CountsRight(searchSearch.input, counts)
<1> DEFINE input == searchSearch.input
           filled == {f \in FacetValues : Search!Bucket(f, input) # {}}
<1>1. input \in Search!Input /\ IsFiniteSet(searchIndex)
  BY InputsAreInputs DEF SearchTypes, SearchState
<1>2. PICK kept \in Search!Kept(input) :
        \E counts \in [kept -> UNION {Search!BucketCounts(f, input) : f \in kept}] :
            /\ \A f \in kept : counts[f] \in Search!BucketCounts(f, input)
            /\ searchAnswer' = [searchAnswer EXCEPT !.counts = counts]
  BY DEF Search!FacetCounts
<1>3. PICK counts \in [kept -> UNION {Search!BucketCounts(f, input) : f \in kept}] :
            /\ \A f \in kept : counts[f] \in Search!BucketCounts(f, input)
            /\ searchAnswer' = [searchAnswer EXCEPT !.counts = counts]
  BY <1>2
<1>4. /\ kept \in SUBSET FacetValues
      /\ \A g \in FacetValues \ kept :
            \/ Search!Bucket(g, input) = {}
            \/ /\ Search!Cardinality(kept) = searchConfig.facetValueMaxSize
               /\ \A f \in kept : Search!Larger(f, g, input)
  BY DEF Search!Kept
<1> HIDE DEF input
<1>5. \A f \in kept :
        /\ counts[f] \in Nat
        /\ Search!Exact(Search!Narrowed(input, f)) =>
              counts[f] = Search!Found(Search!Narrowed(input, f))
  BY <1>1, <1>3, <1>4, BucketsCount
<1>6. DOMAIN counts = kept /\ counts \in [kept -> Nat]
  BY <1>3, <1>5
<1>7. CountsRight(input, counts)
  BY <1>4, <1>5, <1>6 DEF CountsRight
<1> QED
  BY <1>3, <1>4, <1>6, <1>7 DEF input

\* Every step keeps the types.
LEMMA SearchKeepsTypes == SearchInv /\ [Search!Next]_(Search!vars) => SearchTypes'
<1> SUFFICES ASSUME SearchInv, [Search!Next]_(Search!vars) PROVE SearchTypes'
  OBVIOUS
<1> USE DEF SearchInv, SearchTypes
<1> DEFINE input == searchSearch.input
<1>input. /\ input \in Inputs \cup {Search!NoInput} /\ input \in Search!Input
          /\ searchSearch.shop \in BOOLEAN /\ input.groupByProduct \in BOOLEAN
  <2>1. input \in Inputs \cup {Search!NoInput} /\ searchSearch.shop \in BOOLEAN
    BY DEF SearchState
  <2>2. input \in Search!Input
    BY <2>1, InputsAreInputs
  <2> QED
    BY <2>1, <2>2 DEF Search!Input
<1>goto. ASSUME NEW step \in {"idle", "items", "total", "facets", "answered", "refused"},
                      Search!Goto(step)
         PROVE  searchSearch' \in SearchState
  BY <1>goto DEF Search!Goto, SearchState
<1> HIDE DEF input
<1>1. CASE \E d \in Documents : Search!ChangeIndex(d)
  <2> PICK d \in Documents : Search!ChangeIndex(d)
    BY <1>1
  <2>1. IsFiniteSet(searchIndex \ {d}) /\ IsFiniteSet(searchIndex \cup {d})
    BY FS_AddElement, FS_RemoveElement
  <2> QED
    BY <2>1 DEF Search!ChangeIndex
<1>2. CASE \E i \in Inputs, shop \in BOOLEAN : Search!Begin(i, shop)
  BY <1>2 DEF Search!Begin, SearchState
<1>3. CASE Search!Items
  <2>1. searchSearch' \in SearchState
    BY <1>3, <1>goto DEF Search!Items
  <2>2. Search!Page(input, searchSearch.shop) \in Nat
          /\ Search!Results(input, searchSearch.shop) \in Nat
    BY <1>input, PageIsPart, ResultsCount
  <2> DEFINE items == Search!Page(input, searchSearch.shop)
             total == IF input.groupByProduct THEN 0
               ELSE Search!Tracked(Search!Results(input, searchSearch.shop))
  <2>3. searchAnswer' = [searchAnswer EXCEPT !.items = items, !.totalItems = total]
    BY <1>3 DEF Search!Items, input
  <2>4. items \in Nat /\ total \in Nat
    BY <2>2, TrackedIsNumber
  <2> HIDE DEF items, total
  <2>5. searchAnswer' \in SearchAnswerState
    BY <2>3, <2>4 DEF SearchAnswerState
  <2> QED
    BY <1>3, <2>1, <2>5 DEF Search!Items
<1>4. CASE Search!Total
  <2>1. searchSearch' \in SearchState
    BY <1>4, <1>goto DEF Search!Total
  <2>2. Search!TotalHits(searchSearch.input) \in Nat
    BY HitsAreFinite, ProductsCount, TotalHitsAre
  <2>3. searchAnswer' \in SearchAnswerState
    <3>1. PICK n \in Search!Estimates(Search!TotalHits(searchSearch.input)) :
             searchAnswer' = [searchAnswer EXCEPT !.totalItems = n]
      BY <1>4 DEF Search!Total
    <3>2. n \in Nat
      BY <2>2, EstimatesAre
    <3> QED
      BY <3>1, <3>2 DEF SearchAnswerState
  <2> QED
    BY <1>4, <2>1, <2>3 DEF Search!Total
<1>5. CASE Search!FacetCounts
  <2>1. searchSearch' \in SearchState
    BY <1>5, <1>goto DEF Search!FacetCounts
  <2>2. PICK counts \in UNION {[kept -> Nat] : kept \in SUBSET FacetValues} :
               searchAnswer' = [searchAnswer EXCEPT !.counts = counts]
    BY <1>5, FacetCountsFinds
  <2>3. searchAnswer' \in SearchAnswerState
    BY <2>2 DEF SearchAnswerState
  <2> QED
    BY <1>5, <2>1, <2>3 DEF Search!FacetCounts
<1>6. CASE Search!Leave
  <2>1. Search!NoAnswer \in SearchAnswerState
    BY NoAnswerYet
  <2> QED
    BY <1>6, <2>1 DEF Search!Leave, Search!Idle, SearchState
<1>7. CASE UNCHANGED Search!vars
  BY <1>7 DEF Search!vars
<1> QED
  BY <1>1, <1>2, <1>3, <1>4, <1>5, <1>6, <1>7 DEF Search!Next

\* Every step keeps the numbers, as long as the index stays.
LEMMA SearchKeepsGathered ==
    SearchInv /\ [Search!Next]_(Search!vars)
      => (searchSearch.shop /\ searchChanges = 0 => Gathered)'
<1> SUFFICES ASSUME SearchInv, [Search!Next]_(Search!vars), searchSearch'.shop,
                      searchChanges' = 0
             PROVE  Gathered'
  OBVIOUS
<1> USE DEF SearchInv, SearchTypes
<1> DEFINE input == searchSearch.input
<1>input. input \in Search!Input /\ input.groupByProduct \in BOOLEAN
  <2>1. input \in Inputs \cup {Search!NoInput}
    BY DEF SearchState
  <2>2. input \in Search!Input
    BY <2>1, InputsAreInputs
  <2> QED
    BY <2>1, <2>2 DEF Search!Input
\* As long as the index stays, so does what an input finds.
<1>same. ASSUME UNCHANGED <<searchConfig, searchIndex>>, NEW i, NEW total, NEW counts
         PROVE  /\ Search!Found(i)' = Search!Found(i)
                /\ TotalRight(i, total)' <=> TotalRight(i, total)
                /\ CountsRight(i, counts)' <=> CountsRight(i, counts)
  <2>1. \A j, e : Search!Hits(j, e)' = Search!Hits(j, e)
    BY <1>same DEF Search!Hits
  <2>2. \A j : Search!Found(j)' = Search!Found(j)
    BY <2>1 DEF Search!Found, Search!Results
  <2>3. \A j : Search!Exact(j)' <=> Search!Exact(j)
    BY <2>2 DEF Search!Exact
  <2>4. \A f : Search!Bucket(f, i)' = Search!Bucket(f, i)
    BY <2>1 DEF Search!Bucket
  <2>5. \A f, g : Search!Larger(f, g, i)' <=> Search!Larger(f, g, i)
    BY <2>4 DEF Search!Larger
  <2>6. \A n : Search!Tracked(n)' = Search!Tracked(n)
    BY <1>same DEF Search!Tracked
  <2>7. TotalRight(i, total)' <=> TotalRight(i, total)
    BY <2>2, <2>3, <2>6 DEF TotalRight
  <2>8. CountsRight(i, counts)' <=> CountsRight(i, counts)
    BY <1>same, <2>2, <2>3, <2>4, <2>5 DEF CountsRight
  <2> QED
    BY <2>2, <2>7, <2>8
<1>goto. ASSUME NEW step \in {"total", "facets", "answered"}, Search!Goto(step)
         PROVE  searchSearch'.step = step /\ searchSearch'.input = input
                  /\ searchSearch'.shop = searchSearch.shop
  BY <1>goto DEF Search!Goto, SearchState
<1>1. CASE \E d \in Documents : Search!ChangeIndex(d)
  <2>1. UNCHANGED searchSearch /\ searchChanges' = IF searchSearch.step = "idle" THEN 0
          ELSE searchChanges + 1
    BY <1>1 DEF Search!ChangeIndex
  <2>2. searchSearch'.step = "idle"
    BY <2>1
  <2> QED
    BY <2>2 DEF Gathered
<1>2. CASE \E i \in Inputs, shop \in BOOLEAN : Search!Begin(i, shop)
  BY <1>2 DEF Search!Begin, Gathered
<1>3. CASE Search!Items
  <2> DEFINE items == Search!Page(input, searchSearch.shop)
             total == IF input.groupByProduct THEN 0
               ELSE Search!Tracked(Search!Results(input, searchSearch.shop))
  <2>1. /\ searchSearch'.step = IF input.groupByProduct THEN "total" ELSE "facets"
        /\ searchSearch'.input = input /\ searchSearch'.shop = searchSearch.shop
    BY <1>3, <1>goto DEF Search!Items
  <2>2. searchSearch.shop
    BY <2>1
  <2>3. searchAnswer'.items = items /\ searchAnswer'.totalItems = total
    BY <1>3 DEF Search!Items, SearchAnswerState
  <2>4. items <= Search!Found(input)
    BY <1>input, <2>2, PageIsPart DEF SearchState, Search!Found
  <2>5. ~input.groupByProduct => TotalRight(input, total)
    BY <2>2 DEF TotalRight, SearchState, Search!Found
  <2>6. UNCHANGED <<searchConfig, searchIndex>>
    BY <1>3 DEF Search!Items
  <2> HIDE DEF items, total
  <2> QED
    BY <1>same, <1>input, <2>1, <2>3, <2>4, <2>5, <2>6 DEF Gathered
<1>4. CASE Search!Total
  <2>1. Gathered /\ searchSearch.step = "total"
    BY <1>4, <1>goto DEF Search!Total
  <2>2. PICK n \in Search!Estimates(Search!TotalHits(input)) :
           searchAnswer' = [searchAnswer EXCEPT !.totalItems = n]
    BY <1>4 DEF Search!Total
  <2>3. input.groupByProduct
    BY <2>1 DEF Gathered
  <2>4. Search!TotalHits(input) = Search!Found(input) /\ Search!Found(input) \in Nat
    BY <1>input, <2>3, TotalHitsAre, ResultsAre, ResultsCount DEF Search!Found
  <2>5. TotalRight(input, n)
    BY <2>2, <2>3, <2>4, EstimatesAre DEF TotalRight, Search!Exact
  <2>6. searchAnswer'.totalItems = n /\ searchAnswer'.items = searchAnswer.items
    BY <2>2 DEF SearchAnswerState
  <2>7. UNCHANGED <<searchConfig, searchIndex>> /\ searchSearch'.step = "facets"
          /\ searchSearch'.input = input
    BY <1>4, <1>goto DEF Search!Total
  <2> QED
    BY <1>same, <2>1, <2>5, <2>6, <2>7 DEF Gathered
<1>5. CASE Search!FacetCounts
  <2>1. Gathered /\ searchSearch.step = "facets"
    BY <1>5, <1>goto DEF Search!FacetCounts
  <2>2. PICK counts : searchAnswer' = [searchAnswer EXCEPT !.counts = counts]
                        /\ CountsRight(input, counts)
    BY <1>5, FacetCountsFinds
  <2>3. /\ searchAnswer'.items = searchAnswer.items
        /\ searchAnswer'.totalItems = searchAnswer.totalItems
        /\ searchAnswer'.counts = counts
    BY <2>2 DEF SearchAnswerState
  <2>4. UNCHANGED <<searchConfig, searchIndex>> /\ searchSearch'.input = input
          /\ searchSearch'.step = "answered"
    BY <1>5, <1>goto DEF Search!FacetCounts
  <2> QED
    BY <1>same, <2>1, <2>2, <2>3, <2>4 DEF Gathered
<1>6. CASE Search!Leave
  BY <1>6 DEF Search!Leave, Search!Idle, Gathered
<1>7. CASE UNCHANGED Search!vars
  BY <1>7, <1>same DEF Search!vars, Gathered
<1> QED
  BY <1>1, <1>2, <1>3, <1>4, <1>5, <1>6, <1>7 DEF Search!Next

LEMMA SearchInvStep == SearchInv /\ [Search!Next]_(Search!vars) => SearchInv'
BY SearchKeepsTypes, SearchKeepsGathered DEF SearchInv

LEMMA SearchInvSuffices == SearchInv => Search!TypeOK /\ Search!NumbersAgree
<1> SUFFICES ASSUME SearchInv PROVE Search!TypeOK /\ Search!NumbersAgree
  OBVIOUS
<1>1. Search!TypeOK
  BY DEF SearchInv, SearchTypes, SearchState, SearchAnswerState, Search!TypeOK
<1>2. Search!NumbersAgree
  <2> SUFFICES ASSUME searchSearch.step = "answered", searchSearch.shop, searchChanges = 0
               PROVE  Search!NumbersAgree
    BY DEF Search!NumbersAgree
  <2> DEFINE input == searchSearch.input
             counts == searchAnswer.counts
  <2>1. /\ input \in Search!Input /\ DOMAIN counts \subseteq FacetValues
    BY InputsAreInputs DEF SearchInv, SearchTypes, SearchState, SearchAnswerState
  <2>2. /\ searchAnswer.items <= Search!Found(input)
        /\ TotalRight(input, searchAnswer.totalItems) /\ CountsRight(input, counts)
    BY DEF SearchInv, Gathered
  <2>3. \A f \in FacetValues :
          Search!Hits(Search!Narrowed(input, f), TRUE) = Search!Bucket(f, input)
    BY <2>1, NarrowedHits
  <2>4. \A g \in FacetValues \ DOMAIN counts :
          \/ Search!Hits(Search!Narrowed(input, g), TRUE) = {}
          \/ /\ Search!Cardinality(DOMAIN counts) = searchConfig.facetValueMaxSize
             /\ \A f \in DOMAIN counts :
                  Search!Cardinality(Search!Hits(Search!Narrowed(input, f), TRUE))
                    >= Search!Cardinality(Search!Hits(Search!Narrowed(input, g), TRUE))
    BY <2>1, <2>2, <2>3 DEF CountsRight, Search!Larger
  <2> QED
    BY <2>2, <2>4 DEF TotalRight, CountsRight, Search!NumbersAgree
<1> QED
  BY <1>1, <1>2

\* Seen from a search a step of another plugin is none.
LEMMA SearchAlone == Spec => Search!Spec
<1>1. Init => Search!Init
  BY DEF Init
<1>2. [Next]_vars => [Search!Next]_(Search!vars)
  BY DEF Next, vars, Search!vars, searchVars, StripeStep, BraintreeStep,
         PubSubStep, RedisStep, EmailStep, AssetsStep, StellateStep, SearchStep, DashboardStep,
         butStripe, butBraintree, butPubSub, butRedis, butEmail, butAssets, butStellate,
         butSearch, butDashboard
<1> QED
  BY <1>1, <1>2, PTL DEF Spec, Search!Spec

\* In the shop the total of a search is that of its pages, as far as an ordinary
\* search counts, the count of a facet value what selecting it would find, and
\* no facet value is left out for one of fewer documents: for every catalogue,
\* every input and both limits of the options (totalItemsMaxSize,
\* facetValueMaxSize), as long as the index does not change between the requests
\* and there are not more products than Elasticsearch counts exactly.
THEOREM SearchNumbersAgree == Spec => []NumbersAgree
<1>1. SearchInv => NumbersAgree
  BY SearchInvSuffices DEF NumbersAgree
<1> QED
  BY <1>1, SearchAlone, SearchInit, SearchInvStep, PTL DEF Search!Spec

-----------------------------------------------------------------------------
(* Metrics.                                                                  *)

\* Cardinality is the same inside the module.
LEMMA MetricsCounts == \A S : Dashboard!Cardinality(S) = Cardinality(S)
BY DEF Dashboard!Cardinality, Cardinality

-----------------------------------------------------------------------------
(* Years.                                                                    *)

\* The leap years before a year, and the first day of it.
LeapYearsBefore(y) == Cardinality(LeapYears \cap (0 .. y - 1))

LEMMA FirstOfIs ==
    ASSUME NEW y
    PROVE  Dashboard!FirstOf(y) = MaxTick * y + LeapYearsBefore(y)
BY MetricsCounts DEF Dashboard!FirstOf, LeapYearsBefore

\* One more for a leap year, and no fewer later.
LEMMA LeapYearsCount ==
    ASSUME NEW y \in Nat
    PROVE  /\ LeapYearsBefore(y) \in Nat
           /\ LeapYearsBefore(y + 1) = LeapYearsBefore(y) + (IF y \in LeapYears THEN 1 ELSE 0)
           /\ \A z \in Nat : y <= z => LeapYearsBefore(y) <= LeapYearsBefore(z)
<1> DEFINE before(z) == LeapYears \cap (0 .. z - 1)
<1>1. ASSUME NEW z \in Nat PROVE IsFiniteSet(before(z)) /\ Cardinality(before(z)) \in Nat
  <2>1. IsFiniteSet(0 .. z - 1)
    BY FS_Interval
  <2>2. before(z) \in SUBSET (0 .. z - 1)
    OBVIOUS
  <2>3. IsFiniteSet(before(z))
    BY <2>1, <2>2, FS_Subset
  <2> QED
    BY <2>3, FS_CardinalityType
<1>2. before(y + 1) = IF y \in LeapYears THEN before(y) \cup {y} ELSE before(y)
  OBVIOUS
<1>3. y \notin before(y)
  OBVIOUS
<1>4. ASSUME NEW z \in Nat, y <= z PROVE before(y) \in SUBSET before(z)
  BY <1>4
<1> HIDE DEF before
<1>5. Cardinality(before(y + 1)) = Cardinality(before(y)) + (IF y \in LeapYears THEN 1 ELSE 0)
  BY <1>1, <1>2, <1>3, FS_AddElement
<1>6. ASSUME NEW z \in Nat, y <= z PROVE Cardinality(before(y)) <= Cardinality(before(z))
  BY <1>1, <1>4, <1>6, FS_Subset
<1>7. \A z : LeapYearsBefore(z) = Cardinality(before(z))
  BY DEF LeapYearsBefore, before
<1> QED
  BY <1>1, <1>5, <1>6, <1>7

\* A year has MaxTick days or one more, and a later year begins later.
LEMMA YearsFollowEachOther ==
    ASSUME NEW y \in Nat
    PROVE  /\ Dashboard!FirstOf(y) \in Nat
           /\ Dashboard!FirstOf(0) = 0
           /\ y <= Dashboard!FirstOf(y)
           /\ Dashboard!FirstOf(y + 1) \in {Dashboard!FirstOf(y) + MaxTick,
                Dashboard!FirstOf(y) + MaxTick + 1}
           /\ \A z \in Nat : y <= z => Dashboard!FirstOf(y) <= Dashboard!FirstOf(z)
<1>1. MaxTick \in Nat /\ MaxTick >= 1
  BY MetricsAssumption
<1>2. LeapYearsBefore(y) \in Nat
        /\ LeapYearsBefore(y + 1) \in {LeapYearsBefore(y), LeapYearsBefore(y) + 1}
  BY LeapYearsCount
<1>3. MaxTick * y \in Nat /\ y <= MaxTick * y /\ MaxTick * (y + 1) = MaxTick * y + MaxTick
  BY <1>1
<1>4. Dashboard!FirstOf(0) = 0
  <2>1. LeapYears \cap (0 .. 0 - 1) = {}
    OBVIOUS
  <2>2. LeapYearsBefore(0) = 0
    BY <2>1, FS_EmptySet DEF LeapYearsBefore
  <2> QED
    BY <1>1, <2>2, FirstOfIs
<1>5. ASSUME NEW z \in Nat, y <= z PROVE Dashboard!FirstOf(y) <= Dashboard!FirstOf(z)
  <2>1. LeapYearsBefore(z) \in Nat /\ LeapYearsBefore(y) <= LeapYearsBefore(z)
    BY <1>5, LeapYearsCount
  <2>2. MaxTick * y <= MaxTick * z /\ MaxTick * z \in Nat
    BY <1>1, <1>5
  <2> QED
    BY <1>2, <1>3, <2>1, <2>2, FirstOfIs
<1> QED
  BY <1>1, <1>2, <1>3, <1>4, <1>5, FirstOfIs

\* A set of numbers with a bound has a largest one.
LEMMA MaxExists ==
    ASSUME NEW n \in Nat, NEW S \in SUBSET (0 .. n), S # {}
    PROVE  Dashboard!Max(S) \in S /\ \A x \in S : Dashboard!Max(S) >= x
<1> DEFINE T == {n - x : x \in S}
           R == OpToRel(<, Nat)
<1>1. T \subseteq Nat /\ T # {}
  <2>1. \A x \in S : x \in Nat /\ x <= n /\ n - x \in Nat
    OBVIOUS
  <2>2. \A u \in T : u \in Nat
    BY <2>1
  <2>3. PICK x \in S : TRUE
    OBVIOUS
  <2>4. n - x \in T
    OBVIOUS
  <2> HIDE DEF T, R
  <2> QED
    BY <2>2, <2>4
<1>2. IsWellFoundedOn(R, Nat)
  BY NatLessThanWellFounded
<1> HIDE DEF T, R
<1>3. PICK t \in T : \A u \in T : ~(<<u, t>> \in R)
  BY <1>1, <1>2, WFMin
<1>4. \A u \in T : t <= u
  <2> SUFFICES ASSUME NEW u \in T, u < t PROVE FALSE
    BY <1>1, <1>3
  <2>1. u \in Nat /\ t \in Nat
    BY <1>1, <1>3
  <2>2. <<u, t>> \in {ss \in Nat \X Nat : ss[1] < ss[2]}
    BY <2>1
  <2>3. <<u, t>> \in R
    BY <2>2 DEF R, OpToRel
  <2> QED
    BY <1>3, <2>3
<1>5. PICK x \in S : t = n - x
  BY DEF T
<1>6. \A y \in S : x >= y
  <2> SUFFICES ASSUME NEW y \in S PROVE x >= y
    OBVIOUS
  <2>1. n - y \in T
    BY DEF T
  <2> QED
    BY <1>4, <1>5, <2>1
<1> QED
  BY <1>6 DEF Dashboard!Max

\* The year of a day is the one that has begun last.
LEMMA YearOfDay ==
    ASSUME NEW day \in Nat
    PROVE  /\ Dashboard!Year(day) \in Nat
           /\ Dashboard!FirstOf(Dashboard!Year(day)) <= day
           /\ day < Dashboard!FirstOf(Dashboard!Year(day) + 1)
<1> DEFINE S == {y \in 0 .. day : Dashboard!FirstOf(y) <= day}
<1>1. S \in SUBSET (0 .. day) /\ S # {}
  <2>1. Dashboard!FirstOf(0) = 0
    BY YearsFollowEachOther
  <2>2. 0 \in S
    BY <2>1
  <2> QED
    BY <2>2
<1>2. Dashboard!Year(day) = Dashboard!Max(S)
  BY DEF Dashboard!Year
<1>3. Dashboard!Year(day) \in S /\ \A y \in S : Dashboard!Year(day) >= y
  <2> HIDE DEF S
  <2> QED
    BY <1>1, <1>2, MaxExists
<1>4. day < Dashboard!FirstOf(Dashboard!Year(day) + 1)
  <2> DEFINE next == Dashboard!Year(day) + 1
  <2>1. next \in Nat /\ next \notin S
    BY <1>3
  <2>2. Dashboard!FirstOf(next) \in Nat /\ next <= Dashboard!FirstOf(next)
    BY <2>1, YearsFollowEachOther
  <2> HIDE DEF next
  <2>3. day < Dashboard!FirstOf(next)
    BY <2>1, <2>2
  <2> QED
    BY <2>3 DEF next
<1> QED
  BY <1>3, <1>4

\* A day and its number in the year.
LEMMA DayOfYear ==
    ASSUME NEW day \in Nat
    PROVE  /\ Dashboard!GetDayOfYear(day) \in Nat /\ Dashboard!GetDayOfYear(day) >= 1
           /\ day = Dashboard!FirstOf(Dashboard!Year(day)) + Dashboard!GetDayOfYear(day) - 1
<1> DEFINE first == Dashboard!FirstOf(Dashboard!Year(day))
<1>1. first <= day /\ first \in Nat
  <2>1. Dashboard!Year(day) \in Nat /\ Dashboard!FirstOf(Dashboard!Year(day)) <= day
    BY YearOfDay
  <2>2. Dashboard!FirstOf(Dashboard!Year(day)) \in Nat
    BY <2>1, YearsFollowEachOther
  <2> QED
    BY <2>1, <2>2
<1>2. Dashboard!GetDayOfYear(day) = day - first + 1
  BY DEF Dashboard!GetDayOfYear
<1> HIDE DEF first
<1>3. Dashboard!GetDayOfYear(day) \in Nat /\ Dashboard!GetDayOfYear(day) >= 1
        /\ day = first + Dashboard!GetDayOfYear(day) - 1
  BY <1>1, <1>2
<1> QED
  BY <1>3 DEF first

\* A day that follows another within less than a year is of the same year or
\* of the next.
LEMMA YearOfLaterDay ==
    ASSUME NEW s \in Nat, NEW p \in Nat, s < p, p <= s + NrOfEntries
    PROVE  Dashboard!Year(p) \in {Dashboard!Year(s), Dashboard!Year(s) + 1}
<1> DEFINE ys == Dashboard!Year(s)
           yp == Dashboard!Year(p)
<1>1. /\ ys \in Nat /\ Dashboard!FirstOf(ys) <= s /\ s < Dashboard!FirstOf(ys + 1)
      /\ yp \in Nat /\ Dashboard!FirstOf(yp) <= p /\ p < Dashboard!FirstOf(yp + 1)
  BY YearOfDay
<1> HIDE DEF ys, yp
<1>2. /\ Dashboard!FirstOf(ys) \in Nat /\ Dashboard!FirstOf(ys + 1) \in Nat
           /\ Dashboard!FirstOf(yp) \in Nat /\ Dashboard!FirstOf(yp + 1) \in Nat
      /\ Dashboard!FirstOf(ys + 2) \in Nat
           /\ Dashboard!FirstOf(ys + 2) >= Dashboard!FirstOf(ys + 1) + MaxTick
  <2>1. ys + 1 \in Nat /\ yp + 1 \in Nat /\ (ys + 1) + 1 = ys + 2 /\ ys + 2 \in Nat
    BY <1>1
  <2>2. Dashboard!FirstOf((ys + 1) + 1) \in {Dashboard!FirstOf(ys + 1) + MaxTick,
          Dashboard!FirstOf(ys + 1) + MaxTick + 1}
    BY <2>1, YearsFollowEachOther
  <2>3. /\ Dashboard!FirstOf(ys) \in Nat /\ Dashboard!FirstOf(ys + 1) \in Nat
             /\ Dashboard!FirstOf(yp) \in Nat
        /\ Dashboard!FirstOf(yp + 1) \in Nat /\ Dashboard!FirstOf(ys + 2) \in Nat
    BY <1>1, <2>1, YearsFollowEachOther
  <2> QED
    BY <2>1, <2>2, <2>3, MetricsAssumption
<1>3. yp >= ys
  <2> SUFFICES ASSUME yp + 1 <= ys PROVE FALSE
    BY <1>1
  <2>1. Dashboard!FirstOf(yp + 1) <= Dashboard!FirstOf(ys)
    BY <1>1, YearsFollowEachOther
  <2> QED
    BY <1>1, <1>2, <2>1
<1>4. yp <= ys + 1
  <2> SUFFICES ASSUME ys + 2 <= yp PROVE FALSE
    BY <1>1
  <2>1. Dashboard!FirstOf(ys + 2) <= Dashboard!FirstOf(yp)
    BY <1>1, YearsFollowEachOther
  <2> QED
    BY <1>1, <1>2, <2>1, MetricsAssumption
<1> QED
  BY <1>1, <1>3, <1>4 DEF ys, yp

\* The days of the last period have a tick each, but for the days at the end of
\* a year that RecentOrderIsCountedOnce leaves out.
LEMMA RecentDayHasTick ==
    ASSUME NEW day \in Nat, Dashboard!StartDate(day) \in Nat,
           Dashboard!StartTick(day) <= MaxTick,
           NEW p \in Nat, Dashboard!StartDate(day) < p,
           p <= Dashboard!StartDate(day) + NrOfEntries,
                 Dashboard!GetDayOfYear(p) < MaxTick
    PROVE  Dashboard!GetDayOfYear(p) \in Dashboard!Ticks(day)
<1> DEFINE s == Dashboard!StartDate(day)
           n == p - Dashboard!StartDate(day)
           tick == Dashboard!GetDayOfYear(p)
<1>0. MaxTick \in Nat /\ NrOfEntries \in Nat /\ NrOfEntries < MaxTick
  BY MetricsAssumption
<1>1. /\ s \in Nat /\ n \in 1 .. NrOfEntries /\ p = s + n
      /\ Dashboard!StartTick(day) \in Nat /\ Dashboard!StartTick(day) >= 1
           /\ s = Dashboard!FirstOf(Dashboard!Year(s)) + Dashboard!StartTick(day) - 1
      /\ tick \in Nat /\ tick >= 1 /\ p = Dashboard!FirstOf(Dashboard!Year(p)) + tick - 1
      /\ Dashboard!FirstOf(Dashboard!Year(s)) \in Nat
      /\ Dashboard!FirstOf(Dashboard!Year(s) + 1) \in
             {Dashboard!FirstOf(Dashboard!Year(s)) + MaxTick,
              Dashboard!FirstOf(Dashboard!Year(s)) + MaxTick + 1}
      /\ Dashboard!Year(p) \in {Dashboard!Year(s), Dashboard!Year(s) + 1}
  <2>1. s \in Nat /\ n \in 1 .. NrOfEntries /\ p = s + n
    BY <1>0
  <2>2. /\ Dashboard!StartTick(day) \in Nat /\ Dashboard!StartTick(day) >= 1
             /\ s = Dashboard!FirstOf(Dashboard!Year(s)) + Dashboard!StartTick(day) - 1
        /\ tick \in Nat /\ tick >= 1 /\ p = Dashboard!FirstOf(Dashboard!Year(p)) + tick - 1
    BY DayOfYear DEF Dashboard!StartTick
  <2>3. /\ Dashboard!FirstOf(Dashboard!Year(s)) \in Nat
        /\ Dashboard!FirstOf(Dashboard!Year(s) + 1) \in
               {Dashboard!FirstOf(Dashboard!Year(s)) + MaxTick,
                Dashboard!FirstOf(Dashboard!Year(s)) + MaxTick + 1}
    BY YearOfDay, YearsFollowEachOther
  <2>4. Dashboard!Year(p) \in {Dashboard!Year(s), Dashboard!Year(s) + 1}
    BY YearOfLaterDay
  <2> QED
    BY <2>1, <2>2, <2>3, <2>4
<1> SUFFICES ASSUME TRUE PROVE \E i \in 1 .. NrOfEntries : tick =
                      Dashboard!Wrapped(Dashboard!StartTick(day) + i)
  BY DEF Dashboard!Ticks
<1>2. tick < MaxTick /\ Dashboard!StartTick(day) <= MaxTick
  OBVIOUS
<1> HIDE DEF s, n, tick
<1>3. CASE Dashboard!Year(p) = Dashboard!Year(s)
  <2>1. tick = Dashboard!StartTick(day) + n
    BY <1>1, <1>3
  <2>2. tick = Dashboard!Wrapped(Dashboard!StartTick(day) + n)
    BY <1>0, <1>1, <1>2, <2>1 DEF Dashboard!Wrapped
  <2> QED
    BY <1>1, <2>2
<1>4. CASE Dashboard!Year(p) = Dashboard!Year(s) + 1
             /\ Dashboard!FirstOf(Dashboard!Year(s) + 1) =
             Dashboard!FirstOf(Dashboard!Year(s)) + MaxTick
  <2>1. tick = Dashboard!StartTick(day) + n - MaxTick
    BY <1>0, <1>1, <1>4
  <2>2. tick = Dashboard!Wrapped(Dashboard!StartTick(day) + n)
    BY <1>0, <1>1, <1>2, <2>1 DEF Dashboard!Wrapped
  <2> QED
    BY <1>1, <2>2
<1>5. CASE Dashboard!Year(p) = Dashboard!Year(s) + 1
             /\ Dashboard!FirstOf(Dashboard!Year(s) + 1) =
             Dashboard!FirstOf(Dashboard!Year(s)) + MaxTick + 1
  <2>1. tick = Dashboard!StartTick(day) + (n - 1) - MaxTick
    BY <1>0, <1>1, <1>5
  <2>2. n - 1 \in 1 .. NrOfEntries
    BY <1>0, <1>1, <1>2, <2>1
  <2>3. tick = Dashboard!Wrapped(Dashboard!StartTick(day) + (n - 1))
    BY <1>0, <1>1, <1>2, <2>1, <2>2 DEF Dashboard!Wrapped
  <2> QED
    BY <2>2, <2>3
<1> QED
  BY <1>1, <1>3, <1>4, <1>5

-----------------------------------------------------------------------------
(* Pages.                                                                    *)

\* The rows of a query are numbered from 0, in the order of their ids.
LEMMA Ranks ==
    ASSUME NEW rows \in SUBSET Nat, IsFiniteSet(rows), NEW o \in rows
    PROVE  /\ Dashboard!Rank(o, rows) \in Nat
           /\ Cardinality(rows) \in Nat /\ Dashboard!Rank(o, rows) < Cardinality(rows)
           /\ Cardinality({p \in rows : p <= o}) = Dashboard!Rank(o, rows) + 1
           /\ IsFiniteSet({p \in rows : p <= o})
<1> DEFINE below == {p \in rows : p < o}
           upto == {p \in rows : p <= o}
<1>1. IsFiniteSet(below) /\ Cardinality(below) \in Nat
  BY FS_Subset, FS_CardinalityType
<1>2. upto = below \cup {o} /\ o \notin below
  <2>1. \A p \in rows : p \in Nat /\ o \in Nat /\ (p <= o <=> p < o \/ p = o)
    OBVIOUS
  <2>2. ~(o < o)
    BY <2>1
  <2> QED
    BY <2>1, <2>2
<1>3. IsFiniteSet(upto) /\ Cardinality(upto) = Cardinality(below) + 1
  BY <1>1, <1>2, FS_AddElement
<1>4. Cardinality(rows) \in Nat /\ Cardinality(upto) <= Cardinality(rows)
  <2>1. upto \subseteq rows
    OBVIOUS
  <2> QED
    BY <2>1, FS_Subset, FS_CardinalityType
<1>5. Dashboard!Rank(o, rows) = Cardinality(below)
  BY MetricsCounts DEF Dashboard!Rank
<1> HIDE DEF below
<1> QED
  BY <1>1, <1>3, <1>4, <1>5

LEMMA RanksIncrease ==
    ASSUME NEW rows \in SUBSET Nat, IsFiniteSet(rows), NEW p \in rows, NEW o \in rows, p < o
    PROVE  Dashboard!Rank(p, rows) < Dashboard!Rank(o, rows)
<1> DEFINE below == {q \in rows : q < o}
           upto == {q \in rows : q <= p}
<1>1. upto \subseteq below /\ IsFiniteSet(below)
  <2>1. \A q \in rows : q \in Nat /\ p \in Nat /\ o \in Nat /\ (q <= p => q < o)
    OBVIOUS
  <2>2. below \in SUBSET rows
    OBVIOUS
  <2> QED
    BY <2>1, <2>2, FS_Subset
<1>2. Cardinality(upto) <= Cardinality(below) /\ Cardinality(below) \in Nat
  BY <1>1, FS_Subset, FS_CardinalityType
<1>3. Cardinality(upto) = Dashboard!Rank(p, rows) + 1 /\ Dashboard!Rank(p, rows) \in Nat
  BY Ranks
<1>4. Dashboard!Rank(o, rows) = Cardinality(below)
  BY MetricsCounts DEF Dashboard!Rank
<1> HIDE DEF below, upto
<1> QED
  BY <1>2, <1>3, <1>4

\* Rows with numbers of an interval are no more than the interval has.
LEMMA FewRanks ==
    ASSUME NEW rows \in SUBSET Nat, IsFiniteSet(rows), NEW S \in SUBSET rows,
           NEW k \in Nat, NEW n \in Nat,
           \A o \in S : k <= Dashboard!Rank(o, rows) /\ Dashboard!Rank(o, rows) < k + n
    PROVE  IsFiniteSet(S) /\ Cardinality(S) \in Nat /\ Cardinality(S) <= n
<1> DEFINE T == k .. k + n - 1
           f == [o \in S |-> Dashboard!Rank(o, rows)]
<1>1. IsFiniteSet(S) /\ Cardinality(S) \in Nat
  BY FS_Subset, FS_CardinalityType
<1>2. IsFiniteSet(T) /\ Cardinality(T) = n
  BY FS_Interval
<1>3. f \in [S -> T]
  <2>1. ASSUME NEW o \in S PROVE Dashboard!Rank(o, rows) \in T
    <3>1. Dashboard!Rank(o, rows) \in Nat
      BY Ranks
    <3> QED
      BY <3>1
  <2> HIDE DEF T
  <2> QED
    BY <2>1
<1>4. \A o, p \in S : f[o] = f[p] => o = p
  <2> SUFFICES ASSUME NEW o \in S, NEW p \in S, f[o] = f[p], o # p PROVE FALSE
    OBVIOUS
  <2>1. o \in rows /\ p \in rows /\ (o < p \/ p < o)
    OBVIOUS
  <2>2. f[o] \in Nat /\ f[p] \in Nat /\ (f[o] < f[p] \/ f[p] < f[o])
    BY <2>1, RanksIncrease, Ranks
  <2> HIDE DEF f
  <2> QED
    BY <2>2
<1>5. f \in Injection(S, T)
  BY <1>3, <1>4 DEF Injection, IsInjective
<1> HIDE DEF f, T
<1>6. Cardinality(S) <= Cardinality(T)
  BY <1>2, <1>5, FS_Injection
<1> QED
  BY <1>1, <1>2, <1>6

\* A page goes on where the rows before it end, and leaves none out.
LEMMA PageGoesOn ==
    ASSUME NEW rows \in SUBSET Nat, IsFiniteSet(rows), NEW skip \in Nat
    PROVE  LET items == Dashboard!Page(rows, skip) IN
           /\ Cardinality(items) \in Nat
           /\ \A o \in rows :
                 /\ Dashboard!Rank(o, rows) \in Nat
                 /\ Dashboard!Rank(o, rows) < skip + Cardinality(items)
                      <=> Dashboard!Rank(o, rows) < skip \/ o \in items
                 /\ o \in items => skip <= Dashboard!Rank(o, rows)
<1> DEFINE items == Dashboard!Page(rows, skip)
           rank(o) == Dashboard!Rank(o, rows)
<1>0. Take \in Nat
  BY MetricsAssumption
<1>1. \A o \in rows : rank(o) \in Nat
  BY Ranks
<1>2. \A o \in rows : o \in items <=> skip <= rank(o) /\ rank(o) < skip + Take
  BY <1>0, <1>1 DEF Dashboard!Page
<1>3. items \subseteq rows
  BY DEF Dashboard!Page
<1> HIDE DEF items, rank
<1>4. IsFiniteSet(items) /\ Cardinality(items) \in Nat /\ Cardinality(items) <= Take
  BY <1>0, <1>2, <1>3, FewRanks DEF rank
<1>5. ASSUME NEW o \in rows, o \in items PROVE rank(o) < skip + Cardinality(items)
  <2> DEFINE upto == {p \in rows : p <= o}
             before == {p \in upto : rank(p) < skip}
  <2>1. IsFiniteSet(upto) /\ Cardinality(upto) = rank(o) + 1
    BY Ranks DEF rank
  <2>2. IsFiniteSet(before) /\ Cardinality(before) \in Nat /\ Cardinality(before) <= skip
    <3>1. before \in SUBSET rows
      OBVIOUS
    <3>2. \A p \in before : 0 <= Dashboard!Rank(p, rows) /\ Dashboard!Rank(p, rows) < 0 + skip
      BY <1>1 DEF rank
    <3> HIDE DEF before
    <3> QED
      BY <3>1, <3>2, FewRanks
  <2>3. upto \ before \subseteq items
    <3> SUFFICES ASSUME NEW p \in rows, p <= o, ~(rank(p) < skip) PROVE p \in items
      OBVIOUS
    <3>1. p = o \/ rank(p) < rank(o)
      BY RanksIncrease DEF rank
    <3> QED
      BY <1>0, <1>1, <1>2, <1>5, <3>1
  <2>4. upto = before \cup (upto \ before) /\ before \cap (upto \ before) = {}
    OBVIOUS
  <2> HIDE DEF upto, before
  <2>5. /\ IsFiniteSet(upto \ before) /\ Cardinality(upto \ before) \in Nat
        /\ Cardinality(upto \ before) <= Cardinality(items)
    BY <1>4, <2>3, FS_Subset, FS_CardinalityType
  <2>6. Cardinality(upto) = Cardinality(before) + Cardinality(upto \ before)
    BY <2>2, <2>4, <2>5, FS_Union, FS_EmptySet
  <2> QED
    BY <1>1, <1>4, <2>1, <2>2, <2>5, <2>6
<1>6. ASSUME NEW o \in rows
      PROVE  rank(o) < skip + Cardinality(items) <=> rank(o) < skip \/ o \in items
  BY <1>0, <1>1, <1>2, <1>4, <1>5
<1> QED
  BY <1>1, <1>2, <1>4, <1>6 DEF items, rank

-----------------------------------------------------------------------------
(* The inductive invariant.                                                  *)

\* What an answer with these entries says of the order o.
CountedOnce(o, day, entries) ==
    (/\ metricsPlaced[o] > day - NrOfEntries
     /\ Dashboard!GetDayOfYear(metricsPlaced[o]) < MaxTick
     /\ Dashboard!GetDayOfYear(day - NrOfEntries) <= MaxTick)
        => /\ Cardinality({e \in entries : e.orders[o] # 0}) = 1
           /\ \A e \in {e \in entries : e.orders[o] # 0} : e.orders[o] = 1
           /\ Dashboard!Year(metricsPlaced[o]) = Dashboard!Year(day) =>
                  \A e \in {e \in entries : e.orders[o] # 0} : e.date = metricsPlaced[o]

\* An answer counts orders that were placed.
AnswerOK(a) ==
    /\ a = [day |-> a.day, asked |-> a.asked, known |-> a.known, entries |-> a.entries]
    /\ a.known \in SUBSET Orders
    /\ \A o \in a.known : metricsPlaced[o] # Never /\ CountedOnce(o, a.day, a.entries)

\* A request has read the rows before its next page once, of those that it is
\* to count.
ReadOnce(x) ==
    \A o \in Dashboard!Unmoved \cap Dashboard!Rows(x.day) :
        x.read[o] = IF Dashboard!Rank(o, Dashboard!Rows(x.day)) < x.skip THEN 1 ELSE 0

LoadState == [step : {"idle", "page", "count"}, day : Nat \cup {Never}, known : SUBSET Orders,
              read : [Orders -> Nat], skip : Nat]

LoadOK ==
    /\ metricsLoad \in LoadState
    /\ metricsLoad.step # "idle" =>
          /\ metricsLoad.day \in FirstDay .. metricsToday
          /\ \A o \in metricsLoad.known :
                metricsPlaced[o] # Never /\ metricsPlaced[o] <= metricsLoad.day
          /\ ReadOnce(metricsLoad)

\* The inductive invariant.
MetricsInv ==
    /\ metricsToday \in FirstDay .. LastDay
    /\ metricsPlaced \in [Orders -> (FirstDay .. LastDay) \cup {Never}]
    /\ \A o \in Orders : metricsPlaced[o] # Never => metricsPlaced[o] <= metricsToday
    /\ LoadOK
    /\ AnswerOK(metricsCache) /\ AnswerOK(metricsAnswer)
    /\ metricsCache # Dashboard!NoAnswer => metricsCache.day = metricsToday
    /\ metricsAnswer.day = metricsAnswer.asked

LEMMA RowsAreFinite ==
    ASSUME NEW day
    PROVE  Dashboard!Rows(day) \in SUBSET Nat /\ IsFiniteSet(Dashboard!Rows(day))
<1>1. Dashboard!Rows(day) \in SUBSET Orders
  BY DEF Dashboard!Rows
<1> QED
  BY <1>1, MetricsAssumption, FS_Subset

\* When all rows are read every recent order is counted once, and in one entry.
LEMMA FinishedIsOK ==
    ASSUME MetricsInv, metricsLoad.step = "count",
           metricsLoad.skip >= Dashboard!Cardinality(Dashboard!Rows(metricsLoad.day)),
           NEW o \in Dashboard!Unmoved
    PROVE  CountedOnce(o, metricsLoad.day, Dashboard!Entries)
<1> DEFINE day == metricsLoad.day
           p == metricsPlaced[o]
           tick == Dashboard!GetDayOfYear(p)
           entry(t) == [date |-> Dashboard!SetDayOfYear(day, t),
                        orders |-> [x \in Orders |->
                          IF metricsLoad.read[x] > 0
                               /\ Dashboard!GetDayOfYear(metricsPlaced[x]) = t
                          THEN metricsLoad.read[x] ELSE 0]]
<1> SUFFICES ASSUME p > day - NrOfEntries, tick < MaxTick,
                    Dashboard!GetDayOfYear(day - NrOfEntries) <= MaxTick
             PROVE  /\ Cardinality({e \in Dashboard!Entries : e.orders[o] # 0}) = 1
                    /\ \A e \in {e \in Dashboard!Entries : e.orders[o] # 0} : e.orders[o] = 1
                    /\ Dashboard!Year(p) = Dashboard!Year(day) =>
                          \A e \in {e \in Dashboard!Entries : e.orders[o] # 0} : e.date = p
  BY DEF CountedOnce
<1>1. /\ o \in metricsLoad.known /\ o \in Orders
      /\ p # Never /\ p <= day /\ day \in FirstDay .. metricsToday
  BY DEF MetricsInv, LoadOK, LoadState, Dashboard!Unmoved
<1>2. /\ day \in Nat /\ p \in Nat /\ Dashboard!StartDate(day) \in Nat
      /\ Dashboard!StartDate(day) < p /\ NrOfEntries \in Nat
      /\ p <= Dashboard!StartDate(day) + NrOfEntries
  BY <1>1, MetricsAssumption DEF MetricsInv, Dashboard!StartDate
<1>3. tick \in Dashboard!Ticks(day)
  BY <1>2, RecentDayHasTick DEF Dashboard!StartDate, Dashboard!StartTick
<1>4. metricsLoad.read[o] = 1
  <2> DEFINE rows == Dashboard!Rows(day)
  <2>1. o \in rows
    BY <1>1, <1>2 DEF Dashboard!Rows
  <2>2. rows \in SUBSET Nat /\ IsFiniteSet(rows)
    BY RowsAreFinite
  <2>3. Dashboard!Rank(o, rows) \in Nat /\ Cardinality(rows) \in Nat
          /\ Dashboard!Rank(o, rows) < Cardinality(rows)
    BY <2>1, <2>2, Ranks
  <2>4. metricsLoad.skip \in Nat /\ metricsLoad.skip >= Cardinality(rows)
    BY MetricsCounts DEF MetricsInv, LoadOK, LoadState
  <2>5. Dashboard!Rank(o, rows) < metricsLoad.skip
    BY <2>3, <2>4
  <2> QED
    BY <2>1, <2>5 DEF MetricsInv, LoadOK, ReadOnce
<1>5. Dashboard!Entries = {entry(t) : t \in Dashboard!Ticks(day)}
  BY DEF Dashboard!Entries
<1>6. \A t : entry(t).orders[o] = IF t = tick THEN 1 ELSE 0
  BY <1>1, <1>4
<1>7. Dashboard!Year(p) = Dashboard!Year(day) => entry(tick).date = p
  BY <1>2, DayOfYear DEF Dashboard!SetDayOfYear
<1> HIDE DEF p, tick, entry, day
<1>8. {e \in Dashboard!Entries : e.orders[o] # 0} = {entry(tick)}
  BY <1>3, <1>5, <1>6
<1>9. Cardinality({entry(tick)}) = 1
  BY FS_Singleton
<1> QED
  BY <1>6, <1>7, <1>8, <1>9

LEMMA MetricsInit == Dashboard!Init => MetricsInv
<1> SUFFICES ASSUME Dashboard!Init PROVE MetricsInv
  OBVIOUS
<1>1. AnswerOK(metricsCache) /\ AnswerOK(metricsAnswer) /\ metricsAnswer.day = metricsAnswer.asked
  BY DEF Dashboard!Init, AnswerOK, Dashboard!NoAnswer
<1>2. LoadOK
  BY DEF Dashboard!Init, Dashboard!Idle, LoadOK, LoadState
<1> QED
  BY <1>1, <1>2, MetricsAssumption DEF Dashboard!Init, MetricsInv

\* An answer stays right, whatever else is placed.
LEMMA AnswerStays ==
    ASSUME NEW a, AnswerOK(a),
           \A o \in Orders : metricsPlaced[o] # Never => metricsPlaced'[o] = metricsPlaced[o]
    PROVE  /\ a.known \in SUBSET Orders
           /\ \A o \in a.known : metricsPlaced'[o] # Never /\ CountedOnce(o, a.day, a.entries)'
<1> SUFFICES ASSUME NEW o \in a.known
             PROVE  metricsPlaced'[o] # Never /\ CountedOnce(o, a.day, a.entries)'
  BY DEF AnswerOK
<1>1. PICK day, entries : day = a.day /\ entries = a.entries
  OBVIOUS
<1>2. CountedOnce(o, day, entries) /\ metricsPlaced[o] # Never
        /\ metricsPlaced'[o] = metricsPlaced[o]
  BY <1>1 DEF AnswerOK
<1>3. CountedOnce(o, day, entries)'
  BY <1>2 DEF CountedOnce
<1> QED
  BY <1>1, <1>2, <1>3

LEMMA AnswersStay ==
    ASSUME MetricsInv,
           \A o \in Orders : metricsPlaced[o] # Never => metricsPlaced'[o] = metricsPlaced[o],
           UNCHANGED <<metricsCache, metricsAnswer>>
    PROVE  AnswerOK(metricsCache)' /\ AnswerOK(metricsAnswer)'
<1>1. PICK cache, answer : cache = metricsCache /\ answer = metricsAnswer
  OBVIOUS
<1>2. AnswerOK(cache) /\ AnswerOK(answer)
  BY <1>1 DEF MetricsInv
<1>3. AnswerOK(cache)' /\ AnswerOK(answer)'
  BY <1>2, AnswerStays DEF AnswerOK
<1> QED
  BY <1>1, <1>3

\* The request, when an order is placed.
LEMMA PlaceKeepsLoad ==
    ASSUME MetricsInv, NEW p \in Orders, Dashboard!Place(p)
    PROVE  LoadOK'
<1>1. /\ metricsPlaced[p] = Never
      /\ metricsPlaced' = [metricsPlaced EXCEPT ![p] = metricsToday]
      /\ UNCHANGED <<metricsToday, metricsLoad>>
  BY DEF Dashboard!Place
<1>2. \A o \in Orders \ {p} : metricsPlaced'[o] = metricsPlaced[o]
  BY <1>1 DEF MetricsInv
<1>3. metricsPlaced'[p] = metricsToday /\ metricsToday # Never
  BY <1>1, MetricsAssumption DEF MetricsInv
<1>4. ASSUME metricsLoad.step # "idle" PROVE LoadOK'
  <2> DEFINE day == metricsLoad.day
             rows == Dashboard!Rows(day)
  <2>1. PICK after : after = Dashboard!Rows(day)'
    OBVIOUS
  <2>2. after \ {p} = rows \ {p} /\ rows \subseteq Orders
    BY <1>1, <1>2, <2>1 DEF Dashboard!Rows
  <2>3. p \notin metricsLoad.known /\ metricsLoad.known \subseteq Orders
    BY <1>1, <1>4 DEF MetricsInv, LoadOK, LoadState
  <2>4. \A o \in Dashboard!Unmoved' : o \in Dashboard!Unmoved /\ o < p
    BY <1>1, <1>2, <1>3, <2>3 DEF Dashboard!Unmoved, Dashboard!Placed
  <2>5. ASSUME NEW o \in Dashboard!Unmoved', o \in after
        PROVE  o \in rows /\ Dashboard!Rank(o, after) = Dashboard!Rank(o, rows)
    <3>1. o \in metricsLoad.known /\ o \in Orders /\ o < p /\ o # p
      BY <2>3, <2>4 DEF Dashboard!Unmoved
    <3>2. \A q \in Nat : q < o => q # p
      BY <3>1, MetricsAssumption
    <3>3. {q \in after : q < o} = {q \in rows : q < o}
      BY <2>1, <2>2, <3>2, MetricsAssumption DEF Dashboard!Rows
    <3> QED
      BY <2>2, <2>5, <3>1, <3>3 DEF Dashboard!Rank
  <2>6. ASSUME NEW o \in Dashboard!Unmoved', o \in after
        PROVE  metricsLoad.read[o]
                 = IF Dashboard!Rank(o, after) < metricsLoad.skip THEN 1 ELSE 0
    BY <1>4, <2>4, <2>5, <2>6 DEF MetricsInv, LoadOK, ReadOnce
  <2>7. ReadOnce(metricsLoad)'
    BY <1>1, <2>1, <2>6 DEF ReadOnce, Dashboard!Rank
  <2>8. \A o \in metricsLoad.known :
          metricsPlaced'[o] # Never /\ metricsPlaced'[o] <= metricsLoad.day
    BY <1>2, <1>4, <2>3 DEF MetricsInv, LoadOK
  <2> QED
    BY <1>1, <2>7, <2>8 DEF MetricsInv, LoadOK
<1> QED
  BY <1>1, <1>4 DEF MetricsInv, LoadOK

\* The request, when it reads a page.
LEMMA ReadKeepsLoad ==
    ASSUME MetricsInv, Dashboard!ReadPage
    PROVE  LoadOK'
<1> DEFINE rows == Dashboard!Rows(metricsLoad.day)
           skip == metricsLoad.skip
<1>1. PICK items : items = Dashboard!Page(rows, skip)
  OBVIOUS
<1>2. /\ metricsLoad \in LoadState /\ metricsLoad.step = "page" /\ skip \in Nat
      /\ metricsLoad.read \in [Orders -> Nat]
  BY DEF Dashboard!ReadPage, MetricsInv, LoadOK, LoadState
<1>3. /\ Cardinality(items) \in Nat
      /\ \A o \in rows :
            /\ Dashboard!Rank(o, rows) \in Nat
            /\ Dashboard!Rank(o, rows) < skip + Cardinality(items)
                 <=> Dashboard!Rank(o, rows) < skip \/ o \in items
            /\ o \in items => skip <= Dashboard!Rank(o, rows)
  BY <1>1, <1>2, RowsAreFinite, PageGoesOn
<1>4. PICK read \in [Orders -> Nat], n \in Nat :
        /\ read = [o \in Orders |->
                     IF o \in items THEN metricsLoad.read[o] + 1 ELSE metricsLoad.read[o]]
        /\ n = skip + Cardinality(items)
  <2> DEFINE counts == [o \in Orders |->
                 IF o \in items THEN metricsLoad.read[o] + 1 ELSE metricsLoad.read[o]]
  <2>1. counts \in [Orders -> Nat]
    BY <1>2
  <2>2. skip + Cardinality(items) \in Nat
    BY <1>2, <1>3
  <2> HIDE DEF skip
  <2> QED
    BY <2>1, <2>2
<1>5. /\ metricsLoad' = [metricsLoad EXCEPT !.step = "count", !.read = read, !.skip = n]
      /\ UNCHANGED <<metricsToday, metricsPlaced>>
  BY <1>1, <1>4, MetricsCounts DEF Dashboard!ReadPage
<1>6. /\ metricsLoad' \in LoadState /\ metricsLoad'.day = metricsLoad.day
      /\ metricsLoad'.known = metricsLoad.known /\ metricsLoad'.read = read
      /\ metricsLoad'.skip = n
  BY <1>2, <1>5 DEF LoadState
<1>7. Dashboard!Unmoved' = Dashboard!Unmoved /\ Dashboard!Rows(metricsLoad.day)' = rows
  BY <1>5, <1>6 DEF Dashboard!Unmoved, Dashboard!Placed, Dashboard!Rows
<1>8. ASSUME NEW o \in Dashboard!Unmoved \cap rows
      PROVE  read[o] = IF Dashboard!Rank(o, rows) < n THEN 1 ELSE 0
  <2>1. o \in Orders
    BY DEF Dashboard!Rows
  <2>2. metricsLoad.read[o] = IF Dashboard!Rank(o, rows) < skip THEN 1 ELSE 0
    BY <1>2 DEF MetricsInv, LoadOK, ReadOnce
  <2> HIDE DEF rows, skip
  <2> QED
    BY <1>2, <1>3, <1>4, <2>1, <2>2
<1>9. ReadOnce(metricsLoad)'
  BY <1>5, <1>6, <1>7, <1>8 DEF ReadOnce, Dashboard!Rank
<1> QED
  BY <1>2, <1>5, <1>6, <1>9 DEF MetricsInv, LoadOK

\* Every step keeps the invariant.
LEMMA MetricsStep == MetricsInv /\ [Dashboard!Next]_(Dashboard!vars) => MetricsInv'
<1> SUFFICES ASSUME MetricsInv, [Dashboard!Next]_(Dashboard!vars) PROVE MetricsInv'
  OBVIOUS
<1>types. /\ metricsToday \in FirstDay .. LastDay
          /\ metricsPlaced \in [Orders -> (FirstDay .. LastDay) \cup {Never}]
          /\ \A o \in Orders : metricsPlaced[o] # Never => metricsPlaced[o] <= metricsToday
          /\ metricsLoad \in LoadState /\ metricsToday \in Nat
  BY MetricsAssumption DEF MetricsInv, LoadOK
<1>none. AnswerOK(Dashboard!NoAnswer)' /\ Dashboard!NoAnswer.day = Dashboard!NoAnswer.asked
  BY DEF AnswerOK, Dashboard!NoAnswer
<1>1. CASE Dashboard!NextDay
  <2>1. /\ metricsToday' = metricsToday + 1 /\ metricsToday' \in FirstDay .. LastDay
        /\ metricsCache' = Dashboard!NoAnswer /\ metricsAnswer' = Dashboard!NoAnswer
        /\ UNCHANGED <<metricsPlaced, metricsLoad>>
    BY <1>1, <1>types, MetricsAssumption DEF Dashboard!NextDay, Dashboard!KeptOvernight
  <2>2. AnswerOK(metricsCache)' /\ AnswerOK(metricsAnswer)' /\ metricsAnswer'.day = metricsAnswer'.asked
    BY <2>1, <1>none DEF AnswerOK, Dashboard!NoAnswer
  <2>3. \A o \in Orders : metricsPlaced'[o] # Never => metricsPlaced'[o] <= metricsToday'
    BY <1>types, <2>1, MetricsAssumption
  <2>4. ReadOnce(metricsLoad)' <=> ReadOnce(metricsLoad)
    BY <2>1 DEF ReadOnce, Dashboard!Unmoved, Dashboard!Placed, Dashboard!Rows, Dashboard!Rank
  <2>5. LoadOK'
    BY <1>types, <2>1, <2>4 DEF MetricsInv, LoadOK
  <2> QED
    BY <1>types, <2>1, <2>2, <2>3, <2>5 DEF MetricsInv
<1>2. ASSUME NEW p \in Orders, Dashboard!Place(p) PROVE MetricsInv'
  <2>1. /\ metricsPlaced[p] = Never
        /\ metricsPlaced' = [metricsPlaced EXCEPT ![p] = metricsToday]
        /\ UNCHANGED <<metricsToday, metricsLoad, metricsCache, metricsAnswer>>
    BY <1>2 DEF Dashboard!Place
  <2>2. AnswerOK(metricsCache)' /\ AnswerOK(metricsAnswer)'
    BY <1>types, <2>1, AnswersStay
  <2>3. LoadOK'
    BY <1>2, PlaceKeepsLoad
  <2>4. /\ metricsPlaced' \in [Orders -> (FirstDay .. LastDay) \cup {Never}]
        /\ \A o \in Orders : metricsPlaced'[o] # Never => metricsPlaced'[o] <= metricsToday'
    BY <1>types, <2>1
  <2> QED
    BY <1>types, <2>1, <2>2, <2>3, <2>4 DEF MetricsInv
<1>3. CASE Dashboard!Cached
  <2>1. PICK answer : answer = [metricsCache EXCEPT !.asked = metricsToday]
    OBVIOUS
  <2>2. /\ metricsAnswer' = answer /\ metricsCache # Dashboard!NoAnswer
        /\ UNCHANGED <<metricsToday, metricsPlaced, metricsLoad, metricsCache>>
    BY <1>3, <2>1 DEF Dashboard!Cached
  <2>3. /\ answer = [day |-> answer.day, asked |-> answer.asked, known |-> answer.known,
                     entries |-> answer.entries]
        /\ answer.day = metricsCache.day /\ answer.asked = metricsToday
        /\ answer.known = metricsCache.known /\ answer.entries = metricsCache.entries
    <3>1. PICK d, k, m, e : metricsCache = [day |-> d, asked |-> k, known |-> m, entries |-> e]
      BY DEF MetricsInv, AnswerOK
    <3> QED
      BY <2>1, <3>1
  <2>4. AnswerOK(answer)
    BY <2>3 DEF MetricsInv, AnswerOK
  <2>5. AnswerOK(answer)' /\ AnswerOK(metricsCache)'
    BY <2>2, <2>4 DEF MetricsInv, AnswerOK, CountedOnce
  <2>6. AnswerOK(metricsAnswer)' /\ metricsAnswer'.day = metricsAnswer'.asked
    BY <2>2, <2>3, <2>5 DEF MetricsInv, AnswerOK
  <2>7. LoadOK'
    BY <2>2 DEF MetricsInv, LoadOK, ReadOnce, Dashboard!Unmoved, Dashboard!Placed,
                Dashboard!Rows, Dashboard!Rank
  <2> QED
    BY <1>types, <2>2, <2>5, <2>6, <2>7 DEF MetricsInv
<1>4. ASSUME UNCHANGED <<metricsToday, metricsPlaced, metricsCache, metricsAnswer>>, LoadOK'
      PROVE  MetricsInv'
  <2>1. AnswerOK(metricsCache)' /\ AnswerOK(metricsAnswer)'
    BY <1>4, AnswersStay
  <2> QED
    BY <1>4, <2>1 DEF MetricsInv
<1>idle. Dashboard!Idle \in LoadState /\ Dashboard!Idle.step = "idle"
  BY DEF Dashboard!Idle, LoadState
<1>5. ASSUME NEW refresh, Dashboard!GetMetrics(refresh) PROVE MetricsInv'
  <2>1. PICK x : x = [Dashboard!Idle EXCEPT !.step = "page", !.day = metricsToday,
                                            !.known = Dashboard!Placed]
    OBVIOUS
  <2>2. metricsLoad' = x
          /\ UNCHANGED <<metricsToday, metricsPlaced, metricsCache, metricsAnswer>>
    BY <1>5, <2>1 DEF Dashboard!GetMetrics
  <2>3. Dashboard!Placed \in SUBSET Orders
    BY DEF Dashboard!Placed
  <2>4. /\ x \in LoadState /\ x.day = metricsToday /\ x.known = Dashboard!Placed
        /\ x.skip = 0 /\ \A o \in Orders : x.read[o] = 0
    BY <1>types, <2>1, <2>3 DEF Dashboard!Idle, LoadState
  <2>5. \A o \in Dashboard!Rows(metricsToday) :
          ~(Dashboard!Rank(o, Dashboard!Rows(metricsToday)) < 0) /\ o \in Orders
    <3>1. PICK rows \in SUBSET Nat : rows = Dashboard!Rows(metricsToday) /\ IsFiniteSet(rows)
      BY RowsAreFinite
    <3>2. \A o \in rows : Dashboard!Rank(o, rows) \in Nat
      BY <3>1, Ranks
    <3>3. rows \subseteq Orders
      BY <3>1 DEF Dashboard!Rows
    <3>4. \A o \in rows : ~(Dashboard!Rank(o, rows) < 0)
      BY <3>2
    <3> QED
      BY <3>1, <3>3, <3>4
  <2>6. ReadOnce(x)'
    BY <2>2, <2>4, <2>5 DEF ReadOnce, Dashboard!Rows, Dashboard!Rank
  <2>7. \A o \in x.known : metricsPlaced[o] # Never /\ metricsPlaced[o] <= metricsToday
    BY <1>types, <2>4 DEF Dashboard!Placed
  <2>8. LoadOK'
    BY <1>types, <2>2, <2>4, <2>6, <2>7 DEF LoadOK, ReadOnce
  <2> QED
    BY <1>4, <2>2, <2>8
<1>6. CASE Dashboard!ReadPage
  BY <1>4, <1>6, ReadKeepsLoad DEF Dashboard!ReadPage
<1>7. CASE Dashboard!MoreOrders
  <2>1. /\ metricsLoad' = [metricsLoad EXCEPT !.step = "page"] /\ metricsLoad.step = "count"
        /\ UNCHANGED <<metricsToday, metricsPlaced, metricsCache, metricsAnswer>>
    BY <1>7 DEF Dashboard!MoreOrders
  <2>2. /\ metricsLoad' \in LoadState /\ metricsLoad'.day = metricsLoad.day
        /\ metricsLoad'.known = metricsLoad.known /\ metricsLoad'.read = metricsLoad.read
        /\ metricsLoad'.skip = metricsLoad.skip
    BY <1>types, <2>1 DEF LoadState
  <2>3. ReadOnce(metricsLoad)' <=> ReadOnce(metricsLoad)
    BY <2>1, <2>2 DEF ReadOnce, Dashboard!Unmoved, Dashboard!Placed, Dashboard!Rows,
                      Dashboard!Rank
  <2>4. LoadOK'
    BY <2>1, <2>2, <2>3 DEF MetricsInv, LoadOK
  <2> QED
    BY <1>4, <2>1, <2>4
<1>8. CASE Dashboard!Finish
  <2>1. PICK known, entries : known = Dashboard!Unmoved /\ entries = Dashboard!Entries
    OBVIOUS
  <2>2. PICK answer : answer = [day |-> metricsLoad.day, asked |-> metricsLoad.day,
                                known |-> known, entries |-> entries]
    OBVIOUS
  <2>3. /\ metricsAnswer' = answer
        /\ metricsCache' = IF metricsLoad.day = metricsToday THEN answer ELSE metricsCache
        /\ metricsLoad' = Dashboard!Idle /\ UNCHANGED <<metricsToday, metricsPlaced>>
        /\ metricsLoad.step = "count"
        /\ metricsLoad.skip >= Dashboard!Cardinality(Dashboard!Rows(metricsLoad.day))
    BY <1>8, <2>1, <2>2 DEF Dashboard!Finish
  <2>4. \A o \in known : o \in Orders /\ metricsPlaced[o] # Never
    BY <2>1, <2>3 DEF Dashboard!Unmoved, MetricsInv, LoadOK, LoadState
  <2>5. \A o \in known : CountedOnce(o, metricsLoad.day, entries)
    BY <2>1, <2>3, FinishedIsOK
  <2>6. /\ answer.day = metricsLoad.day /\ answer.asked = metricsLoad.day
        /\ answer.known = known /\ answer.entries = entries
        /\ answer = [day |-> answer.day, asked |-> answer.asked, known |-> answer.known,
                     entries |-> answer.entries]
    BY <2>2
  <2>7. AnswerOK(answer)
    BY <2>4, <2>5, <2>6 DEF AnswerOK
  <2>8. AnswerOK(answer)' /\ AnswerOK(metricsCache)
    BY <2>3, <2>7 DEF MetricsInv, AnswerOK, CountedOnce
  <2>9. AnswerOK(metricsAnswer)' /\ metricsAnswer'.day = metricsAnswer'.asked
    BY <2>3, <2>6, <2>8 DEF AnswerOK
  <2>10. AnswerOK(metricsCache)'
    <3>1. CASE metricsLoad.day = metricsToday
      BY <2>3, <2>8, <3>1 DEF AnswerOK
    <3>2. CASE metricsLoad.day # metricsToday
      BY <2>3, <2>8, <3>2 DEF AnswerOK, CountedOnce
    <3> QED
      BY <3>1, <3>2
  <2>11. metricsCache' # Dashboard!NoAnswer => metricsCache'.day = metricsToday'
    BY <2>3, <2>6 DEF MetricsInv
  <2>12. LoadOK'
    BY <1>idle, <2>3 DEF LoadOK
  <2> QED
    BY <1>types, <2>3, <2>9, <2>10, <2>11, <2>12 DEF MetricsInv
<1>9. CASE Dashboard!LoadFails
  <2>1. LoadOK'
    BY <1>9, <1>idle DEF Dashboard!LoadFails, LoadOK
  <2> QED
    BY <1>4, <1>9, <2>1 DEF Dashboard!LoadFails
<1>10. CASE UNCHANGED Dashboard!vars
  <2>1. LoadOK'
    BY <1>10 DEF Dashboard!vars, MetricsInv, LoadOK, ReadOnce, Dashboard!Unmoved,
                 Dashboard!Placed, Dashboard!Rows, Dashboard!Rank
  <2> QED
    BY <1>4, <1>10, <2>1 DEF Dashboard!vars
<1> QED
  BY <1>1, <1>2, <1>3, <1>5, <1>6, <1>7, <1>8, <1>9, <1>10 DEF Dashboard!Next

LEMMA MetricsInvSuffices == MetricsInv => Dashboard!TypeOK /\ Dashboard!RecentOrderIsCountedOnce
<1> SUFFICES ASSUME MetricsInv
             PROVE  Dashboard!TypeOK /\ Dashboard!RecentOrderIsCountedOnce
  OBVIOUS
<1>1. Dashboard!TypeOK
  BY DEF MetricsInv, LoadOK, LoadState, AnswerOK, Dashboard!TypeOK
<1>2. Dashboard!RecentOrderIsCountedOnce
  BY MetricsCounts
     DEF MetricsInv, AnswerOK, CountedOnce, Dashboard!RecentOrderIsCountedOnce,
         Dashboard!EntriesOf
<1> QED
  BY <1>1, <1>2

\* Seen from the dashboard a step of another plugin is none.
LEMMA MetricsAlone == Spec => Dashboard!Spec
<1>1. Init => Dashboard!Init
  BY DEF Init
<1>2. [Next]_vars => [Dashboard!Next]_(Dashboard!vars)
  BY DEF Next, vars, Dashboard!vars, metricsVars, StripeStep, BraintreeStep,
         PubSubStep, RedisStep, EmailStep, AssetsStep, StellateStep, SearchStep, DashboardStep,
         butStripe, butBraintree, butPubSub, butRedis, butEmail, butAssets, butStellate,
         butSearch, butDashboard
<1> QED
  BY <1>1, <1>2, PTL DEF Spec, Dashboard!Spec

\* Every recent order that was placed when an answer was asked for is counted
\* once, and on its day within a year, unless a row before it was placed while
\* the pages were read: for any orders, every size of the page and every length
\* of the year and of the period.
THEOREM RecentOrdersAreCounted == Spec => []RecentOrderIsCountedOnce
<1>1. MetricsInv => RecentOrderIsCountedOnce
  BY MetricsInvSuffices DEF RecentOrderIsCountedOnce
<1> QED
  BY <1>1, MetricsAlone, MetricsInit, MetricsStep, PTL DEF Dashboard!Spec

-----------------------------------------------------------------------------
(* Types.                                                                    *)

\* The state of a plugin keeps its type, whatever the others do.
THEOREM StateKeepsItsType == Spec => []TypeOK
<1>1. StripeInv => Stripe!TypeOK
  BY DEF StripeInv
<1>2. MoneyInv => Braintree!TypeOK
  BY BraintreeTypesAreTypeOK DEF MoneyInv
<1>3. EmailInv => Email!TypeOK
  BY EmailInvSuffices
<1>4. AssetsInv => Assets!TypeOK
  BY AssetsInvSuffices
<1>5. CacheSafe => Stellate!TypeOK
  BY DEF CacheSafe, CacheInv, CacheTypes, Stellate!TypeOK
<1>6. SearchInv => Search!TypeOK
  BY SearchInvSuffices
<1>7. MetricsInv => Dashboard!TypeOK
  BY MetricsInvSuffices
<1> DEFINE all == StripeInv /\ MoneyInv /\ EmailInv /\ AssetsInv /\ CacheSafe
               /\ SearchInv /\ MetricsInv
<1>8. all => TypeOK
  BY <1>1, <1>2, <1>3, <1>4, <1>5, <1>6, <1>7 DEF TypeOK
<1>9. Spec => []all
  <2>1. Spec => []StripeInv /\ []MoneyInv
    BY StripeAlone, StripeInit, StripeInvStep, BraintreeAlone, MoneyInit, MoneyStep, PTL
       DEF Stripe!Spec, Braintree!Spec
  <2>2. Spec => []EmailInv /\ []AssetsInv
    BY EmailAlone, EmailInit, EmailNextKeeps, AssetsAlone, AssetsInit, AssetsInvStep, PTL
       DEF Email!Spec, Assets!Spec
  <2>3. Spec => []CacheSafe
    BY CacheIsSafe
  <2>4. Spec => []SearchInv /\ []MetricsInv
    BY SearchAlone, SearchInit, SearchInvStep, MetricsAlone, MetricsInit, MetricsStep, PTL
       DEF Search!Spec, Dashboard!Spec
  <2> QED
    BY <2>1, <2>2, <2>3, <2>4, PTL
<1> QED
  BY <1>8, <1>9, PTL
=============================================================================
