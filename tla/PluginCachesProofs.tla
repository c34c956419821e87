------------------------- MODULE PluginCachesProofs --------------------------
(*****************************************************************************)
(* What is proved of Stellate and of the asset server: that what they keep is*)
(* current, or is what was asked for.                                        *)
(*****************************************************************************)
EXTENDS Plugins, TLAPS

-----------------------------------------------------------------------------
(* Stellate.                                                                 *)

\* What a rule has buffered is enough to purge the page.
Reaches(rule, keys, page) == \E purge \in Stellate!Handler(rule, keys) :
  Stellate!Purged(purge, page)

\* Something that waits will purge the page.
Awaited(page) ==
    \/ \E purge \in stellatePurges : Stellate!Purged(purge, page)
    \/ \E rule \in PurgeRules : stellateBuffer[rule] # <<>>
         /\ Reaches(rule, stellateBuffer[rule], page)

\* The answers show what their pages can.
CacheTypes ==
    /\ stellateDebugLogging \in BOOLEAN
    /\ stellateLive \in SUBSET Stellate!Offers
    /\ stellateFound \in SUBSET (Products \X Collections)
    /\ stellateIndex = [p \in Products |-> stellateIndex[p]]
    /\ \A p \in Products :
          /\ stellateIndex[p].in \in SUBSET Collections
          /\ DOMAIN stellateIndex[p].shows \subseteq Stellate!MayShow(<<"product", p>>)
    /\ stellateFilling = [page \in Stellate!Pages |-> stellateFilling[page]]
    /\ \A page \in Stellate!Pages :
          /\ stellateCache[page] = None
               \/ DOMAIN stellateCache[page] \subseteq Stellate!MayShow(page)
          /\ stellateFilling[page] = None
               \/ DOMAIN stellateFilling[page] \subseteq Stellate!MayShow(page)
    /\ stellateExcused \in SUBSET Stellate!Pages

\* Nothing is stale that no buffer and no request under way will purge.
CacheInv ==
    /\ stellateVersion \in [Stellate!Things -> Nat]
    /\ stellateBuffer = [rule \in PurgeRules |-> stellateBuffer[rule]]
    /\ \A rule \in PurgeRules : stellateBuffer[rule] \in Seq(Stellate!Keys(rule))
    /\ stellateCache = [page \in Stellate!Pages |-> stellateCache[page]]
    /\ \A page \in Stellate!Pages : Stellate!Stale(page) => Awaited(page)

-----------------------------------------------------------------------------
(* What a handler purges.                                                    *)

\* One more event adds its key to those of the buffer.
LEMMA AppendedKeys ==
    ASSUME NEW S, NEW keys \in Seq(S), NEW key \in S
    PROVE  /\ Append(keys, key) \in Seq(S)
           /\ Append(keys, key) # <<>>
           /\ Stellate!ToSet(Append(keys, key)) = Stellate!ToSet(keys) \cup {key}
<1>1. \A i \in DOMAIN keys : i \in DOMAIN Append(keys, key) /\ Append(keys, key)[i] = keys[i]
  OBVIOUS
<1>2. Len(keys) + 1 \in DOMAIN Append(keys, key) /\ Append(keys, key)[Len(keys) + 1] = key
  OBVIOUS
<1>3. \A i \in DOMAIN Append(keys, key) : i \in DOMAIN keys \/ i = Len(keys) + 1
  OBVIOUS
<1>4. Stellate!ToSet(Append(keys, key)) = Stellate!ToSet(keys) \cup {key}
  BY <1>1, <1>2, <1>3 DEF Stellate!ToSet
<1>5. Append(keys, key) # <<>>
  BY <1>2
<1> QED
  BY <1>4, <1>5

\* The products that a search is purged by are those of the events.
LEMMA SearchedProducts ==
    ASSUME NEW rule, NEW keys \in Seq(Variants), rule \in Stellate!OfVariant
    PROVE  Stellate!ToSet(Stellate!SearchKeys(rule, keys)) =
             {ProductOf[v] : v \in Stellate!ToSet(keys)}
<1>1. Stellate!SearchKeys(rule, keys) = [i \in DOMAIN keys |-> ProductOf[keys[i]]]
  BY DEF Stellate!SearchKeys
<1> QED
  BY <1>1 DEF Stellate!ToSet

\* The tags that a rule's handler purges for a set of keys.
TagNames(rule, set, type, key) ==
    \/ rule \in Stellate!OfProduct /\ type \in {"Product", "SearchResult"} /\ key \in set
    \/ rule \in Stellate!OfVariant /\ type = "ProductVariant" /\ key \in set
    \/ rule \in Stellate!OfVariant /\ type = "SearchResult"
         /\ key \in {ProductOf[v] : v \in set}
    \/ rule = "collection" /\ type = "Collection" /\ key \in set
    \/ /\ rule = "collectionModification"
       /\ type \in {"Collection", "SearchResponseCacheIdentifier"} /\ key \in set
    \/ rule = "taxRate" /\ type \in {"ProductVariant", "Product", "SearchResponse"}

\* A rule with these keys purges the page.
ByKeys(rule, set, page) == \E tag \in Stellate!Tags(page) : TagNames(rule, set, tag[1], tag[2])

LEMMA NamedTag ==
    ASSUME NEW rule, NEW set, NEW page, NEW type, NEW key,
           <<type, key>> \in Stellate!Tags(page), TagNames(rule, set, type, key)
    PROVE  ByKeys(rule, set, page)
<1>1. <<type, key>>[1] = type /\ <<type, key>>[2] = key
  OBVIOUS
<1> QED
  BY <1>1 DEF ByKeys

LEMMA HandlerPurges ==
    ASSUME NEW rule \in Stellate!DefaultPurgeRules, NEW keys \in Seq(Stellate!Keys(rule)),
                 NEW page
    PROVE  Reaches(rule, keys, page) <=> ByKeys(rule, Stellate!ToSet(keys), page)
<1>1. CASE rule \in Stellate!OfProduct
  <2>1. Stellate!Handler(rule, keys) = {Stellate!Purge("Product", keys),
          Stellate!Purge("SearchResult", keys)}
    BY <1>1 DEF Stellate!Handler, Stellate!SearchKeys, Stellate!OfProduct, Stellate!OfVariant
  <2> QED
    BY <1>1, <2>1
       DEF Reaches, ByKeys, TagNames, Stellate!Purged, Stellate!Purge, Stellate!OfProduct,
           Stellate!OfVariant
<1>2. CASE rule \in Stellate!OfVariant
  <2>1. Stellate!Handler(rule, keys)
            = {Stellate!Purge("ProductVariant", keys),
              Stellate!Purge("SearchResult", Stellate!SearchKeys(rule, keys))}
    BY <1>2 DEF Stellate!Handler, Stellate!OfProduct, Stellate!OfVariant
  <2>2. Stellate!ToSet(Stellate!SearchKeys(rule, keys)) =
          {ProductOf[v] : v \in Stellate!ToSet(keys)}
    BY <1>2, SearchedProducts DEF Stellate!Keys, Stellate!OfProduct, Stellate!OfVariant
  <2> QED
    BY <1>2, <2>1, <2>2
       DEF Reaches, ByKeys, TagNames, Stellate!Purged, Stellate!Purge, Stellate!OfProduct,
           Stellate!OfVariant
<1>3. CASE rule = "collection"
  <2>1. Stellate!Handler(rule, keys) = {Stellate!Purge("Collection", keys)}
    BY <1>3 DEF Stellate!Handler, Stellate!OfProduct, Stellate!OfVariant
  <2>2. \A type, key : TagNames(rule, Stellate!ToSet(keys), type, key)
            <=> type = "Collection" /\ key \in Stellate!ToSet(keys)
    BY <1>3 DEF TagNames, Stellate!OfProduct, Stellate!OfVariant
  <2> QED
    BY <2>1, <2>2 DEF Reaches, ByKeys, Stellate!Purged, Stellate!Purge
<1>4. CASE rule = "collectionModification"
  <2>1. Stellate!Handler(rule, keys)
            = {Stellate!Purge("Collection", keys),
              Stellate!Purge("SearchResponseCacheIdentifier", keys)}
    BY <1>4 DEF Stellate!Handler, Stellate!OfProduct, Stellate!OfVariant
  <2>2. \A type, key : TagNames(rule, Stellate!ToSet(keys), type, key)
            <=> type \in {"Collection", "SearchResponseCacheIdentifier"}
              /\ key \in Stellate!ToSet(keys)
    BY <1>4 DEF TagNames, Stellate!OfProduct, Stellate!OfVariant
  <2> QED
    BY <2>1, <2>2 DEF Reaches, ByKeys, Stellate!Purged, Stellate!Purge
<1>5. CASE rule = "taxRate"
  <2>1. Stellate!Handler(rule, keys) = {Stellate!All("ProductVariant"),
          Stellate!All("Product"), Stellate!All("SearchResponse")}
    BY <1>5 DEF Stellate!Handler, Stellate!OfProduct, Stellate!OfVariant
  <2>2. \A type, key : TagNames(rule, Stellate!ToSet(keys), type, key)
            <=> type \in {"ProductVariant", "Product", "SearchResponse"}
    BY <1>5 DEF TagNames, Stellate!OfProduct, Stellate!OfVariant
  <2> QED
    BY <2>1, <2>2 DEF Reaches, ByKeys, Stellate!Purged, Stellate!All
<1> QED
  BY <1>1, <1>2, <1>3, <1>4, <1>5 DEF Stellate!DefaultPurgeRules

\* A further event only adds to what its rule purges.
LEMMA MoreKeysPurgeMore ==
    ASSUME NEW rule \in Stellate!DefaultPurgeRules, NEW keys \in Seq(Stellate!Keys(rule)),
                 NEW key \in Stellate!Keys(rule),
           NEW page, Reaches(rule, keys, page)
    PROVE  Reaches(rule, Append(keys, key), page)
<1>1. ByKeys(rule, Stellate!ToSet(keys), page)
  BY HandlerPurges
<1>2. ByKeys(rule, Stellate!ToSet(keys) \cup {key}, page)
  BY <1>1 DEF ByKeys, TagNames
<1>3. Append(keys, key) \in Seq(Stellate!Keys(rule))
        /\ Stellate!ToSet(Append(keys, key)) = Stellate!ToSet(keys) \cup {key}
  BY AppendedKeys
<1> QED
  BY <1>2, <1>3, HandlerPurges

\* An event is about something that an answer shows, or about whether its page
\* shows it.
Touches(rule, key, page, thing) ==
    \/ thing \in Stellate!Changed(rule, key)
    \/ /\ page[1] \in {"product", "search"}
       /\ <<"product", Stellate!Owner(thing)>> \in Stellate!Changed(rule, key)
    \/ /\ page[1] = "search"
       /\ <<Stellate!Owner(thing), page[2]>> \in Stellate!Moved(rule, key)

\* Such an answer is purged by the event's rule.
LEMMA TouchedIsPurged ==
    ASSUME NEW rule \in Stellate!DefaultPurgeRules, NEW keys \in Seq(Stellate!Keys(rule)),
           NEW key \in Stellate!Keys(rule), NEW page \in Stellate!Pages,
           stellateCache[page] # None,
           DOMAIN stellateCache[page] \subseteq Stellate!MayShow(page),
           NEW thing \in DOMAIN stellateCache[page], Touches(rule, key, page, thing)
    PROVE  Reaches(rule, Append(keys, key), page)
<1> DEFINE set == Stellate!ToSet(keys) \cup {key}
           owner == Stellate!Owner(thing)
<1>0. \A t, k, u, l : <<t, k>> = <<u, l>> <=> t = u /\ k = l
  OBVIOUS
<1>1. SUFFICES ByKeys(rule, set, page)
  <2>1. Append(keys, key) \in Seq(Stellate!Keys(rule))
          /\ Stellate!ToSet(Append(keys, key)) = set
    BY AppendedKeys
  <2> QED
    BY <2>1, HandlerPurges
<1>2. /\ rule \in Stellate!OfProduct => Stellate!Changed(rule, key) = {<<"product", key>>}
           /\ Stellate!Moved(rule, key) = {key} \X Collections
      /\ rule \in Stellate!OfVariant => Stellate!Changed(rule, key) = {<<"variant", key>>}
           /\ Stellate!Moved(rule, key) = {ProductOf[key]} \X Collections
      /\ rule = "collection" => Stellate!Changed(rule, key) = {<<"collection", key>>}
           /\ Stellate!Moved(rule, key) = {}
      /\ rule = "collectionModification" => Stellate!Changed(rule, key) = {}
           /\ Stellate!Moved(rule, key) = Products \X {key}
      /\ rule = "taxRate" => Stellate!Changed(rule, key) = {"variant"} \X Variants
           /\ Stellate!Moved(rule, key) = {}
  BY DEF Stellate!Changed, Stellate!Moved, Stellate!OfProduct, Stellate!OfVariant
<1>3. thing = <<"product", key>> => owner = key
  BY DEF Stellate!Owner
<1>4. thing = <<"variant", key>> => owner = ProductOf[key]
  BY DEF Stellate!Owner
<1>5. CASE page \in {"product"} \X Products
  <2>1. /\ page[1] = "product" /\ thing \in Stellate!Offers /\ owner = page[2]
        /\ <<"Product", owner>> \in Stellate!Tags(page)
        /\ \A v \in Variants : thing = <<"variant", v>>
             => <<"ProductVariant", v>> \in Stellate!Tags(page)
    BY <1>5 DEF Stellate!MayShow, Stellate!Tags
  <2>2. \A k : thing # <<"collection", k>>
    BY <2>1 DEF Stellate!Offers
  <2>3. CASE rule \in Stellate!OfProduct
    <3>1. owner = key
      BY <1>0, <1>2, <1>3, <2>1, <2>3 DEF Touches
    <3> QED
      BY <2>1, <2>3, <3>1, NamedTag DEF TagNames
  <2>4. CASE rule \in Stellate!OfVariant
    <3>1. thing = <<"variant", key>> /\ key \in Variants
      BY <1>0, <1>2, <2>1, <2>4 DEF Touches, Stellate!Keys, Stellate!OfProduct, Stellate!OfVariant
    <3> QED
      BY <2>1, <2>4, <3>1, NamedTag DEF TagNames
  <2>5. CASE rule = "taxRate"
    BY <2>1, <2>5, NamedTag DEF TagNames
  <2>6. CASE rule \in {"collection", "collectionModification"}
    BY <1>0, <1>2, <2>1, <2>2, <2>6 DEF Touches
  <2> QED
    BY <2>3, <2>4, <2>5, <2>6 DEF Stellate!DefaultPurgeRules
<1>6. CASE page \in {"collection"} \X Collections
  <2>1. thing = page /\ page[1] = "collection" /\ page = <<"collection", page[2]>>
          /\ <<"Collection", page[2]>> \in Stellate!Tags(page)
    BY <1>6 DEF Stellate!MayShow, Stellate!Tags
  <2>2. thing \in Stellate!Changed(rule, key)
    BY <2>1 DEF Touches
  <2>3. rule = "collection" /\ key = page[2]
    BY <1>0, <1>2, <2>1, <2>2 DEF Stellate!DefaultPurgeRules
  <2> QED
    BY <2>1, <2>3, NamedTag DEF TagNames
<1>7. CASE page \in {"search"} \X Collections
  <2>1. /\ page[1] = "search" /\ thing \in Stellate!Offers
        /\ <<"SearchResult", owner>> \in Stellate!Tags(page)
        /\ <<"SearchResponse", "any">> \in Stellate!Tags(page)
        /\ <<"SearchResponseCacheIdentifier", page[2]>> \in Stellate!Tags(page)
    BY <1>7 DEF Stellate!MayShow, Stellate!Tags
  <2>2. \A k : thing # <<"collection", k>>
    BY <2>1 DEF Stellate!Offers
  <2>3. CASE rule \in Stellate!OfProduct
    <3>1. owner = key
      BY <1>0, <1>2, <1>3, <2>1, <2>3 DEF Touches
    <3> QED
      BY <2>1, <2>3, <3>1, NamedTag DEF TagNames
  <2>4. CASE rule \in Stellate!OfVariant
    <3>1. owner = ProductOf[key]
      BY <1>0, <1>2, <1>4, <2>1, <2>4 DEF Touches
    <3> QED
      BY <2>1, <2>4, <3>1, NamedTag DEF TagNames
  <2>5. CASE rule = "taxRate"
    BY <2>1, <2>5, NamedTag DEF TagNames
  <2>6. CASE rule = "collectionModification"
    <3>1. key = page[2]
      BY <1>2, <2>6 DEF Touches
    <3> QED
      BY <2>1, <2>6, <3>1, NamedTag DEF TagNames
  <2>7. CASE rule = "collection"
    BY <1>0, <1>2, <2>1, <2>2, <2>7 DEF Touches
  <2> QED
    BY <2>3, <2>4, <2>5, <2>6, <2>7 DEF Stellate!DefaultPurgeRules
<1> QED
  BY <1>5, <1>6, <1>7 DEF Stellate!Pages

\* What the event is not about stays as it was, and where it was.
LEMMA UntouchedStays ==
    ASSUME CacheInv, CacheTypes, NEW rule \in PurgeRules, NEW key \in Stellate!Keys(rule),
           Stellate!Change(rule, key), NEW page \in Stellate!Pages, NEW thing,
           thing \in Stellate!OnPage(page), ~Touches(rule, key, page, thing)
    PROVE  thing \in Stellate!OnPage(page)' /\ stellateVersion'[thing] = stellateVersion[thing]
<1> DEFINE changed == Stellate!Changed(rule, key)
           owner == Stellate!Owner(thing)
<1>1. /\ \A x \in Stellate!Things : x \notin changed => stellateVersion'[x] = stellateVersion[x]
      /\ stellateLive \ changed \subseteq stellateLive'
      /\ stellateFound \ Stellate!Moved(rule, key) \subseteq stellateFound'
  <2>1. Stellate!Toggled(rule, key) \subseteq changed
    BY DEF Stellate!Toggled
  <2> HIDE DEF changed
  <2> QED
    BY <2>1 DEF Stellate!Change, changed
<1>2. thing \notin changed
  BY DEF Touches
<1> HIDE DEF changed
<1>3. CASE page \in {"product"} \X Products
  <2>1. /\ page[1] = "product" /\ thing \in Stellate!Offers /\ owner = page[2]
        /\ {thing, <<"product", owner>>} \subseteq stellateLive
    BY <1>3 DEF Stellate!OnPage, Stellate!Shown
  <2>2. <<"product", owner>> \notin changed
    BY <2>1 DEF Touches, changed
  <2>3. {thing, <<"product", owner>>} \subseteq stellateLive'
    BY <1>1, <1>2, <2>1, <2>2
  <2>4. thing \in Stellate!OnPage(page)'
    BY <1>3, <2>1, <2>3 DEF Stellate!OnPage, Stellate!Shown
  <2> QED
    BY <1>1, <1>2, <2>1, <2>4 DEF Stellate!Things
<1>4. CASE page \in {"collection"} \X Collections
  <2>1. thing = page /\ thing \in Stellate!OnPage(page)'
    BY <1>4 DEF Stellate!OnPage
  <2> QED
    BY <1>1, <1>2, <1>4, <2>1 DEF Stellate!Things
<1>5. CASE page \in {"search"} \X Collections
  <2>1. PICK p \in Products :
          /\ page[1] = "search" /\ <<p, page[2]>> \in stellateFound
          /\ thing \in Stellate!Offers /\ owner = p
          /\ {thing, <<"product", p>>} \subseteq stellateLive
    BY <1>5 DEF Stellate!OnPage, Stellate!Shown
  <2>2. <<"product", p>> \notin changed /\ <<p, page[2]>> \notin Stellate!Moved(rule, key)
    BY <2>1 DEF Touches, changed
  <2>3. {thing, <<"product", p>>} \subseteq stellateLive' /\ <<p, page[2]>> \in stellateFound'
    BY <1>1, <1>2, <2>1, <2>2
  <2>4. thing \in Stellate!OnPage(page)'
    BY <1>5, <2>1, <2>3 DEF Stellate!OnPage, Stellate!Shown
  <2> QED
    BY <1>1, <1>2, <2>1, <2>4 DEF Stellate!Things
<1> QED
  BY <1>3, <1>4, <1>5 DEF Stellate!Pages

\* So the event's buffer waits to purge what it makes stale, and what was stale
\* is awaited still.
LEMMA ChangeIsAwaited ==
    ASSUME CacheInv, CacheTypes, NEW rule \in PurgeRules, NEW key \in Stellate!Keys(rule),
           Stellate!Change(rule, key)
    PROVE  CacheInv'
<1> DEFINE keys == stellateBuffer[rule]
<1>1. rule \in Stellate!DefaultPurgeRules /\ keys \in Seq(Stellate!Keys(rule))
  BY StellateAssumption DEF CacheInv
<1>2. /\ stellatePurges' = stellatePurges /\ stellateCache' = stellateCache
      /\ stellateExcused' = stellateExcused
      /\ stellateVersion' = [thing \in Stellate!Things |->
            IF thing \in Stellate!Changed(rule, key)
            THEN stellateVersion[thing] + 1 ELSE stellateVersion[thing]]
      /\ stellateBuffer' = [stellateBuffer EXCEPT ![rule] = Append(keys, key)]
  BY DEF Stellate!Change
<1>3. stellateVersion' \in [Stellate!Things -> Nat]
  BY <1>2 DEF CacheInv
<1>4. /\ Append(keys, key) \in Seq(Stellate!Keys(rule)) /\ Append(keys, key) # <<>>
      /\ stellateBuffer'[rule] = Append(keys, key)
      /\ \A other \in PurgeRules \ {rule} : stellateBuffer'[other] = stellateBuffer[other]
      /\ stellateBuffer' = [r \in PurgeRules |-> stellateBuffer'[r]]
  BY <1>1, <1>2, AppendedKeys DEF CacheInv
<1>5. ASSUME NEW page \in Stellate!Pages, Stellate!Stale(page)'
      PROVE  Awaited(page)'
  <2>1. PICK thing \in DOMAIN stellateCache[page] :
          \/ thing \notin Stellate!OnPage(page)'
          \/ stellateCache[page][thing] # stellateVersion'[thing]
    BY <1>2, <1>5 DEF Stellate!Stale, Stellate!Outdated
  <2>2. stellateCache[page] # None /\ page \notin stellateExcused
    BY <1>2, <1>5 DEF Stellate!Stale
  <2>4. CASE Touches(rule, key, page, thing)
    <3>1. Reaches(rule, Append(keys, key), page)
      BY <1>1, <2>1, <2>2, <2>4, TouchedIsPurged DEF CacheTypes
    <3> QED
      BY <1>2, <1>4, <3>1 DEF Awaited, Reaches, Stellate!Purged, Stellate!Tags
  <2>5. CASE ~Touches(rule, key, page, thing)
    <3>1. thing \notin Stellate!OnPage(page)
            \/ stellateCache[page][thing] # stellateVersion[thing]
      BY <2>1, <2>5, UntouchedStays
    <3>2. Stellate!Stale(page)
      BY <2>1, <2>2, <3>1 DEF Stellate!Stale, Stellate!Outdated
    <3>3. Awaited(page)
      BY <3>2 DEF CacheInv
    <3>4. CASE \E purge \in stellatePurges : Stellate!Purged(purge, page)
      BY <1>2, <3>4 DEF Awaited, Stellate!Purged, Stellate!Tags
    <3>5. CASE keys # <<>> /\ Reaches(rule, keys, page)
      <4>1. Reaches(rule, Append(keys, key), page)
        BY <1>1, <3>5, MoreKeysPurgeMore
      <4> QED
        BY <1>2, <1>4, <4>1 DEF Awaited, Reaches, Stellate!Purged, Stellate!Tags
    <3>6. ASSUME NEW other \in PurgeRules \ {rule},
                 stellateBuffer[other] # <<>>, Reaches(other, stellateBuffer[other], page)
          PROVE  Awaited(page)'
      BY <1>2, <1>4, <3>6 DEF Awaited, Reaches, Stellate!Purged, Stellate!Tags
    <3> QED
      BY <3>3, <3>4, <3>5, <3>6 DEF Awaited
  <2> QED
    BY <2>4, <2>5
<1> QED
  BY <1>2, <1>3, <1>4, <1>5 DEF CacheInv

-----------------------------------------------------------------------------
(* The other steps.                                                          *)

\* The invariant is about these variables only.
LEMMA NothingStirs ==
    ASSUME CacheInv, UNCHANGED <<stellateVersion, stellateLive, stellateFound, stellateBuffer,
             stellatePurges, stellateCache, stellateExcused>>
    PROVE  CacheInv'
<1>1. \A page \in Stellate!Pages : Stellate!Stale(page)' <=> Stellate!Stale(page)
  BY DEF Stellate!Stale, Stellate!Outdated, Stellate!OnPage, Stellate!Shown
<1>2. \A page \in Stellate!Pages : Awaited(page)' <=> Awaited(page)
  BY DEF Awaited, Reaches, Stellate!Purged, Stellate!Tags
<1> QED
  BY <1>1, <1>2 DEF CacheInv

\* While the shop does not change, an answer that stays is stale if it was.
LEMMA StaleBefore ==
    ASSUME UNCHANGED <<stellateVersion, stellateLive, stellateFound>>,
           NEW page \in Stellate!Pages, stellateCache'[page] = stellateCache[page],
           Stellate!Stale(page)'
    PROVE  /\ page \notin stellateExcused'
           /\ stellateCache[page] # None /\ Stellate!Outdated(page, stellateCache[page])
<1>1. Stellate!OnPage(page)' = Stellate!OnPage(page)
  BY DEF Stellate!OnPage, Stellate!Shown
<1>2. /\ stellateCache'[page] # None /\ page \notin stellateExcused'
      /\ \E thing \in DOMAIN stellateCache'[page] :
            thing \notin Stellate!OnPage(page)'
              \/ stellateCache'[page][thing] # stellateVersion'[thing]
  BY DEF Stellate!Stale, Stellate!Outdated
<1> QED
  BY <1>1, <1>2 DEF Stellate!Outdated

\* Every page that a rule of an empty or emptied buffer was to purge is in the
\* hands of a request, or excused.
LEMMA Emptied ==
    ASSUME CacheInv, NEW emptied \in SUBSET PurgeRules,
           UNCHANGED <<stellateVersion, stellateLive, stellateFound, stellateCache>>,
           stellatePurges \subseteq stellatePurges', stellateExcused \subseteq stellateExcused',
           stellateBuffer' = [r \in PurgeRules |-> IF r \in emptied THEN <<>>
             ELSE stellateBuffer[r]],
           \A page \in Stellate!Pages, rule \in emptied :
               Reaches(rule, stellateBuffer[rule], page)
                   => page \in stellateExcused'
                     \/ \E purge \in stellatePurges' : Stellate!Purged(purge, page)
    PROVE  CacheInv'
<1>1. ASSUME NEW page \in Stellate!Pages, Stellate!Stale(page)'
      PROVE  Awaited(page)'
  <2>1. Stellate!Stale(page) /\ page \notin stellateExcused'
    BY <1>1, StaleBefore DEF Stellate!Stale
  <2>2. Awaited(page)
    BY <2>1 DEF CacheInv
  <2>3. CASE \E purge \in stellatePurges : Stellate!Purged(purge, page)
    BY <2>3 DEF Awaited, Stellate!Purged, Stellate!Tags
  <2>4. ASSUME NEW rule \in PurgeRules, stellateBuffer[rule] # <<>>,
                     Reaches(rule, stellateBuffer[rule], page)
        PROVE  Awaited(page)'
    <3>1. CASE rule \in emptied
      BY <2>1, <2>4, <3>1 DEF Awaited, Stellate!Purged, Stellate!Tags
    <3>2. CASE rule \notin emptied
      <4>1. stellateBuffer'[rule] = stellateBuffer[rule]
        BY <3>2
      <4> QED
        BY <2>4, <4>1 DEF Awaited, Reaches, Stellate!Purged, Stellate!Tags
    <3> QED
      BY <3>1, <3>2
  <2> QED
    BY <2>2, <2>3, <2>4 DEF Awaited
<1>2. \A rule \in PurgeRules : stellateBuffer'[rule] \in Seq(Stellate!Keys(rule))
  BY DEF CacheInv
<1>3. stellateBuffer' = [r \in PurgeRules |-> stellateBuffer'[r]]
  OBVIOUS
<1>4. stellateVersion' \in [Stellate!Things -> Nat]
        /\ stellateCache' = [page \in Stellate!Pages |-> stellateCache'[page]]
  BY DEF CacheInv
<1> QED
  BY <1>1, <1>2, <1>3, <1>4 DEF CacheInv

\* A buffer is closed.
LEMMA CloseStep ==
    ASSUME CacheInv, NEW rule \in PurgeRules, Stellate!Close(rule)
    PROVE  CacheInv'
<1> DEFINE all == Stellate!Handler(rule, stellateBuffer[rule])
           sent == Stellate!Handler(rule, Stellate!Sent(stellateBuffer[rule]))
<1>1. /\ stellatePurges' = stellatePurges \cup sent
      /\ stellateExcused' = stellateExcused
           \cup (Stellate!PagesOf(all) \ Stellate!PagesOf(sent))
      /\ stellateBuffer' = [stellateBuffer EXCEPT ![rule] = <<>>]
      /\ UNCHANGED <<stellateVersion, stellateLive, stellateFound, stellateCache>>
  BY DEF Stellate!Close, Stellate!shop
<1>2. stellateBuffer' = [r \in PurgeRules |-> IF r \in {rule} THEN <<>> ELSE stellateBuffer[r]]
  BY <1>1 DEF CacheInv
<1>3. ASSUME NEW page \in Stellate!Pages, Reaches(rule, stellateBuffer[rule], page)
      PROVE  page \in stellateExcused'
               \/ \E purge \in stellatePurges' : Stellate!Purged(purge, page)
  <2>1. page \in Stellate!PagesOf(all)
    BY <1>3 DEF Stellate!PagesOf, Reaches
  <2>2. page \in Stellate!PagesOf(sent) => \E purge \in sent : Stellate!Purged(purge, page)
    BY DEF Stellate!PagesOf
  <2> QED
    BY <1>1, <2>1, <2>2
<1> QED
  BY <1>1, <1>2, <1>3, Emptied

\* The process stops.
LEMMA StopStep ==
    ASSUME CacheInv, Stellate!Stop
    PROVE  CacheInv'
<1> DEFINE lost == UNION {Stellate!Handler(rule, stellateBuffer[rule]) : rule \in PurgeRules}
<1>1. /\ stellateExcused' = stellateExcused \cup Stellate!PagesOf(lost)
      /\ stellateBuffer' = [rule \in PurgeRules |-> <<>>]
      /\ UNCHANGED <<stellateVersion, stellateLive, stellateFound, stellateCache, stellatePurges>>
  BY DEF Stellate!Stop, Stellate!shop
<1>2. stellateBuffer' = [r \in PurgeRules |-> IF r \in PurgeRules THEN <<>>
        ELSE stellateBuffer[r]]
  BY <1>1
<1>3. ASSUME NEW page \in Stellate!Pages, NEW rule \in PurgeRules,
                   Reaches(rule, stellateBuffer[rule], page)
      PROVE  page \in stellateExcused'
  <2>1. \E purge \in lost : Stellate!Purged(purge, page)
    BY <1>3 DEF Reaches
  <2> QED
    BY <1>1, <2>1 DEF Stellate!PagesOf
<1> QED
  BY <1>1, <1>2, <1>3, Emptied

\* The pages of the purge lose their answer, and only they lose their excuse.
LEMMA ArriveStep ==
    ASSUME CacheInv, NEW purge \in stellatePurges, Stellate!Arrive(purge)
    PROVE  CacheInv'
<1>1. /\ stellatePurges' = stellatePurges \ {purge}
      /\ stellateCache' = [page \in Stellate!Pages |-> IF Stellate!Purged(purge, page)
           THEN None ELSE stellateCache[page]]
      /\ stellateExcused' = stellateExcused \ Stellate!PagesOf({purge})
      /\ UNCHANGED <<stellateVersion, stellateLive, stellateFound, stellateBuffer>>
  BY DEF Stellate!Arrive, Stellate!shop
<1>2. ASSUME NEW page \in Stellate!Pages, Stellate!Stale(page)'
      PROVE  Awaited(page)'
  <2>1. stellateCache'[page] # None
    BY <1>2 DEF Stellate!Stale
  <2>2. ~Stellate!Purged(purge, page) /\ stellateCache'[page] = stellateCache[page]
    BY <1>1, <2>1
  <2>3. page \notin Stellate!PagesOf({purge})
    BY <2>2 DEF Stellate!PagesOf
  <2>4. Stellate!Stale(page)
    BY <1>1, <1>2, <2>2, <2>3, StaleBefore DEF Stellate!Stale
  <2>5. Awaited(page)
    BY <2>4 DEF CacheInv
  <2> QED
    BY <1>1, <2>2, <2>5 DEF Awaited, Reaches, Stellate!Purged, Stellate!Tags
<1>3. stellateCache' = [page \in Stellate!Pages |-> stellateCache'[page]]
  BY <1>1
<1> QED
  BY <1>1, <1>2, <1>3 DEF CacheInv

\* A request fails.
LEMMA FailStep ==
    ASSUME CacheInv, NEW purge \in stellatePurges, Stellate!Fail(purge)
    PROVE  CacheInv'
<1>1. /\ stellatePurges' = stellatePurges \ {purge}
      /\ stellateExcused' = stellateExcused \cup Stellate!PagesOf({purge})
      /\ UNCHANGED <<stellateVersion, stellateLive, stellateFound, stellateBuffer, stellateCache>>
  BY DEF Stellate!Fail, Stellate!shop
<1>2. ASSUME NEW page \in Stellate!Pages, Stellate!Stale(page)'
      PROVE  Awaited(page)'
  <2>1. Stellate!Stale(page) /\ page \notin stellateExcused'
    BY <1>1, <1>2, StaleBefore DEF Stellate!Stale
  <2>2. ~Stellate!Purged(purge, page)
    BY <1>1, <2>1 DEF Stellate!PagesOf
  <2>3. Awaited(page)
    BY <2>1 DEF CacheInv
  <2> QED
    BY <1>1, <2>2, <2>3 DEF Awaited, Reaches, Stellate!Purged, Stellate!Tags
<1> QED
  BY <1>1, <1>2 DEF CacheInv

\* An answer that comes out of date is excused.
LEMMA FillStep ==
    ASSUME CacheInv, NEW filled \in Stellate!Pages, Stellate!Fill(filled)
    PROVE  CacheInv'
<1>1. /\ stellateCache' = [stellateCache EXCEPT ![filled] = stellateFilling[filled]]
      /\ stellateExcused' = IF Stellate!Outdated(filled, stellateFilling[filled])
                    THEN stellateExcused \cup {filled} ELSE stellateExcused \ {filled}
      /\ UNCHANGED <<stellateVersion, stellateLive, stellateFound, stellateBuffer, stellatePurges>>
  BY DEF Stellate!Fill, Stellate!shop
<1>2. /\ stellateCache' = [page \in Stellate!Pages |-> stellateCache'[page]]
      /\ stellateCache'[filled] = stellateFilling[filled]
      /\ \A page \in Stellate!Pages \ {filled} : stellateCache'[page] = stellateCache[page]
  BY <1>1 DEF CacheInv
<1>3. ASSUME NEW page \in Stellate!Pages, Stellate!Stale(page)'
      PROVE  Awaited(page)'
  <2>0. PICK answer : answer = stellateFilling[filled]
    OBVIOUS
  <2>1. page # filled
    <3> SUFFICES ASSUME page = filled PROVE FALSE
      OBVIOUS
    <3>1. UNCHANGED <<stellateVersion, stellateLive, stellateFound>>
      BY <1>1
    <3>2. Stellate!OnPage(page)' = Stellate!OnPage(page)
      BY <3>1 DEF Stellate!OnPage, Stellate!Shown
    <3>3. /\ page \notin stellateExcused'
          /\ \E thing \in DOMAIN stellateCache'[page] :
                thing \notin Stellate!OnPage(page)'
                  \/ stellateCache'[page][thing] # stellateVersion'[thing]
      BY <1>3 DEF Stellate!Stale, Stellate!Outdated
    <3>4. stellateCache'[page] = answer
      BY <1>2, <2>0
    <3>5. \E thing \in DOMAIN answer :
             thing \notin Stellate!OnPage(page) \/ answer[thing] # stellateVersion[thing]
      BY <3>1, <3>2, <3>3, <3>4
    <3>6. Stellate!Outdated(filled, answer)
      BY <3>5 DEF Stellate!Outdated
    <3> QED
      BY <1>1, <2>0, <3>3, <3>6
  <2>2. page \notin stellateExcused
    BY <1>1, <1>3, <2>1 DEF Stellate!Stale
  <2>3. Stellate!Stale(page)
    BY <1>1, <1>2, <1>3, <2>1, <2>2, StaleBefore DEF Stellate!Stale
  <2>4. Awaited(page)
    BY <2>3 DEF CacheInv
  <2>5. Stellate!Tags(page)' = Stellate!Tags(page)
    BY <1>2, <2>1 DEF Stellate!Tags
  <2> QED
    BY <1>1, <2>4, <2>5 DEF Awaited, Reaches, Stellate!Purged
<1> QED
  BY <1>1, <1>2, <1>3 DEF CacheInv

\* Every step keeps the invariant.
LEMMA CacheStep ==
    ASSUME CacheInv, CacheTypes, [Stellate!Next]_(Stellate!vars)
    PROVE  CacheInv'
<1>1. ASSUME NEW rule \in PurgeRules, Stellate!Close(rule)
      PROVE  CacheInv'
  BY <1>1, CloseStep
<1>2. ASSUME NEW rule \in PurgeRules, NEW key \in Stellate!Keys(rule),
                   Stellate!Change(rule, key)
      PROVE  CacheInv'
  BY <1>2, ChangeIsAwaited
<1>3. ASSUME NEW purge \in stellatePurges, Stellate!Arrive(purge)
      PROVE  CacheInv'
  BY <1>3, ArriveStep
<1>4. ASSUME NEW purge \in stellatePurges, Stellate!Fail(purge)
      PROVE  CacheInv'
  BY <1>4, FailStep
<1>5. CASE Stellate!Stop
  BY <1>5, StopStep
<1>6. ASSUME NEW page \in Stellate!Pages, Stellate!Fetch(page)
      PROVE  CacheInv'
  BY <1>6, NothingStirs DEF Stellate!Fetch, Stellate!shop
<1>7. ASSUME NEW page \in Stellate!Pages, Stellate!Fill(page)
      PROVE  CacheInv'
  BY <1>7, FillStep
<1>8. ASSUME NEW p \in Products, Stellate!Index(p)
      PROVE  CacheInv'
  BY <1>8, NothingStirs DEF Stellate!Index
<1>9. CASE UNCHANGED Stellate!vars
  BY <1>9, NothingStirs DEF Stellate!vars
<1> QED
  BY <1>1, <1>2, <1>3, <1>4, <1>5, <1>6, <1>7, <1>8, <1>9 DEF Stellate!Next

LEMMA CacheInit == Stellate!Init => CacheInv
<1> SUFFICES ASSUME Stellate!Init PROVE CacheInv
  OBVIOUS
<1>1. stellateVersion \in [Stellate!Things -> Nat]
  BY DEF Stellate!Init
<1>2. \A page \in Stellate!Pages : stellateCache[page] = None
  BY DEF Stellate!Init
<1>3. \A page \in Stellate!Pages : ~Stellate!Stale(page)
  BY <1>2 DEF Stellate!Stale
<1>4. stellateBuffer = [rule \in PurgeRules |-> stellateBuffer[rule]]
        /\ stellateCache = [page \in Stellate!Pages |-> stellateCache[page]]
  BY DEF Stellate!Init
<1>5. \A rule \in PurgeRules : stellateBuffer[rule] \in Seq(Stellate!Keys(rule))
  BY DEF Stellate!Init
<1> QED
  BY <1>1, <1>3, <1>4, <1>5 DEF CacheInv

\* Seen from the cache a step of another plugin is none.
LEMMA StellateAlone == Spec => Stellate!Spec
<1>1. Init => Stellate!Init
  BY DEF Init
<1>2. [Next]_vars => [Stellate!Next]_(Stellate!vars)
  BY DEF Next, vars, Stellate!vars, stellateVars, StripeStep, BraintreeStep,
         PubSubStep, RedisStep, EmailStep, AssetsStep, StellateStep, SearchStep, DashboardStep,
         butStripe, butBraintree, butPubSub, butRedis, butEmail, butAssets, butStellate,
         butSearch, butDashboard
<1> QED
  BY <1>1, <1>2, PTL DEF Spec, Stellate!Spec

-----------------------------------------------------------------------------
(* Types.                                                                    *)

\* What a page shows is of the page.
LEMMA AnswerMayShow ==
    ASSUME CacheTypes, NEW page \in Stellate!Pages
    PROVE  DOMAIN Stellate!Answer(page) \subseteq Stellate!MayShow(page)
<1>1. \A p \in Products : DOMAIN stellateIndex[p].shows \subseteq Stellate!Offers
  <2>1. \A p : <<"product", p>>[1] = "product"
    OBVIOUS
  <2> QED
    BY <2>1 DEF CacheTypes, Stellate!MayShow
<1>2. CASE page[1] = "search"
  BY <1>1, <1>2 DEF Stellate!Answer, Stellate!MayShow
<1>3. CASE page[1] # "search"
  BY <1>3 DEF Stellate!Answer, Stellate!OnPage, Stellate!Shown, Stellate!MayShow,
              Stellate!Pages
<1> QED
  BY <1>2, <1>3

LEMMA EntryMayShow ==
    ASSUME NEW p \in Products
    PROVE  /\ Stellate!Entry(p).in \in SUBSET Collections
           /\ DOMAIN Stellate!Entry(p).shows \subseteq Stellate!MayShow(<<"product", p>>)
<1>1. <<"product", p>>[1] = "product" /\ <<"product", p>>[2] = p
  OBVIOUS
<1>2. Stellate!Shown(p) \subseteq Stellate!MayShow(<<"product", p>>)
  BY <1>1 DEF Stellate!Shown, Stellate!MayShow
<1> QED
  BY <1>2 DEF Stellate!Entry

LEMMA CacheTypesInit == Stellate!Init => CacheTypes
BY EntryMayShow DEF Stellate!Init, CacheTypes

LEMMA CacheTypesStep == CacheInv /\ CacheTypes /\ [Stellate!Next]_(Stellate!vars) => CacheTypes'
<1> SUFFICES ASSUME CacheInv, CacheTypes, [Stellate!Next]_(Stellate!vars) PROVE CacheTypes'
  OBVIOUS
<1>1. \A set : Stellate!PagesOf(set) \subseteq Stellate!Pages
  BY DEF Stellate!PagesOf
<1>2. ASSUME NEW rule \in PurgeRules, Stellate!Close(rule) PROVE CacheTypes'
  BY <1>1, <1>2 DEF Stellate!Close, Stellate!shop, CacheTypes
<1>3. ASSUME NEW rule \in PurgeRules, NEW key \in Stellate!Keys(rule),
                   Stellate!Change(rule, key)
      PROVE  CacheTypes'
  <2>1. rule \in Stellate!DefaultPurgeRules
    BY StellateAssumption
  <2>2. Stellate!Toggled(rule, key) \subseteq Stellate!Offers
    BY <2>1 DEF Stellate!Toggled, Stellate!Changed, Stellate!Offers, Stellate!Keys,
                Stellate!OfProduct, Stellate!OfVariant
  <2>3. Stellate!Moved(rule, key) \subseteq Products \X Collections
    BY <2>1, StellateAssumption
       DEF Stellate!Moved, Stellate!Keys, Stellate!OfProduct, Stellate!OfVariant,
           Stellate!DefaultPurgeRules
  <2>4. stellateLive' \in SUBSET Stellate!Offers
    BY <1>3, <2>2 DEF Stellate!Change, CacheTypes
  <2>5. stellateFound' \in SUBSET (Products \X Collections)
    BY <1>3, <2>3 DEF Stellate!Change, CacheTypes
  <2>6. UNCHANGED <<stellateDebugLogging, stellateIndex, stellateCache, stellateFilling,
                    stellateExcused>>
    BY <1>3 DEF Stellate!Change
  <2> QED
    BY <2>4, <2>5, <2>6 DEF CacheTypes
<1>4. ASSUME NEW purge \in stellatePurges, Stellate!Arrive(purge) PROVE CacheTypes'
  BY <1>4 DEF Stellate!Arrive, Stellate!shop, CacheTypes
<1>5. ASSUME NEW purge \in stellatePurges, Stellate!Fail(purge) PROVE CacheTypes'
  BY <1>1, <1>5 DEF Stellate!Fail, Stellate!shop, CacheTypes
<1>6. CASE Stellate!Stop
  BY <1>1, <1>6 DEF Stellate!Stop, Stellate!shop, CacheTypes
<1>7. ASSUME NEW page \in Stellate!Pages, Stellate!Fetch(page) PROVE CacheTypes'
  <2>1. PICK answer : answer = Stellate!Answer(page)
    OBVIOUS
  <2>2. DOMAIN answer \subseteq Stellate!MayShow(page)
    BY <2>1, AnswerMayShow
  <2>3. stellateFilling' = [stellateFilling EXCEPT ![page] = answer]
          /\ UNCHANGED <<stellateDebugLogging, stellateLive, stellateFound, stellateIndex,
                         stellateCache, stellateExcused>>
    BY <1>7, <2>1 DEF Stellate!Fetch, Stellate!shop
  <2> QED
    BY <2>2, <2>3 DEF CacheTypes
<1>8. ASSUME NEW page \in Stellate!Pages, Stellate!Fill(page) PROVE CacheTypes'
  <2>1. stellateCache = [p \in Stellate!Pages |-> stellateCache[p]]
    BY DEF CacheInv
  <2>2. /\ stellateCache' = [stellateCache EXCEPT ![page] = stellateFilling[page]]
        /\ stellateFilling' = [stellateFilling EXCEPT ![page] = None]
        /\ stellateExcused' \in {stellateExcused \ {page}, stellateExcused \cup {page}}
        /\ UNCHANGED <<stellateDebugLogging, stellateLive, stellateFound, stellateIndex>>
    BY <1>8 DEF Stellate!Fill, Stellate!shop
  <2> QED
    BY <2>1, <2>2 DEF CacheTypes
<1>9. ASSUME NEW p \in Products, Stellate!Index(p) PROVE CacheTypes'
  <2>1. PICK entry : entry = Stellate!Entry(p)
    OBVIOUS
  <2>2. entry.in \in SUBSET Collections
          /\ DOMAIN entry.shows \subseteq Stellate!MayShow(<<"product", p>>)
    BY <2>1, EntryMayShow
  <2>3. stellateIndex' = [stellateIndex EXCEPT ![p] = entry]
          /\ UNCHANGED <<stellateDebugLogging, stellateLive, stellateFound, stellateCache,
                         stellateFilling, stellateExcused>>
    BY <1>9, <2>1 DEF Stellate!Index
  <2> QED
    BY <2>2, <2>3 DEF CacheTypes
<1>10. CASE UNCHANGED Stellate!vars
  BY <1>10 DEF Stellate!vars, CacheTypes
<1> QED
  BY <1>2, <1>3, <1>4, <1>5, <1>6, <1>7, <1>8, <1>9, <1>10 DEF Stellate!Next

-----------------------------------------------------------------------------
(* What Stellate keeps is current.                                           *)

\* The invariant of the cache, with its types.
CacheSafe == CacheInv /\ CacheTypes

LEMMA CacheIsSafe == Spec => []CacheSafe
<1>1. Stellate!Init => CacheSafe
  BY CacheInit, CacheTypesInit DEF CacheSafe
<1>2. CacheSafe /\ [Stellate!Next]_(Stellate!vars) => CacheSafe'
  BY CacheStep, CacheTypesStep DEF CacheSafe
<1> QED
  BY <1>1, <1>2, StellateAlone, PTL DEF Stellate!Spec

\* What an answer of Stellate's cache shows, and nothing waits to purge, is what
\* the shop has, unless a purge of it was lost, or cut short for the log, or the
\* answer came out of date: the handlers of the default rules
\* (default-purge-rules.ts) miss no page that shows what their events are about.
\* Of a page that lacks something, a new variant or a product that its search
\* would find now, it says nothing.
THEOREM QuietCacheFresh == Spec => []QuietCacheIsFresh
<1>1. CacheSafe => QuietCacheIsFresh
  BY DEF QuietCacheIsFresh, Stellate!QuietCacheIsFresh, CacheSafe, CacheInv, Awaited
<1> QED
  BY <1>1, CacheIsSafe, PTL

-----------------------------------------------------------------------------
(* The asset server.                                                         *)

(* What the key of a cache file tells of a query.                            *)

\* The words of a text.
Words(text) == {text[i] : i \in DOMAIN text}

LEMMA WordsOfBoth ==
    ASSUME NEW S, NEW a \in Seq(S), NEW b \in Seq(S)
    PROVE  a \o b \in Seq(S) /\ Words(a \o b) = Words(a) \cup Words(b)
<1>1. \A i \in DOMAIN a : i \in DOMAIN (a \o b) /\ (a \o b)[i] = a[i]
  OBVIOUS
<1>2. \A i \in DOMAIN b : i + Len(a) \in DOMAIN (a \o b) /\ (a \o b)[i + Len(a)] = b[i]
  OBVIOUS
<1>3. \A i \in DOMAIN (a \o b) :
        i \in DOMAIN a \/ (i - Len(a) \in DOMAIN b /\ i = (i - Len(a)) + Len(a))
  OBVIOUS
<1>4. a \o b \in Seq(S)
  OBVIOUS
<1>5. ASSUME NEW x \in Words(a \o b) PROVE x \in Words(a) \cup Words(b)
  <2>1. PICK i \in DOMAIN (a \o b) : x = (a \o b)[i]
    BY DEF Words
  <2> QED
    BY <1>1, <1>2, <1>3, <2>1 DEF Words
<1>6. ASSUME NEW x \in Words(a) \cup Words(b) PROVE x \in Words(a \o b)
  BY <1>1, <1>2 DEF Words
<1> QED
  BY <1>4, <1>5, <1>6

\* The words of a part that may be missing.
GivenWords(part) == IF part = None THEN {} ELSE {part}

AllWords == {"undefined", "crop", "resize"} \cup Sizes \cup Presets \cup FocalPoints
              \cup Formats \cup Qualities

LEMMA WordsOfPart ==
    ASSUME NEW part \in AllWords \cup {None}
    PROVE  Assets!Given(part) \in Seq(AllWords) /\ Words(Assets!Given(part)) = GivenWords(part)
<1>1. CASE part = None
  BY <1>1 DEF Assets!Given, Words, GivenWords
<1>2. CASE part # None
  <2>1. Assets!Given(part) = <<part>> /\ part \in AllWords
    BY <1>2 DEF Assets!Given
  <2>2. DOMAIN <<part>> = {1} /\ <<part>>[1] = part
    OBVIOUS
  <2> QED
    BY <1>2, <2>1, <2>2 DEF Words, GivenWords
<1> QED
  BY <1>1, <1>2

LEMMA WordsOfLonger ==
    ASSUME NEW a \in Seq(AllWords), NEW part \in AllWords \cup {None}
    PROVE  /\ a \o Assets!Given(part) \in Seq(AllWords)
           /\ Words(a \o Assets!Given(part)) = Words(a) \cup GivenWords(part)
BY WordsOfPart, WordsOfBoth

\* The words of the area a query asks for, where they say it.
AreaWords(q) ==
    IF q.size # None
    THEN {q.size, IF q.mode = None THEN "undefined" ELSE q.mode[1]}
    ELSE GivenWords(q.preset)

LEMMA WordsOfKey ==
    ASSUME NEW q \in Assets!Query, ~Assets!Ambiguous(q)
    PROVE  Words(Assets!FileKey(q)) =
             AreaWords(q) \cup GivenWords(q.focal) \cup GivenWords(q.format)
               \cup GivenWords(q.quality)
<1> DEFINE mode == IF q.mode = None THEN <<"undefined">> ELSE q.mode
           area == IF q.size # None THEN <<q.size>> \o mode ELSE Assets!Given(q.preset)
<1>1. /\ q.size \in Sizes \cup {None} /\ q.preset \in AllWords \cup {None}
      /\ q.focal \in AllWords \cup {None} /\ q.format \in AllWords \cup {None}
      /\ q.quality \in AllWords \cup {None}
  BY DEF Assets!Query, AllWords
<1>2. area \in Seq(AllWords) /\ Words(area) = AreaWords(q)
  <2>1. CASE q.size = None
    BY <1>1, <2>1, WordsOfPart DEF AreaWords
  <2>2. CASE q.size # None
    <3>1. PICK word \in {"undefined", "crop", "resize"} :
            mode = <<word>> /\ word = IF q.mode = None THEN "undefined" ELSE q.mode[1]
      BY <2>2 DEF Assets!Ambiguous
    <3>2. word \in AllWords /\ q.size \in AllWords /\ word # None
      BY <1>1, <2>2, AssetsAssumption DEF AllWords
    <3>3. <<word>> = Assets!Given(word) /\ <<q.size>> = Assets!Given(q.size)
      BY <2>2, <3>2 DEF Assets!Given
    <3>4. /\ <<q.size>> \in Seq(AllWords) /\ Words(<<q.size>>) = {q.size}
          /\ <<word>> \in Seq(AllWords) /\ Words(<<word>>) = {word}
      BY <2>2, <3>2, <3>3, WordsOfPart DEF GivenWords
    <3>5. area = <<q.size>> \o <<word>>
      BY <2>2, <3>1
    <3>6. area \in Seq(AllWords) /\ Words(area) = {q.size} \cup {word}
      <4> DEFINE first == <<q.size>>
      <4>1. area = first \o Assets!Given(word)
        BY <3>3, <3>5
      <4>2. first \in Seq(AllWords) /\ Words(first) = {q.size}
        BY <3>4
      <4> HIDE DEF first, area
      <4> QED
        BY <3>2, <4>1, <4>2, WordsOfLonger DEF GivenWords
    <3> QED
      BY <2>2, <3>1, <3>6 DEF AreaWords
  <2> QED
    BY <2>1, <2>2
<1>3. Assets!FileKey(q) =
        ((area \o Assets!Given(q.focal)) \o Assets!Given(q.format)) \o Assets!Given(q.quality)
  BY DEF Assets!FileKey
<1> HIDE DEF area
<1> DEFINE focused == area \o Assets!Given(q.focal)
           formatted == focused \o Assets!Given(q.format)
<1>4. focused \in Seq(AllWords) /\ Words(focused) = AreaWords(q) \cup GivenWords(q.focal)
  BY <1>1, <1>2, WordsOfLonger
<1> HIDE DEF focused
<1>5. /\ formatted \in Seq(AllWords)
      /\ Words(formatted) = AreaWords(q) \cup GivenWords(q.focal) \cup GivenWords(q.format)
  BY <1>1, <1>4, WordsOfLonger
<1> HIDE DEF formatted
<1>6. Words(formatted \o Assets!Given(q.quality)) =
        AreaWords(q) \cup GivenWords(q.focal) \cup GivenWords(q.format)
          \cup GivenWords(q.quality)
  BY <1>1, <1>5, WordsOfLonger
<1> QED
  BY <1>3, <1>6 DEF focused, formatted

\* Queries with one key draw the same, in the same format, unless their key
\* does not say what they draw.
LEMMA KeyTells ==
    ASSUME NEW q \in Assets!Query, NEW p \in Assets!Query,
           ~Assets!Ambiguous(q), ~Assets!Ambiguous(p), Assets!FileKey(q) = Assets!FileKey(p)
    PROVE  Assets!Drawn(q) = Assets!Drawn(p) /\ q.format = p.format
<1>1. AreaWords(q) \cup GivenWords(q.focal) \cup GivenWords(q.format) \cup GivenWords(q.quality)
        = AreaWords(p) \cup GivenWords(p.focal) \cup GivenWords(p.format)
            \cup GivenWords(p.quality)
  BY WordsOfKey
<1>2. \A x \in {q, p} :
        /\ x.size \in Sizes \cup {None} /\ x.preset \in Presets \cup {None}
        /\ x.focal \in FocalPoints \cup {None} /\ x.format \in Formats \cup {None}
        /\ x.quality \in Qualities \cup {None}
        /\ x.size # None => x.preset = None /\ x.mode \in {None, <<"crop">>, <<"resize">>}
  BY DEF Assets!Query, Assets!Ambiguous
<1>3. <<"crop">>[1] = "crop" /\ <<"resize">>[1] = "resize" /\ <<"crop">> # <<"resize">>
  OBVIOUS
<1>4. \A x \in {q, p} :
        AreaWords(x) \subseteq {"undefined", "crop", "resize"} \cup Sizes \cup Presets
  BY <1>2, <1>3 DEF AreaWords, GivenWords
<1>5. q.focal = p.focal
  BY <1>1, <1>2, <1>4, AssetsAssumption DEF GivenWords
<1>6. q.format = p.format
  BY <1>1, <1>2, <1>4, AssetsAssumption DEF GivenWords
<1>7. q.quality = p.quality
  BY <1>1, <1>2, <1>4, AssetsAssumption DEF GivenWords
<1>8. AreaWords(q) = AreaWords(p)
  BY <1>1, <1>2, <1>4, <1>5, <1>6, <1>7, AssetsAssumption DEF GivenWords
<1>9. q.size = p.size
  BY <1>2, <1>3, <1>8, AssetsAssumption DEF AreaWords, GivenWords
<1>10. q.preset = p.preset
  BY <1>2, <1>8, <1>9, AssetsAssumption DEF AreaWords, GivenWords
<1>11. q.size # None => (q.mode \in {None, <<"crop">>} <=> p.mode \in {None, <<"crop">>})
  <2>1. ASSUME NEW x \in {q, p}, x.size # None
        PROVE  x.mode \in {None, <<"crop">>} <=> "resize" \notin AreaWords(x)
    <3>1. x.size # "resize"
      BY <1>2, <2>1, AssetsAssumption
    <3>2. x.mode = None \/ x.mode = <<"crop">> \/ x.mode = <<"resize">>
      BY <1>2, <2>1
    <3>3. CASE x.mode = None
      BY <2>1, <3>1, <3>3 DEF AreaWords
    <3>4. CASE x.mode # None
      BY <1>3, <2>1, <3>1, <3>2, <3>4 DEF AreaWords
    <3> QED
      BY <3>3, <3>4
  <2> QED
    BY <1>8, <1>9, <2>1
<1> QED
  BY <1>5, <1>6, <1>7, <1>9, <1>10, <1>11 DEF Assets!Drawn

-----------------------------------------------------------------------------
(* The invariant of the asset server.                                        *)

Drawings == {Assets!Drawn(q) : q \in Queries}

\* What is sent, and the local state of a request.
AssetsAnswerState ==
    [status : Nat, of : Contents \cup {None}, drawn : Drawings \cup {None}, whole : BOOLEAN]

VisitState ==
    [step : Assets!VisitSteps, name : Names \cup {None}, query : Queries \cup {Assets!NoQuery},
     file : Assets!File \cup {None}, answer : AssetsAnswerState]

AssetTypes ==
    /\ assetStorage \in {"local", "s3"}
    /\ assetSource \in [Names -> Assets!File \cup {None}]
    /\ assetUploading \in [Names -> Contents \cup {None}]
    /\ assetCache \in [Assets!CacheFiles -> Assets!Image \cup {None}]
    /\ assetVisit \in [Visits -> VisitState]
    /\ assetVisits \in Nat /\ assetFaults \in Nat
    /\ assetUploaded \in [Names -> SUBSET Contents]
    /\ assetAmbiguous \in SUBSET Assets!CacheFiles
    /\ assetTorn \in SUBSET (Assets!CacheFiles \cup Names)

\* An image x was drawn for the cache file f, from an asset m as a query p says,
\* all of it unless m or one of the files in parts is torn. u, a and s are the
\* histories.
DrawnFor(x, f, m, p, parts, u, a, s) ==
    /\ Assets!CacheFile(m, p) = f
    /\ Assets!Ambiguous(p) => f \in a
    /\ x.of \in u[m] /\ x.drawn = Assets!Drawn(p)
    /\ x.whole \/ m \in s \/ \E part \in parts : part \in s

Shows(x, f, parts, u, a, s) ==
    \E m \in Names, p \in Queries : DrawnFor(x, f, m, p, parts, u, a, s)

\* The file a request x is for.
FileOf(x) == Assets!CacheFile(x.name, x.query)
TargetOf(x) == IF Assets!Plain(x.query) THEN x.name ELSE FileOf(x)

\* A request x holds a file of the asset it names, and was answered with an
\* image for its cache file.
VisitOK(x, u, a, s) ==
    /\ x.step # "idle" =>
          x.name \in Names /\ x.query \in Queries /\ (Assets!Ambiguous(x.query) => FileOf(x) \in a)
    /\ x.file # None => /\ x.name \in Names
                        /\ x.file.of \in u[x.name] /\ (x.file.whole \/ x.name \in s)
    /\ x.step \in {"transform", "write", "writing"} => x.file # None
    /\ x.step = "answered" /\ x.answer.status = 200 =>
          Shows(x.answer, FileOf(x), {x.name, TargetOf(x)}, u, a, s)

\* An asset is one that was uploaded under its name, and whole unless it is torn
\* or being written.
SourceOK(n) ==
    /\ assetUploading[n] # None => assetUploading[n] \in assetUploaded[n]
    /\ assetSource[n] # None =>
          /\ assetSource[n].of \in assetUploaded[n]
          /\ \/ assetSource[n].whole \/ n \in assetTorn \/ assetUploading[n] # None
             \/ Assets!Writing(n)

\* A cache file holds an image that was drawn for it, and all of it unless it
\* is torn or being written.
FileOK(f) ==
    assetCache[f] # None =>
        \E m \in Names, p \in Queries :
            /\ Assets!CacheFile(m, p) = f
            /\ Assets!Ambiguous(p) => f \in assetAmbiguous
            /\ assetCache[f].of \in assetUploaded[m] /\ assetCache[f].drawn = Assets!Drawn(p)
            /\ assetCache[f].whole \/ m \in assetTorn \/ f \in assetTorn \/ Assets!Writing(f)

\* The inductive invariant.
AssetsInv ==
    /\ AssetTypes
    /\ \A v \in Visits : VisitOK(assetVisit[v], assetUploaded, assetAmbiguous, assetTorn)
    /\ \A n \in Names : SourceOK(n)
    /\ \A f \in Assets!CacheFiles : FileOK(f)

LEMMA IdleVisit ==
    ASSUME NEW u, NEW a, NEW s
    PROVE  Assets!Idle \in VisitState /\ VisitOK(Assets!Idle, u, a, s)
             /\ Assets!Idle.step = "idle" /\ Assets!Idle.file = None
<1>1. Assets!NoAnswer \in AssetsAnswerState
  BY DEF Assets!NoAnswer, AssetsAnswerState
<1> QED
  BY <1>1 DEF Assets!Idle, VisitState, Assets!VisitSteps, VisitOK

LEMMA AssetsInit == Assets!Init => AssetsInv
<1> SUFFICES ASSUME Assets!Init PROVE AssetsInv
  OBVIOUS
<1>1. AssetTypes /\ \A v \in Visits :
        VisitOK(assetVisit[v], assetUploaded, assetAmbiguous, assetTorn)
  BY IdleVisit DEF Assets!Init, AssetTypes
<1>2. (\A n \in Names : SourceOK(n)) /\ \A f \in Assets!CacheFiles : FileOK(f)
  BY DEF Assets!Init, SourceOK, FileOK
<1> QED
  BY <1>1, <1>2 DEF AssetsInv

\* The local state of one request.
LEMMA OneVisit ==
    ASSUME AssetsInv, NEW v \in Visits
    PROVE  /\ assetVisit[v] \in VisitState
           /\ VisitOK(assetVisit[v], assetUploaded, assetAmbiguous, assetTorn)
           /\ Assets!Target(v) = TargetOf(assetVisit[v])
BY DEF AssetsInv, AssetTypes, Assets!Target, TargetOf, FileOf

\* The histories grow.
Grown ==
    /\ assetUploaded' \in [Names -> SUBSET Contents]
    /\ \A n \in Names : assetUploaded[n] \subseteq assetUploaded'[n]
    /\ assetAmbiguous \subseteq assetAmbiguous' /\ assetAmbiguous' \in SUBSET Assets!CacheFiles
    /\ assetTorn \subseteq assetTorn' /\ assetTorn' \in SUBSET (Assets!CacheFiles \cup Names)

LEMMA NothingGrown ==
    ASSUME AssetsInv, UNCHANGED <<assetUploaded, assetAmbiguous, assetTorn>>
    PROVE  Grown
BY DEF Grown, AssetsInv, AssetTypes

\* A request that does not move stays right.
LEMMA VisitKept ==
    ASSUME Grown, NEW x \in VisitState, VisitOK(x, assetUploaded, assetAmbiguous, assetTorn)
    PROVE  VisitOK(x, assetUploaded', assetAmbiguous', assetTorn')
BY DEF Grown, VisitOK, Shows, DrawnFor

\* A file that was being written still is, or is torn now.
StillWriting(f) == Assets!Writing(f) => f \in assetTorn' \/ Assets!Writing(f)'

\* A cache file that no request writes keeps its image.
LEMMA FilesKept ==
    ASSUME AssetsInv, Grown, NEW f \in Assets!CacheFiles, assetCache'[f] = assetCache[f],
           StillWriting(f)
    PROVE  FileOK(f)'
BY DEF AssetsInv, Grown, FileOK, StillWriting

\* So does an asset.
LEMMA SourceKept ==
    ASSUME AssetsInv, Grown, NEW n \in Names, assetSource'[n] = assetSource[n],
           assetUploading'[n] = assetUploading[n], StillWriting(n)
    PROVE  SourceOK(n)'
BY DEF AssetsInv, Grown, SourceOK, StillWriting

\* A step of one request.
LEMMA OneVisitMoves ==
    ASSUME AssetsInv, Grown, NEW v \in Visits, NEW next \in VisitState,
           assetVisit' = [assetVisit EXCEPT ![v] = next],
           VisitOK(next, assetUploaded', assetAmbiguous', assetTorn')
    PROVE  /\ assetVisit' \in [Visits -> VisitState] /\ assetVisit'[v] = next
           /\ \A w \in Visits \ {v} : assetVisit'[w] = assetVisit[w]
           /\ \A w \in Visits :
                 VisitOK(assetVisit'[w], assetUploaded', assetAmbiguous', assetTorn')
           /\ \A f : (f # Assets!Target(v) \/ assetVisit[v].step # "writing") => StillWriting(f)
<1>1. assetVisit \in [Visits -> VisitState]
  BY DEF AssetsInv, AssetTypes
<1>2. /\ assetVisit' \in [Visits -> VisitState] /\ assetVisit'[v] = next
      /\ \A w \in Visits \ {v} : assetVisit'[w] = assetVisit[w]
  BY <1>1
<1>3. ASSUME NEW w \in Visits \ {v}
      PROVE  VisitOK(assetVisit'[w], assetUploaded', assetAmbiguous', assetTorn')
  BY <1>1, <1>2, OneVisit, VisitKept
<1>4. \A w \in Visits \ {v} : Assets!Target(w)' = Assets!Target(w)
  BY <1>2 DEF Assets!Target
<1>5. ASSUME NEW f, f # Assets!Target(v) \/ assetVisit[v].step # "writing"
      PROVE  StillWriting(f)
  BY <1>2, <1>4, <1>5 DEF StillWriting, Assets!Writing
<1> QED
  BY <1>2, <1>3, <1>5

\* A step that changes neither the assets nor the cached files.
LEMMA RequestMoves ==
    ASSUME AssetsInv, Grown, NEW v \in Visits, NEW next \in VisitState,
           assetVisit' = [assetVisit EXCEPT ![v] = next],
           VisitOK(next, assetUploaded', assetAmbiguous', assetTorn'),
           assetVisit[v].step = "writing" => Assets!Target(v) \in assetTorn',
           UNCHANGED <<assetStorage, assetSource, assetUploading, assetCache>>,
           assetVisits' \in Nat, assetFaults' \in Nat
    PROVE  AssetsInv'
<1>1. /\ assetVisit' \in [Visits -> VisitState]
      /\ \A w \in Visits :
            VisitOK(assetVisit'[w], assetUploaded', assetAmbiguous', assetTorn')
      /\ \A f : (f # Assets!Target(v) \/ assetVisit[v].step # "writing") => StillWriting(f)
  BY OneVisitMoves
<1>2. AssetTypes'
  BY <1>1 DEF AssetsInv, AssetTypes, Grown
<1>3. \A f : StillWriting(f)
  BY <1>1 DEF StillWriting
<1>4. \A f \in Assets!CacheFiles : FileOK(f)'
  BY <1>3, FilesKept
<1>5. \A n \in Names : SourceOK(n)'
  BY <1>3, SourceKept
<1> QED
  BY <1>1, <1>2, <1>4, <1>5 DEF AssetsInv

\* The values of a request that goes to another step, holds a file, or is
\* answered.
LEMMA Going ==
    ASSUME NEW x \in VisitState, NEW step \in Assets!VisitSteps
    PROVE  LET y == [x EXCEPT !.step = step] IN
           /\ y \in VisitState
           /\ y.step = step /\ y.name = x.name /\ y.query = x.query /\ y.file = x.file
BY DEF VisitState

LEMMA Holding ==
    ASSUME NEW x \in VisitState, NEW file \in Assets!File
    PROVE  LET y == [x EXCEPT !.step = "transform", !.file = file] IN
           /\ y \in VisitState
           /\ y.step = "transform" /\ y.name = x.name /\ y.query = x.query /\ y.file = file
BY DEF VisitState, Assets!VisitSteps

LEMMA Answering ==
    ASSUME NEW x \in VisitState, NEW answer \in AssetsAnswerState
    PROVE  LET y == [x EXCEPT !.step = "answered", !.answer = answer] IN
           /\ y \in VisitState
           /\ y.step = "answered" /\ y.name = x.name /\ y.query = x.query /\ y.file = x.file
           /\ y.answer = answer
BY DEF VisitState, Assets!VisitSteps

\* A request that goes on, and is not answered yet.
LEMMA GoesOn ==
    ASSUME NEW x \in VisitState, NEW step \in Assets!VisitSteps \ {"idle", "answered"},
           NEW u, NEW a, NEW s, VisitOK(x, u, a, s), x.step # "idle",
           step \in {"transform", "write", "writing"} => x.file # None
    PROVE  VisitOK([x EXCEPT !.step = step], u, a, s)
<1> DEFINE y == [x EXCEPT !.step = step]
<1>1. y.step = step /\ y.name = x.name /\ y.query = x.query /\ y.file = x.file
  BY Going
<1> HIDE DEF y
<1>2. FileOf(y) = FileOf(x)
  BY <1>1 DEF FileOf
<1>3. VisitOK(y, u, a, s)
  BY <1>1, <1>2 DEF VisitOK
<1> QED
  BY <1>3 DEF y

\* A request that is answered, rightly or with an error.
LEMMA IsAnswered ==
    ASSUME NEW x \in VisitState, NEW answer \in AssetsAnswerState, NEW u, NEW a, NEW s,
           VisitOK(x, u, a, s), x.step # "idle",
           answer.status = 200 => Shows(answer, FileOf(x), {x.name, TargetOf(x)}, u, a, s)
    PROVE  VisitOK([x EXCEPT !.step = "answered", !.answer = answer], u, a, s)
<1> DEFINE y == [x EXCEPT !.step = "answered", !.answer = answer]
<1>1. /\ y.step = "answered" /\ y.name = x.name /\ y.query = x.query /\ y.file = x.file
      /\ y.answer = answer
  BY Answering
<1> HIDE DEF y
<1>2. FileOf(y) = FileOf(x) /\ TargetOf(y) = TargetOf(x)
  BY <1>1 DEF FileOf, TargetOf
<1>3. VisitOK(y, u, a, s)
  BY <1>1, <1>2 DEF VisitOK
<1> QED
  BY <1>3 DEF y

-----------------------------------------------------------------------------
(* The steps of the asset server.                                            *)

\* Assets are uploaded and deleted.
LEMMA ShopKeeps ==
    ASSUME AssetsInv, NEW n \in Names,
           \/ Assets!DeleteFile(n) \/ Assets!UploadCloses(n) \/ Assets!UploadFails(n)
           \/ \E c \in Contents : Assets!Upload(n, c)
    PROVE  AssetsInv'
<1>0. AssetTypes /\ SourceOK(n) /\ None \notin Contents
  BY AssetsAssumption DEF AssetsInv
<1>1. /\ UNCHANGED <<assetStorage, assetCache, assetVisit, assetVisits, assetAmbiguous>>
      /\ assetFaults' \in Nat
      /\ \A m \in Names \ {n} : assetSource'[m] = assetSource[m]
           /\ assetUploading'[m] = assetUploading[m]
  BY <1>0 DEF AssetTypes, Assets!DeleteFile, Assets!UploadCloses, Assets!UploadFails,
              Assets!Upload, Assets!Fault
<1>2. /\ assetSource' \in [Names -> Assets!File \cup {None}]
      /\ assetUploading' \in [Names -> Contents \cup {None}]
      /\ Grown /\ SourceOK(n)'
  <2>1. CASE Assets!DeleteFile(n)
    BY <1>0, <2>1 DEF AssetTypes, Assets!DeleteFile, Grown, SourceOK
  <2>2. CASE Assets!UploadCloses(n)
    <3> DEFINE file == [of |-> assetUploading[n], whole |-> TRUE]
    <3>1. file \in Assets!File /\ file.of = assetUploading[n] /\ file.whole
      BY <1>0, <2>2 DEF AssetTypes, Assets!UploadCloses, Assets!File
    <3>2. assetSource' = [assetSource EXCEPT ![n] = file]
            /\ assetUploading' = [assetUploading EXCEPT ![n] = None]
            /\ UNCHANGED <<assetUploaded, assetTorn, assetAmbiguous>> /\ assetUploading[n] # None
      BY <2>2 DEF Assets!UploadCloses
    <3> HIDE DEF file
    <3> QED
      BY <1>0, <3>1, <3>2 DEF AssetTypes, Grown, SourceOK
  <2>3. CASE Assets!UploadFails(n)
    BY <1>0, <2>3 DEF AssetTypes, Assets!UploadFails, Grown, SourceOK
  <2>4. ASSUME NEW c \in Contents, Assets!Upload(n, c)
        PROVE  /\ assetSource' \in [Names -> Assets!File \cup {None}]
               /\ assetUploading' \in [Names -> Contents \cup {None}]
               /\ Grown /\ SourceOK(n)'
    <3> DEFINE file == [of |-> c, whole |-> assetStorage = "s3"]
               left == IF assetStorage = "s3" THEN None ELSE c
    <3>1. /\ file \in Assets!File /\ file.of = c /\ (file.whole \/ left = c)
          /\ left \in {None, c} /\ c # None
      BY <1>0 DEF Assets!File
    <3>2. /\ assetSource' = [assetSource EXCEPT ![n] = file]
          /\ assetUploading' = [assetUploading EXCEPT ![n] = left]
          /\ assetUploaded' = [assetUploaded EXCEPT ![n] = @ \cup {c}]
          /\ UNCHANGED <<assetTorn, assetAmbiguous>>
      BY <2>4 DEF Assets!Upload
    <3> HIDE DEF file, left
    <3>3. Grown /\ c \in assetUploaded'[n]
      BY <1>0, <3>2 DEF AssetTypes, Grown
    <3> QED
      BY <1>0, <3>1, <3>2, <3>3 DEF AssetTypes, SourceOK
  <2> QED
    BY <2>1, <2>2, <2>3, <2>4
<1>3. AssetTypes'
  BY <1>0, <1>1, <1>2 DEF AssetTypes, Grown
<1>4. ASSUME NEW w \in Visits
      PROVE  VisitOK(assetVisit'[w], assetUploaded', assetAmbiguous', assetTorn')
  BY <1>1, <1>2, OneVisit, VisitKept
<1>5. \A f : StillWriting(f)
  BY <1>1 DEF StillWriting, Assets!Writing, Assets!Target
<1>6. \A f \in Assets!CacheFiles : FileOK(f)'
  BY <1>1, <1>2, <1>5, FilesKept
<1>7. \A m \in Names : SourceOK(m)'
  BY <1>1, <1>2, <1>5, SourceKept
<1> QED
  BY <1>3, <1>4, <1>6, <1>7 DEF AssetsInv

\* A request arrives.
LEMMA GetKeeps ==
    ASSUME AssetsInv, NEW v \in Visits, NEW n \in Names, NEW q \in Queries, Assets!Get(v, n, q)
    PROVE  AssetsInv'
<1> DEFINE next == [Assets!Idle EXCEPT !.step = "send", !.name = n, !.query = q]
<1>1. next \in VisitState /\ next.step = "send" /\ next.name = n /\ next.query = q
        /\ next.file = None
  <2> DEFINE x == Assets!Idle
  <2>1. x \in VisitState /\ x.file = None
    BY IdleVisit
  <2> HIDE DEF x
  <2>2. [x EXCEPT !.step = "send", !.name = n, !.query = q] \in VisitState
    BY <2>1 DEF VisitState, Assets!VisitSteps
  <2>3. /\ [x EXCEPT !.step = "send", !.name = n, !.query = q].step = "send"
        /\ [x EXCEPT !.step = "send", !.name = n, !.query = q].name = n
        /\ [x EXCEPT !.step = "send", !.name = n, !.query = q].query = q
        /\ [x EXCEPT !.step = "send", !.name = n, !.query = q].file = x.file
    BY <2>1 DEF VisitState
  <2> QED
    BY <2>1, <2>2, <2>3 DEF x
<1>2. /\ assetVisit' = [assetVisit EXCEPT ![v] = next]
      /\ assetVisit[v].step \in {"idle", "answered"} /\ assetVisits' = assetVisits + 1
      /\ assetAmbiguous' = IF Assets!Ambiguous(q)
                           THEN assetAmbiguous \cup {Assets!CacheFile(n, q)} ELSE assetAmbiguous
      /\ UNCHANGED <<assetStorage, assetSource, assetUploading, assetCache, assetFaults,
           assetUploaded, assetTorn>>
  BY DEF Assets!Get
<1> HIDE DEF next
<1>3. Assets!CacheFile(n, q) \in Assets!CacheFiles
  BY DEF Assets!CacheFiles
<1>4. Grown /\ (Assets!Ambiguous(q) => Assets!CacheFile(n, q) \in assetAmbiguous')
        /\ assetVisits' \in Nat /\ assetFaults' \in Nat
  BY <1>2, <1>3 DEF AssetsInv, AssetTypes, Grown
<1>5. VisitOK(next, assetUploaded', assetAmbiguous', assetTorn')
  BY <1>1, <1>4 DEF VisitOK, FileOf
<1> QED
  BY <1>1, <1>2, <1>4, <1>5, RequestMoves

\* A request that goes on while assets and cached files stay.
LEMMA GotoKeeps ==
    ASSUME AssetsInv, Grown, NEW v \in Visits,
           NEW step \in Assets!VisitSteps \ {"idle", "answered", "writing"},
           assetVisit[v].step \notin {"idle", "writing"}, Assets!Goto(v, step),
           step \in {"transform", "write"} => assetVisit[v].file # None,
           UNCHANGED <<assetStorage, assetSource, assetUploading, assetCache>>,
           assetVisits' \in Nat, assetFaults' \in Nat
    PROVE  AssetsInv'
<1> DEFINE x == assetVisit[v]
           next == [x EXCEPT !.step = step]
<1>1. x \in VisitState /\ VisitOK(x, assetUploaded', assetAmbiguous', assetTorn')
        /\ x.step \notin {"idle", "writing"} /\ (step \in {"transform", "write"} => x.file # None)
  BY OneVisit, VisitKept
<1>2. assetVisit' = [assetVisit EXCEPT ![v] = next]
  BY DEF Assets!Goto
<1> HIDE DEF x
<1>3. next \in VisitState /\ next.step = step
  BY <1>1, Going
<1>4. VisitOK(next, assetUploaded', assetAmbiguous', assetTorn')
  BY <1>1, GoesOn
<1> HIDE DEF next
<1> QED
  BY <1>1, <1>2, <1>3, <1>4, RequestMoves DEF x

\* A request is answered.
LEMMA AnswerKeeps ==
    ASSUME AssetsInv, Grown, NEW v \in Visits, NEW answer \in AssetsAnswerState,
           assetVisit[v].step # "idle", Assets!Answer(v, answer),
           assetVisit[v].step = "writing" => Assets!Target(v) \in assetTorn',
           answer.status = 200 =>
              Shows(answer, FileOf(assetVisit[v]), {assetVisit[v].name, TargetOf(assetVisit[v])},
                    assetUploaded', assetAmbiguous', assetTorn'),
           UNCHANGED <<assetStorage, assetSource, assetUploading, assetCache>>,
           assetVisits' \in Nat, assetFaults' \in Nat
    PROVE  AssetsInv'
<1> DEFINE x == assetVisit[v]
           next == [x EXCEPT !.step = "answered", !.answer = answer]
<1>1. x \in VisitState /\ VisitOK(x, assetUploaded', assetAmbiguous', assetTorn')
        /\ x.step # "idle"
  BY OneVisit, VisitKept
<1>2. assetVisit' = [assetVisit EXCEPT ![v] = next]
  BY DEF Assets!Answer
<1>3. answer.status = 200 => Shows(answer, FileOf(x), {x.name, TargetOf(x)},
                                   assetUploaded', assetAmbiguous', assetTorn')
  OBVIOUS
<1> HIDE DEF x
<1>4. next \in VisitState
  BY <1>1, Answering
<1>5. VisitOK(next, assetUploaded', assetAmbiguous', assetTorn')
  BY <1>1, <1>3, IsAnswered
<1> HIDE DEF next
<1> QED
  BY <1>2, <1>4, <1>5, RequestMoves DEF x

\* The statuses of an answer.
LEMMA StatusIs ==
    ASSUME NEW code \in Nat
    PROVE  Assets!Status(code) \in AssetsAnswerState /\ Assets!Status(code).status = code
BY DEF Assets!Status, Assets!NoAnswer, AssetsAnswerState

\* What is sent of an image.
LEMMA SentIs ==
    ASSUME NEW x, x.of \in Contents, x.drawn \in Drawings, x.whole \in BOOLEAN
    PROVE  /\ Assets!Sent(x) \in AssetsAnswerState /\ Assets!Sent(x).of = x.of
           /\ Assets!Sent(x).drawn = x.drawn /\ Assets!Sent(x).whole = x.whole
BY DEF Assets!Sent, AssetsAnswerState

\* What is sent shows what the image shows.
LEMMA SentShows ==
    ASSUME NEW x, x.of \in Contents, x.drawn \in Drawings, x.whole \in BOOLEAN,
           NEW f, NEW parts, NEW u, NEW a, NEW s, Shows(x, f, parts, u, a, s)
    PROVE  Shows(Assets!Sent(x), f, parts, u, a, s)
BY SentIs DEF Shows, DrawnFor

\* A file that is read while somebody writes it is torn from then on.
LEMMA ReadingGrows ==
    ASSUME AssetsInv, NEW f \in Assets!CacheFiles \cup Names, Assets!Reading(f),
           UNCHANGED <<assetUploaded, assetAmbiguous>>
    PROVE  /\ Grown
           /\ Assets!Writing(f) => f \in assetTorn'
           /\ f \in Names /\ assetUploading[f] # None => f \in assetTorn'
<1>1. assetTorn' = assetTorn \/ assetTorn' = assetTorn \cup {f}
  BY DEF Assets!Reading
<1>2. Grown
  BY <1>1 DEF Grown, AssetsInv, AssetTypes
<1> QED
  BY <1>2 DEF Assets!Reading

\* What a request is about while it is at work.
LEMMA Working ==
    ASSUME AssetsInv, NEW v \in Visits, assetVisit[v].step # "idle"
    PROVE  /\ assetVisit[v].name \in Names /\ assetVisit[v].query \in Queries
           /\ FileOf(assetVisit[v]) \in Assets!CacheFiles
           /\ FileOf(assetVisit[v]) = Assets!CacheFile(assetVisit[v].name, assetVisit[v].query)
           /\ Assets!Target(v) \in Assets!CacheFiles \cup Names
           /\ Assets!Target(v) = TargetOf(assetVisit[v])
           /\ Assets!Ambiguous(assetVisit[v].query) => FileOf(assetVisit[v]) \in assetAmbiguous
           /\ Assets!Drawn(assetVisit[v].query) \in Drawings
<1>1. /\ assetVisit[v].name \in Names /\ assetVisit[v].query \in Queries
      /\ Assets!Ambiguous(assetVisit[v].query) => FileOf(assetVisit[v]) \in assetAmbiguous
      /\ Assets!Target(v) = TargetOf(assetVisit[v])
  BY OneVisit DEF VisitOK
<1>2. FileOf(assetVisit[v]) = Assets!CacheFile(assetVisit[v].name, assetVisit[v].query)
  BY DEF FileOf
<1>3. FileOf(assetVisit[v]) \in Assets!CacheFiles
  BY <1>1, <1>2 DEF Assets!CacheFiles
<1> QED
  BY <1>1, <1>2, <1>3 DEF TargetOf, Drawings

\* sendAsset: the asset or the file of the cache is sent, or the request goes on.
LEMMA SendAssetKeeps ==
    ASSUME AssetsInv, NEW v \in Visits, Assets!SendAsset(v)
    PROVE  AssetsInv'
<1> DEFINE n == assetVisit[v].name
           q == assetVisit[v].query
           f == Assets!CacheFile(n, q)
           asset == [of |-> assetSource[n].of, drawn |-> Assets!Drawn(q),
                     whole |-> assetSource[n].whole]
           found == IF ~Assets!Plain(q) THEN assetCache[f]
                    ELSE IF assetSource[n] = None THEN None ELSE asset
           parts == {n, TargetOf(assetVisit[v])}
<1>0. AssetTypes /\ assetVisit[v].step = "send"
  BY DEF AssetsInv, Assets!SendAsset
<1>1. /\ n \in Names /\ q \in Queries /\ f \in Assets!CacheFiles /\ f = FileOf(assetVisit[v])
      /\ Assets!Target(v) \in Assets!CacheFiles \cup Names
      /\ Assets!Target(v) = TargetOf(assetVisit[v])
      /\ (Assets!Ambiguous(q) => f \in assetAmbiguous) /\ Assets!Drawn(q) \in Drawings
  BY <1>0, Working
<1>2. /\ UNCHANGED <<assetStorage, assetSource, assetUploading, assetCache, assetVisits,
           assetFaults, assetUploaded, assetAmbiguous>>
      /\ Assets!Reading(Assets!Target(v))
      /\ \/ found = None /\ Assets!Goto(v, "original")
         \/ found # None /\ Assets!Answer(v, Assets!Sent(found))
  BY DEF Assets!SendAsset
<1>3. /\ Grown
      /\ Assets!Writing(Assets!Target(v)) => Assets!Target(v) \in assetTorn'
      /\ Assets!Target(v) \in Names /\ assetUploading[Assets!Target(v)] # None
           => Assets!Target(v) \in assetTorn'
  BY <1>1, <1>2, ReadingGrows
<1>4. CASE Assets!Goto(v, "original")
  <2>1. "original" \in Assets!VisitSteps \ {"idle", "answered", "writing"}
    BY DEF Assets!VisitSteps
  <2> QED
    BY <1>0, <1>2, <1>3, <1>4, <2>1, GotoKeeps DEF AssetTypes
<1>5. CASE found # None /\ Assets!Answer(v, Assets!Sent(found))
  <2>1. found.of \in Contents /\ found.drawn \in Drawings /\ found.whole \in BOOLEAN
          /\ Shows(found, f, parts, assetUploaded', assetAmbiguous', assetTorn')
    <3>1. CASE Assets!Plain(q)
      <4>1. /\ found = asset /\ assetSource[n] # None /\ assetSource[n] \in Assets!File
            /\ SourceOK(n) /\ Assets!Target(v) = n
        BY <1>0, <1>1, <1>5, <3>1 DEF AssetTypes, AssetsInv, TargetOf
      <4>2. found.of \in assetUploaded[n] /\ found.drawn = Assets!Drawn(q)
              /\ found.of \in Contents /\ found.whole \in BOOLEAN
              /\ (found.whole \/ n \in assetTorn')
        BY <1>1, <1>3, <4>1 DEF SourceOK, Assets!File, Grown
      <4> HIDE DEF found, parts
      <4>3. DrawnFor(found, f, n, q, parts, assetUploaded', assetAmbiguous', assetTorn')
        BY <1>1, <1>3, <4>2 DEF DrawnFor, Grown
      <4> QED
        BY <1>1, <4>2, <4>3 DEF Shows
    <3>2. CASE ~Assets!Plain(q)
      <4>1. /\ found = assetCache[f] /\ found \in Assets!Image /\ FileOK(f)
            /\ Assets!Target(v) = f
        BY <1>0, <1>1, <1>5, <3>2 DEF AssetTypes, AssetsInv, TargetOf
      <4>2. PICK m \in Names, p \in Queries :
                /\ Assets!CacheFile(m, p) = f
                /\ Assets!Ambiguous(p) => f \in assetAmbiguous
                /\ found.of \in assetUploaded[m] /\ found.drawn = Assets!Drawn(p)
                /\ found.whole \/ m \in assetTorn \/ f \in assetTorn \/ Assets!Writing(f)
        BY <1>5, <4>1 DEF FileOK
      <4>3. /\ found.of \in Contents /\ found.drawn \in Drawings /\ found.whole \in BOOLEAN
            /\ f \in parts /\ (found.whole \/ m \in assetTorn' \/ f \in assetTorn')
        BY <1>1, <1>3, <4>1, <4>2 DEF Assets!Image, Drawings, Grown
      <4> HIDE DEF found, parts
      <4>4. DrawnFor(found, f, m, p, parts, assetUploaded', assetAmbiguous', assetTorn')
        BY <1>3, <4>2, <4>3 DEF DrawnFor, Grown
      <4> QED
        BY <4>3, <4>4 DEF Shows
    <3> QED
      BY <3>1, <3>2
  <2> HIDE DEF found
  <2>2. Assets!Sent(found) \in AssetsAnswerState
          /\ Shows(Assets!Sent(found), f, parts, assetUploaded', assetAmbiguous', assetTorn')
    BY <2>1, SentIs, SentShows
  <2> QED
    BY <1>0, <1>1, <1>2, <1>3, <1>5, <2>2, AnswerKeeps DEF AssetTypes
<1> QED
  BY <1>2, <1>4, <1>5

\* generateTransformedImage: the asset is read, or there is none.
LEMMA ReadOriginalKeeps ==
    ASSUME AssetsInv, NEW v \in Visits, Assets!ReadOriginal(v)
    PROVE  AssetsInv'
<1> DEFINE x == assetVisit[v]
           file == assetSource[x.name]
           next == [x EXCEPT !.step = "transform", !.file = file]
<1>0. /\ x.step = "original" /\ Assets!Reading(x.name)
      /\ UNCHANGED <<assetStorage, assetSource, assetUploading, assetCache, assetVisits,
           assetFaults, assetUploaded, assetAmbiguous>>
      /\ \/ Assets!Answer(v, Assets!Status(404))
         \/ file # None /\ assetVisit' = [assetVisit EXCEPT ![v] = next]
  BY DEF Assets!ReadOriginal, Assets!NotFound
<1>1. x.name \in Names /\ assetVisits' \in Nat /\ assetFaults' \in Nat
  BY <1>0, Working DEF AssetsInv, AssetTypes
<1>2. /\ Grown /\ (Assets!Writing(x.name) => x.name \in assetTorn')
      /\ (assetUploading[x.name] # None => x.name \in assetTorn')
  BY <1>0, <1>1, ReadingGrows
<1>3. CASE Assets!Answer(v, Assets!Status(404))
  <2>1. Assets!Status(404) \in AssetsAnswerState /\ Assets!Status(404).status # 200
    BY StatusIs
  <2> QED
    BY <1>0, <1>1, <1>2, <1>3, <2>1, AnswerKeeps
<1>4. CASE file # None /\ assetVisit' = [assetVisit EXCEPT ![v] = next]
  <2>1. /\ file \in Assets!File /\ file.of \in assetUploaded'[x.name]
        /\ file.whole \/ x.name \in assetTorn'
    BY <1>1, <1>2, <1>4 DEF AssetsInv, AssetTypes, SourceOK, Grown
  <2>2. x \in VisitState /\ VisitOK(x, assetUploaded', assetAmbiguous', assetTorn')
          /\ x.step = "original"
    BY <1>0, <1>2, OneVisit, VisitKept
  <2> HIDE DEF x, file
  <2>3. /\ next \in VisitState /\ next.step = "transform" /\ next.name = x.name
        /\ next.query = x.query /\ next.file = file
    BY <2>1, <2>2, Holding
  <2> HIDE DEF next
  <2>4. FileOf(next) = FileOf(x)
    BY <2>3 DEF FileOf
  <2>5. VisitOK(next, assetUploaded', assetAmbiguous', assetTorn')
    BY <1>1, <1>4, <2>1, <2>2, <2>3, <2>4 DEF VisitOK
  <2>6. assetVisit[v].step # "writing"
    BY <1>0 DEF x
  <2> QED
    BY <1>0, <1>1, <1>2, <1>4, <2>3, <2>5, <2>6, RequestMoves
<1> QED
  BY <1>0, <1>3, <1>4

\* What transforming an original makes.
LEMMA TransformedIs ==
    ASSUME AssetsInv, NEW v \in Visits, assetVisit[v].step \in {"transform", "write", "writing"}
    PROVE  LET x == assetVisit[v]
               image == Assets!Transformed(v)
           IN  /\ image \in Assets!Image /\ image.whole = x.file.whole
               /\ image.of = x.file.of /\ image.of \in assetUploaded[x.name]
               /\ image.whole \/ x.name \in assetTorn
               /\ image.drawn = Assets!Drawn(x.query)
               /\ Assets!Sent(image) \in AssetsAnswerState
               /\ Shows(Assets!Sent(image), FileOf(x), {x.name, TargetOf(x)},
                        assetUploaded, assetAmbiguous, assetTorn)
<1> DEFINE x == assetVisit[v]
           image == Assets!Transformed(v)
           parts == {x.name, TargetOf(x)}
<1>1. /\ x.name \in Names /\ x.query \in Queries /\ Assets!Drawn(x.query) \in Drawings
      /\ FileOf(x) = Assets!CacheFile(x.name, x.query)
      /\ (Assets!Ambiguous(x.query) => FileOf(x) \in assetAmbiguous)
  BY Working
<1>2. x.file \in Assets!File /\ x.file.of \in assetUploaded[x.name]
        /\ (x.file.whole \/ x.name \in assetTorn)
  BY OneVisit DEF VisitOK, VisitState
<1>3. image = [of |-> x.file.of, drawn |-> Assets!Drawn(x.query), whole |-> x.file.whole]
  BY DEF Assets!Transformed
<1> HIDE DEF x
<1>4. image \in Assets!Image /\ image.of = x.file.of /\ image.drawn = Assets!Drawn(x.query)
        /\ image.whole = x.file.whole
  BY <1>1, <1>2, <1>3 DEF Assets!Image, Assets!File, Drawings
<1>5. image.of \in Contents /\ image.drawn \in Drawings /\ image.whole \in BOOLEAN
  BY <1>1, <1>2, <1>4 DEF Assets!File
<1> HIDE DEF image, parts
<1>6. DrawnFor(image, FileOf(x), x.name, x.query, parts, assetUploaded, assetAmbiguous, assetTorn)
  BY <1>1, <1>2, <1>4 DEF DrawnFor
<1>7. Shows(image, FileOf(x), parts, assetUploaded, assetAmbiguous, assetTorn)
  BY <1>1, <1>6 DEF Shows
<1>8. Assets!Sent(image) \in AssetsAnswerState
        /\ Shows(Assets!Sent(image), FileOf(x), parts, assetUploaded, assetAmbiguous, assetTorn)
  BY <1>5, <1>7, SentIs, SentShows
<1> QED
  BY <1>2, <1>4, <1>8 DEF x, image, parts

\* The image is made.
LEMMA TransformKeeps ==
    ASSUME AssetsInv, NEW v \in Visits,
           Assets!Transform(v) \/ \E inside \in BOOLEAN : Assets!TransformFails(v, inside)
    PROVE  AssetsInv'
<1>0. /\ assetVisit[v].step = "transform" /\ assetVisits' \in Nat /\ assetFaults' \in Nat
      /\ UNCHANGED <<assetStorage, assetSource, assetUploading, assetCache, assetUploaded,
           assetAmbiguous, assetTorn>>
  BY DEF AssetsInv, AssetTypes, Assets!Transform, Assets!TransformFails, Assets!Fault
<1>1. assetVisit[v].file # None /\ Grown
  BY <1>0, OneVisit, NothingGrown DEF VisitOK
<1>2. CASE Assets!Goto(v, "write") \/ Assets!Goto(v, "hung")
  <2>1. {"write", "hung"} \subseteq Assets!VisitSteps \ {"idle", "answered", "writing"}
    BY DEF Assets!VisitSteps
  <2> QED
    BY <1>0, <1>1, <1>2, <2>1, GotoKeeps
<1>3. CASE Assets!Answer(v, Assets!Sent(Assets!Transformed(v)))
  BY <1>0, <1>1, <1>3, TransformedIs, AnswerKeeps
<1>4. CASE Assets!Answer(v, Assets!Status(500))
  <2>1. Assets!Status(500) \in AssetsAnswerState /\ Assets!Status(500).status # 200
    BY StatusIs
  <2> QED
    BY <1>0, <1>1, <1>4, <2>1, AnswerKeeps
<1> QED
  BY <1>2, <1>3, <1>4 DEF Assets!Transform, Assets!TransformFails

\* An asset is not a file of the cache.
LEMMA AssetsAreNotCached ==
    ASSUME NEW n \in Names PROVE n \notin Assets!CacheFiles
<1>1. DOMAIN n = {"base", "ext"}
  BY AssetsAssumption
<1>2. \A f \in Assets!CacheFiles : DOMAIN f = {"base", "key", "ext"}
  BY DEF Assets!CacheFiles, Assets!CacheFile
<1> QED
  BY <1>1, <1>2

\* A request opens its file, or puts the whole image there.
LEMMA PutKeeps ==
    ASSUME AssetsInv, NEW v \in Visits, NEW next \in VisitState, NEW whole \in BOOLEAN,
           assetVisit[v].step \in {"write", "writing"}, Assets!Put(v, whole),
           assetVisit' = [assetVisit EXCEPT ![v] = next],
           VisitOK(next, assetUploaded, assetAmbiguous, assetTorn),
           whole \/ (next.step = "writing" /\ TargetOf(next) = Assets!Target(v)),
           UNCHANGED <<assetStorage, assetUploading, assetVisits, assetFaults, assetUploaded,
             assetAmbiguous, assetTorn>>
    PROVE  AssetsInv'
<1> DEFINE x == assetVisit[v]
<1>1. PICK n \in Names, q \in Queries, f \in Assets!CacheFiles,
           t \in Assets!CacheFiles \cup Names :
        /\ n = x.name /\ q = x.query /\ t = Assets!Target(v) /\ f = FileOf(x)
        /\ f = Assets!CacheFile(n, q) /\ t = TargetOf(x)
        /\ (Assets!Ambiguous(q) => f \in assetAmbiguous)
  BY Working
<1>2. AssetTypes /\ Grown
  BY NothingGrown DEF AssetsInv
<1>3. /\ assetVisit' \in [Visits -> VisitState] /\ assetVisit'[v] = next
      /\ \A w \in Visits :
            VisitOK(assetVisit'[w], assetUploaded', assetAmbiguous', assetTorn')
      /\ \A g : (g # t \/ x.step # "writing") => StillWriting(g)
  BY <1>1, <1>2, OneVisitMoves
<1>4. PICK image \in Assets!Image :
          /\ image = Assets!Transformed(v) /\ image.whole \in BOOLEAN /\ image.of \in Contents
          /\ image.of \in assetUploaded[n]
          /\ image.whole \/ n \in assetTorn
          /\ image.drawn = Assets!Drawn(q)
  BY <1>1, TransformedIs DEF Assets!Image
<1>5. whole \/ Assets!Writing(t)'
  <2>1. next.step = "writing" => Assets!Target(v)' = TargetOf(next)
    BY <1>3 DEF Assets!Target, TargetOf, FileOf
  <2> QED
    BY <1>1, <1>3, <2>1 DEF Assets!Writing
<1>6. CASE Assets!Plain(q)
  <2> DEFINE file == [of |-> image.of, whole |-> whole /\ image.whole]
  <2>1. file \in Assets!File /\ file.of = image.of /\ file.whole = (whole /\ image.whole)
    BY <1>4 DEF Assets!File
  <2>2. assetSource' = [assetSource EXCEPT ![n] = file] /\ assetCache' = assetCache
          /\ t = n
    BY <1>1, <1>4, <1>6 DEF Assets!Put, TargetOf
  <2> HIDE DEF file
  <2>3. AssetTypes'
    BY <1>2, <1>3, <2>1, <2>2 DEF AssetTypes, Grown
  <2>4. SourceOK(n)'
    <3>1. assetSource'[n] = file
      BY <1>1, <1>2, <2>2 DEF AssetTypes
    <3>2. file.of \in assetUploaded[n]
            /\ (file.whole \/ n \in assetTorn \/ Assets!Writing(n)')
      BY <1>4, <1>5, <2>1, <2>2
    <3> QED
      BY <1>1, <3>1, <3>2 DEF AssetsInv, SourceOK
  <2>5. ASSUME NEW m \in Names \ {n} PROVE SourceOK(m)'
    <3>1. assetSource'[m] = assetSource[m] /\ assetUploading'[m] = assetUploading[m]
      BY <1>2, <2>2 DEF AssetTypes
    <3> QED
      BY <1>2, <1>3, <2>2, <3>1, SourceKept
  <2>6. ASSUME NEW g \in Assets!CacheFiles PROVE FileOK(g)'
    BY <1>1, <1>2, <1>3, <2>2, FilesKept, AssetsAreNotCached
  <2> QED
    BY <1>3, <2>3, <2>4, <2>5, <2>6 DEF AssetsInv
<1>7. CASE ~Assets!Plain(q)
  <2> DEFINE put == [image EXCEPT !.whole = whole /\ @]
  <2>1. put \in Assets!Image /\ put.of = image.of /\ put.drawn = image.drawn
          /\ put.whole = (whole /\ image.whole)
    BY <1>4 DEF Assets!Image
  <2>2. assetCache' = [assetCache EXCEPT ![t] = put] /\ assetSource' = assetSource
          /\ t = f
    BY <1>1, <1>4, <1>7 DEF Assets!Put, TargetOf
  <2> HIDE DEF put
  <2>3. AssetTypes'
    BY <1>1, <1>2, <1>3, <2>1, <2>2 DEF AssetTypes, Grown
  <2>4. FileOK(t)'
    <3>1. assetCache'[t] = put
      BY <1>1, <1>2, <2>2 DEF AssetTypes
    <3>2. put.whole \/ n \in assetTorn \/ Assets!Writing(t)'
      BY <1>4, <1>5, <2>1
    <3> QED
      BY <1>1, <1>4, <2>1, <2>2, <3>1, <3>2 DEF FileOK
  <2>5. ASSUME NEW g \in Assets!CacheFiles \ {t} PROVE FileOK(g)'
    <3>1. assetCache'[g] = assetCache[g]
      BY <1>2, <2>2 DEF AssetTypes
    <3> QED
      BY <1>2, <1>3, <3>1, FilesKept
  <2>6. ASSUME NEW m \in Names PROVE SourceOK(m)'
    BY <1>1, <1>2, <1>3, <2>2, SourceKept, AssetsAreNotCached
  <2> QED
    BY <1>1, <1>3, <2>2, <2>3, <2>4, <2>5, <2>6 DEF AssetsInv
<1> QED
  BY <1>6, <1>7

\* The file is opened to be written.
LEMMA OpenFileKeeps ==
    ASSUME AssetsInv, NEW v \in Visits, Assets!OpenFile(v)
    PROVE  AssetsInv'
<1> DEFINE x == assetVisit[v]
           next == [x EXCEPT !.step = "writing"]
<1>1. /\ x \in VisitState /\ VisitOK(x, assetUploaded, assetAmbiguous, assetTorn)
      /\ x.step = "write" /\ Assets!Target(v) = TargetOf(x) /\ Assets!Put(v, FALSE)
      /\ assetVisit' = [assetVisit EXCEPT ![v] = next]
      /\ UNCHANGED <<assetStorage, assetUploading, assetVisits, assetFaults, assetUploaded,
           assetAmbiguous, assetTorn>>
  BY OneVisit DEF Assets!OpenFile, Assets!Goto
<1>2. assetVisit[v].step \in {"write", "writing"}
  BY <1>1
<1> HIDE DEF x
<1>3. next \in VisitState /\ next.step = "writing" /\ TargetOf(next) = TargetOf(x)
  <2>1. next \in VisitState /\ next.step = "writing" /\ next.name = x.name
          /\ next.query = x.query
    BY <1>1, Going DEF Assets!VisitSteps
  <2> HIDE DEF next
  <2> QED
    BY <2>1 DEF TargetOf, FileOf
<1>4. VisitOK(next, assetUploaded, assetAmbiguous, assetTorn)
  <2>1. "writing" \in Assets!VisitSteps \ {"idle", "answered"} /\ x.file # None
    BY <1>1 DEF Assets!VisitSteps, VisitOK
  <2> QED
    BY <1>1, <2>1, GoesOn
<1> HIDE DEF next
<1> QED
  BY <1>1, <1>2, <1>3, <1>4, PutKeeps

\* The image is whole, and is sent.
LEMMA StoredKeeps ==
    ASSUME AssetsInv, NEW v \in Visits, Assets!FillFile(v) \/ Assets!PutObject(v)
    PROVE  AssetsInv'
<1> DEFINE x == assetVisit[v]
           answer == Assets!Sent(Assets!Transformed(v))
           next == [x EXCEPT !.step = "answered", !.answer = answer]
<1>1. /\ x \in VisitState /\ VisitOK(x, assetUploaded, assetAmbiguous, assetTorn)
      /\ assetVisit[v].step \in {"write", "writing"} /\ x.step # "idle" /\ Assets!Put(v, TRUE)
      /\ assetVisit' = [assetVisit EXCEPT ![v] = next]
      /\ UNCHANGED <<assetStorage, assetUploading, assetVisits, assetFaults, assetUploaded,
           assetAmbiguous, assetTorn>>
  BY OneVisit DEF Assets!FillFile, Assets!PutObject, Assets!Stored, Assets!Answer
<1>2. answer \in AssetsAnswerState
        /\ Shows(answer, FileOf(x), {x.name, TargetOf(x)},
                 assetUploaded, assetAmbiguous, assetTorn)
  BY <1>1, TransformedIs
<1> HIDE DEF x, answer
<1>3. next \in VisitState
  BY <1>1, <1>2, Answering
<1>4. VisitOK(next, assetUploaded, assetAmbiguous, assetTorn)
  BY <1>1, <1>2, IsAnswered
<1> HIDE DEF next
<1> QED
  BY <1>1, <1>3, <1>4, PutKeeps

\* Writing fails.
LEMMA WriteFailsKeeps ==
    ASSUME AssetsInv, NEW v \in Visits, Assets!WriteFails(v)
    PROVE  AssetsInv'
<1>1. /\ assetVisit[v].step \in {"write", "writing"} /\ Assets!Answer(v, Assets!Status(500))
      /\ UNCHANGED <<assetStorage, assetSource, assetUploading, assetCache, assetUploaded,
           assetAmbiguous>>
      /\ assetVisits' \in Nat /\ assetFaults' \in Nat
      /\ assetTorn' = IF assetVisit[v].step = "writing"
                      THEN assetTorn \cup {Assets!Target(v)} ELSE assetTorn
  BY DEF AssetsInv, AssetTypes, Assets!WriteFails, Assets!Fault
<1>2. Assets!Target(v) \in Assets!CacheFiles \cup Names
  BY <1>1, Working
<1>3. Grown /\ (assetVisit[v].step = "writing" => Assets!Target(v) \in assetTorn')
  BY <1>1, <1>2 DEF Grown, AssetsInv, AssetTypes
<1>4. Assets!Status(500) \in AssetsAnswerState /\ Assets!Status(500).status # 200
  BY StatusIs
<1> QED
  BY <1>1, <1>3, <1>4, AnswerKeeps

\* The process stops.
LEMMA CrashKeepsAssets ==
    ASSUME AssetsInv, Assets!Crash
    PROVE  AssetsInv'
<1> DEFINE half == {n \in Names : assetUploading[n] # None}
                     \cup {Assets!Target(v) : v \in {v \in Visits : assetVisit[v].step = "writing"}}
<1>1. /\ AssetTypes /\ UNCHANGED <<assetStorage, assetSource, assetCache, assetVisits,
           assetUploaded, assetAmbiguous>>
      /\ assetVisit' = [v \in Visits |-> Assets!Idle] /\ assetFaults' \in Nat
      /\ assetUploading' = [n \in Names |-> None] /\ assetTorn' = assetTorn \cup half
  BY DEF AssetsInv, AssetTypes, Assets!Crash, Assets!Fault
<1>2. half \subseteq Assets!CacheFiles \cup Names
  BY Working
<1>3. \A f : Assets!Writing(f) => f \in half
  BY DEF Assets!Writing
<1>4. \A n \in Names : assetUploading[n] # None => n \in half
  OBVIOUS
<1> HIDE DEF half
<1>5. Grown /\ \A f : StillWriting(f)
  BY <1>1, <1>2, <1>3 DEF Grown, AssetTypes, StillWriting
<1>6. AssetTypes'
  BY <1>1, <1>5, IdleVisit DEF AssetTypes, Grown
<1>7. \A v \in Visits : VisitOK(assetVisit'[v], assetUploaded', assetAmbiguous', assetTorn')
  BY <1>1, IdleVisit
<1>8. \A f \in Assets!CacheFiles : FileOK(f)'
  BY <1>1, <1>5, FilesKept
<1>9. ASSUME NEW n \in Names PROVE SourceOK(n)'
  BY <1>1, <1>4, <1>5 DEF AssetsInv, SourceOK, StillWriting
<1> QED
  BY <1>6, <1>7, <1>8, <1>9 DEF AssetsInv

\* Every step keeps the invariant.
LEMMA AssetsInvStep == AssetsInv /\ [Assets!Next]_(Assets!vars) => AssetsInv'
<1> SUFFICES ASSUME AssetsInv, [Assets!Next]_(Assets!vars) PROVE AssetsInv'
  OBVIOUS
<1>1. CASE UNCHANGED Assets!vars
  BY <1>1 DEF Assets!vars, AssetsInv, AssetTypes, FileOK, SourceOK, Assets!Writing, Assets!Target
<1> QED
  BY <1>1, ShopKeeps, GetKeeps, SendAssetKeeps, ReadOriginalKeeps, TransformKeeps,
     OpenFileKeeps, StoredKeeps, WriteFailsKeeps, CrashKeepsAssets
     DEF Assets!Next, Assets!Serve

\* Who shares a cache file with an asset, and does not draw for it alone, is a
\* namesake.
LEMMA SharedByNamesakes ==
    ASSUME NEW n \in Names, NEW q \in Queries, NEW m \in Names, NEW p \in Queries,
           Assets!CacheFile(m, p) = Assets!CacheFile(n, q),
           ~Assets!Ambiguous(p), ~Assets!Ambiguous(q)
    PROVE  /\ Assets!Drawn(p) = Assets!Drawn(q)
           /\ m = n \/ m \in Assets!Namesakes(n, q)
<1>1. /\ m.base = n.base /\ Assets!FileKey(p) = Assets!FileKey(q)
      /\ (IF p.format # None THEN p.format ELSE m.ext)
           = (IF q.format # None THEN q.format ELSE n.ext)
  BY DEF Assets!CacheFile
<1>2. Assets!Drawn(p) = Assets!Drawn(q) /\ p.format = q.format
  BY <1>1, KeyTells, AssetsAssumption
<1>3. m.ext = n.ext => m = n
  BY <1>1, AssetsAssumption
<1> QED
  BY <1>1, <1>2, <1>3 DEF Assets!Namesakes

LEMMA AssetsInvSuffices == ASSUME AssetsInv PROVE Assets!TypeOK /\ Assets!SentImageIsRight
<1>1. Assets!TypeOK
  <2>1. ASSUME NEW v \in Visits
        PROVE  /\ assetVisit[v].step \in Assets!VisitSteps
               /\ assetVisit[v].step # "idle" =>
                     assetVisit[v].name \in Names /\ assetVisit[v].query \in Queries
               /\ assetVisit[v].file \in Assets!File \cup {None}
               /\ assetVisit[v].step \in {"transform", "write", "writing"} =>
                     assetVisit[v].file # None
    BY OneVisit DEF VisitState, VisitOK
  <2> QED
    BY <2>1 DEF Assets!TypeOK, AssetsInv, AssetTypes
<1>2. Assets!SentImageIsRight
  <2> SUFFICES
        ASSUME NEW v \in Visits, assetVisit[v].step = "answered",
               assetVisit[v].answer.status = 200,
               \A m \in Assets!Namesakes(assetVisit[v].name, assetVisit[v].query) :
                  assetUploaded[m] = {},
               Assets!CacheFile(assetVisit[v].name, assetVisit[v].query) \notin assetAmbiguous,
               assetVisit[v].name \notin assetTorn, Assets!Target(v) \notin assetTorn
        PROVE  /\ assetVisit[v].answer.of \in assetUploaded[assetVisit[v].name]
               /\ assetVisit[v].answer.drawn = Assets!Drawn(assetVisit[v].query)
               /\ assetVisit[v].answer.whole
    BY DEF Assets!SentImageIsRight
  <2> DEFINE n == assetVisit[v].name
             q == assetVisit[v].query
             a == assetVisit[v].answer
  <2>1. /\ n \in Names /\ q \in Queries /\ Assets!Target(v) = TargetOf(assetVisit[v])
        /\ FileOf(assetVisit[v]) = Assets!CacheFile(n, q)
        /\ (Assets!Ambiguous(q) => FileOf(assetVisit[v]) \in assetAmbiguous)
    BY Working
  <2>2. Shows(a, Assets!CacheFile(n, q), {n, Assets!Target(v)},
              assetUploaded, assetAmbiguous, assetTorn)
    BY <2>1, OneVisit DEF VisitOK
  <2>3. PICK m \in Names, p \in Queries :
          /\ Assets!CacheFile(m, p) = Assets!CacheFile(n, q)
          /\ Assets!Ambiguous(p) => Assets!CacheFile(n, q) \in assetAmbiguous
          /\ a.of \in assetUploaded[m] /\ a.drawn = Assets!Drawn(p)
          /\ a.whole \/ m \in assetTorn \/ \E part \in {n, Assets!Target(v)} : part \in assetTorn
    BY <2>2 DEF Shows, DrawnFor
  <2>4. Assets!Drawn(p) = Assets!Drawn(q) /\ (m = n \/ m \in Assets!Namesakes(n, q))
    BY <2>1, <2>3, SharedByNamesakes
  <2>5. m = n
    BY <2>3, <2>4
  <2> QED
    BY <2>3, <2>4, <2>5
<1> QED
  BY <1>1, <1>2

\* Seen from the asset server a step of another plugin is none.
LEMMA AssetsAlone == Spec => Assets!Spec
<1>1. Init => Assets!Init
  BY DEF Init
<1>2. [Next]_vars => [Assets!Next]_(Assets!vars)
  BY DEF Next, vars, Assets!vars, assetVars, StripeStep, BraintreeStep,
         PubSubStep, RedisStep, EmailStep, AssetsStep, StellateStep, SearchStep, DashboardStep,
         butStripe, butBraintree, butPubSub, butRedis, butEmail, butAssets, butStellate,
         butSearch, butDashboard
<1> QED
  BY <1>1, <1>2, PTL DEF Spec, Assets!Spec

\* An image that is sent is of the asset, the area, the format and the quality
\* that were asked for, whatever other requests write meanwhile, unless the
\* name was used before, an asset that differs in its extension shares the
\* cache file, the key does not say what is drawn, or a file was torn.
THEOREM SentImagesAreRight == Spec => []SentImageIsRight
<1>1. AssetsInv => SentImageIsRight
  BY AssetsInvSuffices DEF SentImageIsRight
<1> QED
  BY <1>1, AssetsAlone, AssetsInit, AssetsInvStep, PTL DEF Assets!Spec
=============================================================================
