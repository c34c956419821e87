------------------------ MODULE ElasticsearchIndexing ------------------------
(***************************************************************************)
(* The indexer of the Elasticsearch plugin: the edits of the catalogue,    *)
(* the jobs of the queue update-search-index their events become, the      *)
(* workers that run them (ElasticsearchIndexerController) and the indices. *)
(* A job re-reads the database and replaces the documents of a product, or *)
(* builds a new index and moves the alias.                                 *)
(*                                                                         *)
(* Every read of the database and every call of Elasticsearch is a step.   *)
(* The catalogue belongs to the core and the queue promises what JobQueue  *)
(* says: both are external. All languages are taken as one. The AsyncQueue *)
(* of the controller lets five jobs of a process run at once, so it delays *)
(* none of five workers.                                                   *)
(***************************************************************************)
EXTENDS Integers, FiniteSets

CONSTANTS
    NumProducts,        \* products have ids 1 .. NumProducts
    Variants,
    ProductOf,          \* the product of each variant
    Channels,
    DefaultChannel,     \* every product is in it
    Workers,
    None,
    ReindexProductsChunkSize,       \* products in a page of reindex
    ReindexBulkOperationSizeLimit,  \* entries in a bulk request
    MaxEdits,           \* bound: edits and reindex mutations
    MaxRuns,            \* bound: runs of reindex
    MaxFaults           \* bound: calls that fail and workers that crash

Products == 1 .. NumProducts

ASSUME IndexingAssumption ==
    /\ NumProducts \in Nat /\ MaxEdits \in Nat /\ MaxRuns \in Nat /\ MaxFaults \in Nat
    /\ ProductOf \in [Variants -> Products]
    /\ Variants \cap Products = {}
    /\ DefaultChannel \in Channels /\ None \notin Channels
    /\ ReindexProductsChunkSize \in Nat \ {0}
    /\ ReindexBulkOperationSizeLimit \in Nat \ {0} /\ ReindexBulkOperationSizeLimit % 2 = 0
    /\ Cardinality(Workers) <= 5

VARIABLES
    products,   \* the Product table: a version stands for everything in a row
    variants,   \* the ProductVariant table
    jobs,       \* jobs that wait
    existing,   \* the indices there are in Elasticsearch
    index,      \* the documents in each of them
    alias,      \* the index the alias "variants" stands for
    tempAliases,\* indices under the alias of their reindex
    worker,     \* the local state of every worker
    edits, runs, faults,    \* bounded counters
    stale       \* history: products whose last job could not be relied on

catalogue == <<products, variants>>
indices == <<existing, index, alias, tempAliases>>
vars == <<catalogue, jobs, indices, worker, edits, runs, faults, stale>>

Names == 0 .. MaxRuns

\* getId: a product without variants is indexed under its own, negated, id.
Entities == Products \cup Variants
DocIds == Entities \X Channels

\* A document: the versions of the product and of the variants it was made of.
Doc == [product : 0 .. MaxEdits, variants : 0 .. MaxEdits]

Empty == [d \in DocIds |-> None]

ProductRow == [live : BOOLEAN, channels : SUBSET Channels, version : 0 .. MaxEdits]
VariantRow == [state : {"new", "live", "deleted"}, channels : SUBSET Channels]

Job == [n : 1 .. MaxEdits, type : {"update", "delete", "reindex"}, ctx : Channels,
        ids : SUBSET Products]

\* What stands for none is neither a document nor a job.
ASSUME NoneAssumption == None \notin Doc /\ None \notin Job

\* A worker: its job and step, the products it has left and the one it is at,
\* the channel of its context, the variants and the row it has read, the
\* operations it has to execute yet; the index a reindex builds, the one it
\* replaces, and its page; and the products it cannot vouch for.
Idle == [job |-> None, step |-> "idle", left |-> {}, id |-> 0, ctx |-> None,
         found |-> {}, row |-> None, ops |-> {},
         name |-> 0, from |-> 0, skip |-> 0, full |-> FALSE, bad |-> {}]

Reindexing(w) == worker[w].job # None /\ worker[w].job.type = "reindex"

VariantsOf(p) == {v \in Variants : ProductOf[v] = p}

-----------------------------------------------------------------------------
(* What the documents of a product are.                                     *)

VariantsIn(set, c) == {v \in set : variants[v].state = "live" /\ c \in variants[v].channels}

\* A document for every variant of set in a channel, or one for the product.
Indexed(p, set, c) == IF VariantsIn(set, c) # {} THEN VariantsIn(set, c) ELSE {p}

\* The operations that write the documents of a product read as row, with the
\* variants in set.
Upserts(p, row, set) ==
    UNION {{<<<<e, c>>, [product |-> row.version, variants |-> products[p].version]>> :
               e \in Indexed(p, set, c)} : c \in row.channels}

\* The documents the product ought to have.
Current(p) == IF products[p].live THEN Upserts(p, products[p], VariantsOf(p)) ELSE {}

Served(p) == {op \in {<<d, index[alias][d]>> : d \in ({p} \cup VariantsOf(p)) \X Channels} :
                  op[2] # None}

\* A slip of Deletes: by productVariantId, which is 0 for a product.
DeletesByVariantId(entities) == {<<<<0, d[2]>>, None>> : d \in entities \X Channels}

Deletes(entities) == {<<d, None>> : d \in entities \X Channels}

\* A bulk request: doc_as_upsert and delete alike.
Write(docs, ops) ==
    [d \in DocIds |-> IF \E op \in ops : op[1] = d THEN (CHOOSE op \in ops : op[1] = d)[2] ELSE docs[d]]

Init ==
    /\ products \in [Products -> {[live |-> TRUE, channels |-> cs, version |-> 0] :
                                      cs \in {cs \in SUBSET Channels : DefaultChannel \in cs}}]
    /\ \E new \in SUBSET Variants :
          variants = [v \in Variants |-> [state |-> IF v \in new THEN "new" ELSE "live",
                                         channels |-> products[ProductOf[v]].channels]]
    /\ jobs = {}
    /\ alias = 0
    /\ existing = {0}
    /\ index = [x \in Names |-> IF x = 0 THEN Write(Empty, UNION {Current(p) : p \in Products})
                                       ELSE Empty]
    /\ tempAliases = {}
    /\ worker = [w \in Workers |-> Idle]
    /\ edits = 0 /\ runs = 0 /\ faults = 0
    /\ stale = {}

-----------------------------------------------------------------------------
(* Edits of the catalogue, made in a channel the product is in. Each one    *)
(* publishes an event, which becomes a job.                                 *)

AddJob(type, ctx, ids) ==
    /\ edits < MaxEdits
    /\ edits' = edits + 1
    /\ jobs' = jobs \cup {[n |-> edits + 1, type |-> type, ctx |-> ctx, ids |-> ids]}
    /\ UNCHANGED <<indices, runs, faults, stale>>

Bumped(ids) ==
    [p \in Products |-> IF p \in ids THEN [products[p] EXCEPT !.version = edits + 1] ELSE products[p]]

EditProduct(p, ctx) ==
    /\ products[p].live /\ ctx \in products[p].channels
    /\ AddJob("update", ctx, {p})
    /\ products' = Bumped({p})
    /\ UNCHANGED <<variants, worker>>

\* Products that come later move up a page: a reindex can miss them.
DeleteProduct(p, ctx) ==
    /\ products[p].live /\ ctx \in products[p].channels
    /\ AddJob("delete", ctx, {p})
    /\ products' = [Bumped({p}) EXCEPT ![p].live = FALSE]
    /\ variants' = [v \in Variants |-> IF v \in VariantsOf(p) /\ variants[v].state = "live"
                                         THEN [variants[v] EXCEPT !.state = "deleted"]
                                         ELSE variants[v]]
    /\ worker' = [w \in Workers |-> IF Reindexing(w)
                                    THEN [worker[w] EXCEPT !.bad = @ \cup p + 1 .. NumProducts]
                                    ELSE worker[w]]

\* One event, and one job, for the variants of several products.
EditVariants(set, ctx) ==
    /\ \A v \in set : variants[v].state = "live" /\ ctx \in variants[v].channels
    /\ AddJob("update", ctx, {ProductOf[v] : v \in set})
    /\ products' = Bumped({ProductOf[v] : v \in set})
    /\ UNCHANGED <<variants, worker>>

\* A variant is created or deleted.
CreateOrDeleteVariant(v, ctx) ==
    LET p == ProductOf[v] IN
    /\ products[p].live /\ ctx \in products[p].channels
    /\ AddJob("update", ctx, {p})
    /\ products' = Bumped({p})
    /\ \/ variants[v].state = "new" /\ variants' = [variants EXCEPT ![v].state = "live"]
       \/ variants[v].state = "live" /\ variants' = [variants EXCEPT ![v].state = "deleted"]
    /\ UNCHANGED worker

Toggled(cs, channel) == IF channel \in cs THEN cs \ {channel} ELSE cs \cup {channel}

\* A product is put in a channel or taken out of it, and its variants with it.
ToggleProductChannel(p, channel, ctx) ==
    /\ channel # DefaultChannel
    /\ products[p].live /\ ctx \in products[p].channels
    /\ AddJob("update", ctx, {p})
    /\ products' = [Bumped({p}) EXCEPT ![p].channels = Toggled(@, channel)]
    /\ variants' = [v \in Variants |->
          IF v \notin VariantsOf(p) THEN variants[v]
          ELSE [variants[v] EXCEPT !.channels = IF channel \in products[p].channels THEN @ \ {channel}
                                                                                   ELSE @ \cup {channel}]]
    /\ UNCHANGED worker

ToggleVariantChannel(v, channel, ctx) ==
    LET p == ProductOf[v] IN
    /\ variants[v].state = "live"
    /\ {channel, ctx} \subseteq products[p].channels
    /\ AddJob("update", ctx, {p})
    /\ products' = Bumped({p})
    /\ variants' = [variants EXCEPT ![v].channels = Toggled(@, channel)]
    /\ UNCHANGED worker

ReindexMutation(ctx) ==
    /\ AddJob("reindex", ctx, {})
    /\ UNCHANGED <<catalogue, worker>>

-----------------------------------------------------------------------------
(* Which products a worker is concerned with, and what it cannot vouch for: *)
(* bad.                                                                     *)

Concern(w) ==
    CASE worker[w].step \in {"idle", "next"} /\ ~Reindexing(w) -> {}
      [] Reindexing(w) -> IF worker[w].step \in {"drop", "finally"} THEN {} ELSE Products
      [] OTHER -> {worker[w].id}

\* Worker w goes on as next, and begins to be concerned with the products in
\* set: none of the workers concerned with the same product can vouch for it.
Overlap(w, next, set) ==
    worker' = [v \in Workers |->
        IF v = w THEN [next EXCEPT !.bad = @ \cup (set \cap UNION {Concern(u) : u \in Workers \ {w}})]
                 ELSE [worker[v] EXCEPT !.bad = @ \cup (set \cap Concern(v))]]

Goto(w, next) == worker' = [worker EXCEPT ![w] = next]

\* What follows a product: the next one, the next page, or the end of the job.
AfterProduct(me) ==
    CASE me.left # {} -> [me EXCEPT !.step = "next", !.id = 0, !.found = {}, !.ops = {}]
      [] me.left = {} /\ me.job.type = "reindex" ->
            [me EXCEPT !.step = IF me.full THEN "page" ELSE "lookup", !.id = 0, !.ops = {}]
      [] OTHER -> Idle

\* The worker is done with its product, whose documents are right unless it
\* was bad.
EndProduct(w, me) ==
    /\ Goto(w, AfterProduct(me))
    /\ stale' = CASE Reindexing(w) -> stale
                  [] ~Reindexing(w) /\ me.id \in me.bad -> stale \cup {me.id}
                  [] OTHER -> stale \ {me.id}

Take(w, j) ==
    /\ worker[w].step = "idle"
    /\ j \in jobs
    /\ jobs' = jobs \ {j}
    /\ IF j.type = "reindex"
       THEN Overlap(w, [Idle EXCEPT !.job = j, !.step = "create"], Products)
       ELSE Goto(w, [Idle EXCEPT !.job = j, !.step = "next", !.left = j.ids, !.ctx = j.ctx])
    /\ UNCHANGED <<catalogue, indices, edits, runs, faults, stale>>

unchangedByJob == <<catalogue, jobs, existing, alias, tempAliases, edits, runs, faults>>

-----------------------------------------------------------------------------
(* One product: deleteProductOperations, then updateProductsOperationsOnly. *)

\* A slip of FoundVariants: deleted variants are not looked for.
LiveVariants(p) == {v \in VariantsOf(p) : variants[v].state = "live"}

\* The variants whose documents are deleted: the deleted ones are among them.
FoundVariants(p) == {v \in VariantsOf(p) : variants[v].state # "new"}

\* The product is looked for in the channel of the context only; when it is
\* not there nothing is deleted.
FindProduct(w, p) ==
    LET found == worker[w].ctx \in products[p].channels IN
    /\ worker[w].step = "next" /\ p \in worker[w].left
    /\ ~Reindexing(w)
    /\ Overlap(w, [worker[w] EXCEPT
          !.id = p, !.left = @ \ {p},
          !.step = IF found THEN "deleteProduct" ELSE "deleteVariants",
          !.found = FoundVariants(p),
          !.ops = IF found THEN Deletes({p}) ELSE {},
          !.bad = IF found THEN @ ELSE @ \cup {p}], {p})
    /\ UNCHANGED <<unchangedByJob, index, stale>>

\* An upsert is two entries of a request (an odd limit would part them), a
\* delete is one.
ChunkSize(step) ==
    IF step = "upsert" THEN ReindexBulkOperationSizeLimit \div 2 ELSE ReindexBulkOperationSizeLimit

\* executeBulkOperationsByChunks: the chunk is sent, and done of it succeeds.
\* Errors are logged only.
Bulk(w, chunk, done, ok) ==
    LET me == worker[w]
        rest == [me EXCEPT !.ops = @ \ chunk, !.bad = IF ok THEN @ ELSE @ \cup {me.id}]
        target == IF Reindexing(w) THEN me.name ELSE alias
    IN
    /\ me.step \in {"deleteProduct", "deleteVariants", "upsert"}
    /\ chunk \subseteq me.ops
    /\ IF Cardinality(me.ops) <= ChunkSize(me.step)
       THEN chunk = me.ops ELSE Cardinality(chunk) = ChunkSize(me.step)
    /\ index' = [index EXCEPT ![target] = Write(@, done)]
    /\ CASE rest.ops # {} -> Goto(w, rest) /\ UNCHANGED stale
         [] rest.ops = {} /\ me.step = "deleteProduct" ->
              /\ Goto(w, [rest EXCEPT !.step = "deleteVariants", !.ops = Deletes(me.found)])
              /\ UNCHANGED stale
         [] rest.ops = {} /\ me.step = "deleteVariants" /\ me.job.type = "update" ->
              Goto(w, [rest EXCEPT !.step = "product"]) /\ UNCHANGED stale
         [] OTHER -> EndProduct(w, rest)

BulkSucceeds(w, chunk) == Bulk(w, chunk, chunk, TRUE) /\ UNCHANGED unchangedByJob

\* find(Product): a deleted product is left alone.
ReadProduct(w, p) ==
    LET me == [worker[w] EXCEPT !.id = p, !.left = @ \ {p}] IN
    /\ \/ worker[w].step = "product" /\ p = worker[w].id
       \/ worker[w].step = "next" /\ p \in worker[w].left /\ Reindexing(w)
    /\ IF products[p].live
       THEN Goto(w, [me EXCEPT !.step = "variants", !.row = products[p]]) /\ UNCHANGED stale
       ELSE EndProduct(w, me)
    /\ UNCHANGED <<unchangedByJob, index>>

\* find(ProductVariant), and setChannel for every channel of the product: the
\* context is left in the last one for the products the job has left.
ReadVariants(w, set, bad) ==
    LET me == worker[w] IN
    /\ me.step = "variants"
    /\ \E c \in IF me.left = {} \/ Reindexing(w) THEN {me.ctx} ELSE me.row.channels :
          Goto(w, [me EXCEPT !.step = "upsert", !.ctx = c, !.row = None, !.found = {},
                             !.ops = Upserts(me.id, me.row, set), !.bad = @ \cup bad])
    /\ UNCHANGED <<catalogue, jobs, indices, edits, runs, stale>>

VariantsAreRead(w) == ReadVariants(w, VariantsOf(worker[w].id), {}) /\ UNCHANGED faults

-----------------------------------------------------------------------------
(* reindex.                                                                 *)

unchangedByReindex == <<catalogue, jobs, edits, faults>>

\* createIndices, under a name made of the time; its errors are logged only,
\* and the index is then made without an alias by the first bulk request.
CreateIndices(w, aliased) ==
    /\ worker[w].step = "create"
    /\ runs < MaxRuns
    /\ runs' = runs + 1
    /\ existing' = existing \cup {runs + 1}
    /\ tempAliases' = IF aliased THEN tempAliases \cup {runs + 1} ELSE tempAliases
    /\ Goto(w, [worker[w] EXCEPT !.step = "page", !.name = runs + 1])
    /\ UNCHANGED <<catalogue, jobs, index, alias, edits, stale>>

IndicesAreCreated(w) == CreateIndices(w, TRUE) /\ UNCHANGED faults

\* A slip of Page: pages are counted from 1.
PageFromOne(skip) ==
    {p \in Products : /\ products[p].live
                      /\ Cardinality({q \in Products : products[q].live /\ q < p})
                            \in skip + 1 .. skip + ReindexProductsChunkSize}

\* skip and take; rows come in the order of their ids.
Page(skip) ==
    {p \in Products : /\ products[p].live
                      /\ Cardinality({q \in Products : products[q].live /\ q < p})
                            \in skip .. skip + ReindexProductsChunkSize - 1}

ReadPage(w) ==
    LET page == Page(worker[w].skip) IN
    /\ worker[w].step = "page"
    /\ Goto(w, [worker[w] EXCEPT !.step = IF page = {} THEN "lookup" ELSE "next",
                                 !.left = page,
                                 !.skip = @ + ReindexProductsChunkSize,
                                 !.full = Cardinality(page) >= ReindexProductsChunkSize])
    /\ UNCHANGED <<unchangedByReindex, indices, runs, stale>>

\* switchAlias: the index the alias stands for is asked for,
LookupAlias(w) ==
    /\ worker[w].step = "lookup"
    /\ Goto(w, [worker[w] EXCEPT !.step = "switch", !.from = alias])
    /\ UNCHANGED <<unchangedByReindex, indices, runs, stale>>

CanSwitch(w) == worker[w].name \in tempAliases /\ alias = worker[w].from

SwitchTo(w, next) ==
    /\ alias' = worker[w].name
    /\ tempAliases' = tempAliases \ {worker[w].name}
    /\ stale' = worker[w].bad
    /\ Goto(w, [worker[w] EXCEPT !.step = next])

\* the aliases are exchanged in one call, which Elasticsearch refuses when one
\* that is to be removed is not there,
SwitchAlias(w) ==
    /\ worker[w].step = "switch"
    /\ IF CanSwitch(w) THEN SwitchTo(w, "drop")
       ELSE /\ Goto(w, [worker[w] EXCEPT !.step = "finally"])
            /\ UNCHANGED <<alias, tempAliases, stale>>
    /\ UNCHANGED <<unchangedByReindex, existing, index, runs>>

\* A slip of IndexToDrop: the alias is resolved again.
IndexOfAlias(w) == alias

IndexToDrop(w) == worker[w].from

\* the old index is deleted,
DropOldIndex(w) ==
    /\ worker[w].step = "drop"
    /\ existing' = existing \ {IndexToDrop(w)}
    /\ index' = [index EXCEPT ![IndexToDrop(w)] = Empty]
    /\ Goto(w, [worker[w] EXCEPT !.step = "finally"])
    /\ UNCHANGED <<unchangedByReindex, alias, tempAliases, runs, stale>>

\* A slip of Superseded: the index of the reindex is deleted in any case.
AnyReindexed(w) == TRUE

\* and the new one if it still has the alias of the reindex.
Superseded(w) == worker[w].name \in tempAliases

Finally(w) ==
    LET name == worker[w].name IN
    /\ worker[w].step = "finally"
    /\ existing' = IF Superseded(w) THEN existing \ {name} ELSE existing
    /\ index' = IF Superseded(w) THEN [index EXCEPT ![name] = Empty] ELSE index
    /\ tempAliases' = tempAliases \ {name}
    /\ Goto(w, Idle)
    /\ UNCHANGED <<unchangedByReindex, alias, runs, stale>>

-----------------------------------------------------------------------------
(* Faults: a call to the database or to Elasticsearch fails, or a worker    *)
(* dies and its job is given to another.                                    *)

Fault == faults < MaxFaults /\ faults' = faults + 1

BulkFails(w, chunk, done) ==
    /\ Fault
    /\ done \subseteq chunk
    /\ Bulk(w, chunk, done, FALSE)
    /\ UNCHANGED <<catalogue, jobs, existing, alias, tempAliases, edits, runs>>

\* The error is logged and the product indexed as if it had no variants.
VariantsReadFails(w) == Fault /\ ReadVariants(w, {}, {worker[w].id})

CreateIndicesFails(w) == Fault /\ CreateIndices(w, FALSE)

\* Any other read, or the making of a document: the job fails, and has no
\* retries. Nobody who is at a product it leaves can vouch for what it was to
\* write.
JobFails(w) ==
    LET lost == worker[w].left \cup ({worker[w].id} \cap Products) IN
    /\ Fault
    /\ worker[w].step \in {"next", "product", "upsert", "page"}
    /\ IF Reindexing(w) THEN Goto(w, Idle) /\ UNCHANGED stale
       ELSE /\ worker' = [v \in Workers |->
                  IF v = w THEN Idle ELSE [worker[v] EXCEPT !.bad = @ \cup (lost \cap Concern(v))]]
            /\ stale' = stale \cup lost
    /\ UNCHANGED <<catalogue, jobs, indices, edits, runs>>

\* switchAlias catches every error; the exchange may have been made.
SwitchFails(w) ==
    /\ Fault
    /\ \/ /\ worker[w].step \in {"lookup", "switch", "drop"}
          /\ Goto(w, [worker[w] EXCEPT !.step = "finally"])
          /\ UNCHANGED <<alias, tempAliases, stale>>
       \/ /\ worker[w].step = "switch" /\ CanSwitch(w)
          /\ SwitchTo(w, "finally")
    /\ UNCHANGED <<catalogue, jobs, existing, index, edits, runs>>

Crash(w) ==
    /\ Fault
    /\ worker[w].step # "idle"
    /\ jobs' = jobs \cup {worker[w].job}
    /\ Goto(w, Idle)
    /\ UNCHANGED <<catalogue, indices, edits, runs, stale>>

-----------------------------------------------------------------------------
Edit ==
    \E ctx \in Channels :
        \/ \E p \in Products :
              \/ EditProduct(p, ctx) \/ DeleteProduct(p, ctx)
              \/ \E channel \in Channels : ToggleProductChannel(p, channel, ctx)
        \/ \E v \in Variants :
              \/ CreateOrDeleteVariant(v, ctx)
              \/ \E channel \in Channels : ToggleVariantChannel(v, channel, ctx)
        \/ \E set \in SUBSET Variants \ {{}} : EditVariants(set, ctx)
        \/ ReindexMutation(ctx)

Work(w) ==
    \/ \E j \in jobs : Take(w, j)
    \/ \E p \in Products : FindProduct(w, p) \/ ReadProduct(w, p)
    \/ \E chunk \in SUBSET worker[w].ops : BulkSucceeds(w, chunk)
    \/ VariantsAreRead(w)
    \/ IndicesAreCreated(w) \/ ReadPage(w)
    \/ LookupAlias(w) \/ SwitchAlias(w) \/ DropOldIndex(w) \/ Finally(w)

Fail(w) ==
    \/ \E chunk \in SUBSET worker[w].ops : \E done \in SUBSET chunk : BulkFails(w, chunk, done)
    \/ VariantsReadFails(w) \/ CreateIndicesFails(w) \/ JobFails(w) \/ SwitchFails(w) \/ Crash(w)

Next == Edit \/ \E w \in Workers : Work(w) \/ Fail(w)

Spec == Init /\ [][Next]_vars
-----------------------------------------------------------------------------
(* Properties.                                                              *)

\* The catalogue, the jobs, the indices and the workers keep their types.
TypeOK ==
    /\ products \in [Products -> ProductRow]
    /\ variants \in [Variants -> VariantRow]
    /\ jobs \in SUBSET Job
    /\ existing \in SUBSET Names /\ index \in [Names -> [DocIds -> Doc \cup {None}]]
    /\ alias \in Names /\ tempAliases \in SUBSET Names
    /\ worker \in [Workers -> [
          job : Job \cup {None},
          step : {"idle", "next", "deleteProduct", "deleteVariants", "product", "variants", "upsert",
                  "create", "page", "lookup", "switch", "drop", "finally"},
          left : SUBSET Products, id : Products \cup {0}, ctx : Channels \cup {None},
          found : SUBSET Variants, row : ProductRow \cup {None},
          ops : SUBSET (DocIds \X (Doc \cup {None})),
          name : Names, from : Names, skip : Nat, full : BOOLEAN, bad : SUBSET Products]]
    /\ edits \in 0 .. MaxEdits /\ runs \in 0 .. MaxRuns /\ faults \in 0 .. MaxFaults
    /\ stale \in SUBSET Products

\* No job about the product waits or runs.
Quiet(p) == \A j \in jobs \cup {worker[w].job : w \in Workers} : j # None => p \notin j.ids

\* What search finds is what the database holds: once no job about a product
\* waits or runs, the documents of the product under the alias are the current
\* ones and no others, whatever was edited while they were written, and however
\* often workers died or reindexes failed or succeeded meanwhile. Excepted is a
\* product whose last job overlapped with another that writes it, lost a
\* request, did not find it in its context's channel, or was a reindex that an
\* earlier product was deleted under.
QuietIndexIsCurrent ==
    \A p \in Products : Quiet(p) /\ p \notin stale => Served(p) = Current(p)

\* Search always has an index: whatever reindexes run at once, fail half-way
\* or are repeated after a crash, none deletes the index the alias stands for.
AliasIsServed == alias \in existing

\* "Rebuilds the full search index": when all is quiet, every product that was
\* not deleted can be found.
EveryProductIsIndexed ==
    (jobs = {} /\ \A w \in Workers : worker[w].step = "idle") =>
        \A p \in Products : products[p].live => Served(p) # {}
=============================================================================
