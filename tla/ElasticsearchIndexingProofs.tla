--------------------- MODULE ElasticsearchIndexingProofs ---------------------
(***************************************************************************)
(* Proofs about ElasticsearchIndexing: search always has an index, however *)
(* many workers reindex, fail and die at once; everything keeps its type;  *)
(* and what search finds of a product no job is about is what the database *)
(* holds of it.                                                            *)
(***************************************************************************)
EXTENDS ElasticsearchIndexing, FiniteSetTheorems, TLAPS

Fields == DOMAIN Idle

\* The steps at which a worker knows the index that the alias stood for.
Holding == {"switch", "drop"}

\* The indices are named 0 .. runs. The one under the alias exists and has the
\* alias of no reindex.
AliasOK ==
    /\ runs \in 0 .. MaxRuns
    /\ alias \in 0 .. runs
    /\ alias \in existing
    /\ tempAliases \subseteq 1 .. runs
    /\ tempAliases \subseteq existing
    /\ alias \notin tempAliases

\* The index a worker found under the alias never gets the alias again: it is
\* not one that is still to be made, nor one that a reindex can switch to. Once
\* the worker has switched, it is not the one under the alias either.
WorkerOK(me) ==
    /\ DOMAIN me = Fields
    /\ me.step \in Holding => me.from \in (0 .. runs) \ tempAliases
    /\ me.step = "drop" => me.from # alias

WorkersOK ==
    /\ worker = [w \in Workers |-> worker[w]]
    /\ \A w \in Workers : WorkerOK(worker[w])

AliasInv == AliasOK /\ WorkersOK

-----------------------------------------------------------------------------
(* Steps that leave the indices alone.                                      *)

\* A local state that can follow me without the alias being looked at.
Keeps(me, next) ==
    /\ DOMAIN next = Fields
    /\ next.step \in Holding => next.step = me.step /\ next.from = me.from

\* When no index changes and no worker begins to hold one, the invariant stays.
LEMMA KeepsInv ==
    ASSUME AliasInv, UNCHANGED <<existing, alias, tempAliases, runs>>,
           worker' = [v \in Workers |-> worker'[v]],
           \A v \in Workers : Keeps(worker[v], worker'[v])
    PROVE  AliasInv'
BY DEF AliasInv, AliasOK, WorkersOK, WorkerOK, Keeps, Holding

\* So it does when one worker goes on and the others stay where they are.
LEMMA GotoKeeps ==
    ASSUME AliasInv, UNCHANGED <<existing, alias, tempAliases, runs>>,
           NEW w \in Workers, NEW next, Goto(w, next), Keeps(worker[w], next)
    PROVE  AliasInv'
<1>1. worker' = [v \in Workers |-> worker'[v]]
  BY DEF AliasInv, WorkersOK, Goto
<1>2. \A v \in Workers : Keeps(worker[v], worker'[v])
  BY DEF AliasInv, WorkersOK, WorkerOK, Goto, Keeps
<1> QED BY <1>1, <1>2, KeepsInv

\* And when the others learn that it overlaps with them.
LEMMA OverlapKeeps ==
    ASSUME AliasInv, UNCHANGED <<existing, alias, tempAliases, runs>>,
           NEW w \in Workers, NEW next, NEW set, Overlap(w, next, set), Keeps(worker[w], next)
    PROVE  AliasInv'
<1>1. worker' = [v \in Workers |-> worker'[v]]
  BY DEF Overlap
<1>2. ASSUME NEW v \in Workers PROVE Keeps(worker[v], worker'[v])
  <2>1. CASE v = w
    BY <2>1 DEF Overlap, Keeps, Fields, Idle
  <2>2. CASE v # w
    BY <2>2 DEF Overlap, Keeps, AliasInv, WorkersOK, WorkerOK, Fields, Idle
  <2> QED BY <2>1, <2>2
<1> QED BY <1>1, <1>2, KeepsInv

\* A worker that is done with a product holds no index.
LEMMA AfterProductHoldsNothing ==
    ASSUME NEW me, DOMAIN me = Fields
    PROVE  DOMAIN AfterProduct(me) = Fields /\ AfterProduct(me).step \notin Holding
BY DEF AfterProduct, Fields, Idle, Holding

LEMMA EndProductKeeps ==
    ASSUME AliasInv, UNCHANGED <<existing, alias, tempAliases, runs>>,
           NEW w \in Workers, NEW me, EndProduct(w, me), DOMAIN me = Fields
    PROVE  AliasInv'
<1>1. Keeps(worker[w], AfterProduct(me))
  BY AfterProductHoldsNothing DEF Keeps
<1> QED BY <1>1, GotoKeeps DEF EndProduct

LEMMA EditKeeps == ASSUME AliasInv, Edit PROVE AliasInv'
<1>1. UNCHANGED <<existing, alias, tempAliases, runs>>
  BY DEF Edit, EditProduct, DeleteProduct, EditVariants, CreateOrDeleteVariant,
         ToggleProductChannel, ToggleVariantChannel, ReindexMutation, AddJob, indices
<1>2. CASE UNCHANGED worker
  BY <1>1, <1>2, KeepsInv DEF AliasInv, WorkersOK, WorkerOK, Keeps
<1>3. ASSUME NEW p \in Products, NEW ctx \in Channels, DeleteProduct(p, ctx) PROVE AliasInv'
  <2>1. worker' = [v \in Workers |-> worker'[v]]
    BY <1>3 DEF DeleteProduct
  <2>2. \A v \in Workers : Keeps(worker[v], worker'[v])
    BY <1>3 DEF DeleteProduct, AliasInv, WorkersOK, WorkerOK, Keeps, Fields, Idle
  <2> QED BY <1>1, <2>1, <2>2, KeepsInv
<1> QED
  BY <1>2, <1>3 DEF Edit, EditProduct, EditVariants, CreateOrDeleteVariant,
                    ToggleProductChannel, ToggleVariantChannel, ReindexMutation

LEMMA TakeKeeps ==
    ASSUME AliasInv, NEW w \in Workers, NEW j \in jobs, Take(w, j) PROVE AliasInv'
<1>1. UNCHANGED <<existing, alias, tempAliases, runs>>
  BY DEF Take, indices
<1>2. CASE j.type = "reindex"
  <2> DEFINE next == [Idle EXCEPT !.job = j, !.step = "create"]
  <2>1. Overlap(w, next, Products)
    BY <1>2 DEF Take
  <2>2. Keeps(worker[w], next)
    BY DEF Keeps, Fields, Idle, Holding
  <2> QED BY <1>1, <2>1, <2>2, OverlapKeeps
<1>3. CASE j.type # "reindex"
  <2> DEFINE next == [Idle EXCEPT !.job = j, !.step = "next", !.left = j.ids, !.ctx = j.ctx]
  <2>1. Goto(w, next)
    BY <1>3 DEF Take
  <2>2. Keeps(worker[w], next)
    BY DEF Keeps, Fields, Idle, Holding
  <2> QED BY <1>1, <2>1, <2>2, GotoKeeps
<1> QED BY <1>2, <1>3

LEMMA FindProductKeeps ==
    ASSUME AliasInv, NEW w \in Workers, NEW p \in Products, FindProduct(w, p) PROVE AliasInv'
<1> DEFINE found == worker[w].ctx \in products[p].channels
           next == [worker[w] EXCEPT
                !.id = p, !.left = @ \ {p},
                !.step = IF found THEN "deleteProduct" ELSE "deleteVariants",
                !.found = FoundVariants(p),
                !.ops = IF found THEN Deletes({p}) ELSE {},
                !.bad = IF found THEN @ ELSE @ \cup {p}]
<1>1. UNCHANGED <<existing, alias, tempAliases, runs>>
  BY DEF FindProduct, unchangedByJob
<1>2. Overlap(w, next, {p})
  BY DEF FindProduct
<1>3. Keeps(worker[w], next)
  BY DEF AliasInv, WorkersOK, WorkerOK, Keeps, Fields, Idle, Holding
<1> QED BY <1>1, <1>2, <1>3, OverlapKeeps

\* A bulk request writes documents and no index or alias.
LEMMA BulkKeeps ==
    ASSUME AliasInv, UNCHANGED <<existing, alias, tempAliases, runs>>,
           NEW w \in Workers, NEW chunk, NEW done, NEW ok, Bulk(w, chunk, done, ok)
    PROVE  AliasInv'
<1> DEFINE me == worker[w]
           rest == [me EXCEPT !.ops = @ \ chunk, !.bad = IF ok THEN @ ELSE @ \cup {me.id}]
           toVariants == [rest EXCEPT !.step = "deleteVariants", !.ops = Deletes(me.found)]
           toProduct == [rest EXCEPT !.step = "product"]
<1>1. DOMAIN me = Fields
  BY DEF AliasInv, WorkersOK, WorkerOK
<1>2. /\ Keeps(me, rest) /\ DOMAIN rest = Fields
      /\ Keeps(me, toVariants)
      /\ Keeps(me, toProduct)
  BY <1>1 DEF Keeps, Fields, Idle, Holding
<1>3. \/ Goto(w, rest) \/ Goto(w, toVariants) \/ Goto(w, toProduct)
      \/ EndProduct(w, rest)
  BY DEF Bulk
<1> HIDE DEF rest, toVariants, toProduct
<1> QED BY <1>2, <1>3, GotoKeeps, EndProductKeeps

LEMMA ReadProductKeeps ==
    ASSUME AliasInv, NEW w \in Workers, NEW p \in Products, ReadProduct(w, p) PROVE AliasInv'
<1> DEFINE me == [worker[w] EXCEPT !.id = p, !.left = @ \ {p}]
           next == [me EXCEPT !.step = "variants", !.row = products[p]]
<1>1. UNCHANGED <<existing, alias, tempAliases, runs>>
  BY DEF ReadProduct, unchangedByJob
<1>2. DOMAIN me = Fields /\ Keeps(worker[w], next)
  BY DEF AliasInv, WorkersOK, WorkerOK, Keeps, Fields, Idle, Holding
<1>3. Goto(w, next) \/ EndProduct(w, me)
  BY DEF ReadProduct
<1> HIDE DEF me, next
<1> QED BY <1>1, <1>2, <1>3, GotoKeeps, EndProductKeeps

LEMMA ReadVariantsKeeps ==
    ASSUME AliasInv, NEW w \in Workers, NEW set, NEW bad, ReadVariants(w, set, bad) PROVE AliasInv'
<1> DEFINE me == worker[w]
<1>1. UNCHANGED <<existing, alias, tempAliases, runs>>
  BY DEF ReadVariants, indices
<1>2. PICK c : Goto(w, [me EXCEPT !.step = "upsert", !.ctx = c, !.row = None, !.found = {},
                                  !.ops = Upserts(me.id, me.row, set), !.bad = @ \cup bad])
  BY DEF ReadVariants
<1> DEFINE next == [me EXCEPT !.step = "upsert", !.ctx = c, !.row = None, !.found = {},
                              !.ops = Upserts(me.id, me.row, set), !.bad = @ \cup bad]
<1>3. Keeps(me, next)
  BY DEF AliasInv, WorkersOK, WorkerOK, Keeps, Fields, Idle, Holding
<1> QED BY <1>1, <1>2, <1>3, GotoKeeps

LEMMA ReadPageKeeps ==
    ASSUME AliasInv, NEW w \in Workers, ReadPage(w) PROVE AliasInv'
<1> DEFINE page == Page(worker[w].skip)
           next == [worker[w] EXCEPT !.step = IF page = {} THEN "lookup" ELSE "next",
                                     !.left = page,
                                     !.skip = @ + ReindexProductsChunkSize,
                                     !.full = Cardinality(page) >= ReindexProductsChunkSize]
<1>1. UNCHANGED <<existing, alias, tempAliases, runs>>
  BY DEF ReadPage, indices
<1>2. Goto(w, next)
  BY DEF ReadPage
<1>3. Keeps(worker[w], next)
  BY DEF AliasInv, WorkersOK, WorkerOK, Keeps, Fields, Idle, Holding
<1> QED BY <1>1, <1>2, <1>3, GotoKeeps

-----------------------------------------------------------------------------
(* Steps of reindex that make, exchange or delete an index.                 *)

\* A new index has a name of its own.
LEMMA CreateIndicesKeeps ==
    ASSUME AliasInv, NEW w \in Workers, NEW aliased, CreateIndices(w, aliased) PROVE AliasInv'
<1>1. AliasOK'
  BY IndexingAssumption DEF AliasInv, AliasOK, CreateIndices
<1>2. ASSUME NEW v \in Workers PROVE WorkerOK(worker[v])'
  <2>1. CASE v = w
    BY <2>1 DEF AliasInv, WorkersOK, WorkerOK, CreateIndices, Goto, Fields, Idle, Holding
  <2>2. CASE v # w
    BY <2>2 DEF AliasInv, AliasOK, WorkersOK, WorkerOK, CreateIndices, Goto
  <2> QED BY <2>1, <2>2
<1> QED BY <1>1, <1>2 DEF AliasInv, WorkersOK, CreateIndices, Goto

LEMMA LookupAliasKeeps ==
    ASSUME AliasInv, NEW w \in Workers, LookupAlias(w) PROVE AliasInv'
<1>1. AliasOK'
  BY DEF AliasInv, AliasOK, LookupAlias, indices
<1>2. ASSUME NEW v \in Workers PROVE WorkerOK(worker[v])'
  <2>1. CASE v = w
    BY <2>1 DEF AliasInv, AliasOK, WorkersOK, WorkerOK, LookupAlias, indices, Goto, Fields, Idle, Holding
  <2>2. CASE v # w
    BY <2>2 DEF AliasInv, WorkersOK, WorkerOK, LookupAlias, indices, Goto
  <2> QED BY <2>1, <2>2
<1> QED BY <1>1, <1>2 DEF AliasInv, WorkersOK, LookupAlias, Goto

\* The alias goes to an index that had the alias of its reindex: nobody holds
\* that one, and the index it leaves has lost the alias for good.
LEMMA SwitchToKeeps ==
    ASSUME AliasInv, UNCHANGED <<existing, runs>>, NEW w \in Workers, NEW next,
           worker[w].step = "switch", next # "switch",
           CanSwitch(w), SwitchTo(w, next)
    PROVE  AliasInv'
<1>1. AliasOK'
  BY DEF AliasInv, AliasOK, CanSwitch, SwitchTo
<1>2. ASSUME NEW v \in Workers PROVE WorkerOK(worker[v])'
  <2>1. CASE v = w
    BY <2>1 DEF AliasInv, AliasOK, WorkersOK, WorkerOK, CanSwitch, SwitchTo, Goto, Fields, Idle, Holding
  <2>2. CASE v # w
    BY <2>2 DEF AliasInv, AliasOK, WorkersOK, WorkerOK, CanSwitch, SwitchTo, Goto, Holding
  <2> QED BY <2>1, <2>2
<1> QED BY <1>1, <1>2 DEF AliasInv, WorkersOK, SwitchTo, Goto

\* Without an exchange the worker goes on to the finally block.
LEMMA FinallyFollows ==
    ASSUME AliasInv, NEW w \in Workers PROVE Keeps(worker[w], [worker[w] EXCEPT !.step = "finally"])
BY DEF AliasInv, WorkersOK, WorkerOK, Keeps, Fields, Idle, Holding

LEMMA SwitchAliasKeeps ==
    ASSUME AliasInv, NEW w \in Workers, SwitchAlias(w) PROVE AliasInv'
<1>1. CASE CanSwitch(w)
  BY <1>1, SwitchToKeeps DEF SwitchAlias
<1>2. CASE ~CanSwitch(w)
  <2>1. UNCHANGED <<existing, alias, tempAliases, runs>>
    BY <1>2 DEF SwitchAlias
  <2>2. Goto(w, [worker[w] EXCEPT !.step = "finally"])
    BY <1>2 DEF SwitchAlias
  <2> QED BY <2>1, <2>2, FinallyFollows, GotoKeeps
<1> QED BY <1>1, <1>2

\* The index that is dropped is neither the one under the alias nor one that a
\* reindex is to switch to.
LEMMA DropOldIndexKeeps ==
    ASSUME AliasInv, NEW w \in Workers, DropOldIndex(w) PROVE AliasInv'
<1>1. AliasOK'
  BY DEF AliasInv, AliasOK, WorkersOK, WorkerOK, DropOldIndex, IndexToDrop, Holding
<1>2. ASSUME NEW v \in Workers PROVE WorkerOK(worker[v])'
  <2>1. CASE v = w
    BY <2>1 DEF AliasInv, WorkersOK, WorkerOK, DropOldIndex, Goto, Fields, Idle, Holding
  <2>2. CASE v # w
    BY <2>2 DEF AliasInv, WorkersOK, WorkerOK, DropOldIndex, Goto
  <2> QED BY <2>1, <2>2
<1> QED BY <1>1, <1>2 DEF AliasInv, WorkersOK, DropOldIndex, Goto

\* The finally block deletes an index only while it has the alias of its
\* reindex, and the one under the alias has none.
LEMMA FinallyKeeps ==
    ASSUME AliasInv, NEW w \in Workers, Finally(w) PROVE AliasInv'
<1>1. AliasOK'
  BY DEF AliasInv, AliasOK, Finally, Superseded
<1>2. ASSUME NEW v \in Workers PROVE WorkerOK(worker[v])'
  <2>1. CASE v = w
    BY <2>1 DEF AliasInv, WorkersOK, WorkerOK, Finally, Goto, Fields, Idle, Holding
  <2>2. CASE v # w
    BY <2>2 DEF AliasInv, WorkersOK, WorkerOK, Finally, Goto
  <2> QED BY <2>1, <2>2
<1> QED BY <1>1, <1>2 DEF AliasInv, WorkersOK, Finally, Goto

-----------------------------------------------------------------------------
(* Faults.                                                                  *)

LEMMA IdleFollows == ASSUME NEW w \in Workers PROVE Keeps(worker[w], Idle)
BY DEF Keeps, Fields, Idle, Holding

LEMMA JobFailsKeeps ==
    ASSUME AliasInv, NEW w \in Workers, JobFails(w) PROVE AliasInv'
<1>1. UNCHANGED <<existing, alias, tempAliases, runs>>
  BY DEF JobFails, indices
<1>2. CASE Reindexing(w)
  BY <1>1, <1>2, IdleFollows, GotoKeeps DEF JobFails
<1>3. CASE ~Reindexing(w)
  <2>1. worker' = [v \in Workers |-> worker'[v]]
    BY <1>3 DEF JobFails
  <2>2. ASSUME NEW v \in Workers PROVE Keeps(worker[v], worker'[v])
    <3>1. CASE v = w
      BY <1>3, <3>1, IdleFollows DEF JobFails
    <3>2. CASE v # w
      BY <1>3, <3>2 DEF JobFails, AliasInv, WorkersOK, WorkerOK, Keeps, Fields, Idle
    <3> QED BY <3>1, <3>2
  <2> QED BY <1>1, <2>1, <2>2, KeepsInv
<1> QED BY <1>2, <1>3

LEMMA SwitchFailsKeeps ==
    ASSUME AliasInv, NEW w \in Workers, SwitchFails(w) PROVE AliasInv'
<1>1. CASE /\ Goto(w, [worker[w] EXCEPT !.step = "finally"])
           /\ UNCHANGED <<alias, tempAliases, stale>>
  BY <1>1, FinallyFollows, GotoKeeps DEF SwitchFails
<1>2. CASE /\ worker[w].step = "switch" /\ CanSwitch(w)
           /\ SwitchTo(w, "finally")
  BY <1>2, SwitchToKeeps DEF SwitchFails
<1> QED BY <1>1, <1>2 DEF SwitchFails

-----------------------------------------------------------------------------
LEMMA AliasInit == Init => AliasInv
BY IndexingAssumption DEF Init, AliasInv, AliasOK, WorkersOK, WorkerOK, Fields, Idle, Holding

LEMMA AliasStep == AliasInv /\ [Next]_vars => AliasInv'
<1> SUFFICES ASSUME AliasInv, [Next]_vars PROVE AliasInv'
  OBVIOUS
<1>1. CASE Edit
  BY <1>1, EditKeeps
<1>2. ASSUME NEW w \in Workers, Work(w) PROVE AliasInv'
  <2>1. ASSUME NEW j \in jobs, Take(w, j) PROVE AliasInv'
    BY <2>1, TakeKeeps
  <2>2. ASSUME NEW p \in Products, FindProduct(w, p) PROVE AliasInv'
    BY <2>2, FindProductKeeps
  <2>3. ASSUME NEW p \in Products, ReadProduct(w, p) PROVE AliasInv'
    BY <2>3, ReadProductKeeps
  <2>4. ASSUME NEW chunk, BulkSucceeds(w, chunk) PROVE AliasInv'
    BY <2>4, BulkKeeps DEF BulkSucceeds, unchangedByJob
  <2>5. CASE VariantsAreRead(w)
    BY <2>5, ReadVariantsKeeps DEF VariantsAreRead
  <2>6. CASE IndicesAreCreated(w)
    BY <2>6, CreateIndicesKeeps DEF IndicesAreCreated
  <2>7. CASE ReadPage(w)
    BY <2>7, ReadPageKeeps
  <2>8. CASE LookupAlias(w)
    BY <2>8, LookupAliasKeeps
  <2>9. CASE SwitchAlias(w)
    BY <2>9, SwitchAliasKeeps
  <2>10. CASE DropOldIndex(w)
    BY <2>10, DropOldIndexKeeps
  <2>11. CASE Finally(w)
    BY <2>11, FinallyKeeps
  <2> QED BY <1>2, <2>1, <2>2, <2>3, <2>4, <2>5, <2>6, <2>7, <2>8, <2>9, <2>10, <2>11 DEF Work
<1>3. ASSUME NEW w \in Workers, Fail(w) PROVE AliasInv'
  <2>1. ASSUME NEW chunk, NEW done, BulkFails(w, chunk, done) PROVE AliasInv'
    BY <2>1, BulkKeeps DEF BulkFails
  <2>2. CASE VariantsReadFails(w)
    BY <2>2, ReadVariantsKeeps DEF VariantsReadFails
  <2>3. CASE CreateIndicesFails(w)
    BY <2>3, CreateIndicesKeeps DEF CreateIndicesFails
  <2>4. CASE JobFails(w)
    BY <2>4, JobFailsKeeps
  <2>5. CASE SwitchFails(w)
    BY <2>5, SwitchFailsKeeps
  <2>6. CASE Crash(w)
    BY <2>6, IdleFollows, GotoKeeps DEF Crash, indices
  <2> QED BY <1>3, <2>1, <2>2, <2>3, <2>4, <2>5, <2>6 DEF Fail
<1>4. CASE UNCHANGED vars
  <2>1. UNCHANGED <<existing, alias, tempAliases, runs, worker>>
    BY <1>4 DEF vars, indices
  <2> QED BY <2>1 DEF AliasInv, AliasOK, WorkersOK, WorkerOK
<1> QED BY <1>1, <1>2, <1>3, <1>4 DEF Next

\* Search always has an index: switchAlias deletes no index that the alias
\* stands for, whichever of its calls fail and however many reindexes run.
THEOREM SearchHasAnIndex == Spec => []AliasIsServed
<1>1. AliasInv => AliasIsServed
  BY DEF AliasInv, AliasOK, AliasIsServed
<1> QED BY <1>1, AliasInit, AliasStep, PTL DEF Spec

-----------------------------------------------------------------------------
(* The catalogue, the jobs, the indices and the workers keep their types.   *)

Steps == {"idle", "next", "deleteProduct", "deleteVariants", "product", "variants", "upsert",
          "create", "page", "lookup", "switch", "drop", "finally"}

Entry == Doc \cup {None}
Docs == [DocIds -> Entry]
Operations == DocIds \X Entry

Local == [job : Job \cup {None}, step : Steps, left : SUBSET Products, id : Products \cup {0},
          ctx : Channels \cup {None}, found : SUBSET Variants, row : ProductRow \cup {None},
          ops : SUBSET Operations, name : Names, from : Names, skip : Nat, full : BOOLEAN,
          bad : SUBSET Products]

AtProduct == {"deleteProduct", "deleteVariants", "product", "variants", "upsert"}

\* A worker that is not idle has a job, one at a product knows which, and one
\* that is to write the product has read its row.
Typed(me) ==
    /\ me \in Local
    /\ me.step # "idle" => me.job \in Job
    /\ me.step \in AtProduct => me.id \in Products
    /\ me.step = "variants" => me.row \in ProductRow

CatalogueTyped ==
    /\ products \in [Products -> ProductRow]
    /\ variants \in [Variants -> VariantRow]
    /\ jobs \in SUBSET Job
    /\ edits \in 0 .. MaxEdits

IndicesTyped ==
    /\ existing \in SUBSET Names /\ index \in [Names -> Docs]
    /\ alias \in Names /\ tempAliases \in SUBSET Names
    /\ runs \in 0 .. MaxRuns

WorkersTyped ==
    /\ worker = [w \in Workers |-> worker[w]]
    /\ \A w \in Workers : Typed(worker[w])

RestTyped == faults \in 0 .. MaxFaults /\ stale \in SUBSET Products

TypeInv == CatalogueTyped /\ IndicesTyped /\ WorkersTyped /\ RestTyped

LEMMA IdleTyped == Typed(Idle)
<1>1. 0 \in Names
  BY IndexingAssumption DEF IndexingAssumption, Names
<1> QED
  BY <1>1 DEF Typed, Idle, Local, Steps, AtProduct

LEMMA WrittenDocs ==
    ASSUME NEW docs \in Docs, NEW ops \in SUBSET Operations
    PROVE  Write(docs, ops) \in Docs
<1>1. ASSUME NEW d \in DocIds, \E op \in ops : op[1] = d
      PROVE  (CHOOSE op \in ops : op[1] = d)[2] \in Entry
  BY <1>1 DEF Operations
<1> QED
  BY <1>1 DEF Write, Docs

LEMMA DeletesAreOperations ==
    ASSUME NEW entities \in SUBSET Entities
    PROVE  Deletes(entities) \in SUBSET Operations
BY DEF Deletes, Operations, DocIds, Entry

LEMMA UpsertsAreOperations ==
    ASSUME CatalogueTyped, NEW p \in Products, NEW row \in ProductRow, NEW set \in SUBSET Variants
    PROVE  Upserts(p, row, set) \in SUBSET Operations
<1> DEFINE doc == [product |-> row.version, variants |-> products[p].version]
<1>1. doc \in Entry
  BY DEF CatalogueTyped, ProductRow, Doc, Entry
<1>2. \A c \in row.channels : c \in Channels /\ Indexed(p, set, c) \subseteq Entities
  BY DEF ProductRow, Indexed, VariantsIn, Entities
<1> HIDE DEF doc
<1>3. \A c \in row.channels : \A e \in Indexed(p, set, c) : <<<<e, c>>, doc>> \in Operations
  BY <1>1, <1>2 DEF Operations, DocIds
<1> QED
  BY <1>3 DEF Upserts, doc

-----------------------------------------------------------------------------
\* One worker goes on.
LEMMA GotoTyped ==
    ASSUME WorkersTyped, NEW w \in Workers, NEW next, Typed(next), Goto(w, next)
    PROVE  WorkersTyped'
<1>1. ASSUME NEW v \in Workers PROVE worker'[v] = worker[v] \/ worker'[v] = next
  BY DEF WorkersTyped, Goto
<1>2. \A v \in Workers : Typed(worker'[v])
  BY <1>1 DEF WorkersTyped
<1>3. worker' = [v \in Workers |-> worker'[v]]
  BY DEF WorkersTyped, Goto
<1> QED
  BY <1>2, <1>3 DEF WorkersTyped, Typed

\* Workers learn of products they cannot vouch for.
LEMMA BadTyped ==
    ASSUME NEW me, Typed(me), NEW set \in SUBSET Products
    PROVE  Typed([me EXCEPT !.bad = @ \cup set])
BY DEF Typed, Local

LEMMA OverlapTyped ==
    ASSUME WorkersTyped, NEW w \in Workers, NEW next, Typed(next),
           NEW set \in SUBSET Products, Overlap(w, next, set)
    PROVE  WorkersTyped'
<1>1. ASSUME NEW v \in Workers PROVE Typed(worker'[v])
  <2>1. PICK more \in SUBSET Products :
            worker'[v] = [(IF v = w THEN next ELSE worker[v]) EXCEPT !.bad = @ \cup more]
    BY DEF Overlap
  <2>2. Typed(IF v = w THEN next ELSE worker[v])
    BY DEF WorkersTyped
  <2> QED
    BY <2>1, <2>2, BadTyped
<1>2. worker' = [v \in Workers |-> worker'[v]]
  BY DEF Overlap
<1> QED
  BY <1>1, <1>2 DEF WorkersTyped, Typed

LEMMA AfterProductTyped ==
    ASSUME NEW me, Typed(me), me.job \in Job
    PROVE  Typed(AfterProduct(me))
<1>1. Typed([me EXCEPT !.step = "next", !.id = 0, !.found = {}, !.ops = {}])
  BY DEF Typed, Local, Steps, AtProduct
<1>2. Typed([me EXCEPT !.step = IF me.full THEN "page" ELSE "lookup", !.id = 0, !.ops = {}])
  BY DEF Typed, Local, Steps, AtProduct
<1> QED
  BY <1>1, <1>2, IdleTyped DEF AfterProduct

LEMMA EndProductTyped ==
    ASSUME WorkersTyped, stale \in SUBSET Products, NEW w \in Workers, NEW me, Typed(me),
           me.job \in Job, me.id \in Products, EndProduct(w, me)
    PROVE  WorkersTyped' /\ stale' \in SUBSET Products
<1>1. WorkersTyped'
  BY AfterProductTyped, GotoTyped DEF EndProduct
<1>2. stale' \in SUBSET Products
  BY DEF EndProduct
<1> QED
  BY <1>1, <1>2

-----------------------------------------------------------------------------
(* Edits.                                                                   *)

LEMMA RowEdited ==
    ASSUME NEW row \in ProductRow, NEW n \in 0 .. MaxEdits
    PROVE  [row EXCEPT !.version = n] \in ProductRow
BY DEF ProductRow

LEMMA EditedTyped ==
    ASSUME TypeInv, NEW type \in {"update", "delete", "reindex"}, NEW ctx \in Channels,
           NEW ids \in SUBSET Products, AddJob(type, ctx, ids)
    PROVE  /\ jobs' \in SUBSET Job /\ edits' \in 0 .. MaxEdits
           /\ Bumped(ids) \in [Products -> ProductRow]
           /\ IndicesTyped' /\ RestTyped'
<1>1. edits + 1 \in 1 .. MaxEdits /\ edits' = edits + 1
  BY IndexingAssumption DEF AddJob, TypeInv, CatalogueTyped, IndexingAssumption
<1>2. jobs' \in SUBSET Job
  BY <1>1 DEF AddJob, TypeInv, CatalogueTyped, Job
<1>3. Bumped(ids) \in [Products -> ProductRow]
  <2>1. \A p \in Products : [products[p] EXCEPT !.version = edits + 1] \in ProductRow
    BY <1>1, RowEdited DEF TypeInv, CatalogueTyped
  <2> QED
    BY <2>1 DEF Bumped, TypeInv, CatalogueTyped
<1>4. IndicesTyped' /\ RestTyped'
  BY DEF AddJob, indices, TypeInv, IndicesTyped, RestTyped
<1> QED
  BY <1>1, <1>2, <1>3, <1>4

\* An edit changes the tables and adds a job.
LEMMA EditKeepsTypes ==
    ASSUME TypeInv, NEW type \in {"update", "delete", "reindex"}, NEW ctx \in Channels,
           NEW ids \in SUBSET Products, AddJob(type, ctx, ids),
           products' \in [Products -> ProductRow], variants' \in [Variants -> VariantRow],
           WorkersTyped'
    PROVE  TypeInv'
BY EditedTyped DEF TypeInv, CatalogueTyped

LEMMA WorkersStay == ASSUME TypeInv, UNCHANGED worker PROVE WorkersTyped'
BY DEF TypeInv, WorkersTyped, Typed

LEMMA EditTyped == ASSUME TypeInv, Edit PROVE TypeInv'
<1> DEFINE States == {"new", "live", "deleted"}
<1>1. /\ \A v \in Variants : variants[v] \in VariantRow /\ ProductOf[v] \in Products
      /\ variants \in [Variants -> VariantRow]
  BY IndexingAssumption DEF TypeInv, CatalogueTyped, IndexingAssumption
<1>2. \A v \in Variants : \A s \in States : [variants[v] EXCEPT !.state = s] \in VariantRow
  BY <1>1 DEF VariantRow
<1>3. \A v \in Variants : \A cs \in SUBSET Channels : [variants[v] EXCEPT !.channels = cs] \in VariantRow
  BY <1>1 DEF VariantRow
<1>4. /\ \A v \in Variants : variants[v].channels \in SUBSET Channels
      /\ \A p \in Products : products[p].channels \in SUBSET Channels /\ products[p] \in ProductRow
  BY <1>1 DEF VariantRow, ProductRow, TypeInv, CatalogueTyped
<1>5. ASSUME NEW p \in Products, NEW ctx \in Channels, EditProduct(p, ctx) PROVE TypeInv'
  <2>1. AddJob("update", ctx, {p}) /\ products' = Bumped({p}) /\ UNCHANGED <<variants, worker>>
    BY <1>5 DEF EditProduct
  <2>2. Bumped({p}) \in [Products -> ProductRow] /\ WorkersTyped'
    BY <2>1, EditedTyped, WorkersStay
  <2> QED
    BY <1>1, <2>1, <2>2, EditKeepsTypes
<1>6. ASSUME NEW p \in Products, NEW ctx \in Channels, DeleteProduct(p, ctx) PROVE TypeInv'
  <2>1. /\ AddJob("delete", ctx, {p})
        /\ products' = [Bumped({p}) EXCEPT ![p].live = FALSE]
    BY <1>6 DEF DeleteProduct
  <2>2. Bumped({p}) \in [Products -> ProductRow]
    BY <2>1, EditedTyped
  <2>3. products' \in [Products -> ProductRow]
    <3>1. [Bumped({p})[p] EXCEPT !.live = FALSE] \in ProductRow
      BY <2>2 DEF ProductRow
    <3> QED
      BY <2>1, <2>2, <3>1
  <2>4. variants' \in [Variants -> VariantRow]
    BY <1>1, <1>2, <1>6 DEF DeleteProduct
  <2>5. WorkersTyped'
    <3>1. p + 1 .. NumProducts \in SUBSET Products
      BY IndexingAssumption DEF Products, IndexingAssumption
    <3> DEFINE later == p + 1 .. NumProducts
    <3>2. \A w \in Workers : Typed(worker[w]) /\ Typed([worker[w] EXCEPT !.bad = @ \cup later])
      BY <3>1, BadTyped DEF TypeInv, WorkersTyped
    <3>3. \A w \in Workers : worker'[w] = worker[w] \/ worker'[w] = [worker[w] EXCEPT !.bad = @ \cup later]
      BY <1>6 DEF DeleteProduct
    <3>4. worker' = [w \in Workers |-> worker'[w]]
      BY <1>6 DEF DeleteProduct
    <3> HIDE DEF later
    <3>5. \A w \in Workers : Typed(worker'[w])
      BY <3>2, <3>3
    <3> QED
      BY <3>4, <3>5 DEF WorkersTyped, Typed
  <2>6. {p} \in SUBSET Products
    OBVIOUS
  <2> QED
    BY <2>1, <2>3, <2>4, <2>5, <2>6, EditKeepsTypes, Zenon
<1>7. ASSUME NEW set \in SUBSET Variants, NEW ctx \in Channels, EditVariants(set, ctx) PROVE TypeInv'
  <2> DEFINE ids == {ProductOf[v] : v \in set}
  <2>1. AddJob("update", ctx, ids) /\ products' = Bumped(ids) /\ UNCHANGED <<variants, worker>>
    BY <1>7 DEF EditVariants
  <2>2. ids \in SUBSET Products
    BY <1>1
  <2> HIDE DEF ids
  <2>3. Bumped(ids) \in [Products -> ProductRow] /\ WorkersTyped'
    BY <2>1, <2>2, EditedTyped, WorkersStay
  <2> QED
    BY <1>1, <2>1, <2>2, <2>3, EditKeepsTypes
<1>8. ASSUME NEW v \in Variants, NEW ctx \in Channels, CreateOrDeleteVariant(v, ctx) PROVE TypeInv'
  <2>1. /\ AddJob("update", ctx, {ProductOf[v]}) /\ products' = Bumped({ProductOf[v]})
        /\ UNCHANGED worker /\ ProductOf[v] \in Products
    BY <1>1, <1>8 DEF CreateOrDeleteVariant
  <2>2. variants' \in [Variants -> VariantRow]
    BY <1>1, <1>2, <1>8 DEF CreateOrDeleteVariant
  <2>3. Bumped({ProductOf[v]}) \in [Products -> ProductRow] /\ WorkersTyped'
    BY <2>1, EditedTyped, WorkersStay
  <2> QED
    BY <2>1, <2>2, <2>3, EditKeepsTypes
<1>9. ASSUME NEW p \in Products, NEW channel \in Channels, NEW ctx \in Channels,
             ToggleProductChannel(p, channel, ctx)
      PROVE  TypeInv'
  <2>1. /\ AddJob("update", ctx, {p})
        /\ products' = [Bumped({p}) EXCEPT ![p].channels = Toggled(@, channel)]
        /\ UNCHANGED worker
    BY <1>9 DEF ToggleProductChannel
  <2>2. Bumped({p}) \in [Products -> ProductRow]
    BY <2>1, EditedTyped
  <2>3. products' \in [Products -> ProductRow]
    <3>1. Toggled(Bumped({p})[p].channels, channel) \in SUBSET Channels
      BY <2>2 DEF Toggled, ProductRow
    <3>2. [Bumped({p})[p] EXCEPT !.channels = Toggled(@, channel)] \in ProductRow
      BY <2>2, <3>1 DEF ProductRow
    <3> QED
      BY <2>1, <2>2, <3>2
  <2>4. variants' \in [Variants -> VariantRow]
    <3>1. \A v \in Variants : /\ variants[v].channels \ {channel} \in SUBSET Channels
                              /\ variants[v].channels \cup {channel} \in SUBSET Channels
      BY <1>4
    <3>2. ASSUME NEW v \in Variants
          PROVE  [variants[v] EXCEPT !.channels = IF channel \in products[p].channels
                                                  THEN @ \ {channel} ELSE @ \cup {channel}] \in VariantRow
      BY <1>3, <3>1
    <3> QED
      BY <1>1, <1>9, <3>2 DEF ToggleProductChannel
  <2>5. WorkersTyped'
    BY <2>1, WorkersStay
  <2>6. {p} \in SUBSET Products
    OBVIOUS
  <2> QED
    BY <2>1, <2>3, <2>4, <2>5, <2>6, EditKeepsTypes, Zenon
<1>10. ASSUME NEW v \in Variants, NEW channel \in Channels, NEW ctx \in Channels,
              ToggleVariantChannel(v, channel, ctx)
       PROVE  TypeInv'
  <2>1. /\ AddJob("update", ctx, {ProductOf[v]}) /\ products' = Bumped({ProductOf[v]})
        /\ UNCHANGED worker /\ ProductOf[v] \in Products
    BY <1>1, <1>10 DEF ToggleVariantChannel
  <2>2. variants' \in [Variants -> VariantRow]
    <3>1. Toggled(variants[v].channels, channel) \in SUBSET Channels
      BY <1>4 DEF Toggled
    <3>2. variants' = [variants EXCEPT ![v] =
                          [variants[v] EXCEPT !.channels = Toggled(variants[v].channels, channel)]]
      BY <1>10 DEF ToggleVariantChannel
    <3> QED
      BY <1>1, <1>3, <3>1, <3>2
  <2>3. Bumped({ProductOf[v]}) \in [Products -> ProductRow] /\ WorkersTyped'
    BY <2>1, EditedTyped, WorkersStay
  <2> QED
    BY <2>1, <2>2, <2>3, EditKeepsTypes
<1>11. ASSUME NEW ctx \in Channels, ReindexMutation(ctx) PROVE TypeInv'
  <2>1. AddJob("reindex", ctx, {}) /\ UNCHANGED <<products, variants, worker>>
    BY <1>11 DEF ReindexMutation, catalogue
  <2> QED
    BY <2>1, EditedTyped DEF TypeInv, CatalogueTyped, WorkersTyped, Typed
<1> QED
  BY <1>5, <1>6, <1>7, <1>8, <1>9, <1>10, <1>11 DEF Edit

-----------------------------------------------------------------------------
(* Jobs.                                                                    *)

LEMMA TakeTyped ==
    ASSUME TypeInv, NEW w \in Workers, NEW j \in jobs, Take(w, j)
    PROVE  TypeInv'
<1>1. j \in Job /\ j.ids \in SUBSET Products /\ j.ctx \in Channels
  BY DEF TypeInv, CatalogueTyped, Job
<1>2. CatalogueTyped' /\ IndicesTyped' /\ RestTyped'
  BY DEF Take, catalogue, indices, TypeInv, CatalogueTyped, IndicesTyped, RestTyped
<1>3. Idle \in Local
  BY IdleTyped DEF Typed
<1>4. CASE j.type = "reindex"
  <2> DEFINE next == [Idle EXCEPT !.job = j, !.step = "create"]
  <2>1. Typed(next)
    BY <1>1, <1>3 DEF Typed, Local, Steps, AtProduct
  <2> QED
    BY <1>2, <1>4, <2>1, OverlapTyped DEF Take, TypeInv
<1>5. CASE j.type # "reindex"
  <2> DEFINE next == [Idle EXCEPT !.job = j, !.step = "next", !.left = j.ids, !.ctx = j.ctx]
  <2>1. Typed(next)
    BY <1>1, <1>3 DEF Typed, Local, Steps, AtProduct
  <2> QED
    BY <1>2, <1>5, <2>1, GotoTyped DEF Take, TypeInv
<1> QED
  BY <1>4, <1>5

LEMMA FindProductTyped ==
    ASSUME TypeInv, NEW w \in Workers, NEW p \in Products, FindProduct(w, p)
    PROVE  TypeInv'
<1> DEFINE found == worker[w].ctx \in products[p].channels
           step == IF found THEN "deleteProduct" ELSE "deleteVariants"
           ops == IF found THEN Deletes({p}) ELSE {}
           bad == IF found THEN worker[w].bad ELSE worker[w].bad \cup {p}
           next == [worker[w] EXCEPT !.id = p, !.left = @ \ {p}, !.step = step,
                                     !.found = FoundVariants(p), !.ops = ops, !.bad = bad]
<1>1. CatalogueTyped' /\ IndicesTyped' /\ RestTyped'
  BY DEF FindProduct, unchangedByJob, catalogue, TypeInv, CatalogueTyped, IndicesTyped, RestTyped
<1>2. Typed(worker[w]) /\ worker[w].step = "next"
  BY DEF TypeInv, WorkersTyped, FindProduct
<1>3. ops \in SUBSET Operations /\ FoundVariants(p) \in SUBSET Variants
  BY DeletesAreOperations DEF FoundVariants, VariantsOf, Entities
<1>4. worker[w].job \in Job /\ worker[w].bad \in SUBSET Products /\ worker[w] \in Local
  BY <1>2 DEF Typed, Local
<1>5. step \in {"deleteProduct", "deleteVariants"} /\ bad \in SUBSET Products
  BY <1>4
<1>6. Overlap(w, next, {p})
  BY DEF FindProduct
<1> HIDE DEF step, ops, bad
<1>7. next \in Local /\ next.job = worker[w].job /\ next.id = p /\ next.step = step
  BY <1>3, <1>4, <1>5 DEF Local, Steps
<1>8. Typed(next)
  BY <1>4, <1>5, <1>7 DEF Typed, AtProduct
<1> QED
  BY <1>1, <1>6, <1>8, OverlapTyped DEF TypeInv

LEMMA BulkTyped ==
    ASSUME TypeInv, NEW w \in Workers, NEW chunk, NEW done \in SUBSET chunk, NEW ok \in BOOLEAN,
           Bulk(w, chunk, done, ok)
    PROVE  WorkersTyped' /\ index' \in [Names -> Docs] /\ stale' \in SUBSET Products
<1> DEFINE me == worker[w]
           bad == IF ok THEN me.bad ELSE me.bad \cup {me.id}
           left == me.ops \ chunk
           rest == [me EXCEPT !.ops = left, !.bad = bad]
           toVariants == [rest EXCEPT !.step = "deleteVariants", !.ops = Deletes(me.found)]
           toProduct == [rest EXCEPT !.step = "product"]
           target == IF Reindexing(w) THEN me.name ELSE alias
<1>1. /\ Typed(me) /\ me \in Local /\ me.step \in AtProduct
      /\ me.job \in Job /\ me.id \in Products /\ me.step # "variants"
  BY DEF Bulk, TypeInv, WorkersTyped, Typed, AtProduct
<1>2. /\ bad \in SUBSET Products /\ left \in SUBSET Operations /\ me.ops \in SUBSET Operations
      /\ me.name \in Names /\ me.found \in SUBSET Variants
  BY <1>1 DEF Local
<1>3. Deletes(me.found) \in SUBSET Operations
  BY <1>2, DeletesAreOperations DEF Entities
<1>4. chunk \subseteq me.ops
  BY DEF Bulk
<1>5. index' \in [Names -> Docs]
  <2>1. target \in Names
    BY <1>2 DEF TypeInv, IndicesTyped
  <2>2. index' = [index EXCEPT ![target] = Write(@, done)]
    BY DEF Bulk
  <2> HIDE DEF target, me
  <2>3. Write(index[target], done) \in Docs
    BY <1>2, <1>4, <2>1, WrittenDocs DEF TypeInv, IndicesTyped
  <2> QED
    BY <2>1, <2>2, <2>3 DEF TypeInv, IndicesTyped
<1>6. \/ Goto(w, rest) /\ UNCHANGED stale
      \/ Goto(w, toVariants) /\ UNCHANGED stale
      \/ Goto(w, toProduct) /\ UNCHANGED stale
      \/ EndProduct(w, rest)
  BY DEF Bulk
<1>7. PICK m : m = me
  OBVIOUS
<1> HIDE DEF bad, left, me
<1>8. /\ rest \in Local /\ rest.job = m.job /\ rest.id = m.id /\ rest.step = m.step
      /\ rest.row = m.row
  BY <1>1, <1>2, <1>7 DEF Local
<1>9. Typed(rest) /\ rest.job \in Job /\ rest.id \in Products
  BY <1>1, <1>7, <1>8 DEF Typed, AtProduct
<1> HIDE DEF rest
<1>10. Typed(toVariants) /\ Typed(toProduct)
  BY <1>3, <1>9 DEF Typed, Local, Steps, AtProduct
<1> HIDE DEF toVariants, toProduct
<1>11. stale \in SUBSET Products /\ WorkersTyped
  BY DEF TypeInv, RestTyped
<1> QED
  BY <1>5, <1>6, <1>9, <1>10, <1>11, GotoTyped, EndProductTyped

LEMMA ReadProductTyped ==
    ASSUME TypeInv, NEW w \in Workers, NEW p \in Products, ReadProduct(w, p)
    PROVE  TypeInv'
<1> DEFINE me == [worker[w] EXCEPT !.id = p, !.left = @ \ {p}]
           next == [me EXCEPT !.step = "variants", !.row = products[p]]
<1>1. /\ CatalogueTyped' /\ IndicesTyped' /\ faults' \in 0 .. MaxFaults
  BY DEF ReadProduct, unchangedByJob, catalogue, TypeInv, CatalogueTyped, IndicesTyped, RestTyped
<1>2. /\ Typed(worker[w]) /\ worker[w].job \in Job /\ worker[w].step \in {"product", "next"}
      /\ products[p] \in ProductRow
  BY DEF ReadProduct, TypeInv, WorkersTyped, CatalogueTyped, Typed
<1>3. Typed(me) /\ me.job \in Job /\ me.id \in Products
  BY <1>2 DEF Typed, Local
<1> HIDE DEF me
<1>4. Typed(next)
  BY <1>2, <1>3 DEF Typed, Local, Steps, AtProduct
<1>5. \/ Goto(w, next) /\ UNCHANGED stale
      \/ EndProduct(w, me)
  BY DEF ReadProduct, me
<1> HIDE DEF next
<1>6. stale \in SUBSET Products /\ WorkersTyped
  BY DEF TypeInv, RestTyped
<1>7. WorkersTyped' /\ stale' \in SUBSET Products
  BY <1>3, <1>4, <1>5, <1>6, GotoTyped, EndProductTyped
<1> QED
  BY <1>1, <1>7 DEF TypeInv, RestTyped

LEMMA ReadVariantsTyped ==
    ASSUME TypeInv, NEW w \in Workers, NEW set \in SUBSET Variants,
           NEW bad, bad \subseteq {worker[w].id}, ReadVariants(w, set, bad), faults' \in 0 .. MaxFaults
    PROVE  TypeInv'
<1> DEFINE me == worker[w]
<1>1. /\ CatalogueTyped' /\ IndicesTyped' /\ RestTyped'
  BY DEF ReadVariants, catalogue, indices, TypeInv, CatalogueTyped, IndicesTyped, RestTyped
<1>2. /\ Typed(me) /\ me.job \in Job /\ me.id \in Products /\ me.row \in ProductRow
      /\ me.ctx \in Channels \cup {None} /\ me.bad \in SUBSET Products
  BY DEF ReadVariants, TypeInv, WorkersTyped, Typed, AtProduct, Local
<1> DEFINE ops == Upserts(me.id, me.row, set)
           more == me.bad \cup bad
<1>3. ops \in SUBSET Operations /\ more \in SUBSET Products
  BY <1>2, UpsertsAreOperations DEF TypeInv
<1>4. PICK c \in Channels \cup {None} :
          Goto(w, [me EXCEPT !.step = "upsert", !.ctx = c, !.row = None, !.found = {},
                             !.ops = ops, !.bad = more])
  BY <1>2 DEF ReadVariants, ProductRow
<1> DEFINE next == [me EXCEPT !.step = "upsert", !.ctx = c, !.row = None, !.found = {},
                              !.ops = ops, !.bad = more]
<1> HIDE DEF ops, more
<1>5. Typed(next)
  BY <1>2, <1>3, <1>4 DEF Typed, Local, Steps, AtProduct
<1> QED
  BY <1>1, <1>4, <1>5, GotoTyped DEF TypeInv

-----------------------------------------------------------------------------
(* reindex.                                                                 *)

\* A worker that only goes to another step of reindex.
LEMMA StepTyped ==
    ASSUME NEW me, Typed(me), me.job \in Job,
           NEW step \in {"lookup", "switch", "drop", "finally"}
    PROVE  Typed([me EXCEPT !.step = step])
BY DEF Typed, Local, Steps, AtProduct

LEMMA BusyHasJob ==
    ASSUME TypeInv, NEW w \in Workers, worker[w].step # "idle"
    PROVE  Typed(worker[w]) /\ worker[w].job \in Job /\ worker[w].name \in Names
BY DEF TypeInv, WorkersTyped, Typed, Local

LEMMA CreateIndicesTyped ==
    ASSUME TypeInv, NEW w \in Workers, NEW aliased \in BOOLEAN, CreateIndices(w, aliased),
           faults' \in 0 .. MaxFaults
    PROVE  TypeInv'
<1>1. runs + 1 \in Names /\ runs + 1 \in 0 .. MaxRuns
  BY IndexingAssumption DEF CreateIndices, TypeInv, IndicesTyped, Names, IndexingAssumption
<1>2. /\ CatalogueTyped' /\ IndicesTyped' /\ RestTyped'
  BY <1>1 DEF CreateIndices, catalogue, TypeInv, CatalogueTyped, IndicesTyped, RestTyped
<1>3. Typed(worker[w]) /\ worker[w].job \in Job
  BY BusyHasJob DEF CreateIndices
<1> DEFINE next == [worker[w] EXCEPT !.step = "page", !.name = runs + 1]
<1>4. Typed(next)
  BY <1>1, <1>3 DEF Typed, Local, Steps, AtProduct
<1> QED
  BY <1>2, <1>4, GotoTyped DEF CreateIndices, TypeInv

LEMMA ReadPageTyped ==
    ASSUME TypeInv, NEW w \in Workers, ReadPage(w)
    PROVE  TypeInv'
<1> DEFINE page == Page(worker[w].skip)
           step == IF page = {} THEN "lookup" ELSE "next"
           skip == worker[w].skip + ReindexProductsChunkSize
           full == Cardinality(page) >= ReindexProductsChunkSize
           next == [worker[w] EXCEPT !.step = step, !.left = page, !.skip = skip, !.full = full]
<1>1. /\ CatalogueTyped' /\ IndicesTyped' /\ RestTyped'
  BY DEF ReadPage, unchangedByReindex, catalogue, indices, TypeInv, CatalogueTyped, IndicesTyped, RestTyped
<1>2. Typed(worker[w]) /\ worker[w].job \in Job
  BY BusyHasJob DEF ReadPage
<1>3. page \in SUBSET Products /\ skip \in Nat /\ full \in BOOLEAN /\ step \in {"lookup", "next"}
  BY <1>2, IndexingAssumption DEF Page, Typed, Local, IndexingAssumption
<1>4. Goto(w, next)
  BY DEF ReadPage
<1> HIDE DEF page, skip, full, step
<1>5. Typed(next)
  BY <1>2, <1>3 DEF Typed, Local, Steps, AtProduct
<1> QED
  BY <1>1, <1>4, <1>5, GotoTyped DEF TypeInv

LEMMA LookupAliasTyped ==
    ASSUME TypeInv, NEW w \in Workers, LookupAlias(w)
    PROVE  TypeInv'
<1> DEFINE next == [worker[w] EXCEPT !.step = "switch", !.from = alias]
<1>1. /\ CatalogueTyped' /\ IndicesTyped' /\ RestTyped' /\ alias \in Names
  BY DEF LookupAlias, unchangedByReindex, catalogue, indices, TypeInv, CatalogueTyped, IndicesTyped, RestTyped
<1>2. Typed(worker[w]) /\ worker[w].job \in Job
  BY BusyHasJob DEF LookupAlias
<1>3. Typed(next)
  BY <1>1, <1>2 DEF Typed, Local, Steps, AtProduct
<1> QED
  BY <1>1, <1>3, GotoTyped DEF LookupAlias, TypeInv

LEMMA SwitchToTyped ==
    ASSUME TypeInv, NEW w \in Workers, NEW next \in {"drop", "finally"},
           worker[w].step = "switch", SwitchTo(w, next)
    PROVE  WorkersTyped' /\ alias' \in Names /\ tempAliases' \in SUBSET Names /\ stale' \in SUBSET Products
<1>1. Typed(worker[w]) /\ worker[w].job \in Job /\ worker[w].name \in Names
  BY BusyHasJob
<1>2. Typed([worker[w] EXCEPT !.step = next])
  BY <1>1, StepTyped
<1>3. WorkersTyped'
  BY <1>2, GotoTyped DEF SwitchTo, TypeInv
<1>4. worker[w].bad \in SUBSET Products
  BY <1>1 DEF Typed, Local
<1> QED
  BY <1>1, <1>3, <1>4 DEF SwitchTo, TypeInv, IndicesTyped

LEMMA ToFinallyTyped ==
    ASSUME TypeInv, NEW w \in Workers, worker[w].step # "idle",
           Goto(w, [worker[w] EXCEPT !.step = "finally"])
    PROVE  WorkersTyped'
<1>1. Typed([worker[w] EXCEPT !.step = "finally"])
  BY BusyHasJob, StepTyped
<1> QED
  BY <1>1, GotoTyped DEF TypeInv

LEMMA SwitchAliasTyped ==
    ASSUME TypeInv, NEW w \in Workers, SwitchAlias(w)
    PROVE  TypeInv'
<1>1. /\ CatalogueTyped' /\ faults' \in 0 .. MaxFaults
      /\ existing' \in SUBSET Names /\ index' \in [Names -> Docs] /\ runs' \in 0 .. MaxRuns
  BY DEF SwitchAlias, unchangedByReindex, catalogue, TypeInv, CatalogueTyped, IndicesTyped, RestTyped
<1>2. WorkersTyped' /\ alias' \in Names /\ tempAliases' \in SUBSET Names /\ stale' \in SUBSET Products
  <2>1. CASE CanSwitch(w)
    BY <2>1, SwitchToTyped DEF SwitchAlias
  <2>2. CASE ~CanSwitch(w)
    BY <2>2, ToFinallyTyped DEF SwitchAlias, TypeInv, IndicesTyped, RestTyped
  <2> QED
    BY <2>1, <2>2
<1> QED
  BY <1>1, <1>2 DEF TypeInv, IndicesTyped, RestTyped

\* An index that is dropped holds nothing.
LEMMA EmptyTyped == Empty \in Docs
BY DEF Empty, Docs, Entry

LEMMA DropOldIndexTyped ==
    ASSUME TypeInv, NEW w \in Workers, DropOldIndex(w)
    PROVE  TypeInv'
<1>1. WorkersTyped'
  BY ToFinallyTyped DEF DropOldIndex
<1>2. CatalogueTyped' /\ RestTyped'
  BY DEF DropOldIndex, unchangedByReindex, catalogue, TypeInv, CatalogueTyped, RestTyped
<1>3. IndicesTyped'
  BY EmptyTyped DEF DropOldIndex, TypeInv, IndicesTyped
<1> QED
  BY <1>1, <1>2, <1>3 DEF TypeInv

LEMMA FinallyTyped ==
    ASSUME TypeInv, NEW w \in Workers, Finally(w)
    PROVE  TypeInv'
<1>1. WorkersTyped'
  BY IdleTyped, GotoTyped DEF Finally, TypeInv
<1>2. CatalogueTyped' /\ RestTyped'
  BY DEF Finally, unchangedByReindex, catalogue, TypeInv, CatalogueTyped, RestTyped
<1>3. IndicesTyped'
  BY EmptyTyped DEF Finally, TypeInv, IndicesTyped
<1> QED
  BY <1>1, <1>2, <1>3 DEF TypeInv

-----------------------------------------------------------------------------
(* Faults.                                                                  *)

LEMMA FaultTyped == TypeInv /\ Fault => faults' \in 0 .. MaxFaults
BY IndexingAssumption DEF TypeInv, RestTyped, Fault, IndexingAssumption

LEMMA JobFailsTyped ==
    ASSUME TypeInv, NEW w \in Workers, JobFails(w)
    PROVE  TypeInv'
<1> DEFINE lost == worker[w].left \cup ({worker[w].id} \cap Products)
<1>1. lost \in SUBSET Products
  BY DEF TypeInv, WorkersTyped, Typed, Local
<1>2. CatalogueTyped' /\ IndicesTyped' /\ faults' \in 0 .. MaxFaults
  BY FaultTyped DEF JobFails, catalogue, indices, TypeInv, CatalogueTyped, IndicesTyped
<1>3. CASE Reindexing(w)
  <2>1. WorkersTyped'
    BY <1>3, IdleTyped, GotoTyped DEF JobFails, TypeInv
  <2> QED
    BY <1>2, <1>3, <2>1 DEF JobFails, TypeInv, RestTyped
<1>4. CASE ~Reindexing(w)
  <2>1. stale' \in SUBSET Products
    BY <1>1, <1>4 DEF JobFails, TypeInv, RestTyped
  <2>2. ASSUME NEW v \in Workers PROVE Typed(worker'[v])
    <3>1. CASE v = w
      BY <1>4, <3>1, IdleTyped DEF JobFails
    <3>2. CASE v # w
      <4>1. worker'[v] = [worker[v] EXCEPT !.bad = @ \cup (lost \cap Concern(v))]
        BY <1>4, <3>2 DEF JobFails
      <4>2. Typed(worker[v]) /\ lost \cap Concern(v) \in SUBSET Products
        BY <1>1 DEF TypeInv, WorkersTyped
      <4> HIDE DEF lost
      <4> QED
        BY <4>1, <4>2, BadTyped
    <3> QED
      BY <3>1, <3>2
  <2>3. worker' = [v \in Workers |-> worker'[v]]
    BY <1>4 DEF JobFails
  <2>4. WorkersTyped'
    BY <2>2, <2>3 DEF WorkersTyped, Typed
  <2> QED
    BY <1>2, <2>1, <2>4 DEF TypeInv, RestTyped
<1> QED
  BY <1>3, <1>4

LEMMA SwitchFailsTyped ==
    ASSUME TypeInv, NEW w \in Workers, SwitchFails(w)
    PROVE  TypeInv'
<1>1. /\ CatalogueTyped' /\ faults' \in 0 .. MaxFaults
      /\ existing' \in SUBSET Names /\ index' \in [Names -> Docs] /\ runs' \in 0 .. MaxRuns
  BY FaultTyped DEF SwitchFails, catalogue, TypeInv, CatalogueTyped, IndicesTyped
<1>2. WorkersTyped' /\ alias' \in Names /\ tempAliases' \in SUBSET Names /\ stale' \in SUBSET Products
  <2>1. CASE worker[w].step = "switch" /\ SwitchTo(w, "finally")
    BY <2>1, SwitchToTyped
  <2>2. CASE /\ worker[w].step \in {"lookup", "switch", "drop"}
             /\ Goto(w, [worker[w] EXCEPT !.step = "finally"])
             /\ UNCHANGED <<alias, tempAliases, stale>>
    BY <2>2, ToFinallyTyped DEF TypeInv, IndicesTyped, RestTyped
  <2> QED
    BY <2>1, <2>2 DEF SwitchFails
<1> QED
  BY <1>1, <1>2 DEF TypeInv, IndicesTyped, RestTyped

LEMMA CrashTyped ==
    ASSUME TypeInv, NEW w \in Workers, Crash(w)
    PROVE  TypeInv'
<1>1. WorkersTyped'
  BY IdleTyped, GotoTyped DEF Crash, TypeInv
<1>2. CatalogueTyped'
  BY BusyHasJob DEF Crash, catalogue, TypeInv, CatalogueTyped
<1>3. IndicesTyped' /\ RestTyped'
  BY FaultTyped DEF Crash, indices, TypeInv, IndicesTyped, RestTyped
<1> QED
  BY <1>1, <1>2, <1>3 DEF TypeInv

-----------------------------------------------------------------------------
LEMMA TypeInit == Init => TypeInv
<1> SUFFICES ASSUME Init PROVE TypeInv
  OBVIOUS
<1>1. 0 \in 0 .. MaxEdits /\ 0 \in Names /\ 0 \in 0 .. MaxRuns /\ 0 \in 0 .. MaxFaults
  BY IndexingAssumption DEF IndexingAssumption, Names
<1>2. products \in [Products -> ProductRow]
  <2> DEFINE rows == {[live |-> TRUE, channels |-> cs, version |-> 0] :
                         cs \in {cs \in SUBSET Channels : DefaultChannel \in cs}}
  <2>1. rows \subseteq ProductRow
    <3>1. \A cs \in SUBSET Channels : [live |-> TRUE, channels |-> cs, version |-> 0] \in ProductRow
      BY <1>1 DEF ProductRow
    <3> QED
      BY <3>1
  <2>2. products \in [Products -> rows]
    BY DEF Init
  <2> HIDE DEF rows
  <2> QED
    BY <2>1, <2>2
<1>3. variants \in [Variants -> VariantRow]
  <2>1. \A v \in Variants : products[ProductOf[v]].channels \in SUBSET Channels
    BY <1>2, IndexingAssumption DEF IndexingAssumption, ProductRow
  <2> QED
    BY <2>1 DEF Init, VariantRow
<1>4. CatalogueTyped
  BY <1>1, <1>2, <1>3 DEF Init, CatalogueTyped
<1>5. index \in [Names -> Docs]
  <2> DEFINE ops == UNION {Current(p) : p \in Products}
  <2>1. \A p \in Products : Current(p) \in SUBSET Operations
    <3>1. \A p \in Products : products[p] \in ProductRow /\ VariantsOf(p) \in SUBSET Variants
      BY <1>2 DEF VariantsOf
    <3> QED
      BY <1>4, <3>1, UpsertsAreOperations DEF Current
  <2>2. ops \in SUBSET Operations
    BY <2>1
  <2>3. index = [x \in Names |-> IF x = 0 THEN Write(Empty, ops) ELSE Empty]
    BY DEF Init
  <2> HIDE DEF ops
  <2> QED
    BY <2>2, <2>3, EmptyTyped, WrittenDocs
<1>6. IndicesTyped
  BY <1>1, <1>5 DEF Init, IndicesTyped
<1>7. WorkersTyped
  BY IdleTyped DEF Init, WorkersTyped
<1> QED
  BY <1>1, <1>4, <1>6, <1>7 DEF Init, TypeInv, RestTyped

LEMMA BulkStepTyped ==
    ASSUME TypeInv, NEW w \in Workers, NEW chunk, NEW done,
           BulkSucceeds(w, chunk) \/ (done \in SUBSET chunk /\ BulkFails(w, chunk, done))
    PROVE  TypeInv'
<1>1. /\ CatalogueTyped' /\ faults' \in 0 .. MaxFaults /\ runs' \in 0 .. MaxRuns
      /\ existing' \in SUBSET Names /\ alias' \in Names /\ tempAliases' \in SUBSET Names
  BY FaultTyped DEF BulkSucceeds, BulkFails, unchangedByJob, catalogue, TypeInv, CatalogueTyped,
                    IndicesTyped, RestTyped
<1>2. WorkersTyped' /\ index' \in [Names -> Docs] /\ stale' \in SUBSET Products
  BY BulkTyped DEF BulkSucceeds, BulkFails
<1> QED
  BY <1>1, <1>2 DEF TypeInv, IndicesTyped, RestTyped

LEMMA TypeStep == TypeInv /\ [Next]_vars => TypeInv'
<1> SUFFICES ASSUME TypeInv, [Next]_vars PROVE TypeInv'
  OBVIOUS
<1>1. CASE Edit
  BY <1>1, EditTyped
<1>2. ASSUME NEW w \in Workers, Work(w) PROVE TypeInv'
  <2>1. CASE VariantsAreRead(w)
    <3>1. VariantsOf(worker[w].id) \in SUBSET Variants /\ faults' \in 0 .. MaxFaults
      BY <2>1 DEF VariantsOf, VariantsAreRead, TypeInv, RestTyped
    <3> QED
      BY <2>1, <3>1, ReadVariantsTyped DEF VariantsAreRead
  <2>2. CASE IndicesAreCreated(w)
    BY <2>2, CreateIndicesTyped DEF IndicesAreCreated, TypeInv, RestTyped
  <2> QED
    BY <1>2, <2>1, <2>2, TakeTyped, FindProductTyped, ReadProductTyped, BulkStepTyped, ReadPageTyped,
       LookupAliasTyped, SwitchAliasTyped, DropOldIndexTyped, FinallyTyped DEF Work
<1>3. ASSUME NEW w \in Workers, Fail(w) PROVE TypeInv'
  <2>1. CASE VariantsReadFails(w)
    BY <2>1, ReadVariantsTyped, FaultTyped DEF VariantsReadFails
  <2>2. CASE CreateIndicesFails(w)
    BY <2>2, CreateIndicesTyped, FaultTyped DEF CreateIndicesFails
  <2> QED
    BY <1>3, <2>1, <2>2, BulkStepTyped, JobFailsTyped, SwitchFailsTyped, CrashTyped DEF Fail
<1>4. CASE UNCHANGED vars
  BY <1>4 DEF vars, catalogue, indices, TypeInv, CatalogueTyped, IndicesTyped, WorkersTyped, Typed,
              RestTyped
<1> QED
  BY <1>1, <1>2, <1>3, <1>4 DEF Next

\* The tables, the jobs, the indices and the local state of every worker keep
\* their types, whatever is edited, written, retried or lost.
THEOREM IndexingTypes == Spec => []TypeOK
<1>1. ASSUME TypeInv PROVE TypeOK
  <2>1. worker \in [Workers -> Local]
    BY <1>1 DEF TypeInv, WorkersTyped, Typed
  <2> QED
    BY <1>1, <2>1 DEF TypeInv, TypeOK, CatalogueTyped, IndicesTyped, RestTyped, Local, Steps, Docs,
                      Entry, Operations
<1> QED
  BY <1>1, TypeInit, TypeStep, PTL DEF Spec

-----------------------------------------------------------------------------
(* What search finds is current: the invariant.                             *)

\* The documents of a product.
DocsOf(p) == ({p} \cup VariantsOf(p)) \X Channels

\* What is live of a product in a channel, when the rows of the variants are vs.
Shown(p, vs, c) ==
    LET live == {v \in VariantsOf(p) : vs[v].state = "live" /\ c \in vs[v].channels}
    IN  IF live # {} THEN live ELSE {p}

\* The document that the current rows of a product, row and vs, put in place d.
Wanted(p, row, vs, d) ==
    IF row.live /\ d[2] \in row.channels /\ d[1] \in Shown(p, vs, d[2])
    THEN [product |-> row.version, variants |-> row.version] ELSE None

\* The documents of a product in an index are those of its current rows; some
\* entities have no document there.
AreRight(docs, p, row, vs) == \A d \in DocsOf(p) : docs[d] = Wanted(p, row, vs, d)

AreGone(docs, entities) == \A d \in entities \X Channels : docs[d] = None

\* The variants that exist or once existed: those a deleted product is asked for.
NotNew(p, vs) == {v \in VariantsOf(p) : vs[v].state # "new"}

\* The place of a product in the order in which reindex reads its pages.
Rank(p) == Cardinality({q \in Products : products[q].live /\ q < p})

-----------------------------------------------------------------------------
(* Workers.                                                                 *)

OfReindex(me) == me.job # None /\ me.job.type = "reindex"

\* The steps from the making of a new index to its alias, those that hold
\* operations to execute, and those that have read a product and not written it.
Building == {"page", "next", "variants", "upsert", "lookup", "switch"}

Writing == {"deleteProduct", "deleteVariants", "upsert"}

Reading(me, p) == me.step \in {"variants", "upsert"} /\ me.id = p

\* The products a worker may write about, those its job has still to write, and
\* the index it writes to.
ConcernOf(me) ==
    IF OfReindex(me) THEN IF me.step \in {"drop", "finally"} THEN {} ELSE Products
    ELSE IF me.step \in {"idle", "next"} THEN {} ELSE {me.id}

DueOf(me) == IF OfReindex(me) THEN {} ELSE me.left \cup ({me.id} \cap Products)

TargetOf(me) == IF OfReindex(me) THEN me.name ELSE alias

\* A product is due while a job that will write it waits or runs; elsewhere, if
\* the job is not the one of a given worker.
Waits(p) == \E j \in jobs : p \in j.ids

Due(p) == Waits(p) \/ \E w \in Workers : p \in DueOf(worker[w])

Elsewhere(w, p) == Waits(p) \/ \E v \in Workers \ {w} : p \in DueOf(worker[v])

-----------------------------------------------------------------------------
(* What a worker has achieved about a product that changed nowhere behind   *)
(* its back: what its index holds, once what it carries is written, is what *)
(* its step promises. docs is that index, row and vs are the current rows.  *)

\* updateProducts: the documents of the product and of its variants are deleted
\* one after the other, and those of the current rows are put in their place.
JobGood(me, p, docs, row, vs) ==
    /\ me.step = "deleteProduct" =>
          me.found = NotNew(p, vs) /\ AreGone(Write(docs, me.ops), {p})
    /\ me.step = "deleteVariants" =>
          /\ me.found = NotNew(p, vs) /\ AreGone(docs, {p})
          /\ AreGone(Write(docs, me.ops), NotNew(p, vs))
    /\ me.step = "product" => AreGone(docs, {p} \cup VariantsOf(p))
    /\ me.step \in {"variants", "upsert"} => row.live
    /\ me.step = "variants" => me.row = row /\ AreGone(docs, {p} \cup VariantsOf(p))
    /\ me.step = "upsert" => AreRight(Write(docs, me.ops), p, row, vs)

\* reindex: what lies before the products of its pages is in the new index; the
\* products of the page it is at, and those of the pages to come, are not yet.
ReindexGood(me, p, docs, row, vs, rank) ==
    /\ row.live /\ (p \in me.left \/ Reading(me, p)) => rank < me.skip
    /\ row.live /\ rank >= me.skip =>
          me.step = "page" \/ (me.full /\ me.step \in {"next", "variants", "upsert"})
    /\ Reading(me, p) =>
          /\ p \notin me.left /\ row.live
          /\ me.step = "variants" => me.row = row /\ AreGone(docs, {p} \cup VariantsOf(p))
          /\ me.step = "upsert" => AreRight(Write(docs, me.ops), p, row, vs)
    /\ ~Reading(me, p) =>
          IF row.live /\ (p \in me.left \/ rank >= me.skip)
          THEN AreGone(docs, {p} \cup VariantsOf(p)) ELSE AreRight(docs, p, row, vs)

Good(me, p, docs, row, vs, rank) ==
    IF OfReindex(me) THEN me.step # "create" => ReindexGood(me, p, docs, row, vs, rank)
    ELSE JobGood(me, p, docs, row, vs)

-----------------------------------------------------------------------------
(* The parts of the invariant.                                              *)

\* A job to delete is put only once its products are deleted.
JobOK(j) ==
    /\ j.type = "reindex" => j.ids = {}
    /\ j.type = "delete" => \A p \in j.ids : ~products[p].live

\* The local state of a worker at each of its steps. No two of its operations
\* are about one document.
Shape(me) ==
    /\ me.step = "idle" => me.job = None /\ me.left = {} /\ me.id = 0
    /\ me.step # "idle" /\ ~OfReindex(me) =>
          /\ me.step \in {"next"} \cup AtProduct
          /\ me.left \cup ({me.id} \cap Products) \subseteq me.job.ids
          /\ me.step = "next" => me.id = 0
    /\ me.step # "idle" /\ OfReindex(me) =>
          /\ me.step \in {"create", "drop", "finally"} \cup Building
          /\ me.step = "create" => me.skip = 0
          /\ me.step \in {"create", "page", "lookup", "switch"} => me.left = {}
    /\ me.step \in Writing =>
          /\ \A op \in me.ops : op[1] \in DocsOf(me.id)
          /\ \A op, other \in me.ops : op[1] = other[1] => op = other
    /\ me.step \in {"deleteProduct", "deleteVariants"} =>
          me.found \subseteq VariantsOf(me.id) /\ \A op \in me.ops : op[2] = None

JobsOK ==
    /\ \A j \in jobs : JobOK(j)
    /\ \A w \in Workers : worker[w].step # "idle" => JobOK(worker[w].job)

ShapesOK == \A w \in Workers : Shape(worker[w])

Named(me) == OfReindex(me) /\ me.step # "create"

\* The index that a reindex builds is its own: no other worker writes to it, and
\* search does not read it.
NamesOK ==
    /\ \A x \in Names : x > runs => index[x] = Empty
    /\ \A w \in Workers : Named(worker[w]) =>
          /\ worker[w].name \in 1 .. runs
          /\ \A v \in Workers \ {w} : Named(worker[v]) => worker[v].name # worker[w].name
          /\ worker[w].step \in Building =>
                /\ worker[w].name # alias
                /\ \A v \in Workers : worker[v].step \in Holding => worker[v].from # worker[w].name

\* Two workers that may write about one product both count it as overlapped.
OverlapOK ==
    \A v, w \in Workers : v # w =>
        ConcernOf(worker[v]) \cap ConcernOf(worker[w]) \subseteq worker[w].bad

\* Nothing was ever written of a variant that does not exist yet.
NewOK ==
    \A v \in Variants : variants[v].state = "new" =>
        /\ \A x \in Names : AreGone(index[x], {v})
        /\ \A w \in Workers : worker[w].step \in Writing =>
              \A op \in worker[w].ops : op[1][1] = v => op[2] = None

\* A worker vouches for a product that nothing else is going to write, and that
\* was not overlapped.
GoodAt(w) ==
    \A p \in ConcernOf(worker[w]) \ worker[w].bad : ~Elsewhere(w, p) =>
        Good(worker[w], p, index[TargetOf(worker[w])], products[p], variants, Rank(p))

GoodOK == \A w \in Workers : GoodAt(w)

\* The index that search reads is right about each product that is not due.
MainOK ==
    \A p \in Products \ stale : ~Due(p) => AreRight(index[alias], p, products[p], variants)

SettledInv == JobsOK /\ ShapesOK /\ NamesOK /\ OverlapOK /\ NewOK /\ GoodOK /\ MainOK

IndexInv == TypeInv /\ AliasInv /\ SettledInv

-----------------------------------------------------------------------------
(* Pages.                                                                    *)

Before(p) == {q \in Products : products[q].live /\ q < p}

LEMMA ProductsAreFinite ==
    ASSUME NEW S \in SUBSET Products
    PROVE  IsFiniteSet(S) /\ Cardinality(S) \in Nat
<1>1. IsFiniteSet(Products)
  BY FS_Interval, IndexingAssumption DEF Products, IndexingAssumption
<1> QED
  BY <1>1, FS_Subset, FS_CardinalityType

LEMMA RankGrows ==
    ASSUME NEW p \in Products, NEW q \in Products, products[q].live, q < p
    PROVE  Rank(q) \in 0 .. Rank(p) - 1
<1>1. Rank(p) \in Nat /\ Rank(q) \in Nat /\ IsFiniteSet(Before(q)) /\ IsFiniteSet(Before(p))
  BY ProductsAreFinite DEF Rank, Before
<1>2. q \notin Before(q) /\ Before(q) \cup {q} \in SUBSET Before(p)
  BY IndexingAssumption DEF Before, Products, IndexingAssumption
<1>3. Cardinality(Before(q) \cup {q}) = Cardinality(Before(q)) + 1
  BY <1>1, <1>2, FS_AddElement
<1>4. Cardinality(Before(q) \cup {q}) <= Cardinality(Before(p))
  BY <1>1, <1>2, FS_Subset
<1> QED
  BY <1>1, <1>3, <1>4 DEF Rank, Before

\* The products before one have all the ranks below it.
LEMMA RanksAreDense ==
    ASSUME NEW p \in Products, NEW k \in 0 .. Rank(p) - 1
    PROVE  \E q \in Before(p) : Rank(q) = k
<1> DEFINE n == Rank(p)
           f == [q \in Before(p) |-> Rank(q)]
<1>1. n \in Nat /\ IsFiniteSet(Before(p)) /\ n = Cardinality(Before(p))
  BY ProductsAreFinite DEF Rank, Before
<1>2. IsFiniteSet(0 .. n - 1) /\ Cardinality(0 .. n - 1) = n
  BY <1>1, FS_Interval
<1>3. \A q, r \in Before(p) : q # r => Rank(q) # Rank(r)
  <2>1. \A q, r \in Before(p) : q < r => Rank(q) \in 0 .. Rank(r) - 1
    BY RankGrows DEF Before
  <2>2. \A q \in Before(p) : Rank(q) \in Nat /\ q \in Int
    BY ProductsAreFinite, IndexingAssumption DEF Rank, Before, Products, IndexingAssumption
  <2> QED
    BY <2>1, <2>2
<1>4. f \in Injection(Before(p), 0 .. n - 1)
  BY <1>3, RankGrows DEF Injection, Before, IsInjective
<1>5. f \in Surjection(Before(p), 0 .. n - 1)
  BY <1>1, <1>2, <1>4, FS_Injection
<1> QED
  BY <1>5 DEF Surjection

LEMMA PageIsFull ==
    ASSUME NEW p \in Products, NEW skip \in Nat, Rank(p) >= skip + ReindexProductsChunkSize
    PROVE  Cardinality(Page(skip)) >= ReindexProductsChunkSize
<1> DEFINE I == skip .. skip + ReindexProductsChunkSize - 1
           g == [k \in I |-> CHOOSE q \in Page(skip) : Rank(q) = k]
<1>1. ReindexProductsChunkSize \in Nat /\ Rank(p) \in Nat
  BY ProductsAreFinite, IndexingAssumption DEF Rank, IndexingAssumption
<1>2. IsFiniteSet(I) /\ Cardinality(I) = ReindexProductsChunkSize
  <2>1. ReindexProductsChunkSize > 0 /\ skip \in Int
             /\ skip + ReindexProductsChunkSize - 1 \in Int
    BY <1>1, IndexingAssumption DEF IndexingAssumption
  <2> DEFINE last == skip + ReindexProductsChunkSize - 1
  <2>2. last \in Int /\ skip <= last /\ last - skip + 1 = ReindexProductsChunkSize
    BY <1>1, <2>1
  <2> HIDE DEF last
  <2>3. IsFiniteSet(skip .. last) /\ Cardinality(skip .. last) = last - skip + 1
    BY <2>1, <2>2, FS_Interval
  <2> QED
    BY <2>2, <2>3 DEF last
<1>3. ASSUME NEW k \in I PROVE \E q \in Page(skip) : Rank(q) = k
  <2>1. k \in 0 .. Rank(p) - 1
    BY <1>1
  <2>2. PICK q \in Before(p) : Rank(q) = k
    BY <2>1, RanksAreDense
  <2>3. q \in Page(skip)
    BY <2>2 DEF Page, Rank, Before
  <2> QED
    BY <2>2, <2>3
<1>4. \A k \in I : g[k] \in Page(skip) /\ Rank(g[k]) = k
  BY <1>3
<1>5. g \in Injection(I, Page(skip))
  BY <1>4 DEF Injection, IsInjective
<1>6. IsFiniteSet(Page(skip)) /\ Cardinality(Page(skip)) \in Nat
  BY ProductsAreFinite DEF Page
<1> QED
  BY <1>1, <1>2, <1>5, <1>6, FS_Injection

-----------------------------------------------------------------------------
(* Documents.                                                                *)

Functional(ops) == \A op, other \in ops : op[1] = other[1] => op = other

LEMMA WriteNothing ==
    ASSUME NEW docs, NEW ops, NEW d \in DocIds, \A op \in ops : op[1] # d
    PROVE  Write(docs, ops)[d] = docs[d]
BY DEF Write

LEMMA WriteOne ==
    ASSUME NEW docs, NEW ops, Functional(ops), NEW op \in ops, op[1] \in DocIds
    PROVE  Write(docs, ops)[op[1]] = op[2]
<1>1. (CHOOSE other \in ops : other[1] = op[1]) = op
  BY DEF Functional
<1> QED
  BY <1>1 DEF Write

LEMMA WriteInParts ==
    ASSUME NEW docs, NEW ops, Functional(ops), NEW chunk \in SUBSET ops, NEW d \in DocIds
    PROVE  Write(Write(docs, chunk), ops \ chunk)[d] = Write(docs, ops)[d]
<1>1. Functional(chunk) /\ Functional(ops \ chunk)
  BY DEF Functional
<1>2. CASE \E op \in chunk : op[1] = d
  <2>1. PICK op \in chunk : op[1] = d
    BY <1>2
  <2>2. \A other \in ops \ chunk : other[1] # d
    BY <2>1 DEF Functional
  <2> QED
    BY <1>1, <2>1, <2>2, WriteOne, WriteNothing
<1>3. CASE \E op \in ops \ chunk : op[1] = d
  <2>1. PICK op \in ops \ chunk : op[1] = d
    BY <1>3
  <2>2. Write(Write(docs, chunk), ops \ chunk)[d] = op[2]
    BY <1>1, <2>1, WriteOne
  <2>3. Write(docs, ops)[d] = op[2]
    BY <2>1, WriteOne
  <2> QED
    BY <2>2, <2>3
<1>4. CASE \A op \in ops : op[1] # d
  BY <1>4, WriteNothing
<1> QED
  BY <1>2, <1>3, <1>4

LEMMA WriteDeletes ==
    ASSUME NEW docs, NEW ops, \A op \in ops : op[2] = None, NEW d \in DocIds, docs[d] = None
    PROVE  Write(docs, ops)[d] = None
<1>1. CASE \E op \in ops : op[1] = d
  <2>1. (CHOOSE op \in ops : op[1] = d) \in ops
    BY <1>1
  <2> QED
    BY <1>1, <2>1 DEF Write
<1>2. CASE \A op \in ops : op[1] # d
  BY <1>2, WriteNothing
<1> QED
  BY <1>1, <1>2

LEMMA DeletesAre ==
    ASSUME NEW entities \in SUBSET Entities
    PROVE  /\ Functional(Deletes(entities))
           /\ \A op \in Deletes(entities) : op[1] \in entities \X Channels /\ op[2] = None
           /\ \A docs : AreGone(Write(docs, Deletes(entities)), entities)
<1>1. /\ Functional(Deletes(entities))
      /\ \A op \in Deletes(entities) : op[1] \in entities \X Channels /\ op[2] = None
  BY DEF Functional, Deletes
<1>2. \A d \in entities \X Channels : d \in DocIds /\ <<d, None>> \in Deletes(entities)
  BY DEF Deletes, DocIds
<1>3. ASSUME NEW docs, NEW d \in entities \X Channels PROVE Write(docs, Deletes(entities))[d] = None
  <2>1. <<d, None>> \in Deletes(entities) /\ <<d, None>>[1] \in DocIds
    BY <1>2
  <2> QED
    BY <1>1, <2>1, WriteOne
<1> QED
  BY <1>1, <1>3 DEF AreGone

LEMMA DocsOfProduct ==
    ASSUME NEW p \in Products
    PROVE  /\ DocsOf(p) \subseteq DocIds
           /\ {p} \cup VariantsOf(p) \subseteq Entities
           /\ \A q \in Products \ {p} : DocsOf(p) \cap DocsOf(q) = {}
           /\ p \notin Variants
BY IndexingAssumption DEF DocsOf, DocIds, Entities, VariantsOf, IndexingAssumption

\* What a job writes once it has read the product and its variants.
LEMMA UpsertsAre ==
    ASSUME NEW p \in Products, NEW row \in ProductRow, NEW set \in SUBSET VariantsOf(p)
    PROVE  /\ Functional(Upserts(p, row, set))
           /\ \A op \in Upserts(p, row, set) :
                 /\ op[1] \in DocsOf(p)
                 /\ op[1][1] \in Variants => variants[op[1][1]].state = "live"
<1> DEFINE doc == [product |-> row.version, variants |-> products[p].version]
<1>1. \A op \in Upserts(p, row, set) : \E c \in row.channels : \E e \in Indexed(p, set, c) :
          op = <<<<e, c>>, doc>>
  BY DEF Upserts
<1>2. Functional(Upserts(p, row, set))
  BY <1>1 DEF Functional
<1>3. row.channels \subseteq Channels
  BY DEF ProductRow
<1>4. \A c : \A e \in Indexed(p, set, c) :
          /\ e \in {p} \cup VariantsOf(p)
          /\ e \in Variants => variants[e].state = "live"
  BY DocsOfProduct DEF Indexed, VariantsIn
<1>5. ASSUME NEW op \in Upserts(p, row, set)
      PROVE  /\ op[1] \in DocsOf(p)
             /\ op[1][1] \in Variants => variants[op[1][1]].state = "live"
  <2>1. PICK c \in row.channels : \E e \in Indexed(p, set, c) : op = <<<<e, c>>, doc>>
    BY <1>1
  <2>2. PICK e \in Indexed(p, set, c) : op = <<<<e, c>>, doc>>
    BY <2>1
  <2>3. op[1] = <<e, c>> /\ op[1][1] = e
    BY <2>2
  <2>4. <<e, c>> \in DocsOf(p)
    BY <1>3, <1>4 DEF DocsOf
  <2> QED
    BY <1>4, <2>3, <2>4
<1> QED
  BY <1>2, <1>5

\* An upsert is in place exactly where a document is wanted.
LEMMA UpsertsAreWanted ==
    ASSUME NEW p \in Products, products[p] \in ProductRow, products[p].live, NEW d \in DocsOf(p),
           NEW op \in Upserts(p, products[p], VariantsOf(p)), op[1] = d
    PROVE  op[2] = Wanted(p, products[p], variants, d)
<1> DEFINE doc == [product |-> products[p].version, variants |-> products[p].version]
<1>1. PICK c \in products[p].channels : \E e \in Indexed(p, VariantsOf(p), c) : op = <<<<e, c>>, doc>>
  BY DEF Upserts
<1>2. PICK e \in Indexed(p, VariantsOf(p), c) : op = <<<<e, c>>, doc>>
  BY <1>1
<1>3. d[1] = e /\ d[2] = c /\ op[2] = doc
  BY <1>2
<1>4. e \in Shown(p, variants, c)
  BY DEF Indexed, VariantsIn, Shown
<1> QED
  BY <1>1, <1>3, <1>4 DEF Wanted

LEMMA WantedIsUpserted ==
    ASSUME NEW p \in Products, NEW d \in DocsOf(p),
           \A op \in Upserts(p, products[p], VariantsOf(p)) : op[1] # d
    PROVE  Wanted(p, products[p], variants, d) = None
<1> DEFINE doc == [product |-> products[p].version, variants |-> products[p].version]
<1>1. SUFFICES ASSUME d[2] \in products[p].channels, d[1] \in Shown(p, variants, d[2]) PROVE FALSE
  BY DEF Wanted
<1>2. d = <<d[1], d[2]>>
  BY DEF DocsOf
<1>3. d[1] \in Indexed(p, VariantsOf(p), d[2])
  BY <1>1 DEF Indexed, VariantsIn, Shown
<1>4. <<<<d[1], d[2]>>, doc>> \in Upserts(p, products[p], VariantsOf(p))
  BY <1>1, <1>3 DEF Upserts
<1> QED
  BY <1>2, <1>4

LEMMA UpsertedIsRight ==
    ASSUME NEW p \in Products, products[p] \in ProductRow, products[p].live, NEW docs,
           AreGone(docs, {p} \cup VariantsOf(p))
    PROVE  AreRight(Write(docs, Upserts(p, products[p], VariantsOf(p))), p, products[p], variants)
<1> DEFINE ops == Upserts(p, products[p], VariantsOf(p))
<1>1. Functional(ops) /\ \A op \in ops : op[1] \in DocsOf(p)
  BY UpsertsAre
<1>2. ASSUME NEW d \in DocsOf(p)
      PROVE  Write(docs, ops)[d] = Wanted(p, products[p], variants, d)
  <2>1. d \in DocIds /\ docs[d] = None
    BY DocsOfProduct DEF DocsOf, AreGone
  <2>2. CASE \E op \in ops : op[1] = d
    <3>1. PICK op \in ops : op[1] = d
      BY <2>2
    <3>2. op[2] = Wanted(p, products[p], variants, d)
      BY <3>1, UpsertsAreWanted
    <3>3. Write(docs, ops)[op[1]] = op[2]
      BY <1>1, <2>1, <3>1, WriteOne
    <3> QED
      BY <3>1, <3>2, <3>3
  <2>3. CASE \A op \in ops : op[1] # d
    <3>1. Write(docs, ops)[d] = docs[d]
      BY <2>1, <2>3, WriteNothing
    <3>2. Wanted(p, products[p], variants, d) = None
      BY <2>3, WantedIsUpserted
    <3> QED
      BY <2>1, <3>1, <3>2
  <2> QED
    BY <2>2, <2>3
<1> QED
  BY <1>2 DEF AreRight

\* Of a product that was deleted no document is wanted.
LEMMA NothingOfDeleted ==
    ASSUME NEW p, NEW row, ~row.live, NEW docs, NEW vs, AreGone(docs, {p} \cup VariantsOf(p))
    PROVE  AreRight(docs, p, row, vs)
BY DEF AreRight, AreGone, Wanted, DocsOf

\* The property, in these terms.
LEMMA RightIsCurrent ==
    ASSUME TypeInv, NEW p \in Products, AreRight(index[alias], p, products[p], variants)
    PROVE  Served(p) = Current(p)
<1> DEFINE docs == index[alias]
           doc == [product |-> products[p].version, variants |-> products[p].version]
<1>1. products[p] \in ProductRow /\ doc \in Doc
  BY DEF TypeInv, CatalogueTyped, ProductRow, Doc
<1>2. doc # None
  BY <1>1, NoneAssumption DEF NoneAssumption
<1>3. ASSUME NEW op \in Served(p) PROVE op \in Current(p)
  <2>1. PICK d \in DocsOf(p) : op = <<d, docs[d]>> /\ docs[d] # None
    BY DEF Served, DocsOf
  <2>2. /\ products[p].live /\ d[2] \in products[p].channels
        /\ d[1] \in Shown(p, variants, d[2]) /\ docs[d] = doc
    BY <2>1 DEF AreRight, Wanted
  <2>3. d = <<d[1], d[2]>>
    BY DEF DocsOf
  <2>4. d[1] \in Indexed(p, VariantsOf(p), d[2])
    BY <2>2 DEF Indexed, VariantsIn, Shown
  <2>5. <<<<d[1], d[2]>>, doc>> \in Upserts(p, products[p], VariantsOf(p))
    BY <2>2, <2>4 DEF Upserts
  <2> QED
    BY <2>1, <2>2, <2>3, <2>5 DEF Current
<1>4. ASSUME NEW op \in Current(p) PROVE op \in Served(p)
  <2>1. products[p].live /\ op \in Upserts(p, products[p], VariantsOf(p))
    BY <1>4 DEF Current
  <2>2. PICK c \in products[p].channels :
            \E e \in Indexed(p, VariantsOf(p), c) : op = <<<<e, c>>, doc>>
    BY <2>1 DEF Upserts
  <2>3. PICK e \in Indexed(p, VariantsOf(p), c) : op = <<<<e, c>>, doc>>
    BY <2>2
  <2> DEFINE d == <<e, c>>
  <2>4. op = <<d, doc>> /\ op[1] = d /\ op[2] = doc
    BY <2>3
  <2>5. d \in DocsOf(p)
    BY <1>1, <2>1, <2>4, UpsertsAre
  <2>6. docs[d] = doc
    BY <1>1, <2>1, <2>4, <2>5, UpsertsAreWanted DEF AreRight
  <2> HIDE DEF d, doc
  <2>7. <<d, doc>> \in {<<x, docs[x]>> : x \in DocsOf(p)}
    BY <2>5, <2>6
  <2> QED
    BY <1>2, <2>4, <2>7 DEF Served, DocsOf
<1> QED
  BY <1>3, <1>4

-----------------------------------------------------------------------------
(* What a worker and a product have in common before and after a step.      *)

SameDocs(p, docs, other) == \A d \in DocsOf(p) : other[d] = docs[d]

\* A worker that stays where it is; it may learn of products it cannot vouch for.
Beside(me, next) ==
    /\ next.job = me.job /\ next.step = me.step /\ next.left = me.left /\ next.id = me.id
    /\ next.found = me.found /\ next.row = me.row /\ next.ops = me.ops
    /\ next.name = me.name /\ next.from = me.from /\ next.skip = me.skip /\ next.full = me.full
    /\ me.bad \subseteq next.bad

LEMMA BesideSame ==
    ASSUME NEW me, NEW next, Beside(me, next)
    PROVE  /\ OfReindex(next) = OfReindex(me) /\ Named(next) = Named(me)
           /\ ConcernOf(next) = ConcernOf(me) /\ DueOf(next) = DueOf(me)
           /\ Shape(me) => Shape(next)
<1>1. OfReindex(next) = OfReindex(me)
  BY DEF Beside, OfReindex
<1>2. Shape(me) => Shape(next)
  BY <1>1 DEF Beside, Shape
<1> QED
  BY <1>1, <1>2 DEF Beside, Named, ConcernOf, DueOf

LEMMA SameWrites ==
    ASSUME NEW p \in Products, NEW docs, NEW other, SameDocs(p, docs, other), NEW ops
    PROVE  SameDocs(p, Write(docs, ops), Write(other, ops))
BY DocsOfProduct DEF SameDocs, Write

LEMMA SameGone ==
    ASSUME NEW p \in Products, NEW docs, NEW other, SameDocs(p, docs, other),
           NEW entities \in SUBSET ({p} \cup VariantsOf(p)), AreGone(docs, entities)
    PROVE  AreGone(other, entities)
BY DEF SameDocs, AreGone, DocsOf

LEMMA SameRight ==
    ASSUME NEW p \in Products, NEW docs, NEW other, SameDocs(p, docs, other), NEW row,
           NEW vs, NEW new, \A v \in VariantsOf(p) : new[v] = vs[v], AreRight(docs, p, row, vs)
    PROVE  AreRight(other, p, row, new)
<1>1. \A c : Shown(p, new, c) = Shown(p, vs, c)
  BY DEF Shown
<1>2. \A d \in DocsOf(p) : Wanted(p, row, new, d) = Wanted(p, row, vs, d)
  BY <1>1 DEF Wanted
<1> QED
  BY <1>2 DEF SameDocs, AreRight

LEMMA SameNotNew ==
    ASSUME NEW p \in Products, NEW vs, NEW new, \A v \in VariantsOf(p) : new[v] = vs[v]
    PROVE  NotNew(p, new) = NotNew(p, vs) /\ NotNew(p, vs) \subseteq VariantsOf(p)
BY DEF NotNew

LEMMA SameGood ==
    ASSUME NEW me, NEW next, Beside(me, next), NEW p \in Products,
           NEW docs, NEW other, SameDocs(p, docs, other), NEW row,
           NEW vs, NEW new, \A v \in VariantsOf(p) : new[v] = vs[v],
           NEW rank, NEW rank2, OfReindex(me) => rank2 = rank,
           Good(me, p, docs, row, vs, rank)
    PROVE  Good(next, p, other, row, new, rank2)
<1>1. SameDocs(p, Write(docs, me.ops), Write(other, me.ops))
  BY SameWrites
<1>2. \A entities \in SUBSET ({p} \cup VariantsOf(p)) :
          /\ AreGone(docs, entities) => AreGone(other, entities)
          /\ AreGone(Write(docs, me.ops), entities) => AreGone(Write(other, me.ops), entities)
  BY <1>1, SameGone
<1>3. /\ AreRight(docs, p, row, vs) => AreRight(other, p, row, new)
      /\ AreRight(Write(docs, me.ops), p, row, vs) => AreRight(Write(other, me.ops), p, row, new)
  BY <1>1, SameRight
<1>4. NotNew(p, new) = NotNew(p, vs) /\ NotNew(p, vs) \subseteq VariantsOf(p)
  BY SameNotNew
<1>5. /\ {p} \in SUBSET ({p} \cup VariantsOf(p))
      /\ NotNew(p, vs) \in SUBSET ({p} \cup VariantsOf(p))
      /\ {p} \cup VariantsOf(p) \in SUBSET ({p} \cup VariantsOf(p))
  BY <1>4
<1>6. OfReindex(next) = OfReindex(me)
  BY BesideSame
<1>7. CASE OfReindex(me)
  <2>1. Reading(next, p) = Reading(me, p)
    BY DEF Beside, Reading
  <2> QED
    BY <1>2, <1>3, <1>5, <1>6, <1>7, <2>1 DEF Good, ReindexGood, Beside
<1>8. CASE ~OfReindex(me)
  BY <1>2, <1>3, <1>4, <1>5, <1>6, <1>8 DEF Good, JobGood, Beside
<1> QED
  BY <1>7, <1>8

-----------------------------------------------------------------------------
(* A step of one worker, as the others see it.                              *)

Others(u) == Workers \ {u}

Alone(u) == \A w \in Others(u) : Beside(worker[w], worker'[w])

\* No product but those of lost is left by the step without a job.
Carries(u, lost) ==
    \A p \in Products \ lost :
        Waits(p) \/ p \in DueOf(worker[u]) => Waits(p)' \/ p \in DueOf(worker'[u])

LEMMA GotoAlone ==
    ASSUME TypeInv, NEW u \in Workers, NEW next, Goto(u, next)
    PROVE  worker'[u] = next /\ Alone(u)
BY DEF Goto, Alone, Others, Beside, TypeInv, WorkersTyped

LEMMA BesideBad ==
    ASSUME NEW me, Typed(me), NEW more
    PROVE  LET next == [me EXCEPT !.bad = @ \cup more] IN
           Beside(me, next) /\ next.bad = me.bad \cup more
BY DEF Beside, Typed, Local

LEMMA OverlapAlone ==
    ASSUME TypeInv, NEW u \in Workers, NEW next, Typed(next), NEW set, Overlap(u, next, set)
    PROVE  /\ Beside(next, worker'[u]) /\ Alone(u)
           /\ \A w \in Others(u) : set \cap Concern(w) \subseteq worker'[u].bad \cap worker'[w].bad
<1>1. worker'[u] = [next EXCEPT !.bad = @ \cup (set \cap UNION {Concern(v) : v \in Workers \ {u}})]
  BY DEF Overlap
<1>2. Beside(next, worker'[u])
  BY <1>1, BesideBad
<1>3. ASSUME NEW w \in Others(u)
      PROVE  Beside(worker[w], worker'[w]) /\ set \cap Concern(w) \subseteq worker'[w].bad
  <2> DEFINE more == set \cap Concern(w)
  <2>1. worker'[w] = [worker[w] EXCEPT !.bad = @ \cup more]
    BY DEF Overlap, Others
  <2>2. Typed(worker[w])
    BY DEF Others, TypeInv, WorkersTyped
  <2> HIDE DEF more
  <2>3. Beside(worker[w], worker'[w]) /\ worker'[w].bad = worker[w].bad \cup more
    BY <2>1, <2>2, BesideBad
  <2> QED
    BY <2>3 DEF more
<1>4. Alone(u)
  BY <1>3 DEF Alone
<1>7. \A w \in Others(u) : set \cap Concern(w) \subseteq worker'[u].bad
  BY <1>1 DEF Typed, Local, Others
<1> QED
  BY <1>2, <1>3, <1>4, <1>7

LEMMA AloneSame ==
    ASSUME NEW u \in Workers, Alone(u)
    PROVE  \A w \in Others(u) :
               /\ OfReindex(worker'[w]) = OfReindex(worker[w]) /\ Named(worker'[w]) = Named(worker[w])
               /\ ConcernOf(worker'[w]) = ConcernOf(worker[w]) /\ DueOf(worker'[w]) = DueOf(worker[w])
               /\ Shape(worker[w]) => Shape(worker'[w])
BY BesideSame DEF Alone

LEMMA ElsewhereStays ==
    ASSUME NEW u \in Workers, Alone(u), jobs \subseteq jobs', NEW p, ~Elsewhere(u, p)'
    PROVE  ~Elsewhere(u, p)
BY AloneSame DEF Elsewhere, Waits, Others

\* What is due stays due.
LEMMA DueStays ==
    ASSUME NEW u \in Workers, Alone(u), NEW lost, Carries(u, lost), NEW p \in Products \ lost
    PROVE  /\ Due(p) => Due(p)'
           /\ \A w \in Others(u) : Elsewhere(w, p) => Elsewhere(w, p)'
<1>1. \A w \in Others(u) : DueOf(worker'[w]) = DueOf(worker[w])
  BY AloneSame
<1>2. Waits(p) \/ p \in DueOf(worker[u]) => Waits(p)' \/ p \in DueOf(worker'[u])
  BY DEF Carries
<1> QED
  BY <1>1, <1>2 DEF Due, Elsewhere, Others

LEMMA JobsStep ==
    ASSUME JobsOK, ShapesOK, NEW u \in Workers, Alone(u), UNCHANGED products,
           jobs' \subseteq jobs \cup (IF worker[u].step = "idle" THEN {} ELSE {worker[u].job}),
           worker'[u].step # "idle" =>
               worker'[u].job \in jobs \/ (worker[u].step # "idle" /\ worker'[u].job = worker[u].job)
    PROVE  JobsOK'
<1>1. \A j : JobOK(j) => JobOK(j)'
  BY DEF JobOK
<1>2. \A w \in Others(u) : worker'[w].step = worker[w].step /\ worker'[w].job = worker[w].job
  BY DEF Alone, Beside
<1> QED
  BY <1>1, <1>2 DEF JobsOK, Others

LEMMA ShapesStep ==
    ASSUME ShapesOK, NEW u \in Workers, Alone(u), Shape(worker'[u])
    PROVE  ShapesOK'
BY AloneSame DEF ShapesOK, Others

\* A step that neither makes an index nor moves the alias.
LEMMA NamesStep ==
    ASSUME NamesOK, NEW u \in Workers, Alone(u), UNCHANGED <<alias, runs>>,
           \A x \in Names : x > runs => index'[x] = Empty,
           Named(worker'[u]) => /\ Named(worker[u]) /\ worker'[u].name = worker[u].name
                                /\ worker'[u].step \in Building => worker[u].step \in Building,
           worker'[u].step \in Holding =>
               \/ worker'[u].from = alias
               \/ worker[u].step \in Holding /\ worker'[u].from = worker[u].from
    PROVE  NamesOK'
<1>1. \A w \in Others(u) : /\ Named(worker'[w]) = Named(worker[w])
                           /\ worker'[w].name = worker[w].name /\ worker'[w].step = worker[w].step
                           /\ worker'[w].from = worker[w].from
  BY AloneSame DEF Alone, Beside
<1> DEFINE Known(w) == /\ Named(worker[w])
                       /\ worker'[w].name = worker[w].name
                       /\ worker'[w].step \in Building => worker[w].step \in Building
<1>2. \A w \in Workers : Named(worker'[w]) => Known(w)
  BY <1>1 DEF Others
<1>3. \A w \in Workers : worker'[w].step \in Holding =>
          worker'[w].from = alias \/ (worker[w].step \in Holding /\ worker'[w].from = worker[w].from)
  BY <1>1 DEF Others
<1>4. ASSUME NEW w \in Workers, Named(worker'[w])
      PROVE  /\ worker'[w].name \in 1 .. runs
             /\ \A v \in Workers \ {w} : Named(worker'[v]) => worker'[v].name # worker'[w].name
             /\ worker'[w].step \in Building =>
                   /\ worker'[w].name # alias
                   /\ \A v \in Workers : worker'[v].step \in Holding => worker'[v].from # worker'[w].name
  BY <1>2, <1>3, <1>4 DEF NamesOK
<1> QED
  BY <1>4 DEF NamesOK

LEMMA OverlapStep ==
    ASSUME OverlapOK, NEW u \in Workers, Alone(u),
           \A w \in Others(u) : ConcernOf(worker'[u]) \cap ConcernOf(worker[w])
                                    \subseteq worker'[u].bad \cap worker'[w].bad
    PROVE  OverlapOK'
<1>1. \A w \in Others(u) : /\ ConcernOf(worker'[w]) = ConcernOf(worker[w])
                          /\ worker[w].bad \subseteq worker'[w].bad
  BY AloneSame DEF Alone, Beside
<1> QED
  BY <1>1 DEF OverlapOK, Others

\* A worker that is concerned with no more products than it was.
LEMMA ConcernShrinks ==
    ASSUME OverlapOK, NEW u \in Workers, Alone(u),
           ConcernOf(worker'[u]) \subseteq ConcernOf(worker[u]),
           ConcernOf(worker'[u]) # {} => worker[u].bad \subseteq worker'[u].bad
    PROVE  \A w \in Others(u) : ConcernOf(worker'[u]) \cap ConcernOf(worker[w])
                                    \subseteq worker'[u].bad \cap worker'[w].bad
BY DEF OverlapOK, Others, Alone, Beside

LEMMA NewStep ==
    ASSUME NewOK, NEW u \in Workers, Alone(u), UNCHANGED variants,
           \A v \in Variants : variants[v].state = "new" =>
               /\ \A x \in Names : AreGone(index'[x], {v})
               /\ worker'[u].step \in Writing =>
                     \A op \in worker'[u].ops : op[1][1] = v => op[2] = None
    PROVE  NewOK'
<1>1. \A w \in Others(u) : worker'[w].step = worker[w].step /\ worker'[w].ops = worker[w].ops
  BY DEF Alone, Beside
<1> QED
  BY <1>1 DEF NewOK, Others

\* The documents the other workers can vouch for are not touched.
Spares(u) ==
    \A w \in Others(u) : \A p \in ConcernOf(worker[w]) \ worker'[w].bad :
        worker[w].step # "create" =>
            SameDocs(p, index[TargetOf(worker[w])], index'[TargetOf(worker[w])'])

LEMMA ConcernIsProducts ==
    ASSUME TypeInv, ShapesOK, NEW w \in Workers
    PROVE  ConcernOf(worker[w]) \subseteq Products
<1>1. Typed(worker[w]) /\ Shape(worker[w])
  BY DEF TypeInv, WorkersTyped, ShapesOK
<1> QED
  BY <1>1 DEF ConcernOf, Typed, Shape

LEMMA OthersStep ==
    ASSUME TypeInv, ShapesOK, GoodOK, NEW u \in Workers, Alone(u), UNCHANGED catalogue,
           NEW lost, Carries(u, lost), Spares(u),
           \A w \in Others(u) : lost \cap ConcernOf(worker[w]) \subseteq worker'[w].bad,
           NEW w \in Others(u)
    PROVE  GoodAt(w)'
<1>1. Beside(worker[w], worker'[w]) /\ ConcernOf(worker'[w]) = ConcernOf(worker[w])
  BY AloneSame DEF Alone
<1>2. products' = products /\ variants' = variants /\ \A p : Rank(p)' = Rank(p)
  BY DEF catalogue, Rank
<1>3. SUFFICES ASSUME NEW p \in ConcernOf(worker[w]) \ worker'[w].bad, ~Elsewhere(w, p)'
               PROVE  Good(worker'[w], p, index'[TargetOf(worker[w])'], products[p], variants, Rank(p))
  BY <1>1, <1>2 DEF GoodAt
<1>4. p \in Products /\ Typed(worker[w]) /\ w \in Workers
  <2>1. w \in Workers
    BY DEF Others
  <2> QED
    BY <1>1, <1>3, <2>1, ConcernIsProducts DEF TypeInv, WorkersTyped
<1>5. ~Elsewhere(w, p)
  BY <1>3, <1>4, DueStays
<1>6. Good(worker[w], p, index[TargetOf(worker[w])], products[p], variants, Rank(p))
  BY <1>1, <1>4, <1>5 DEF GoodOK, GoodAt, Beside
<1>7. CASE worker[w].step # "create"
  <2>1. SameDocs(p, index[TargetOf(worker[w])], index'[TargetOf(worker[w])'])
    BY <1>7 DEF Spares
  <2> QED
    BY <1>1, <1>4, <1>6, <2>1, SameGood
<1>8. CASE worker[w].step = "create"
  <2>1. Good(worker'[w], p, index[TargetOf(worker[w])], products[p], variants, Rank(p))
    BY <1>1, <1>4, <1>6, SameGood DEF SameDocs
  <2> QED
    BY <1>1, <1>8, <2>1 DEF Good, JobGood, Beside
<1> QED
  BY <1>7, <1>8

LEMMA MainStep ==
    ASSUME MainOK, NEW u \in Workers, Alone(u), UNCHANGED catalogue,
           NEW lost, Carries(u, lost),
           \A p \in Products \ lost : p \notin stale' /\ ~Due(p)' =>
               p \notin stale /\ SameDocs(p, index[alias], index'[alias']),
           \A p \in Products \cap lost : p \notin stale' /\ ~Due(p)' =>
               AreRight(index'[alias'], p, products[p], variants)
    PROVE  MainOK'
<1>1. products' = products /\ variants' = variants
  BY DEF catalogue
<1>2. SUFFICES ASSUME NEW p \in Products \ stale', ~Due(p)'
               PROVE  AreRight(index'[alias'], p, products[p], variants)
  BY <1>1 DEF MainOK
<1>3. CASE p \in lost
  BY <1>2, <1>3
<1>4. CASE p \notin lost
  <2>1. ~Due(p)
    BY <1>2, <1>4, DueStays
  <2>2. p \notin stale /\ SameDocs(p, index[alias], index'[alias'])
    BY <1>2, <1>4
  <2>3. AreRight(index[alias], p, products[p], variants)
    BY <2>1, <2>2 DEF MainOK
  <2> QED
    BY <2>2, <2>3, SameRight
<1> QED
  BY <1>3, <1>4

\* What the worker itself vouches for, when the catalogue stays.
LEMMA OwnStep ==
    ASSUME NEW u \in Workers, Alone(u), UNCHANGED catalogue, jobs \subseteq jobs',
           \A p \in ConcernOf(worker'[u]) \ worker'[u].bad : ~Elsewhere(u, p) =>
               Good(worker'[u], p, index'[TargetOf(worker[u])'], products[p], variants, Rank(p))
    PROVE  GoodAt(u)'
<1>1. products' = products /\ variants' = variants /\ \A p : Rank(p)' = Rank(p)
  BY DEF catalogue, Rank
<1>2. \A p : ~Elsewhere(u, p)' => ~Elsewhere(u, p)
  BY ElsewhereStays
<1> QED
  BY <1>1, <1>2 DEF GoodAt

KeepsJob(u) ==
    /\ jobs' \subseteq jobs \cup (IF worker[u].step = "idle" THEN {} ELSE {worker[u].job})
    /\ worker'[u].step # "idle" =>
          worker'[u].job \in jobs \/ (worker[u].step # "idle" /\ worker'[u].job = worker[u].job)

KeepsIndex(u) ==
    /\ Named(worker'[u]) => /\ Named(worker[u]) /\ worker'[u].name = worker[u].name
                            /\ worker'[u].step \in Building => worker[u].step \in Building
    /\ worker'[u].step \in Holding =>
          \/ worker'[u].from = alias
          \/ worker[u].step \in Holding /\ worker'[u].from = worker[u].from

KeepsConcern(u) ==
    \A w \in Others(u) : ConcernOf(worker'[u]) \cap ConcernOf(worker[w])
                             \subseteq worker'[u].bad \cap worker'[w].bad

WritesNothingNew(u) ==
    \A v \in Variants : variants[v].state = "new" /\ worker'[u].step \in Writing =>
        \A op \in worker'[u].ops : op[1][1] = v => op[2] = None

\* A step that leaves the indices alone.
LEMMA QuietStep ==
    ASSUME IndexInv, NEW u \in Workers, Alone(u), UNCHANGED <<catalogue, index, alias, runs>>,
           KeepsJob(u), Shape(worker'[u]), KeepsIndex(u), KeepsConcern(u), WritesNothingNew(u),
           GoodAt(u)',
           NEW lost \in SUBSET Products, Carries(u, lost),
           \A w \in Others(u) : lost \cap ConcernOf(worker[w]) \subseteq worker'[w].bad,
           stale \subseteq stale' \cup lost,
           \A p \in lost : p \notin stale' /\ ~Due(p)' =>
               AreRight(index[alias], p, products[p], variants)
    PROVE  SettledInv'
<1> USE DEF IndexInv, SettledInv
<1>1. JobsOK'
  BY JobsStep DEF KeepsJob, catalogue
<1>2. ShapesOK'
  BY ShapesStep
<1>3. NamesOK'
  <2>1. \A x \in Names : x > runs => index'[x] = Empty
    BY DEF NamesOK
  <2> QED
    BY <2>1, NamesStep DEF KeepsIndex
<1>4. OverlapOK'
  BY OverlapStep DEF KeepsConcern
<1>5. NewOK'
  <2>1. \A v \in Variants : variants[v].state = "new" =>
               /\ \A x \in Names : AreGone(index'[x], {v})
               /\ worker'[u].step \in Writing =>
                     \A op \in worker'[u].ops : op[1][1] = v => op[2] = None
    BY DEF NewOK, WritesNothingNew
  <2> QED
    BY <2>1, NewStep DEF catalogue
<1>6. GoodOK'
  <2>1. Spares(u)
    BY AloneSame DEF Spares, SameDocs, TargetOf, Alone, Beside
  <2>2. \A w \in Others(u) : GoodAt(w)'
    BY <2>1, OthersStep
  <2> QED
    BY <2>2 DEF GoodOK, Others
<1>7. MainOK'
  <2>1. \A p \in Products \ lost : p \notin stale' /\ ~Due(p)' =>
            p \notin stale /\ SameDocs(p, index[alias], index'[alias'])
    BY DEF SameDocs
  <2>2. \A p \in Products \cap lost : p \notin stale' /\ ~Due(p)' =>
            AreRight(index'[alias'], p, products[p], variants)
    OBVIOUS
  <2> QED
    BY <2>1, <2>2, MainStep
<1> QED
  BY <1>1, <1>2, <1>3, <1>4, <1>5, <1>6, <1>7

\* And in which no product is left without a job.
LEMMA QuietStepOn ==
    ASSUME IndexInv, NEW u \in Workers, Alone(u), UNCHANGED <<catalogue, index, alias, runs, stale>>,
           KeepsJob(u), Shape(worker'[u]), KeepsIndex(u), KeepsConcern(u), WritesNothingNew(u),
           GoodAt(u)', Carries(u, {})
    PROVE  SettledInv'
BY QuietStep

\* A worker that gives up its job.
LEMMA Idles ==
    ASSUME NEW u \in Workers, worker'[u] = Idle
    PROVE  /\ Shape(worker'[u]) /\ ~OfReindex(worker'[u]) /\ ConcernOf(worker'[u]) = {}
           /\ DueOf(worker'[u]) = {} /\ KeepsIndex(u) /\ KeepsConcern(u)
           /\ WritesNothingNew(u) /\ GoodAt(u)'
<1>1. /\ worker'[u].step = "idle" /\ worker'[u].job = None /\ worker'[u].left = {}
      /\ worker'[u].id = 0
  BY DEF Idle
<1>2. ~OfReindex(worker'[u]) /\ ConcernOf(worker'[u]) = {}
  BY <1>1 DEF OfReindex, ConcernOf
<1>3. 0 \notin Products
  BY IndexingAssumption DEF Products, IndexingAssumption
<1>4. DueOf(worker'[u]) = {}
  BY <1>1, <1>2, <1>3 DEF DueOf
<1>5. KeepsIndex(u) /\ KeepsConcern(u) /\ WritesNothingNew(u)
  BY <1>1, <1>2 DEF KeepsIndex, KeepsConcern, WritesNothingNew, Named, Holding, Writing
<1>6. GoodAt(u)'
  BY <1>2 DEF GoodAt
<1>7. Shape(worker'[u])
  BY <1>1, <1>2 DEF Shape, Writing
<1> QED
  BY <1>2, <1>4, <1>5, <1>6, <1>7

-----------------------------------------------------------------------------
(* The steps of a worker that leave the indices alone.                      *)

LEMMA ConcernSame ==
    ASSUME NEW w \in Workers
    PROVE  Concern(w) = ConcernOf(worker[w]) /\ Reindexing(w) = OfReindex(worker[w])
<1>1. Reindexing(w) = OfReindex(worker[w])
  BY DEF Reindexing, OfReindex
<1> QED
  BY <1>1 DEF Concern, ConcernOf

LEMMA WorkerFacts ==
    ASSUME IndexInv, NEW u \in Workers
    PROVE  /\ Typed(worker[u]) /\ worker[u] \in Local /\ Shape(worker[u])
           /\ worker[u].step # "idle" => worker[u].job \in Job /\ worker[u].job # None /\ JobOK(worker[u].job)
<1>1. Typed(worker[u]) /\ Shape(worker[u])
  BY DEF IndexInv, SettledInv, TypeInv, WorkersTyped, ShapesOK
<1>2. worker[u].step # "idle" => worker[u].job \in Job /\ JobOK(worker[u].job)
  BY <1>1 DEF IndexInv, SettledInv, JobsOK, Typed
<1> QED
  BY <1>1, <1>2, NoneAssumption DEF Typed, NoneAssumption

LEMMA CrashSettled ==
    ASSUME IndexInv, NEW u \in Workers, Crash(u)
    PROVE  SettledInv'
<1>1. worker'[u] = Idle /\ Alone(u)
  BY GotoAlone DEF Crash, IndexInv
<1>2. /\ UNCHANGED <<catalogue, index, alias, runs, stale>>
      /\ jobs' = jobs \cup {worker[u].job} /\ worker[u].step # "idle"
  BY DEF Crash, indices
<1>3. KeepsJob(u)
  BY <1>1, <1>2 DEF KeepsJob, Idle
<1>4. Carries(u, {})
  <2>1. DueOf(worker[u]) \subseteq worker[u].job.ids
    BY <1>2, WorkerFacts DEF Shape, DueOf
  <2> QED
    BY <1>2, <2>1 DEF Carries, Waits
<1> QED
  BY <1>1, <1>2, <1>3, <1>4, Idles, QuietStepOn

LEMMA TakeSettled ==
    ASSUME IndexInv, NEW u \in Workers, NEW j \in jobs, Take(u, j)
    PROVE  SettledInv'
<1>1. /\ UNCHANGED <<catalogue, index, alias, runs, stale>> /\ jobs' = jobs \ {j}
      /\ worker[u].step = "idle"
  BY DEF Take, indices
<1>2. j \in Job /\ j # None /\ JobOK(j) /\ j.ids \in SUBSET Products
  BY NoneAssumption DEF IndexInv, SettledInv, JobsOK, TypeInv, CatalogueTyped, NoneAssumption, Job
<1>3. worker[u].left = {} /\ worker[u].id = 0 /\ worker[u].job = None /\ 0 \notin Products
  BY <1>1, WorkerFacts, IndexingAssumption DEF Shape, Products, IndexingAssumption
<1>4. DueOf(worker[u]) = {}
  BY <1>3 DEF DueOf
<1>5. /\ Alone(u) /\ worker'[u].job = j /\ worker'[u].id = 0
      /\ OfReindex(worker'[u]) = (j.type = "reindex")
      /\ OfReindex(worker'[u]) => /\ worker'[u].step = "create" /\ worker'[u].left = {}
                                  /\ worker'[u].skip = 0 /\ KeepsConcern(u)
      /\ ~OfReindex(worker'[u]) => worker'[u].step = "next" /\ worker'[u].left = j.ids
  <2>1. CASE j.type = "reindex"
    <3> DEFINE next == [Idle EXCEPT !.job = j, !.step = "create"]
    <3>1. Overlap(u, next, Products)
      BY <2>1 DEF Take
    <3>2. /\ Typed(next) /\ next.job = j /\ next.id = 0 /\ next.step = "create" /\ next.left = {}
          /\ next.skip = 0
      BY <1>2, IdleTyped DEF Typed, Local, Steps, AtProduct, Idle
    <3> HIDE DEF next
    <3>3. /\ Beside(next, worker'[u]) /\ Alone(u)
          /\ \A w \in Others(u) : Products \cap Concern(w) \subseteq worker'[u].bad \cap worker'[w].bad
      BY <3>1, <3>2, OverlapAlone DEF IndexInv
    <3>4. /\ worker'[u].job = j /\ worker'[u].id = 0 /\ worker'[u].step = "create"
          /\ worker'[u].left = {} /\ worker'[u].skip = 0
      BY <3>2, <3>3 DEF Beside
    <3>5. OfReindex(worker'[u]) /\ ConcernOf(worker'[u]) = Products
      BY <1>2, <2>1, <3>4 DEF OfReindex, ConcernOf
    <3>6. KeepsConcern(u)
      BY <3>3, <3>5, ConcernSame DEF KeepsConcern, Others
    <3> QED
      BY <2>1, <3>3, <3>4, <3>5, <3>6
  <2>2. CASE j.type # "reindex"
    <3> DEFINE next == [Idle EXCEPT !.job = j, !.step = "next", !.left = j.ids, !.ctx = j.ctx]
    <3>1. Goto(u, next)
      BY <2>2 DEF Take
    <3>2. next.job = j /\ next.id = 0 /\ next.step = "next" /\ next.left = j.ids
      BY DEF Idle
    <3> HIDE DEF next
    <3>3. worker'[u] = next /\ Alone(u)
      BY <3>1, GotoAlone DEF IndexInv
    <3> QED
      BY <2>2, <3>2, <3>3 DEF OfReindex
  <2> QED
    BY <2>1, <2>2
<1>6. KeepsJob(u)
  BY <1>1, <1>5 DEF KeepsJob
<1>7. Shape(worker'[u])
  BY <1>3, <1>5 DEF Shape, Writing
<1>8. KeepsIndex(u) /\ WritesNothingNew(u)
  BY <1>5 DEF KeepsIndex, WritesNothingNew, Named, Holding, Writing
<1>9. KeepsConcern(u) /\ GoodAt(u)'
  <2>1. CASE j.type = "reindex"
    BY <1>5, <2>1 DEF GoodAt, Good
  <2>2. CASE j.type # "reindex"
    BY <1>5, <2>2 DEF KeepsConcern, GoodAt, ConcernOf
  <2> QED
    BY <2>1, <2>2
<1>10. Carries(u, {})
  <2>1. \A p \in j.ids : p \in DueOf(worker'[u])
    BY <1>2, <1>5 DEF JobOK, DueOf
  <2> QED
    BY <1>1, <1>4, <2>1 DEF Carries, Waits
<1> QED
  BY <1>1, <1>5, <1>6, <1>7, <1>8, <1>9, <1>10, QuietStepOn

\* A worker that keeps its job, as far as its job and index are concerned.
LEMMA SameJob ==
    ASSUME IndexInv, NEW u \in Workers, jobs' = jobs, worker[u].step # "idle",
           worker'[u].job = worker[u].job
    PROVE  KeepsJob(u) /\ OfReindex(worker'[u]) = OfReindex(worker[u])
BY DEF KeepsJob, OfReindex

LEMMA FindProductSettled ==
    ASSUME IndexInv, NEW u \in Workers, NEW p \in Products, FindProduct(u, p)
    PROVE  SettledInv'
<1> DEFINE found == worker[u].ctx \in products[p].channels
           step == IF found THEN "deleteProduct" ELSE "deleteVariants"
           ops == IF found THEN Deletes({p}) ELSE {}
           bad == IF found THEN worker[u].bad ELSE worker[u].bad \cup {p}
           next == [worker[u] EXCEPT !.id = p, !.left = @ \ {p}, !.step = step,
                                     !.found = FoundVariants(p), !.ops = ops, !.bad = bad]
<1>1. UNCHANGED <<catalogue, index, alias, runs, stale>> /\ jobs' = jobs
  BY DEF FindProduct, unchangedByJob
<1>2. worker[u].step = "next" /\ p \in worker[u].left /\ ~OfReindex(worker[u])
  BY ConcernSame DEF FindProduct
<1>3. worker[u] \in Local /\ Shape(worker[u]) /\ worker[u].job \in Job /\ worker[u].job # None
  BY <1>2, WorkerFacts
<1>4. Overlap(u, next, {p})
  BY DEF FindProduct
<1>5. /\ ops \in SUBSET Operations /\ FoundVariants(p) \in SUBSET Variants
      /\ step \in {"deleteProduct", "deleteVariants"} /\ bad \in SUBSET Products
  BY <1>3, DeletesAreOperations DEF FoundVariants, VariantsOf, Entities, Local
<1>6. ~found => ops = {} /\ p \in bad
  OBVIOUS
<1>7. found => step = "deleteProduct" /\ ops = Deletes({p})
  OBVIOUS
<1> HIDE DEF step, ops, bad
<1>8. /\ next \in Local /\ next.job = worker[u].job /\ next.id = p /\ next.left = worker[u].left \ {p}
      /\ next.step = step /\ next.found = FoundVariants(p) /\ next.ops = ops /\ next.bad = bad
  BY <1>3, <1>5 DEF Local, Steps
<1> HIDE DEF next
<1>9. Typed(next)
  BY <1>3, <1>5, <1>8 DEF Typed, AtProduct
<1>10. /\ Beside(next, worker'[u]) /\ Alone(u)
       /\ \A w \in Others(u) : {p} \cap Concern(w) \subseteq worker'[u].bad \cap worker'[w].bad
  BY <1>4, <1>9, OverlapAlone DEF IndexInv
<1>11. /\ worker'[u].job = worker[u].job /\ worker'[u].id = p
       /\ worker'[u].left = worker[u].left \ {p} /\ worker'[u].step = step
       /\ worker'[u].found = FoundVariants(p) /\ worker'[u].ops = ops
       /\ bad \subseteq worker'[u].bad
  BY <1>8, <1>10 DEF Beside
<1>12. KeepsJob(u) /\ ~OfReindex(worker'[u])
  BY <1>1, <1>2, <1>11, SameJob
<1>13. FoundVariants(p) = NotNew(p, variants) /\ NotNew(p, variants) \subseteq VariantsOf(p)
  BY DEF FoundVariants, NotNew
<1>14. /\ Functional(ops) /\ \A op \in ops : op[1] \in DocsOf(p) /\ op[1] \in {p} \X Channels
                                               /\ op[2] = None
       /\ found => \A docs : AreGone(Write(docs, ops), {p})
  <2>1. {p} \in SUBSET Entities
    BY DEF Entities
  <2>2. CASE found
    BY <1>7, <2>1, <2>2, DeletesAre DEF DocsOf
  <2>3. CASE ~found
    BY <1>6, <2>3 DEF Functional
  <2> QED
    BY <2>2, <2>3
<1>15. Shape(worker'[u])
  BY <1>2, <1>3, <1>5, <1>11, <1>12, <1>13, <1>14 DEF Shape, Writing, AtProduct, Functional
<1>16. KeepsIndex(u) /\ WritesNothingNew(u)
  BY <1>5, <1>11, <1>12, <1>14 DEF KeepsIndex, WritesNothingNew, Named, Holding
<1>17. ConcernOf(worker'[u]) = {p}
  BY <1>5, <1>11, <1>12 DEF ConcernOf
<1>18. KeepsConcern(u)
  BY <1>10, <1>17, ConcernSame DEF KeepsConcern, Others
<1>19. GoodAt(u)'
  <2>1. ASSUME p \notin worker'[u].bad
        PROVE  Good(worker'[u], p, index'[TargetOf(worker[u])'], products[p], variants, Rank(p))
    <3>1. found
      BY <1>6, <1>11, <2>1
    <3> QED
      BY <1>7, <1>11, <1>12, <1>13, <1>14, <3>1 DEF Good, JobGood
  <2> QED
    BY <1>1, <1>10, <1>17, <2>1, OwnStep
<1>20. Carries(u, {})
  <2>1. DueOf(worker[u]) \subseteq DueOf(worker'[u])
    <3>1. worker[u].id = 0 /\ 0 \notin Products
      BY <1>2, <1>3, IndexingAssumption DEF Shape, Products, IndexingAssumption
    <3> QED
      BY <1>2, <1>11, <1>12, <3>1 DEF DueOf
  <2> QED
    BY <1>1, <2>1 DEF Carries, Waits
<1> QED
  BY <1>1, <1>10, <1>12, <1>15, <1>16, <1>18, <1>19, <1>20, QuietStepOn

LEMMA LookupAliasSettled ==
    ASSUME IndexInv, NEW u \in Workers, LookupAlias(u)
    PROVE  SettledInv'
<1> DEFINE next == [worker[u] EXCEPT !.step = "switch", !.from = alias]
<1>1. /\ UNCHANGED <<catalogue, index, alias, runs, stale>> /\ jobs' = jobs
      /\ worker[u].step = "lookup"
  BY DEF LookupAlias, unchangedByReindex, indices
<1>2. /\ worker[u] \in Local /\ Shape(worker[u]) /\ worker[u].job \in Job /\ worker[u].job # None
  BY <1>1, WorkerFacts
<1>3. OfReindex(worker[u]) /\ worker[u].left = {}
  BY <1>1, <1>2 DEF Shape, AtProduct
<1>4. worker'[u] = next /\ Alone(u)
  BY GotoAlone DEF LookupAlias, IndexInv
<1>5. /\ next.job = worker[u].job /\ next.step = "switch" /\ next.left = {}
      /\ next.skip = worker[u].skip /\ next.full = worker[u].full /\ next.name = worker[u].name
      /\ next.from = alias /\ next.bad = worker[u].bad
  BY <1>2, <1>3 DEF Local
<1> HIDE DEF next
<1>6. KeepsJob(u) /\ OfReindex(next)
  BY <1>1, <1>3, <1>4, <1>5, SameJob
<1>7. Shape(next)
  BY <1>5, <1>6 DEF Shape, Writing, Building
<1>8. KeepsIndex(u) /\ WritesNothingNew(u)
  BY <1>1, <1>3, <1>4, <1>5, <1>6 DEF KeepsIndex, WritesNothingNew, Named, Holding, Building, Writing
<1>9. ConcernOf(next) = Products /\ ConcernOf(worker[u]) = Products
  BY <1>1, <1>3, <1>5, <1>6 DEF ConcernOf
<1>10. KeepsConcern(u)
  BY <1>4, <1>5, <1>9, ConcernShrinks DEF KeepsConcern, IndexInv, SettledInv
<1>11. GoodAt(u)'
  <2>1. ASSUME NEW p \in Products \ next.bad, ~Elsewhere(u, p)
        PROVE  Good(next, p, index[next.name], products[p], variants, Rank(p))
    <3>1. Good(worker[u], p, index[next.name], products[p], variants, Rank(p))
      BY <1>3, <1>5, <1>9, <2>1 DEF IndexInv, SettledInv, GoodOK, GoodAt, TargetOf
    <3> QED
      BY <1>1, <1>3, <1>5, <1>6, <3>1 DEF Good, ReindexGood, Reading
  <2> QED
    BY <1>1, <1>4, <1>6, <1>9, <2>1, OwnStep DEF TargetOf
<1>12. Carries(u, {})
  BY <1>1, <1>3 DEF Carries, Waits, DueOf
<1> QED
  BY <1>1, <1>4, <1>6, <1>7, <1>8, <1>10, <1>11, <1>12, QuietStepOn

\* A reindex that goes to its last step, whether it has switched or not.
LEMMA ToFinallySettled ==
    ASSUME IndexInv, NEW u \in Workers, UNCHANGED <<catalogue, index, alias, runs, stale>>, jobs' = jobs,
           worker[u].step \in {"lookup", "switch", "drop"}, Goto(u, [worker[u] EXCEPT !.step = "finally"])
    PROVE  SettledInv'
<1> DEFINE next == [worker[u] EXCEPT !.step = "finally"]
<1>1. /\ worker[u] \in Local /\ Shape(worker[u]) /\ worker[u].job \in Job /\ worker[u].job # None
  BY WorkerFacts
<1>2. OfReindex(worker[u])
  BY <1>1 DEF Shape, AtProduct
<1>3. worker'[u] = next /\ Alone(u)
  BY GotoAlone DEF IndexInv
<1>4. next.job = worker[u].job /\ next.step = "finally" /\ next.name = worker[u].name
  BY <1>1 DEF Local
<1> HIDE DEF next
<1>5. KeepsJob(u) /\ OfReindex(next)
  BY <1>2, <1>3, <1>4, SameJob
<1>6. Shape(next)
  BY <1>4, <1>5 DEF Shape, Writing
<1>7. KeepsIndex(u) /\ WritesNothingNew(u)
  BY <1>2, <1>3, <1>4, <1>5 DEF KeepsIndex, WritesNothingNew, Named, Holding, Building, Writing
<1>8. ConcernOf(next) = {}
  BY <1>4, <1>5 DEF ConcernOf
<1>9. KeepsConcern(u) /\ GoodAt(u)'
  BY <1>3, <1>8 DEF KeepsConcern, GoodAt
<1>10. Carries(u, {})
  BY <1>2 DEF Carries, Waits, DueOf
<1> QED
  BY <1>3, <1>5, <1>6, <1>7, <1>9, <1>10, QuietStepOn

LEMMA ReadPageSettled ==
    ASSUME IndexInv, NEW u \in Workers, ReadPage(u)
    PROVE  SettledInv'
<1> DEFINE page == Page(worker[u].skip)
           step == IF page = {} THEN "lookup" ELSE "next"
           full == Cardinality(page) >= ReindexProductsChunkSize
           next == [worker[u] EXCEPT !.step = step, !.left = page,
                                     !.skip = @ + ReindexProductsChunkSize, !.full = full]
<1>1. /\ UNCHANGED <<catalogue, index, alias, runs, stale>> /\ jobs' = jobs
      /\ worker[u].step = "page"
  BY DEF ReadPage, unchangedByReindex, indices
<1>2. /\ worker[u] \in Local /\ Shape(worker[u]) /\ worker[u].job \in Job /\ worker[u].job # None
  BY <1>1, WorkerFacts
<1>3. OfReindex(worker[u]) /\ worker[u].left = {} /\ worker[u].skip \in Nat
  BY <1>1, <1>2 DEF Shape, AtProduct, Local
<1>4. worker'[u] = next /\ Alone(u)
  BY GotoAlone DEF ReadPage, IndexInv
<1> HIDE DEF step, full
<1>5. /\ next.job = worker[u].job /\ next.step = step /\ next.left = page
      /\ next.skip = worker[u].skip + ReindexProductsChunkSize /\ next.full = full
      /\ next.name = worker[u].name /\ next.bad = worker[u].bad
  BY <1>2 DEF Local
<1> HIDE DEF next
<1>6. step \in {"lookup", "next"} /\ (step = "lookup" <=> page = {})
  BY DEF step
<1>7. KeepsJob(u) /\ OfReindex(next)
  BY <1>1, <1>3, <1>4, <1>5, SameJob
<1>8. Shape(next)
  BY <1>5, <1>6, <1>7 DEF Shape, Writing, Building
<1>9. KeepsIndex(u) /\ WritesNothingNew(u)
  BY <1>1, <1>3, <1>4, <1>5, <1>6, <1>7 DEF KeepsIndex, WritesNothingNew, Named, Holding, Building, Writing
<1>10. ConcernOf(next) = Products /\ ConcernOf(worker[u]) = Products
  BY <1>1, <1>3, <1>5, <1>6, <1>7 DEF ConcernOf
<1>11. KeepsConcern(u)
  BY <1>4, <1>5, <1>10, ConcernShrinks DEF KeepsConcern, IndexInv, SettledInv
<1>12. ASSUME NEW p \in Products \ next.bad, ~Elsewhere(u, p)
       PROVE  Good(next, p, index[next.name], products[p], variants, Rank(p))
  <2>1. Good(worker[u], p, index[next.name], products[p], variants, Rank(p))
    BY <1>3, <1>5, <1>10, <1>12 DEF IndexInv, SettledInv, GoodOK, GoodAt, TargetOf
  <2>2. Rank(p) \in Nat /\ ReindexProductsChunkSize \in Nat \ {0}
    BY ProductsAreFinite, IndexingAssumption DEF Rank, IndexingAssumption
  <2>3. p \in page <=> /\ products[p].live /\ Rank(p) >= worker[u].skip
                       /\ Rank(p) < worker[u].skip + ReindexProductsChunkSize
    BY <1>3, <2>2 DEF Page, Rank
  <2>4. ~Reading(worker[u], p) /\ ~Reading(next, p)
    BY <1>1, <1>5, <1>6 DEF Reading
  <2>5. Rank(p) >= next.skip => step = "next" /\ full
    <3>1. Rank(p) >= next.skip => full
      BY <1>3, <1>5, PageIsFull DEF full
    <3>2. Cardinality({}) = 0
      BY FS_EmptySet
    <3>3. full => page # {}
      BY <2>2, <3>2 DEF full
    <3> QED
      BY <1>6, <3>1, <3>3
  <2> HIDE DEF page
  <2>6. IF products[p].live /\ (p \in page \/ Rank(p) >= next.skip)
        THEN AreGone(index[next.name], {p} \cup VariantsOf(p))
        ELSE AreRight(index[next.name], p, products[p], variants)
    BY <1>1, <1>3, <1>5, <2>1, <2>2, <2>3, <2>4 DEF Good, ReindexGood
  <2>7. p \in page => Rank(p) < next.skip
    BY <1>5, <2>3
  <2> QED
    BY <1>5, <1>7, <2>4, <2>5, <2>6, <2>7 DEF Good, ReindexGood
<1>13. GoodAt(u)'
  BY <1>1, <1>4, <1>7, <1>10, <1>12, OwnStep DEF TargetOf
<1>14. Carries(u, {})
  BY <1>1, <1>3 DEF Carries, Waits, DueOf
<1> QED
  BY <1>1, <1>4, <1>7, <1>8, <1>9, <1>11, <1>13, <1>14, QuietStepOn

\* A reindex that does nothing about a product.
LEMMA ReindexGoesOn ==
    ASSUME NEW me, NEW next, OfReindex(me), OfReindex(next), me.step # "create",
           next.skip = me.skip, next.full = me.full, NEW p \in Products,
           ~Reading(me, p), ~Reading(next, p), p \in next.left <=> p \in me.left,
           me.full /\ me.step \in {"next", "variants", "upsert"} =>
               next.step \in {"page", "next", "variants", "upsert"},
           me.step # "page",
           NEW docs, NEW other, SameDocs(p, docs, other), NEW row, NEW vs, NEW rank,
           Good(me, p, docs, row, vs, rank)
    PROVE  Good(next, p, other, row, vs, rank)
<1>1. /\ AreGone(docs, {p} \cup VariantsOf(p)) => AreGone(other, {p} \cup VariantsOf(p))
      /\ AreRight(docs, p, row, vs) => AreRight(other, p, row, vs)
  BY SameGone, SameRight
<1> QED
  BY <1>1 DEF Good, ReindexGood

LEMMA ReadVariantsSettled ==
    ASSUME IndexInv, NEW u \in Workers, NEW set, NEW bad,
           set = VariantsOf(worker[u].id) \/ (set = {} /\ bad = {worker[u].id}),
           ReadVariants(u, set, bad)
    PROVE  SettledInv'
<1> DEFINE me == worker[u]
<1>1. /\ UNCHANGED <<catalogue, index, alias, runs, stale>> /\ jobs' = jobs
      /\ worker[u].step = "variants"
  BY DEF ReadVariants, indices
<1>2. /\ worker[u] \in Local /\ Shape(worker[u]) /\ worker[u].job \in Job /\ worker[u].job # None
      /\ worker[u].id \in Products /\ worker[u].row \in ProductRow
  BY <1>1, WorkerFacts DEF Typed, AtProduct
<1> DEFINE ops == Upserts(me.id, me.row, set)
           more == me.bad \cup bad
<1>3. PICK c : Goto(u, [me EXCEPT !.step = "upsert", !.ctx = c, !.row = None, !.found = {},
                                  !.ops = ops, !.bad = more])
  BY DEF ReadVariants
<1> DEFINE next == [me EXCEPT !.step = "upsert", !.ctx = c, !.row = None, !.found = {},
                              !.ops = ops, !.bad = more]
<1>4. worker'[u] = next /\ Alone(u)
  BY <1>3, GotoAlone DEF IndexInv
<1> HIDE DEF ops, more
<1>5. /\ next.job = me.job /\ next.step = "upsert" /\ next.left = me.left /\ next.id = me.id
      /\ next.ops = ops /\ next.name = me.name /\ next.skip = me.skip /\ next.full = me.full
      /\ next.bad = more
  BY <1>2 DEF Local
<1> HIDE DEF next
<1>6. KeepsJob(u) /\ OfReindex(next) = OfReindex(me)
  BY <1>1, <1>4, <1>5, SameJob
<1>7. set \in SUBSET VariantsOf(me.id)
  OBVIOUS
<1>8. /\ Functional(ops)
      /\ \A op \in ops : /\ op[1] \in DocsOf(me.id)
                         /\ op[1][1] \in Variants => variants[op[1][1]].state = "live"
  BY <1>2, <1>7, UpsertsAre DEF ops
<1>9. Shape(next)
  BY <1>1, <1>2, <1>5, <1>6, <1>8 DEF Shape, Writing, AtProduct, Building, Functional
<1>10. KeepsIndex(u)
  BY <1>1, <1>4, <1>5, <1>6 DEF KeepsIndex, Named, Holding, Building
<1>11. WritesNothingNew(u)
  BY <1>4, <1>5, <1>8 DEF WritesNothingNew
<1>12. ConcernOf(next) = ConcernOf(me) /\ me.bad \subseteq next.bad
  BY <1>1, <1>5, <1>6 DEF ConcernOf, more
<1>13. KeepsConcern(u)
  BY <1>4, <1>12, ConcernShrinks DEF KeepsConcern, IndexInv, SettledInv
<1>14. ASSUME NEW p \in ConcernOf(next) \ next.bad, ~Elsewhere(u, p)
       PROVE  Good(next, p, index[TargetOf(me)], products[p], variants, Rank(p))
  <2> DEFINE docs == index[TargetOf(me)]
  <2>1. Good(me, p, docs, products[p], variants, Rank(p))
    BY <1>12, <1>14 DEF IndexInv, SettledInv, GoodOK, GoodAt
  <2>2. p \in Products
    BY <1>12, <1>14, ConcernIsProducts DEF IndexInv, SettledInv
  <2> HIDE DEF docs
  <2>3. CASE p = me.id
    <3>1. Reading(me, p) /\ Reading(next, p)
      BY <1>1, <1>5, <2>3 DEF Reading
    <3>2. /\ products[p].live /\ me.row = products[p] /\ AreGone(docs, {p} \cup VariantsOf(p))
      BY <1>1, <2>1, <3>1 DEF Good, ReindexGood, JobGood
    <3>3. set = VariantsOf(p)
      BY <1>5, <1>14, <2>3 DEF more
    <3>4. AreRight(Write(docs, ops), p, products[p], variants)
      BY <1>2, <2>3, <3>2, <3>3, UpsertedIsRight DEF ops
    <3>5. CASE OfReindex(me)
      <4>1. ReindexGood(me, p, docs, products[p], variants, Rank(p))
        BY <1>1, <2>1, <3>5 DEF Good
      <4>2. ReindexGood(next, p, docs, products[p], variants, Rank(p))
        BY <1>1, <1>5, <3>1, <3>2, <3>4, <4>1 DEF ReindexGood
      <4> QED
        BY <1>6, <3>5, <4>2 DEF Good, docs
    <3>6. CASE ~OfReindex(me)
      <4>1. JobGood(next, p, docs, products[p], variants)
        BY <1>5, <3>2, <3>4 DEF JobGood
      <4> QED
        BY <1>6, <3>6, <4>1 DEF Good, docs
    <3> QED
      BY <3>5, <3>6
  <2>4. CASE p # me.id
    <3>1. OfReindex(me)
      BY <1>1, <1>12, <1>14, <2>4 DEF ConcernOf
    <3>2. ~Reading(me, p) /\ ~Reading(next, p)
      BY <1>5, <2>4 DEF Reading
    <3> QED
      BY <1>1, <1>5, <1>6, <2>1, <2>2, <3>1, <3>2, ReindexGoesOn DEF SameDocs, docs
  <2> QED
    BY <2>3, <2>4
<1>15. GoodAt(u)'
  <2>1. index'[TargetOf(worker[u])'] = index[TargetOf(me)]
    BY <1>1, <1>4, <1>5, <1>6 DEF TargetOf
  <2> QED
    BY <1>1, <1>4, <1>14, <2>1, OwnStep
<1>16. Carries(u, {})
  BY <1>1, <1>4, <1>5, <1>6 DEF Carries, Waits, DueOf
<1> QED
  BY <1>1, <1>4, <1>6, <1>9, <1>10, <1>11, <1>13, <1>15, <1>16, QuietStepOn

\* What a worker does after a product: a reindex goes on; a job goes on with
\* the products it has left, or ends.
LEMMA AfterProductIs ==
    ASSUME NEW me \in Local, me.job \in Job, NEW next, next = AfterProduct(me)
    PROVE  /\ OfReindex(me) =>
                 /\ next.job = me.job /\ next.left = me.left /\ next.id = 0
                 /\ next.skip = me.skip /\ next.full = me.full /\ next.name = me.name
                 /\ next.bad = me.bad
                 /\ next.step = IF me.left # {} THEN "next" ELSE IF me.full THEN "page" ELSE "lookup"
           /\ ~OfReindex(me) =>
                 \/ /\ next.job = me.job /\ next.left = me.left /\ next.id = 0 /\ next.step = "next"
                 \/ me.left = {} /\ next = Idle
<1>1. me.job # None
  BY NoneAssumption DEF NoneAssumption
<1>2. CASE me.left # {}
  <2>1. next = [me EXCEPT !.step = "next", !.id = 0, !.found = {}, !.ops = {}]
    BY <1>2 DEF AfterProduct
  <2>2. /\ next.job = me.job /\ next.left = me.left /\ next.id = 0 /\ next.step = "next"
        /\ next.skip = me.skip /\ next.full = me.full /\ next.name = me.name /\ next.bad = me.bad
    BY <2>1 DEF Local
  <2> QED
    BY <1>2, <2>2
<1>3. CASE me.left = {} /\ OfReindex(me)
  <2> DEFINE step == IF me.full THEN "page" ELSE "lookup"
  <2>1. next = [me EXCEPT !.step = step, !.id = 0, !.ops = {}]
    BY <1>3 DEF AfterProduct, OfReindex
  <2> HIDE DEF step
  <2>2. /\ next.job = me.job /\ next.left = me.left /\ next.id = 0 /\ next.step = step
        /\ next.skip = me.skip /\ next.full = me.full /\ next.name = me.name /\ next.bad = me.bad
    BY <2>1 DEF Local
  <2> QED
    BY <1>3, <2>2 DEF step
<1>4. CASE me.left = {} /\ ~OfReindex(me)
  BY <1>1, <1>4 DEF AfterProduct, OfReindex
<1> QED
  BY <1>2, <1>3, <1>4

\* The product that a worker is done with, if nobody else has to settle it.
Settled(u, me) == IF OfReindex(me) THEN {} ELSE {me.id}

\* The end of a product, as far as jobs go; me is the worker before it goes on.
LEMMA EndProductSteps ==
    ASSUME IndexInv, NEW u \in Workers, NEW me \in Local, EndProduct(u, me), jobs' = jobs,
           me.job = worker[u].job, me.name = worker[u].name, me.left \subseteq worker[u].left,
           worker[u].bad \subseteq me.bad, me.id \in Products,
           worker[u].step \in {"next"} \cup AtProduct,
           ~OfReindex(me) => /\ worker[u].step \in AtProduct
                             /\ me.id = worker[u].id /\ worker[u].left \subseteq me.left \cup {me.id}
    PROVE  /\ Alone(u) /\ worker'[u] = AfterProduct(me)
           /\ KeepsJob(u) /\ Shape(worker'[u]) /\ KeepsIndex(u) /\ KeepsConcern(u)
           /\ WritesNothingNew(u) /\ Carries(u, Settled(u, me))
           /\ \A w \in Others(u) : Settled(u, me) \cap ConcernOf(worker[w]) \subseteq worker'[w].bad
           /\ stale \subseteq stale' \cup Settled(u, me)
           /\ OfReindex(me) => stale' = stale
           /\ \A p \in Settled(u, me) : p \notin stale' => p \notin me.bad
           /\ ConcernOf(worker'[u]) = IF OfReindex(me) THEN Products ELSE {}
<1> DEFINE next == AfterProduct(me)
<1>1. worker'[u] = next /\ worker'[u] = AfterProduct(me) /\ Alone(u)
  BY GotoAlone DEF EndProduct, IndexInv
<1>2. worker[u].step \notin {"idle", "create", "drop", "finally", "page", "lookup", "switch"}
  BY DEF AtProduct
<1>3. /\ Shape(worker[u]) /\ worker[u].job \in Job /\ worker[u].job # None /\ worker[u] \in Local
  BY <1>2, WorkerFacts
<1>4. Reindexing(u) = OfReindex(me) /\ OfReindex(worker[u]) = OfReindex(me)
  BY ConcernSame DEF OfReindex
<1>5. /\ stale \subseteq stale' \cup Settled(u, me)
      /\ OfReindex(me) => stale' = stale
      /\ \A p \in Settled(u, me) : p \notin stale' => p \notin me.bad
  BY <1>4 DEF EndProduct, Settled
<1>6. PICK n : n = next
  OBVIOUS
<1>7. /\ OfReindex(me) =>
            /\ n.job = me.job /\ n.left = me.left /\ n.id = 0
            /\ n.skip = me.skip /\ n.full = me.full /\ n.name = me.name /\ n.bad = me.bad
            /\ n.step = IF me.left # {} THEN "next" ELSE IF me.full THEN "page" ELSE "lookup"
      /\ ~OfReindex(me) =>
            \/ /\ n.job = me.job /\ n.left = me.left /\ n.id = 0 /\ n.step = "next"
            \/ me.left = {} /\ n = Idle
  BY <1>3, <1>6, AfterProductIs
<1> HIDE DEF next
<1>8. CASE OfReindex(me)
  <2>1. n.step \in {"next", "page", "lookup"} /\ OfReindex(n)
    BY <1>7, <1>8 DEF OfReindex
  <2>2. KeepsJob(u)
    BY <1>1, <1>2, <1>6, <1>7, <1>8 DEF KeepsJob
  <2>3. Shape(n)
    BY <1>7, <1>8, <2>1 DEF Shape, Writing, Building
  <2>4. KeepsIndex(u) /\ WritesNothingNew(u)
    BY <1>1, <1>2, <1>3, <1>4, <1>6, <1>7, <1>8, <2>1
       DEF Shape, KeepsIndex, WritesNothingNew, Named, Holding, Building, Writing, AtProduct
  <2>5. ConcernOf(n) = Products /\ ConcernOf(worker[u]) = Products
    BY <1>2, <1>4, <1>8, <2>1 DEF ConcernOf
  <2>6. KeepsConcern(u)
    BY <1>1, <1>6, <1>7, <1>8, <2>5, ConcernShrinks DEF KeepsConcern, IndexInv, SettledInv
  <2>7. Carries(u, Settled(u, me))
    BY <1>4, <1>8 DEF Carries, Waits, DueOf
  <2>8. \A w \in Others(u) : Settled(u, me) \cap ConcernOf(worker[w]) \subseteq worker'[w].bad
    BY <1>8 DEF Settled
  <2> QED
    BY <1>1, <1>5, <1>6, <1>8, <2>2, <2>3, <2>4, <2>5, <2>6, <2>7, <2>8
<1>9. CASE ~OfReindex(me)
  <2>1. ConcernOf(worker[u]) = {me.id} /\ DueOf(worker[u]) \subseteq me.left \cup {me.id}
    BY <1>2, <1>4, <1>9 DEF ConcernOf, DueOf, AtProduct
  <2>2. Settled(u, me) = {me.id}
    BY <1>9 DEF Settled
  <2>3. \A w \in Others(u) : Settled(u, me) \cap ConcernOf(worker[w]) \subseteq worker'[w].bad
    BY <1>1, <2>1, <2>2 DEF Alone, Beside, IndexInv, SettledInv, OverlapOK, Others
  <2>4. CASE n = Idle
    <3>1. me.left = {}
      BY <1>3, <1>7, <1>9, <2>4 DEF Idle
    <3>2. Carries(u, Settled(u, me))
      BY <2>1, <2>2, <3>1 DEF Carries, Waits
    <3>3. KeepsJob(u)
      BY <1>1, <1>6, <2>4 DEF KeepsJob, Idle
    <3> QED
      BY <1>1, <1>5, <1>6, <1>9, <2>3, <2>4, <3>2, <3>3, Idles
  <2>5. CASE n.job = me.job /\ n.left = me.left /\ n.id = 0 /\ n.step = "next"
    <3>1. ~OfReindex(n) /\ 0 \notin Products
      BY <1>9, <2>5, IndexingAssumption DEF OfReindex, Products, IndexingAssumption
    <3>2. KeepsJob(u)
      BY <1>1, <1>2, <1>6, <2>5 DEF KeepsJob
    <3>3. Shape(n)
      BY <1>2, <1>3, <1>4, <1>9, <2>5, <3>1 DEF Shape, Writing
    <3>4. KeepsIndex(u) /\ WritesNothingNew(u)
      BY <1>1, <1>6, <2>5, <3>1 DEF KeepsIndex, WritesNothingNew, Named, Holding, Writing
    <3>5. ConcernOf(n) = {} /\ DueOf(n) = me.left
      BY <1>9, <2>5, <3>1 DEF ConcernOf, DueOf, Local
    <3>6. KeepsConcern(u)
      BY <1>1, <1>6, <3>5 DEF KeepsConcern
    <3>7. Carries(u, Settled(u, me))
      BY <1>1, <1>6, <2>1, <2>2, <3>5 DEF Carries, Waits
    <3> QED
      BY <1>1, <1>5, <1>6, <1>9, <2>3, <3>2, <3>3, <3>4, <3>5, <3>6, <3>7
  <2> QED
    BY <1>7, <1>9, <2>4, <2>5
<1> QED
  BY <1>8, <1>9

\* A worker that read that its product was deleted ends it, one that found it
\* goes on with its row.
LEMMA ReadDeletedSettled ==
    ASSUME IndexInv, NEW u \in Workers, NEW p \in Products, ReadProduct(u, p), ~products[p].live
    PROVE  SettledInv'
<1> DEFINE left == worker[u].left \ {p}
           me == [worker[u] EXCEPT !.id = p, !.left = left]
<1>1. UNCHANGED <<catalogue, index, alias, runs>> /\ jobs' = jobs
  BY DEF ReadProduct, unchangedByJob
<1>2. \/ worker[u].step = "product" /\ p = worker[u].id
      \/ worker[u].step = "next" /\ p \in worker[u].left /\ OfReindex(worker[u])
  BY ConcernSame DEF ReadProduct
<1>3. worker[u] \in Local /\ Shape(worker[u]) /\ worker[u].job \in Job /\ worker[u].job # None
  BY <1>2, WorkerFacts
<1>4. EndProduct(u, me)
  BY DEF ReadProduct
<1>5. left \in SUBSET Products
  BY <1>3 DEF Local
<1> HIDE DEF left
<1>6. /\ me \in Local /\ me.job = worker[u].job /\ me.name = worker[u].name /\ me.left = left
      /\ me.bad = worker[u].bad /\ me.id = p /\ me.skip = worker[u].skip /\ me.full = worker[u].full
  BY <1>3, <1>5 DEF Local
<1> HIDE DEF me
<1>7. OfReindex(me) = OfReindex(worker[u])
  BY <1>6 DEF OfReindex
<1>8. /\ left \subseteq worker[u].left /\ worker[u].left \subseteq left \cup {p}
      /\ \A q \in Products \ {p} : q \in left <=> q \in worker[u].left
  BY DEF left
<1>9. /\ Alone(u) /\ worker'[u] = AfterProduct(me)
      /\ KeepsJob(u) /\ Shape(worker'[u]) /\ KeepsIndex(u) /\ KeepsConcern(u)
      /\ WritesNothingNew(u) /\ Carries(u, Settled(u, me))
      /\ \A w \in Others(u) : Settled(u, me) \cap ConcernOf(worker[w]) \subseteq worker'[w].bad
      /\ stale \subseteq stale' \cup Settled(u, me)
      /\ \A q \in Settled(u, me) : q \notin stale' => q \notin me.bad
      /\ ConcernOf(worker'[u]) = IF OfReindex(me) THEN Products ELSE {}
  <2>1. ~OfReindex(me) => worker[u].step \in AtProduct /\ me.id = worker[u].id
    BY <1>2, <1>6, <1>7 DEF AtProduct
  <2>2. worker[u].step \in {"next"} \cup AtProduct
    BY <1>2 DEF AtProduct
  <2> QED
    BY <1>1, <1>4, <1>6, <1>8, <2>1, <2>2, EndProductSteps
<1>10. GoodAt(u)'
  <2>1. CASE OfReindex(me)
    <3> DEFINE next == worker'[u]
    <3>1. /\ next.job = me.job /\ next.left = left /\ next.id = 0
          /\ next.skip = me.skip /\ next.full = me.full /\ next.name = me.name /\ next.bad = me.bad
          /\ next.step = IF left # {} THEN "next" ELSE IF me.full THEN "page" ELSE "lookup"
      BY <1>3, <1>6, <1>9, <2>1, AfterProductIs
    <3>2. OfReindex(next) /\ OfReindex(worker[u]) /\ worker[u].step = "next"
      BY <1>2, <1>3, <1>6, <1>7, <2>1, <3>1 DEF OfReindex, Shape, Building
    <3>3. ConcernOf(worker[u]) = Products
      BY <3>2 DEF ConcernOf
    <3> HIDE DEF next
    <3>4. ASSUME NEW q \in Products \ next.bad, ~Elsewhere(u, q)
          PROVE  Good(next, q, index[next.name], products[q], variants, Rank(q))
      <4>1. Good(worker[u], q, index[next.name], products[q], variants, Rank(q))
        BY <1>6, <3>1, <3>2, <3>3, <3>4 DEF IndexInv, SettledInv, GoodOK, GoodAt, TargetOf
      <4>2. ~Reading(worker[u], q) /\ ~Reading(next, q)
        BY <3>1, <3>2 DEF Reading
      <4>3. CASE q = p
        BY <3>1, <3>2, <4>1, <4>2, <4>3 DEF Good, ReindexGood
      <4>4. CASE q # p
        <5>1. q \in next.left <=> q \in worker[u].left
          BY <1>8, <3>1, <4>4
        <5>2. SameDocs(q, index[next.name], index[next.name])
          BY DEF SameDocs
        <5>3. worker[u].full => next.step \in {"page", "next"}
          BY <1>6, <3>1
        <5> QED
          BY <1>6, <3>1, <3>2, <4>1, <4>2, <5>1, <5>2, <5>3, ReindexGoesOn
      <4> QED
        BY <4>3, <4>4
    <3> QED
      BY <1>1, <1>9, <2>1, <3>2, <3>4, OwnStep DEF TargetOf, next
  <2>2. CASE ~OfReindex(me)
    BY <1>9, <2>2 DEF GoodAt
  <2> QED
    BY <2>1, <2>2
<1>11. ASSUME NEW q \in Settled(u, me), q \notin stale', ~Due(q)'
       PROVE  AreRight(index[alias], q, products[q], variants)
  <2>1. ~OfReindex(me) /\ q = p
    BY <1>6, <1>11 DEF Settled
  <2>2. worker[u].step = "product" /\ worker[u].id = p
    BY <1>2, <1>7, <2>1
  <2>3. p \in ConcernOf(worker[u]) \ worker[u].bad /\ TargetOf(worker[u]) = alias
    BY <1>6, <1>7, <1>9, <1>11, <2>1, <2>2 DEF ConcernOf, TargetOf
  <2>4. ~Elsewhere(u, p)'
    BY <1>11, <2>1 DEF Due, Elsewhere
  <2>5. ~Elsewhere(u, p)
    BY <1>1, <1>9, <2>4, ElsewhereStays
  <2>6. AreGone(index[alias], {p} \cup VariantsOf(p))
    BY <1>7, <2>1, <2>2, <2>3, <2>5
       DEF IndexInv, SettledInv, GoodOK, GoodAt, Good, JobGood
  <2> QED
    BY <2>1, <2>6, NothingOfDeleted
<1>12. Settled(u, me) \in SUBSET Products
  BY <1>6 DEF Settled
<1> QED
  BY <1>1, <1>9, <1>10, <1>11, <1>12, QuietStep

LEMMA ReadLiveSettled ==
    ASSUME IndexInv, NEW u \in Workers, NEW p \in Products, ReadProduct(u, p), products[p].live
    PROVE  SettledInv'
<1> DEFINE left == worker[u].left \ {p}
           row == products[p]
           me == [worker[u] EXCEPT !.id = p, !.left = left]
           next == [me EXCEPT !.step = "variants", !.row = row]
<1>1. UNCHANGED <<catalogue, index, alias, runs, stale>> /\ jobs' = jobs
  BY DEF ReadProduct, unchangedByJob
<1>2. \/ worker[u].step = "product" /\ p = worker[u].id
      \/ worker[u].step = "next" /\ p \in worker[u].left /\ OfReindex(worker[u])
  BY ConcernSame DEF ReadProduct
<1>3. worker[u] \in Local /\ Shape(worker[u]) /\ worker[u].job \in Job /\ worker[u].job # None
  BY <1>2, WorkerFacts
<1>4. worker'[u] = next /\ Alone(u)
  BY GotoAlone DEF ReadProduct, IndexInv
<1>5. left \in SUBSET Products /\ row \in ProductRow
  BY <1>3 DEF Local, IndexInv, TypeInv, CatalogueTyped
<1>6. left \subseteq worker[u].left /\ p \notin left
  OBVIOUS
<1>7. worker[u].left \subseteq left \cup {p} /\ \A q \in Products \ {p} : q \in left <=> q \in worker[u].left
  OBVIOUS
<1> HIDE DEF left, row
<1>8. me \in Local
  BY <1>3, <1>5 DEF Local
<1>9. /\ me.job = worker[u].job /\ me.name = worker[u].name /\ me.left = left
      /\ me.bad = worker[u].bad /\ me.id = p /\ me.skip = worker[u].skip /\ me.full = worker[u].full
  BY <1>3, <1>5 DEF Local
<1> HIDE DEF me
<1>10. /\ next.job = worker[u].job /\ next.name = worker[u].name /\ next.left = left
       /\ next.bad = worker[u].bad /\ next.id = p /\ next.skip = worker[u].skip
       /\ next.full = worker[u].full /\ next.step = "variants" /\ next.row = row
  BY <1>8, <1>9 DEF Local
<1> HIDE DEF next
<1>11. KeepsJob(u) /\ OfReindex(next) = OfReindex(worker[u])
  BY <1>1, <1>2, <1>4, <1>10, SameJob
<1>12. Shape(next)
  BY <1>2, <1>3, <1>6, <1>10, <1>11 DEF Shape, Writing, AtProduct, Building
<1>13. KeepsIndex(u) /\ WritesNothingNew(u)
  BY <1>2, <1>3, <1>4, <1>10, <1>11
     DEF Shape, KeepsIndex, WritesNothingNew, Named, Holding, Building, Writing
<1>14. ConcernOf(next) = ConcernOf(worker[u])
  BY <1>2, <1>10, <1>11 DEF ConcernOf
<1>15. KeepsConcern(u)
  BY <1>4, <1>10, <1>14, ConcernShrinks DEF KeepsConcern, IndexInv, SettledInv
<1>16. Carries(u, {})
  <2>1. DueOf(worker[u]) \subseteq DueOf(next)
    BY <1>2, <1>3, <1>7, <1>10, <1>11 DEF DueOf
  <2> QED
    BY <1>1, <1>4, <2>1 DEF Carries, Waits
<1>17. ASSUME NEW q \in ConcernOf(next) \ next.bad, ~Elsewhere(u, q)
       PROVE  Good(next, q, index[TargetOf(worker[u])], products[q], variants, Rank(q))
  <2> DEFINE docs == index[TargetOf(worker[u])]
  <2>1. Good(worker[u], q, docs, products[q], variants, Rank(q))
    BY <1>10, <1>14, <1>17 DEF IndexInv, SettledInv, GoodOK, GoodAt
  <2>2. q \in Products
    BY <1>14, <1>17, ConcernIsProducts DEF IndexInv, SettledInv
  <2> HIDE DEF docs
  <2>3. CASE ~OfReindex(worker[u])
    <3>1. q = p /\ worker[u].step = "product"
      BY <1>2, <1>14, <1>17, <2>3 DEF ConcernOf
    <3>2. AreGone(docs, {p} \cup VariantsOf(p))
      BY <2>1, <2>3, <3>1 DEF Good, JobGood
    <3>3. JobGood(next, p, docs, products[p], variants)
      BY <1>10, <3>2 DEF JobGood, row
    <3> QED
      BY <1>11, <2>3, <3>1, <3>3 DEF Good, docs
  <2>4. CASE OfReindex(worker[u])
    <3>1. worker[u].step = "next" /\ p \in worker[u].left
      BY <1>2, <1>3, <2>4 DEF Shape, Building
    <3>2. CASE q = p
      <4>1. ReindexGood(worker[u], p, docs, products[p], variants, Rank(p))
        BY <2>1, <2>4, <3>1, <3>2 DEF Good
      <4>2. ~Reading(worker[u], p) /\ Reading(next, p)
        BY <1>10, <3>1 DEF Reading
      <4>3. ReindexGood(next, p, docs, products[p], variants, Rank(p))
        BY <1>6, <1>10, <3>1, <4>1, <4>2 DEF ReindexGood, row
      <4> QED
        BY <1>11, <2>4, <3>2, <4>3 DEF Good, docs
    <3>3. CASE q # p
      <4>1. ~Reading(worker[u], q) /\ ~Reading(next, q)
        BY <1>10, <3>1, <3>3 DEF Reading
      <4>2. q \in next.left <=> q \in worker[u].left
        BY <1>7, <1>10, <2>2, <3>3
      <4>3. SameDocs(q, docs, docs)
        BY DEF SameDocs
      <4>4. Good(next, q, docs, products[q], variants, Rank(q))
        BY <1>10, <1>11, <2>1, <2>2, <2>4, <3>1, <4>1, <4>2, <4>3, ReindexGoesOn
      <4> QED
        BY <4>4 DEF docs
    <3> QED
      BY <3>2, <3>3
  <2> QED
    BY <2>3, <2>4
<1>18. GoodAt(u)'
  <2>1. index'[TargetOf(worker[u])'] = index[TargetOf(worker[u])]
    BY <1>1, <1>4, <1>10, <1>11 DEF TargetOf
  <2> QED
    BY <1>1, <1>4, <1>17, <2>1, OwnStep
<1> QED
  BY <1>1, <1>4, <1>11, <1>12, <1>13, <1>15, <1>16, <1>18, QuietStepOn

LEMMA JobFailsSettled ==
    ASSUME IndexInv, NEW u \in Workers, JobFails(u)
    PROVE  SettledInv'
<1> DEFINE lost == worker[u].left \cup ({worker[u].id} \cap Products)
<1>1. UNCHANGED <<catalogue, index, alias, runs>> /\ jobs' = jobs /\ worker[u].step # "idle"
  BY DEF JobFails, indices
<1>2. worker[u] \in Local
  BY WorkerFacts
<1>3. lost \in SUBSET Products
  BY <1>2 DEF Local
<1>4. CASE OfReindex(worker[u])
  <2>1. worker'[u] = Idle /\ Alone(u) /\ UNCHANGED stale
    BY <1>4, GotoAlone, ConcernSame DEF JobFails, IndexInv
  <2>2. Carries(u, {})
    BY <1>1, <1>4 DEF Carries, Waits, DueOf
  <2>3. KeepsJob(u)
    BY <1>1, <2>1 DEF KeepsJob, Idle
  <2> QED
    BY <1>1, <2>1, <2>2, <2>3, Idles, QuietStepOn
<1>5. CASE ~OfReindex(worker[u])
  <2>1. /\ worker' = [v \in Workers |->
              IF v = u THEN Idle ELSE [worker[v] EXCEPT !.bad = @ \cup (lost \cap Concern(v))]]
        /\ stale' = stale \cup lost
    BY <1>5, ConcernSame DEF JobFails
  <2>2. DueOf(worker[u]) = lost
    BY <1>5 DEF DueOf
  <2> HIDE DEF lost
  <2>3. worker'[u] = Idle
    BY <2>1
  <2>4. ASSUME NEW w \in Others(u)
        PROVE  Beside(worker[w], worker'[w]) /\ lost \cap ConcernOf(worker[w]) \subseteq worker'[w].bad
    <3> DEFINE more == lost \cap Concern(w)
    <3>1. worker'[w] = [worker[w] EXCEPT !.bad = @ \cup more]
      BY <2>1 DEF Others
    <3>2. Typed(worker[w]) /\ w \in Workers
      BY DEF Others, IndexInv, TypeInv, WorkersTyped
    <3> HIDE DEF more
    <3>3. Beside(worker[w], worker'[w]) /\ worker'[w].bad = worker[w].bad \cup more
      BY <3>1, <3>2, BesideBad
    <3> QED
      BY <3>2, <3>3, ConcernSame DEF more
  <2>5. Alone(u)
    BY <2>4 DEF Alone
  <2>6. KeepsJob(u)
    BY <1>1, <2>3 DEF KeepsJob, Idle
  <2>7. Carries(u, lost)
    BY <1>1, <2>2 DEF Carries, Waits
  <2> QED
    BY <1>1, <1>3, <2>1, <2>3, <2>4, <2>5, <2>6, <2>7, Idles, QuietStep
<1> QED
  BY <1>4, <1>5

-----------------------------------------------------------------------------
(* The steps of a worker that change the indices.                           *)

LEMMA WorkerStep ==
    ASSUME IndexInv, NEW u \in Workers, Alone(u), UNCHANGED catalogue,
           KeepsJob(u), Shape(worker'[u]), NamesOK', KeepsConcern(u), NewOK', GoodAt(u)',
           Spares(u), NEW lost, Carries(u, lost),
           \A w \in Others(u) : lost \cap ConcernOf(worker[w]) \subseteq worker'[w].bad,
           MainOK'
    PROVE  SettledInv'
<1> USE DEF IndexInv, SettledInv
<1>1. JobsOK'
  BY JobsStep DEF KeepsJob, catalogue
<1>2. ShapesOK'
  BY ShapesStep
<1>3. OverlapOK'
  BY OverlapStep DEF KeepsConcern
<1>4. GoodOK'
  <2>1. \A w \in Others(u) : GoodAt(w)'
    BY OthersStep
  <2> QED
    BY <2>1 DEF GoodOK, Others
<1> QED
  BY <1>1, <1>2, <1>3, <1>4

\* The index to which a worker can write that is not under the alias is one
\* that it builds.
LEMMA TargetIs ==
    ASSUME IndexInv, NEW w \in Workers, ConcernOf(worker[w]) # {}, worker[w].step # "create",
           OfReindex(worker[w])
    PROVE  Named(worker[w]) /\ worker[w].step \in Building /\ TargetOf(worker[w]) = worker[w].name
<1>1. Shape(worker[w])
  BY WorkerFacts
<1>2. worker[w].step \notin {"drop", "finally"} /\ worker[w].step # "idle"
  BY <1>1 DEF ConcernOf, Shape, OfReindex
<1> QED
  BY <1>1, <1>2 DEF Shape, Named, TargetOf

\* A step that changes one index at most, which nobody else builds and which
\* is not under the alias.
LEMMA OtherIndex ==
    ASSUME IndexInv, NEW u \in Workers, Alone(u), UNCHANGED alias, NEW x,
           x # alias, \A y \in Names \ {x} : index'[y] = index[y],
           \A w \in Others(u) : Named(worker[w]) /\ worker[w].step \in Building => worker[w].name # x
    PROVE  Spares(u)
<1> SUFFICES ASSUME NEW w \in Others(u), NEW p \in ConcernOf(worker[w]), worker[w].step # "create"
             PROVE  SameDocs(p, index[TargetOf(worker[w])], index'[TargetOf(worker[w])'])
  BY DEF Spares
<1>1. TargetOf(worker[w])' = TargetOf(worker[w])
  BY AloneSame DEF TargetOf, Alone, Beside
<1>2. w \in Workers /\ worker[w] \in Local
  BY WorkerFacts DEF Others
<1>3. TargetOf(worker[w]) \in Names \ {x}
  <2>1. CASE OfReindex(worker[w])
    <3>1. Named(worker[w]) /\ worker[w].step \in Building /\ TargetOf(worker[w]) = worker[w].name
      BY <1>2, <2>1, TargetIs
    <3>2. worker[w].name \in Names
      BY <1>2 DEF Local
    <3> QED
      BY <3>1, <3>2
  <2>2. CASE ~OfReindex(worker[w])
    BY <2>2 DEF TargetOf, IndexInv, TypeInv, IndicesTyped
  <2> QED
    BY <2>1, <2>2
<1> QED
  BY <1>1, <1>3 DEF SameDocs

LEMMA EmptyIsGone ==
    ASSUME NEW entities \in SUBSET Entities
    PROVE  AreGone(Empty, entities)
BY DEF AreGone, Empty, DocIds

\* An index is emptied that is not under the alias and that nobody builds.
LEMMA IndexIsDropped ==
    ASSUME IndexInv, NEW u \in Workers, Alone(u), UNCHANGED <<catalogue, alias, runs, stale>>, jobs' = jobs,
           NEW x \in Names, index' = index \/ index' = [index EXCEPT ![x] = Empty], x # alias,
           \A w \in Others(u) : Named(worker[w]) /\ worker[w].step \in Building => worker[w].name # x,
           KeepsJob(u), Shape(worker'[u]), KeepsIndex(u), ConcernOf(worker'[u]) = {},
           WritesNothingNew(u), Carries(u, {})
    PROVE  SettledInv'
<1> USE DEF IndexInv, SettledInv
<1>1. index \in [Names -> Docs] /\ alias \in Names
  BY DEF TypeInv, IndicesTyped
<1>2. \A y \in Names : index'[y] = index[y] \/ index'[y] = Empty
  BY <1>1
<1>3. \A y \in Names \ {x} : index'[y] = index[y]
  BY <1>1
<1>4. Spares(u)
  BY <1>3, OtherIndex
<1>5. NamesOK'
  <2>1. \A y \in Names : y > runs => index'[y] = Empty
    BY <1>2 DEF NamesOK
  <2> QED
    BY <2>1, NamesStep DEF KeepsIndex
<1>6. NewOK'
  <2>1. ASSUME NEW v \in Variants, variants[v].state = "new", NEW y \in Names
        PROVE  AreGone(index'[y], {v})
    <3>1. AreGone(index[y], {v})
      BY <2>1 DEF NewOK
    <3>2. AreGone(Empty, {v})
      BY EmptyIsGone DEF Entities
    <3> QED
      BY <1>2, <3>1, <3>2
  <2> QED
    BY <2>1, NewStep DEF WritesNothingNew, catalogue
<1>7. KeepsConcern(u) /\ GoodAt(u)'
  BY DEF KeepsConcern, GoodAt
<1>8. MainOK'
  <2>1. index'[alias'] = index[alias]
    BY <1>1, <1>3
  <2> QED
    BY <2>1, MainStep DEF SameDocs
<1> QED
  BY <1>4, <1>5, <1>6, <1>7, <1>8, WorkerStep

LEMMA DropOldIndexSettled ==
    ASSUME IndexInv, NEW u \in Workers, DropOldIndex(u)
    PROVE  SettledInv'
<1> DEFINE next == [worker[u] EXCEPT !.step = "finally"]
<1>1. /\ UNCHANGED <<catalogue, alias, runs, stale>> /\ jobs' = jobs /\ worker[u].step = "drop"
      /\ index' = [index EXCEPT ![worker[u].from] = Empty]
  BY DEF DropOldIndex, unchangedByReindex, IndexToDrop
<1>2. /\ worker[u] \in Local /\ Shape(worker[u]) /\ worker[u].job \in Job /\ worker[u].job # None
  BY <1>1, WorkerFacts
<1>3. OfReindex(worker[u]) /\ worker[u].from \in Names
  BY <1>1, <1>2 DEF Shape, AtProduct, Local
<1>4. worker[u].from # alias
  BY <1>1 DEF IndexInv, AliasInv, WorkersOK, WorkerOK
<1>5. \A w \in Others(u) : Named(worker[w]) /\ worker[w].step \in Building => worker[w].name # worker[u].from
  BY <1>1 DEF IndexInv, SettledInv, NamesOK, Others, Holding
<1>6. worker'[u] = next /\ Alone(u)
  BY GotoAlone DEF IndexInv, DropOldIndex
<1>7. next.job = worker[u].job /\ next.step = "finally" /\ next.name = worker[u].name
  BY <1>2 DEF Local
<1> HIDE DEF next
<1>8. KeepsJob(u) /\ OfReindex(next)
  BY <1>1, <1>3, <1>6, <1>7, SameJob
<1>9. Shape(next) /\ ConcernOf(next) = {}
  BY <1>7, <1>8 DEF Shape, Writing, ConcernOf
<1>10. KeepsIndex(u) /\ WritesNothingNew(u)
  BY <1>1, <1>3, <1>6, <1>7, <1>8 DEF KeepsIndex, WritesNothingNew, Named, Holding, Building, Writing
<1>11. Carries(u, {})
  BY <1>1, <1>3 DEF Carries, Waits, DueOf
<1> QED
  BY <1>1, <1>3, <1>4, <1>5, <1>6, <1>8, <1>9, <1>10, <1>11, IndexIsDropped

LEMMA FinallySettled ==
    ASSUME IndexInv, NEW u \in Workers, Finally(u)
    PROVE  SettledInv'
<1> DEFINE name == worker[u].name
<1>1. /\ UNCHANGED <<catalogue, alias, runs, stale>> /\ jobs' = jobs /\ worker[u].step = "finally"
      /\ index' = IF name \in tempAliases THEN [index EXCEPT ![name] = Empty] ELSE index
  BY DEF Finally, unchangedByReindex, Superseded
<1>2. /\ worker[u] \in Local /\ Shape(worker[u]) /\ worker[u].job \in Job /\ worker[u].job # None
  BY <1>1, WorkerFacts
<1>3. OfReindex(worker[u]) /\ name \in Names /\ Named(worker[u])
  BY <1>1, <1>2 DEF Shape, AtProduct, Local, Named
<1>4. worker'[u] = Idle /\ Alone(u)
  BY GotoAlone DEF IndexInv, Finally
<1>5. KeepsJob(u)
  BY <1>1, <1>4 DEF KeepsJob, Idle
<1>6. Carries(u, {})
  BY <1>1, <1>3 DEF Carries, Waits, DueOf
<1>7. CASE name \in tempAliases
  <2>1. name # alias
    BY <1>7 DEF IndexInv, AliasInv, AliasOK
  <2>2. \A w \in Others(u) : Named(worker[w]) /\ worker[w].step \in Building => worker[w].name # name
    BY <1>3 DEF IndexInv, SettledInv, NamesOK, Others
  <2> QED
    BY <1>1, <1>3, <1>4, <1>5, <1>6, <1>7, <2>1, <2>2, Idles, IndexIsDropped
<1>8. CASE name \notin tempAliases
  <2>1. UNCHANGED index
    BY <1>1, <1>8
  <2> QED
    BY <1>1, <1>4, <1>5, <1>6, <2>1, Idles, QuietStepOn
<1> QED
  BY <1>7, <1>8

\* The alias goes to an index that is right for every product the reindex can
\* vouch for; nobody else can vouch for a product under the alias.
LEMMA SwitchToSettled ==
    ASSUME IndexInv, NEW u \in Workers, NEW step \in {"drop", "finally"}, worker[u].step = "switch",
           SwitchTo(u, step), UNCHANGED <<catalogue, index, runs>>, jobs' = jobs
    PROVE  SettledInv'
<1> DEFINE name == worker[u].name
           next == [worker[u] EXCEPT !.step = step]
<1>1. alias' = name /\ stale' = worker[u].bad
  BY DEF SwitchTo
<1>2. /\ worker[u] \in Local /\ Shape(worker[u]) /\ worker[u].job \in Job /\ worker[u].job # None
  BY WorkerFacts
<1>3. /\ OfReindex(worker[u]) /\ name \in Names /\ Named(worker[u]) /\ worker[u].left = {}
  BY <1>2 DEF Shape, AtProduct, Local, Named
<1>4. worker'[u] = next /\ Alone(u)
  BY GotoAlone DEF IndexInv, SwitchTo
<1>5. /\ next.job = worker[u].job /\ next.step = step /\ next.name = name /\ next.from = worker[u].from
      /\ next.bad = worker[u].bad
  BY <1>2 DEF Local
<1> HIDE DEF next
<1>6. KeepsJob(u) /\ OfReindex(next)
  BY <1>3, <1>4, <1>5, SameJob
<1>7. Shape(next) /\ ConcernOf(next) = {}
  BY <1>5, <1>6 DEF Shape, Writing, ConcernOf
<1>8. KeepsConcern(u) /\ GoodAt(u)'
  BY <1>4, <1>7 DEF KeepsConcern, GoodAt
<1>9. ConcernOf(worker[u]) = Products
  BY <1>3 DEF ConcernOf
<1>10. Carries(u, {})
  BY <1>3 DEF Carries, Waits, DueOf
<1>11. NamesOK'
  <2> USE DEF IndexInv, SettledInv
  <2>1. \A w \in Others(u) : /\ Named(worker'[w]) = Named(worker[w])
                             /\ worker'[w].name = worker[w].name /\ worker'[w].step = worker[w].step
                             /\ worker'[w].from = worker[w].from
    BY <1>4, AloneSame DEF Alone, Beside
  <2>2. next.step \notin Building /\ (next.step \in Holding => worker[u].step \in Holding)
    BY <1>5 DEF Building, Holding
  <2>3. Named(next)
    BY <1>5, <1>6 DEF Named
  <2>4. \A x \in Names : x > runs => index'[x] = Empty
    BY DEF NamesOK
  <2>5. ASSUME NEW w \in Workers, Named(worker'[w])
        PROVE  /\ worker'[w].name \in 1 .. runs
               /\ \A v \in Workers \ {w} : Named(worker'[v]) => worker'[v].name # worker'[w].name
    BY <1>3, <1>4, <1>5, <2>1, <2>5 DEF NamesOK, Others
  <2>6. ASSUME NEW w \in Workers, Named(worker'[w]), worker'[w].step \in Building
        PROVE  /\ worker'[w].name # alias'
               /\ \A v \in Workers : worker'[v].step \in Holding => worker'[v].from # worker'[w].name
    <3>1. w \in Others(u)
      BY <1>4, <2>2, <2>6 DEF Others
    <3>2. worker[w].name # name
      BY <1>3, <2>1, <2>6, <3>1 DEF NamesOK, Others
    <3>3. \A v \in Workers : worker'[v].step \in Holding =>
              worker[v].step \in Holding /\ worker'[v].from = worker[v].from
      BY <1>4, <1>5, <2>1, <2>2 DEF Others, Holding
    <3> QED
      BY <1>1, <2>1, <2>6, <3>1, <3>2, <3>3 DEF NamesOK, Others
  <2> QED
    BY <2>4, <2>5, <2>6 DEF NamesOK
<1>12. NewOK'
  <2>1. worker'[u].step \notin Writing
    BY <1>4, <1>5 DEF Writing
  <2> QED
    BY <1>4, <2>1, NewStep DEF NewOK, catalogue, IndexInv, SettledInv
<1>13. Spares(u)
  <2> SUFFICES ASSUME NEW w \in Others(u), NEW p \in ConcernOf(worker[w]) \ worker'[w].bad,
                      worker[w].step # "create"
               PROVE  SameDocs(p, index[TargetOf(worker[w])], index'[TargetOf(worker[w])'])
    BY DEF Spares
  <2>1. w \in Workers /\ Beside(worker[w], worker'[w])
    BY <1>4 DEF Alone, Others
  <2>2. p \in Products
    BY <2>1, ConcernIsProducts DEF IndexInv, SettledInv
  <2>3. CASE OfReindex(worker[w])
    BY <1>4, <2>1, <2>3, AloneSame DEF TargetOf, SameDocs, Beside
  <2>4. CASE ~OfReindex(worker[w])
    <3>1. p \in worker[w].bad
      BY <1>9, <2>1, <2>2 DEF IndexInv, SettledInv, OverlapOK, Others
    <3> QED
      BY <2>1, <3>1 DEF Beside
  <2> QED
    BY <2>3, <2>4
<1>14. MainOK'
  <2>1. ASSUME NEW p \in Products, p \notin stale', ~Due(p)'
        PROVE  AreRight(index'[alias'], p, products[p], variants)
    <3>1. ~Elsewhere(u, p)
      BY <1>4, <2>1, ElsewhereStays DEF Due, Elsewhere
    <3>2. Good(worker[u], p, index[name], products[p], variants, Rank(p))
      BY <1>1, <1>3, <1>9, <2>1, <3>1 DEF IndexInv, SettledInv, GoodOK, GoodAt, TargetOf
    <3>3. ~Reading(worker[u], p)
      BY DEF Reading
    <3>4. AreRight(index[name], p, products[p], variants)
      BY <1>3, <3>2, <3>3 DEF Good, ReindexGood
    <3> QED
      BY <1>1, <3>4
  <2> QED
    BY <2>1 DEF MainOK, catalogue
<1> QED
  BY <1>4, <1>6, <1>7, <1>8, <1>10, <1>11, <1>12, <1>13, <1>14, WorkerStep

LEMMA CreateIndicesSettled ==
    ASSUME IndexInv, NEW u \in Workers, NEW aliased \in BOOLEAN, CreateIndices(u, aliased)
    PROVE  SettledInv'
<1> DEFINE name == runs + 1
           next == [worker[u] EXCEPT !.step = "page", !.name = name]
<1>1. /\ UNCHANGED <<catalogue, index, alias, stale>> /\ jobs' = jobs /\ worker[u].step = "create"
      /\ runs' = runs + 1 /\ runs < MaxRuns
  BY DEF CreateIndices
<1>2. /\ worker[u] \in Local /\ Shape(worker[u]) /\ worker[u].job \in Job /\ worker[u].job # None
  BY <1>1, WorkerFacts
<1>3. /\ OfReindex(worker[u]) /\ worker[u].left = {} /\ worker[u].skip = 0
  BY <1>1, <1>2 DEF Shape, AtProduct
<1>4. worker'[u] = next /\ Alone(u)
  BY GotoAlone DEF IndexInv, CreateIndices
<1>5. /\ runs \in Nat /\ name \in Names /\ name \in Nat /\ name > runs
      /\ alias \in Nat /\ alias <= runs
  BY <1>1, IndexingAssumption DEF IndexInv, AliasInv, AliasOK, Names, IndexingAssumption
<1> HIDE DEF name
<1>6. /\ next.job = worker[u].job /\ next.step = "page" /\ next.name = name /\ next.left = {}
      /\ next.skip = 0 /\ next.bad = worker[u].bad
  BY <1>2, <1>3 DEF Local
<1> HIDE DEF next
<1>7. KeepsJob(u) /\ OfReindex(next)
  BY <1>1, <1>3, <1>4, <1>6, SameJob
<1>8. Shape(next)
  BY <1>6, <1>7 DEF Shape, Writing, Building
<1>9. ConcernOf(worker[u]) = Products /\ ConcernOf(next) = Products
  BY <1>1, <1>3, <1>6, <1>7 DEF ConcernOf
<1>10. KeepsConcern(u)
  BY <1>4, <1>6, <1>9, ConcernShrinks DEF KeepsConcern, IndexInv, SettledInv
<1>11. Carries(u, {})
  BY <1>1, <1>3 DEF Carries, Waits, DueOf
<1>12. index[name] = Empty
  BY <1>5 DEF IndexInv, SettledInv, NamesOK
<1>13. NamesOK'
  <2> USE DEF IndexInv, SettledInv
  <2>1. \A w \in Others(u) : /\ Named(worker'[w]) = Named(worker[w])
                             /\ worker'[w].name = worker[w].name /\ worker'[w].step = worker[w].step
                             /\ worker'[w].from = worker[w].from
    BY <1>4, AloneSame DEF Alone, Beside
  <2>2. \A w \in Others(u) : worker[w].step \in Holding => worker[w].from \in 0 .. runs
    BY DEF AliasInv, WorkersOK, WorkerOK, Others
  <2>3. \A w \in Others(u) : Named(worker[w]) => worker[w].name \in 1 .. runs
    BY DEF NamesOK, Others
  <2>4. next.step \notin Holding
    BY <1>6 DEF Holding
  <2>5. \A x \in Names : x > runs' => index'[x] = Empty
    BY <1>1, <1>5 DEF NamesOK, Names
  <2>6. ASSUME NEW w \in Workers, Named(worker'[w])
        PROVE  /\ worker'[w].name \in 1 .. runs'
               /\ \A v \in Workers \ {w} : Named(worker'[v]) => worker'[v].name # worker'[w].name
    <3>1. CASE w = u
      BY <1>1, <1>4, <1>5, <1>6, <2>1, <2>3, <3>1 DEF Others, name
    <3>2. CASE w # u
      <4>1. worker'[w].name \in 1 .. runs
        BY <2>1, <2>3, <2>6, <3>2 DEF Others
      <4>2. \A v \in Workers \ {w} : Named(worker'[v]) => worker'[v].name # worker'[w].name
        BY <1>4, <1>5, <1>6, <2>1, <2>6, <3>2, <4>1 DEF Others, NamesOK
      <4> QED
        BY <1>1, <1>5, <4>1, <4>2
    <3> QED
      BY <3>1, <3>2
  <2>7. ASSUME NEW w \in Workers, Named(worker'[w]), worker'[w].step \in Building
        PROVE  /\ worker'[w].name # alias
               /\ \A v \in Workers : worker'[v].step \in Holding => worker'[v].from # worker'[w].name
    <3>1. \A v \in Workers : worker'[v].step \in Holding =>
              v \in Others(u) /\ worker[v].step \in Holding /\ worker'[v].from = worker[v].from
      BY <1>4, <2>1, <2>4 DEF Others
    <3>2. CASE w = u
      BY <1>4, <1>5, <1>6, <2>2, <3>1, <3>2
    <3>3. CASE w # u
      BY <2>1, <2>7, <3>1, <3>3 DEF NamesOK, Others
    <3> QED
      BY <3>2, <3>3
  <2> QED
    BY <1>1, <2>5, <2>6, <2>7 DEF NamesOK
<1>14. NewOK'
  <2>1. worker'[u].step \notin Writing
    BY <1>4, <1>6 DEF Writing
  <2> QED
    BY <1>1, <1>4, <2>1, NewStep DEF NewOK, catalogue, IndexInv, SettledInv
<1>15. Spares(u)
  BY <1>1, <1>4, AloneSame DEF Spares, SameDocs, TargetOf, Alone, Beside
<1>16. MainOK'
  BY <1>1, <1>4, <1>11, MainStep DEF SameDocs, IndexInv, SettledInv
<1>17. ASSUME NEW p \in Products \ next.bad
       PROVE  Good(next, p, index[name], products[p], variants, Rank(p))
  <2>1. {p} \cup VariantsOf(p) \in SUBSET Entities
    BY DocsOfProduct
  <2>2. AreGone(index[name], {p} \cup VariantsOf(p))
    BY <1>12, <2>1, EmptyIsGone
  <2>3. ~products[p].live => AreRight(index[name], p, products[p], variants)
    BY <2>2, NothingOfDeleted
  <2>4. Rank(p) \in Nat
    BY ProductsAreFinite DEF Rank
  <2>5. ~Reading(next, p)
    BY <1>6 DEF Reading
  <2> QED
    BY <1>6, <1>7, <2>2, <2>3, <2>4, <2>5 DEF Good, ReindexGood
<1>18. GoodAt(u)'
  <2>1. index'[TargetOf(worker[u])'] = index[name]
    BY <1>1, <1>4, <1>6, <1>7 DEF TargetOf
  <2> QED
    BY <1>1, <1>4, <1>9, <1>17, <2>1, OwnStep
<1> QED
  BY <1>1, <1>4, <1>7, <1>8, <1>10, <1>11, <1>13, <1>14, <1>15, <1>16, <1>18, WorkerStep

-----------------------------------------------------------------------------
(* A bulk request.                                                          *)

LEMMA WriteNothingNew ==
    ASSUME NEW docs, NEW ops, NEW v \in Variants, AreGone(docs, {v}),
           \A op \in ops : op[1][1] = v => op[2] = None
    PROVE  AreGone(Write(docs, ops), {v})
<1> SUFFICES ASSUME NEW d \in {v} \X Channels PROVE Write(docs, ops)[d] = None
  BY DEF AreGone
<1>1. d \in DocIds /\ d[1] = v /\ docs[d] = None
  BY DEF AreGone, DocIds, Entities
<1>2. CASE \E op \in ops : op[1] = d
  <2>1. (CHOOSE op \in ops : op[1] = d) \in ops /\ (CHOOSE op \in ops : op[1] = d)[1] = d
    BY <1>2
  <2> QED
    BY <1>1, <1>2, <2>1 DEF Write
<1>3. CASE \A op \in ops : op[1] # d
  BY <1>1, <1>3, WriteNothing
<1> QED
  BY <1>2, <1>3

Written(u, done) == index' = [index EXCEPT ![TargetOf(worker[u])] = Write(@, done)]

\* The operations a worker has to execute are those of its product, one for
\* each document.
LEMMA WriterFacts ==
    ASSUME IndexInv, NEW u \in Workers, worker[u].step \in Writing
    PROVE  /\ worker[u] \in Local /\ Shape(worker[u]) /\ worker[u].id \in Products
           /\ worker[u].job \in Job /\ worker[u].job # None /\ JobOK(worker[u].job)
           /\ Functional(worker[u].ops) /\ \A op \in worker[u].ops : op[1] \in DocsOf(worker[u].id)
           /\ worker[u].id \in ConcernOf(worker[u])
           /\ OfReindex(worker[u]) => worker[u].step = "upsert"
<1>1. worker[u].step \in AtProduct /\ worker[u].step # "idle"
  BY DEF Writing, AtProduct
<1>2. /\ Typed(worker[u]) /\ worker[u] \in Local /\ Shape(worker[u]) /\ worker[u].id \in Products
      /\ worker[u].job \in Job /\ worker[u].job # None /\ JobOK(worker[u].job)
  BY <1>1, WorkerFacts DEF Typed
<1>3. worker[u].id \in ConcernOf(worker[u])
  BY <1>1, <1>2 DEF ConcernOf, AtProduct
<1>4. OfReindex(worker[u]) => worker[u].step = "upsert"
  BY <1>1, <1>2 DEF Shape, Building, Writing
<1>5. Functional(worker[u].ops) /\ \A op \in worker[u].ops : op[1] \in DocsOf(worker[u].id)
  BY <1>2 DEF Shape, Functional
<1> QED
  BY <1>2, <1>3, <1>4, <1>5

LEMMA WrittenFacts ==
    ASSUME IndexInv, NEW u \in Workers, worker[u].step \in Writing, NEW done \in SUBSET worker[u].ops,
           Written(u, done), Alone(u), UNCHANGED <<alias, runs>>
    PROVE  /\ index'[TargetOf(worker[u])] = Write(index[TargetOf(worker[u])], done)
           /\ \A x \in Names : x > runs => index'[x] = Empty
           /\ \A v \in Variants : variants[v].state = "new" => \A x \in Names : AreGone(index'[x], {v})
           /\ \A p \in Products \ {worker[u].id} : \A x \in Names : SameDocs(p, index[x], index'[x])
           /\ Spares(u)
           /\ OfReindex(worker[u]) => index'[alias] = index[alias]
<1> DEFINE me == worker[u]
           target == TargetOf(me)
<1>1. /\ me \in Local /\ Shape(me) /\ me.id \in Products /\ me.job # None
      /\ \A op \in me.ops : op[1] \in DocsOf(me.id)
      /\ me.id \in ConcernOf(me)
      /\ OfReindex(me) => me.step = "upsert"
  BY WriterFacts
<1>2. index \in [Names -> Docs] /\ alias \in Names /\ runs \in Nat
  BY IndexingAssumption DEF IndexInv, TypeInv, IndicesTyped, AliasInv, AliasOK, IndexingAssumption
<1>3. OfReindex(me) => Named(me) /\ me.step \in Building
  BY <1>1 DEF Named, Building
<1>4. target \in Names /\ target \in 0 .. runs /\ (OfReindex(me) => target # alias)
  <2>1. CASE OfReindex(me)
    <3>1. target = me.name /\ me.name \in Names /\ me.name \in 1 .. runs /\ me.name # alias
      BY <1>1, <1>3, <2>1 DEF TargetOf, Local, IndexInv, SettledInv, NamesOK
    <3> QED
      BY <1>2, <3>1
  <2>2. CASE ~OfReindex(me)
    BY <1>2, <2>2 DEF TargetOf, IndexInv, AliasInv, AliasOK
  <2> QED
    BY <2>1, <2>2
<1> HIDE DEF target
<1>5. /\ index'[target] = Write(index[target], done)
      /\ \A x \in Names \ {target} : index'[x] = index[x]
  BY <1>2, <1>4 DEF Written, target
<1>6. \A x \in Names : x > runs => index'[x] = Empty
  <2>1. target <= runs /\ target \in Int
    BY <1>2, <1>4
  <2>2. \A x \in Names : x > runs => x # target
    BY <1>2, <2>1, IndexingAssumption DEF Names, IndexingAssumption
  <2> QED
    BY <1>5, <2>2 DEF IndexInv, SettledInv, NamesOK
<1>7. ASSUME NEW v \in Variants, variants[v].state = "new", NEW x \in Names
      PROVE  AreGone(index'[x], {v})
  <2>1. /\ AreGone(index[x], {v})
        /\ \A op \in done : op[1][1] = v => op[2] = None
    BY <1>7 DEF IndexInv, SettledInv, NewOK
  <2>2. CASE x = target
    BY <1>5, <2>1, <2>2, WriteNothingNew
  <2>3. CASE x # target
    BY <1>5, <2>1, <2>3
  <2> QED
    BY <2>2, <2>3
<1>8. ASSUME NEW p \in Products \ {me.id}, NEW x \in Names PROVE SameDocs(p, index[x], index'[x])
  <2>1. \A d \in DocsOf(p) : d \in DocIds /\ \A op \in done : op[1] # d
    BY <1>1, DocsOfProduct
  <2>2. \A d \in DocsOf(p) : Write(index[target], done)[d] = index[target][d]
    BY <2>1, WriteNothing
  <2> QED
    BY <1>5, <2>2 DEF SameDocs
<1>9. Spares(u)
  <2> SUFFICES ASSUME NEW w \in Others(u), NEW p \in ConcernOf(worker[w]) \ worker'[w].bad
               PROVE  SameDocs(p, index[TargetOf(worker[w])], index'[TargetOf(worker[w])'])
    BY DEF Spares
  <2>1. w \in Workers /\ Beside(worker[w], worker'[w]) /\ worker[w] \in Local
    BY WorkerFacts DEF Alone, Others
  <2>2. p \in Products
    BY <2>1, ConcernIsProducts DEF IndexInv, SettledInv
  <2>3. p # me.id
    BY <1>1, <2>1 DEF IndexInv, SettledInv, OverlapOK, Others, Beside
  <2>4. TargetOf(worker[w])' = TargetOf(worker[w]) /\ TargetOf(worker[w]) \in Names
    BY <1>2, <2>1, AloneSame DEF TargetOf, Beside, Local
  <2> QED
    BY <1>8, <2>2, <2>3, <2>4
<1> QED
  BY <1>2, <1>4, <1>5, <1>6, <1>7, <1>8, <1>9 DEF target

\* The worker stays at its product after the request.
LEMMA BulkGoesOn ==
    ASSUME IndexInv, NEW u \in Workers, worker[u].step \in Writing, NEW done \in SUBSET worker[u].ops,
           Written(u, done), UNCHANGED <<catalogue, alias, runs, stale>>, jobs' = jobs,
           Alone(u), NEW next, worker'[u] = next,
           next.job = worker[u].job, next.id = worker[u].id, next.left = worker[u].left,
           next.name = worker[u].name, next.skip = worker[u].skip, next.full = worker[u].full,
           worker[u].bad \subseteq next.bad,
           next.step \in {"deleteProduct", "deleteVariants", "product", "upsert"},
           OfReindex(worker[u]) => next.step = "upsert",
           Shape(next), WritesNothingNew(u),
           worker[u].id \notin next.bad /\ ~Elsewhere(u, worker[u].id) =>
               Good(next, worker[u].id, index'[TargetOf(worker[u])], products[worker[u].id], variants,
                    Rank(worker[u].id))
    PROVE  SettledInv'
<1> DEFINE me == worker[u]
<1>1. /\ me \in Local /\ Shape(me) /\ me.id \in Products /\ me.job \in Job /\ me.job # None
      /\ me.id \in ConcernOf(me) /\ (OfReindex(me) => me.step = "upsert")
      /\ me.step # "idle"
  BY WriterFacts DEF Writing
<1>2. /\ \A x \in Names : x > runs => index'[x] = Empty
      /\ \A v \in Variants : variants[v].state = "new" => \A x \in Names : AreGone(index'[x], {v})
      /\ \A p \in Products \ {me.id} : \A x \in Names : SameDocs(p, index[x], index'[x])
      /\ Spares(u)
      /\ OfReindex(me) => index'[alias] = index[alias]
  BY WrittenFacts
<1>3. KeepsJob(u) /\ OfReindex(next) = OfReindex(me)
  BY <1>1, SameJob
<1>4. ConcernOf(next) = ConcernOf(me) /\ DueOf(next) = DueOf(me)
  BY <1>1, <1>3 DEF ConcernOf, DueOf, Writing
<1>5. KeepsConcern(u)
  BY <1>4, ConcernShrinks DEF KeepsConcern, IndexInv, SettledInv
<1>6. Carries(u, {})
  BY <1>4 DEF Carries, Waits
<1>7. NamesOK'
  <2>1. KeepsIndex(u)
    BY <1>1, <1>3 DEF KeepsIndex, Named, Holding, Building
  <2> QED
    BY <1>2, <2>1, NamesStep DEF KeepsIndex, IndexInv, SettledInv
<1>8. NewOK'
  BY <1>2, NewStep DEF WritesNothingNew, IndexInv, SettledInv, catalogue
<1>9. alias \in Names /\ me.name \in Names
  BY <1>1 DEF IndexInv, TypeInv, IndicesTyped, Local
<1>10. MainOK'
  <2>1. ASSUME NEW p \in Products \ {}, p \notin stale', ~Due(p)'
        PROVE  p \notin stale /\ SameDocs(p, index[alias], index'[alias'])
    <3>1. CASE OfReindex(me)
      BY <1>2, <2>1, <3>1 DEF SameDocs
    <3>2. CASE ~OfReindex(me)
      <4>1. me.id \in DueOf(next)
        BY <1>1, <1>3, <3>2 DEF DueOf
      <4>2. p # me.id
        BY <2>1, <4>1 DEF Due
      <4> QED
        BY <1>2, <1>9, <2>1, <4>2
    <3> QED
      BY <3>1, <3>2
  <2> QED
    BY <1>6, <2>1, MainStep DEF IndexInv, SettledInv
<1>11. ASSUME NEW p \in ConcernOf(next) \ next.bad, ~Elsewhere(u, p)
       PROVE  Good(next, p, index'[TargetOf(me)], products[p], variants, Rank(p))
  <2>1. CASE p = me.id
    BY <1>11, <2>1
  <2>2. CASE p # me.id
    <3>1. OfReindex(me) /\ p \in Products
      BY <1>1, <1>4, <1>11, <2>2 DEF ConcernOf, Writing
    <3>2. Good(me, p, index[TargetOf(me)], products[p], variants, Rank(p))
      BY <1>4, <1>11 DEF IndexInv, SettledInv, GoodOK, GoodAt
    <3>3. SameDocs(p, index[TargetOf(me)], index'[TargetOf(me)])
      BY <1>2, <1>9, <2>2, <3>1 DEF TargetOf
    <3>4. ~Reading(me, p) /\ ~Reading(next, p)
      BY <2>2 DEF Reading
    <3>5. /\ me.step = "upsert" /\ next.step = "upsert" /\ OfReindex(next)
          /\ p \in next.left <=> p \in me.left
      BY <1>1, <1>3, <3>1
    <3> QED
      BY <3>1, <3>2, <3>3, <3>4, <3>5, ReindexGoesOn
  <2> QED
    BY <2>1, <2>2
<1>12. GoodAt(u)'
  <2>1. TargetOf(worker[u])' = TargetOf(me)
    BY <1>3 DEF TargetOf
  <2> QED
    BY <1>11, <2>1, OwnStep
<1> QED
  BY <1>2, <1>3, <1>5, <1>6, <1>7, <1>8, <1>10, <1>12, WorkerStep

\* The worker is done with its product after the request.
LEMMA BulkEnds ==
    ASSUME IndexInv, NEW u \in Workers, worker[u].step \in Writing, NEW done \in SUBSET worker[u].ops,
           Written(u, done), UNCHANGED <<catalogue, alias, runs>>, jobs' = jobs,
           NEW rest \in Local, EndProduct(u, rest),
           rest.job = worker[u].job, rest.id = worker[u].id, rest.left = worker[u].left,
           rest.name = worker[u].name, rest.skip = worker[u].skip, rest.full = worker[u].full,
           worker[u].bad \subseteq rest.bad,
           worker[u].id \notin rest.bad /\ ~Elsewhere(u, worker[u].id) =>
               AreRight(index'[TargetOf(worker[u])], worker[u].id, products[worker[u].id], variants)
    PROVE  SettledInv'
<1> DEFINE me == worker[u]
           next == worker'[u]
<1>1. /\ me \in Local /\ Shape(me) /\ me.id \in Products /\ me.job \in Job /\ me.job # None
      /\ me.id \in ConcernOf(me) /\ (OfReindex(me) => me.step = "upsert")
      /\ me.step \in AtProduct
  BY WriterFacts DEF Writing, AtProduct
<1>2. OfReindex(rest) = OfReindex(me)
  BY DEF OfReindex
<1>3. /\ Alone(u) /\ worker'[u] = AfterProduct(rest)
      /\ KeepsJob(u) /\ Shape(worker'[u]) /\ KeepsIndex(u) /\ KeepsConcern(u)
      /\ WritesNothingNew(u) /\ Carries(u, Settled(u, rest))
      /\ \A w \in Others(u) : Settled(u, rest) \cap ConcernOf(worker[w]) \subseteq worker'[w].bad
      /\ stale \subseteq stale' \cup Settled(u, rest)
      /\ \A p \in Settled(u, rest) : p \notin stale' => p \notin rest.bad
      /\ ConcernOf(worker'[u]) = IF OfReindex(rest) THEN Products ELSE {}
  BY <1>1, EndProductSteps
<1>4. /\ \A x \in Names : x > runs => index'[x] = Empty
      /\ \A v \in Variants : variants[v].state = "new" => \A x \in Names : AreGone(index'[x], {v})
      /\ \A p \in Products \ {me.id} : \A x \in Names : SameDocs(p, index[x], index'[x])
      /\ Spares(u)
      /\ OfReindex(me) => index'[alias] = index[alias]
  BY <1>3, WrittenFacts
<1>5. NamesOK'
  BY <1>3, <1>4, NamesStep DEF KeepsIndex, IndexInv, SettledInv
<1>6. NewOK'
  BY <1>3, <1>4, NewStep DEF WritesNothingNew, IndexInv, SettledInv, catalogue
<1>7. alias \in Names /\ me.name \in Names
  BY <1>1 DEF IndexInv, TypeInv, IndicesTyped, Local
<1>8. MainOK'
  <2>1. ASSUME NEW p \in Products \ Settled(u, rest), p \notin stale', ~Due(p)'
        PROVE  p \notin stale /\ SameDocs(p, index[alias], index'[alias'])
    <3>1. CASE OfReindex(me)
      BY <1>3, <1>4, <2>1, <3>1 DEF SameDocs
    <3>2. CASE ~OfReindex(me)
      BY <1>2, <1>3, <1>4, <1>7, <2>1, <3>2 DEF Settled
    <3> QED
      BY <3>1, <3>2
  <2>2. ASSUME NEW p \in Products \cap Settled(u, rest), p \notin stale', ~Due(p)'
        PROVE  AreRight(index'[alias'], p, products[p], variants)
    <3>1. ~OfReindex(me) /\ p = me.id /\ p \notin rest.bad
      BY <1>2, <1>3, <2>2 DEF Settled
    <3>2. ~Elsewhere(u, p)'
      BY <2>2 DEF Due, Elsewhere
    <3>3. ~Elsewhere(u, p)
      BY <1>3, <3>2, ElsewhereStays
    <3> QED
      BY <3>1, <3>3 DEF TargetOf
  <2> QED
    BY <1>3, <2>1, <2>2, MainStep DEF IndexInv, SettledInv
<1>9. GoodAt(u)'
  <2>1. CASE OfReindex(me)
    <3>1. /\ next.job = me.job /\ next.left = me.left /\ next.id = 0
          /\ next.skip = me.skip /\ next.full = me.full /\ next.name = me.name /\ next.bad = rest.bad
          /\ next.step = IF me.left # {} THEN "next" ELSE IF me.full THEN "page" ELSE "lookup"
      <4>1. rest.job \in Job /\ OfReindex(rest)
        BY <1>1, <1>2, <2>1
      <4>2. /\ next.job = rest.job /\ next.left = rest.left /\ next.id = 0
            /\ next.skip = rest.skip /\ next.full = rest.full /\ next.name = rest.name
            /\ next.bad = rest.bad
            /\ next.step = IF rest.left # {} THEN "next" ELSE IF rest.full THEN "page" ELSE "lookup"
        BY <1>3, <4>1, AfterProductIs
      <4> QED
        BY <4>2
    <3>2. OfReindex(next) /\ me.step = "upsert" /\ ConcernOf(me) = Products
      BY <1>1, <2>1, <3>1 DEF OfReindex, ConcernOf
    <3> HIDE DEF next
    <3>3. ASSUME NEW p \in Products \ next.bad, ~Elsewhere(u, p)
          PROVE  Good(next, p, index'[next.name], products[p], variants, Rank(p))
      <4>1. Good(me, p, index[next.name], products[p], variants, Rank(p))
        BY <2>1, <3>1, <3>2, <3>3 DEF IndexInv, SettledInv, GoodOK, GoodAt, TargetOf
      <4>2. ~Reading(next, p)
        BY <3>1 DEF Reading
      <4>3. CASE p = me.id
        <5>1. Reading(me, p)
          BY <3>2, <4>3 DEF Reading
        <5>2. /\ products[p].live /\ p \notin me.left /\ Rank(p) < me.skip
          BY <2>1, <3>2, <4>1, <5>1 DEF Good, ReindexGood
        <5>3. Rank(p) \in Nat /\ me.skip \in Nat
          BY <1>1, ProductsAreFinite DEF Rank, Local
        <5>4. AreRight(index'[next.name], p, products[p], variants)
          BY <2>1, <3>1, <3>3, <4>3 DEF TargetOf
        <5> QED
          BY <3>1, <3>2, <4>2, <5>2, <5>3, <5>4 DEF Good, ReindexGood
      <4>4. CASE p # me.id
        <5>1. ~Reading(me, p)
          BY <4>4 DEF Reading
        <5>2. SameDocs(p, index[next.name], index'[next.name])
          BY <1>4, <1>7, <3>1, <4>4
        <5>3. /\ me.full => next.step \in {"page", "next"}
              /\ p \in next.left <=> p \in me.left
          BY <3>1
        <5> QED
          BY <2>1, <3>1, <3>2, <4>1, <4>2, <5>1, <5>2, <5>3, ReindexGoesOn
      <4> QED
        BY <4>3, <4>4
    <3>4. TargetOf(worker[u])' = next.name
      BY <3>2 DEF TargetOf, next
    <3> QED
      BY <1>2, <1>3, <2>1, <3>3, <3>4, OwnStep DEF next
  <2>2. CASE ~OfReindex(me)
    BY <1>2, <1>3, <2>2 DEF GoodAt
  <2> QED
    BY <2>1, <2>2
<1> QED
  BY <1>3, <1>4, <1>5, <1>6, <1>8, <1>9, WorkerStep

\* A request and the rest of the operations do what all of them would.
LEMMA RestOfWrites ==
    ASSUME NEW p \in Products, NEW docs, NEW ops, Functional(ops), NEW chunk \in SUBSET ops
    PROVE  /\ SameDocs(p, Write(docs, ops), Write(Write(docs, chunk), ops \ chunk))
           /\ ops \ chunk = {} => chunk = ops
BY WriteInParts, DocsOfProduct DEF SameDocs

LEMMA AllAreGone ==
    ASSUME NEW p \in Products, NEW docs, NEW vs, AreGone(docs, {p}), AreGone(docs, NotNew(p, vs)),
           \A v \in VariantsOf(p) : vs[v].state = "new" => AreGone(docs, {v})
    PROVE  AreGone(docs, {p} \cup VariantsOf(p))
<1> SUFFICES ASSUME NEW d \in ({p} \cup VariantsOf(p)) \X Channels PROVE docs[d] = None
  BY DEF AreGone
<1>1. CASE d[1] = p
  BY <1>1 DEF AreGone
<1>2. CASE d[1] \in NotNew(p, vs)
  BY <1>2 DEF AreGone
<1>3. CASE d[1] \in VariantsOf(p) /\ vs[d[1]].state = "new"
  <2>1. AreGone(docs, {d[1]})
    BY <1>3
  <2> QED
    BY <2>1 DEF AreGone
<1> QED
  BY <1>1, <1>2, <1>3 DEF NotNew

\* Deletes leave what is gone.
LEMMA StaysGone ==
    ASSUME NEW docs, NEW ops, \A op \in ops : op[2] = None,
           NEW entities \in SUBSET Entities, AreGone(docs, entities)
    PROVE  AreGone(Write(docs, ops), entities)
<1> SUFFICES ASSUME NEW d \in entities \X Channels PROVE Write(docs, ops)[d] = None
  BY DEF AreGone
<1>1. d \in DocIds /\ docs[d] = None
  BY DEF AreGone, DocIds
<1> QED
  BY <1>1, WriteDeletes

LEMMA BulkSettled ==
    ASSUME IndexInv, NEW u \in Workers, NEW chunk, NEW done \in SUBSET chunk, NEW ok \in BOOLEAN,
           ok => done = chunk, Bulk(u, chunk, done, ok),
           UNCHANGED <<catalogue, alias, runs>>, jobs' = jobs
    PROVE  SettledInv'
<1> DEFINE me == worker[u]
           p == me.id
           bad == IF ok THEN me.bad ELSE me.bad \cup {p}
           left == me.ops \ chunk
           rest == [me EXCEPT !.ops = left, !.bad = bad]
           toVariants == [rest EXCEPT !.step = "deleteVariants", !.ops = Deletes(me.found)]
           toProduct == [rest EXCEPT !.step = "product"]
           docs == index[TargetOf(me)]
           after == index'[TargetOf(me)]
<1>1. /\ me.step \in Writing /\ chunk \subseteq me.ops /\ Written(u, done)
  BY ConcernSame DEF Bulk, Writing, Written, TargetOf
<1>2. /\ me \in Local /\ Shape(me) /\ p \in Products /\ me.job \in Job /\ me.job # None
      /\ JobOK(me.job) /\ Functional(me.ops) /\ p \in ConcernOf(me)
      /\ \A op \in me.ops : op[1] \in DocsOf(p)
      /\ OfReindex(me) => me.step = "upsert"
  BY <1>1, WriterFacts
<1>3. /\ bad \in SUBSET Products /\ left \in SUBSET Operations /\ me.found \in SUBSET Variants
      /\ me.bad \subseteq bad /\ (p \notin bad => p \notin me.bad /\ done = chunk)
  BY <1>1, <1>2 DEF Local
<1>4. Deletes(me.found) \in SUBSET Operations
  BY <1>3, DeletesAreOperations DEF Entities
<1>5. after = Write(docs, done)
  <2>1. TargetOf(me) \in Names /\ index \in [Names -> Docs]
    BY <1>2 DEF TargetOf, Local, IndexInv, TypeInv, IndicesTyped
  <2> QED
    BY <1>1, <2>1 DEF Written
<1>6. \/ left # {} /\ Goto(u, rest) /\ UNCHANGED stale
      \/ left = {} /\ me.step = "deleteProduct" /\ Goto(u, toVariants) /\ UNCHANGED stale
      \/ /\ left = {} /\ me.step = "deleteVariants" /\ me.job.type = "update"
         /\ Goto(u, toProduct) /\ UNCHANGED stale
      \/ left = {} /\ me.step = "upsert" /\ EndProduct(u, rest)
      \/ /\ left = {} /\ me.step = "deleteVariants" /\ me.job.type # "update"
         /\ EndProduct(u, rest)
  <2>1. rest.ops = left
    BY <1>2 DEF Local
  <2>2. \/ rest.ops # {} /\ Goto(u, rest) /\ UNCHANGED stale
        \/ rest.ops = {} /\ me.step = "deleteProduct" /\ Goto(u, toVariants) /\ UNCHANGED stale
        \/ /\ rest.ops = {} /\ me.step = "deleteVariants" /\ me.job.type = "update"
           /\ Goto(u, toProduct) /\ UNCHANGED stale
        \/ /\ rest.ops = {} /\ me.step # "deleteProduct"
           /\ ~(me.step = "deleteVariants" /\ me.job.type = "update") /\ EndProduct(u, rest)
    BY DEF Bulk
  <2> QED
    BY <1>1, <2>1, <2>2 DEF Writing
<1>7. left \subseteq me.ops /\ (left = {} => chunk = me.ops)
  BY <1>1
\* What the worker can say of its product after the request.
<1>8. ASSUME p \notin bad, ~Elsewhere(u, p)
      PROVE  /\ Good(me, p, docs, products[p], variants, Rank(p))
             /\ SameDocs(p, Write(docs, me.ops), Write(after, left))
             /\ left = {} => after = Write(docs, me.ops)
  <2>1. Good(me, p, docs, products[p], variants, Rank(p))
    BY <1>2, <1>3, <1>8 DEF IndexInv, SettledInv, GoodOK, GoodAt
  <2>2. after = Write(docs, chunk)
    BY <1>3, <1>5, <1>8
  <2> HIDE DEF docs, after, bad
  <2>3. SameDocs(p, Write(docs, me.ops), Write(after, left))
    BY <1>1, <1>2, <2>2, RestOfWrites
  <2> QED
    BY <1>7, <2>1, <2>2, <2>3
<1>9. /\ rest \in Local /\ rest.job = me.job /\ rest.id = p /\ rest.left = me.left
      /\ rest.name = me.name /\ rest.skip = me.skip /\ rest.full = me.full
      /\ rest.step = me.step /\ rest.ops = left /\ rest.bad = bad /\ rest.found = me.found
  BY <1>2, <1>3 DEF Local
<1> HIDE DEF bad, left, rest
<1>10. toVariants.job = me.job /\ toVariants.id = p /\ toVariants.left = me.left
       /\ toVariants.name = me.name /\ toVariants.skip = me.skip /\ toVariants.full = me.full
       /\ toVariants.step = "deleteVariants" /\ toVariants.ops = Deletes(me.found)
       /\ toVariants.bad = bad /\ toVariants.found = me.found
  BY <1>9 DEF Local
<1>11. toProduct.job = me.job /\ toProduct.id = p /\ toProduct.left = me.left
       /\ toProduct.name = me.name /\ toProduct.skip = me.skip /\ toProduct.full = me.full
       /\ toProduct.step = "product" /\ toProduct.bad = bad
  BY <1>9 DEF Local
<1> HIDE DEF toVariants, toProduct, docs, after
<1>12. /\ Alone(u) /\ SUBSET ({p} \cup VariantsOf(p)) \subseteq SUBSET Entities
       /\ {p} \in SUBSET ({p} \cup VariantsOf(p))
       /\ NotNew(p, variants) \in SUBSET ({p} \cup VariantsOf(p))
  <2>1. Alone(u)
    BY <1>6, GotoAlone DEF EndProduct, IndexInv
  <2>2. {p} \cup VariantsOf(p) \subseteq Entities
    BY <1>2, DocsOfProduct
  <2> QED
    BY <2>1, <2>2 DEF NotNew
<1>13. \A v \in Variants : variants[v].state = "new" => AreGone(after, {v})
  <2>1. TargetOf(me) \in Names
    BY <1>2 DEF TargetOf, Local, IndexInv, TypeInv, IndicesTyped
  <2> QED
    BY <1>1, <1>12, <2>1, WrittenFacts DEF after
<1>14. me.step \in {"deleteProduct", "deleteVariants"} =>
           ~OfReindex(me) /\ me.found \subseteq VariantsOf(p) /\ \A op \in me.ops : op[2] = None
  BY <1>2 DEF Shape
\* In the words of JobGood.
<1>15. ASSUME p \notin bad, ~Elsewhere(u, p)
       PROVE  /\ me.step = "deleteProduct" => /\ me.found = NotNew(p, variants)
                                              /\ AreGone(Write(after, left), {p})
                                              /\ left = {} => AreGone(after, {p})
              /\ me.step = "deleteVariants" => /\ me.found = NotNew(p, variants)
                                               /\ AreGone(after, {p})
                                               /\ AreGone(Write(after, left), NotNew(p, variants))
                                               /\ left = {} => AreGone(after, NotNew(p, variants))
              /\ me.step = "upsert" => /\ products[p].live
                                       /\ AreRight(Write(after, left), p, products[p], variants)
                                       /\ left = {} => AreRight(after, p, products[p], variants)
  <2>1. /\ Good(me, p, docs, products[p], variants, Rank(p))
        /\ SameDocs(p, Write(docs, me.ops), Write(after, left))
        /\ left = {} => after = Write(docs, me.ops)
    BY <1>8, <1>15
  <2>2. CASE me.step = "deleteProduct"
    <3>1. me.found = NotNew(p, variants) /\ AreGone(Write(docs, me.ops), {p})
      BY <1>14, <2>1, <2>2 DEF Good, JobGood
    <3>2. AreGone(Write(after, left), {p})
      BY <1>2, <1>12, <2>1, <3>1, SameGone
    <3> QED
      BY <2>1, <2>2, <3>1, <3>2
  <2>3. CASE me.step = "deleteVariants"
    <3>1. /\ me.found = NotNew(p, variants) /\ AreGone(docs, {p})
          /\ AreGone(Write(docs, me.ops), NotNew(p, variants))
      BY <1>14, <2>1, <2>3 DEF Good, JobGood
    <3>2. AreGone(Write(after, left), NotNew(p, variants))
      BY <1>2, <1>12, <2>1, <3>1, SameGone
    <3>3. \A op \in done : op[2] = None
      BY <1>1, <1>14, <2>3
    <3>4. AreGone(after, {p})
      BY <1>5, <1>12, <3>1, <3>3, StaysGone
    <3> QED
      BY <2>1, <2>3, <3>1, <3>2, <3>4
  <2>4. CASE me.step = "upsert"
    <3>1. Reading(me, p)
      BY <2>4 DEF Reading
    <3>2. products[p].live /\ AreRight(Write(docs, me.ops), p, products[p], variants)
      BY <2>1, <2>4, <3>1 DEF Good, ReindexGood, JobGood
    <3>3. AreRight(Write(after, left), p, products[p], variants)
      BY <1>2, <2>1, <3>2, SameRight
    <3> QED
      BY <2>1, <2>4, <3>2, <3>3
  <2> QED
    BY <1>1, <2>2, <2>3, <2>4 DEF Writing
<1>16. CASE left # {} /\ Goto(u, rest) /\ UNCHANGED stale
  <2>1. worker'[u] = rest
    BY <1>16, GotoAlone DEF IndexInv
  <2>2. OfReindex(rest) = OfReindex(me)
    BY <1>9 DEF OfReindex
  <2>3. Shape(rest)
    <3>1. \A op, other \in left : op[1] = other[1] => op = other
      BY <1>2, <1>7 DEF Functional
    <3>2. \A op \in left : op[1] \in DocsOf(p)
      BY <1>2, <1>7
    <3>3. rest.step \in {"deleteProduct", "deleteVariants"} =>
              rest.found \subseteq VariantsOf(p) /\ \A op \in left : op[2] = None
      BY <1>7, <1>9, <1>14
    <3>4. me.step # "idle" /\ me.step \notin {"next", "create", "page", "lookup", "switch"}
      BY <1>1 DEF Writing
    <3> QED
      BY <1>2, <1>9, <2>2, <3>1, <3>2, <3>3, <3>4 DEF Shape
  <2>4. WritesNothingNew(u)
    BY <1>1, <1>7, <1>9, <2>1 DEF WritesNothingNew, IndexInv, SettledInv, NewOK
  <2>5. ASSUME p \notin bad, ~Elsewhere(u, p)
        PROVE  Good(rest, p, after, products[p], variants, Rank(p))
    <3>1. CASE OfReindex(me)
      <4>1. me.step = "upsert" /\ Reading(me, p) /\ Reading(rest, p)
        BY <1>2, <1>9, <3>1 DEF Reading
      <4>2. ReindexGood(me, p, docs, products[p], variants, Rank(p))
        BY <1>8, <2>5, <3>1, <4>1 DEF Good
      <4>3. ReindexGood(rest, p, after, products[p], variants, Rank(p))
        BY <1>9, <1>15, <2>5, <4>1, <4>2 DEF ReindexGood
      <4> QED
        BY <2>2, <3>1, <4>3 DEF Good
    <3>2. CASE ~OfReindex(me)
      <4>1. JobGood(rest, p, after, products[p], variants)
        BY <1>1, <1>9, <1>15, <2>5 DEF JobGood, Writing
      <4> QED
        BY <2>2, <3>2, <4>1 DEF Good
    <3> QED
      BY <3>1, <3>2
  <2>6. rest.step \in {"deleteProduct", "deleteVariants", "product", "upsert"}
    BY <1>1, <1>9 DEF Writing
  <2> QED
    BY <1>1, <1>2, <1>3, <1>9, <1>12, <1>16, <2>1, <2>3, <2>4, <2>5, <2>6, BulkGoesOn DEF after
<1>17. CASE left = {} /\ me.step = "deleteProduct" /\ Goto(u, toVariants) /\ UNCHANGED stale
  <2>1. worker'[u] = toVariants /\ ~OfReindex(me) /\ ~OfReindex(toVariants)
    BY <1>10, <1>14, <1>17, GotoAlone DEF IndexInv, OfReindex
  <2>2. me.found \in SUBSET Entities
    BY <1>3 DEF Entities
  <2>3. /\ Functional(Deletes(me.found))
        /\ \A op \in Deletes(me.found) : op[1] \in DocsOf(p) /\ op[2] = None
        /\ \A d : AreGone(Write(d, Deletes(me.found)), me.found)
    BY <1>14, <1>17, <2>2, DeletesAre DEF DocsOf
  <2>4. Shape(toVariants)
    <3>1. \A op, other \in toVariants.ops : op[1] = other[1] => op = other
      BY <1>10, <2>3 DEF Functional
    <3> QED
      BY <1>2, <1>10, <1>14, <1>17, <2>1, <2>3, <3>1 DEF Shape, AtProduct
  <2>5. WritesNothingNew(u)
    BY <1>10, <2>1, <2>3 DEF WritesNothingNew
  <2>6. ASSUME p \notin bad, ~Elsewhere(u, p)
        PROVE  Good(toVariants, p, after, products[p], variants, Rank(p))
    <3>1. JobGood(toVariants, p, after, products[p], variants)
      BY <1>10, <1>15, <1>17, <2>3, <2>6 DEF JobGood
    <3> QED
      BY <2>1, <3>1 DEF Good
  <2> QED
    BY <1>1, <1>2, <1>3, <1>10, <1>12, <1>17, <2>1, <2>4, <2>5, <2>6, BulkGoesOn DEF after
<1>18. CASE /\ left = {} /\ me.step = "deleteVariants" /\ me.job.type = "update"
            /\ Goto(u, toProduct) /\ UNCHANGED stale
  <2>1. worker'[u] = toProduct /\ ~OfReindex(me) /\ ~OfReindex(toProduct)
    BY <1>11, <1>14, <1>18, GotoAlone DEF IndexInv, OfReindex
  <2>2. Shape(toProduct) /\ WritesNothingNew(u)
    BY <1>2, <1>11, <1>18, <2>1 DEF Shape, AtProduct, Writing, WritesNothingNew
  <2>3. ASSUME p \notin bad, ~Elsewhere(u, p)
        PROVE  Good(toProduct, p, after, products[p], variants, Rank(p))
    <3>1. AreGone(after, {p} \cup VariantsOf(p))
      BY <1>2, <1>13, <1>15, <1>18, <2>3, AllAreGone DEF VariantsOf
    <3>2. JobGood(toProduct, p, after, products[p], variants)
      BY <1>11, <3>1 DEF JobGood
    <3> QED
      BY <2>1, <3>2 DEF Good
  <2> QED
    BY <1>1, <1>2, <1>3, <1>11, <1>12, <1>18, <2>1, <2>2, <2>3, BulkGoesOn DEF after
<1>19. CASE left = {} /\ me.step = "upsert" /\ EndProduct(u, rest)
  <2>1. p \notin bad /\ ~Elsewhere(u, p) => AreRight(after, p, products[p], variants)
    BY <1>15, <1>19
  <2> QED
    BY <1>1, <1>2, <1>3, <1>9, <1>19, <2>1, BulkEnds DEF after
<1>20. CASE /\ left = {} /\ me.step = "deleteVariants" /\ me.job.type # "update"
            /\ EndProduct(u, rest)
  <2>1. ~products[p].live
    <3>1. me.job.type = "delete" /\ p \in me.job.ids
      BY <1>2, <1>14, <1>20 DEF OfReindex, Job, Shape
    <3> QED
      BY <1>2, <3>1 DEF JobOK
  <2>2. ASSUME p \notin bad, ~Elsewhere(u, p)
        PROVE  AreRight(after, p, products[p], variants)
    <3>1. AreGone(after, {p} \cup VariantsOf(p))
      BY <1>2, <1>13, <1>15, <1>20, <2>2, AllAreGone DEF VariantsOf
    <3> QED
      BY <2>1, <3>1, NothingOfDeleted
  <2> QED
    BY <1>1, <1>2, <1>3, <1>9, <1>20, <2>2, BulkEnds DEF after
<1> QED
  BY <1>6, <1>16, <1>17, <1>18, <1>19, <1>20

-----------------------------------------------------------------------------
(* An edit of the products ids: what is said of a product that was edited   *)
(* says nothing, because its job waits, and the others are left alone.      *)

Edits(ids) ==
    /\ \A p \in ids : Waits(p)'
    /\ jobs \subseteq jobs' /\ \A j \in jobs' : j \in jobs \/ JobOK(j)'
    /\ UNCHANGED <<index, alias, runs, stale>>
    /\ \A p \in Products \ ids :
          products'[p] = products[p] /\ \A v \in VariantsOf(p) : variants'[v] = variants[v]
    /\ \A p \in Products : products'[p].live => products[p].live
    /\ \A v \in Variants : variants'[v].state = "new" => variants[v].state = "new"
    /\ \A w \in Workers : Beside(worker[w], worker'[w])
    /\ \A p \in Products \ ids : \A w \in Workers :
          OfReindex(worker[w]) => p \in worker'[w].bad \/ Rank(p)' = Rank(p)

LEMMA EditsSettled ==
    ASSUME IndexInv, NEW ids, Edits(ids)
    PROVE  SettledInv'
<1> USE DEF IndexInv, SettledInv
<1>1. \A w \in Workers :
          /\ Beside(worker[w], worker'[w])
          /\ OfReindex(worker'[w]) = OfReindex(worker[w]) /\ Named(worker'[w]) = Named(worker[w])
          /\ ConcernOf(worker'[w]) = ConcernOf(worker[w]) /\ DueOf(worker'[w]) = DueOf(worker[w])
          /\ Shape(worker[w]) => Shape(worker'[w])
  BY BesideSame DEF Edits
<1>2. /\ jobs \subseteq jobs' /\ index' = index /\ alias' = alias /\ runs' = runs /\ stale' = stale
      /\ \A p \in ids : Waits(p)'
  BY DEF Edits
<1>3. \A p : ~Due(p)' => ~Due(p) /\ p \notin ids
  BY <1>1, <1>2 DEF Due, Waits
<1>4. \A p : \A w \in Workers : ~Elsewhere(w, p)' => ~Elsewhere(w, p) /\ p \notin ids
  BY <1>1, <1>2 DEF Elsewhere, Waits
<1>5. JobsOK'
  <2>1. ASSUME NEW j, j \in Job, JobOK(j) PROVE JobOK(j)'
    <3>1. j.ids \in SUBSET Products
      BY <2>1 DEF Job
    <3> QED
      BY <2>1, <3>1 DEF JobOK, Edits
  <2>2. \A j \in jobs : j \in Job /\ JobOK(j)
    BY DEF JobsOK, TypeInv, CatalogueTyped
  <2>3. \A w \in Workers : worker[w].step # "idle" => worker[w].job \in Job /\ JobOK(worker[w].job)
    BY WorkerFacts
  <2>4. \A j \in jobs' : JobOK(j)'
    BY <2>1, <2>2 DEF Edits
  <2>5. ASSUME NEW w \in Workers, worker'[w].step # "idle" PROVE JobOK(worker[w].job)'
    <3>1. PICK j : j = worker[w].job
      OBVIOUS
    <3>2. j \in Job /\ JobOK(j) /\ worker'[w].job = j
      BY <1>1, <2>3, <2>5, <3>1 DEF Beside
    <3>3. JobOK(j)'
      BY <2>1, <3>2
    <3> QED
      BY <3>2, <3>3 DEF JobOK
  <2> QED
    BY <2>4, <2>5 DEF JobsOK
<1>6. ShapesOK'
  BY <1>1 DEF ShapesOK
<1>7. NamesOK'
  <2>1. \A w \in Workers : /\ Named(worker'[w]) = Named(worker[w])
                           /\ worker'[w].name = worker[w].name /\ worker'[w].step = worker[w].step
                           /\ worker'[w].from = worker[w].from
    BY <1>1 DEF Beside
  <2> QED
    BY <1>2, <2>1 DEF NamesOK
<1>8. OverlapOK'
  BY <1>1 DEF OverlapOK, Beside
<1>9. NewOK'
  <2>1. \A w \in Workers : worker'[w].step = worker[w].step /\ worker'[w].ops = worker[w].ops
    BY <1>1 DEF Beside
  <2> QED
    BY <1>2, <2>1 DEF NewOK, Edits
<1>10. ASSUME NEW w \in Workers PROVE GoodAt(w)'
  <2>1. SUFFICES ASSUME NEW p \in ConcernOf(worker'[w]) \ worker'[w].bad, ~Elsewhere(w, p)'
                 PROVE  Good(worker'[w], p, index[TargetOf(worker[w])], products'[p], variants', Rank(p)')
    BY <1>1, <1>2 DEF GoodAt, TargetOf, Beside
  <2>2. p \in Products \ ids /\ ~Elsewhere(w, p)
    BY <1>1, <1>4, <2>1, ConcernIsProducts
  <2>3. /\ products'[p] = products[p] /\ \A v \in VariantsOf(p) : variants'[v] = variants[v]
        /\ OfReindex(worker[w]) => Rank(p)' = Rank(p)
    BY <2>1, <2>2 DEF Edits
  <2>4. Good(worker[w], p, index[TargetOf(worker[w])], products[p], variants, Rank(p))
    BY <1>1, <2>1, <2>2 DEF GoodOK, GoodAt, Beside
  <2>5. SameDocs(p, index[TargetOf(worker[w])], index[TargetOf(worker[w])])
    BY DEF SameDocs
  <2> QED
    BY <1>1, <2>2, <2>3, <2>4, <2>5, SameGood
<1>11. MainOK'
  <2>1. SUFFICES ASSUME NEW p \in Products \ stale, ~Due(p)'
                 PROVE  AreRight(index[alias], p, products'[p], variants')
    BY <1>2 DEF MainOK
  <2>2. /\ p \notin ids /\ AreRight(index[alias], p, products[p], variants)
    BY <1>3, <2>1 DEF MainOK
  <2>3. /\ products'[p] = products[p] /\ \A v \in VariantsOf(p) : variants'[v] = variants[v]
    BY <2>2 DEF Edits
  <2>4. SameDocs(p, index[alias], index[alias])
    BY DEF SameDocs
  <2> QED
    BY <2>2, <2>3, <2>4, SameRight
<1>12. GoodOK'
  BY <1>10 DEF GoodOK
<1> QED
  BY <1>5, <1>6, <1>7, <1>8, <1>9, <1>11, <1>12

LEMMA RankStays ==
    ASSUME \A q \in Products : products'[q].live = products[q].live, NEW p
    PROVE  Rank(p)' = Rank(p)
<1>1. {q \in Products : products'[q].live /\ q < p} = {q \in Products : products[q].live /\ q < p}
  OBVIOUS
<1> QED
  BY <1>1 DEF Rank

\* The event of an edit becomes a job about what was edited.
LEMMA EditsWait ==
    ASSUME NEW type, NEW ctx, NEW ids, AddJob(type, ctx, ids),
           type = "reindex" => ids = {}, type = "delete" => \A p \in ids : ~products'[p].live
    PROVE  /\ \A p \in ids : Waits(p)'
           /\ jobs \subseteq jobs' /\ \A j \in jobs' : j \in jobs \/ JobOK(j)'
           /\ UNCHANGED <<index, alias, runs, stale>>
<1>1. PICK new : new = [n |-> edits + 1, type |-> type, ctx |-> ctx, ids |-> ids]
  OBVIOUS
<1>2. new.ids = ids /\ new.type = type
  BY <1>1
<1>4. jobs' = jobs \cup {new} /\ UNCHANGED <<index, alias, runs, stale>>
  BY <1>1 DEF AddJob, indices
<1>3. JobOK(new)'
  BY <1>2 DEF JobOK
<1> QED
  BY <1>2, <1>3, <1>4 DEF Waits

\* Edits that delete no product.
LEMMA EditsOf ==
    ASSUME IndexInv, NEW type, NEW ctx, NEW ids \in SUBSET Products, AddJob(type, ctx, ids),
           type \in {"update", "reindex"}, type = "reindex" => ids = {}, UNCHANGED worker,
           \A p \in Products \ ids :
               products'[p] = products[p] /\ \A v \in VariantsOf(p) : variants'[v] = variants[v],
           \A p \in Products : products'[p].live = products[p].live,
           \A v \in Variants : variants'[v].state = "new" => variants[v].state = "new"
    PROVE  SettledInv'
<1>1. /\ \A p \in ids : Waits(p)'
      /\ jobs \subseteq jobs' /\ \A j \in jobs' : j \in jobs \/ JobOK(j)'
      /\ UNCHANGED <<index, alias, runs, stale>>
  BY EditsWait
<1>2. \A w \in Workers : Beside(worker[w], worker'[w])
  BY DEF Beside
<1>3. \A p : Rank(p)' = Rank(p)
  BY RankStays
<1>4. Edits(ids)
  BY <1>1, <1>2, <1>3 DEF Edits
<1> QED
  BY <1>4, EditsSettled

LEMMA BumpedIs ==
    ASSUME IndexInv, NEW type \in {"update", "delete", "reindex"}, NEW ctx \in Channels,
           NEW ids \in SUBSET Products, AddJob(type, ctx, ids)
    PROVE  /\ Bumped(ids) \in [Products -> ProductRow]
           /\ \A p \in Products : /\ p \notin ids => Bumped(ids)[p] = products[p]
                                 /\ Bumped(ids)[p].live = products[p].live
<1>1. Bumped(ids) \in [Products -> ProductRow]
  BY EditedTyped DEF IndexInv
<1>2. ASSUME NEW p \in Products
      PROVE  /\ p \notin ids => Bumped(ids)[p] = products[p]
             /\ Bumped(ids)[p].live = products[p].live
  <2>1. products[p] \in ProductRow
    BY DEF IndexInv, TypeInv, CatalogueTyped
  <2> QED
    BY <2>1 DEF Bumped, ProductRow
<1> QED
  BY <1>1, <1>2

LEMMA VariantsHaveProducts ==
    ASSUME IndexInv
    PROVE  /\ \A v \in Variants : ProductOf[v] \in Products /\ variants[v] \in VariantRow
           /\ variants \in [Variants -> VariantRow] /\ products \in [Products -> ProductRow]
           /\ \A p \in Products : \A v \in VariantsOf(p) : v \in Variants /\ ProductOf[v] = p
BY IndexingAssumption DEF IndexInv, TypeInv, CatalogueTyped, VariantsOf, IndexingAssumption

LEMMA EditProductSettled ==
    ASSUME IndexInv, NEW p \in Products, NEW ctx \in Channels, EditProduct(p, ctx)
    PROVE  SettledInv'
<1>1. AddJob("update", ctx, {p}) /\ products' = Bumped({p}) /\ UNCHANGED <<variants, worker>>
  BY DEF EditProduct
<1>2. {p} \in SUBSET Products
  OBVIOUS
<1>3. /\ Bumped({p}) \in [Products -> ProductRow]
      /\ \A q \in Products : /\ q \notin {p} => Bumped({p})[q] = products[q]
                             /\ Bumped({p})[q].live = products[q].live
  BY <1>1, <1>2, BumpedIs
<1>4. /\ \A q \in Products \ {p} :
            products'[q] = products[q] /\ \A v \in VariantsOf(q) : variants'[v] = variants[v]
      /\ \A q \in Products : products'[q].live = products[q].live
      /\ \A v \in Variants : variants'[v].state = "new" => variants[v].state = "new"
  BY <1>1, <1>3
<1> QED
  BY <1>1, <1>2, <1>4, EditsOf

LEMMA EditVariantsSettled ==
    ASSUME IndexInv, NEW set \in SUBSET Variants, NEW ctx \in Channels, EditVariants(set, ctx)
    PROVE  SettledInv'
<1> DEFINE ids == {ProductOf[v] : v \in set}
<1>1. AddJob("update", ctx, ids) /\ products' = Bumped(ids) /\ UNCHANGED <<variants, worker>>
  BY DEF EditVariants
<1>2. ids \in SUBSET Products
  BY VariantsHaveProducts
<1> HIDE DEF ids
<1> QED
  BY <1>1, <1>2, BumpedIs, EditsOf

\* One variant changes, and the version of its product.
LEMMA EditOfVariant ==
    ASSUME IndexInv, NEW v \in Variants, NEW ctx \in Channels, NEW row \in VariantRow,
           AddJob("update", ctx, {ProductOf[v]}), products' = Bumped({ProductOf[v]}),
           variants' = [variants EXCEPT ![v] = row], UNCHANGED worker,
           row.state = "new" => variants[v].state = "new"
    PROVE  SettledInv'
<1> DEFINE ids == {ProductOf[v]}
<1>1. ids \in SUBSET Products
  BY VariantsHaveProducts
<1>2. \A p \in Products \ ids : \A w \in VariantsOf(p) : variants'[w] = variants[w]
  BY VariantsHaveProducts
<1>3. \A w \in Variants : variants'[w].state = "new" => variants[w].state = "new"
  BY VariantsHaveProducts
<1> HIDE DEF ids
<1>4. AddJob("update", ctx, ids) /\ products' = Bumped(ids)
  BY DEF ids
<1> QED
  BY <1>1, <1>2, <1>3, <1>4, BumpedIs, EditsOf

LEMMA CreateOrDeleteVariantSettled ==
    ASSUME IndexInv, NEW v \in Variants, NEW ctx \in Channels, CreateOrDeleteVariant(v, ctx)
    PROVE  SettledInv'
<1>1. /\ AddJob("update", ctx, {ProductOf[v]}) /\ products' = Bumped({ProductOf[v]})
      /\ UNCHANGED worker
  BY DEF CreateOrDeleteVariant
<1>2. PICK state \in {"live", "deleted"} : variants' = [variants EXCEPT ![v].state = state]
  BY DEF CreateOrDeleteVariant
<1> DEFINE row == [variants[v] EXCEPT !.state = state]
<1>3. row \in VariantRow /\ row.state = state
  BY VariantsHaveProducts DEF VariantRow
<1>4. variants' = [variants EXCEPT ![v] = row]
  BY <1>2
<1> HIDE DEF row
<1> QED
  BY <1>1, <1>3, <1>4, EditOfVariant

LEMMA ToggleVariantChannelSettled ==
    ASSUME IndexInv, NEW v \in Variants, NEW channel \in Channels, NEW ctx \in Channels,
           ToggleVariantChannel(v, channel, ctx)
    PROVE  SettledInv'
<1> DEFINE cs == Toggled(variants[v].channels, channel)
           row == [variants[v] EXCEPT !.channels = cs]
<1>1. /\ AddJob("update", ctx, {ProductOf[v]}) /\ products' = Bumped({ProductOf[v]})
      /\ UNCHANGED worker /\ variants' = [variants EXCEPT ![v] = row]
  BY DEF ToggleVariantChannel
<1>2. variants[v] \in VariantRow /\ cs \in SUBSET Channels
  BY VariantsHaveProducts DEF Toggled, VariantRow
<1> HIDE DEF cs
<1>3. row \in VariantRow /\ row.state = variants[v].state
  BY <1>2 DEF VariantRow
<1> HIDE DEF row
<1> QED
  BY <1>1, <1>3, EditOfVariant

LEMMA ToggleProductChannelSettled ==
    ASSUME IndexInv, NEW p \in Products, NEW channel \in Channels, NEW ctx \in Channels,
           ToggleProductChannel(p, channel, ctx)
    PROVE  SettledInv'
<1>1. /\ AddJob("update", ctx, {p}) /\ UNCHANGED worker
      /\ products' = [Bumped({p}) EXCEPT ![p].channels = Toggled(@, channel)]
  BY DEF ToggleProductChannel
<1>2. /\ Bumped({p}) \in [Products -> ProductRow]
      /\ \A q \in Products : /\ q \notin {p} => Bumped({p})[q] = products[q]
                             /\ Bumped({p})[q].live = products[q].live
  <2>1. {p} \in SUBSET Products
    OBVIOUS
  <2> QED
    BY <1>1, <2>1, BumpedIs
<1>3. \A q \in Products \ {p} : products'[q] = products[q]
  BY <1>1, <1>2
<1>4. products'[p].live = products[p].live
  <2> DEFINE row == Bumped({p})[p]
             cs == Toggled(row.channels, channel)
  <2>1. products'[p] = [row EXCEPT !.channels = cs]
    BY <1>1, <1>2
  <2>2. row \in ProductRow /\ row.live = products[p].live
    BY <1>2
  <2> HIDE DEF row, cs
  <2>3. products'[p].live = row.live
    BY <2>1, <2>2 DEF ProductRow
  <2> QED
    BY <2>2, <2>3
<1>5. \A v \in Variants :
          /\ v \notin VariantsOf(p) => variants'[v] = variants[v]
          /\ variants'[v].state = variants[v].state
  <2>1. ASSUME NEW v \in VariantsOf(p)
        PROVE  variants'[v].state = variants[v].state
    <3>1. v \in Variants /\ variants[v] \in VariantRow
      BY VariantsHaveProducts
    <3>2. PICK cs : variants'[v] = [variants[v] EXCEPT !.channels = cs]
      BY <3>1 DEF ToggleProductChannel
    <3> QED
      BY <3>1, <3>2 DEF VariantRow
  <2> QED
    BY <2>1 DEF ToggleProductChannel
<1>6. \A q \in Products \ {p} : \A v \in VariantsOf(q) : variants'[v] = variants[v]
  BY <1>5, VariantsHaveProducts
<1>7. {p} \in SUBSET Products /\ \A q \in Products : products'[q].live = products[q].live
  BY <1>3, <1>4
<1> QED
  BY <1>1, <1>3, <1>5, <1>6, <1>7, EditsOf

LEMMA ReindexMutationSettled ==
    ASSUME IndexInv, NEW ctx \in Channels, ReindexMutation(ctx)
    PROVE  SettledInv'
<1>1. AddJob("reindex", ctx, {}) /\ UNCHANGED <<products, variants, worker>>
  BY DEF ReindexMutation, catalogue
<1>2. {} \in SUBSET Products
  OBVIOUS
<1> QED
  BY <1>1, <1>2, EditsOf

\* The products behind one that is deleted move up: no reindex that runs can
\* vouch for them.
LEMMA DeleteProductSettled ==
    ASSUME IndexInv, NEW p \in Products, NEW ctx \in Channels, DeleteProduct(p, ctx)
    PROVE  SettledInv'
<1>1. /\ AddJob("delete", ctx, {p}) /\ products' = [Bumped({p}) EXCEPT ![p].live = FALSE]
  BY DEF DeleteProduct
<1>2. /\ Bumped({p}) \in [Products -> ProductRow]
      /\ \A q \in Products : /\ q \notin {p} => Bumped({p})[q] = products[q]
                             /\ Bumped({p})[q].live = products[q].live
  <2>1. {p} \in SUBSET Products
    OBVIOUS
  <2> QED
    BY <1>1, <2>1, BumpedIs
<1>3. \A q \in Products \ {p} : products'[q] = products[q]
  BY <1>1, <1>2
<1>4. ~products'[p].live
  <2>1. Bumped({p})[p] \in ProductRow
    BY <1>2
  <2>2. products'[p] = [Bumped({p})[p] EXCEPT !.live = FALSE]
    BY <1>1, <1>2
  <2> QED
    BY <2>1, <2>2 DEF ProductRow
<1>5. /\ \A q \in {p} : Waits(q)'
      /\ jobs \subseteq jobs' /\ \A j \in jobs' : j \in jobs \/ JobOK(j)'
      /\ UNCHANGED <<index, alias, runs, stale>>
  BY <1>1, <1>4, EditsWait
<1>6. \A v \in Variants :
          /\ v \notin VariantsOf(p) => variants'[v] = variants[v]
          /\ variants'[v].state = "new" => variants[v].state = "new"
  <2>1. ASSUME NEW v \in Variants
        PROVE  \/ variants'[v] = variants[v]
               \/ v \in VariantsOf(p) /\ variants'[v] = [variants[v] EXCEPT !.state = "deleted"]
    BY DEF DeleteProduct
  <2>2. ASSUME NEW v \in Variants, variants'[v] = [variants[v] EXCEPT !.state = "deleted"]
        PROVE  variants'[v].state = "deleted"
    <3>1. variants[v] \in VariantRow
      BY VariantsHaveProducts
    <3> QED
      BY <2>2, <3>1 DEF VariantRow
  <2> QED
    BY <2>1, <2>2
<1>7. \A q \in Products \ {p} : \A v \in VariantsOf(q) : variants'[v] = variants[v]
  BY <1>6, VariantsHaveProducts
<1> DEFINE later == p + 1 .. NumProducts
<1>8. ASSUME NEW w \in Workers
      PROVE  Beside(worker[w], worker'[w]) /\ (OfReindex(worker[w]) => later \subseteq worker'[w].bad)
  <2>1. worker'[w] = IF OfReindex(worker[w]) THEN [worker[w] EXCEPT !.bad = @ \cup later] ELSE worker[w]
    BY ConcernSame DEF DeleteProduct
  <2>2. Typed(worker[w])
    BY WorkerFacts
  <2> HIDE DEF later
  <2>3. CASE OfReindex(worker[w])
    <3>1. worker'[w] = [worker[w] EXCEPT !.bad = @ \cup later]
      BY <2>1, <2>3
    <3>2. Beside(worker[w], worker'[w]) /\ worker'[w].bad = worker[w].bad \cup later
      BY <2>2, <3>1, BesideBad
    <3> QED
      BY <3>2
  <2>4. CASE ~OfReindex(worker[w])
    BY <2>1, <2>4 DEF Beside
  <2> QED
    BY <2>3, <2>4
<1>9. ASSUME NEW q \in Products \ {p}, q \notin later PROVE Rank(q)' = Rank(q)
  <2>1. q < p
    BY <1>9, IndexingAssumption DEF Products, IndexingAssumption
  <2>2. \A r \in Products : r < q => r # p /\ products'[r] = products[r]
    BY <1>3, <2>1, IndexingAssumption DEF Products, IndexingAssumption
  <2>3. {r \in Products : products'[r].live /\ r < q} = {r \in Products : products[r].live /\ r < q}
    BY <2>2
  <2> QED
    BY <2>3 DEF Rank
<1>10. \A q \in Products \ {p} : \A w \in Workers :
           OfReindex(worker[w]) => q \in worker'[w].bad \/ Rank(q)' = Rank(q)
  BY <1>8, <1>9
<1>11. \A q \in Products : products'[q].live => products[q].live
  BY <1>3, <1>4
<1>12. Edits({p})
  BY <1>3, <1>5, <1>6, <1>7, <1>8, <1>10, <1>11 DEF Edits
<1> QED
  BY <1>12, EditsSettled

-----------------------------------------------------------------------------
(* The invariant.                                                           *)

LEMMA IndexInit == Init => IndexInv
<1> SUFFICES ASSUME Init PROVE IndexInv
  OBVIOUS
<1> DEFINE all == UNION {Current(p) : p \in Products}
<1>1. TypeInv /\ AliasInv
  BY TypeInit, AliasInit
<1>2. /\ jobs = {} /\ runs = 0 /\ alias = 0 /\ 0 \in Names
      /\ index = [x \in Names |-> IF x = 0 THEN Write(Empty, all) ELSE Empty]
      /\ \A w \in Workers : worker[w] = Idle
  BY IndexingAssumption DEF Init, Names, IndexingAssumption
<1>3. \A w \in Workers : /\ worker[w].step = "idle" /\ worker[w].job = None
                         /\ worker[w].left = {} /\ worker[w].id = 0
  BY <1>2 DEF Idle
<1>4. \A w \in Workers : /\ ~OfReindex(worker[w]) /\ ~Named(worker[w])
                         /\ ConcernOf(worker[w]) = {} /\ Shape(worker[w])
  BY <1>3 DEF OfReindex, Named, ConcernOf, Shape, Writing
<1>5. JobsOK /\ ShapesOK /\ OverlapOK /\ GoodOK
  BY <1>2, <1>3, <1>4 DEF JobsOK, ShapesOK, OverlapOK, GoodOK, GoodAt
<1>6. NamesOK
  BY <1>2, <1>4 DEF NamesOK
\* An operation of the first index is one of the product of its document.
<1>7. ASSUME NEW op \in all
      PROVE  \E p \in Products : /\ products[p] \in ProductRow /\ products[p].live
                                 /\ op \in Upserts(p, products[p], VariantsOf(p))
                                 /\ op[1] \in DocsOf(p)
                                 /\ op[1][1] \in Variants => variants[op[1][1]].state = "live"
  <2>1. PICK p \in Products : op \in Current(p)
    BY <1>7
  <2>2. /\ products[p] \in ProductRow /\ products[p].live
        /\ op \in Upserts(p, products[p], VariantsOf(p))
    BY <1>1, <2>1 DEF Current, TypeInv, CatalogueTyped
  <2>3. /\ op[1] \in DocsOf(p)
        /\ op[1][1] \in Variants => variants[op[1][1]].state = "live"
    BY <2>2, UpsertsAre
  <2> QED
    BY <2>2, <2>3
<1> HIDE DEF all
<1>8. NewOK
  <2>1. ASSUME NEW v \in Variants, variants[v].state = "new", NEW x \in Names
        PROVE  AreGone(index[x], {v})
    <3>1. AreGone(Empty, {v})
      BY EmptyIsGone DEF Entities
    <3>2. \A op \in all : op[1][1] = v => op[2] = None
      BY <1>7, <2>1
    <3>3. AreGone(Write(Empty, all), {v})
      BY <3>1, <3>2, WriteNothingNew
    <3> QED
      BY <1>2, <3>1, <3>3
  <2> QED
    BY <1>3, <2>1 DEF NewOK, Writing
<1>9. MainOK
  <2> SUFFICES ASSUME NEW p \in Products, NEW d \in DocsOf(p)
               PROVE  index[alias][d] = Wanted(p, products[p], variants, d)
    BY DEF MainOK, AreRight
  <2>1. d \in DocIds /\ Empty[d] = None /\ index[alias] = Write(Empty, all)
    BY <1>2, DocsOfProduct DEF Empty
  <2>2. products[p].live /\ products[p] \in ProductRow
    BY <1>1 DEF Init, TypeInv, CatalogueTyped
  <2>3. Upserts(p, products[p], VariantsOf(p)) \subseteq all
    BY <2>2 DEF Current, all
  <2>4. \A op \in all : op[1] = d =>
            op \in Upserts(p, products[p], VariantsOf(p)) /\ op[2] = Wanted(p, products[p], variants, d)
    <3>1. ASSUME NEW op \in all, op[1] = d
          PROVE  op \in Upserts(p, products[p], VariantsOf(p))
      <4>1. PICK q \in Products : op \in Upserts(q, products[q], VariantsOf(q)) /\ op[1] \in DocsOf(q)
        BY <1>7
      <4>2. q = p
        BY <3>1, <4>1, DocsOfProduct
      <4> QED
        BY <4>1, <4>2
    <3> QED
      BY <2>2, <3>1, UpsertsAreWanted
  <2>5. CASE \E op \in all : op[1] = d
    <3>1. (CHOOSE op \in all : op[1] = d) \in all /\ (CHOOSE op \in all : op[1] = d)[1] = d
      BY <2>5
    <3>2. Write(Empty, all)[d] = (CHOOSE op \in all : op[1] = d)[2]
      BY <2>1, <2>5 DEF Write
    <3> QED
      BY <2>1, <2>4, <3>1, <3>2
  <2>6. CASE \A op \in all : op[1] # d
    <3>1. Write(Empty, all)[d] = None
      BY <2>1, <2>6, WriteNothing
    <3>2. Wanted(p, products[p], variants, d) = None
      BY <2>3, <2>6, WantedIsUpserted
    <3> QED
      BY <2>1, <3>1, <3>2
  <2> QED
    BY <2>5, <2>6
<1> QED
  BY <1>1, <1>5, <1>6, <1>8, <1>9 DEF IndexInv, SettledInv

LEMMA StutterSettled ==
    ASSUME IndexInv, UNCHANGED vars PROVE SettledInv'
<1>1. /\ UNCHANGED <<products, variants, jobs, index, alias, runs, worker, stale>>
  BY DEF vars, catalogue, indices
<1>2. \A p : Rank(p)' = Rank(p) /\ Due(p)' = Due(p)
  BY <1>1 DEF Rank, Due, Waits
<1>3. \A w \in Workers : \A p : Elsewhere(w, p)' = Elsewhere(w, p)
  BY <1>1 DEF Elsewhere, Waits
<1>4. JobsOK' /\ ShapesOK' /\ NamesOK' /\ OverlapOK' /\ NewOK'
  BY <1>1 DEF IndexInv, SettledInv, JobsOK, JobOK, ShapesOK, NamesOK, OverlapOK, NewOK
<1>5. GoodOK' /\ MainOK'
  BY <1>1, <1>2, <1>3 DEF IndexInv, SettledInv, GoodOK, GoodAt, MainOK, TargetOf
<1> QED
  BY <1>4, <1>5 DEF SettledInv

LEMMA WorkSettled ==
    ASSUME IndexInv, NEW u \in Workers, Work(u) PROVE SettledInv'
<1>1. ASSUME NEW p \in Products, ReadProduct(u, p) PROVE SettledInv'
  BY <1>1, ReadLiveSettled, ReadDeletedSettled
<1>2. ASSUME NEW chunk \in SUBSET worker[u].ops, BulkSucceeds(u, chunk) PROVE SettledInv'
  <2>1. Bulk(u, chunk, chunk, TRUE) /\ UNCHANGED <<catalogue, alias, runs>> /\ jobs' = jobs
    BY <1>2 DEF BulkSucceeds, unchangedByJob
  <2> QED
    BY <2>1, BulkSettled
<1>3. CASE VariantsAreRead(u)
  BY <1>3, ReadVariantsSettled DEF VariantsAreRead
<1>4. CASE IndicesAreCreated(u)
  BY <1>4, CreateIndicesSettled DEF IndicesAreCreated
<1>5. CASE SwitchAlias(u)
  <2>1. UNCHANGED <<catalogue, index, runs>> /\ jobs' = jobs /\ worker[u].step = "switch"
    BY <1>5 DEF SwitchAlias, unchangedByReindex
  <2>2. CASE CanSwitch(u)
    BY <1>5, <2>1, <2>2, SwitchToSettled DEF SwitchAlias
  <2>3. CASE ~CanSwitch(u)
    BY <1>5, <2>1, <2>3, ToFinallySettled DEF SwitchAlias
  <2> QED
    BY <2>2, <2>3
<1> QED
  BY <1>1, <1>2, <1>3, <1>4, <1>5, TakeSettled, FindProductSettled, ReadPageSettled, LookupAliasSettled,
     DropOldIndexSettled, FinallySettled DEF Work

LEMMA FailSettled ==
    ASSUME IndexInv, NEW u \in Workers, Fail(u) PROVE SettledInv'
<1>1. ASSUME NEW chunk \in SUBSET worker[u].ops, NEW done \in SUBSET chunk, BulkFails(u, chunk, done)
      PROVE  SettledInv'
  <2>1. Bulk(u, chunk, done, FALSE) /\ UNCHANGED <<catalogue, alias, runs>> /\ jobs' = jobs
    BY <1>1 DEF BulkFails
  <2> QED
    BY <2>1, BulkSettled
<1>2. CASE VariantsReadFails(u)
  BY <1>2, ReadVariantsSettled DEF VariantsReadFails
<1>3. CASE CreateIndicesFails(u)
  BY <1>3, CreateIndicesSettled DEF CreateIndicesFails
<1>4. CASE SwitchFails(u)
  <2>1. UNCHANGED <<catalogue, index, runs>> /\ jobs' = jobs
    BY <1>4 DEF SwitchFails
  <2>2. CASE worker[u].step = "switch" /\ SwitchTo(u, "finally")
    BY <2>1, <2>2, SwitchToSettled
  <2>3. CASE /\ worker[u].step \in {"lookup", "switch", "drop"}
             /\ Goto(u, [worker[u] EXCEPT !.step = "finally"])
             /\ UNCHANGED <<alias, tempAliases, stale>>
    BY <2>1, <2>3, ToFinallySettled
  <2> QED
    BY <1>4, <2>2, <2>3 DEF SwitchFails
<1> QED
  BY <1>1, <1>2, <1>3, <1>4, JobFailsSettled, CrashSettled DEF Fail

LEMMA IndexStep == IndexInv /\ [Next]_vars => IndexInv'
<1> SUFFICES ASSUME IndexInv, [Next]_vars PROVE IndexInv'
  OBVIOUS
<1>1. TypeInv' /\ AliasInv'
  BY TypeStep, AliasStep DEF IndexInv
<1>2. ASSUME Edit PROVE SettledInv'
  BY <1>2, EditProductSettled, DeleteProductSettled, ToggleProductChannelSettled,
     CreateOrDeleteVariantSettled, ToggleVariantChannelSettled, EditVariantsSettled,
     ReindexMutationSettled DEF Edit
<1>3. ASSUME NEW w \in Workers, Work(w) \/ Fail(w) PROVE SettledInv'
  BY <1>3, WorkSettled, FailSettled
<1>4. ASSUME UNCHANGED vars PROVE SettledInv'
  BY <1>4, StutterSettled
<1>5. SettledInv'
  BY <1>2, <1>3, <1>4 DEF Next
<1> QED
  BY <1>1, <1>5 DEF IndexInv

\* Once no job about a product waits or runs, what search finds of it is what
\* the database holds, whatever was edited while its documents were written and
\* whatever failed meanwhile; excepted are the products of stale.
THEOREM QuietSearchIsCurrent == Spec => []QuietIndexIsCurrent
<1>1. ASSUME IndexInv PROVE QuietIndexIsCurrent
  <2> SUFFICES ASSUME NEW p \in Products, Quiet(p), p \notin stale
               PROVE  Served(p) = Current(p)
    BY DEF QuietIndexIsCurrent
  <2>1. ~Waits(p)
    <3>1. \A j \in jobs : j # None
      BY <1>1, NoneAssumption DEF IndexInv, TypeInv, CatalogueTyped, NoneAssumption
    <3> QED
      BY <3>1 DEF Quiet, Waits
  <2>2. ASSUME NEW w \in Workers PROVE p \notin DueOf(worker[w])
    <3>1. /\ Shape(worker[w]) /\ 0 \notin Products
          /\ worker[w].step # "idle" => worker[w].job # None
      BY <1>1, WorkerFacts, IndexingAssumption DEF Products, IndexingAssumption
    <3>2. worker[w].step # "idle" => p \notin worker[w].job.ids
      BY <3>1 DEF Quiet
    <3> QED
      BY <3>1, <3>2 DEF Shape, DueOf
  <2>3. AreRight(index[alias], p, products[p], variants)
    BY <1>1, <2>1, <2>2 DEF IndexInv, SettledInv, MainOK, Due
  <2> QED
    BY <1>1, <2>3, RightIsCurrent DEF IndexInv
<1> QED
  BY <1>1, IndexInit, IndexStep, PTL DEF Spec
=============================================================================
