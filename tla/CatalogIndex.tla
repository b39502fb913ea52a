---------------------------- MODULE CatalogIndex ----------------------------
(***************************************************************************)
(* The catalog and its search index (worker/tasks.py, indexing/indexer.py, *)
(* db/repos/catalog.py, api/v1/catalog.py): imports under a Redis lock,    *)
(* reindexing in batches, index versions with one active, and the file     *)
(* that an upload leaves for its import.                                   *)
(*                                                                         *)
(* A step is a committed transaction or a call to Redis, to the file       *)
(* system or to the embedding provider.  The statements of the transaction *)
(* that activates a version are two steps, because what the first has seen *)
(* decides what the second may do: at READ COMMITTED an UPDATE works on    *)
(* the rows that were committed when it began, in the state they have when *)
(* their lock is granted.                                                  *)
(***************************************************************************)
EXTENDS Integers, Sequences, FiniteSets

CONSTANTS
    Products,      \* product ids: numbers, in the order of ORDER BY product_id
    Keys,          \* source hashes
    Texts,         \* search documents
    Models,        \* embedding models
    Jobs,
    Inputs,        \* what a source may hold: sequences of items; <<>> is a source
                   \* that fails to parse or has no valid row
    BatchSize,     \* batch_size of reindex_catalog
    CatalogSlots,  \* max_jobs of the catalog worker
    MaxTries,      \* max_tries
    MaxFaults,     \* bound: crashes, shutdowns, Redis errors, expiries, deletions, rollbacks
    Providers,     \* embedding_provider: "none" or "hosted"
    None

ASSUME CatalogAssumption ==
    /\ Products \subseteq Nat /\ IsFiniteSet(Products)
    /\ IsFiniteSet(Jobs) /\ None \notin Jobs /\ Models # {}
    /\ Inputs \subseteq Seq([id : Products, key : Keys, text : Texts])
    /\ <<>> \in Inputs
    /\ BatchSize \in Nat \ {0} /\ CatalogSlots \in Nat
    /\ MaxTries \in Nat \ {0} /\ MaxFaults \in Nat

VARIABLES
    product,     \* catalog_products: the key and the text of each id
    indexed,     \* catalog_products.search_tsv: the ids whose vector is of their text
    embedding,   \* catalog_embeddings: the text that was embedded, and by which model
    versions,    \* index_versions: the ids
    active,      \* index_versions: those with is_active
    rollback,    \* the transaction of POST /catalog/rollback
    job,         \* each job, from the endpoint that makes it to its end
    lock,        \* the Redis key lock:catalog_import
    files,       \* the jobs whose uploaded file is on the disk
    faults,      \* how many of those there were
    lapsed,      \* history: the lock has failed somebody
    orphaned,    \* history: the uploads whose file nobody will take any more
    covers       \* history: the products that were there when each reindex counted
                 \* them, as long as nobody else touched the catalog

vars == <<product, indexed, embedding, versions, active, rollback, job, lock, files,
          faults, lapsed, orphaned, covers>>

\* The tables of a search, the index versions, and what belongs to the imports.
catalogVars == <<product, indexed, embedding, covers>>
versionVars == <<versions, active, rollback>>
importVars  == <<lock, files, lapsed, orphaned>>

Kinds   == {"upload", "remote", "dry_run", "reindex", "smart"}
Imports == {"upload", "remote", "dry_run"}

\* Where a job is: in its endpoint, in the queue, in its import, in its reindex, in
\* the matching of a smart upload, in a worker that has died, at its end.
Places == {"none", "written", "queued", "lock", "source", "upsert", "release",
           "ingest", "count", "read", "embed", "version", "activate", "match",
           "lost", "ended"}

Product   == [key : Keys, text : Texts]
Embedding == [text : Texts, model : Models]
Version   == Jobs \X (1 .. MaxTries)
Job == [kind : Kinds, pc : Places, input : Inputs, model : Models, tries : 0 .. MaxTries,
        holds : BOOLEAN,                   \* lock_acquired
        total : Nat, offset : Nat,         \* of the embedding loop
        rows : SUBSET (Products \X Texts), \* the batch that is being embedded
        seen : SUBSET Version]             \* what its UPDATE of the versions has seen

TypeOK ==
    /\ product \in [Products -> Product \cup {None}]
    /\ indexed \subseteq Products
    /\ embedding \in [Products -> Embedding \cup {None}]
    /\ versions \subseteq Version
    /\ active \subseteq versions
    /\ rollback \in [target : Version, seen : SUBSET Version] \cup {None}
    /\ job \in [Jobs -> Job]
    /\ lock \in Jobs \cup {None}
    /\ files \subseteq Jobs
    /\ faults \in 0 .. MaxFaults
    /\ lapsed \in BOOLEAN
    /\ orphaned \subseteq Jobs
    /\ covers \in [Jobs -> SUBSET Products]

\* None is no record of a table.
ASSUME NoneAssumption ==
    /\ None \notin Product /\ None \notin Embedding
    /\ None \notin [target : Version, seen : SUBSET Version]

\* The rows with is_active = true: nothing in the program sets it to false.
Present == {p \in Products : product[p] # None}

\* A job of the catalog worker that takes one of its slots.
Working(j) == job[j].kind # "smart"
              /\ job[j].pc \notin {"none", "written", "queued", "lost", "ended"}

\* Where an import is under the lock that it holds, and where a reindex is at work.
Importing(j)  == job[j].kind \in Imports /\ job[j].pc \in {"source", "upsert"}
Reindexing(j) == job[j].pc \in {"count", "read", "embed", "version", "activate"}

Becomes(j, t) == job' = [job EXCEPT ![j] = t]

At(j, place) == [job[j] EXCEPT !.pc = place]

\* A job that does not run, before its endpoint has made it and after its end.
Blank(place) ==
    [kind |-> "reindex", pc |-> place, input |-> <<>>, model |-> CHOOSE m \in Models : TRUE,
     tries |-> 0, holds |-> FALSE, total |-> 0, offset |-> 0, rows |-> {}, seen |-> {}]

\* A job between two runs.
Idle(j, place) ==
    [job[j] EXCEPT !.pc = place, !.holds = FALSE, !.total = 0, !.offset = 0,
                   !.rows = {}, !.seen = {}]

\* The batches are done, and the loop's variables are out of use.
Embedded(j) == [At(j, "version") EXCEPT !.total = 0, !.offset = 0, !.rows = {}]

\* The first step of a job of each kind.
FirstPlace(kind) == IF kind \in Imports THEN "lock"
                    ELSE IF kind = "reindex" THEN "count" ELSE "ingest"

Init ==
    /\ product = [p \in Products |-> None]
    /\ indexed = {}
    /\ embedding = [p \in Products |-> None]
    /\ versions = {} /\ active = {} /\ rollback = None
    /\ job = [j \in Jobs |-> Blank("none")]
    /\ lock = None
    /\ files = {} /\ orphaned = {}
    /\ faults = 0 /\ lapsed = FALSE
    /\ covers = [j \in Jobs |-> {}]

-----------------------------------------------------------------------------
(* The endpoints.                                                          *)

\* POST /catalog/upload writes the file and then enqueues its import; POST
\* /catalog/import, /catalog/reindex and /match/smart-upload enqueue theirs.
Submit(j) ==
    /\ job[j].pc = "none"
    /\ \E kind \in Kinds, input \in Inputs, model \in Models :
          /\ kind \in {"upload", "remote"} => model = job[j].model
          /\ kind \in {"dry_run", "reindex"} => input = <<>>
          /\ Becomes(j, [job[j] EXCEPT
                !.kind = kind, !.input = input, !.model = model,
                !.pc = IF kind = "upload" THEN "written" ELSE "queued"])
          /\ files' = IF kind = "upload" THEN files \cup {j} ELSE files
    /\ UNCHANGED <<catalogVars, versionVars, lock, lapsed, orphaned, faults>>

Enqueued(j) ==
    /\ job[j].pc = "written"
    /\ Becomes(j, At(j, "queued"))
    /\ UNCHANGED <<catalogVars, versionVars, importVars, faults>>

\* The handler removes the file when the enqueue raises.
EnqueueFails(j) ==
    /\ job[j].pc = "written"
    /\ faults < MaxFaults /\ faults' = faults + 1
    /\ Becomes(j, Blank("ended"))
    /\ files' = files \ {j}
    /\ UNCHANGED <<catalogVars, versionVars, lock, lapsed, orphaned>>

HandlerDies(j) ==
    /\ job[j].pc = "written"
    /\ faults < MaxFaults /\ faults' = faults + 1
    /\ Becomes(j, Blank("ended"))
    /\ orphaned' = orphaned \cup {j}
    /\ UNCHANGED <<catalogVars, versionVars, lock, files, lapsed>>

-----------------------------------------------------------------------------
(* The queue and the workers.                                              *)

Start(j) ==
    /\ job[j].pc = "queued"
    /\ job[j].tries < MaxTries
    /\ job[j].kind = "smart" \/ Cardinality({k \in Jobs : Working(k)}) < CatalogSlots
    /\ Becomes(j, [job[j] EXCEPT !.pc = FirstPlace(job[j].kind), !.tries = @ + 1])
    /\ UNCHANGED <<catalogVars, versionVars, importVars, faults>>

\* arq gives a job up that has had its tries.
GiveUp(j) ==
    /\ job[j].pc = "queued"
    /\ job[j].tries = MaxTries
    /\ Becomes(j, Blank("ended"))
    /\ orphaned' = IF j \in files THEN orphaned \cup {j} ELSE orphaned
    /\ UNCHANGED <<catalogVars, versionVars, lock, files, lapsed, faults>>

\* A worker is killed: its jobs stay marked as in progress, and
\* neither the lock nor the files are seen to.  A death in a job's last try is free: its
\* tries bound it.
WorkerDies(w) ==
    LET Dies(j) == /\ job[j].pc \notin {"none", "written", "queued", "ended", "lost"}
                   /\ (w = "match") <=> (job[j].kind = "smart")
    IN /\ \/ faults < MaxFaults /\ faults' = faults + 1
          \/ /\ \E j \in Jobs : Dies(j) /\ job[j].tries = MaxTries
             /\ UNCHANGED faults
       /\ job' = [j \in Jobs |-> IF Dies(j) THEN Idle(j, "lost") ELSE job[j]]
       /\ covers' = [j \in Jobs |-> IF Dies(j) THEN {} ELSE covers[j]]
       /\ UNCHANGED <<product, indexed, embedding, versionVars, importVars>>

\* The mark of progress outlives every job timeout, and so the lock of the job.
Requeue(j) ==
    /\ job[j].pc = "lost"
    /\ lock # j
    /\ Becomes(j, At(j, "queued"))
    /\ UNCHANGED <<catalogVars, versionVars, importVars, faults>>

\* A timeout or the shutdown of a worker cancels a job where it awaits something:
\* the finally blocks run, and after a shutdown the job is queued again.
Cancel(j) ==
    /\ \/ job[j].pc \in {"lock", "upsert", "ingest", "count", "read", "embed",
                         "version", "activate", "match"}
       \/ job[j].pc = "source" /\ job[j].kind # "upload"
    /\ faults < MaxFaults /\ faults' = faults + 1
    /\ \/ Becomes(j, Idle(j, "queued")) /\ UNCHANGED orphaned
       \/ /\ Becomes(j, Blank("ended"))
          /\ orphaned' = IF job[j].pc = "lock" /\ j \in files
                         THEN orphaned \cup {j} ELSE orphaned
    /\ covers' = [covers EXCEPT ![j] = {}]
    /\ files' = IF Importing(j) THEN files \ {j} ELSE files
    /\ lock' = IF job[j].holds THEN None ELSE lock
    /\ UNCHANGED <<product, indexed, embedding, versionVars, lapsed>>

-----------------------------------------------------------------------------
(* catalog_import.                                                         *)

\* Plausible bug: SET without nx=True.
AcquireTakenLock(j) ==
    /\ job[j].pc = "lock"
    /\ lock' = j
    /\ Becomes(j, [job[j] EXCEPT !.pc = "source", !.holds = TRUE])
    /\ UNCHANGED <<catalogVars, versionVars, files, lapsed, orphaned, faults>>

AcquireLock(j) ==
    /\ job[j].pc = "lock"
    /\ lock = None
    /\ lock' = j
    /\ Becomes(j, [job[j] EXCEPT !.pc = "source", !.holds = TRUE])
    /\ UNCHANGED <<catalogVars, versionVars, files, lapsed, orphaned, faults>>

\* "Another import is already running": the job is over before the block that would
\* remove its file.
Refused(j) ==
    /\ job[j].pc = "lock"
    /\ lock # None
    /\ Becomes(j, Blank("ended"))
    /\ orphaned' = IF j \in files THEN orphaned \cup {j} ELSE orphaned
    /\ UNCHANGED <<catalogVars, versionVars, lock, files, lapsed, faults>>

\* "Redis unavailable for import lock, proceeding without lock".
RedisDown(j) ==
    /\ job[j].pc = "lock"
    /\ faults < MaxFaults /\ faults' = faults + 1
    /\ lapsed' = TRUE
    /\ Becomes(j, At(j, "source"))
    /\ UNCHANGED <<catalogVars, versionVars, lock, files, orphaned>>

\* ex=600: the key expires, whether its job is done or not.
LockExpires ==
    /\ lock # None
    /\ IF job[lock].holds THEN faults < MaxFaults /\ faults' = faults + 1
                          ELSE UNCHANGED faults
    /\ lapsed' = (lapsed \/ job[lock].holds)
    /\ lock' = None
    /\ UNCHANGED <<catalogVars, versionVars, job, files, orphaned>>

\* Plausible bug: the finally of an import does not unlink the file.
LeaveFile(j) ==
    /\ UNCHANGED files
    /\ Becomes(j, IF job[j].holds THEN At(j, "release") ELSE Blank("ended"))

\* The end of an import: the file is removed, and then, if the import has taken the
\* lock, the lock is deleted.
Leave(j) ==
    /\ files' = files \ {j}
    /\ Becomes(j, IF job[j].holds THEN At(j, "release") ELSE Blank("ended"))

\* The file is gone or unreadable, the download or 1C fails, or there is no valid
\* row; or it was a dry run, and the import is done.
SourceEnds(j) ==
    /\ job[j].pc = "source"
    /\ \/ job[j].kind = "upload" /\ (j \notin files \/ job[j].input = <<>>)
       \/ job[j].kind \in {"remote", "dry_run"}
    /\ Leave(j)
    /\ UNCHANGED <<catalogVars, versionVars, lock, lapsed, orphaned, faults>>

SourceRead(j) ==
    /\ job[j].pc = "source"
    /\ job[j].kind # "dry_run"
    /\ job[j].input # <<>>
    /\ job[j].kind = "upload" => j \in files
    /\ Becomes(j, At(j, "upsert"))
    /\ UNCHANGED <<catalogVars, versionVars, importVars, faults>>

\* Deletes the key without a look at whose it is.
Release(j) ==
    /\ job[j].pc = "release"
    /\ lock' = None
    /\ Becomes(j, Blank("ended"))
    /\ UNCHANGED <<catalogVars, versionVars, files, lapsed, orphaned, faults>>

ReleaseFails(j) ==
    /\ job[j].pc = "release"
    /\ faults < MaxFaults /\ faults' = faults + 1
    /\ Becomes(j, Blank("ended"))
    /\ UNCHANGED <<catalogVars, versionVars, importVars>>

-----------------------------------------------------------------------------
(* The products.                                                           *)

Item(j, i) == job[j].input[i]

\* The table after INSERT ... ON CONFLICT (product_id) DO UPDATE.
Upserted(j) ==
    [p \in Products |->
        IF \E i \in DOMAIN job[j].input : Item(j, i).id = p
        THEN LET i == CHOOSE i \in DOMAIN job[j].input : Item(j, i).id = p
             IN [key |-> Item(j, i).key, text |-> Item(j, i).text]
        ELSE product[p]]

\* The statement touches one row twice, or two rows have one source_hash.
Conflicts(j) ==
    \/ \E i, k \in DOMAIN job[j].input : i # k /\ Item(j, i).id = Item(j, k).id
    \/ \E p, q \in Products :
          /\ p # q /\ Upserted(j)[p] # None /\ Upserted(j)[q] # None
          /\ Upserted(j)[p].key = Upserted(j)[q].key

Upsert(j) ==
    /\ job[j].pc \in {"upsert", "ingest"}
    /\ ~Conflicts(j)
    /\ product' = Upserted(j)
    /\ indexed' = {p \in indexed : product'[p].text = product[p].text}
    /\ covers' = [k \in Jobs |-> {}]
    /\ IF job[j].pc = "upsert"
       THEN Leave(j)
       ELSE /\ Becomes(j, At(j, IF job[j].input = <<>> THEN "match" ELSE "count"))
            /\ UNCHANGED files
    /\ UNCHANGED <<embedding, versionVars, lock, lapsed, orphaned, faults>>

\* The statement is refused, or it loses a deadlock with another upsert.
UpsertFails(j) ==
    /\ job[j].pc \in {"upsert", "ingest"}
    /\ IF Conflicts(j) THEN UNCHANGED faults
                       ELSE faults < MaxFaults /\ faults' = faults + 1
    /\ IF job[j].pc = "upsert" THEN Leave(j)
                               ELSE Becomes(j, Blank("ended")) /\ UNCHANGED files
    /\ UNCHANGED <<catalogVars, versionVars, lock, lapsed, orphaned>>

\* DELETE /catalog/products/{product_id}: the embedding goes with the row.
DeleteProduct(p) ==
    /\ product[p] # None
    /\ faults < MaxFaults /\ faults' = faults + 1
    /\ product' = [product EXCEPT ![p] = None]
    /\ indexed' = indexed \ {p}
    /\ embedding' = [embedding EXCEPT ![p] = None]
    /\ covers' = [k \in Jobs |-> {}]
    /\ UNCHANGED <<versionVars, job, importVars>>

-----------------------------------------------------------------------------
(* reindex_catalog.                                                        *)

\* The first transaction: the search vectors, and the number of products.
Count(j) ==
    /\ job[j].pc = "count"
    /\ indexed' = Present
    /\ \E provider \in Providers :
          /\ Becomes(j, IF provider = "none" \/ Present = {} THEN Embedded(j)
                        ELSE [At(j, "read") EXCEPT !.total = Cardinality(Present)])
          /\ covers' = [covers EXCEPT ![j] = IF provider = "none" THEN {} ELSE Present]
    /\ UNCHANGED <<product, embedding, versionVars, importVars, faults>>

\* WHERE e.product_id IS NULL, of the join on the model.
Needing(m) == {p \in Present : embedding[p] = None \/ embedding[p].model # m}

\* ORDER BY product_id LIMIT batch_size.
Batch(S) == {p \in S : Cardinality({q \in S : q < p}) < BatchSize}

Rows(batch) == {<<p, product[p].text>> : p \in batch}

\* Plausible bugs: OFFSET :offset into the products that are still without an
\* embedding; or no break at an empty batch.
ReadBatchAtOffset(j) ==
    /\ job[j].pc = "read"
    /\ LET Skipped(S) == {p \in S : Cardinality({q \in S : q < p}) < job[j].offset}
           needing    == Needing(job[j].model)
           batch      == Batch(needing \ Skipped(needing))
       IN Becomes(j, IF batch = {} THEN Embedded(j)
                     ELSE [At(j, "embed") EXCEPT !.rows = Rows(batch)])
    /\ UNCHANGED <<catalogVars, versionVars, importVars, faults>>
ReadBatchForever(j) ==
    /\ job[j].pc = "read"
    /\ Needing(job[j].model) # {}
    /\ Becomes(j, [At(j, "embed") EXCEPT !.rows = Rows(Batch(Needing(job[j].model)))])
    /\ UNCHANGED <<catalogVars, versionVars, importVars, faults>>

ReadBatch(j) ==
    /\ job[j].pc = "read"
    /\ LET batch == Batch(Needing(job[j].model))
       IN Becomes(j, IF batch = {} THEN Embedded(j)
                     ELSE [At(j, "embed") EXCEPT !.rows = Rows(batch)])
    /\ UNCHANGED <<catalogVars, versionVars, importVars, faults>>

\* The provider has answered.
WriteBatch(j) ==
    /\ job[j].pc = "embed"
    /\ \A r \in job[j].rows : product[r[1]] # None
    /\ embedding' = [p \in Products |->
          IF \E t \in Texts : <<p, t>> \in job[j].rows
          THEN [text |-> CHOOSE t \in Texts : <<p, t>> \in job[j].rows,
                model |-> job[j].model]
          ELSE embedding[p]]
    /\ covers' = [k \in Jobs |-> IF job[k].model = job[j].model THEN covers[k] ELSE {}]
    /\ LET offset == job[j].offset + BatchSize
       IN Becomes(j, IF offset >= job[j].total THEN Embedded(j)
              ELSE [At(j, "read") EXCEPT !.rows = {}, !.offset = offset])
    /\ UNCHANGED <<product, indexed, versionVars, importVars, faults>>

\* After the reindex, which may have raised: a smart upload goes on.
AfterReindex(j) == IF job[j].kind = "smart" THEN Idle(j, "match") ELSE Blank("ended")

\* A product of the batch was deleted, and its embedding has nothing to refer to; or
\* the provider has failed for good.
BatchFails(j) ==
    /\ job[j].pc = "embed"
    /\ IF \A r \in job[j].rows : product[r[1]] # None
       THEN faults < MaxFaults /\ faults' = faults + 1
       ELSE UNCHANGED faults
    /\ Becomes(j, AfterReindex(j))
    /\ covers' = [covers EXCEPT ![j] = {}]
    /\ UNCHANGED <<product, indexed, embedding, versionVars, importVars>>

\* UPDATE index_versions SET is_active = false WHERE is_active = true, up to the
\* wait for the rows.
Deactivate(j) ==
    /\ job[j].pc = "version"
    /\ Becomes(j, [job[j] EXCEPT !.pc = "activate", !.seen = active])
    /\ UNCHANGED <<catalogVars, versionVars, importVars, faults>>

\* uq_index_versions_active.
IsUnique(S) == \A v, w \in S : v = w

\* Plausible bug: index_versions has no unique index on is_active.
ActivateBeside(j) ==
    /\ job[j].pc = "activate"
    /\ versions' = versions \cup {<<j, job[j].tries>>}
    /\ active' = (active \ job[j].seen) \cup {<<j, job[j].tries>>}
    /\ Becomes(j, AfterReindex(j))
    /\ covers' = [covers EXCEPT ![j] = {}]
    /\ UNCHANGED <<product, indexed, embedding, rollback, importVars, faults>>

\* The INSERT and the commit.
Activate(j) ==
    /\ job[j].pc = "activate"
    /\ LET version == <<j, job[j].tries>>
           now     == (active \ job[j].seen) \cup {version}
       IN IF IsUnique(now)
          THEN /\ versions' = versions \cup {version}
               /\ active' = now
          ELSE UNCHANGED <<versions, active>>
    /\ Becomes(j, AfterReindex(j))
    /\ covers' = [covers EXCEPT ![j] = {}]
    /\ UNCHANGED <<product, indexed, embedding, rollback, importVars, faults>>

-----------------------------------------------------------------------------
(* POST /catalog/rollback.                                                 *)

\* Plausible bug: the target is not looked up first.
RollBackUnchecked(v) ==
    /\ rollback = None
    /\ faults < MaxFaults /\ faults' = faults + 1
    /\ rollback' = [target |-> v, seen |-> versions]
    /\ UNCHANGED <<catalogVars, versions, active, job, importVars>>

\* The target exists, and the UPDATE of all rows has begun.
RollBack(v) ==
    /\ rollback = None
    /\ v \in versions
    /\ faults < MaxFaults /\ faults' = faults + 1
    /\ rollback' = [target |-> v, seen |-> versions]
    /\ UNCHANGED <<catalogVars, versions, active, job, importVars>>

RollBackEnds ==
    /\ rollback # None
    /\ LET now == (active \ rollback.seen) \cup {rollback.target}
       IN active' = IF IsUnique(now) THEN now ELSE active
    /\ rollback' = None
    /\ UNCHANGED <<catalogVars, versions, job, importVars, faults>>

\* The items of a smart upload are matched (BatchProcess), and the job is done.
Match(j) ==
    /\ job[j].pc = "match"
    /\ Becomes(j, Blank("ended"))
    /\ UNCHANGED <<catalogVars, versionVars, importVars, faults>>

-----------------------------------------------------------------------------
JobStep(j) ==
    \/ Enqueued(j) \/ Start(j) \/ GiveUp(j) \/ Requeue(j)
    \/ AcquireLock(j) \/ Refused(j) \/ SourceEnds(j) \/ SourceRead(j) \/ Release(j)
    \/ Upsert(j) \/ UpsertFails(j)
    \/ Count(j) \/ ReadBatch(j) \/ WriteBatch(j) \/ BatchFails(j)
    \/ Deactivate(j) \/ Activate(j) \/ Match(j)

JobFault(j) == EnqueueFails(j) \/ HandlerDies(j) \/ Cancel(j) \/ RedisDown(j) \/ ReleaseFails(j)

Next ==
    \/ \E j \in Jobs : Submit(j) \/ JobStep(j) \/ JobFault(j)
    \/ \E w \in {"match", "catalog"} : WorkerDies(w)
    \/ \E p \in Products : DeleteProduct(p)
    \/ \E v \in Version : RollBack(v)
    \/ RollBackEnds
    \/ LockExpires

Spec == Init /\ [][Next]_vars

\* Every call of a job has a timeout or raises, a worker restarts (restart:
\* unless-stopped), a key with ex=600 expires.  Nobody need submit, delete or begin a rollback.
Fairness ==
    /\ \A j \in Jobs : WF_vars(JobStep(j))
    /\ WF_vars(LockExpires)

FairSpec == Spec /\ Fairness

-----------------------------------------------------------------------------
\* catalog_import, "called under Redis lock": as long as the lock has not expired under
\* its owner and Redis has answered, no two imports are between their source and the
\* commit of their products.
ImportsExclude ==
    ~lapsed => \A j, k \in Jobs : Importing(j) /\ Importing(k) => j = k

\* create_version and activate_index_version: whatever reindexes and rollbacks meet, at
\* most one version is active, and from the first version on one is.
OneActive == IsUnique(active) /\ (active = {} <=> versions = {})

\* reindex_catalog: when the batches are done, every product that was there when they
\* were counted has an embedding of the model, if no import, delete or reindex with
\* another model came in between; other reindexes with the same model may.
ReindexCovers ==
    \A j \in Jobs : job[j].pc \in {"version", "activate"} =>
        \A p \in covers[j] : embedding[p] # None /\ embedding[p].model = job[j].model

\* upload_catalog_file and the finally of _do_catalog_import: a file on the disk has a
\* job that will remove it, or its job was refused by the lock, given up, or lost with
\* the handler.
FileHasJob ==
    \A j \in files : \/ j \in orphaned
                     \/ job[j].pc \in {"written", "queued", "lock", "source", "upsert", "lost"}

\* arq and the two workers: a job that was submitted ends, whatever dies.
JobsEnd == \A j \in Jobs : job[j].pc # "none" ~> job[j].pc = "ended"

\* reindex_catalog, "Reindex the entire catalog": when the batches are done, the
\* embeddings are of the current texts.
RebuildsEmbeddings ==
    \A j \in Jobs : job[j].pc = "version" =>
        \A p \in covers[j] : embedding[p].text = product[p].text
=============================================================================
