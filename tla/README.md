# Verification of the sales nomenclature matcher

TLA+ models of the program in `src/`, checked with TLC and proved with TLAPS.
The program matches lines of supplier price lists to products of a catalog: an
API takes files or lists of lines, a worker runs a pipeline of retrieval,
scoring and language models over each line, and people review what the pipeline
is not sure of.

## The system

Two API processes (`uvicorn --workers 2`), one match worker and one catalog
worker (arq) share a PostgreSQL database and a Redis. Each process has its own
copy of the settings and its own caches.

| Component | State | Operations | Talks to |
|---|---|---|---|
| Match API (`api/v1/match.py`, `upload.py`) | `match_requests`, `match_request_items` | upload, batch, smart upload, sync, retry, delete, read | database, arq queue |
| Queue (`queueing.py`, arq) | jobs, kept results, retry counters | enqueue under the request id | Redis |
| Match worker (`worker/`) | coroutine of each job, shared counters of a batch | `batch_match`, `smart_upload`, startup recovery | database, Redis, providers |
| Review (`api/v1/review.py`) | review columns of an item, golden labels, aliases, mappings | single and bulk review | database |
| Catalog (`db/repos/catalog.py`, `indexing/`) | products, embeddings, index versions, import lock | import, reindex, upsert, delete | database, Redis, embedder |
| Settings (`api/v1/settings.py`) | one table, one copy per process | load, update, persist | database |
| Pipeline (`pipeline/`, `indexing/search.py`) | circuit breaker, caches of the count and the catalog | `match_single`: override, model, retrieval, reranking, scoring, agent | database, providers |
| Ingestion (`ingestion/`) | none | reading workbooks, fetching the 1C catalog page by page | model, 1C |
| Schema (`migrations/`, `db/models.py`) | the tables | upgrade, downgrade | database |
| Auth (`api/v1/auth.py`, `users.py`, `security/`) | users, attempt counters | login, roles, rate limits | database, Redis |

What makes it hard:

* **Two stores.** A request row is in PostgreSQL, its job in Redis, and no
  transaction spans them. Every handler commits to one, calls the other, and
  commits again; the worker and other handlers act in between.
* **Tasks in one process.** A batch is one asyncio task per item, with shared
  counters, and reports that leave the lock before they are written.
* **Failure.** Every error path writes something, and every such write can fail
  too. A worker may be killed anywhere and recovers at its next start.
* **arq's job ids.** A job is not enqueued again while its id has a job or a
  kept result, and the caller does not look at what `enqueue_job` returns.
* **Copies.** Settings, the product count and the LLM catalog are cached per
  process.

What each component must keep: the batch worker, exact counters and no write
after the final status; the lifecycle, no request that is stuck without a
reason and no "done" request without results; review, one standing decision per
item; the catalog, one active index version and an embedding for every product;
settings, no lost update and none that was never saved; the pipeline, an answer for
every item and none that contradicts itself; login and accounts, the limits they
state and an administrator; ingestion, every row exactly once; migrations, the
declared schema and the rows. PROJECT.json lists the hazards, each at its line, and
the properties that are about them.

## The modules

**Requests and reviews**

* `MatchOutcomes` - the item statuses and the four counters, shared by the others.
* `BatchAbs` - what one run of a batch promises whoever polls the request.
* `BatchProcess` - one run of `_process_batch`. A step is a committed
  transaction or a section under the `asyncio.Lock` (it awaits nothing). `pc` is
  where the task of each item is, `row` and `saved` are the item row and its
  candidates, `counters` the shared dict, `snapshot` the copy that a task takes to
  its progress report, `request` the row that clients poll. What `match_single`
  decides, whether it offers alternatives and whether it raises is arbitrary.
* `RequestLifecycle` - the request row from creation to its end: the API
  handlers, each as its commits and calls; arq as a job, a kept result and a retry
  counter per request; the worker with its startup recovery. The batch is the set
  of items it has counted (`counted`), the item rows are the set that holds a
  result (`fresh`). An item that raises and whose error cannot be recorded either is
  counted without one (`LoseItem`). `cause` and `unrecorded` are history variables: the
  reasons why the request may be left alone, emptied when a run of it begins, and the
  items of this run that were lost like that.
* `Review` - the transactions on the items of one request: `review_item`,
  `batch_review_items`, and the retry, recovery, delete and worker writes that
  touch the same rows. A step is one row lock, one unlocked read, one decision, or
  a commit. `tx` holds what a session has read, waits for and has written, `lock` the
  holder of each row, `item` and `label` what is committed. The database is
  PostgreSQL at READ COMMITTED: a locking read sees the row as it is when the lock is
  granted, plain reads lock nothing, rows of one statement are locked in any order,
  a deadlock costs one transaction. The worker's transaction locks one row only and
  is one step. The status of the request is `RequestLifecycle`'s matter: here a
  retry or a recovery may come at any time before the delete.

**The catalog**

* `CatalogIndex` - imports under the Redis lock, reindexing in batches, index
  versions, the file that an upload leaves, as jobs of two workers that die, are shut
  down and retry. `job` is where each job is (its handler's commits and calls one by
  one), `product` and `embedding` the tables, `active` the active versions, `lock` the
  Redis key with its owner, `files` what is on the disk. The transaction that activates
  a version is two steps, since at READ COMMITTED the second statement meets what
  others have committed after the first. History: `covers`, what a reindex has
  promised to embed; `lapsed`, whether the lock has expired under its owner or Redis
  failed; `orphaned`, files whose job was refused, given up or lost. The bulk deletion of products
  answers 410 and is no action.

**One item**

* `MatchPipeline` - `match_single` for the items that one process matches at the same
  time, with the cached product count and catalog that they share, beside imports and
  deletions. `stage` is where each item is; a step goes from one await on shared state or on a
  provider to the next. A score is known by the threshold it reaches, a text not at all.
* `Scoring` - `compute_pair_features`, `score_candidate` and `decide`, in integers: a
  feature in thousandths, a score in hundred-thousandths.
* `Retrieval` - `hybrid_search` as an algorithm: two ranked lists, their limits, the reciprocal
  rank fusion, the relaxed search.
* `ProviderAnswers` - what the code does with the answers of the embedding providers,
  the batch matcher and the rerankers: placing vectors by position, entries by the index
  they say, and bringing scores to one scale, whatever comes back. The scores of the local
  CrossEncoder have a scale of their own: `_local_rerank` passes them on as they are.
* `CircuitBreaker` - the breaker of one provider under callers that overlap. `left`
  stands for `open_until`; `outcomes` is the history of reports.

**Processes and people**

* `RuntimeSettings` - several processes with a copy each (`memory`) over one table
  (`stored`), loads and updates as tasks under the lock of their process, failing
  transactions, restarts. `wanted`, `saved` and `overtaken` are history.
* `RateLimit` - the two Redis limiters of one address, a step per Redis command.
* `Accounts` - users, and requests of administrators and of users that overlap. A
  request keeps the row it has seen, because its UPDATE carries only the columns that
  differ from that.

**Data that comes in**

* `FileAnalysis`, `MCFiles` - how a workbook is read: the best sheet, the columns
  that part its tables, headers, name columns, the side each table stands for; by the
  model, by rules, as a single table, or by the columns of a catalog file. A cell is a
  text with what the rules look at (its length, a keyword, a number).
* `OneCFetch` - `fetch_onec_catalog`: groups, count, pages with `$skip`, paths, beside
  1C users who create, delete and move items and groups. An item is its code, and its place on the
  pages is its rank among the codes that are there; the groups form a forest. `home` is the
  group that an item is in now, `keys` the ones that the pages have brought, looked up when the
  last page is in; `homes` is the history of the groups that it was in since the count. A group
  is deleted when nothing is in it, since 1C keeps what is referred to.
* `Ranks` - the numbers of a finite set in their order, for both.
* `Migrations`, `MCMigrations` - the eleven revisions, up and down, in commands that are each one
  transaction (`run_migrations_online`), over columns, constraints and the rows that an
  application of that revision may have written. A column is a name and whether it may be
  null; types, defaults and indexes are left out. The declared schema is that of `db/models.py`,
  written column by column beside what the migrations build. A value of the settings table is what it
  says of each provider: a key, an address, or that its entry cannot be read.

**Composition and proofs**

* `MCServices` - the components of the last three groups in one run. They
  share no state in the code either, so each behaviour moves one of them (`focus`) while
  the others rest, and the states of the run are the sum of theirs, not the product.
* `MCReview`, `MCCatalog`, `MCPipeline` - the instances that TLC checks, and their symmetry.
* `BatchProcess_proofs`, `RequestLifecycle_proofs`, `Review_proofs`, `CatalogIndex_proofs`,
  `MatchPipeline_proofs`, `Guards_proofs` (circuit breaker, accounts, rate limits, settings),
  `Answers_proofs` (answers of providers, of the database, of 1C, and what is read of files) and
  `Migrations_proofs` - the theorems.

BatchProcess refines BatchAbs by the mapping at its end: an item is decided in
the step that counts it, not in the one that writes its row.

The operators that stand before a definition under "Plausible bug" are what the
code might have said. No specification uses them; each shows that one property
would notice.

## The runs

| Run | Shows |
|---|---|
| `batch_process` | three items, two slots, a report after every item. The counters are the tally of the rows of the counted items whichever items raise and whether or not their errors are recorded; "done" is complete; candidates are saved once; no late report undoes the final status; every run ends; the run implements `BatchAbs`. |
| `request_lifecycle` | one request, two items, two handlers, one retry, two faults, all three endpoints. A request that nobody works on is over or has a named cause; "done" has its results if nobody retried, but for items whose error could not be recorded; every job leaves the queue; what startup recovers is run to its end if arq lets it. |
| `retry_is_queued` | violation: a retry while arq keeps the last result is not enqueued and reported as queued. |
| `retry_reprocesses` | violation: a retry during a run blanks results that the run does not produce again. |
| `orphans_are_recovered` | violation: requests of `/match/batch` are stored as `match_sync` and not recovered. |
| `review` | three transactions of any kind, two items, two reviewers. What a single review decides fits the row as it is at the commit; somebody else's decision is replaced only in bulk; a deadlock involves a bulk review, a retry or two sweeps. |
| `review_ends` | two transactions, bulk reviews of up to two entries among them. Every transaction ends. |
| `cleared_is_pending` | violation: a retry leaves reviewed items decided about results that are gone. |
| `catalog` | two jobs of any kind, two products, texts, hashes and models, one fault. Imports exclude each other until their lock has lapsed; one version is active; a reindex that nothing disturbs leaves every product it counted with an embedding; every uploaded file has a job that will remove it, or was left by a named way; every job ends. |
| `rebuilds_embeddings` | violation: a product whose text an import has changed keeps the embedding of the old one through a "rebuild". |
| `services` | the eleven components of the other groups; below. |
| `stale_catalog` | violation: a smart upload imports into the catalog and matches against the copy that its process has cached before. |

What `services` shows, by component:

* Pipeline: an item fails only for the named causes, never because a provider does
  (`ErrorHasCause`); status, product, name and alternatives of a result fit
  (`ResultIsCoherent`).
* Scoring: weights, bonuses and penalties together let a match be automatic only when
  it is earned, and the greedy pairing of numbers is at least half of the best
  (`AutoMatchIsEarned`).
* Retrieval: a product that another beats in both lists never comes before it, whatever
  the limits cut (`FusionMonotone`).
* Providers' answers: what is said of one input is not taken for another's, however
  short, long or disordered the answers (`InPlace`); the best candidate of a reranker stays
  in and stays the best, and the scores of hosted ones are brought to one scale, those of the local
  model left as they are (`RankingIsComparable`): `AnswersInPlace` is both.
* Breaker: it opens only after a run of failures (`TripNeedsRun`).
* Settings: what was saved survives updates of other settings in other processes, unless
  those had read the table before (`UpdatesSurvive`); nothing unsaved is worked with
  (`OnlySavedSettings`).
* Accounts: an administrator remains, unless a request was carried out whose
  author had just ceased to be one (`AdminRemains`); a
  reset password has to be changed (`ResetForcesChange`).
* Limits: a block bounds the guesses, one more per request that overlaps
  (`GuessesBounded`).
* Files: of every file that is readable by rules, every name is listed once
  (`TablesAreRead`). 1C: every named item whose place in the order no edit has moved is fetched
  once, under a group that it was in since the count, with the path of that group if it was read
  and has not changed (`FetchComplete`).
* Migrations: at the head, the columns and constraints are the declared ones, apart from named
  differences, whichever way the database came there (`SchemaIsDeclared`). No row or value is lost
  but duplicates and what hangs on them, the addresses of providers, and on the way down the keys
  of all providers but four; a command fails for four causes only (`RowsKept`).
* `WaitingEnds`: every item is saved or fails; an open circuit is passed again; an
  address over the limit is let in again, unless its counter never got an expiry.

**Bounds.** Three items and two slots make one item wait for a slot while two
others race through their reports, counts and errors; a report after every item
makes every pair of reports overlap. Requests do not interact except through
faults (one worker serves them all), so one request with two handlers and one worker has every
race that the properties speak of; two faults allow a crash during the recovery
from a crash. `MaxRetries` and `MaxFaults` bound user retries and failures and
occur in guards only; the proofs hold for every value of them. In `review` three
sessions let a third party commit while two wait; one product and a missing one
suffice, because an item's best product changes between it and none. `MaxEntries` is 1
there, as a bulk review of one entry already reads before it locks; `review_ends` has
the two entries by which bulk reviews block each other. `MaxTransactions` occurs in one
guard, and when it is used up the system stops, so these runs do not check deadlock.
`catalog`: two jobs suffice for every pair of overlaps (import beside import, reindex
beside reindex, rollback or import); three inputs, of which two conflict; batches of
one, so that a reindex of two products takes two; `MaxFaults` is 1 (crash, shutdown,
Redis error, expiry, deletion, rollback), and a death in a job's last try comes free.
`services`: two items and two products, one of which a change of the catalog takes or
brings, a model called once for all or for each item, two turns of the agent; three
failures open the circuit for two ticks, with two callers; two people who may both
be administrators and two requests; windows of two ticks; two processes, tasks and
settings with two updates and one failure; numbers that are equal, within the tolerance
or apart, in lists of up to three, and every combination of the other features; lists
of three products cut to two; three items and up to three groups in 1C (a chain deeper than the two levels of a
path, two trees, a group still to come), pages of two, an answer of two groups; two edits, so
that an item is moved and its old group deleted, or two items change ahead of a page; workbooks with up to two tables
side by side, drawn by `MCFiles`; two migration commands of any length from any
revision, over contents in which each migration has something to lose (three products of one
name, two of them of the same age or not; a provider of each kind, an empty key, a registry cut short); four inputs in batches
of two with answers one too short to one too long, and rankings of up to two entries
(`MaxScored`) with scores below, on and above the scale. Every bound on time, tries and edits is named and occurs in one guard.

**Fairness.** `BatchProcess`: weak fairness of the batch's own steps, because an
event loop runs what is ready and every call the code makes has a timeout or
raises. `RequestLifecycle`: weak fairness of each handler's next step, of the
worker's steps, and of its restart (`restart: unless-stopped` in
`docker-compose.prod.yml`). No fairness of users, faults, progress reports or
the expiry of results. `Review`: weak fairness of each session's next step, of the
database granting a free row, and of its deadlock detection; none of new
transactions or of rollbacks. PostgreSQL queues the waiters of a row, and here the
bound on transactions stands for that queue. `request_lifecycle` switches the deadlock check off: a
system whose requests are all over, with no retry left, does stop.
`catalog`: weak fairness of each job's next step (calls
have timeouts, workers restart) and of the expiry of a key with `ex=600`; none of users or
faults. `services`: weak fairness of every item's and request's next step (the event loop),
of the end of every provider call (they have timeouts), and of time. `catalog` and
`services` switch the deadlock check off, because jobs, items and computations end.

## The proofs

All theorems are for any values of the constants, from `BatchAssumption`
(finitely many items, positive concurrency and interval), `LifecycleAssumption`,
`ReviewAssumption` with `NullAssumption` (the request is no item, NULL and the missing
product id are nothing else), `CatalogAssumption` with `NoneAssumption` (finitely many products and jobs,
products in an order, positive batch size and tries), `BreakerAssumption` (positive threshold and timeout),
`AccountsAssumption`, `RateLimitAssumption`, `PipelineAssumption` (the stray id is no product),
`SettingsAssumption` with `UnsetAssumption` and `AnswersAssumption` (positive batch size, tries and
`rerank_top_n`, scores in thousandths), `RetrievalAssumption` (finitely many products, and
positive `LIMIT` and `rrf_k`), `ScoringAssumption` (the scored pairs have the fields of a pair),
`OneCAssumption` (finitely many items and groups, items in a group or in none at first, a positive page size) with `TreesAssumption` (the groups form a forest at first), `FilesAssumption` (a cell
is known by its text and has a length, a sheet is a rectangle, the tables drawn on it go from left to
right with a column between them) and `MigrationsAssumption`
(a product has a key and an age, the key of one of the four old providers stands in its own setting or
in the registry, NULL is no value that a migration writes, the rows of a table have distinct keys). TLC evaluates each of them in a run.

* `BatchProcess_proofs`: type correctness, `CountersMatchRows`, `DoneIsComplete`,
  `CandidatesMatchRow`, `TerminalIsFinal`, and the refinement. The invariant adds to
  the properties that the snapshot of a reporting task and the published
  counters are each the tally of a set of items counted so far. Without
  that, a late report could publish anything. The lemmas about `Tally` say what
  adding one item does and that a tally of a set that does not change is
  framed; `StepRefines` maps every step to a step of `BatchAbs` or a stutter.
* `RequestLifecycle_proofs`: type correctness, `StuckHasCause` and
  `DoneHasResults`. The invariant says what must not be forgotten between steps:
  nothing refers to a request before it is created (`BirthInv`); a coroutine runs in a
  worker that is up, for a job in the queue (`WorkerInv`); without retries what is
  counted is written or `unrecorded` in this run (`ResultInv`); a live request has a handler, a job, a
  recovery or a cause, and if its run has concluded, a handler or a cause
  (`CauseInv`, the part that makes `StuckHasCause` inductive). One lemma per action.
* `Review_proofs`: type correctness, `ReviewsWhatItSaw`, `OthersDecisionKept` and
  `DeadlockHasCause`. The invariant says of each session what it holds at each
  point: a pending write is on a row that its session holds (`Writing`), a single
  review's reading is of a row held and unchanged (`Reading`), a sweep holds all that it
  is not still to lock (`Holding`), and locks are taken items first (`Ordered`).
  `Frame` carries it over every step of other sessions, because a commit changes
  only rows that the committing session holds. The deadlock argument is the order:
  who waits without being a bulk review or a retry does not hold the request, so
  everybody in the set waits for an item; a single review holds nothing while it
  waits for its item, so only sweeps block, and one sweep cannot block itself.
* `CatalogIndex_proofs`: type correctness, `ImportsExclude`, `OneActive`, `FileHasJob`,
  `ReindexCovers`. The invariant says of the versions that the active ones exist and a rollback
  under way has a target that does (`VersionInv`), and of each job (`JobInv`) that it has been
  tried if it runs, that it owns the lock from its source to its release until that has lapsed
  (`Locked`), and that its file is there or was left in a named way (`Filed`); `Tables` and
  `Others` are types. For the coverage (`CoverInv`), of the products that a reindex has counted
  those that still need an embedding are no more than the batches it has left can take: a batch
  takes `BatchSize` of them or all, and whoever makes them more disturbs the promise.
* `Guards_proofs`, about what limits a caller and what is set, in four parts.
  `TripNeedsRun`: the counter is the number of failures at the end of the history, up to the
  threshold, and an open circuit has it full.
  `AdminRemains`, `ResetForcesChange`: what a request about to write
  has seen existed and passed the checks, a request on one's own account changes
  neither role nor activity, and a creation has a role: so of two accounts
  only another administrator's request can take the last one, which is `late`.
  `GuessesBounded`: a request that has counted one failure too many is on its way to set the
  block, and makes up for the excess until it stands; then the failures and the passwords
  being verified are no more than the requests that came before it, and the block outlives
  the counter that earned it (`LimitInv`).
  `UpdatesSurvive`, `OnlySavedSettings`. A setting is current
  when the readings of all loads under way and the copies that updates have begun from
  equal the table; a commit is the only step that changes the table, and makes a history
  entry of whoever is behind it. `LockInv`: one task at a time between a change of a copy and
  its commit.
* `MatchPipeline_proofs`: `ErrorHasCause`, `ResultIsCoherent`, `AutoMatchIsEarned`. `Fits` says of every stage
  what an item may carry there: products from the catalog or deleted since, no result
  before a decision, the agent only on open cases, a reranker only where the setup
  has one.
  For the scoring, a pass over the numbers is a recursive function, unrolled by its own lemma
  (`PassLoop`, from the well-foundedness of the numbers: `LoopEnds`); its invariant `LoopInv` says
  that who has no partner leaves nobody free to go with. So a better pairing meets a
  pair of this one with each of its own (`HalfOfBest`), and equal lists leave nobody over
  (`SameNumbers`). The claims about weights (`Earned`) bound every feature and compare.
* `Answers_proofs`: type correctness, `AnswersInPlace` with its parts. Batches begin at multiples
  of their size, so each slot has one batch (`Starts`), and by `BatchInv` it holds its own
  entry, nothing, or what spilled over from an earlier batch that was not full. For the
  rankings, the rank of an entry is the number of those ahead of it; ranks differ
  (`RanksDiffer`), so by the pigeonhole every rank is taken and sorting loses nobody
  (`SortFacts`); `Scaling` bounds the integer division, and the first of the sorted entries
  survives scaling and cutting (`CutRanking`).
  And type correctness and `FusionMonotone` of the retrieval: a cut keeps the ranks of what it
  leaves (`CutRank`), so of what is left the better product has the greater signal in
  a list that has the other one, and no smaller in the other list (`SignalCut`); scores are
  fractions, whose sum grows with each of them (`PlusGrows`). The relaxed search is only
  reached without lists, or without room (`FusedEmpty`).

  And type correctness and `FetchComplete` of the 1C fetch. An edit moves the ranks of the items
  behind it, and these are in `shifted` from then on; so an item that is not has been fetched
  once if its rank is before `$skip`, and not yet otherwise, and its rank is below the total
  (`ReadInv`). What a page has brought of an item's group is in its history from then on, whatever is moved
  later. A path is a recursive function over the levels, unrolled; if a group and all groups
  above it (`Upwards`, the least set closed under parents) were read and none came, went or moved since, its path
  is the one it has now (`PathsInv`).

  And type correctness and `TablesAreRead`: what the lists hold follows from what has filled them
  (`FilesInv`). The rules' scores are sums folded over cells, unrolled over the number of
  cells. A header has a keyword in every cell, all of them short, and no other row has any, so
  its quotient is above that of each other row (`HeaderWins`); groups of columns without a gap are the
  tables, in their order (`GroupsAre`, `SeenInOrder`); a table's name column is the first
  whose header speaks of names (`TableFound`). Whoever names the tables, each text of a
  table is listed once (`RegionTexts`), and counts add up over tables (`ItemsCounted`).
* `Migrations_proofs`: type correctness, `SchemaIsDeclared` and `RowsKept`. `SchemaInv` spells out the
  schema of every revision (`SchemaAt`), column by column: each upgrade and each downgrade takes one to its
  neighbour, and the last is the declared one apart from the named differences. `RowsInv` says that the rows fit the
  columns of their revision and hold its constraints, NOT NULL among them. That a migration keeps a row is proved per
  statement (`Carry`), with three special ones: 0007, of whose deleted rows a duplicate
  remains; and the two moves of provider settings into and out of the registry, where the keys of the old
  providers are followed through both, other settings stay, and the rest is what `RowsKept` gives up. `CommandInv` is what makes
  the failures nameable: what an upgrade comes upon at 0007, it found at its start.

Only model-checked: the liveness properties (`EveryRunEnds`, `QueueDrains`,
`RecoveredIsDone`, `EveryTransactionEnds`, `JobsEnd`, `WaitingEnds`), which need fairness
and ENABLED. `ServicesTypeOK` is proved component by component: no theorem is about their
side by side composition, which exists for TLC.

## Disagreements with what the repository says

The six violation runs: each quotes its line in PROJECT.json. Met on the way, without a
run of their own:

* `api/v1/review.py:49` accepts an item without a candidate and stores a positive label
  without a product, where `docs/quality_gates.md:29` says "correct product identified".
* `circuit_breaker.py:45` "Half-open: allow one request": every caller passes.
* A batch passes explicit thresholds (`worker/tasks.py:135`), so those of a supplier have no
  effect there. `match_single` passes neither `article_hint` to the search nor
  `query_article` to the features, so the article shortcut of `docs/scoring_v1.md:28` never
  happens.
* `orchestrator.py:471` "Fetch the product from DB": when the agent names a product that is
  no alternative, the name stays that of the old best candidate.
* `migrations/versions/0007_unique_source_hash.py` "Now safe to delete duplicates": not if
  a reviewer has decided for one, a label names one, or two are of the same age; then the upgrade
  fails as a whole. Mappings, aliases and embeddings of a deleted duplicate go with it.
  A way down and up over revision 0009 makes every kept job a `batch_match`.
* `db/models.py:284-286` declare `details` and `created_at` of `audit_log` NOT NULL, revision 0008
  (`:33-39`) makes them nullable, and no later one changes that.
* The gateway revision (ede63bcb39f8) drops stored base URLs on the way up (`:80-88`) and puts its own in
  their place. Its downgrade says "move providers_registry back to individual keys" (`:92`) and writes back those of four
  providers, no address, and then deletes the registry with the keys of the others; one that cannot be read
  is deleted without an error (`:142-145`), with the keys that were not reached.
* `pipeline/scoring.py:127` takes a rerank score for 0..1 and cuts what is outside. The scores of the local
  model, the default, are what `predict` returns (`pipeline/reranker.py:115-123`), logits or not:
  candidates that it tells apart may score the same.
* `ingestion/parser.py:5`, stacked tables, and `:11`, "scans all sheets": rows between tables are looked for
  by nothing (`_find_empty_row_gaps` has no caller), and `parse_excel_upload` takes the header row
  of the best sheet but reads the first one.
* The conditions of `Readable` in `FileAnalysis` are each necessary: a column filled in at most 15 % of its
  rows parts tables; a short product name with a keyword in it ("труба") may
  outscore the header of a one-column list, and the rows above are lost; "код товара" is
  taken for a column of names; a blank header cell becomes "Unnamed" and so has the
  keyword "name".
* An item of 1C that is moved after its page was read keeps the path of its old group. One whose group was created during the fetch, or is not among the 5000 of the one answer,
  keeps the key of its group for a path; a path deeper than ten levels loses its upper end.
* `quality_gate.py:75` takes a stored baseline of 0 for none.

## What is not modelled

* `match_sync` writes a request that is done in one transaction and has no job and
  no item rows. A review's aliases, supplier mappings and audit rows are inserted
  with its commit and read by nothing modelled; a mapping that the supplier has already makes
  the review fail as a whole, which is one of the ways in which a transaction of `Review` rolls back.
* A run over the rows of an earlier run whose recovery failed: `BatchProcess` begins with
  blank rows. The composition of `BatchProcess` with `RequestLifecycle` would close this: the
  lifecycle's set of counted items as an abstraction of the batch.
* The cached embedding client, which an update resets only in its own process; the
  preference of an environment's provider key over a stored one.
* arq, Redis, PostgreSQL and 1C are modelled from how `src/` uses them. Text normalisation,
  prompts, encodings, CSV sniffing and formats are data. The connection pool, non-unique indexes and triggers are left out.
* CRUD of suppliers, aliases and synonyms (one statement each; what a match reads of them is
  an input of `MatchPipeline`), audit, metrics, health and token usage (append-only or
  read-only), the quality gate (called by nothing), the in-memory rate limiter (used by
  nothing), the timeout middleware, tokens and cookies.
* The frontend, operations and seed scripts. The two seed scripts are 6980 lines of sample
  data, a third of the Python code.
