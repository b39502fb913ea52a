-------------------------- MODULE RequestLifecycle --------------------------
(***************************************************************************)
(* The life of a row of match_requests: the API handlers that create, retry *)
(* and delete it, the arq queue it is handed to, the match worker that runs *)
(* it, and the recovery the worker does when it starts.                     *)
(*                                                                         *)
(* The row and the queue live in two stores (PostgreSQL and Redis) that no  *)
(* transaction spans: every handler commits to one, calls the other, and    *)
(* commits to the first again.  A step is one commit or one Redis call.     *)
(* The run of a batch, BatchProcess in detail, is here the set of items it  *)
(* has counted.  arq is modelled by what this code relies on: a job id that *)
(* has a job or a kept result is not enqueued again, a job is run again     *)
(* after its worker died, and a finished job leaves its result for a while. *)
(***************************************************************************)
EXTENDS Naturals, FiniteSets

CONSTANTS
    Requests,     \* request ids
    Items,        \* the items of each request
    Handlers,     \* API requests in flight at a time
    Endpoints,    \* the endpoints in use: "upload", "batch", "smart"
    MaxRetries,   \* bound: retries that users ask for
    MaxFaults     \* bound: processes that die, calls that raise, timeouts

ASSUME LifecycleAssumption ==
    /\ Endpoints \subseteq {"upload", "batch", "smart"}
    /\ MaxRetries \in Nat
    /\ MaxFaults \in Nat

VARIABLES
    row,         \* match_requests: status and job_name of each request
    fresh,       \* the items whose row holds a result since it was last blank
    queue,       \* the arq job of each request: the function it names
    result,      \* whether arq keeps the result of a finished job
    tries,       \* arq's retry counter of the job
    worker,      \* the match worker process
    recovering,  \* the requests that its startup has still to enqueue
    attempt,     \* where the job's coroutine is
    counted,     \* the items it has counted
    unrecorded,  \* history: of these, the items whose error could not be recorded
    handler,     \* what each API handler is doing
    retries,     \* retries used of MaxRetries
    faults,      \* faults used of MaxFaults
    cause        \* history: what befell the request since a run of it began

vars == <<row, fresh, queue, result, tries, worker, recovering, attempt, counted,
          unrecorded, handler, retries, faults, cause>>
api == <<handler, retries>>
arq == <<queue, result, tries>>
run == <<attempt, counted, unrecorded>>

\* MatchWorkerSettings.functions and their max_tries.
WorkerFunctions == {"batch_match", "smart_upload"}
MaxTries(fn) == IF fn = "smart_upload" THEN 2 ELSE 3

JobNames == WorkerFunctions \cup {"match_sync"}
Live == {"pending", "queued", "running"}
Statuses == Live \cup {"done", "failed"}
Causes == {"overtaken", "dropped", "handler_died", "job_failed", "lost_write",
           "unknown_function", "recovery_failed"}

TypeOK ==
    /\ row \in [Requests -> [status : Statuses \cup {"unborn", "deleted"},
                             job : JobNames \cup {"none"}]]
    /\ fresh \in [Requests -> SUBSET Items]
    /\ queue \in [Requests -> JobNames \cup {"none"}]
    /\ result \in [Requests -> BOOLEAN]
    /\ tries \in [Requests -> 0..3]
    /\ worker \in {"down", "starting", "up"}
    /\ recovering \subseteq Requests
    /\ attempt \in [Requests -> {"idle", "loading", "matching", "concluded"}]
    /\ counted \in [Requests -> SUBSET Items]
    /\ unrecorded \in [Requests -> SUBSET Items]
    /\ handler \in [Handlers -> [at : {"idle"}] \cup
                                [at : {"reset", "enqueue", "mark"}, req : Requests,
                                 fn : JobNames, kind : {"create", "retry"}]]
    /\ retries \in 0..MaxRetries
    /\ faults \in 0..MaxFaults
    /\ cause \in [Requests -> SUBSET Causes]

Exists(r) == row[r].status \in Statuses

\* An UPDATE of the status; it finds no row when the request was deleted.
SetStatus(r, s) ==
    row' = IF Exists(r) THEN [row EXCEPT ![r].status = s] ELSE row

Blame(r, c) == cause' = [cause EXCEPT ![r] = @ \cup {c}]

Fault == faults < MaxFaults /\ faults' = faults + 1

Idle == [at |-> "idle"]
Work(at, r, fn, kind) == [at |-> at, req |-> r, fn |-> fn, kind |-> kind]

Init ==
    /\ row = [r \in Requests |-> [status |-> "unborn", job |-> "none"]]
    /\ fresh = [r \in Requests |-> {}]
    /\ queue = [r \in Requests |-> "none"]
    /\ result = [r \in Requests |-> FALSE]
    /\ tries = [r \in Requests |-> 0]
    /\ worker = "up"
    /\ recovering = {}
    /\ attempt = [r \in Requests |-> "idle"]
    /\ counted = [r \in Requests |-> {}]
    /\ unrecorded = [r \in Requests |-> {}]
    /\ handler = [h \in Handlers |-> Idle]
    /\ retries = 0
    /\ faults = 0
    /\ cause = [r \in Requests |-> {}]

-----------------------------------------------------------------------------
\* The arq pool.

\* enqueue_job with _job_id: nothing is added, and None returned, while Redis
\* has the job or its result.
ArqEnqueue(r, fn) ==
    /\ queue' = IF queue[r] = "none" /\ ~result[r] THEN [queue EXCEPT ![r] = fn] ELSE queue
    /\ IF result[r] \/ attempt[r] = "concluded" THEN Blame(r, "dropped") ELSE UNCHANGED cause
    /\ UNCHANGED <<result, tries>>

\* arq is through with the job: its result is kept for keep_result.
ArqFinish(r) ==
    /\ queue' = [queue EXCEPT ![r] = "none"]
    /\ result' = [result EXCEPT ![r] = TRUE]
    /\ tries' = [tries EXCEPT ![r] = 0]
    /\ attempt' = [attempt EXCEPT ![r] = "idle"]
    /\ counted' = [counted EXCEPT ![r] = {}]

ResultExpires(r) ==
    /\ result[r]
    /\ result' = [result EXCEPT ![r] = FALSE]
    /\ UNCHANGED <<row, fresh, queue, tries, worker, recovering, run, api, faults, cause>>

-----------------------------------------------------------------------------
\* API handlers.

\* The request and its blank items are committed, the job comes next.
Accept(h, r, status, job, fn) ==
    /\ handler[h] = Idle
    /\ row[r].status = "unborn"
    /\ row' = [row EXCEPT ![r] = [status |-> status, job |-> job]]
    /\ handler' = [handler EXCEPT ![h] = Work("enqueue", r, fn, "create")]
    /\ UNCHANGED <<fresh, arq, worker, recovering, run, retries, faults, cause>>

\* POST /match/upload
UploadMatchFile(h, r) ==
    "upload" \in Endpoints /\ Accept(h, r, "pending", "batch_match", "batch_match")

\* POST /match/batch stores the job name of the synchronous endpoint.
MatchBatch(h, r) ==
    "batch" \in Endpoints /\ Accept(h, r, "running", "match_sync", "batch_match")

\* POST /match/smart-upload, whose job ingests the catalog part of the file first.
SmartUpload(h, r) ==
    "smart" \in Endpoints /\ Accept(h, r, "pending", "smart_upload", "smart_upload")

Create(h, r) == UploadMatchFile(h, r) \/ MatchBatch(h, r) \/ SmartUpload(h, r)

\* retry_match_request reads the row and refuses a status that is not live or
\* failed ...
RetryCheck(h, r) ==
    /\ handler[h] = Idle
    /\ retries < MaxRetries
    /\ row[r].status \in Live \cup {"failed"}
    /\ retries' = retries + 1
    /\ handler' = [handler EXCEPT ![h] = Work("reset", r, row[r].job, "retry")]
    /\ UNCHANGED <<row, fresh, arq, worker, recovering, run, faults, cause>>

\* ... and resets whatever the row is by now, with all its items.
RetryReset(h) ==
    /\ handler[h].at = "reset"
    /\ SetStatus(handler[h].req, "pending")
    /\ fresh' = [fresh EXCEPT ![handler[h].req] = {}]
    /\ handler' = [handler EXCEPT ![h].at = "enqueue"]
    /\ UNCHANGED <<arq, worker, recovering, run, retries, faults, cause>>

\* enqueue_request_job, first half: the job.
Enqueue(h) ==
    /\ handler[h].at = "enqueue"
    /\ ArqEnqueue(handler[h].req, handler[h].fn)
    /\ handler' = [handler EXCEPT ![h].at = "mark"]
    /\ UNCHANGED <<row, fresh, worker, recovering, run, retries, faults>>

\* The call raised, whether or not it reached Redis: the request is marked failed
\* and the client gets a 503.
EnqueueFails(h) ==
    /\ handler[h].at = "enqueue"
    /\ Fault
    /\ \/ ArqEnqueue(handler[h].req, handler[h].fn)
       \/ UNCHANGED <<arq, cause>>
    /\ SetStatus(handler[h].req, "failed")
    /\ handler' = [handler EXCEPT ![h] = Idle]
    /\ UNCHANGED <<fresh, worker, recovering, run, retries>>

\* enqueue_request_job, second half: the status, whatever the worker did since.
MarkQueued(h) ==
    /\ handler[h].at = "mark"
    /\ LET r == handler[h].req
       IN  /\ SetStatus(r, "queued")
           /\ IF queue[r] = "none" \/ attempt[r] = "concluded"
              THEN Blame(r, "overtaken") ELSE UNCHANGED cause
    /\ handler' = [handler EXCEPT ![h] = Idle]
    /\ UNCHANGED <<fresh, arq, worker, recovering, run, retries, faults>>

\* The API process dies, or its last commit raises, between two steps.
HandlerDies(h) ==
    /\ handler[h] # Idle
    /\ Fault
    /\ Blame(handler[h].req, "handler_died")
    /\ handler' = [handler EXCEPT ![h] = Idle]
    /\ UNCHANGED <<row, fresh, arq, worker, recovering, run, retries>>

\* delete_match_request: one transaction, whatever the status; the job stays.
Delete(r) ==
    /\ Exists(r)
    /\ row' = [row EXCEPT ![r].status = "deleted"]
    /\ fresh' = [fresh EXCEPT ![r] = {}]
    /\ UNCHANGED <<arq, worker, recovering, run, api, faults, cause>>

-----------------------------------------------------------------------------
\* Plausible bugs of the worker's steps.  Next uses none of them: each is what
\* the code could have said, and shows that a property would notice.

\* A status that ck_match_requests_status does not know.
LoadProcessing(r) ==
    /\ attempt[r] = "loading"
    /\ Exists(r)
    /\ SetStatus(r, "processing")
    /\ attempt' = [attempt EXCEPT ![r] = "matching"]
    /\ unrecorded' = [unrecorded EXCEPT ![r] = {}]
    /\ cause' = [cause EXCEPT ![r] = {}]
    /\ UNCHANGED <<fresh, arq, worker, recovering, counted, api, faults>>

\* The final update restricted to rows that are still "running".
ConcludeIfRunning(r) ==
    /\ attempt[r] = "matching"
    /\ counted[r] = Items
    /\ IF row[r].status = "running" THEN SetStatus(r, "done") ELSE UNCHANGED row
    /\ attempt' = [attempt EXCEPT ![r] = "concluded"]
    /\ UNCHANGED <<fresh, arq, worker, recovering, counted, unrecorded, api, faults, cause>>

\* The final update after the first item that completes.
ConcludeEarly(r) ==
    /\ attempt[r] = "matching"
    /\ counted[r] # {}
    /\ SetStatus(r, "done")
    /\ attempt' = [attempt EXCEPT ![r] = "concluded"]
    /\ UNCHANGED <<fresh, arq, worker, recovering, counted, unrecorded, api, faults, cause>>

\* The end of a run decided by the rows in the database.
ConcludeByRows(r) ==
    /\ attempt[r] = "matching"
    /\ fresh[r] = Items
    /\ SetStatus(r, "done")
    /\ attempt' = [attempt EXCEPT ![r] = "concluded"]
    /\ UNCHANGED <<fresh, arq, worker, recovering, counted, unrecorded, api, faults, cause>>

\* Recovery under a function name that the worker does not register.
RecoverUnknown(r) ==
    /\ worker = "starting"
    /\ r \in recovering
    /\ ArqEnqueue(r, "match_sync")
    /\ recovering' = recovering \ {r}
    /\ UNCHANGED <<row, fresh, worker, run, api, faults>>

-----------------------------------------------------------------------------
\* The match worker.

WorkerDies ==
    /\ worker # "down"
    /\ Fault
    /\ worker' = "down"
    /\ attempt' = [r \in Requests |-> "idle"]
    /\ counted' = [r \in Requests |-> {}]
    /\ recovering' = {}
    /\ cause' = [r \in Requests |->
                    IF r \in recovering THEN cause[r] \cup {"recovery_failed"} ELSE cause[r]]
    /\ UNCHANGED <<row, fresh, arq, api, unrecorded>>

\* list_recoverable_requests
Recoverable == {r \in Requests : row[r].status \in Live /\ row[r].job \in WorkerFunctions}

\* match_startup, in one transaction: what is recoverable is blanked and queued.
Startup ==
    /\ worker = "down"
    /\ worker' = "starting"
    /\ recovering' = Recoverable
    /\ row' = [r \in Requests |->
                  IF r \in Recoverable THEN [row[r] EXCEPT !.status = "queued"] ELSE row[r]]
    /\ fresh' = [r \in Requests |-> IF r \in Recoverable THEN {} ELSE fresh[r]]
    /\ UNCHANGED <<arq, run, api, faults, cause>>

\* The transaction raised; startup logs it and the worker goes on.
StartupFails ==
    /\ worker = "down"
    /\ Fault
    /\ worker' = "up"
    /\ cause' = [r \in Requests |->
                    IF r \in Recoverable THEN cause[r] \cup {"recovery_failed"} ELSE cause[r]]
    /\ UNCHANGED <<row, fresh, arq, recovering, run, api>>

Recover(r) ==
    /\ worker = "starting"
    /\ r \in recovering
    /\ ArqEnqueue(r, row[r].job)
    /\ recovering' = recovering \ {r}
    /\ UNCHANGED <<row, fresh, worker, run, api, faults>>

\* Redis raised: the requests that were still to come are given up.
RecoverFails ==
    /\ worker = "starting"
    /\ recovering # {}
    /\ Fault
    /\ worker' = "up"
    /\ recovering' = {}
    /\ cause' = [r \in Requests |->
                    IF r \in recovering THEN cause[r] \cup {"recovery_failed"} ELSE cause[r]]
    /\ UNCHANGED <<row, fresh, arq, run, api>>

Started ==
    /\ worker = "starting"
    /\ recovering = {}
    /\ worker' = "up"
    /\ UNCHANGED <<row, fresh, arq, recovering, run, api, faults, cause>>

\* arq takes a job: it runs a function it knows, max_tries times at most.
Pick(r) ==
    /\ worker = "up"
    /\ queue[r] \in WorkerFunctions
    /\ attempt[r] = "idle"
    /\ tries[r] < MaxTries(queue[r])
    /\ tries' = [tries EXCEPT ![r] = @ + 1]
    /\ attempt' = [attempt EXCEPT ![r] = "loading"]
    /\ UNCHANGED <<row, fresh, queue, result, worker, recovering, counted, unrecorded, api, faults, cause>>

Refuse(r) ==
    /\ worker = "up"
    /\ queue[r] # "none"
    /\ attempt[r] = "idle"
    /\ \/ queue[r] \notin WorkerFunctions /\ Blame(r, "unknown_function")
       \/ queue[r] \in WorkerFunctions /\ tries[r] = MaxTries(queue[r])
          /\ Blame(r, "job_failed")
    /\ ArqFinish(r)
    /\ UNCHANGED <<row, fresh, worker, recovering, unrecorded, api, faults>>

\* batch_match, and smart_upload once its catalog is in, up to the first commit.
Load(r) ==
    /\ attempt[r] = "loading"
    /\ Exists(r)
    /\ SetStatus(r, "running")
    /\ attempt' = [attempt EXCEPT ![r] = "matching"]
    /\ unrecorded' = [unrecorded EXCEPT ![r] = {}]
    /\ cause' = [cause EXCEPT ![r] = {}]
    /\ UNCHANGED <<fresh, arq, worker, recovering, counted, api, faults>>

\* "Request not found": the job returns.
LoadMissing(r) ==
    /\ attempt[r] = "loading"
    /\ ~Exists(r)
    /\ ArqFinish(r)
    /\ UNCHANGED <<row, fresh, worker, recovering, unrecorded, api, faults, cause>>

\* _process_one, to its commit and its count: the item has a result, which may be
\* the error that it raised.
MatchItem(r, i) ==
    /\ attempt[r] = "matching"
    /\ i \notin counted[r]
    /\ fresh' = IF Exists(r) THEN [fresh EXCEPT ![r] = @ \cup {i}] ELSE fresh
    /\ counted' = [counted EXCEPT ![r] = @ \cup {i}]
    /\ UNCHANGED <<row, arq, worker, recovering, attempt, unrecorded, api, faults, cause>>

\* It raised, and recording the error raised too, which is logged: the row stays
\* as it was and the item is counted all the same.
LoseItem(r, i) ==
    /\ attempt[r] = "matching"
    /\ i \notin counted[r]
    /\ Fault
    /\ counted' = [counted EXCEPT ![r] = @ \cup {i}]
    /\ unrecorded' = [unrecorded EXCEPT ![r] = @ \cup {i}]
    /\ UNCHANGED <<row, fresh, arq, worker, recovering, attempt, api, cause>>

\* A progress report.
Progress(r) ==
    /\ attempt[r] = "matching"
    /\ counted[r] # {}
    /\ Exists(r)
    /\ SetStatus(r, "running")
    /\ UNCHANGED <<fresh, arq, worker, recovering, run, api, faults, cause>>

\* The final status of the run.
Conclude(r) ==
    /\ attempt[r] = "matching"
    /\ counted[r] = Items
    /\ SetStatus(r, "done")
    /\ attempt' = [attempt EXCEPT ![r] = "concluded"]
    /\ UNCHANGED <<fresh, arq, worker, recovering, counted, unrecorded, api, faults, cause>>

\* It could not be written: "failed", or nothing at all.
ConcludeFails(r) ==
    /\ attempt[r] = "matching"
    /\ counted[r] = Items
    /\ Fault
    /\ \/ SetStatus(r, "failed") /\ UNCHANGED cause
       \/ Blame(r, "lost_write") /\ UNCHANGED row
    /\ attempt' = [attempt EXCEPT ![r] = "concluded"]
    /\ UNCHANGED <<fresh, arq, worker, recovering, counted, unrecorded, api>>

JobEnds(r) ==
    /\ attempt[r] = "concluded"
    /\ ArqFinish(r)
    /\ UNCHANGED <<row, fresh, worker, recovering, unrecorded, api, faults, cause>>

\* arq's timeout cancels the coroutine, or it raised before _process_batch: the
\* job is over and failed, the row says nothing of it.
JobFails(r) ==
    /\ attempt[r] \in {"loading", "matching"}
    /\ Fault
    /\ Blame(r, "job_failed")
    /\ ArqFinish(r)
    /\ UNCHANGED <<row, fresh, worker, recovering, unrecorded, api>>

-----------------------------------------------------------------------------
HandlerStep(h) ==
    \/ RetryReset(h)
    \/ Enqueue(h)
    \/ MarkQueued(h)

WorkerStep(r) ==
    \/ Recover(r)
    \/ Pick(r)
    \/ Refuse(r)
    \/ Load(r)
    \/ LoadMissing(r)
    \/ \E i \in Items : MatchItem(r, i)
    \/ Conclude(r)
    \/ JobEnds(r)

Faulty ==
    \/ WorkerDies
    \/ StartupFails
    \/ RecoverFails
    \/ \E h \in Handlers : EnqueueFails(h) \/ HandlerDies(h)
    \/ \E r \in Requests : ConcludeFails(r) \/ JobFails(r)
    \/ \E r \in Requests, i \in Items : LoseItem(r, i)

Next ==
    \/ Startup
    \/ Started
    \/ Faulty
    \/ \E h \in Handlers : HandlerStep(h)
    \/ \E h \in Handlers, r \in Requests : Create(h, r) \/ RetryCheck(h, r)
    \/ \E r \in Requests : WorkerStep(r) \/ Progress(r) \/ ResultExpires(r) \/ Delete(r)

Spec == Init /\ [][Next]_vars

\* Handlers and the worker go on; compose restarts a worker that died.  Users
\* need not do anything, and results need not expire.
FairSpec ==
    /\ Spec
    /\ WF_vars(Startup)
    /\ WF_vars(Started)
    /\ \A h \in Handlers : WF_vars(HandlerStep(h))
    /\ \A r \in Requests : WF_vars(WorkerStep(r))

-----------------------------------------------------------------------------
\* Nothing is under way for the request: no handler, no job, no recovery.
Quiet(r) ==
    /\ worker = "up"
    /\ queue[r] = "none"
    /\ attempt[r] = "idle"
    /\ \A h \in Handlers : handler[h] # Idle => handler[h].req # r

\* A request that nobody works on any more is done, failed or deleted, unless
\* one of the Causes befell it since its last run began.  They are all the ways
\* in which a request stays "pending", "queued" or "running" for good.
StuckHasCause ==
    \A r \in Requests : Quiet(r) /\ row[r].status \in Live => cause[r] # {}

\* Unless a user retried it, a request is "done" only with a result in every
\* item row, whatever died and was run again on the way: only the items whose
\* error could not be recorded in the run that ended may be blank.
DoneHasResults ==
    \A r \in Requests :
        row[r].status = "done" /\ retries = 0 => Items \ fresh[r] \subseteq unrecorded[r]

\* Every job that was enqueued comes to an end, deleted requests included.
QueueDrains ==
    \A r \in Requests : queue[r] # "none" ~> queue[r] = "none"

\* A request that startup recovers is run to its end, if no result of an earlier
\* job is kept, tries are left and nothing fails any more.
RecoveredIsDone ==
    \A r \in Requests :
        (/\ r \in recovering
         /\ ~result[r]
         /\ tries[r] < MaxTries(row[r].job)
         /\ faults = MaxFaults) ~> row[r].status \in {"done", "deleted"}

-----------------------------------------------------------------------------
\* What the repository says of retry and recovery, and the code does not do.

\* match.py:352 "Retry a stuck or failed match request by resetting it to
\* 'queued'": when a retry has called enqueue_job, the queue holds the job.
RetryIsQueued ==
    [][\A h \in Handlers :
          /\ handler[h].at = "enqueue"
          /\ handler'[h].at = "mark"
          /\ handler[h].kind = "retry"
          => queue'[handler[h].req] # "none"]_vars

\* match.py:373 "Clear previous results so items are reprocessed": the results
\* that a retry cleared are there again when the request is done.
RetryReprocesses ==
    \A r \in Requests : row[r].status = "done" => fresh[r] = Items

\* worker/settings.py:17 "recover orphaned match requests": a startup takes up
\* every live request that no handler, no job and no worker is working on.
OrphansAreRecovered ==
    [][\A r \in Requests :
          /\ worker = "down"
          /\ worker' = "starting"
          /\ row[r].status \in Live
          /\ queue[r] = "none"
          /\ \A h \in Handlers : handler[h] # Idle => handler[h].req # r
          => r \in recovering']_vars
=============================================================================
