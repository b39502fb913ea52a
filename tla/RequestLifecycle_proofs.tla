---------------------- MODULE RequestLifecycle_proofs ----------------------
(***************************************************************************)
(* What RequestLifecycle guarantees for any requests, items and handlers,  *)
(* and any number of retries and faults.                                   *)
(***************************************************************************)
EXTENDS RequestLifecycle, TLAPS

\* Some API handler is working on the request.
Handled(r) == \E h \in Handlers : handler[h] # Idle /\ handler[h].req = r

\* Nothing refers to a request before it is created, and a created one has a
\* job name.
BirthInv ==
    \A r \in Requests :
        /\ row[r].status = "unborn" =>
              queue[r] = "none" /\ ~Handled(r) /\ r \notin recovering
        /\ row[r].status # "unborn" => row[r].job \in JobNames

\* A coroutine runs in a worker that is up, for a job that is in the queue.
WorkerInv ==
    /\ recovering # {} => worker = "starting"
    /\ \A r \in Requests :
          /\ attempt[r] # "idle" => worker = "up" /\ queue[r] # "none"
          /\ attempt[r] \in {"idle", "loading"} => counted[r] = {}

\* Without retries, what a run has counted is in the rows, or its error could not
\* be recorded.
ResultInv ==
    /\ \A h \in Handlers : handler[h].at = "reset" => retries # 0
    /\ \A r \in Requests :
          retries = 0 /\ Exists(r) =>
             /\ attempt[r] = "matching" => counted[r] \subseteq fresh[r] \cup unrecorded[r]
             /\ row[r].status = "done" => Items \ fresh[r] \subseteq unrecorded[r]

\* A live request has someone to take it further, or a cause that it has not.
CauseInv ==
    \A r \in Requests :
        row[r].status \in Live =>
            /\ Handled(r) \/ queue[r] # "none" \/ r \in recovering \/ cause[r] # {}
            /\ attempt[r] = "concluded" => Handled(r) \/ cause[r] # {}

Inv == TypeOK /\ BirthInv /\ WorkerInv /\ ResultInv /\ CauseInv
-----------------------------------------------------------------------------
\* The initial states satisfy the invariant.
LEMMA InitInv == Init => Inv
<1> SUFFICES ASSUME Init PROVE Inv
  OBVIOUS
<1>1. TypeOK
  BY LifecycleAssumption DEF Init, TypeOK, Idle, Statuses, Live, JobNames
<1>2. BirthInv /\ WorkerInv
  BY DEF Init, BirthInv, WorkerInv, Handled, Idle
<1>3. ResultInv /\ CauseInv
  BY DEF Init, ResultInv, CauseInv, Exists, Statuses, Live, Idle
<1> QED
  BY <1>1, <1>2, <1>3 DEF Inv

\* What enqueue_job changes keeps its type, touches no other request, and
\* leaves the request with a job or with the blame for not getting one.
LEMMA EnqueueEffect ==
    ASSUME TypeOK, NEW r \in Requests, NEW fn \in JobNames, ArqEnqueue(r, fn)
    PROVE  /\ queue' \in [Requests -> JobNames \cup {"none"}]
           /\ cause' \in [Requests -> SUBSET Causes]
           /\ \A q \in Requests : q # r => queue'[q] = queue[q] /\ cause'[q] = cause[q]
           /\ cause[r] # {} => cause'[r] # {}
           /\ queue[r] # "none" => queue'[r] # "none"
           /\ queue'[r] # "none" \/ cause'[r] # {}
           /\ attempt[r] = "concluded" => cause'[r] # {}
           /\ UNCHANGED <<result, tries>>
<1>1. fn # "none" /\ "dropped" \in Causes
  BY DEF JobNames, WorkerFunctions, Causes
<1>2. /\ queue' \in [Requests -> JobNames \cup {"none"}]
      /\ \A q \in Requests : q # r => queue'[q] = queue[q]
      /\ queue[r] # "none" => queue'[r] # "none"
      /\ queue[r] = "none" /\ ~result[r] => queue'[r] # "none"
  BY <1>1 DEF ArqEnqueue, TypeOK
<1>3. /\ cause' \in [Requests -> SUBSET Causes]
      /\ \A q \in Requests : q # r => cause'[q] = cause[q]
      /\ cause[r] # {} => cause'[r] # {}
      /\ result[r] \/ attempt[r] = "concluded" => cause'[r] # {}
  <2>1. CASE result[r] \/ attempt[r] = "concluded"
    <3>1. cause' = [cause EXCEPT ![r] = @ \cup {"dropped"}]
      BY <2>1 DEF ArqEnqueue, Blame
    <3>2. cause \in [Requests -> SUBSET Causes]
      BY DEF TypeOK
    <3> QED
      BY <1>1, <3>1, <3>2
  <2>2. CASE ~(result[r] \/ attempt[r] = "concluded")
    BY <2>2 DEF ArqEnqueue, TypeOK
  <2> QED
    BY <2>1, <2>2
<1>4. UNCHANGED <<result, tries>>
  BY DEF ArqEnqueue
<1> QED
  BY <1>2, <1>3, <1>4

\* A fault counts against its bound.
LEMMA FaultEffect ==
    ASSUME TypeOK, Fault
    PROVE  faults' \in 0..MaxFaults
BY LifecycleAssumption DEF TypeOK, Fault

\* Blaming a request leaves it with a cause, and no other request with a new one.
LEMMA BlameEffect ==
    ASSUME TypeOK, NEW r \in Requests, NEW c \in Causes, Blame(r, c)
    PROVE  /\ cause' \in [Requests -> SUBSET Causes]
           /\ \A q \in Requests : q # r => cause'[q] = cause[q]
           /\ cause'[r] # {}
<1>1. cause \in [Requests -> SUBSET Causes]
  BY DEF TypeOK
<1>2. cause' = [cause EXCEPT ![r] = @ \cup {c}]
  BY DEF Blame
<1> QED
  BY <1>1, <1>2

\* What the end of a job changes.
LEMMA FinishEffect ==
    ASSUME TypeOK, NEW r \in Requests, ArqFinish(r)
    PROVE  /\ queue' \in [Requests -> JobNames \cup {"none"}]
           /\ result' \in [Requests -> BOOLEAN]
           /\ tries' \in [Requests -> 0..3]
           /\ attempt' \in [Requests -> {"idle", "loading", "matching", "concluded"}]
           /\ counted' \in [Requests -> SUBSET Items]
           /\ queue'[r] = "none" /\ attempt'[r] = "idle" /\ counted'[r] = {}
           /\ \A q \in Requests : q # r =>
                 queue'[q] = queue[q] /\ attempt'[q] = attempt[q] /\ counted'[q] = counted[q]
BY DEF ArqFinish, TypeOK

\* What an UPDATE of the status changes.
LEMMA StatusEffect ==
    ASSUME TypeOK, NEW r \in Requests, NEW s \in Statuses, SetStatus(r, s)
    PROVE  /\ row' \in [Requests -> [status : Statuses \cup {"unborn", "deleted"},
                                     job : JobNames \cup {"none"}]]
           /\ \A q \in Requests : q # r => row'[q] = row[q]
           /\ row'[r].job = row[r].job
           /\ row'[r].status = IF Exists(r) THEN s ELSE row[r].status
           /\ \A q \in Requests : Exists(q)' <=> Exists(q)
BY DEF SetStatus, TypeOK, Exists, Statuses

\* The new row is live and its handler is still to enqueue it.
LEMMA CreateInv ==
    ASSUME Inv, NEW h \in Handlers, NEW r \in Requests, Create(h, r)
    PROVE  Inv'
<1>a. PICK st \in {"pending", "running"}, job \in JobNames, fn \in JobNames :
         Accept(h, r, st, job, fn)
  BY DEF Create, UploadMatchFile, MatchBatch, SmartUpload, JobNames, WorkerFunctions
<1>b. /\ handler[h] = Idle
      /\ row[r].status = "unborn"
      /\ row' = [row EXCEPT ![r] = [status |-> st, job |-> job]]
      /\ handler' = [handler EXCEPT ![h] = Work("enqueue", r, fn, "create")]
      /\ UNCHANGED <<fresh, arq, worker, recovering, run, retries, faults, cause>>
  BY <1>a DEF Accept
<1>1. TypeOK'
  <2>1. [status |-> st, job |-> job] \in [status : Statuses \cup {"unborn", "deleted"},
                                         job : JobNames \cup {"none"}]
    BY DEF Statuses, Live
  <2>2. Work("enqueue", r, fn, "create") \in [at : {"reset", "enqueue", "mark"},
            req : Requests, fn : JobNames, kind : {"create", "retry"}]
    BY DEF Work
  <2> QED
    BY <1>b, <2>1, <2>2 DEF Inv, TypeOK, arq, run
<1>2. BirthInv'
  BY <1>b DEF Inv, TypeOK, BirthInv, Handled, Idle, Work, arq, run
<1>3. WorkerInv'
  BY <1>b DEF Inv, TypeOK, WorkerInv, arq, run
<1>4. ResultInv'
  BY <1>b DEF Inv, TypeOK, BirthInv, WorkerInv, ResultInv, Idle, Exists, Statuses,
     Work, arq, run
<1>5. CauseInv'
  <2>1. Handled(r)'
    BY <1>b DEF Inv, TypeOK, Handled, Idle, Work
  <2>2. \A q \in Requests : Handled(q) => Handled(q)'
    BY <1>b DEF Inv, TypeOK, Handled, Idle, Work
  <2>3. /\ \A q \in Requests \ {r} : row'[q] = row[q]
        /\ UNCHANGED <<queue, recovering, attempt, cause>>
    BY <1>b DEF Inv, TypeOK, arq, run
  <2> QED
    BY <2>1, <2>2, <2>3 DEF Inv, CauseInv
<1> QED
  BY <1>1, <1>2, <1>3, <1>4, <1>5 DEF Inv

\* The handler took the job name that the row shows; from here on retries # 0.
LEMMA RetryCheckInv ==
    ASSUME Inv, NEW h \in Handlers, NEW r \in Requests, RetryCheck(h, r)
    PROVE  Inv'
<1>a. row[r].job \in JobNames /\ row[r].status # "unborn"
  BY DEF Inv, BirthInv, RetryCheck, Live
<1>b. retries' \in 0..MaxRetries /\ retries' # 0
  BY LifecycleAssumption DEF Inv, TypeOK, RetryCheck
<1>1. TypeOK'
  BY <1>a, <1>b DEF Inv, TypeOK, Idle, Exists, Statuses, Live, RetryCheck, Work,
     arq, run
<1>2. BirthInv'
  BY <1>a, <1>b DEF Inv, TypeOK, BirthInv, Handled, Idle, Exists, Statuses,
     RetryCheck, Work, arq, run
<1>3. WorkerInv'
  BY <1>a, <1>b DEF Inv, TypeOK, WorkerInv, RetryCheck, Work, arq, run
<1>4. ResultInv'
  BY <1>a, <1>b DEF Inv, TypeOK, ResultInv, Idle, Exists, Statuses, Live,
     RetryCheck, Work, arq, run
<1>5. CauseInv'
  BY <1>a, <1>b DEF Inv, TypeOK, WorkerInv, CauseInv, Handled, Idle, Exists, Live,
     RetryCheck, Work, arq, run
<1> QED
  BY <1>1, <1>2, <1>3, <1>4, <1>5 DEF Inv

\* The row goes back to "pending" and its handler goes on; nothing speaks of fresh
\* results any more, because retries # 0.
LEMMA RetryResetInv ==
    ASSUME Inv, NEW h \in Handlers, RetryReset(h)
    PROVE  Inv'
<1> DEFINE r == handler[h].req
<1>a. r \in Requests
  BY DEF Inv, TypeOK, RetryReset
<1>b. SetStatus(r, "pending")
  BY DEF RetryReset
<1>1. TypeOK'
  <2>1. row' \in [Requests -> [status : Statuses \cup {"unborn", "deleted"},
                              job : JobNames \cup {"none"}]]
    BY <1>a, <1>b, StatusEffect DEF Inv, Statuses, Live
  <2>2. handler[h] \in [at : {"reset", "enqueue", "mark"}, req : Requests,
                       fn : JobNames, kind : {"create", "retry"}]
    BY DEF Inv, TypeOK, RetryReset
  <2>3. [handler[h] EXCEPT !.at = "enqueue"]
           \in [at : {"reset", "enqueue", "mark"}, req : Requests,
                fn : JobNames, kind : {"create", "retry"}]
    BY <2>2
  <2>4. handler' = [handler EXCEPT ![h] = [handler[h] EXCEPT !.at = "enqueue"]]
    BY DEF RetryReset
  <2>5. handler' \in [Handlers -> [at : {"idle"}] \cup
                                  [at : {"reset", "enqueue", "mark"}, req : Requests,
                                   fn : JobNames, kind : {"create", "retry"}]]
    BY <2>3, <2>4 DEF Inv, TypeOK
  <2>6. fresh' \in [Requests -> SUBSET Items]
    BY <1>a DEF Inv, TypeOK, RetryReset
  <2> QED
    BY <2>1, <2>5, <2>6 DEF Inv, TypeOK, RetryReset, arq, run
<1>2. BirthInv'
  BY <1>a, <1>b DEF Inv, TypeOK, BirthInv, Handled, Idle, Exists, Statuses,
     RetryReset, SetStatus, arq, run
<1>3. WorkerInv'
  BY <1>a, <1>b DEF Inv, TypeOK, WorkerInv, RetryReset, SetStatus, arq, run
<1>4. ResultInv'
  BY <1>a, <1>b DEF Inv, TypeOK, ResultInv, Idle, Exists, Statuses, Live,
     RetryReset, SetStatus, arq, run
<1>5. CauseInv'
  BY <1>a, <1>b DEF Inv, TypeOK, WorkerInv, CauseInv, Handled, Idle, Exists, Live,
     RetryReset, SetStatus, arq, run
<1> QED
  BY <1>1, <1>2, <1>3, <1>4, <1>5 DEF Inv

\* The handler is still there, so the row keeps someone to take it further.
LEMMA EnqueueInv ==
    ASSUME Inv, NEW h \in Handlers, Enqueue(h)
    PROVE  Inv'
<1> DEFINE r == handler[h].req
<1>a. r \in Requests /\ handler[h].fn \in JobNames
  BY DEF Inv, TypeOK, Enqueue
<1>b. /\ queue' \in [Requests -> JobNames \cup {"none"}]
      /\ cause' \in [Requests -> SUBSET Causes]
      /\ \A q \in Requests : q # r => queue'[q] = queue[q] /\ cause'[q] = cause[q]
      /\ cause[r] # {} => cause'[r] # {}
      /\ queue[r] # "none" => queue'[r] # "none"
      /\ queue'[r] # "none" \/ cause'[r] # {}
      /\ attempt[r] = "concluded" => cause'[r] # {}
      /\ UNCHANGED <<result, tries>>
  BY <1>a, EnqueueEffect DEF Inv, Enqueue
<1>1. TypeOK'
  BY <1>a, <1>b DEF Inv, TypeOK, Idle, Enqueue, api, run
<1>2. BirthInv'
  BY <1>a, <1>b DEF Inv, TypeOK, BirthInv, Handled, Idle, Enqueue, api, run
<1>3. WorkerInv'
  BY <1>a, <1>b DEF Inv, TypeOK, WorkerInv, Enqueue, api, run
<1>4. ResultInv'
  BY <1>a, <1>b DEF Inv, TypeOK, ResultInv, Idle, Exists, Enqueue, api, run
<1>5. CauseInv'
  BY <1>a, <1>b DEF Inv, TypeOK, WorkerInv, CauseInv, Handled, Idle, Enqueue, api, run
<1> QED
  BY <1>1, <1>2, <1>3, <1>4, <1>5 DEF Inv

\* The handler leaves, and the row with it: "failed" is not live.
LEMMA EnqueueFailsInv ==
    ASSUME Inv, NEW h \in Handlers, EnqueueFails(h)
    PROVE  Inv'
<1> DEFINE r == handler[h].req
<1>a. r \in Requests /\ handler[h].fn \in JobNames
  BY DEF Inv, TypeOK, EnqueueFails
<1>b. /\ queue' \in [Requests -> JobNames \cup {"none"}]
      /\ cause' \in [Requests -> SUBSET Causes]
      /\ \A q \in Requests : q # r => queue'[q] = queue[q] /\ cause'[q] = cause[q]
      /\ queue[r] # "none" => queue'[r] # "none"
      /\ UNCHANGED <<result, tries>>
  <2>1. CASE ArqEnqueue(r, handler[h].fn)
    BY <1>a, <2>1, EnqueueEffect DEF Inv
  <2>2. CASE UNCHANGED <<arq, cause>>
    BY <2>2 DEF Inv, TypeOK, arq
  <2> QED
    BY <2>1, <2>2 DEF EnqueueFails
<1>c. SetStatus(r, "failed") /\ faults' \in 0..MaxFaults
  BY FaultEffect DEF Inv, EnqueueFails
<1>d. /\ handler[h].at = "enqueue"
      /\ handler' = [handler EXCEPT ![h] = Idle]
      /\ UNCHANGED <<fresh, worker, recovering, attempt, counted, unrecorded, retries>>
  BY DEF EnqueueFails, run
<1>1. TypeOK'
  <2>1. row' \in [Requests -> [status : Statuses \cup {"unborn", "deleted"},
                              job : JobNames \cup {"none"}]]
    BY <1>a, <1>c, StatusEffect DEF Inv, Statuses
  <2> QED
    BY <1>b, <1>c, <1>d, <2>1 DEF Inv, TypeOK, Idle
<1>2. BirthInv'
  BY <1>a, <1>b, <1>c, <1>d DEF Inv, TypeOK, BirthInv, Handled, Idle, Exists,
     Statuses, SetStatus
<1>3. WorkerInv'
  BY <1>b, <1>d DEF Inv, TypeOK, WorkerInv
<1>4. ResultInv'
  BY <1>a, <1>c, <1>d DEF Inv, TypeOK, ResultInv, Idle, Exists, Statuses, SetStatus
<1>5. CauseInv'
  BY <1>a, <1>b, <1>c, <1>d DEF Inv, TypeOK, CauseInv, Handled, Idle, Exists,
     Statuses, Live, SetStatus
<1> QED
  BY <1>1, <1>2, <1>3, <1>4, <1>5 DEF Inv

\* The handler leaves behind a row that has a job still to conclude, or a cause.
LEMMA MarkQueuedInv ==
    ASSUME Inv, NEW h \in Handlers, MarkQueued(h)
    PROVE  Inv'
<1> DEFINE r == handler[h].req
<1>a. r \in Requests
  BY DEF Inv, TypeOK, MarkQueued
<1>b. /\ cause' \in [Requests -> SUBSET Causes]
      /\ \A q \in Requests : q # r => cause'[q] = cause[q]
      /\ cause[r] # {} => cause'[r] # {}
      /\ queue[r] = "none" \/ attempt[r] = "concluded" => cause'[r] # {}
  <2>1. CASE queue[r] = "none" \/ attempt[r] = "concluded"
    BY <1>a, <2>1, BlameEffect DEF Inv, MarkQueued, Causes
  <2>2. CASE ~(queue[r] = "none" \/ attempt[r] = "concluded")
    BY <2>2 DEF Inv, TypeOK, MarkQueued
  <2> QED
    BY <2>1, <2>2
<1>c. SetStatus(r, "queued")
  BY DEF MarkQueued
<1>1. TypeOK'
  BY <1>a, <1>b, <1>c DEF Inv, TypeOK, Idle, Exists, Statuses, Live, MarkQueued,
     SetStatus, arq, run
<1>2. BirthInv'
  BY <1>a, <1>b, <1>c DEF Inv, TypeOK, BirthInv, Handled, Idle, Exists, Statuses,
     MarkQueued, SetStatus, arq, run
<1>3. WorkerInv'
  BY <1>a, <1>b, <1>c DEF Inv, TypeOK, WorkerInv, MarkQueued, SetStatus, arq, run
<1>4. ResultInv'
  BY <1>a, <1>b, <1>c DEF Inv, TypeOK, ResultInv, Idle, Exists, Statuses, Live,
     MarkQueued, SetStatus, arq, run
<1>5. CauseInv'
  BY <1>a, <1>b, <1>c DEF Inv, TypeOK, WorkerInv, CauseInv, Handled, Idle, Exists,
     Live, MarkQueued, SetStatus, arq, run
<1> QED
  BY <1>1, <1>2, <1>3, <1>4, <1>5 DEF Inv

\* The handler leaves a cause behind.
LEMMA HandlerDiesInv ==
    ASSUME Inv, NEW h \in Handlers, HandlerDies(h)
    PROVE  Inv'
<1> DEFINE r == handler[h].req
<1>a. r \in Requests
  BY DEF Inv, TypeOK, HandlerDies, Idle
<1>b. /\ cause' \in [Requests -> SUBSET Causes]
      /\ \A q \in Requests : q # r => cause'[q] = cause[q]
      /\ cause'[r] # {}
  BY <1>a, BlameEffect DEF Inv, HandlerDies, Causes
<1>c. faults' \in 0..MaxFaults
  BY FaultEffect DEF Inv, HandlerDies
<1>1. TypeOK'
  BY <1>a, <1>b, <1>c DEF Inv, TypeOK, Idle, HandlerDies, arq, run
<1>2. BirthInv'
  BY <1>a, <1>b, <1>c DEF Inv, TypeOK, BirthInv, Handled, Idle, HandlerDies, arq, run
<1>3. WorkerInv'
  BY <1>a, <1>b, <1>c DEF Inv, TypeOK, WorkerInv, HandlerDies, arq, run
<1>4. ResultInv'
  BY <1>a, <1>b, <1>c DEF Inv, TypeOK, ResultInv, Idle, Exists, HandlerDies, arq, run
<1>5. CauseInv'
  BY <1>a, <1>b, <1>c DEF Inv, TypeOK, WorkerInv, CauseInv, Handled, Idle,
     HandlerDies, arq, run
<1> QED
  BY <1>1, <1>2, <1>3, <1>4, <1>5 DEF Inv

\* The row is gone for good; its job may run on and finds no row.
LEMMA DeleteInv ==
    ASSUME Inv, NEW r \in Requests, Delete(r)
    PROVE  Inv'
<1>1. TypeOK'
  BY DEF Inv, TypeOK, Exists, Statuses, Live, Delete, api, arq, run
<1>2. BirthInv'
  BY DEF Inv, TypeOK, BirthInv, Handled, Exists, Statuses, Live, Delete, api, arq, run
<1>3. WorkerInv'
  BY DEF Inv, TypeOK, WorkerInv, Delete, api, arq, run
<1>4. ResultInv'
  BY DEF Inv, TypeOK, ResultInv, Exists, Statuses, Live, Delete, api, arq, run
<1>5. CauseInv'
  BY DEF Inv, TypeOK, WorkerInv, CauseInv, Handled, Exists, Live, Delete, api, arq, run
<1> QED
  BY <1>1, <1>2, <1>3, <1>4, <1>5 DEF Inv

\* The coroutines go, the queue stays, what was to be recovered is blamed.
LEMMA WorkerDiesInv ==
    ASSUME Inv, WorkerDies
    PROVE  Inv'
<1>b. /\ cause' \in [Requests -> SUBSET Causes]
      /\ \A q \in Requests : cause[q] # {} \/ q \in recovering => cause'[q] # {}
  <2>1. /\ cause \in [Requests -> SUBSET Causes]
        /\ "recovery_failed" \in Causes
    BY DEF Inv, TypeOK, Causes
  <2>2. cause' = [q \in Requests |->
                     IF q \in recovering THEN cause[q] \cup {"recovery_failed"} ELSE cause[q]]
    BY DEF WorkerDies
  <2> QED
    BY <2>1, <2>2
<1>c. faults' \in 0..MaxFaults
  BY FaultEffect DEF Inv, WorkerDies
<1>1. TypeOK'
  BY <1>b, <1>c DEF Inv, TypeOK, WorkerDies, arq, api, run
<1>2. BirthInv'
  BY <1>b, <1>c DEF Inv, TypeOK, BirthInv, Handled, WorkerDies, arq, api, run
<1>3. WorkerInv'
  BY <1>b, <1>c DEF Inv, TypeOK, WorkerInv, WorkerDies, arq, api, run
<1>4. ResultInv'
  BY <1>b, <1>c DEF Inv, TypeOK, ResultInv, Exists, WorkerDies, arq, api, run
<1>5. CauseInv'
  BY <1>b, <1>c DEF Inv, TypeOK, WorkerInv, CauseInv, Handled, WorkerDies, arq, api, run
<1> QED
  BY <1>1, <1>2, <1>3, <1>4, <1>5 DEF Inv

\* What is recoverable was live, so no "done" row loses its results.
LEMMA StartupInv ==
    ASSUME Inv, Startup
    PROVE  Inv'
<1>1. TypeOK'
  BY DEF Inv, TypeOK, Exists, Statuses, Live, Startup, api, arq, run, Recoverable
<1>2. BirthInv'
  BY DEF Inv, TypeOK, BirthInv, Handled, Exists, Statuses, Live, Startup, api, arq,
     run, Recoverable
<1>3. WorkerInv'
  BY DEF Inv, TypeOK, WorkerInv, Startup, api, arq, run, Recoverable
<1>4. ResultInv'
  BY DEF Inv, TypeOK, WorkerInv, ResultInv, Exists, Statuses, Live, Startup, api,
     arq, run, Recoverable
<1>5. CauseInv'
  BY DEF Inv, TypeOK, WorkerInv, CauseInv, Handled, Exists, Live, Startup, api, arq,
     run, Recoverable
<1> QED
  BY <1>1, <1>2, <1>3, <1>4, <1>5 DEF Inv

\* What was recoverable is blamed.
LEMMA StartupFailsInv ==
    ASSUME Inv, StartupFails
    PROVE  Inv'
<1>b. /\ cause' \in [Requests -> SUBSET Causes]
      /\ \A q \in Requests : cause[q] # {} \/ q \in Recoverable => cause'[q] # {}
  <2>1. /\ cause \in [Requests -> SUBSET Causes]
        /\ "recovery_failed" \in Causes
    BY DEF Inv, TypeOK, Causes
  <2>2. cause' = [q \in Requests |->
                     IF q \in Recoverable THEN cause[q] \cup {"recovery_failed"} ELSE cause[q]]
    BY DEF StartupFails
  <2> QED
    BY <2>1, <2>2
<1>c. faults' \in 0..MaxFaults
  BY FaultEffect DEF Inv, StartupFails
<1>1. TypeOK'
  BY <1>b, <1>c DEF Inv, TypeOK, Exists, Statuses, Live, StartupFails, arq, api, run
<1>2. BirthInv'
  BY <1>b, <1>c DEF Inv, TypeOK, BirthInv, Handled, Exists, Statuses, StartupFails,
     arq, api, run
<1>3. WorkerInv'
  BY <1>b, <1>c DEF Inv, TypeOK, WorkerInv, StartupFails, arq, api, run
<1>4. ResultInv'
  BY <1>b, <1>c DEF Inv, TypeOK, ResultInv, Exists, Statuses, Live, StartupFails,
     arq, api, run
<1>5. CauseInv'
  BY <1>b, <1>c DEF Inv, TypeOK, WorkerInv, CauseInv, Handled, Exists, Live,
     StartupFails, arq, api, run
<1> QED
  BY <1>1, <1>2, <1>3, <1>4, <1>5 DEF Inv

\* The recovered request gets a job or the blame for not getting one.
LEMMA RecoverInv ==
    ASSUME Inv, NEW r \in Requests, Recover(r)
    PROVE  Inv'
<1>a. row[r].job \in JobNames
  BY DEF Inv, BirthInv, Recover
<1>b. /\ queue' \in [Requests -> JobNames \cup {"none"}]
      /\ cause' \in [Requests -> SUBSET Causes]
      /\ \A q \in Requests : q # r => queue'[q] = queue[q] /\ cause'[q] = cause[q]
      /\ cause[r] # {} => cause'[r] # {}
      /\ queue[r] # "none" => queue'[r] # "none"
      /\ queue'[r] # "none" \/ cause'[r] # {}
      /\ attempt[r] = "concluded" => cause'[r] # {}
      /\ UNCHANGED <<result, tries>>
  BY <1>a, EnqueueEffect DEF Inv, Recover
<1>1. TypeOK'
  BY <1>a, <1>b DEF Inv, TypeOK, Recover, api, run
<1>2. BirthInv'
  BY <1>a, <1>b DEF Inv, TypeOK, BirthInv, Handled, Recover, api, run
<1>3. WorkerInv'
  BY <1>a, <1>b DEF Inv, TypeOK, WorkerInv, Recover, api, run
<1>4. ResultInv'
  BY <1>a, <1>b DEF Inv, TypeOK, ResultInv, Exists, Recover, api, run
<1>5. CauseInv'
  <2> SUFFICES ASSUME NEW q \in Requests, row[q].status \in Live
               PROVE  /\ Handled(q) \/ queue'[q] # "none" \/ q \in recovering' \/ cause'[q] # {}
                      /\ attempt[q] = "concluded" => Handled(q) \/ cause'[q] # {}
    BY DEF CauseInv, Handled, Recover, api, run
  <2>1. /\ Handled(q) \/ queue[q] # "none" \/ q \in recovering \/ cause[q] # {}
        /\ attempt[q] = "concluded" => Handled(q) \/ cause[q] # {}
    BY DEF Inv, CauseInv
  <2>2. CASE q = r
    BY <1>b, <2>1, <2>2
  <2>3. CASE q # r
    BY <1>b, <2>1, <2>3 DEF Recover
  <2> QED
    BY <2>2, <2>3
<1> QED
  BY <1>1, <1>2, <1>3, <1>4, <1>5 DEF Inv

\* What was still to be recovered is blamed.
LEMMA RecoverFailsInv ==
    ASSUME Inv, RecoverFails
    PROVE  Inv'
<1>b. /\ cause' \in [Requests -> SUBSET Causes]
      /\ \A q \in Requests : cause[q] # {} \/ q \in recovering => cause'[q] # {}
  <2>1. /\ cause \in [Requests -> SUBSET Causes]
        /\ "recovery_failed" \in Causes
    BY DEF Inv, TypeOK, Causes
  <2>2. cause' = [q \in Requests |->
                     IF q \in recovering THEN cause[q] \cup {"recovery_failed"} ELSE cause[q]]
    BY DEF RecoverFails
  <2> QED
    BY <2>1, <2>2
<1>c. faults' \in 0..MaxFaults
  BY FaultEffect DEF Inv, RecoverFails
<1>1. TypeOK'
  BY <1>b, <1>c DEF Inv, TypeOK, RecoverFails, arq, api, run
<1>2. BirthInv'
  BY <1>b, <1>c DEF Inv, TypeOK, BirthInv, Handled, RecoverFails, arq, api, run
<1>3. WorkerInv'
  BY <1>b, <1>c DEF Inv, TypeOK, WorkerInv, RecoverFails, arq, api, run
<1>4. ResultInv'
  BY <1>b, <1>c DEF Inv, TypeOK, ResultInv, Exists, RecoverFails, arq, api, run
<1>5. CauseInv'
  BY <1>b, <1>c DEF Inv, TypeOK, WorkerInv, CauseInv, Handled, RecoverFails, arq,
     api, run
<1> QED
  BY <1>1, <1>2, <1>3, <1>4, <1>5 DEF Inv

\* The recovery has nothing left to do.
LEMMA StartedInv ==
    ASSUME Inv, Started
    PROVE  Inv'
<1>1. TypeOK'
  BY DEF Inv, TypeOK, Started, api, arq, run
<1>2. BirthInv'
  BY DEF Inv, TypeOK, BirthInv, Handled, Started, api, arq, run
<1>3. WorkerInv'
  BY DEF Inv, TypeOK, WorkerInv, Started, api, arq, run
<1>4. ResultInv'
  BY DEF Inv, TypeOK, ResultInv, Exists, Started, api, arq, run
<1>5. CauseInv'
  BY DEF Inv, TypeOK, WorkerInv, CauseInv, Handled, Started, api, arq, run
<1> QED
  BY <1>1, <1>2, <1>3, <1>4, <1>5 DEF Inv

\* The job stays in the queue while its coroutine runs.
LEMMA PickInv ==
    ASSUME Inv, NEW r \in Requests, Pick(r)
    PROVE  Inv'
<1>1. TypeOK'
  BY DEF Inv, TypeOK, Pick, api, arq, run, MaxTries
<1>2. BirthInv'
  BY DEF Inv, TypeOK, BirthInv, Handled, Pick, api, arq, run, MaxTries
<1>3. WorkerInv'
  BY DEF Inv, TypeOK, WorkerInv, Pick, WorkerFunctions, JobNames, api
<1>4. ResultInv'
  BY DEF Inv, TypeOK, ResultInv, Exists, Pick, api, arq, run, MaxTries
<1>5. CauseInv'
  BY DEF Inv, TypeOK, WorkerInv, CauseInv, Handled, Pick, api, arq, run, MaxTries
<1> QED
  BY <1>1, <1>2, <1>3, <1>4, <1>5 DEF Inv

\* The job that arq gives up is blamed.
LEMMA RefuseInv ==
    ASSUME Inv, NEW r \in Requests, Refuse(r)
    PROVE  Inv'
<1>b. /\ cause' \in [Requests -> SUBSET Causes]
      /\ \A q \in Requests : q # r => cause'[q] = cause[q]
      /\ cause'[r] # {}
  BY BlameEffect DEF Inv, Refuse, Causes
<1>1. TypeOK'
  BY FinishEffect, <1>b DEF Inv, TypeOK, Refuse, api
<1>2. BirthInv'
  BY <1>b DEF Inv, TypeOK, BirthInv, Handled, Refuse, ArqFinish, api
<1>3. WorkerInv'
  BY <1>b DEF Inv, TypeOK, WorkerInv, Refuse, ArqFinish, api
<1>4. ResultInv'
  BY <1>b DEF Inv, TypeOK, ResultInv, Exists, Refuse, ArqFinish, api
<1>5. CauseInv'
  BY <1>b DEF Inv, TypeOK, WorkerInv, CauseInv, Handled, Refuse, ArqFinish, api
<1> QED
  BY <1>1, <1>2, <1>3, <1>4, <1>5 DEF Inv

\* A run begins with no item counted and no cause.
LEMMA LoadInv ==
    ASSUME Inv, NEW r \in Requests, Load(r)
    PROVE  Inv'
<1>1. TypeOK'
  BY DEF Inv, TypeOK, Exists, Statuses, Live, Load, api, arq, run, SetStatus
<1>2. BirthInv'
  BY DEF Inv, TypeOK, BirthInv, Handled, Exists, Statuses, Live, Load, api, arq,
     run, SetStatus
<1>3. WorkerInv'
  BY DEF Inv, TypeOK, WorkerInv, Load, api, arq, run, SetStatus
<1>4. ResultInv'
  BY DEF Inv, TypeOK, WorkerInv, ResultInv, Exists, Statuses, Live, Load, api, arq,
     run, SetStatus
<1>5. CauseInv'
  BY DEF Inv, TypeOK, WorkerInv, CauseInv, Handled, Exists, Live, Load, api, arq,
     run, SetStatus
<1> QED
  BY <1>1, <1>2, <1>3, <1>4, <1>5 DEF Inv

\* There is no row to be stuck.
LEMMA LoadMissingInv ==
    ASSUME Inv, NEW r \in Requests, LoadMissing(r)
    PROVE  Inv'
<1>1. TypeOK'
  BY DEF Inv, TypeOK, LoadMissing, api, arq, run, ArqFinish
<1>2. BirthInv'
  BY DEF Inv, TypeOK, BirthInv, Handled, LoadMissing, api, arq, run, ArqFinish
<1>3. WorkerInv'
  BY DEF Inv, TypeOK, WorkerInv, LoadMissing, api, arq, run, ArqFinish
<1>4. ResultInv'
  BY DEF Inv, TypeOK, ResultInv, Exists, LoadMissing, api, arq, run, ArqFinish
<1>5. CauseInv'
  BY DEF Inv, TypeOK, BirthInv, WorkerInv, CauseInv, Handled, Idle, Exists,
     Statuses, Live, JobNames, WorkerFunctions, LoadMissing, api, arq, run,
     ArqFinish
<1> QED
  BY <1>1, <1>2, <1>3, <1>4, <1>5 DEF Inv

\* What is counted has been written, if there is a row.
LEMMA MatchItemInv ==
    ASSUME Inv, NEW r \in Requests, NEW i \in Items, MatchItem(r, i)
    PROVE  Inv'
<1>1. TypeOK'
  BY DEF Inv, TypeOK, MatchItem, api, arq, run
<1>2. BirthInv'
  BY DEF Inv, TypeOK, BirthInv, Handled, MatchItem, api, arq, run
<1>3. WorkerInv'
  BY DEF Inv, TypeOK, WorkerInv, MatchItem, api, arq, run
<1>4. ResultInv'
  BY DEF Inv, TypeOK, ResultInv, Exists, MatchItem, api, arq, run
<1>5. CauseInv'
  BY DEF Inv, TypeOK, WorkerInv, CauseInv, Handled, MatchItem, api, arq, run
<1> QED
  BY <1>1, <1>2, <1>3, <1>4, <1>5 DEF Inv

\* The item that is counted without a result is among the unrecorded ones.
LEMMA LoseItemInv ==
    ASSUME Inv, NEW r \in Requests, NEW i \in Items, LoseItem(r, i)
    PROVE  Inv'
<1>c. faults' \in 0..MaxFaults
  BY FaultEffect DEF Inv, LoseItem
<1>1. TypeOK'
  BY <1>c DEF Inv, TypeOK, LoseItem, api, arq
<1>2. BirthInv'
  BY DEF Inv, TypeOK, BirthInv, Handled, LoseItem, api, arq
<1>3. WorkerInv'
  BY DEF Inv, TypeOK, WorkerInv, LoseItem, api, arq
<1>4. ResultInv'
  BY DEF Inv, TypeOK, ResultInv, Exists, LoseItem, api, arq
<1>5. CauseInv'
  BY DEF Inv, TypeOK, WorkerInv, CauseInv, Handled, LoseItem, api, arq
<1> QED
  BY <1>1, <1>2, <1>3, <1>4, <1>5 DEF Inv

\* The job is in the queue, so a row may be "running".
LEMMA ProgressInv ==
    ASSUME Inv, NEW r \in Requests, Progress(r)
    PROVE  Inv'
<1>1. TypeOK'
  BY DEF Inv, TypeOK, Exists, Statuses, Live, Progress, api, arq, run, SetStatus
<1>2. BirthInv'
  BY DEF Inv, TypeOK, BirthInv, Handled, Exists, Statuses, Live, Progress, api, arq,
     run, SetStatus
<1>3. WorkerInv'
  BY DEF Inv, TypeOK, WorkerInv, Progress, api, arq, run, SetStatus
<1>4. ResultInv'
  BY DEF Inv, TypeOK, ResultInv, Exists, Statuses, Live, Progress, api, arq, run,
     SetStatus
<1>5. CauseInv'
  BY DEF Inv, TypeOK, WorkerInv, CauseInv, Handled, Exists, Live, Progress, api,
     arq, run, SetStatus
<1> QED
  BY <1>1, <1>2, <1>3, <1>4, <1>5 DEF Inv

\* All items are counted, hence written but for the unrecorded ones: the row is "done" with its results.
LEMMA ConcludeInv ==
    ASSUME Inv, NEW r \in Requests, Conclude(r)
    PROVE  Inv'
<1>1. TypeOK'
  BY DEF Inv, TypeOK, Exists, Statuses, Live, Conclude, api, arq, run, SetStatus
<1>2. BirthInv'
  BY DEF Inv, TypeOK, BirthInv, Handled, Exists, Statuses, Live, Conclude, api, arq,
     run, SetStatus
<1>3. WorkerInv'
  BY DEF Inv, TypeOK, WorkerInv, Conclude, api, arq, run, SetStatus
<1>4. ResultInv'
  <2>1. retries = 0 /\ Exists(r) => Items \ fresh[r] \subseteq unrecorded[r]
    BY DEF Inv, TypeOK, ResultInv, Conclude
  <2> QED
    BY <2>1, StatusEffect DEF Inv, TypeOK, ResultInv, Conclude, SetStatus,
       Statuses, Live, Exists, arq, api
<1>5. CauseInv'
  BY DEF Inv, TypeOK, WorkerInv, CauseInv, Handled, Exists, Live, Conclude, api,
     arq, run, SetStatus
<1> QED
  BY <1>1, <1>2, <1>3, <1>4, <1>5 DEF Inv

\* The row is "failed", or the lost write is its cause.
LEMMA ConcludeFailsInv ==
    ASSUME Inv, NEW r \in Requests, ConcludeFails(r)
    PROVE  Inv'
<1>b. /\ cause' \in [Requests -> SUBSET Causes]
      /\ \A q \in Requests : q # r => cause'[q] = cause[q]
      /\ cause[r] # {} => cause'[r] # {}
      /\ (row' = row /\ cause'[r] # {}) \/ SetStatus(r, "failed")
  <2>1. CASE SetStatus(r, "failed") /\ UNCHANGED cause
    BY <2>1 DEF Inv, TypeOK
  <2>2. CASE Blame(r, "lost_write") /\ UNCHANGED row
    BY <2>2, BlameEffect DEF Inv, Causes
  <2> QED
    BY <2>1, <2>2 DEF ConcludeFails
<1>c. faults' \in 0..MaxFaults
  BY FaultEffect DEF Inv, ConcludeFails
<1>1. TypeOK'
  <2>1. row' \in [Requests -> [status : Statuses \cup {"unborn", "deleted"},
                              job : JobNames \cup {"none"}]]
    BY <1>b, StatusEffect DEF Inv, TypeOK, Statuses, Live
  <2> QED
    BY <1>b, <1>c, <2>1 DEF Inv, TypeOK, ConcludeFails, arq, api
<1>2. BirthInv'
  BY <1>b, <1>c DEF Inv, TypeOK, BirthInv, Handled, Exists, Statuses, Live,
     ConcludeFails, SetStatus, arq, api
<1>3. WorkerInv'
  BY <1>b, <1>c DEF Inv, TypeOK, WorkerInv, ConcludeFails, SetStatus, arq, api
<1>4. ResultInv'
  BY <1>b, <1>c DEF Inv, TypeOK, ResultInv, Exists, Statuses, Live, ConcludeFails,
     SetStatus, arq, api
<1>5. CauseInv'
  BY <1>b, <1>c DEF Inv, TypeOK, WorkerInv, CauseInv, Handled, Exists, Live,
     ConcludeFails, SetStatus, arq, api
<1> QED
  BY <1>1, <1>2, <1>3, <1>4, <1>5 DEF Inv

\* A concluded job leaves the queue; if its row is live again, it has a handler or a
\* cause.
LEMMA JobEndsInv ==
    ASSUME Inv, NEW r \in Requests, JobEnds(r)
    PROVE  Inv'
<1>1. TypeOK'
  BY DEF Inv, TypeOK, JobEnds, api, arq, run, ArqFinish
<1>2. BirthInv'
  BY DEF Inv, TypeOK, BirthInv, Handled, JobEnds, api, arq, run, ArqFinish
<1>3. WorkerInv'
  BY DEF Inv, TypeOK, WorkerInv, JobEnds, api, arq, run, ArqFinish
<1>4. ResultInv'
  BY DEF Inv, TypeOK, ResultInv, Exists, JobEnds, api, arq, run, ArqFinish
<1>5. CauseInv'
  BY DEF Inv, TypeOK, WorkerInv, CauseInv, Handled, JobEnds, api, arq, run, ArqFinish
<1> QED
  BY <1>1, <1>2, <1>3, <1>4, <1>5 DEF Inv

\* The failed job is blamed.
LEMMA JobFailsInv ==
    ASSUME Inv, NEW r \in Requests, JobFails(r)
    PROVE  Inv'
<1>b. /\ cause' \in [Requests -> SUBSET Causes]
      /\ \A q \in Requests : q # r => cause'[q] = cause[q]
      /\ cause'[r] # {}
  BY BlameEffect DEF Inv, JobFails, Causes
<1>c. faults' \in 0..MaxFaults
  BY FaultEffect DEF Inv, JobFails
<1>1. TypeOK'
  BY FinishEffect, <1>b, <1>c DEF Inv, TypeOK, JobFails, api
<1>2. BirthInv'
  BY <1>b, <1>c DEF Inv, TypeOK, BirthInv, Handled, JobFails, ArqFinish, api
<1>3. WorkerInv'
  BY <1>b, <1>c DEF Inv, TypeOK, WorkerInv, JobFails, ArqFinish, api
<1>4. ResultInv'
  BY <1>b, <1>c DEF Inv, TypeOK, ResultInv, Exists, JobFails, ArqFinish, api
<1>5. CauseInv'
  BY <1>b, <1>c DEF Inv, TypeOK, WorkerInv, CauseInv, Handled, JobFails, ArqFinish, api
<1> QED
  BY <1>1, <1>2, <1>3, <1>4, <1>5 DEF Inv

\* Only arq forgets.
LEMMA ResultExpiresInv ==
    ASSUME Inv, NEW r \in Requests, ResultExpires(r)
    PROVE  Inv'
<1>1. TypeOK'
  BY DEF Inv, TypeOK, ResultExpires, api, arq, run
<1>2. BirthInv'
  BY DEF Inv, TypeOK, BirthInv, Handled, ResultExpires, api, arq, run
<1>3. WorkerInv'
  BY DEF Inv, TypeOK, WorkerInv, ResultExpires, api, arq, run
<1>4. ResultInv'
  BY DEF Inv, TypeOK, ResultInv, Exists, ResultExpires, api, arq, run
<1>5. CauseInv'
  BY DEF Inv, TypeOK, WorkerInv, CauseInv, Handled, ResultExpires, api, arq, run
<1> QED
  BY <1>1, <1>2, <1>3, <1>4, <1>5 DEF Inv

-----------------------------------------------------------------------------
\* Every step preserves the invariant.
LEMMA NextInv == Inv /\ [Next]_vars => Inv'
<1> SUFFICES ASSUME Inv, [Next]_vars PROVE Inv'
  OBVIOUS
<1>1. CASE Startup \/ Started
  BY <1>1, StartupInv, StartedInv
<1>2. CASE Faulty
  BY <1>2, WorkerDiesInv, StartupFailsInv, RecoverFailsInv, EnqueueFailsInv,
     HandlerDiesInv, ConcludeFailsInv, JobFailsInv, LoseItemInv DEF Faulty
<1>3. ASSUME NEW h \in Handlers, HandlerStep(h) PROVE Inv'
  BY <1>3, RetryResetInv, EnqueueInv, MarkQueuedInv DEF HandlerStep
<1>4. ASSUME NEW h \in Handlers, NEW r \in Requests, Create(h, r) \/ RetryCheck(h, r)
      PROVE  Inv'
  BY <1>4, CreateInv, RetryCheckInv
<1>5. ASSUME NEW r \in Requests, WorkerStep(r) PROVE Inv'
  BY <1>5, RecoverInv, PickInv, RefuseInv, LoadInv, LoadMissingInv, MatchItemInv,
     ConcludeInv, JobEndsInv DEF WorkerStep
<1>6. ASSUME NEW r \in Requests, Progress(r) \/ ResultExpires(r) \/ Delete(r)
      PROVE  Inv'
  BY <1>6, ProgressInv, ResultExpiresInv, DeleteInv
<1>7. CASE UNCHANGED vars
  <2>1. /\ Inv
        /\ UNCHANGED <<row, fresh, queue, result, tries, worker, recovering, attempt,
                       counted, unrecorded, handler, retries, faults, cause>>
    BY <1>7 DEF vars
  <2> QED
    BY <2>1 DEF Inv, TypeOK, BirthInv, WorkerInv, ResultInv, CauseInv, Handled, Exists
<1> QED
  BY <1>1, <1>2, <1>3, <1>4, <1>5, <1>6, <1>7 DEF Next

\* The invariant holds in every reachable state.
LEMMA Invariance == Spec => []Inv
BY InitInv, NextInv, PTL DEF Spec

\* The rows, the queue, the worker and the handlers stay within their types.
THEOREM LifecycleTypeCorrect == Spec => []TypeOK
<1>1. Inv => TypeOK
  BY DEF Inv
<1> QED
  BY <1>1, Invariance, PTL

\* A request that nobody works on any more is over, unless one of the named
\* causes befell it since its last run began: there is no other way to get stuck.
THEOREM StuckCorrect == Spec => []StuckHasCause
<1>1. Inv => StuckHasCause
  <2> SUFFICES ASSUME Inv, NEW r \in Requests, Quiet(r), row[r].status \in Live
               PROVE  cause[r] # {}
    BY DEF StuckHasCause
  <2>1. ~Handled(r) /\ queue[r] = "none" /\ recovering = {}
    BY DEF Inv, WorkerInv, Quiet, Handled
  <2> QED
    BY <2>1 DEF Inv, CauseInv
<1> QED
  BY <1>1, Invariance, PTL

\* Without retries a "done" request has a result in every item row but those
\* whose error could not be recorded in the run that ended, whatever died, was
\* redelivered or was recovered on the way.
THEOREM ResultsCorrect == Spec => []DoneHasResults
<1>1. Inv => DoneHasResults
  BY DEF Inv, ResultInv, DoneHasResults, Exists, Statuses
<1> QED
  BY <1>1, Invariance, PTL
=============================================================================
