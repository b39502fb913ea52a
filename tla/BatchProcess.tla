---------------------------- MODULE BatchProcess ----------------------------
(***************************************************************************)
(* One run of `_process_batch` (worker/tasks.py): an asyncio task per item, *)
(* a semaphore, one database session per item, counters under a lock,      *)
(* progress reports written after the lock is released, an error path for  *)
(* an item that raises and another for the run, and the cancellation that  *)
(* arq's timeout or a shutdown throws into the coroutine.                  *)
(*                                                                         *)
(* A step is what happens between two awaits whose effect another task or  *)
(* another process can see: a committed transaction, or a section under the *)
(* lock (it awaits nothing, so it is one step).  A transaction that raises  *)
(* leaves nothing behind.                                                  *)
(***************************************************************************)
EXTENDS MatchOutcomes

CONSTANTS
    Items,            \* the rows of match_request_items the run was given
    MaxConcurrency,   \* settings.batch_concurrency
    CommitEvery       \* commit_every

ASSUME BatchAssumption ==
    /\ IsFiniteSet(Items)
    /\ MaxConcurrency \in Nat \ {0}
    /\ CommitEvery \in Nat \ {0}

VARIABLES
    pc,         \* where the task of each item is
    row,        \* the status of each item row
    saved,      \* how many times candidates were saved for each item
    counters,   \* the dict that the tasks share
    snapshot,   \* the copy of it that a task carries to its progress report
    job,        \* the coroutine as a whole
    request     \* the request row: its status and its counter columns

vars == <<pc, row, saved, counters, snapshot, job, request>>

\* "blank" is a row that create_items or clear_item_results left (no_match, no
\* confidence), "error" one that the error path wrote (no_match, confidence 0).
RowStates == Outcomes \cup {"blank", "error"}

Labels == {"waiting", "matching", "counting", "reporting",
           "recording", "countingError", "finished"}

\* The bug that Holding could have: the semaphore taken and never released.
HoldingForever == Labels \ {"waiting"}

\* Where a task is inside `async with sem`.
Holding == {"matching", "counting", "reporting", "recording", "countingError"}

TypeOK ==
    /\ pc \in [Items -> Labels]
    /\ row \in [Items -> RowStates]
    /\ saved \in [Items -> Nat]
    /\ counters \in Tallies
    /\ snapshot \in [Items -> Tallies]
    /\ job \in {"preparing", "running", "failing", "returned", "cancelled"}
    /\ request \in [status : {"running", "done", "failed"}, counts : Tallies]

\* The status column of an item row.
StatusOf(r) == IF r \in Outcomes THEN r ELSE "no_match"

ItemStatus == [i \in Items |-> StatusOf(row[i])]

\* The items whose outcome is in the counters.
Counted == {i \in Items : pc[i] \in {"reporting", "finished"}}

\* The coroutine has returned or let the cancellation through.
Ended == job \in {"returned", "cancelled"}

\* The tasks are there once gather has created them, until they are cancelled:
\* that the coroutine returned would not stop one.
Scheduled == job \notin {"preparing", "cancelled"}

Goto(i, label) == pc' = [pc EXCEPT ![i] = label]

-----------------------------------------------------------------------------
\* Plausible bugs of the steps below.  Next uses none of them: each is what the
\* code could have said, and shows that a property would notice.

\* A status that ck_match_request_items_status does not know.
RecordFailed(i) ==
    /\ Scheduled
    /\ pc[i] = "recording"
    /\ row' = [row EXCEPT ![i] = "failed"]
    /\ Goto(i, "countingError")
    /\ UNCHANGED <<saved, counters, snapshot, job, request>>

\* The candidates and the row in transactions of their own.
RaiseAfterSave(i) ==
    /\ Scheduled
    /\ pc[i] = "matching"
    /\ saved' = [saved EXCEPT ![i] = @ + 1]
    /\ Goto(i, "recording")
    /\ UNCHANGED <<row, counters, snapshot, job, request>>

\* The counters read before the lock and written back under it.
CountStale(i) ==
    /\ Scheduled
    /\ pc[i] = "counting"
    /\ \E k \in Items :
          counters' = IF k # i /\ pc[k] = "counting"
                      THEN counters ELSE Bump(counters, StatusOf(row[i]))
    /\ Goto(i, "finished")
    /\ UNCHANGED <<row, saved, snapshot, job, request>>

\* The error path leaves the item out of "processed".
CountErrorUnprocessed(i) ==
    /\ Scheduled
    /\ pc[i] = "countingError"
    /\ counters' = [counters EXCEPT !["no_match"] = @ + 1]
    /\ Goto(i, "finished")
    /\ UNCHANGED <<row, saved, snapshot, job, request>>

\* The progress report copies the shared dict column by column as it goes.
ReportUnsnapped(i) ==
    /\ Scheduled
    /\ pc[i] = "reporting"
    /\ request' = [status |-> "running",
                   counts |-> [snapshot[i] EXCEPT !["no_match"] = counters["no_match"]]]
    /\ Goto(i, "finished")
    /\ UNCHANGED <<row, saved, counters, snapshot, job>>

\* A run is over when every item is counted, reports in flight or not.
GatheredByCount == counters["processed"] = Cardinality(Items)

-----------------------------------------------------------------------------
\* The request is "running" with zeroed counters and its items are blank: both
\* ways into a run (creation, and a reset by retry or recovery) leave it so.
Init ==
    /\ pc = [i \in Items |-> "waiting"]
    /\ row = [i \in Items |-> "blank"]
    /\ saved = [i \in Items |-> 0]
    /\ counters = ZeroTally
    /\ snapshot = [i \in Items |-> ZeroTally]
    /\ job = "preparing"
    /\ request = [status |-> "running", counts |-> ZeroTally]

\* The synonym map, the normalised texts, the batch embedding and the bulk LLM
\* call for the whole batch.  Whatever raises in there is logged, and the items
\* do without it.
Prepare ==
    /\ job = "preparing"
    /\ job' = "running"
    /\ UNCHANGED <<pc, row, saved, counters, snapshot, request>>

\* async with sem
Acquire(i) ==
    /\ Scheduled
    /\ pc[i] = "waiting"
    /\ Cardinality({k \in Items : pc[k] \in Holding}) < MaxConcurrency
    /\ Goto(i, "matching")
    /\ UNCHANGED <<row, saved, counters, snapshot, job, request>>

\* match_single decided o: the row, and the candidates if there are any, are
\* written in one transaction.
Persist(i, o) ==
    /\ Scheduled
    /\ pc[i] = "matching"
    /\ row' = [row EXCEPT ![i] = o]
    /\ \E alternatives \in BOOLEAN :
          saved' = IF alternatives THEN [saved EXCEPT ![i] = @ + 1] ELSE saved
    /\ Goto(i, "counting")
    /\ UNCHANGED <<counters, snapshot, job, request>>

\* match_single, a statement or the commit raised; the session rolls back.
Raise(i) ==
    /\ Scheduled
    /\ pc[i] = "matching"
    /\ Goto(i, "recording")
    /\ UNCHANGED <<row, saved, counters, snapshot, job, request>>

\* async with lock: count, and snapshot every commit_every-th item.
Count(i) ==
    /\ Scheduled
    /\ pc[i] = "counting"
    /\ counters' = Bump(counters, StatusOf(row[i]))
    /\ IF counters'["processed"] % CommitEvery = 0
       THEN Goto(i, "reporting") /\ snapshot' = [snapshot EXCEPT ![i] = counters']
       ELSE Goto(i, "finished") /\ UNCHANGED snapshot
    /\ UNCHANGED <<row, saved, job, request>>

\* The progress report, outside the lock; a failure to report is only logged.
Report(i) ==
    /\ Scheduled
    /\ pc[i] = "reporting"
    /\ \/ request' = [status |-> "running", counts |-> snapshot[i]]
       \/ UNCHANGED request
    /\ Goto(i, "finished")
    /\ UNCHANGED <<row, saved, counters, snapshot, job>>

\* err_session; a failure to record the error is only logged.
RecordError(i) ==
    /\ Scheduled
    /\ pc[i] = "recording"
    /\ \/ row' = [row EXCEPT ![i] = "error"]
       \/ UNCHANGED row
    /\ Goto(i, "countingError")
    /\ UNCHANGED <<saved, counters, snapshot, job, request>>

\* The error path counts a no_match and never reports progress.
CountError(i) ==
    /\ Scheduled
    /\ pc[i] = "countingError"
    /\ counters' = Bump(counters, "no_match")
    /\ Goto(i, "finished")
    /\ UNCHANGED <<row, saved, snapshot, job, request>>

-----------------------------------------------------------------------------
\* asyncio.gather returns when every task did.
Gathered == \A i \in Items : pc[i] = "finished"

\* The last transaction: the final status and the token log.  It commits; or
\* the token insert failed, which flush() hides, and the commit of the aborted
\* transaction is a rollback that raises nothing; or it raises.
Finalize ==
    /\ job = "running"
    /\ Gathered
    /\ \/ request' = [status |-> "done", counts |-> counters] /\ job' = "returned"
       \/ job' = "returned" /\ UNCHANGED request
       \/ job' = "failing" /\ UNCHANGED request
    /\ UNCHANGED <<pc, row, saved, counters, snapshot>>

\* except Exception: mark the request failed; a failure of that is only logged.
MarkFailed ==
    /\ job = "failing"
    /\ \/ request' = [status |-> "failed", counts |-> counters]
       \/ UNCHANGED request
    /\ job' = "returned"
    /\ UNCHANGED <<pc, row, saved, counters, snapshot>>

\* CancelledError (job timeout, worker shutdown) passes every `except Exception`
\* and gather hands it to the tasks: nothing more is written.
Cancel ==
    /\ ~Ended
    /\ job' = "cancelled"
    /\ UNCHANGED <<pc, row, saved, counters, snapshot, request>>

ItemStep(i) ==
    \/ Acquire(i)
    \/ \E o \in Outcomes : Persist(i, o)
    \/ Raise(i)
    \/ Count(i)
    \/ Report(i)
    \/ RecordError(i)
    \/ CountError(i)

Work == Prepare \/ Finalize \/ MarkFailed \/ \E i \in Items : ItemStep(i)

\* The coroutine is over; its worker goes on with other jobs.
Idle == Ended /\ UNCHANGED vars

Next == Work \/ Cancel \/ Idle

Spec == Init /\ [][Next]_vars

\* The event loop runs whatever task is ready.
FairSpec == Spec /\ WF_vars(Work)

-----------------------------------------------------------------------------
\* The shared dict always says exactly what the rows of the counted items say,
\* whichever tasks raised and whether or not their error could be recorded.
CountersMatchRows == counters = Tally(Counted, ItemStatus)

\* A request is only ever shown as "done" with all its items counted, under the
\* statuses that their rows show.
DoneIsComplete ==
    request.status = "done" => request.counts = Tally(Items, ItemStatus)

\* A run saves the candidates of an item at most once, and never beside a row
\* that says the item was not matched at all.
CandidatesMatchRow ==
    \A i \in Items : /\ saved[i] <= 1
                     /\ saved[i] = 1 => row[i] \in Outcomes

\* No write of the run lands after the status that ends the request: no late
\* progress report takes it back to "running", no item changes any more.
TerminalIsFinal ==
    [][request.status \in {"done", "failed"} => UNCHANGED <<row, saved, request>>]_vars

\* With an event loop that goes on, a run ends, whatever raises in it.
EveryRunEnds == <>Ended

\* What a client that polls the request sees is a run of BatchAbs: an item is
\* decided when it is counted, and each report, however late, is an exact tally.
CountedOutcome == [i \in Items |-> IF i \in Counted THEN ItemStatus[i] ELSE "none"]

Abs == INSTANCE BatchAbs WITH
    outcome <- CountedOutcome,
    status <- request.status,
    published <- request.counts

ImplementsAbs == Abs!Spec
=============================================================================
