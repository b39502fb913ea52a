------------------------------- MODULE Review -------------------------------
(***************************************************************************)
(* Reviews of the items of one request: the database transactions of        *)
(* review_item and batch_review_items, with those that clear or delete the  *)
(* same rows (retry, the recovery of a starting worker, delete) and the     *)
(* worker that writes results into them.                                    *)
(*                                                                         *)
(* PostgreSQL runs them at READ COMMITTED.  A row is locked by SELECT ...   *)
(* FOR UPDATE, UPDATE or DELETE until the transaction ends; what a          *)
(* transaction writes is seen by the others when it commits; a plain SELECT *)
(* takes no lock.  A transaction takes its locks one at a time, and the     *)
(* order within one UPDATE or DELETE of many rows is the database's choice. *)
(* Rows inserted with a review that nothing here reads (aliases, supplier   *)
(* mappings, the audit log) are left out.                                   *)
(***************************************************************************)
EXTENDS Naturals, Sequences

CONSTANTS
    Items,            \* the rows of match_request_items
    Request,          \* the row of match_requests they belong to
    Users,            \* reviewers
    Products,         \* products of the catalog
    Unknown,          \* a product id the catalog does not hold
    Sessions,         \* database sessions
    Bodies,           \* what reviewers say of an item: a decision and a product
    MaxEntries,       \* bound: entries of a bulk review
    MaxTransactions,  \* bound: transactions begun
    None              \* SQL NULL

ASSUME ReviewAssumption ==
    /\ Request \notin Items
    /\ None \notin Items \cup {Request} \cup Users \cup Products \cup Sessions
    /\ Unknown \notin Products \cup {None}
    /\ Bodies \subseteq [decision : {"accepted", "corrected", "rejected"},
                        product : Products \cup {None, Unknown}]
    /\ MaxEntries \in Nat
    /\ MaxTransactions \in Nat

VARIABLES
    item,     \* the committed item rows
    label,    \* the golden label committed last for each item
    deleted,  \* whether the request and its items are gone
    lock,     \* the session that holds each row
    tx,       \* the transaction of each session
    begun     \* transactions begun, of MaxTransactions

vars == <<item, label, deleted, lock, tx, begun>>

Decisions == {"accepted", "corrected", "rejected"}
Sweeps == {"retry", "recovery", "delete"}
Kinds == {"single", "bulk"} \cup Sweeps
Rows == Items \cup {Request}

ItemRow == [best : Products \cup {None}, decision : Decisions \cup {None},
            final : Products \cup {None}, by : Users \cup {None}]
Label == [type : {"positive", "negative"}, product : Products \cup {None}]
Entry == [item : Items, body : Bodies]
Write == [decision : Decisions, final : Products \cup {None}, seen : ItemRow]

ASSUME NullAssumption == None \notin ItemRow

\* A transaction: its kind and user, the entries of its body it has still to do,
\* the item row it has read for the first of them, the row it is about to lock
\* and those it locks after it, and what it has written and not committed.
Transaction ==
    [kind : Kinds \cup {"idle"}, by : Users \cup {None}, entries : Seq(Entry),
     seen : ItemRow \cup {None}, wants : Rows \cup {None}, rest : SUBSET Rows,
     writes : [Items -> Write \cup {None}]]

TypeOK ==
    /\ item \in [Items -> ItemRow]
    /\ label \in [Items -> Label \cup {None}]
    /\ deleted \in BOOLEAN
    /\ lock \in [Rows -> Sessions \cup {None}]
    /\ tx \in [Sessions -> Transaction]
    /\ begun \in 0..MaxTransactions

Opened(kind, user, entries, wants, rest) ==
    [kind |-> kind, by |-> user, entries |-> entries, seen |-> None,
     wants |-> wants, rest |-> rest, writes |-> [i \in Items |-> None]]
Idle == Opened("idle", None, <<>>, None, {})

Init ==
    /\ item = [i \in Items |-> [best |-> None, decision |-> None,
                                final |-> None, by |-> None]]
    /\ label = [i \in Items |-> None]
    /\ deleted = FALSE
    /\ lock = [r \in Rows |-> None]
    /\ tx = [s \in Sessions |-> Idle]
    /\ begun = 0

-----------------------------------------------------------------------------
Becomes(s, t) == tx' = [tx EXCEPT ![s] = t]

Begin(s, t) ==
    /\ tx[s].kind = "idle"
    /\ begun < MaxTransactions
    /\ begun' = begun + 1
    /\ Becomes(s, t)
    /\ UNCHANGED <<item, label, deleted, lock>>

\* Plausible bugs of review_item's query, for the runs to tell from the code: FOR
\* UPDATE is forgotten; or the join is written from the request's side.
ReviewUnlocked(s) ==
    \E user \in Users, e \in Entry :
        Begin(s, [Opened("single", user, <<e>>, None, {}) EXCEPT !.seen = item[e.item]])
ReviewRequestFirst(s) ==
    \E user \in Users, e \in Entry :
        Begin(s, Opened("single", user, <<e>>, Request, {e.item}))

\* review_item starts with get_item_with_request(for_update=True): the item's row
\* is locked and then the request's, which the join reads with it.
ReviewItem(s) ==
    \E user \in Users, e \in Entry :
        Begin(s, Opened("single", user, <<e>>, e.item, {Request}))

\* batch_review_items locks nothing before its first UPDATE.
BatchReviewItems(s) ==
    \E user \in Users, n \in 1..MaxEntries : \E es \in [1..n -> Entry] :
        Begin(s, Opened("bulk", user, es, None, {}))

\* retry_match_request updates the request, then all its items.
RetryRequest(s) ==
    /\ ~deleted
    /\ Begin(s, Opened("retry", None, <<>>, Request, Items))

\* match_startup clears the items and then updates the request; one worker starts
\* at a time.
Recover(s) ==
    /\ ~deleted
    /\ \A other \in Sessions : tx[other].kind # "recovery"
    /\ \E i \in Items :
          Begin(s, Opened("recovery", None, <<>>, i, Rows \ {i}))

\* delete_match_request deletes the items, with their candidates, and then the
\* request.
DeleteRequest(s) ==
    \E i \in Items : Begin(s, Opened("delete", None, <<>>, i, Rows \ {i}))

\* The transaction ends: its locks go, and what it had not committed with them.
Close(s) ==
    /\ Becomes(s, Idle)
    /\ lock' = [r \in Rows |-> IF lock[r] = s THEN None ELSE lock[r]]

-----------------------------------------------------------------------------
\* The rows that may be locked next: the items in any order, the request last.
NextRows(rest) ==
    IF rest = {} THEN {None}
    ELSE {r \in rest : r # Request \/ rest = {Request}}

\* The row is locked when no other transaction holds it.  FOR UPDATE returns the
\* row as it is then, and not as it was when the statement began to wait.
Lock(s) ==
    LET row == tx[s].wants IN
    /\ row # None
    /\ ~deleted
    /\ lock[row] \in {None, s}
    /\ lock' = [lock EXCEPT ![row] = s]
    /\ \E next \in NextRows(tx[s].rest) :
          Becomes(s, [tx[s] EXCEPT
                        !.wants = next,
                        !.rest = tx[s].rest \ {next},
                        !.seen = IF tx[s].kind = "single" /\ row \in Items
                                 THEN item[row] ELSE tx[s].seen])
    /\ UNCHANGED <<item, label, deleted, begun>>

\* The row was deleted: review_item answers 404, and an UPDATE or DELETE of it
\* finds nothing and the transaction goes on.
RowIsGone(s) ==
    /\ tx[s].wants # None
    /\ deleted
    /\ IF tx[s].kind = "single"
       THEN Close(s)
       ELSE /\ Becomes(s, [tx[s] EXCEPT !.wants = None, !.rest = {}])
            /\ UNCHANGED lock
    /\ UNCHANGED <<item, label, deleted, begun>>

\* A correction must name a product of the catalog.
Misses(body) == body.decision = "corrected" /\ body.product = Unknown

\* The bulk review reads the item of its next entry without a lock, and skips the
\* entry when there is none or its product is missing.  An item that an earlier entry
\* named may come from the ORM's identity map, as it was read then.
ReadEntry(s) ==
    /\ tx[s].kind = "bulk"
    /\ tx[s].entries # <<>>
    /\ tx[s].wants = None
    /\ tx[s].seen = None
    /\ LET e == Head(tx[s].entries)
           earlier == tx[s].writes[e.item]
       IN
       IF deleted \/ Misses(e.body)
       THEN Becomes(s, [tx[s] EXCEPT !.entries = Tail(tx[s].entries)])
       ELSE \E row \in {item[e.item]} \cup {w.seen : w \in {earlier} \ {None}} :
               Becomes(s, [tx[s] EXCEPT !.seen = row, !.wants = e.item])
    /\ UNCHANGED <<item, label, deleted, lock, begun>>

\* An accepted item without a product takes its best candidate.
FinalProduct(body, row) ==
    IF body.decision = "accepted" /\ body.product = None THEN row.best ELSE body.product

\* A plausible bug: only what was accepted is defended.
AcceptedByAnother(row, user) == row.decision = "accepted" /\ row.by # user

\* Someone else's decision stands: 409.
ReviewedByAnother(row, user) == row.decision # None /\ row.by # user

\* review_item answers 409 or 404, or the UPDATE of either names a product that
\* the foreign key does not know: the transaction is rolled back.
Refused(s) ==
    LET body == Head(tx[s].entries).body IN
    \/ /\ tx[s].kind = "single"
       /\ ReviewedByAnother(tx[s].seen, tx[s].by) \/ Misses(body)
    \/ FinalProduct(body, tx[s].seen) = Unknown

\* A plausible bug: the session of a refused review is left open.
RefuseAndLinger(s) ==
    /\ tx[s].wants = None
    /\ tx[s].seen # None
    /\ Refused(s)
    /\ Becomes(s, [tx[s] EXCEPT !.seen = None])
    /\ UNCHANGED <<item, label, deleted, lock, begun>>

Refuse(s) ==
    /\ tx[s].wants = None
    /\ tx[s].seen # None
    /\ Refused(s)
    /\ Close(s)
    /\ UNCHANGED <<item, label, deleted, begun>>

\* update_item_review and create_golden_label, with the alias and the mapping that the
\* reviewer asks for, not yet committed.
Decide(s) ==
    LET e == Head(tx[s].entries)
        write == [decision |-> e.body.decision,
                  final |-> FinalProduct(e.body, tx[s].seen),
                  seen |-> tx[s].seen]
    IN
    /\ tx[s].wants = None
    /\ tx[s].seen # None
    /\ ~Refused(s)
    /\ Becomes(s, [tx[s] EXCEPT
                     !.entries = Tail(tx[s].entries),
                     !.seen = None,
                     !.writes = [tx[s].writes EXCEPT ![e.item] = write]])
    /\ UNCHANGED <<item, label, deleted, lock, begun>>

-----------------------------------------------------------------------------
\* A plausible bug: the decision itself, which ck_golden_labels_type refuses.
LabelOfDecision(decision) == decision
LabelType(decision) == IF decision = "rejected" THEN "negative" ELSE "positive"

\* db.commit() of either review.
CommitReview(s) ==
    /\ tx[s].kind \in {"single", "bulk"}
    /\ tx[s].entries = <<>>
    /\ tx[s].wants = None
    /\ LET w == tx[s].writes IN
       /\ item' = [i \in Items |->
                     IF w[i] = None \/ deleted THEN item[i]
                     ELSE [item[i] EXCEPT !.decision = w[i].decision,
                                          !.final = w[i].final, !.by = tx[s].by]]
       /\ label' = [i \in Items |->
                      IF w[i] = None THEN label[i]
                      ELSE [type |-> LabelType(w[i].decision), product |-> w[i].final]]
    /\ Close(s)
    /\ UNCHANGED <<deleted, begun>>

\* clear_item_results empties the columns of the result and no other.
CommitClear(s) ==
    /\ tx[s].kind \in {"retry", "recovery"}
    /\ tx[s].wants = None
    /\ item' = IF deleted THEN item
               ELSE [i \in Items |-> [item[i] EXCEPT !.best = None]]
    /\ Close(s)
    /\ UNCHANGED <<label, deleted, begun>>

CommitDelete(s) ==
    /\ tx[s].kind = "delete"
    /\ tx[s].wants = None
    /\ deleted' = TRUE
    /\ Close(s)
    /\ UNCHANGED <<item, label, begun>>

\* Waits(s, t): s is blocked by t.  In a deadlocked set each is blocked by another.
Waits(s, t) ==
    /\ s # t
    /\ tx[s].wants # None
    /\ lock[tx[s].wants] = t
Deadlocked(S) == S # {} /\ \A s \in S : \E t \in S : Waits(s, t)

\* PostgreSQL rolls back a member of the deadlocked set; the handler answers 500.
DeadlockVictim(s) ==
    /\ \E S \in SUBSET Sessions : s \in S /\ Deadlocked(S)
    /\ Close(s)
    /\ UNCHANGED <<item, label, deleted, begun>>

\* statement_timeout, a lost connection, an exception, an alias or a mapping that a
\* constraint refuses (the supplier has that text already): any transaction may end so.
RollBack(s) ==
    /\ tx[s].kind # "idle"
    /\ Close(s)
    /\ UNCHANGED <<item, label, deleted, begun>>

\* update_item_result, with the item's candidates, in a transaction of one item row;
\* it holds no other row, so it is one step.  A worker that starts runs no job.
WorkerWrites(i) ==
    /\ ~deleted
    /\ lock[i] = None
    /\ \A s \in Sessions : tx[s].kind # "recovery"
    /\ \E p \in Products : item' = [item EXCEPT ![i].best = p]
    /\ UNCHANGED <<label, deleted, lock, tx, begun>>

Step(s) ==
    \/ Lock(s)
    \/ RowIsGone(s)
    \/ ReadEntry(s)
    \/ Refuse(s)
    \/ Decide(s)
    \/ CommitReview(s)
    \/ CommitClear(s)
    \/ CommitDelete(s)
    \/ DeadlockVictim(s)

Next ==
    \/ \E s \in Sessions :
          \/ ReviewItem(s)
          \/ BatchReviewItems(s)
          \/ RetryRequest(s)
          \/ Recover(s)
          \/ DeleteRequest(s)
          \/ Step(s)
          \/ RollBack(s)
    \/ \E i \in Items : WorkerWrites(i)

\* A handler goes on with its transaction, and the database grants a free row and
\* breaks a deadlock.
Fairness == \A s \in Sessions : WF_vars(Step(s))

Spec == Init /\ [][Next]_vars /\ Fairness

-----------------------------------------------------------------------------
\* review.py:34 "lock row to prevent concurrent reviews": what review_item decides is
\* a decision about the row as it is when it commits.  Neither a result that the
\* worker or a retry wrote meanwhile nor the decision of somebody else comes between
\* its reading of the item and its commit.
ReviewsWhatItSaw ==
    \A s \in Sessions, i \in Items :
        /\ tx[s].kind = "single"
        /\ tx[s].writes[i] # None
        => tx[s].writes[i].seen = item[i]

\* The decision of one user is replaced by another user's only in a bulk review:
\* review_item answers 409 instead, whatever commits while it waits.
OthersDecisionKept ==
    [][\A i \in Items :
          /\ item[i].decision # None
          /\ item'[i].by # item[i].by
          => \E s \in Sessions : tx[s].kind = "bulk" /\ tx'[s] = Idle]_vars

\* Transactions that lock items before the request, and at most one of which locks
\* several items, never deadlock.  Whatever deadlocks involves a bulk review, a
\* retry (which locks the request first), or a recovery and a delete (or two
\* deletes) that sweep the items in different orders.
DeadlockHasCause ==
    \A S \in SUBSET Sessions :
        Deadlocked(S) =>
            \/ \E s \in S : tx[s].kind \in {"bulk", "retry"}
            \/ \E s, t \in S : s # t /\ {tx[s].kind, tx[t].kind} \subseteq Sweeps

\* Every transaction ends: the locks of a review, a retry or a delete are not held
\* for ever, deadlocks and refusals included.
EveryTransactionEnds ==
    \A s \in Sessions : tx[s].kind # "idle" ~> tx[s].kind = "idle"

-----------------------------------------------------------------------------
\* What the code says of itself and does not do.

\* db/repos/match.py:134 "Reset all items in a request to pending state for
\* reprocessing": an item that a retry or a recovery has cleared is undecided, and
\* so back in the review queue when its new result needs a review.
ClearedIsPending ==
    [][\A s \in Sessions :
          /\ tx[s].kind \in {"retry", "recovery"}
          /\ tx'[s] = Idle
          /\ item' # item
          => \A i \in Items : item'[i].decision = None]_vars
=============================================================================
