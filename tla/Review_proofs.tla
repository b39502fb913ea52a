--------------------------- MODULE Review_proofs ---------------------------
(***************************************************************************)
(* Proofs about Review, for any items, reviewers, sessions and bodies.       *)
(*                                                                         *)
(* The inductive invariant says of each session which rows its locks cover  *)
(* at each point (Holding), in which order it takes them (Ordered), and     *)
(* that a single review's reading and writing (Reading, Writing) are of     *)
(* rows that it holds and nobody has changed.                               *)
(***************************************************************************)
EXTENDS Review, TLAPS

First(s) == Head(tx[s].entries).item
Owns(s, i) == lock[i] = s \/ deleted

\* An idle session holds and awaits nothing.
Resting(s) ==
    tx[s].kind = "idle" =>
        /\ tx[s].wants = None
        /\ \A r \in Rows : lock[r] # s

\* Items before the request, but for a retry and a bulk review.  A single review
\* holds nothing while it waits for its item.
Ordered(s) ==
    /\ tx[s].wants = None => tx[s].rest = {}
    /\ tx[s].kind \in {"single", "recovery", "delete"} =>
          /\ tx[s].wants = Request => tx[s].rest = {}
          /\ lock[Request] = s => tx[s].wants = None
    /\ tx[s].kind = "single" /\ tx[s].wants \in Items =>
          /\ tx[s].rest = {Request}
          /\ tx[s].entries # <<>>
          /\ First(s) = tx[s].wants
          /\ \A i \in Items : lock[i] # s

\* A sweep holds every item that it is not still to lock.
Holding(s) ==
    tx[s].kind \in Sweeps =>
        \A i \in Items : Owns(s, i) \/ tx[s].wants = i \/ i \in tx[s].rest

\* The item read is that of the first entry, locked before it is decided.
Reading(s) ==
    tx[s].seen # None =>
        /\ tx[s].kind \in {"single", "bulk"}
        /\ tx[s].entries # <<>>
        /\ tx[s].kind = "single" => /\ lock[First(s)] = s
                                    /\ tx[s].seen = item[First(s)]
        /\ tx[s].kind = "bulk" => IF tx[s].wants = None THEN Owns(s, First(s))
                                  ELSE tx[s].wants = First(s)

\* What is written and not committed is on rows that the session holds; a single
\* review's fits the row that it saw.
Writing(s) ==
    \A i \in Items :
        tx[s].writes[i] # None =>
            /\ tx[s].kind \in {"single", "bulk"}
            /\ Owns(s, i)
            /\ tx[s].kind = "single" =>
                  /\ lock[i] = s
                  /\ tx[s].writes[i].seen = item[i]
                  /\ ~ReviewedByAnother(item[i], tx[s].by)

\* A bulk review locks one row at a time.
BulkAlone(s) == tx[s].kind = "bulk" => tx[s].rest = {}

SessionInv(s) ==
    /\ Resting(s)
    /\ Ordered(s)
    /\ Holding(s)
    /\ BulkAlone(s)
    /\ Reading(s)
    /\ Writing(s)
IInv == TypeOK /\ \A s \in Sessions : SessionInv(s)

USE DEF Rows, Kinds, Sweeps, Decisions

-----------------------------------------------------------------------------
\* Types.

LEMMA OpenedType ==
    ASSUME NEW kind \in Kinds \cup {"idle"}, NEW user \in Users \cup {None},
           NEW entries \in Seq(Entry), NEW wants \in Rows \cup {None},
           NEW rest \in SUBSET Rows
    PROVE  Opened(kind, user, entries, wants, rest) \in Transaction
BY DEF Opened, Transaction

LEMMA NoEntries == <<>> \in Seq(Entry)
OBVIOUS

LEMMA IdleType == Idle \in Transaction
BY NoEntries DEF Idle, Opened, Transaction

LEMMA InitType == Init => TypeOK
<1>1. ASSUME Init PROVE item \in [Items -> ItemRow]
  BY <1>1 DEF Init, ItemRow
<1>2. ASSUME Init PROVE begun \in 0..MaxTransactions
  BY <1>2, ReviewAssumption DEF Init
<1>3. QED BY <1>1, <1>2, IdleType DEF Init, TypeOK

\* A step changes the transaction of one session.
LEMMA BecomesEffect ==
    ASSUME TypeOK, NEW s \in Sessions, NEW t, Becomes(s, t)
    PROVE  /\ tx'[s] = t
           /\ \A u \in Sessions : u # s => tx'[u] = tx[u]
           /\ t \in Transaction => tx' \in [Sessions -> Transaction]
BY DEF TypeOK, Becomes

LEMMA BeginType ==
    ASSUME TypeOK, NEW s \in Sessions, NEW t \in Transaction, Begin(s, t)
    PROVE  TypeOK'
BY ReviewAssumption, BecomesEffect DEF TypeOK, Begin

LEMMA CloseType ==
    ASSUME TypeOK, NEW s \in Sessions, Close(s)
    PROVE  tx' \in [Sessions -> Transaction] /\ lock' \in [Rows -> Sessions \cup {None}]
BY IdleType, BecomesEffect DEF TypeOK, Close

LEMMA NextRowsType ==
    ASSUME NEW rest \in SUBSET Rows, NEW next \in NextRows(rest)
    PROVE  /\ next \in Rows \cup {None}
           /\ next = None => rest = {}
           /\ rest = {} => next = None
           /\ next = Request => rest = {Request}
BY ReviewAssumption DEF NextRows

\* What Lock makes of the transaction.
LEMMA LockEffect ==
    ASSUME TypeOK, NEW s \in Sessions, Lock(s)
    PROVE  /\ tx'[s] \in Transaction
           /\ tx'[s].wants \in NextRows(tx[s].rest)
           /\ tx'[s].rest = tx[s].rest \ {tx'[s].wants}
           /\ tx'[s].seen = IF tx[s].kind = "single" /\ tx[s].wants \in Items
                            THEN item[tx[s].wants] ELSE tx[s].seen
           /\ tx'[s].kind = tx[s].kind
           /\ tx'[s].by = tx[s].by
           /\ tx'[s].entries = tx[s].entries
           /\ tx'[s].writes = tx[s].writes
           /\ \A u \in Sessions : u # s => tx'[u] = tx[u]
           /\ tx' \in [Sessions -> Transaction]
<1> DEFINE row == tx[s].wants
           seen == IF tx[s].kind = "single" /\ row \in Items THEN item[row] ELSE tx[s].seen
<1>1. PICK next \in NextRows(tx[s].rest) :
             Becomes(s, [tx[s] EXCEPT !.wants = next, !.rest = tx[s].rest \ {next},
                                      !.seen = seen])
  BY DEF Lock
<1>2. tx[s] \in Transaction
  BY DEF TypeOK
<1>3. next \in Rows \cup {None}
  BY <1>2, NextRowsType DEF Transaction
<1>4. seen \in ItemRow \cup {None}
  BY <1>2 DEF TypeOK, Transaction
<1> HIDE DEF seen
<1>5. [tx[s] EXCEPT !.wants = next, !.rest = tx[s].rest \ {next}, !.seen = seen]
        \in Transaction
  BY <1>2, <1>3, <1>4 DEF Transaction
<1>6. /\ tx'[s] = [tx[s] EXCEPT !.wants = next, !.rest = tx[s].rest \ {next},
                                !.seen = seen]
      /\ \A u \in Sessions : u # s => tx'[u] = tx[u]
      /\ tx' \in [Sessions -> Transaction]
  BY <1>1, <1>5, BecomesEffect
<1>7. /\ tx'[s].wants = next
      /\ tx'[s].rest = tx[s].rest \ {next}
      /\ tx'[s].seen = seen
      /\ tx'[s].kind = tx[s].kind
      /\ tx'[s].by = tx[s].by
      /\ tx'[s].entries = tx[s].entries
      /\ tx'[s].writes = tx[s].writes
  BY <1>2, <1>6 DEF Transaction
<1>8. QED BY <1>5, <1>6, <1>7 DEF seen

\* What RowIsGone makes of a transaction that goes on.
LEMMA GoneEffect ==
    ASSUME TypeOK, NEW s \in Sessions, RowIsGone(s), tx[s].kind # "single"
    PROVE  /\ tx'[s].wants = None
           /\ tx'[s].rest = {}
           /\ tx'[s].kind = tx[s].kind
           /\ tx'[s].by = tx[s].by
           /\ tx'[s].seen = tx[s].seen
           /\ tx'[s].entries = tx[s].entries
           /\ tx'[s].writes = tx[s].writes
           /\ \A u \in Sessions : u # s => tx'[u] = tx[u]
           /\ tx' \in [Sessions -> Transaction]
<1> DEFINE t == [tx[s] EXCEPT !.wants = None, !.rest = {}]
<1>1. Becomes(s, t)
  BY DEF RowIsGone
<1>2. tx[s] \in Transaction
  BY DEF TypeOK
<1>3. t \in Transaction
  BY <1>2 DEF Transaction
<1>4. /\ t.wants = None
      /\ t.rest = {}
      /\ t.kind = tx[s].kind
      /\ t.by = tx[s].by
      /\ t.seen = tx[s].seen
      /\ t.entries = tx[s].entries
      /\ t.writes = tx[s].writes
  BY <1>2 DEF Transaction
<1> HIDE DEF t
<1>5. QED BY <1>1, <1>3, <1>4, BecomesEffect

\* What ReadEntry makes of a bulk review: the entry is skipped, or its item is read
\* and is the row to lock.
LEMMA ReadEffect ==
    ASSUME TypeOK, NEW s \in Sessions, ReadEntry(s)
    PROVE  /\ tx'[s].kind = tx[s].kind
           /\ tx'[s].by = tx[s].by
           /\ tx'[s].rest = tx[s].rest
           /\ tx'[s].writes = tx[s].writes
           /\ \/ /\ tx'[s].seen = None
                 /\ tx'[s].wants = None
              \/ /\ tx'[s].entries = tx[s].entries
                 /\ tx'[s].seen # None
                 /\ tx'[s].wants = Head(tx[s].entries).item
           /\ Head(tx[s].entries).item \in Items
           /\ \A u \in Sessions : u # s => tx'[u] = tx[u]
           /\ tx' \in [Sessions -> Transaction]
<1> DEFINE i == Head(tx[s].entries).item
           earlier == tx[s].writes[i]
           rows == {item[i]} \cup {w.seen : w \in {earlier} \ {None}}
           skip == [tx[s] EXCEPT !.entries = Tail(tx[s].entries)]
           read(row) == [tx[s] EXCEPT !.seen = row, !.wants = i]
<1>1. tx[s] \in Transaction /\ tx[s].entries \in Seq(Entry) /\ tx[s].entries # <<>>
  BY DEF TypeOK, Transaction, ReadEntry
<1>2. Head(tx[s].entries) \in Entry /\ Tail(tx[s].entries) \in Seq(Entry)
  BY <1>1
<1>3. i \in Items
  BY <1>2 DEF Entry
<1>4. ASSUME NEW row \in rows PROVE row \in ItemRow /\ row # None
  <2>1. item[i] \in ItemRow
    BY <1>3 DEF TypeOK
  <2>2. earlier \in Write \cup {None}
    BY <1>1, <1>3 DEF Transaction
  <2>3. row \in ItemRow
    BY <2>1, <2>2 DEF Write
  <2>4. QED BY <2>3, NullAssumption
<1> HIDE DEF i, rows
<1>5. Becomes(s, skip) \/ \E row \in rows : Becomes(s, read(row))
  BY DEF ReadEntry, i, rows
<1>6. tx[s].seen = None /\ tx[s].wants = None
  BY DEF ReadEntry
<1>7. CASE Becomes(s, skip)
  <2>1. skip \in Transaction
    BY <1>1, <1>2 DEF Transaction
  <2>2. /\ skip.kind = tx[s].kind /\ skip.by = tx[s].by /\ skip.rest = tx[s].rest
        /\ skip.writes = tx[s].writes /\ skip.seen = None /\ skip.wants = None
    BY <1>1, <1>6 DEF Transaction
  <2> HIDE DEF skip
  <2>3. QED BY <1>3, <1>7, <2>1, <2>2, BecomesEffect DEF i
<1>8. ASSUME NEW row \in rows, Becomes(s, read(row))
      PROVE  /\ tx'[s] \in Transaction
             /\ tx'[s].kind = tx[s].kind /\ tx'[s].by = tx[s].by
             /\ tx'[s].rest = tx[s].rest /\ tx'[s].writes = tx[s].writes
             /\ tx'[s].entries = tx[s].entries
             /\ tx'[s].seen # None /\ tx'[s].wants = i
             /\ \A u \in Sessions : u # s => tx'[u] = tx[u]
             /\ tx' \in [Sessions -> Transaction]
  <2> DEFINE t == read(row)
  <2>1. row \in ItemRow /\ row # None
    BY <1>4
  <2>2. t \in Transaction
    BY <1>1, <1>3, <2>1 DEF Transaction
  <2>3. /\ t.kind = tx[s].kind /\ t.by = tx[s].by /\ t.rest = tx[s].rest
        /\ t.writes = tx[s].writes /\ t.entries = tx[s].entries
        /\ t.seen = row /\ t.wants = i
    BY <1>1 DEF Transaction
  <2>4. Becomes(s, t)
    BY <1>8
  <2> HIDE DEF t
  <2>5. QED BY <2>1, <2>2, <2>3, <2>4, BecomesEffect
<1>9. QED BY <1>3, <1>5, <1>7, <1>8 DEF i

\* A decision that is not refused names a product of the catalog, or none.
LEMMA FinalType ==
    ASSUME NEW body \in Bodies, NEW row \in ItemRow, FinalProduct(body, row) # Unknown
    PROVE  FinalProduct(body, row) \in Products \cup {None} /\ body.decision \in Decisions
BY ReviewAssumption DEF FinalProduct, ItemRow

\* What Decide makes of a review: the first entry becomes a write.
LEMMA DecideEffect ==
    ASSUME TypeOK, NEW s \in Sessions, Reading(s), Decide(s)
    PROVE  /\ First(s) \in Items
           /\ tx'[s].kind = tx[s].kind
           /\ tx'[s].by = tx[s].by
           /\ tx'[s].wants = None
           /\ tx'[s].rest = tx[s].rest
           /\ tx'[s].seen = None
           /\ tx'[s].writes[First(s)].seen = tx[s].seen
           /\ \A i \in Items : i # First(s) => tx'[s].writes[i] = tx[s].writes[i]
           /\ \A u \in Sessions : u # s => tx'[u] = tx[u]
           /\ tx' \in [Sessions -> Transaction]
<1> DEFINE body == Head(tx[s].entries).body
           w == [decision |-> body.decision, final |-> FinalProduct(body, tx[s].seen),
                 seen |-> tx[s].seen]
           i == First(s)
           t == [tx[s] EXCEPT !.entries = Tail(tx[s].entries), !.seen = None,
                              !.writes = [tx[s].writes EXCEPT ![i] = w]]
<1>1. tx[s] \in Transaction /\ tx[s].entries \in Seq(Entry) /\ tx[s].entries # <<>>
  BY DEF TypeOK, Transaction, Decide, Reading
<1>2. Head(tx[s].entries) \in Entry /\ Tail(tx[s].entries) \in Seq(Entry)
  BY <1>1
<1>3. i \in Items /\ body \in Bodies
  BY <1>2 DEF Entry, First
<1>4. tx[s].seen \in ItemRow /\ tx[s].wants = None
  BY <1>1 DEF Transaction, Decide
<1>5. FinalProduct(body, tx[s].seen) # Unknown
  BY DEF Decide, Refused
<1>6. w \in Write /\ w.seen = tx[s].seen
  BY <1>3, <1>4, <1>5, FinalType DEF Write
<1>7. Becomes(s, t)
  BY DEF Decide, First
<1> HIDE DEF w, i
<1>8. [tx[s].writes EXCEPT ![i] = w] \in [Items -> Write \cup {None}]
  BY <1>1, <1>6 DEF Transaction
<1>9. t \in Transaction
  BY <1>1, <1>2, <1>8 DEF Transaction
<1>10. /\ t.kind = tx[s].kind
       /\ t.by = tx[s].by
       /\ t.wants = tx[s].wants
       /\ t.rest = tx[s].rest
       /\ t.seen = None
       /\ t.writes = [tx[s].writes EXCEPT ![i] = w]
  BY <1>1 DEF Transaction
<1>11. /\ t.writes[i] = w
       /\ \A j \in Items : j # i => t.writes[j] = tx[s].writes[j]
  BY <1>1, <1>3, <1>10 DEF Transaction
<1> HIDE DEF t
<1>12. /\ tx'[s] = t
       /\ \A u \in Sessions : u # s => tx'[u] = tx[u]
       /\ tx' \in [Sessions -> Transaction]
  BY <1>7, <1>9, BecomesEffect
<1>13. QED BY <1>3, <1>4, <1>6, <1>10, <1>11, <1>12 DEF i

LEMMA CommitReviewType ==
    ASSUME TypeOK, NEW s \in Sessions, CommitReview(s)
    PROVE  TypeOK'
<1> DEFINE w == tx[s].writes
<1>1. w \in [Items -> Write \cup {None}] /\ tx[s].by \in Users \cup {None}
  BY DEF TypeOK, Transaction
<1>2. ASSUME NEW i \in Items, w[i] # None
      PROVE  /\ [item[i] EXCEPT !.decision = w[i].decision, !.final = w[i].final,
                                !.by = tx[s].by] \in ItemRow
             /\ [type |-> LabelType(w[i].decision), product |-> w[i].final] \in Label
  <2>1. item[i] \in ItemRow
    BY DEF TypeOK
  <2>2. w[i].decision \in Decisions /\ w[i].final \in Products \cup {None}
    BY <1>1, <1>2 DEF Write
  <2>3. QED BY <1>1, <2>1, <2>2 DEF ItemRow, Label, LabelType
<1>3. item' \in [Items -> ItemRow]
  BY <1>2 DEF CommitReview, TypeOK
<1>4. label' \in [Items -> Label \cup {None}]
  BY <1>2 DEF CommitReview, TypeOK
<1>5. QED BY <1>3, <1>4, CloseType DEF CommitReview, TypeOK

LEMMA CommitClearType ==
    ASSUME TypeOK, NEW s \in Sessions, CommitClear(s)
    PROVE  TypeOK'
<1>1. item' \in [Items -> ItemRow]
  <2>1. ASSUME NEW i \in Items PROVE [item[i] EXCEPT !.best = None] \in ItemRow
    BY DEF TypeOK, ItemRow
  <2>2. QED BY <2>1 DEF CommitClear, TypeOK
<1>2. QED BY <1>1, CloseType DEF CommitClear, TypeOK

LEMMA WorkerType ==
    ASSUME TypeOK, NEW i \in Items, WorkerWrites(i)
    PROVE  TypeOK' /\ \A j \in Items : j # i => item'[j] = item[j]
<1>1. PICK p \in Products : item' = [item EXCEPT ![i].best = p]
  BY DEF WorkerWrites
<1>2. [item[i] EXCEPT !.best = p] \in ItemRow
  BY DEF TypeOK, ItemRow
<1>3. item' \in [Items -> ItemRow] /\ \A j \in Items : j # i => item'[j] = item[j]
  BY <1>1, <1>2 DEF TypeOK
<1>4. QED BY <1>3 DEF WorkerWrites, TypeOK

-----------------------------------------------------------------------------
\* The invariant of the sessions.

\* A session keeps its part when its transaction and locks stay, no row it holds
\* changes, and what is deleted remains so.
LEMMA Frame ==
    ASSUME NEW u \in Sessions, SessionInv(u), TypeOK,
           tx'[u] = tx[u],
           \A r \in Rows : lock'[r] = u <=> lock[r] = u,
           deleted => deleted',
           \A i \in Items : lock[i] = u => item'[i] = item[i]
    PROVE  SessionInv(u)'
<1>1. Resting(u)'
  BY DEF SessionInv, Resting
<1>2. Ordered(u)'
  BY DEF SessionInv, Ordered, First
<1>3. Holding(u)'
  BY DEF SessionInv, Holding, Owns
<1>4. Reading(u)'
  <2>1. CASE tx[u].seen = None
    BY <2>1 DEF Reading
  <2>2. CASE tx[u].seen # None
    <3>1. tx[u].entries \in Seq(Entry) /\ tx[u].entries # <<>>
      BY <2>2 DEF SessionInv, Reading, TypeOK, Transaction
    <3>2. Head(tx[u].entries) \in Entry
      BY <3>1
    <3>3. First(u) \in Items
      BY <3>2 DEF First, Entry
    <3>4. First(u)' = First(u)
      BY DEF First
    <3> HIDE DEF First
    <3>5. QED BY <2>2, <3>3, <3>4 DEF SessionInv, Reading, Owns
  <2>3. QED BY <2>1, <2>2
<1>5. Writing(u)'
  BY DEF SessionInv, Writing, Owns
<1>6. QED BY <1>1, <1>2, <1>3, <1>4, <1>5 DEF SessionInv, BulkAlone

\* A session whose transaction has ended.
LEMMA Rested ==
    ASSUME NEW s \in Sessions, tx'[s] = Idle, \A r \in Rows : lock'[r] # s
    PROVE  SessionInv(s)'
<1>1. /\ tx'[s].kind = "idle" /\ tx'[s].wants = None /\ tx'[s].rest = {}
      /\ tx'[s].seen = None /\ \A i \in Items : tx'[s].writes[i] = None
  BY DEF Idle, Opened
<1>2. QED BY <1>1, ReviewAssumption
          DEF SessionInv, Resting, Ordered, Holding, BulkAlone, Reading, Writing

LEMMA CloseEffect ==
    ASSUME TypeOK, NEW s \in Sessions, Close(s)
    PROVE  /\ tx'[s] = Idle
           /\ \A r \in Rows : lock'[r] # s
           /\ \A u \in Sessions \ {s} :
                 /\ tx'[u] = tx[u]
                 /\ \A r \in Rows : lock'[r] = u <=> lock[r] = u
BY ReviewAssumption, BecomesEffect DEF Close, TypeOK

\* The end of a transaction, whatever it commits to rows that no other holds.
LEMMA CloseInv ==
    ASSUME IInv, NEW s \in Sessions, Close(s),
           deleted => deleted',
           \A u \in Sessions \ {s}, i \in Items : lock[i] = u => item'[i] = item[i]
    PROVE  \A u \in Sessions : SessionInv(u)'
<1>1. TypeOK
  BY DEF IInv
<1>2. SessionInv(s)'
  BY <1>1, CloseEffect, Rested
<1>3. ASSUME NEW u \in Sessions \ {s} PROVE SessionInv(u)'
  BY <1>1, CloseEffect, Frame DEF IInv
<1>4. QED BY <1>2, <1>3

\* The beginning of a transaction that holds nothing.
LEMMA BeginInv ==
    ASSUME IInv, NEW s \in Sessions, NEW kind \in Kinds, NEW user, NEW entries,
           NEW wants \in Rows \cup {None}, NEW rest \in SUBSET Rows,
           Begin(s, Opened(kind, user, entries, wants, rest)),
           wants = None => rest = {},
           kind \in Sweeps => Items \subseteq rest \cup {wants},
           kind \in {"single", "recovery", "delete"} => wants # Request,
           kind = "single" => /\ rest = {Request}
                              /\ entries # <<>>
                              /\ Head(entries).item = wants,
           kind = "bulk" => rest = {}
    PROVE  \A u \in Sessions : SessionInv(u)'
<1> DEFINE t == Opened(kind, user, entries, wants, rest)
<1>1. TypeOK /\ tx[s].kind = "idle"
  BY DEF IInv, Begin
<1>2. tx'[s] = t /\ \A u \in Sessions : u # s => tx'[u] = tx[u]
  BY <1>1, BecomesEffect DEF Begin
<1>3. /\ t.kind = kind /\ t.entries = entries /\ t.wants = wants /\ t.rest = rest
      /\ t.seen = None /\ \A i \in Items : t.writes[i] = None
  BY DEF Opened
<1>4. \A r \in Rows : lock[r] # s
  BY <1>1 DEF IInv, SessionInv, Resting
<1>5. lock' = lock /\ item' = item /\ deleted' = deleted
  BY DEF Begin
<1> HIDE DEF t
<1>6. SessionInv(s)'
  <2>1. Resting(s)' /\ Reading(s)' /\ Writing(s)'
    BY <1>2, <1>3 DEF Resting, Reading, Writing
  <2>2. Ordered(s)'
    BY <1>2, <1>3, <1>4, <1>5 DEF Ordered, First
  <2>3. Holding(s)'
    BY <1>2, <1>3 DEF Holding
  <2>4. QED BY <1>2, <1>3, <2>1, <2>2, <2>3 DEF SessionInv, BulkAlone
<1>7. ASSUME NEW u \in Sessions, u # s PROVE SessionInv(u)'
  BY <1>1, <1>2, <1>5, <1>7, Frame DEF IInv
<1>8. QED BY <1>6, <1>7

LEMMA StartInv ==
    ASSUME IInv, NEW s \in Sessions,
           \/ ReviewItem(s)
           \/ BatchReviewItems(s)
           \/ RetryRequest(s)
           \/ Recover(s)
           \/ DeleteRequest(s)
    PROVE  TypeOK' /\ \A u \in Sessions : SessionInv(u)'
<1>1. TypeOK
  BY DEF IInv
<1>2. CASE ReviewItem(s)
  <2>1. PICK user \in Users, e \in Entry :
               Begin(s, Opened("single", user, <<e>>, e.item, {Request}))
    BY <1>2 DEF ReviewItem
  <2>2. /\ <<e>> \in Seq(Entry) /\ <<e>> # <<>> /\ Head(<<e>>) = e
        /\ e.item \in Items /\ e.item # Request
    BY ReviewAssumption DEF Entry
  <2>3. Opened("single", user, <<e>>, e.item, {Request}) \in Transaction
    BY <2>2, OpenedType
  <2>4. TypeOK'
    BY <1>1, <2>1, <2>3, BeginType
  <2>5. \A u \in Sessions : SessionInv(u)'
    BY <2>1, <2>2, BeginInv, ReviewAssumption
  <2>6. QED BY <2>4, <2>5
<1>3. CASE BatchReviewItems(s)
  <2>1. PICK user \in Users, n \in 1..MaxEntries : \E es \in [1..n -> Entry] :
               Begin(s, Opened("bulk", user, es, None, {}))
    BY <1>3 DEF BatchReviewItems
  <2>2. PICK es \in [1..n -> Entry] : Begin(s, Opened("bulk", user, es, None, {}))
    BY <2>1
  <2>3. es \in Seq(Entry)
    BY ReviewAssumption
  <2>4. Opened("bulk", user, es, None, {}) \in Transaction
    BY <2>3, OpenedType
  <2>5. TypeOK'
    BY <1>1, <2>2, <2>4, BeginType
  <2>6. \A u \in Sessions : SessionInv(u)'
    BY <2>2, BeginInv
  <2>7. QED BY <2>5, <2>6
<1>4. CASE RetryRequest(s)
  <2>1. Begin(s, Opened("retry", None, <<>>, Request, Items))
    BY <1>4 DEF RetryRequest
  <2>2. Opened("retry", None, <<>>, Request, Items) \in Transaction
    BY OpenedType, NoEntries
  <2>3. TypeOK'
    BY <1>1, <2>1, <2>2, BeginType
  <2>4. \A u \in Sessions : SessionInv(u)'
    BY <2>1, BeginInv, ReviewAssumption
  <2>5. QED BY <2>3, <2>4
<1>5. ASSUME NEW kind \in {"recovery", "delete"}, NEW i \in Items,
             Begin(s, Opened(kind, None, <<>>, i, Rows \ {i}))
      PROVE  TypeOK' /\ \A u \in Sessions : SessionInv(u)'
  <2>1. Opened(kind, None, <<>>, i, Rows \ {i}) \in Transaction
    BY OpenedType, NoEntries
  <2>2. TypeOK'
    BY <1>1, <1>5, <2>1, BeginType
  <2>3. \A u \in Sessions : SessionInv(u)'
    BY <1>5, BeginInv, ReviewAssumption
  <2>4. QED BY <2>2, <2>3
<1>6. CASE Recover(s)
  BY <1>5, <1>6 DEF Recover
<1>7. CASE DeleteRequest(s)
  BY <1>5, <1>7 DEF DeleteRequest
<1>8. QED BY <1>2, <1>3, <1>4, <1>6, <1>7

\* A row is locked: the session holds one row more, and the others what they held.
LEMMA LockInv ==
    ASSUME IInv, NEW s \in Sessions, Lock(s)
    PROVE  TypeOK' /\ \A u \in Sessions : SessionInv(u)'
<1> DEFINE row == tx[s].wants
<1>1. TypeOK /\ SessionInv(s) /\ tx[s] \in Transaction
  BY DEF IInv, TypeOK
<1>2. row \in Rows /\ lock[row] \in {None, s} /\ lock' = [lock EXCEPT ![row] = s]
  BY <1>1 DEF Lock, Transaction
<1>3. item' = item /\ deleted' = deleted
  BY DEF Lock
<1>4. TypeOK'
  BY <1>1, <1>2, LockEffect DEF Lock, TypeOK
<1>5. /\ lock'[row] = s
      /\ \A r \in Rows : r # row => lock'[r] = lock[r]
  BY <1>1, <1>2 DEF TypeOK
<1>6. /\ tx'[s].wants \in Rows \cup {None}
      /\ tx'[s].wants = None => tx[s].rest = {}
      /\ tx'[s].wants = Request => tx[s].rest = {Request}
      /\ tx[s].rest = {} => tx'[s].wants = None
      /\ tx'[s].rest = tx[s].rest \ {tx'[s].wants}
  BY <1>1, LockEffect, NextRowsType DEF Transaction
<1>7. /\ tx'[s].kind = tx[s].kind
      /\ tx'[s].by = tx[s].by
      /\ tx'[s].entries = tx[s].entries
      /\ tx'[s].writes = tx[s].writes
      /\ First(s)' = First(s)
      /\ tx'[s].seen = IF tx[s].kind = "single" /\ row \in Items
                       THEN item[row] ELSE tx[s].seen
  BY <1>1, LockEffect DEF First
<1>8. row # None
  BY DEF Lock
<1> HIDE DEF row, First
<1>9. Resting(s)'
  BY <1>1, <1>7, <1>8 DEF Resting, SessionInv, row
<1>10. Ordered(s)'
  <2>1. (tx[s].wants = None => tx[s].rest = {})'
    BY <1>6
  <2>2. (tx[s].kind \in {"single", "recovery", "delete"} =>
            /\ tx[s].wants = Request => tx[s].rest = {}
            /\ lock[Request] = s => tx[s].wants = None)'
    BY <1>1, <1>5, <1>6, <1>7, <1>8 DEF SessionInv, Ordered, row
  <2>3. ASSUME tx[s].kind = "single" PROVE tx'[s].wants \notin Items
    <3>1. CASE row = Request
      BY <1>1, <1>6, <2>3, <3>1, ReviewAssumption DEF SessionInv, Ordered, row
    <3>2. CASE row \in Items
      <4>1. tx[s].rest = {Request}
        BY <1>1, <2>3, <3>2 DEF SessionInv, Ordered, row
      <4>2. tx'[s].wants = Request
        BY <1>1, <4>1, LockEffect DEF NextRows
      <4>3. QED BY <4>2, ReviewAssumption
    <3>3. QED BY <1>2, <3>1, <3>2
  <2>4. QED BY <1>7, <2>1, <2>2, <2>3 DEF Ordered
<1>11. Holding(s)'
  BY <1>1, <1>3, <1>5, <1>6, <1>7 DEF SessionInv, Holding, Owns, row
<1>12. Reading(s)'
  <2>1. CASE tx[s].kind = "single" /\ row \in Items
    <3>1. tx[s].entries # <<>> /\ First(s) = row
      BY <1>1, <2>1 DEF SessionInv, Ordered, row
    <3>2. QED BY <1>3, <1>5, <1>7, <2>1, <3>1 DEF Reading
  <2>2. CASE tx[s].kind = "single" /\ row = Request /\ tx[s].seen # None
    <3>1. tx[s].entries \in Seq(Entry) /\ tx[s].entries # <<>>
      BY <1>1, <2>2 DEF SessionInv, Reading, Transaction
    <3>2. Head(tx[s].entries) \in Entry
      BY <3>1
    <3>3. First(s) \in Items
      BY <3>2 DEF First, Entry
    <3>4. First(s) # row
      BY <2>2, <3>3, ReviewAssumption
    <3>5. tx'[s].seen = tx[s].seen
      BY <1>7, <2>2, ReviewAssumption
    <3>6. QED BY <1>1, <1>3, <1>5, <1>7, <2>2, <3>3, <3>4, <3>5 DEF SessionInv, Reading
  <2>3. CASE tx[s].kind = "bulk" /\ tx[s].seen # None
    <3>1. First(s) = row
      BY <1>1, <1>8, <2>3 DEF SessionInv, Reading, row
    <3>2. tx[s].entries \in Seq(Entry) /\ tx[s].entries # <<>>
      BY <1>1, <2>3 DEF SessionInv, Reading, Transaction
    <3>3. tx'[s].wants = None
      BY <1>1, <1>6, <2>3 DEF SessionInv, BulkAlone
    <3>4. QED BY <1>1, <1>5, <1>7, <2>3, <3>1, <3>2, <3>3 DEF SessionInv, Reading, Owns
  <2>4. CASE tx[s].seen = None /\ ~(tx[s].kind = "single" /\ row \in Items)
    BY <1>7, <2>4 DEF Reading
  <2>5. QED BY <1>1, <1>2, <2>1, <2>2, <2>3, <2>4 DEF SessionInv, Reading
<1>13. Writing(s)'
  BY <1>1, <1>3, <1>5, <1>7 DEF SessionInv, Writing, Owns
<1>14. SessionInv(s)'
  BY <1>9, <1>10, <1>11, <1>12, <1>13, <1>1, <1>6, <1>7 DEF SessionInv, BulkAlone
<1>15. ASSUME NEW u \in Sessions, u # s PROVE SessionInv(u)'
  <2>1. tx'[u] = tx[u]
    BY <1>1, <1>15, LockEffect
  <2>2. \A r \in Rows : lock'[r] = u <=> lock[r] = u
    BY <1>2, <1>5, <1>15, ReviewAssumption
  <2>3. QED BY <1>1, <1>3, <2>1, <2>2, Frame DEF IInv
<1>16. QED BY <1>4, <1>14, <1>15

\* The request is gone: a review of one item ends, the others go on without locks.
LEMMA GoneInv ==
    ASSUME IInv, NEW s \in Sessions, RowIsGone(s)
    PROVE  TypeOK' /\ \A u \in Sessions : SessionInv(u)'
<1>1. TypeOK /\ SessionInv(s)
  BY DEF IInv
<1>2. item' = item /\ deleted' = deleted /\ deleted
  BY DEF RowIsGone
<1>3. CASE tx[s].kind = "single"
  <2>1. Close(s)
    BY <1>3 DEF RowIsGone
  <2>2. QED BY <1>1, <1>2, <2>1, CloseType, CloseInv DEF RowIsGone, TypeOK
<1>4. CASE tx[s].kind # "single"
  <2>1. lock' = lock
    BY <1>4 DEF RowIsGone
  <2>2. TypeOK'
    BY <1>1, <1>4, <2>1, GoneEffect DEF RowIsGone, TypeOK
  <2>3. SessionInv(s)'
    <3>1. First(s)' = First(s)
      BY <1>1, <1>4, GoneEffect DEF First
    <3>2. Resting(s)' /\ BulkAlone(s)' /\ Holding(s)'
      BY <1>1, <1>2, <1>4, <2>1, GoneEffect
         DEF SessionInv, Resting, BulkAlone, Holding, Owns
    <3>3. Ordered(s)'
      BY <1>1, <1>4, GoneEffect, ReviewAssumption DEF Ordered
    <3>4. Reading(s)'
      <4> HIDE DEF First
      <4>1. QED BY <1>1, <1>2, <1>4, <3>1, GoneEffect DEF SessionInv, Reading, Owns
    <3>5. Writing(s)'
      BY <1>1, <1>2, <1>4, <2>1, GoneEffect DEF SessionInv, Writing, Owns
    <3>6. QED BY <3>2, <3>3, <3>4, <3>5 DEF SessionInv
  <2>4. ASSUME NEW u \in Sessions, u # s PROVE SessionInv(u)'
    BY <1>1, <1>2, <1>4, <2>1, <2>4, GoneEffect, Frame DEF IInv
  <2>5. QED BY <2>2, <2>3, <2>4
<1>5. QED BY <1>3, <1>4

LEMMA ReadInv ==
    ASSUME IInv, NEW s \in Sessions, ReadEntry(s)
    PROVE  TypeOK' /\ \A u \in Sessions : SessionInv(u)'
<1>1. TypeOK /\ SessionInv(s)
  BY DEF IInv
<1>2. /\ item' = item /\ deleted' = deleted /\ lock' = lock
      /\ tx[s].kind = "bulk" /\ tx[s].entries # <<>> /\ tx[s].wants = None
  BY DEF ReadEntry
<1>3. TypeOK'
  BY <1>1, ReadEffect DEF ReadEntry, TypeOK
<1>4. SessionInv(s)'
  <2>1. tx'[s].kind = "bulk" /\ tx'[s].rest = {}
    BY <1>1, <1>2, ReadEffect DEF SessionInv, BulkAlone
  <2>2. Resting(s)' /\ BulkAlone(s)' /\ Holding(s)' /\ Ordered(s)'
    BY <2>1 DEF Resting, BulkAlone, Holding, Ordered
  <2>3. Reading(s)'
    <3>1. CASE tx'[s].seen = None
      BY <3>1 DEF Reading
    <3>2. CASE tx'[s].seen # None
      <4>1. tx'[s].entries = tx[s].entries /\ tx'[s].wants = Head(tx[s].entries).item
        BY <1>1, <3>2, ReadEffect
      <4>2. tx'[s].wants # None
        BY <1>1, <4>1, ReadEffect, ReviewAssumption
      <4>3. QED BY <1>2, <2>1, <4>1, <4>2 DEF Reading, First
    <3>3. QED BY <3>1, <3>2
  <2>4. Writing(s)'
    BY <1>1, <1>2, ReadEffect DEF SessionInv, Writing, Owns
  <2>5. QED BY <2>2, <2>3, <2>4 DEF SessionInv
<1>5. ASSUME NEW u \in Sessions, u # s PROVE SessionInv(u)'
  BY <1>1, <1>2, <1>5, ReadEffect, Frame DEF IInv
<1>6. QED BY <1>3, <1>4, <1>5

\* The write joins those of the session, on a row it holds.  A single review has seen
\* the row as it is, and nobody else's decision in it.
LEMMA DecideInv ==
    ASSUME IInv, NEW s \in Sessions, Decide(s)
    PROVE  TypeOK' /\ \A u \in Sessions : SessionInv(u)'
<1>1. TypeOK /\ SessionInv(s) /\ Reading(s)
  BY DEF IInv, SessionInv
<1>2. /\ item' = item /\ deleted' = deleted /\ lock' = lock
      /\ tx[s].wants = None /\ tx[s].seen # None
  BY DEF Decide
<1>3. TypeOK'
  BY <1>1, DecideEffect DEF Decide, TypeOK
<1>4. /\ First(s) \in Items
      /\ tx[s].kind \in {"single", "bulk"}
      /\ Owns(s, First(s))
      /\ tx[s].kind = "single" =>
            lock[First(s)] = s /\ tx[s].seen = item[First(s)]
  BY <1>1, <1>2, DecideEffect DEF Reading, Owns
<1>5. tx[s].kind = "single" => ~ReviewedByAnother(tx[s].seen, tx[s].by)
  BY DEF Decide, Refused
<1>6. /\ tx'[s].kind = tx[s].kind /\ tx'[s].by = tx[s].by /\ tx'[s].wants = None
      /\ tx'[s].rest = tx[s].rest /\ tx'[s].seen = None
      /\ tx'[s].writes[First(s)].seen = tx[s].seen
      /\ \A i \in Items : i # First(s) => tx'[s].writes[i] = tx[s].writes[i]
  BY <1>1, DecideEffect
<1>7. SessionInv(s)'
  <2>1. Resting(s)' /\ BulkAlone(s)' /\ Holding(s)' /\ Reading(s)'
    BY <1>1, <1>4, <1>6 DEF SessionInv, Resting, BulkAlone, Holding, Reading
  <2>2. Ordered(s)'
    BY <1>1, <1>2, <1>6, ReviewAssumption DEF SessionInv, Ordered
  <2>3. Writing(s)'
    <3> SUFFICES ASSUME NEW i \in Items, tx'[s].writes[i] # None
                 PROVE  /\ tx'[s].kind \in {"single", "bulk"}
                        /\ Owns(s, i)'
                        /\ tx'[s].kind = "single" =>
                              /\ lock'[i] = s
                              /\ tx'[s].writes[i].seen = item'[i]
                              /\ ~ReviewedByAnother(item'[i], tx'[s].by)
      BY DEF Writing
    <3>1. CASE i = First(s)
      BY <1>2, <1>4, <1>5, <1>6, <3>1 DEF Owns
    <3>2. CASE i # First(s)
      BY <1>1, <1>2, <1>6, <3>2 DEF SessionInv, Writing, Owns
    <3>3. QED BY <3>1, <3>2
  <2>4. QED BY <2>1, <2>2, <2>3 DEF SessionInv
<1>8. ASSUME NEW u \in Sessions, u # s PROVE SessionInv(u)'
  BY <1>1, <1>2, <1>8, DecideEffect, Frame DEF IInv
<1>9. QED BY <1>3, <1>7, <1>8

\* A commit changes only rows that the session holds.
LEMMA CommitInv ==
    ASSUME IInv, NEW s \in Sessions,
           \/ CommitReview(s)
           \/ CommitClear(s)
           \/ CommitDelete(s)
    PROVE  TypeOK' /\ \A u \in Sessions : SessionInv(u)'
<1>1. TypeOK /\ SessionInv(s)
  BY DEF IInv
<1>2. CASE CommitReview(s)
  <2>1. ASSUME NEW u \in Sessions \ {s}, NEW i \in Items, lock[i] = u
        PROVE  item'[i] = item[i]
    BY <1>1, <1>2, <2>1 DEF CommitReview, SessionInv, Writing, Owns
  <2>2. Close(s) /\ deleted' = deleted
    BY <1>2 DEF CommitReview
  <2>3. TypeOK'
    BY <1>1, <1>2, CommitReviewType
  <2>4. \A u \in Sessions : SessionInv(u)'
    BY <2>1, <2>2, CloseInv
  <2>5. QED BY <2>3, <2>4
<1>3. CASE CommitClear(s)
  <2>1. tx[s].wants = None /\ tx[s].rest = {} /\ tx[s].kind \in Sweeps
    BY <1>1, <1>3 DEF CommitClear, SessionInv, Ordered
  <2>2. \A i \in Items : Owns(s, i)
    BY <1>1, <2>1, ReviewAssumption DEF SessionInv, Holding
  <2>3. ASSUME NEW u \in Sessions \ {s}, NEW i \in Items, lock[i] = u
        PROVE  item'[i] = item[i]
    BY <1>3, <2>2, <2>3 DEF CommitClear, Owns
  <2>4. Close(s) /\ deleted' = deleted
    BY <1>3 DEF CommitClear
  <2>5. TypeOK'
    BY <1>1, <1>3, CommitClearType
  <2>6. \A u \in Sessions : SessionInv(u)'
    BY <2>3, <2>4, CloseInv
  <2>7. QED BY <2>5, <2>6
<1>4. CASE CommitDelete(s)
  <2>1. Close(s) /\ item' = item /\ deleted'
    BY <1>4 DEF CommitDelete
  <2>2. TypeOK'
    BY <1>1, <1>4, CloseType DEF CommitDelete, TypeOK
  <2>3. \A u \in Sessions : SessionInv(u)'
    BY <2>1, CloseInv
  <2>4. QED BY <2>2, <2>3
<1>5. QED BY <1>2, <1>3, <1>4

\* A transaction ends and commits nothing.
LEMMA RollBackInv ==
    ASSUME IInv, NEW s \in Sessions,
           Close(s), UNCHANGED <<item, label, deleted, begun>>
    PROVE  TypeOK' /\ \A u \in Sessions : SessionInv(u)'
<1>1. TypeOK
  BY DEF IInv
<1>2. TypeOK'
  BY <1>1, CloseType DEF TypeOK
<1>3. \A u \in Sessions : SessionInv(u)'
  BY CloseInv
<1>4. QED BY <1>2, <1>3

\* The worker writes to a row that nobody holds.
LEMMA WorkerInv ==
    ASSUME IInv, NEW j \in Items, WorkerWrites(j)
    PROVE  TypeOK' /\ \A u \in Sessions : SessionInv(u)'
<1>1. TypeOK
  BY DEF IInv
<1>2. /\ TypeOK' /\ tx' = tx /\ lock' = lock /\ deleted' = deleted /\ lock[j] = None
      /\ \A i \in Items : i # j => item'[i] = item[i]
  BY <1>1, WorkerType DEF WorkerWrites
<1>3. ASSUME NEW u \in Sessions PROVE SessionInv(u)'
  BY <1>1, <1>2, Frame, ReviewAssumption DEF IInv
<1>4. QED BY <1>2, <1>3

-----------------------------------------------------------------------------
LEMMA InitInv == Init => IInv
<1> SUFFICES ASSUME Init PROVE IInv
  OBVIOUS
<1>1. TypeOK
  BY InitType
<1>2. ASSUME NEW s \in Sessions PROVE SessionInv(s)
  <2>1. /\ tx[s].kind = "idle" /\ tx[s].wants = None /\ tx[s].rest = {}
        /\ tx[s].seen = None /\ \A i \in Items : tx[s].writes[i] = None
    BY DEF Init, Idle, Opened
  <2>2. \A r \in Rows : lock[r] # s
    BY ReviewAssumption DEF Init
  <2>3. QED BY <2>1, <2>2, ReviewAssumption
            DEF SessionInv, Resting, Ordered, Holding, BulkAlone, Reading, Writing
<1>3. QED BY <1>1, <1>2 DEF IInv

LEMMA NextInv == IInv /\ [Next]_vars => IInv'
<1> SUFFICES ASSUME IInv, [Next]_vars PROVE TypeOK' /\ \A u \in Sessions : SessionInv(u)'
  BY DEF IInv
<1>1. CASE UNCHANGED vars
  <2>1. TypeOK /\ TypeOK'
    BY <1>1 DEF IInv, TypeOK, vars
  <2>2. ASSUME NEW u \in Sessions PROVE SessionInv(u)'
    BY <1>1, <2>1, Frame DEF IInv, vars
  <2>3. QED BY <2>1, <2>2
<1>2. ASSUME NEW s \in Sessions,
             \/ ReviewItem(s)
             \/ BatchReviewItems(s)
             \/ RetryRequest(s)
             \/ Recover(s)
             \/ DeleteRequest(s)
      PROVE  TypeOK' /\ \A u \in Sessions : SessionInv(u)'
  BY <1>2, StartInv
<1>3. ASSUME NEW s \in Sessions, Step(s)
      PROVE  TypeOK' /\ \A u \in Sessions : SessionInv(u)'
  <2>1. CASE Lock(s) BY <2>1, LockInv
  <2>2. CASE RowIsGone(s) BY <2>2, GoneInv
  <2>3. CASE ReadEntry(s) BY <2>3, ReadInv
  <2>4. CASE Refuse(s) BY <2>4, RollBackInv DEF Refuse
  <2>5. CASE Decide(s) BY <2>5, DecideInv
  <2>6. CASE CommitReview(s) \/ CommitClear(s) \/ CommitDelete(s)
    BY <2>6, CommitInv
  <2>7. CASE DeadlockVictim(s) BY <2>7, RollBackInv DEF DeadlockVictim
  <2>8. QED BY <1>3, <2>1, <2>2, <2>3, <2>4, <2>5, <2>6, <2>7 DEF Step
<1>4. ASSUME NEW s \in Sessions, RollBack(s)
      PROVE  TypeOK' /\ \A u \in Sessions : SessionInv(u)'
  BY <1>4, RollBackInv DEF RollBack
<1>5. ASSUME NEW i \in Items, WorkerWrites(i)
      PROVE  TypeOK' /\ \A u \in Sessions : SessionInv(u)'
  BY <1>5, WorkerInv
<1>6. QED BY <1>1, <1>2, <1>3, <1>4, <1>5 DEF Next

\* Every state that a run reaches satisfies the invariant.
LEMMA Invariance == Spec => []IInv
<1>1. Init /\ [][Next]_vars => []IInv
  BY InitInv, NextInv, PTL
<1>2. QED BY <1>1, PTL DEF Spec

\* The variables keep their types: a golden label is positive or negative and a final
\* product is one of the catalog, as the constraints of the tables demand.
THEOREM ReviewTypeCorrect == Spec => []TypeOK
BY Invariance, PTL DEF IInv

\* What review_item decides fits the row as it is when it commits.
THEOREM SeenCorrect == Spec => []ReviewsWhatItSaw
<1>1. IInv => ReviewsWhatItSaw
  BY DEF IInv, SessionInv, Writing, ReviewsWhatItSaw
<1>2. QED BY <1>1, Invariance, PTL

\* While it waits, a transaction that is no bulk review and no retry does not hold the
\* request; and while it waits for an item it holds nothing, unless it is a sweep.
LEMMA Waiting ==
    ASSUME IInv, NEW t \in Sessions, tx[t].wants # None,
           tx[t].kind \notin {"bulk", "retry"}
    PROVE  /\ lock[Request] # t
           /\ tx[t].wants \in Items /\ tx[t].kind \notin {"recovery", "delete"} =>
                 \A r \in Rows : lock[r] # t
<1>1. SessionInv(t) /\ tx[t].kind \in Kinds \cup {"idle"}
  BY DEF IInv, TypeOK, Transaction
<1>2. tx[t].kind \in {"single", "recovery", "delete"}
  BY <1>1 DEF SessionInv, Resting
<1>3. lock[Request] # t
  BY <1>1, <1>2 DEF SessionInv, Ordered
<1>4. QED BY <1>1, <1>2, <1>3 DEF SessionInv, Ordered

LEMMA DeadlockCause == IInv => DeadlockHasCause
<1> SUFFICES ASSUME IInv, NEW S \in SUBSET Sessions, Deadlocked(S),
                    \A s \in S : tx[s].kind \notin {"bulk", "retry"}
             PROVE  \E s, t \in S : s # t /\ {tx[s].kind, tx[t].kind} \subseteq Sweeps
  BY DEF DeadlockHasCause
<1>1. ASSUME NEW s \in S
      PROVE  tx[s].wants # None /\ tx[s].wants \in Rows
  BY <1>1 DEF Deadlocked, Waits, IInv, TypeOK, Transaction
<1>2. ASSUME NEW s \in S PROVE tx[s].wants \in Items
  <2>1. PICK t \in S : Waits(s, t)
    BY DEF Deadlocked
  <2>2. lock[Request] # t
    BY <1>1, Waiting
  <2>3. QED BY <1>1, <2>1, <2>2 DEF Waits
<1>3. ASSUME NEW s \in S
      PROVE  \E t \in S : s # t /\ tx[t].kind \in {"recovery", "delete"}
  <2>1. PICK t \in S : Waits(s, t)
    BY DEF Deadlocked
  <2>2. tx[t].kind \in {"recovery", "delete"}
    BY <1>1, <1>2, <2>1, Waiting DEF Waits
  <2>3. QED BY <2>1, <2>2 DEF Waits
<1>4. PICK s \in S : tx[s].kind \in {"recovery", "delete"}
  BY <1>3 DEF Deadlocked
<1>5. PICK t \in S : s # t /\ tx[t].kind \in {"recovery", "delete"}
  BY <1>3
<1>6. QED BY <1>4, <1>5

\* A deadlock involves a bulk review, a retry or two sweeps: reviews of single items,
\* and one recovery or delete among them, never block each other for good.
THEOREM DeadlockCorrect == Spec => []DeadlockHasCause
BY DeadlockCause, Invariance, PTL

\* The decision of one user gives way to another's only when a bulk review commits.
LEMMA DecisionStep ==
    ASSUME IInv, [Next]_vars, NEW i \in Items,
           item[i].decision # None, item'[i].by # item[i].by
    PROVE  \E s \in Sessions : tx[s].kind = "bulk" /\ tx'[s] = Idle
<1>1. TypeOK
  BY DEF IInv
<1>2. item[i] \in ItemRow
  BY <1>1 DEF TypeOK
<1>3. ASSUME item' = item PROVE FALSE
  BY <1>3
<1>4. PICK s \in Sessions : CommitReview(s)
  <2>1. ASSUME NEW s \in Sessions, CommitClear(s) PROVE FALSE
    <3>1. item'[i] = item[i] \/ item'[i] = [item[i] EXCEPT !.best = None]
      BY <2>1 DEF CommitClear
    <3>2. QED BY <1>2, <3>1 DEF ItemRow
  <2>2. ASSUME NEW j \in Items, WorkerWrites(j) PROVE FALSE
    <3>1. PICK p \in Products : item' = [item EXCEPT ![j].best = p]
      BY <2>2 DEF WorkerWrites
    <3>2. item'[i] = item[i] \/ item'[i] = [item[i] EXCEPT !.best = p]
      BY <1>1, <3>1 DEF TypeOK
    <3>3. QED BY <1>2, <3>2 DEF ItemRow
  <2>3. QED
    BY <1>3, <2>1, <2>2
       DEF Next, Step, vars, ReviewItem, BatchReviewItems, RetryRequest, Recover,
           DeleteRequest, Begin, Lock, RowIsGone, ReadEntry, Refuse, Decide,
           CommitDelete, DeadlockVictim, RollBack
<1>5. tx'[s] = Idle /\ tx[s].kind \in {"single", "bulk"}
  BY <1>1, <1>4, CloseEffect DEF CommitReview
<1>6. ASSUME tx[s].kind = "single" PROVE FALSE
  <2> DEFINE w == tx[s].writes
  <2>1. w[i] # None /\ item'[i] = [item[i] EXCEPT !.decision = w[i].decision,
                                                 !.final = w[i].final, !.by = tx[s].by]
    BY <1>3, <1>4 DEF CommitReview
  <2>2. ~ReviewedByAnother(item[i], tx[s].by)
    BY <1>6, <2>1 DEF IInv, SessionInv, Writing
  <2>3. item[i].by = tx[s].by
    BY <2>2 DEF ReviewedByAnother
  <2>4. item'[i].by = tx[s].by
    BY <1>2, <2>1 DEF ItemRow
  <2>5. QED BY <2>3, <2>4
<1>7. QED BY <1>5, <1>6

\* No other step than a bulk commit replaces what somebody else decided.
THEOREM OthersCorrect == Spec => OthersDecisionKept
<1>1. IInv /\ [Next]_vars =>
        [\A i \in Items :
            /\ item[i].decision # None
            /\ item'[i].by # item[i].by
            => \E s \in Sessions : tx[s].kind = "bulk" /\ tx'[s] = Idle]_vars
  BY DecisionStep
<1>2. QED BY <1>1, Invariance, PTL DEF Spec, OthersDecisionKept
=============================================================================
