------------------------ MODULE BatchProcess_proofs ------------------------
(***************************************************************************)
(* What BatchProcess guarantees for any finite set of items, any limit on  *)
(* concurrency and any reporting period.                                   *)
(***************************************************************************)
EXTENDS BatchProcess, FiniteSetTheorems, TLAPS

\* What the row and the candidates of an item can be while its task is at
\* each label.
TaskInv ==
    \A i \in Items :
        /\ pc[i] \in {"waiting", "matching", "recording"} => row[i] = "blank"
        /\ pc[i] = "counting" => row[i] \in Outcomes
        /\ pc[i] = "countingError" => row[i] \in {"blank", "error"}
        /\ row[i] \notin Outcomes => saved[i] = 0
        /\ saved[i] <= 1

\* Every copy of the counters is the tally of a set of items counted by now.
CopiesArePast ==
    /\ \A i \in Items : \E S \in SUBSET Counted : snapshot[i] = Tally(S, ItemStatus)
    /\ \E S \in SUBSET Counted : request.counts = Tally(S, ItemStatus)

\* The final status is the last step of a run whose tasks have all returned.
FinalInv ==
    /\ job \in {"failing", "returned"} => Gathered
    /\ request.status # "running" =>
          job = "returned" /\ Gathered /\ request.counts = counters

Inv == TypeOK /\ TaskInv /\ CountersMatchRows /\ CopiesArePast /\ FinalInv
-----------------------------------------------------------------------------
\* An empty set of items tallies to zero.
LEMMA TallyEmpty ==
    ASSUME NEW out
    PROVE  Tally({}, out) = ZeroTally
<1>1. ASSUME NEW k PROVE {i \in {} : out[i] = k} = {}
  OBVIOUS
<1>2. Cardinality({}) = 0
  BY FS_EmptySet
<1> QED
  BY <1>1, <1>2 DEF Tally, ZeroTally

\* The tally of a finite set is a function from the counter keys to naturals.
LEMMA TallyType ==
    ASSUME NEW S, NEW out, IsFiniteSet(S)
    PROVE  Tally(S, out) \in Tallies
<1>1. Cardinality(S) \in Nat
  BY FS_CardinalityType
<1>2. ASSUME NEW k PROVE Cardinality({i \in S : out[i] = k}) \in Nat
  <2>1. {i \in S : out[i] = k} \in SUBSET S
    OBVIOUS
  <2> QED BY <2>1, FS_Subset, FS_CardinalityType
<1> QED
  BY <1>1, <1>2 DEF Tally, Tallies

\* Only the outcomes of the items of S matter to its tally.
LEMMA TallyFrame ==
    ASSUME NEW S, NEW out1, NEW out2, \A i \in S : out1[i] = out2[i]
    PROVE  Tally(S, out1) = Tally(S, out2)
<1>1. ASSUME NEW k PROVE {i \in S : out1[i] = k} = {i \in S : out2[i] = k}
  OBVIOUS
<1> QED
  BY <1>1 DEF Tally

\* Counting one more item is what the workers do to the shared dict.
LEMMA TallyAdd ==
    ASSUME NEW S, NEW out, NEW i, IsFiniteSet(S), i \notin S, out[i] \in Outcomes
    PROVE  Tally(S \cup {i}, out) = Bump(Tally(S, out), out[i])
<1>1. Cardinality(S \cup {i}) = Cardinality(S) + 1
  BY FS_AddElement
<1>2. ASSUME NEW k
      PROVE  Cardinality({j \in S \cup {i} : out[j] = k})
               = Cardinality({j \in S : out[j] = k}) + (IF k = out[i] THEN 1 ELSE 0)
  <2> DEFINE T == {j \in S : out[j] = k}
  <2>1. IsFiniteSet(T) /\ i \notin T
    <3>1. T \in SUBSET S
      OBVIOUS
    <3> QED BY <3>1, FS_Subset
  <2>2. CASE k = out[i]
    <3>1. {j \in S \cup {i} : out[j] = k} = T \cup {i}
      BY <2>2
    <3>2. Cardinality(T \cup {i}) = Cardinality(T) + 1
      BY <2>1, FS_AddElement
    <3> QED BY <2>2, <3>1, <3>2
  <2>3. CASE k # out[i]
    <3>1. {j \in S \cup {i} : out[j] = k} = T
      BY <2>3
    <3>2. Cardinality(T) \in Nat
      BY <2>1, FS_CardinalityType
    <3> QED BY <2>3, <3>1, <3>2
  <2> QED BY <2>2, <2>3
<1>3. ASSUME NEW k
      PROVE  Cardinality({j \in S : out[j] = k}) \in Nat
  <2>1. {j \in S : out[j] = k} \in SUBSET S
    OBVIOUS
  <2> QED BY <2>1, FS_Subset, FS_CardinalityType
<1>4. out[i] # "processed" /\ out[i] \in CounterKeys /\ "processed" \in CounterKeys
  BY DEF Outcomes, CounterKeys
<1> DEFINE A == Tally(S \cup {i}, out)
           B == Bump(Tally(S, out), out[i])
<1>5. A = [k \in CounterKeys |-> A[k]] /\ B = [k \in CounterKeys |-> B[k]]
  BY DEF Tally, Bump
<1>6. ASSUME NEW k \in CounterKeys PROVE A[k] = B[k]
  <2>1. CASE k = "processed"
    BY <1>1, <1>4, <2>1 DEF Tally, Bump
  <2>2. CASE k # "processed" /\ k = out[i]
    BY <1>2, <1>4, <2>2 DEF Tally, Bump
  <2>3. CASE k # "processed" /\ k # out[i]
    BY <1>2, <1>3, <1>4, <2>3 DEF Tally, Bump
  <2> QED BY <2>1, <2>2, <2>3
<1> HIDE DEF A, B
<1>7. A = B
  BY <1>5, <1>6
<1> QED
  BY <1>7 DEF A, B
-----------------------------------------------------------------------------
\* As long as the rows of counted items stay put, past tallies stay exact.
LEMMA PastTallies ==
    ASSUME Counted \subseteq Counted', \A k \in Counted : row'[k] = row[k],
           NEW S \in SUBSET Counted
    PROVE  /\ S \in SUBSET Counted'
           /\ Tally(S, ItemStatus') = Tally(S, ItemStatus)
<1>1. \A k \in S : ItemStatus'[k] = ItemStatus[k]
  BY DEF ItemStatus, Counted
<1> QED
  BY <1>1, TallyFrame

\* An item step that neither counts an item nor touches a copy of the counters
\* keeps both invariants about tallies.
LEMMA QuietStep ==
    ASSUME Inv, Counted' = Counted, \A k \in Counted : row'[k] = row[k],
           UNCHANGED <<counters, snapshot, request>>
    PROVE  CountersMatchRows' /\ CopiesArePast'
<1>1. ASSUME NEW S \in SUBSET Counted
      PROVE  Tally(S, ItemStatus') = Tally(S, ItemStatus)
  BY PastTallies
<1>2. CountersMatchRows'
  <2>1. counters = Tally(Counted, ItemStatus)
    BY DEF Inv, CountersMatchRows
  <2> QED BY <1>1, <2>1 DEF CountersMatchRows
<1>3. ASSUME NEW i \in Items
      PROVE  \E S \in SUBSET Counted' : snapshot'[i] = Tally(S, ItemStatus')
  <2>1. PICK S \in SUBSET Counted : snapshot[i] = Tally(S, ItemStatus)
    BY DEF Inv, CopiesArePast
  <2> QED BY <1>1, <2>1
<1>4. \E S \in SUBSET Counted' : request'.counts = Tally(S, ItemStatus')
  <2>1. PICK S \in SUBSET Counted : request.counts = Tally(S, ItemStatus)
    BY DEF Inv, CopiesArePast
  <2> QED BY <1>1, <2>1
<1> QED
  BY <1>2, <1>3, <1>4 DEF CopiesArePast

\* The item whose task is about to count adds exactly its own outcome, and a
\* snapshot it takes is the tally of the items counted by then.
LEMMA CountingStep ==
    ASSUME Inv, NEW i \in Items, i \notin Counted, Counted' = Counted \cup {i},
           counters' = Bump(counters, ItemStatus[i]),
           UNCHANGED <<row, request>>,
           \A k \in Items : snapshot'[k] = snapshot[k] \/ snapshot'[k] = counters'
    PROVE  CountersMatchRows' /\ CopiesArePast'
<1>1. ItemStatus' = ItemStatus
  BY DEF ItemStatus
<1>2. ItemStatus[i] \in Outcomes
  BY DEF ItemStatus, StatusOf, Outcomes
<1>3. IsFiniteSet(Counted)
  <2>1. Counted \in SUBSET Items
    BY DEF Counted
  <2> QED BY <2>1, BatchAssumption, FS_Subset
<1>4. counters' = Tally(Counted', ItemStatus')
  <2>1. counters = Tally(Counted, ItemStatus)
    BY DEF Inv, CountersMatchRows
  <2>2. Tally(Counted \cup {i}, ItemStatus) = Bump(Tally(Counted, ItemStatus), ItemStatus[i])
    BY <1>2, <1>3, TallyAdd
  <2> QED BY <1>1, <2>1, <2>2
<1>5. ASSUME NEW k \in Items
      PROVE  \E S \in SUBSET Counted' : snapshot'[k] = Tally(S, ItemStatus')
  <2>1. CASE snapshot'[k] = snapshot[k]
    <3>1. PICK S \in SUBSET Counted : snapshot[k] = Tally(S, ItemStatus)
      BY DEF Inv, CopiesArePast
    <3>2. S \in SUBSET Counted'
      BY <3>1
    <3> QED BY <1>1, <2>1, <3>1, <3>2
  <2>2. CASE snapshot'[k] = counters'
    BY <1>4, <2>2
  <2> QED BY <2>1, <2>2
<1>6. \E S \in SUBSET Counted' : request'.counts = Tally(S, ItemStatus')
  <2>1. PICK S \in SUBSET Counted : request.counts = Tally(S, ItemStatus)
    BY DEF Inv, CopiesArePast
  <2>2. S \in SUBSET Counted'
    BY <2>1
  <2> QED BY <1>1, <2>1, <2>2
<1> QED
  BY <1>4, <1>5, <1>6 DEF CountersMatchRows, CopiesArePast

\* Bump keeps the counters well typed.
LEMMA BumpType ==
    ASSUME NEW t \in Tallies, NEW o \in Outcomes
    PROVE  Bump(t, o) \in Tallies
BY DEF Bump, Tallies, CounterKeys, Outcomes

-----------------------------------------------------------------------------
\* A fresh run satisfies the invariant.
LEMMA InitInv == Init => Inv
<1> SUFFICES ASSUME Init PROVE Inv
  OBVIOUS
<1>1. ZeroTally \in Tallies
  BY DEF ZeroTally, Tallies
<1>2. TypeOK
  BY <1>1 DEF Init, TypeOK, Labels, RowStates
<1>3. TaskInv
  BY DEF Init, TaskInv, Outcomes
<1>4. Counted = {}
  BY DEF Init, Counted
<1>5. CountersMatchRows /\ CopiesArePast
  <2>1. ZeroTally = Tally(Counted, ItemStatus)
    BY <1>4, TallyEmpty
  <2> QED BY <2>1 DEF Init, CountersMatchRows, CopiesArePast
<1>6. FinalInv
  BY DEF Init, FinalInv
<1> QED
  BY <1>2, <1>3, <1>5, <1>6 DEF Inv

\* Every step of the run, or of its surroundings, keeps the invariant.
LEMMA NextInv == Inv /\ [Next]_vars => Inv'
<1> SUFFICES ASSUME Inv, [Next]_vars PROVE Inv'
  OBVIOUS
<1> USE DEF Inv
<1>1. ASSUME NEW i \in Items, Acquire(i) PROVE Inv'
  <2>1. TypeOK' /\ TaskInv' /\ FinalInv'
    BY <1>1 DEF Acquire, Goto, TypeOK, Labels, TaskInv, FinalInv, Gathered
  <2>2. Counted' = Counted
    BY <1>1 DEF Acquire, Goto, TypeOK, Counted
  <2>3. CountersMatchRows' /\ CopiesArePast'
    BY <1>1, <2>2, QuietStep DEF Acquire
  <2> QED BY <2>1, <2>3
<1>2. ASSUME NEW i \in Items, NEW o \in Outcomes, Persist(i, o) PROVE Inv'
  <2>1. TypeOK' /\ FinalInv'
    BY <1>2 DEF Persist, Goto, TypeOK, Labels, RowStates, FinalInv, Gathered
  <2>2. TaskInv'
    BY <1>2 DEF Persist, Goto, TypeOK, Labels, RowStates, Outcomes, TaskInv
  <2>3. Counted' = Counted /\ i \notin Counted
    BY <1>2 DEF Persist, Goto, TypeOK, Counted
  <2>4. \A k \in Counted : row'[k] = row[k]
    BY <1>2, <2>3 DEF Persist, TypeOK, Counted
  <2>5. CountersMatchRows' /\ CopiesArePast'
    BY <1>2, <2>3, <2>4, QuietStep DEF Persist
  <2> QED BY <2>1, <2>2, <2>5
<1>3. ASSUME NEW i \in Items, Raise(i) PROVE Inv'
  <2>1. TypeOK' /\ TaskInv' /\ FinalInv'
    BY <1>3 DEF Raise, Goto, TypeOK, Labels, TaskInv, FinalInv, Gathered
  <2>2. Counted' = Counted
    BY <1>3 DEF Raise, Goto, TypeOK, Counted
  <2>3. CountersMatchRows' /\ CopiesArePast'
    BY <1>3, <2>2, QuietStep DEF Raise
  <2> QED BY <2>1, <2>3
<1>4. ASSUME NEW i \in Items, Count(i) PROVE Inv'
  <2>1. ItemStatus[i] = StatusOf(row[i]) /\ StatusOf(row[i]) \in Outcomes
    BY DEF ItemStatus, StatusOf, Outcomes
  <2>2. counters' \in Tallies
    BY <1>4, <2>1, BumpType DEF Count, TypeOK
  <2>3. TypeOK' /\ TaskInv' /\ FinalInv'
    BY <1>4, <2>2 DEF Count, Goto, TypeOK, Labels, TaskInv, FinalInv, Gathered
  <2>4. i \notin Counted /\ Counted' = Counted \cup {i}
    BY <1>4 DEF Count, Goto, TypeOK, Counted
  <2>5. \A k \in Items : snapshot'[k] = snapshot[k] \/ snapshot'[k] = counters'
    BY <1>4 DEF Count, TypeOK
  <2>6. CountersMatchRows' /\ CopiesArePast'
    BY <1>4, <2>1, <2>4, <2>5, CountingStep DEF Count
  <2> QED BY <2>3, <2>6
<1>5. ASSUME NEW i \in Items, Report(i) PROVE Inv'
  <2>1. TypeOK' /\ TaskInv'
    BY <1>5 DEF Report, Goto, TypeOK, Labels, TaskInv
  <2>2. FinalInv'
    BY <1>5 DEF Report, Goto, TypeOK, FinalInv, Gathered
  <2>3. Counted' = Counted /\ ItemStatus' = ItemStatus
    BY <1>5 DEF Report, Goto, TypeOK, Counted, ItemStatus
  <2>4. CountersMatchRows'
    BY <1>5, <2>3 DEF Report, CountersMatchRows
  <2>5. CopiesArePast'
    <3>1. request'.counts = request.counts \/ request'.counts = snapshot[i]
      BY <1>5 DEF Report
    <3> QED BY <1>5, <2>3, <3>1 DEF Report, CopiesArePast
  <2> QED BY <2>1, <2>2, <2>4, <2>5
<1>6. ASSUME NEW i \in Items, RecordError(i) PROVE Inv'
  <2>1. TypeOK' /\ TaskInv' /\ FinalInv'
    BY <1>6 DEF RecordError, Goto, TypeOK, Labels, RowStates, Outcomes, TaskInv,
                FinalInv, Gathered
  <2>2. Counted' = Counted /\ i \notin Counted
    BY <1>6 DEF RecordError, Goto, TypeOK, Counted
  <2>3. \A k \in Counted : row'[k] = row[k]
    BY <1>6, <2>2 DEF RecordError, TypeOK, Counted
  <2>4. CountersMatchRows' /\ CopiesArePast'
    BY <1>6, <2>2, <2>3, QuietStep DEF RecordError
  <2> QED BY <2>1, <2>4
<1>7. ASSUME NEW i \in Items, CountError(i) PROVE Inv'
  <2>1. ItemStatus[i] = "no_match" /\ "no_match" \in Outcomes
    BY <1>7 DEF CountError, TaskInv, ItemStatus, StatusOf, Outcomes
  <2>2. counters' \in Tallies
    BY <1>7, <2>1, BumpType DEF CountError, TypeOK
  <2>3. TypeOK' /\ TaskInv' /\ FinalInv'
    BY <1>7, <2>2 DEF CountError, Goto, TypeOK, Labels, TaskInv, FinalInv, Gathered
  <2>4. i \notin Counted /\ Counted' = Counted \cup {i}
    BY <1>7 DEF CountError, Goto, TypeOK, Counted
  <2>5. CountersMatchRows' /\ CopiesArePast'
    BY <1>7, <2>1, <2>4, CountingStep DEF CountError
  <2> QED BY <2>3, <2>5
<1>8. CASE Finalize \/ MarkFailed
  <2>1. Gathered /\ UNCHANGED <<pc, row, saved, counters, snapshot>>
    BY <1>8 DEF Finalize, MarkFailed, FinalInv
  <2>2. \/ request' = request
        \/ request' = [status |-> "done", counts |-> counters] /\ job' = "returned"
        \/ request' = [status |-> "failed", counts |-> counters] /\ job' = "returned"
    BY <1>8 DEF Finalize, MarkFailed
  <2>3. TypeOK'
    BY <1>8, <2>1, <2>2 DEF Finalize, MarkFailed, TypeOK
  <2>4. TaskInv'
    BY <2>1 DEF TaskInv
  <2>5. FinalInv'
    BY <1>8, <2>1, <2>2 DEF Finalize, MarkFailed, FinalInv, Gathered
  <2>6. Counted' = Counted /\ ItemStatus' = ItemStatus
    BY <2>1 DEF Counted, ItemStatus
  <2>7. CountersMatchRows'
    BY <2>1, <2>6 DEF CountersMatchRows
  <2>8. CopiesArePast'
    <3>1. request'.counts = request.counts \/ request'.counts = counters
      BY <2>2
    <3>2. counters = Tally(Counted, ItemStatus)
      BY DEF CountersMatchRows
    <3> QED BY <2>1, <2>6, <3>1, <3>2 DEF CopiesArePast
  <2> QED BY <2>3, <2>4, <2>5, <2>7, <2>8
<1>9. CASE Prepare \/ Cancel
  <2>1. UNCHANGED <<pc, row, saved, counters, snapshot, request>>
    BY <1>9 DEF Prepare, Cancel
  <2>2. TypeOK' /\ TaskInv' /\ FinalInv'
    BY <1>9, <2>1 DEF Prepare, Cancel, Ended, TypeOK, TaskInv, FinalInv, Gathered
  <2>3. CountersMatchRows' /\ CopiesArePast'
    BY <2>1 DEF CountersMatchRows, CopiesArePast, Counted, ItemStatus
  <2> QED BY <2>2, <2>3
<1>10. CASE UNCHANGED vars
  BY <1>10 DEF vars, TypeOK, TaskInv, FinalInv, Gathered, CountersMatchRows,
               CopiesArePast, Counted, ItemStatus
<1>11. ASSUME NEW i \in Items, ItemStep(i) PROVE Inv'
  BY <1>1, <1>2, <1>3, <1>4, <1>5, <1>6, <1>7, <1>11 DEF ItemStep
<1> QED
  BY <1>8, <1>9, <1>10, <1>11 DEF Next, Work, Idle

\* Inv is an invariant of the run.
LEMMA Invariance == Spec => []Inv
<1>1. Init => Inv
  BY InitInv
<1>2. Inv /\ [Next]_vars => Inv'
  BY NextInv
<1> QED
  BY <1>1, <1>2, PTL DEF Spec

-----------------------------------------------------------------------------
\* The variables of a run keep their types.
THEOREM TypeCorrect == Spec => []TypeOK
<1>1. Inv => TypeOK
  BY DEF Inv
<1> QED
  BY <1>1, Invariance, PTL

\* The counters that the tasks of a batch share never miss, repeat or misfile
\* an item: they are the tally of the counted items' rows, in every state, for
\* any interleaving and any failures.
THEOREM CountersCorrect == Spec => []CountersMatchRows
<1>1. Inv => CountersMatchRows
  BY DEF Inv
<1> QED
  BY <1>1, Invariance, PTL

\* A request shown as "done" shows the tally of all its rows.
THEOREM DoneCorrect == Spec => []DoneIsComplete
<1>1. Inv => DoneIsComplete
  <2> SUFFICES ASSUME Inv, request.status = "done"
               PROVE  request.counts = Tally(Items, ItemStatus)
    BY DEF DoneIsComplete
  <2>1. Gathered /\ request.counts = counters
    BY DEF Inv, FinalInv
  <2>2. Counted = Items
    BY <2>1 DEF Gathered, Counted
  <2> QED BY <2>1, <2>2 DEF Inv, CountersMatchRows
<1> QED
  BY <1>1, Invariance, PTL

\* Candidates are saved at most once an item, and only beside a result.
THEOREM CandidatesCorrect == Spec => []CandidatesMatchRow
<1>1. Inv => CandidatesMatchRow
  BY DEF Inv, TypeOK, TaskInv, CandidatesMatchRow
<1> QED
  BY <1>1, Invariance, PTL

\* The write that ends the request is the last write of the run.
THEOREM TerminalCorrect == Spec => TerminalIsFinal
<1>1. Inv /\ [Next]_vars
        => [request.status \in {"done", "failed"} => UNCHANGED <<row, saved, request>>]_vars
  <2> SUFFICES ASSUME Inv, Next, request.status \in {"done", "failed"}
               PROVE  UNCHANGED <<row, saved, request>>
    OBVIOUS
  <2>1. job = "returned" /\ Gathered
    BY DEF Inv, FinalInv
  <2>2. ASSUME NEW i \in Items PROVE ~ItemStep(i)
    BY <2>1 DEF Gathered, ItemStep, Acquire, Persist, Raise, Count, Report, RecordError,
                CountError
  <2>3. Idle
    BY <2>1, <2>2 DEF Next, Work, Prepare, Ended, Finalize, MarkFailed, Cancel
  <2> QED BY <2>3 DEF Idle, vars
<1> QED
  BY <1>1, Invariance, PTL DEF Spec, TerminalIsFinal
-----------------------------------------------------------------------------
\* BatchAbs counts with the same operators.
LEMMA SameVocabulary ==
    /\ Abs!ZeroTally = ZeroTally
    /\ Abs!Outcomes = Outcomes
    /\ \A S \in SUBSET Items : Abs!Tally(S, CountedOutcome) = Tally(S, CountedOutcome)
<1>1. Abs!Outcomes = Outcomes /\ Abs!CounterKeys = CounterKeys
  BY DEF Abs!CounterKeys, CounterKeys, Abs!Outcomes, Outcomes
<1>2. ASSUME NEW S PROVE Abs!Cardinality(S) = Cardinality(S)
  BY DEF Abs!Cardinality, Cardinality
<1> QED
  BY <1>1, <1>2 DEF Abs!ZeroTally, ZeroTally, Abs!Tally, Tally

\* Tallies do not tell a row's status from the outcome that BatchAbs sees for a
\* counted item.
LEMMA SameTally ==
    ASSUME NEW S \in SUBSET Counted
    PROVE  Tally(S, CountedOutcome) = Tally(S, ItemStatus)
<1>1. \A i \in S : CountedOutcome[i] = ItemStatus[i]
  BY DEF CountedOutcome, Counted
<1> QED
  BY <1>1, TallyFrame

\* The items BatchAbs takes for decided are the counted ones.
LEMMA DecidedCounted == Abs!Decided = Counted
<1>1. \A i \in Counted : CountedOutcome[i] # "none"
  BY DEF CountedOutcome, Counted, ItemStatus, StatusOf, Outcomes
<1>2. \A i \in Items : i \notin Counted => CountedOutcome[i] = "none"
  BY DEF CountedOutcome
<1> QED
  BY <1>1, <1>2 DEF Abs!Decided, Counted

\* A step that counts item i decides it.
LEMMA CountDecides ==
    ASSUME Inv, NEW i \in Items, i \notin Counted, Counted' = Counted \cup {i},
           UNCHANGED <<row, request>>, request.status = "running"
    PROVE  Abs!Decide(i)
<1>1. ItemStatus[i] \in Outcomes /\ ItemStatus' = ItemStatus
  BY DEF ItemStatus, StatusOf, Outcomes
<1>2. CountedOutcome[i] = "none"
  BY DEF CountedOutcome
<1>3. CountedOutcome' = [CountedOutcome EXCEPT ![i] = ItemStatus[i]]
  BY <1>1 DEF CountedOutcome
<1> QED
  BY <1>1, <1>2, <1>3, SameVocabulary DEF Abs!Decide

\* A step that leaves the counted items and their rows alone decides nothing.
LEMMA NoDecision ==
    ASSUME Counted' = Counted, \A k \in Counted : row'[k] = row[k]
    PROVE  CountedOutcome' = CountedOutcome
BY DEF CountedOutcome, ItemStatus, Counted

\* Every step of a run is a step of BatchAbs or a stutter.
LEMMA StepRefines == Inv /\ Inv' /\ [Next]_vars => [Abs!Next]_(Abs!vars)
<1> SUFFICES ASSUME Inv, [Next]_vars PROVE [Abs!Next]_(Abs!vars)
  OBVIOUS
<1>0. job # "returned" \/ ~Gathered => request.status = "running"
  BY DEF Inv, TypeOK, FinalInv
<1>1. ASSUME NEW i \in Items, Count(i) \/ CountError(i) PROVE Abs!Next
  <2>1. i \notin Counted /\ Counted' = Counted \cup {i}
    BY <1>1 DEF Inv, Count, CountError, Goto, TypeOK, Counted
  <2>2. request.status = "running"
    BY <1>0, <1>1 DEF Count, CountError, Gathered
  <2>3. Abs!Decide(i)
    BY <1>1, <2>1, <2>2, CountDecides DEF Count, CountError
  <2> QED BY <2>3 DEF Abs!Next
<1>2. ASSUME NEW i \in Items,
             Acquire(i) \/ Raise(i) \/ RecordError(i) \/ \E o \in Outcomes : Persist(i, o)
      PROVE  UNCHANGED Abs!vars
  <2>1. Counted' = Counted
    BY <1>2 DEF Inv, Acquire, Raise, RecordError, Persist, Goto, TypeOK, Counted
  <2>2. \A k \in Counted : row'[k] = row[k]
    BY <1>2 DEF Inv, Acquire, Raise, RecordError, Persist, TypeOK, Counted
  <2>3. CountedOutcome' = CountedOutcome
    BY <2>1, <2>2, NoDecision
  <2> QED BY <1>2, <2>3 DEF Abs!vars, Acquire, Raise, RecordError, Persist
<1>3. ASSUME NEW i \in Items, Report(i) PROVE [Abs!Next]_(Abs!vars)
  <2>1. Counted' = Counted /\ row' = row
    BY <1>3 DEF Inv, Report, Goto, TypeOK, Counted
  <2>2. CountedOutcome' = CountedOutcome
    BY <2>1, NoDecision
  <2>3. CASE request' = request
    BY <2>2, <2>3 DEF Abs!vars
  <2>4. CASE request' = [status |-> "running", counts |-> snapshot[i]]
    <3>1. PICK S \in SUBSET Counted : snapshot[i] = Tally(S, ItemStatus)
      BY DEF Inv, CopiesArePast
    <3>2. request'.counts = Tally(S, CountedOutcome)
      BY <2>4, <3>1, SameTally
    <3>3. request.status = "running" /\ request'.status = "running"
      BY <1>0, <1>3, <2>4 DEF Report, Gathered
    <3>4. S \in SUBSET Abs!Decided /\ S \in SUBSET Items
      BY <3>1, DecidedCounted DEF Counted
    <3>5. Abs!Publish
      BY <2>2, <3>2, <3>3, <3>4, SameVocabulary DEF Abs!Publish
    <3> QED BY <3>5 DEF Abs!Next
  <2> QED BY <1>3, <2>3, <2>4 DEF Report
<1>4. CASE Finalize \/ MarkFailed
  <2>1. Gathered /\ UNCHANGED <<pc, row>> /\ request.status = "running"
    BY <1>0, <1>4 DEF Inv, Finalize, MarkFailed, FinalInv
  <2>2. Counted' = Counted /\ Counted = Items
    BY <2>1 DEF Gathered, Counted
  <2>3. CountedOutcome' = CountedOutcome
    BY <2>1, <2>2, NoDecision
  <2>4. counters = Tally(Items, CountedOutcome)
    <3>1. counters = Tally(Counted, ItemStatus)
      BY DEF Inv, CountersMatchRows
    <3>2. Tally(Counted, CountedOutcome) = Tally(Counted, ItemStatus)
      BY SameTally
    <3> QED BY <2>2, <3>1, <3>2
  <2>5. Abs!Decided = Items
    BY <2>2, DecidedCounted
  <2>6. CASE request' = request
    BY <2>3, <2>6 DEF Abs!vars
  <2>7. CASE request' = [status |-> "done", counts |-> counters]
    <3>1. Abs!Finish
      BY <2>1, <2>3, <2>4, <2>5, <2>7, SameVocabulary DEF Abs!Finish
    <3> QED BY <3>1 DEF Abs!Next
  <2>8. CASE request' = [status |-> "failed", counts |-> counters]
    <3>1. Abs!Fail
      BY <2>1, <2>3, <2>4, <2>5, <2>8, SameVocabulary DEF Abs!Fail
    <3> QED BY <3>1 DEF Abs!Next
  <2> QED BY <1>4, <2>6, <2>7, <2>8 DEF Finalize, MarkFailed
<1>5. CASE Prepare \/ Cancel \/ UNCHANGED vars
  <2>1. UNCHANGED <<pc, row, request>>
    BY <1>5 DEF Prepare, Cancel, vars
  <2>2. CountedOutcome' = CountedOutcome
    BY <2>1, NoDecision DEF Counted
  <2> QED BY <2>1, <2>2 DEF Abs!vars
<1> QED
  BY <1>1, <1>2, <1>3, <1>4, <1>5 DEF Next, Work, ItemStep, Idle

\* A run of the batch worker is a run of BatchAbs: items are decided once, what
\* is published is always exact for some decided items, "done" means all.
THEOREM Refinement == Spec => ImplementsAbs
<1>1. Init => Abs!Init
  <2> SUFFICES ASSUME Init PROVE Abs!Init
    OBVIOUS
  <2>1. Counted = {}
    BY DEF Init, Counted
  <2>2. CountedOutcome = [i \in Items |-> "none"]
    BY <2>1 DEF CountedOutcome
  <2> QED BY <2>2, SameVocabulary DEF Init, Abs!Init
<1>2. Inv /\ Inv' /\ [Next]_vars => [Abs!Next]_(Abs!vars)
  BY StepRefines
<1> QED
  BY <1>1, <1>2, Invariance, PTL DEF Spec, ImplementsAbs, Abs!Spec
=============================================================================
