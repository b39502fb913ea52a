--------------------------- MODULE Answers_proofs ---------------------------
(***************************************************************************)
(* Proofs about what the program makes of the answers of others: of the    *)
(* providers (ProviderAnswers), of the database (Retrieval), of 1C         *)
(* (OneCFetch) and of a model that reads files (FileAnalysis).             *)
(***************************************************************************)
EXTENDS ProviderAnswers, Retrieval, OneCFetch, FileAnalysis, FiniteSetTheorems, TLAPS

-----------------------------------------------------------------------------
(* Batches.  Every batch begins at a multiple of its size, so a slot has   *)
(* one batch of its own (Starts), and what an answer writes beyond its     *)
(* batch comes from an earlier one.                                        *)

Own(k) == [batch |-> StartOf(k), no |-> k - StartOf(k)]

Spilled(k) == slots[k].batch < StartOf(k) /\ slots[k].no >= job.batch

Started(b) == \E q \in Nat : b = 1 + job.batch * q

Slotted ==
    /\ slots \in Seq(Placing)
    /\ job.kind \in {"embed", "match"} =>
          /\ Len(slots) = job.inputs
          /\ \A k \in 1 .. job.inputs :
                /\ slots[k] \in {Nobody, Own(k)} \/ (job.kind = "embed" /\ Spilled(k))
                /\ job.kind = "embed" /\ StartOf(k) \in full => slots[k] = Own(k)
    /\ job.kind = "local" =>
          /\ Len(slots) = IF progress = "done" THEN job.inputs ELSE from - 1
          /\ \A k \in 1 .. Len(slots) : slots[k] = Own(k)

BatchInv ==
    /\ job \in [kind : Kinds, inputs : 1 .. MaxInputs, batch : 1 .. MaxInputs]
    /\ from \in 1 .. job.inputs /\ Started(from)
    /\ tries \in 0 .. MaxRetries - 1
    /\ full \subseteq 1 .. job.inputs
    /\ progress = "ask" => \A b \in full : b < from
    /\ progress \in {"ask", "done", "raised"}
    /\ job.kind \in {"embed", "local", "match"} => Slotted /\ said = <<>>

LEMMA Quotient ==
    ASSUME NEW n \in Nat, NEW b \in Nat \ {0}, NEW q \in Nat, b * q <= n, n < b * q + b
    PROVE  n \div b = q
OBVIOUS

LEMMA Remainder ==
    ASSUME NEW n \in Nat, NEW b \in Nat \ {0}
    PROVE  n \div b \in Nat /\ b * (n \div b) <= n /\ n < b * (n \div b) + b
OBVIOUS

LEMMA OneMore ==
    ASSUME NEW b \in Nat, NEW p \in Nat
    PROVE  b * (p + 1) = b * p + b /\ b * p \in Nat
OBVIOUS

LEMMA Multiples ==
    ASSUME NEW b \in Nat \ {0}, NEW p \in Nat, NEW q \in Nat, b * p < b * q
    PROVE  b * p + b <= b * q
<1>1. p < q
  <2>1. p >= q => b * p >= b * q
    OBVIOUS
  <2> QED BY <2>1
<1>2. p + 1 <= q
  BY <1>1
<1>3. b * (p + 1) <= b * q
  BY <1>2
<1> QED BY <1>3

\* A slot has one batch, and it is that which the slot lies in.
LEMMA Starts ==
    ASSUME job.batch \in Nat \ {0}, NEW k \in Nat \ {0}
    PROVE  /\ StartOf(k) \in Nat \ {0} /\ StartOf(k) <= k /\ k < StartOf(k) + job.batch
           /\ \A b \in Nat : Started(b) =>
                /\ b <= k /\ k < b + job.batch => StartOf(k) = b
                /\ k < b => StartOf(k) + job.batch <= b
                /\ b + job.batch <= k => b < StartOf(k)
<1> DEFINE n == k - 1
           q == n \div job.batch
<1>0. n \in Nat
  OBVIOUS
<1>1. q \in Nat /\ job.batch * q <= n /\ n < job.batch * q + job.batch
  <2> HIDE DEF n
  <2> QED BY <1>0, Remainder
<1>2. StartOf(k) = 1 + job.batch * q /\ job.batch * q \in Nat
  BY <1>1 DEF StartOf
<1>3. ASSUME NEW b \in Nat, Started(b)
      PROVE  /\ b <= k /\ k < b + job.batch => StartOf(k) = b
             /\ k < b => StartOf(k) + job.batch <= b
             /\ b + job.batch <= k => b < StartOf(k)
  <2>1. PICK p \in Nat : b = 1 + job.batch * p
    BY <1>3 DEF Started
  <2>2. ASSUME b <= k, k < b + job.batch PROVE StartOf(k) = b
    <3>1. job.batch * p <= n /\ n < job.batch * p + job.batch
      BY <2>1, <2>2
    <3>2. q = p
      BY <1>0, <1>1, <3>1, Quotient
    <3> QED BY <1>2, <2>1, <3>2
  <2>3. ASSUME k < b PROVE StartOf(k) + job.batch <= b
    <3>1. job.batch * q < job.batch * p
      BY <1>0, <1>1, <2>1, <2>3
    <3>2. job.batch * q + job.batch <= job.batch * p
      BY <1>1, <3>1, Multiples
    <3> QED BY <1>2, <2>1, <3>2
  <2>4. ASSUME b + job.batch <= k PROVE b < StartOf(k)
    BY <1>0, <1>1, <1>2, <2>1, <2>4
  <2> QED BY <2>2, <2>3, <2>4
<1> HIDE DEF n, q
<1>4. StartOf(k) <= k /\ k < StartOf(k) + job.batch /\ StartOf(k) \in Nat \ {0}
  BY <1>0, <1>1, <1>2 DEF n
<1> QED BY <1>3, <1>4

LEMMA JobFacts ==
    ASSUME BatchInv
    PROVE  /\ job.kind \in Kinds /\ job.inputs \in 1 .. MaxInputs /\ job.batch \in 1 .. MaxInputs
           /\ job.inputs \in Nat \ {0} /\ job.batch \in Nat \ {0}
           /\ from \in Nat \ {0} /\ from <= job.inputs
BY DEF BatchInv

\* The batch that a call is at, and what the next one has.
LEMMA BatchFacts ==
    ASSUME BatchInv
    PROVE  /\ Batch = from .. (IF from + job.batch > job.inputs THEN job.inputs
                               ELSE from + job.batch - 1)
           /\ IsFiniteSet(Batch)
           /\ Cardinality(Batch) = IF from + job.batch > job.inputs THEN job.inputs - from + 1
                                   ELSE job.batch
           /\ \A k \in Batch : k \in 1 .. job.inputs /\ StartOf(k) = from
           /\ \A k \in 1 .. job.inputs : StartOf(k) = from => k \in Batch
           /\ Started(from + job.batch)
<1> DEFINE last == IF from + job.batch > job.inputs THEN job.inputs ELSE from + job.batch - 1
<1>1. Batch = from .. last /\ last \in Nat /\ from <= last + 1 /\ last <= job.inputs
  BY JobFacts DEF Batch, Least
<1>2. IsFiniteSet(from .. last) /\ Cardinality(from .. last) = IF from > last THEN 0 ELSE last - from + 1
  <2> HIDE DEF last
  <2>1. from \in Int /\ last \in Int
    BY <1>1, JobFacts
  <2>2. /\ IsFiniteSet(from .. last)
        /\ Cardinality(from .. last) = IF from > last THEN 0 ELSE last - from + 1
    BY <2>1, FS_Interval, Zenon
  <2> QED BY <2>2
<1>3. \A k \in Batch : k \in 1 .. job.inputs /\ StartOf(k) = from
  <2> SUFFICES ASSUME NEW k \in Batch PROVE k \in 1 .. job.inputs /\ StartOf(k) = from
    OBVIOUS
  <2>1. k \in Nat \ {0} /\ from <= k /\ k < from + job.batch /\ k <= job.inputs
    BY <1>1, JobFacts
  <2> QED BY <2>1, JobFacts, Starts DEF BatchInv
<1>4. \A k \in 1 .. job.inputs : StartOf(k) = from => k \in Batch
  <2> SUFFICES ASSUME NEW k \in 1 .. job.inputs, StartOf(k) = from PROVE k \in Batch
    OBVIOUS
  <2>1. k \in Nat \ {0} /\ from <= k /\ k < from + job.batch
    BY JobFacts, Starts
  <2> QED BY <1>1, <2>1, JobFacts
<1>5. Started(from + job.batch)
  <2>1. PICK q \in Nat : from = 1 + job.batch * q
    BY DEF BatchInv, Started
  <2>2. from + job.batch = 1 + job.batch * (q + 1) /\ q + 1 \in Nat
    <3>1. job.batch * (q + 1) = job.batch * q + job.batch /\ job.batch * q \in Nat
      BY JobFacts, OneMore, Zenon
    <3>2. q + 1 \in Nat /\ job.batch \in Nat
      BY JobFacts
    <3> DEFINE m == job.batch * q
               n == job.batch * (q + 1)
    <3>3. n = m + job.batch /\ m \in Nat /\ from = 1 + m
      BY <2>1, <3>1
    <3> HIDE DEF m, n
    <3>4. from + job.batch = 1 + n
      BY <3>2, <3>3
    <3> QED BY <3>2, <3>4 DEF n
  <2> QED BY <2>2 DEF Started
<1> QED BY <1>1, <1>2, <1>3, <1>4, <1>5, JobFacts

-----------------------------------------------------------------------------
LEMMA BatchStart == AnswersInit => BatchInv
<1> SUFFICES ASSUME AnswersInit PROVE BatchInv
  OBVIOUS
<1>1. /\ job \in [kind : Kinds, inputs : 1 .. MaxInputs, batch : 1 .. MaxInputs]
      /\ job.inputs \in Nat \ {0} /\ job.batch \in Nat \ {0}
  <2>1. PICK k \in Kinds, n \in 1 .. MaxInputs, b \in BatchSize .. MaxInputs :
           job = [kind |-> k, inputs |-> n, batch |-> b]
    BY DEF AnswersInit
  <2>2. b \in 1 .. MaxInputs
    BY AnswersAssumption
  <2> QED BY <2>1, <2>2
<1>2. /\ from = 1 /\ tries = 0 /\ full = {} /\ progress = "ask" /\ said = <<>>
      /\ tries \in 0 .. MaxRetries - 1
  BY AnswersAssumption DEF AnswersInit
<1>3. Started(from)
  <2>1. job.batch * 0 = 0
    BY <1>1
  <2> QED BY <1>2, <2>1 DEF Started
<1>4. CASE job.kind \in {"embed", "match"}
  <2>1. slots = [k \in 1 .. job.inputs |-> Nobody]
    BY <1>4 DEF AnswersInit
  <2>2. Nobody \in Placing
    BY AnswersAssumption DEF Nobody, Placing
  <2>3. slots \in Seq(Placing) /\ Len(slots) = job.inputs
    BY <1>1, <2>1, <2>2
  <2> QED BY <1>1, <1>2, <1>3, <1>4, <2>1, <2>3 DEF BatchInv, Slotted
<1>5. CASE job.kind = "local"
  <2>1. slots = <<>>
    BY <1>5 DEF AnswersInit
  <2>2. slots \in Seq(Placing) /\ Len(slots) = from - 1
    <3>1. <<>> \in Seq(Placing) /\ Len(<<>>) = 0
      OBVIOUS
    <3> QED BY <1>2, <2>1, <3>1
  <2> QED BY <1>1, <1>2, <1>3, <1>5, <2>2 DEF BatchInv, Slotted
<1> QED BY <1>1, <1>2, <1>3, <1>4, <1>5 DEF BatchInv

\* What the next batch, and another try, leave of the invariant for the slots to show.
LEMMA OnwardKeeps ==
    ASSUME BatchInv, progress = "ask", Onward, job' = job, said' = said,
           full' \in {full, full \cup {from}}, job.kind \in {"embed", "local", "match"},
           Slotted'
    PROVE  BatchInv'
<1>1. /\ from' \in 1 .. job.inputs /\ tries' = 0 /\ progress' \in {"ask", "done"}
      /\ from' \in {from, from + job.batch} /\ (progress' = "ask" => from' = from + job.batch)
  BY JobFacts DEF Onward
<1>2. Started(from)'
  BY <1>1, BatchFacts DEF Started, BatchInv
<1>3. full' \subseteq 1 .. job.inputs /\ (progress' = "ask" => \A b \in full' : b < from')
  BY <1>1, JobFacts DEF BatchInv
<1>4. tries' \in 0 .. MaxRetries - 1
  BY <1>1, AnswersAssumption
<1> QED BY <1>1, <1>2, <1>3, <1>4 DEF BatchInv

LEMMA RetriedKeeps ==
    ASSUME BatchInv, progress = "ask", Retried, job' = job, said' = said, full' = full,
           job.kind \in {"embed", "local", "match"}, Slotted'
    PROVE  BatchInv'
<1>1. from' = from /\ progress' \in {"ask", "raised"} /\ tries' \in 0 .. MaxRetries - 1
  BY AnswersAssumption DEF Retried, BatchInv
<1>2. Started(from)'
  BY <1>1 DEF Started, BatchInv
<1> QED BY <1>1, <1>2 DEF BatchInv

\* A slot that an embedded batch has not reached is not one of a full batch.
LEMMA FullBefore ==
    ASSUME BatchInv, progress = "ask", NEW k \in Nat \ {0}, StartOf(k) \in full
    PROVE  k < from
<1>1. StartOf(k) < from /\ Started(from) /\ job.batch \in Nat \ {0} /\ from \in Nat
  BY JobFacts DEF BatchInv
<1> QED BY <1>1, Starts

LEMMA EmbedAnsweredKeeps == ASSUME BatchInv, EmbedAnswered PROVE BatchInv'
<1>1. PICK count \in 0 .. job.batch + 1 :
        /\ slots' = [k \in DOMAIN slots |->
                        IF k - from \in 0 .. count - 1 THEN Entry(k - from) ELSE slots[k]]
        /\ \/ Retried /\ full' = full
           \/ Onward /\ full' = IF count = Cardinality(Batch) THEN full \cup {from} ELSE full
  BY DEF EmbedAnswered
<1>2. /\ job' = job /\ said' = said /\ progress = "ask" /\ job.kind = "embed" /\ Slotted
      /\ full' \in {full, full \cup {from}}
  BY <1>1 DEF EmbedAnswered, Asking, BatchInv
<1>3. slots \in Seq(Placing) /\ Len(slots) = job.inputs /\ DOMAIN slots = 1 .. job.inputs
  BY <1>2 DEF Slotted
<1>4. ASSUME NEW k \in 1 .. job.inputs
      PROVE  /\ slots'[k] \in Placing
             /\ slots'[k] \in {Nobody, Own(k)} \/ (slots'[k].batch < StartOf(k)
                                                  /\ slots'[k].no >= job.batch)
             /\ StartOf(k) \in full' => slots'[k] = Own(k)
  <2>1. k \in Nat \ {0} /\ k <= job.inputs
    BY JobFacts
  <2>2. CASE k - from \in 0 .. count - 1
    <3>1. slots'[k] = [batch |-> from, no |-> k - from] /\ k - from \in Nat /\ from <= k
          /\ k - from <= job.batch
      BY <1>1, <1>3, <2>2, JobFacts DEF Entry
    <3>2. slots'[k] \in Placing
      BY <3>1, JobFacts, AnswersAssumption DEF Placing
    <3>3. CASE k - from < job.batch
      <4>1. StartOf(k) = from
        BY <2>1, <3>1, <3>3, JobFacts, Starts DEF BatchInv
      <4> QED BY <3>1, <3>2, <4>1 DEF Own
    <3>4. CASE k - from = job.batch
      <4>1. from < StartOf(k)
        BY <2>1, <3>1, <3>4, JobFacts, Starts DEF BatchInv
      <4>2. StartOf(k) \notin full'
        <5>1. StartOf(k) \notin full
          BY <1>2, <2>1, <3>1, FullBefore, JobFacts
        <5>2. StartOf(k) # from
          BY <4>1, JobFacts
        <5> QED BY <1>2, <5>1, <5>2
      <4> QED BY <3>1, <3>2, <3>4, <4>1, <4>2
    <3> QED BY <3>1, <3>3, <3>4, JobFacts
  <2>3. CASE k - from \notin 0 .. count - 1
    <3>1. slots'[k] = slots[k] /\ slots[k] \in Placing
      BY <1>1, <1>3, <2>3
    <3>2. StartOf(k) \in full' => StartOf(k) \in full
      <4>1. CASE full' = full
        BY <4>1
      <4>2. CASE StartOf(k) = from /\ full' # full
        <5>1. count = Cardinality(Batch) /\ k \in Batch
          BY <1>1, <4>2, BatchFacts
        <5>2. k - from \in 0 .. count - 1
          <6>1. k <= job.inputs /\ k < from + job.batch /\ from <= k
            BY <4>2, <2>1, JobFacts, Starts
          <6>2. count = IF from + job.batch > job.inputs THEN job.inputs - from + 1
                        ELSE job.batch
            BY <5>1, BatchFacts
          <6>3. k - from <= count - 1
            BY <6>1, <6>2, JobFacts
          <6> QED BY <6>1, <6>3, JobFacts
        <5> QED BY <2>3, <5>2
      <4>3. CASE StartOf(k) # from
        BY <1>2, <4>3
      <4> QED BY <4>1, <4>2, <4>3
    <3> QED BY <1>2, <3>1, <3>2 DEF Slotted, Spilled
  <2> QED BY <2>2, <2>3
<1>5. Slotted'
  <2>1. DOMAIN slots' = 1 .. job.inputs
    BY <1>1, <1>3
  <2>2. slots' \in Seq(Placing) /\ Len(slots') = job.inputs
    <3>1. slots' \in [1 .. job.inputs -> Placing]
      BY <1>1, <1>3, <1>4
    <3> QED BY <3>1, JobFacts
  <2>3. \A k : StartOf(k)' = StartOf(k) /\ Own(k)' = Own(k)
    BY <1>2 DEF StartOf, Own
  <2> QED BY <1>2, <1>4, <2>2, <2>3 DEF Slotted, Spilled
<1> QED BY <1>1, <1>2, <1>5, OnwardKeeps, RetriedKeeps

LEMMA EmbedFailsKeeps == ASSUME BatchInv, EmbedFails PROVE BatchInv'
<1>1. /\ UNCHANGED <<job, slots, said, full>> /\ Retried /\ progress = "ask"
      /\ job.kind = "embed" /\ Slotted
  BY DEF EmbedFails, Asking, BatchInv
<1>2. Slotted'
  BY <1>1 DEF Slotted, Spilled, Own, StartOf
<1> QED BY <1>1, <1>2, RetriedKeeps

LEMMA EmbedLocallyKeeps == ASSUME BatchInv, EmbedLocally PROVE BatchInv'
<1>1. /\ job' = job /\ said' = said /\ progress = "ask" /\ job.kind = "local" /\ Slotted
  BY DEF EmbedLocally, Asking, BatchInv
<1>2. \A k : StartOf(k)' = StartOf(k) /\ Own(k)' = Own(k)
  BY <1>1 DEF StartOf, Own
<1>3. CASE progress' = "raised" /\ UNCHANGED <<from, tries, slots, full>>
  <2>1. Slotted' /\ Started(from)'
    BY <1>1, <1>2, <1>3 DEF Slotted, Spilled, Started, BatchInv
  <2> QED BY <1>1, <1>3, <2>1 DEF BatchInv
<1>4. CASE /\ slots' = slots \o [j \in 1 .. Cardinality(Batch) |-> Entry(j - 1)]
           /\ full' = full \cup {from}
           /\ Onward
  <2> DEFINE n == Cardinality(Batch)
             new == [j \in 1 .. n |-> Entry(j - 1)]
  <2>1. n \in Nat /\ n <= job.batch /\ n <= job.inputs
    BY JobFacts, BatchFacts
  <2>2. new \in Seq(Placing) /\ Len(new) = n
    <3>1. \A j \in 1 .. n : Entry(j - 1) \in Placing
      BY <2>1, JobFacts, AnswersAssumption DEF Entry, Placing
    <3> QED BY <2>1, <3>1
  <2>3. slots \in Seq(Placing) /\ Len(slots) = from - 1
    BY <1>1 DEF Slotted
  <2>4. slots' \in Seq(Placing) /\ Len(slots') = from - 1 + n
    BY <1>4, <2>1, <2>2, <2>3, JobFacts
  <2>5. Len(slots') = IF progress' = "done" THEN job.inputs ELSE from' - 1
    <3>1. CASE from + job.batch > job.inputs
      <4>1. n = job.inputs - from + 1 /\ progress' = "done"
        BY <1>4, <3>1, BatchFacts DEF Onward
      <4> HIDE DEF n
      <4> QED BY <2>4, <4>1, JobFacts
    <3>2. CASE ~(from + job.batch > job.inputs)
      <4>1. n = job.batch /\ progress' = "ask" /\ from' = from + job.batch
        BY <1>1, <1>4, <3>2, BatchFacts DEF Onward
      <4> HIDE DEF n
      <4> QED BY <2>4, <4>1, JobFacts
    <3> QED BY <3>1, <3>2
  <2>6. ASSUME NEW k \in 1 .. Len(slots') PROVE slots'[k] = Own(k)
    <3>1. CASE k <= from - 1
      <4>1. slots'[k] = slots[k] /\ k \in 1 .. Len(slots)
        BY <1>4, <2>2, <2>3, <2>4, <3>1, JobFacts
      <4> QED BY <1>1, <4>1 DEF Slotted
    <3>2. CASE k >= from
      <4>1. slots'[k] = new[k - (from - 1)] /\ k - (from - 1) \in 1 .. n
        BY <1>4, <2>1, <2>2, <2>3, <2>4, <3>2, JobFacts
      <4>2. slots'[k] = [batch |-> from, no |-> k - from]
        BY <4>1, JobFacts DEF Entry
      <4>3. StartOf(k) = from
        <5>1. k \in Nat \ {0} /\ k < from + job.batch
          BY <2>1, <3>2, <4>1, JobFacts
        <5> QED BY <3>2, <5>1, JobFacts, Starts DEF BatchInv
      <4> QED BY <4>2, <4>3 DEF Own
    <3> QED BY <3>1, <3>2, <2>4, JobFacts
  <2>7. Slotted'
    BY <1>1, <1>2, <2>4, <2>5, <2>6 DEF Slotted
  <2> QED BY <1>1, <1>4, <2>7, OnwardKeeps
<1> QED BY <1>3, <1>4 DEF EmbedLocally

LEMMA MatchAnsweredKeeps == ASSUME BatchInv, MatchAnswered PROVE BatchInv'
<1>1. /\ UNCHANGED <<job, said, full>> /\ Onward /\ progress = "ask"
      /\ job.kind = "match" /\ Slotted
  BY DEF MatchAnswered, Asking, BatchInv
<1>2. \A k : StartOf(k)' = StartOf(k) /\ Own(k)' = Own(k)
  BY <1>1 DEF StartOf, Own
<1>3. PICK named \in SUBSET (-1 .. job.batch) : slots' = Placed(named)
  BY DEF MatchAnswered
<1>4. slots \in Seq(Placing) /\ Len(slots) = job.inputs /\ DOMAIN slots = 1 .. job.inputs
  BY <1>1 DEF Slotted
<1>5. ASSUME NEW k \in 1 .. job.inputs
      PROVE  slots'[k] \in Placing /\ slots'[k] \in {Nobody, Own(k)}
  <2>1. CASE k \in Batch /\ k - from \in named
    <3>1. slots'[k] = [batch |-> from, no |-> k - from] /\ StartOf(k) = from
          /\ k >= from
      BY <1>3, <1>4, <2>1, JobFacts, BatchFacts DEF Placed, Entry
    <3> QED BY <3>1, JobFacts, AnswersAssumption DEF Own, Placing
  <2>2. CASE ~(k \in Batch /\ k - from \in named)
    <3>1. slots'[k] = slots[k]
      BY <1>3, <1>4, <2>2 DEF Placed
    <3> QED BY <1>1, <1>4, <3>1 DEF Slotted
  <2> QED BY <2>1, <2>2
<1>6. slots' \in Seq(Placing) /\ Len(slots') = job.inputs
  <2>1. slots' \in [1 .. job.inputs -> Placing]
    BY <1>3, <1>4, <1>5 DEF Placed
  <2> QED BY <2>1, JobFacts
<1>7. Slotted'
  BY <1>1, <1>2, <1>5, <1>6 DEF Slotted
<1> QED BY <1>1, <1>7, OnwardKeeps

LEMMA RankedKeeps ==
    ASSUME BatchInv, RankedByHttp \/ RankedByModel \/ RankedLocally
    PROVE  BatchInv'
<1>1. /\ UNCHANGED <<job, from, tries, full>> /\ progress' = "done"
      /\ job.kind \in {"http", "llm", "cross"}
  BY Zenon DEF RankedByHttp, RankedByModel, RankedLocally, RankedAs, Asking
<1>2. ~(job.kind \in {"embed", "local", "match"}) /\ job'.kind = job.kind
  BY <1>1
<1>3. Started(from)'
  BY <1>1 DEF BatchInv, Started
<1> QED BY <1>1, <1>2, <1>3 DEF BatchInv

LEMMA BatchStep == ASSUME BatchInv, [AnswersNext]_answersVars PROVE BatchInv'
<1>1. CASE UNCHANGED answersVars
  BY <1>1 DEF answersVars, BatchInv, Slotted, Spilled, Started, Own, StartOf
<1> QED BY <1>1, EmbedAnsweredKeeps, EmbedFailsKeeps, EmbedLocallyKeeps, MatchAnsweredKeeps,
           RankedKeeps DEF AnswersNext

\* Whatever the length of the answers, the tries and the size of the batches, no answer is
\* taken for that of another input.
THEOREM PlacesCorrect == AnswersSpec => []InPlace
<1>1. BatchInv => InPlace
  <2> SUFFICES ASSUME BatchInv, progress = "done", job.kind \in {"embed", "local", "match"}
               PROVE  /\ Len(slots) = job.inputs
                      /\ \A k \in 1 .. job.inputs :
                            \/ slots[k] = Own(k)
                            \/ job.kind = "match" /\ slots[k] = Nobody
                            \/ /\ job.kind = "embed" /\ StartOf(k) \notin full
                               /\ \/ slots[k] = Nobody
                                  \/ slots[k].batch < StartOf(k) /\ slots[k].no >= job.batch
    <3>1. BatchInv /\ job.kind \in {"embed", "local", "match"} /\ progress = "done"
             => DOMAIN slots = 1 .. job.inputs
      BY DEF BatchInv, Slotted
    <3> QED BY <3>1 DEF InPlace, Own
  <2> QED BY DEF BatchInv, Slotted, Spilled
<1> QED BY <1>1, BatchStart, BatchStep, PTL DEF AnswersSpec

-----------------------------------------------------------------------------
(* Rankings.  The rank of an entry is the number of those ahead of it;     *)
(* ranks are all different, so every rank is taken, and the best and the   *)
(* worst entry of a ranking are those of the first and the last rank.      *)

LEMMA ScoreTypes ==
    ASSUME NEW r \in Seq(Ranked), NEW k \in 1 .. Len(r)
    PROVE  r[k] \in Ranked /\ r[k].score \in Int /\ r[k].candidate \in 1 .. MaxInputs
<1>1. r[k] \in Ranked
  OBVIOUS
<1> QED BY <1>1 DEF Ranked

LEMMA Indexes ==
    ASSUME NEW r \in Seq(Ranked)
    PROVE  /\ DOMAIN r = 1 .. Len(r) /\ Len(r) \in Nat
           /\ IsFiniteSet(1 .. Len(r)) /\ Cardinality(1 .. Len(r)) = Len(r)
<1> DEFINE n == Len(r)
<1>1. n \in Nat /\ DOMAIN r = 1 .. n
  OBVIOUS
<1> HIDE DEF n
<1>2. 1 \in Int /\ n \in Int
  BY <1>1
<1>3. IsFiniteSet(1 .. n) /\ Cardinality(1 .. n) = IF 1 > n THEN 0 ELSE n - 1 + 1
  BY <1>2, FS_Interval, Zenon
<1>4. IsFiniteSet(1 .. n) /\ Cardinality(1 .. n) = n
  BY <1>1, <1>3
<1> QED BY <1>1, <1>4 DEF n

\* Who is ahead of one that is ahead of another is ahead of that.
LEMMA AheadGrows ==
    ASSUME NEW r \in Seq(Ranked), NEW k \in 1 .. Len(r), NEW m \in Ahead(r, k)
    PROVE  /\ Cardinality(Ahead(r, m)) < Cardinality(Ahead(r, k))
<1>1. /\ m \in 1 .. Len(r) /\ Len(r) \in Nat
      /\ \A i \in 1 .. Len(r) : r[i].score \in Int
  BY ScoreTypes, Indexes DEF Ahead
<1>2. Ahead(r, m) \in SUBSET Ahead(r, k) /\ m \notin Ahead(r, m)
  BY <1>1 DEF Ahead
<1>3. Ahead(r, k) \in SUBSET (1 .. Len(r)) /\ IsFiniteSet(1 .. Len(r))
  BY Indexes DEF Ahead
<1>4. IsFiniteSet(Ahead(r, k)) /\ Cardinality(Ahead(r, k)) \in Nat
  BY <1>3, FS_Subset, FS_CardinalityType
<1>5. Cardinality(Ahead(r, m)) <= Cardinality(Ahead(r, k)) /\ Cardinality(Ahead(r, m)) \in Nat
      /\ Cardinality(Ahead(r, m)) # Cardinality(Ahead(r, k))
  BY <1>2, <1>4, FS_Subset, FS_CardinalityType
<1> QED BY <1>4, <1>5

LEMMA RankRange ==
    ASSUME NEW r \in Seq(Ranked), NEW k \in 1 .. Len(r)
    PROVE  Cardinality(Ahead(r, k)) \in 0 .. Len(r) - 1
<1>1. IsFiniteSet(1 .. Len(r)) /\ Cardinality(1 .. Len(r)) = Len(r) /\ Len(r) \in Nat
  BY Indexes
<1>2. /\ IsFiniteSet((1 .. Len(r)) \ {k})
      /\ Cardinality((1 .. Len(r)) \ {k}) = Len(r) - 1
  <2> DEFINE D == 1 .. Len(r)
  <2>1. IsFiniteSet(D) /\ Cardinality(D) = Len(r) /\ k \in D
    BY <1>1
  <2> HIDE DEF D
  <2>2. IsFiniteSet(D \ {k}) /\ Cardinality(D \ {k}) = Cardinality(D) - 1
    BY <2>1, FS_RemoveElement
  <2> QED BY <2>1, <2>2 DEF D
<1>3. Ahead(r, k) \in SUBSET ((1 .. Len(r)) \ {k})
  BY ScoreTypes DEF Ahead
<1> QED BY <1>1, <1>2, <1>3, FS_Subset, FS_CardinalityType

LEMMA RanksDiffer ==
    ASSUME NEW r \in Seq(Ranked), NEW k \in 1 .. Len(r), NEW m \in 1 .. Len(r), k # m
    PROVE  Cardinality(Ahead(r, k)) # Cardinality(Ahead(r, m))
<1>1. k \in Ahead(r, m) \/ m \in Ahead(r, k)
  BY ScoreTypes DEF Ahead
<1>2. Cardinality(Ahead(r, k)) \in Int /\ Cardinality(Ahead(r, m)) \in Int
  BY RankRange
<1> QED BY <1>1, <1>2, AheadGrows

LEMMA RanksTaken ==
    ASSUME NEW r \in Seq(Ranked), NEW n \in 1 .. Len(r)
    PROVE  \E k \in 1 .. Len(r) : Cardinality(Ahead(r, k)) = n - 1
<1> DEFINE D == 1 .. Len(r)
           P == 0 .. Len(r) - 1
           rank == [k \in D |-> Cardinality(Ahead(r, k))]
<1>1. rank \in [D -> P]
  BY RankRange
<1>2. \A k, m \in D : rank[k] = rank[m] => k = m
  BY RanksDiffer
<1>3. rank \in Injection(D, P)
  BY <1>1, <1>2 DEF Injection, IsInjective
<1>4. IsFiniteSet(P) /\ Cardinality(D) = Cardinality(P)
  BY FS_Interval
<1>5. rank \in Surjection(D, P)
  BY <1>3, <1>4, FS_Injection
<1>6. n - 1 \in P
  OBVIOUS
<1>7. \E k \in D : rank[k] = n - 1
  BY <1>5, <1>6 DEF Surjection
<1> QED BY <1>7

LEMMA SortFacts ==
    ASSUME NEW r \in Seq(Ranked)
    PROVE  /\ Sorted(r) \in Seq(Ranked) /\ Len(Sorted(r)) = Len(r)
           /\ \A n \in 1 .. Len(r) : \E k \in 1 .. Len(r) : Sorted(r)[n] = r[k]
           /\ \A k \in 1 .. Len(r) : \E n \in 1 .. Len(r) : Sorted(r)[n] = r[k]
           /\ \A m, n \in 1 .. Len(r) : m < n => Sorted(r)[m].score >= Sorted(r)[n].score
<1> DEFINE D == 1 .. Len(r)
           at(n) == CHOOSE k \in DOMAIN r : Cardinality(Ahead(r, k)) = n - 1
<1>1. \A n \in D : at(n) \in D /\ Cardinality(Ahead(r, at(n))) = n - 1
  <2> SUFFICES ASSUME NEW n \in D PROVE at(n) \in D /\ Cardinality(Ahead(r, at(n))) = n - 1
    OBVIOUS
  <2>1. \E k \in DOMAIN r : Cardinality(Ahead(r, k)) = n - 1
    BY RanksTaken, Indexes
  <2>2. at(n) \in DOMAIN r /\ Cardinality(Ahead(r, at(n))) = n - 1
    BY <2>1, Zenon
  <2> QED BY <2>2, Indexes
<1>2. Sorted(r) = [n \in DOMAIN r |-> r[at(n)]] /\ DOMAIN r = D /\ Len(r) \in Nat
  BY Indexes DEF Sorted
<1> HIDE DEF at
<1>3. Sorted(r) \in Seq(Ranked) /\ Len(Sorted(r)) = Len(r)
  BY <1>1, <1>2
<1>4. \A n \in D : Sorted(r)[n] = r[at(n)]
  BY <1>2
<1>5. ASSUME NEW k \in D PROVE \E n \in D : Sorted(r)[n] = r[k]
  <2> DEFINE n == Cardinality(Ahead(r, k)) + 1
  <2>1. n \in D /\ Cardinality(Ahead(r, k)) = n - 1
    BY RankRange
  <2> HIDE DEF n
  <2>2. at(n) = k
    BY <1>1, <2>1, RanksDiffer
  <2> QED BY <1>4, <2>1, <2>2
<1>6. ASSUME NEW m \in D, NEW n \in D, m < n PROVE Sorted(r)[m].score >= Sorted(r)[n].score
  <2> DEFINE a == at(m)  b == at(n)
  <2>1. a \in D /\ b \in D /\ Cardinality(Ahead(r, a)) = m - 1 /\ Cardinality(Ahead(r, b)) = n - 1
    BY <1>1
  <2>2. b \notin Ahead(r, a)
    BY <1>6, <2>1, AheadGrows
  <2>3. r[a].score \in Int /\ r[b].score \in Int
    BY <2>1, ScoreTypes
  <2>4. ~(r[b].score > r[a].score)
    BY <2>1, <2>2 DEF Ahead
  <2> QED BY <1>4, <2>3, <2>4
<1> QED BY <1>1, <1>3, <1>4, <1>5, <1>6

ScoresOf(r) == {e.score : e \in Range(r)}

\* The best and the worst score of a ranking.
LEMMA Extremes ==
    ASSUME NEW r \in Seq(Ranked), Len(r) > 0
    PROVE  /\ Max(ScoresOf(r)) \in Int /\ Min(ScoresOf(r)) \in Int
           /\ \E k \in 1 .. Len(r) : r[k].score = Max(ScoresOf(r))
           /\ \E k \in 1 .. Len(r) : r[k].score = Min(ScoresOf(r))
           /\ \A k \in 1 .. Len(r) : /\ r[k].score <= Max(ScoresOf(r))
                                     /\ r[k].score >= Min(ScoresOf(r))
<1> DEFINE D == 1 .. Len(r)  S == ScoresOf(r)
<1>1. S = {r[k].score : k \in D} /\ \A k \in D : r[k].score \in Int
  BY ScoreTypes DEF ScoresOf, Range
<1>2. 1 \in D /\ Len(r) \in D
  OBVIOUS
<1>3. \A k \in D : Sorted(r)[1].score >= r[k].score /\ r[k].score >= Sorted(r)[Len(r)].score
  <2> SUFFICES ASSUME NEW k \in D
               PROVE  Sorted(r)[1].score >= r[k].score
                      /\ r[k].score >= Sorted(r)[Len(r)].score
    OBVIOUS
  <2>1. PICK n \in D : Sorted(r)[n] = r[k]
    BY SortFacts
  <2>2. \A i \in D : Sorted(r)[i].score \in Int
    BY SortFacts, ScoreTypes
  <2>3. n = 1 \/ 1 < n
    OBVIOUS
  <2>4. n = Len(r) \/ n < Len(r)
    OBVIOUS
  <2> DEFINE s(i) == Sorted(r)[i].score
  <2>a. \A i, k2 \in D : i < k2 => s(i) >= s(k2)
    BY SortFacts
  <2>b. s(1) \in Int /\ s(n) \in Int /\ s(Len(r)) \in Int
    BY <1>2, <2>2
  <2> HIDE DEF s
  <2>5. s(1) >= s(n)
    BY <1>2, <2>a, <2>b, <2>3
  <2>6. s(n) >= s(Len(r))
    BY <1>2, <2>a, <2>b, <2>4
  <2> QED BY <2>1, <2>5, <2>6 DEF s
<1>4. PICK a \in D, b \in D : Sorted(r)[1] = r[a] /\ Sorted(r)[Len(r)] = r[b]
  BY <1>2, SortFacts
<1>5. /\ r[a].score \in S /\ \A x \in S : r[a].score >= x
      /\ r[b].score \in S /\ \A x \in S : r[b].score <= x
  BY <1>1, <1>3, <1>4
<1>6. Max(S) \in S /\ \A x \in S : Max(S) >= x
  BY <1>5, Zenon DEF Max
<1>7. Min(S) \in S /\ \A x \in S : Min(S) <= x
  BY <1>5, Zenon DEF Min
<1> QED BY <1>1, <1>6, <1>7

\* The scale of the results, in thousandths.
Permille == 0 .. 1000
Whole == 1000

LEMMA Thousandths ==
    /\ Whole \in Permille /\ Whole \in Int
    /\ \A x \in Permille : x \in Int /\ x <= Whole
BY DEF Permille, Whole

LEMMA Proportion ==
    ASSUME NEW d \in Nat \ {0}, NEW x \in 0 .. d
    PROVE  (1000 * x) \div d \in Permille /\ (x = d => (1000 * x) \div d = Whole)
<1> DEFINE n == 1000 * x
           q == n \div d
<1>1. n \in Nat /\ n <= 1000 * d
  OBVIOUS
<1>2. q \in Nat /\ d * q <= n /\ n < d * q + d
  BY <1>1, Remainder
<1>3. q <= 1000
  <2>1. d * q <= 1000 * d
    BY <1>1, <1>2
  <2>2. ASSUME q >= 1001 PROVE FALSE
    <3>1. d * q >= d * 1001
      BY <1>2, <2>2
    <3> QED BY <1>2, <2>1, <3>1
  <2> QED BY <1>2, <2>2
<1>4. ASSUME x = d PROVE q = 1000
  <2>1. d * 1000 <= n /\ n < d * 1000 + d
    BY <1>4
  <2> QED BY <1>1, <2>1, Quotient
<1> QED BY <1>2, <1>3, <1>4 DEF Permille, Whole

\* What becomes of a score between the worst and the best: all fit, and the best is the
\* whole, unless all are the same and none good.
Scaled(low, high, s) ==
    IF high > low THEN (1000 * (s - low)) \div (high - low) ELSE IF high > 0 THEN 1000 ELSE s

LEMMA Scaling ==
    ASSUME NEW low \in Int, NEW high \in Int, NEW s \in low .. high
    PROVE  /\ Scaled(low, high, s) \in Int
           /\ high > low \/ high > 0 =>
                 /\ Scaled(low, high, s) \in Permille
                 /\ s = high => Scaled(low, high, s) = Whole
           /\ ~(high > low \/ high > 0) => Scaled(low, high, s) = high /\ s = high /\ s <= 0
<1> DEFINE t == Scaled(low, high, s)
<1>1. CASE high > low
  <2> DEFINE d == high - low  x == s - low
  <2>1. d \in Nat \ {0} /\ x \in 0 .. d /\ (s = high => x = d)
    BY <1>1
  <2>2. t = (1000 * x) \div d
    BY <1>1 DEF Scaled
  <2> HIDE DEF d, x
  <2>3. t \in Permille /\ (x = d => t = Whole)
    BY <2>1, <2>2, Proportion
  <2> HIDE DEF t
  <2> QED BY <1>1, <2>1, <2>3, Thousandths DEF t
<1>2. CASE ~(high > low)
  <2>1. s = high
    BY <1>2
  <2>2. t = IF high > 0 THEN Whole ELSE s
    BY <1>2 DEF Whole, Scaled
  <2> HIDE DEF t
  <2> QED BY <1>2, <2>1, <2>2, Thousandths DEF t
<1> QED BY <1>1, <1>2

\* The scale keeps the best entry the best, and fits, unless all are the same and none good.
LEMMA NormalFacts ==
    ASSUME NEW r \in Seq(Ranked), Len(r) >= 2
    PROVE  /\ Normal(r) \in Seq(Ranked) /\ Len(Normal(r)) = Len(r)
           /\ \A k \in 1 .. Len(r) : Normal(r)[k].candidate = r[k].candidate
           /\ \A b \in 1 .. Len(r) : r[b].score = Max(ScoresOf(r)) =>
                 \A k \in 1 .. Len(r) : Normal(r)[k].score <= Normal(r)[b].score
           /\ \/ \A k \in 1 .. Len(r) : Normal(r)[k].score \in Permille
              \/ \A k \in 1 .. Len(r) : r[k].score = Max(ScoresOf(r)) /\ r[k].score <= 0
<1> DEFINE D == 1 .. Len(r)
           low == Min(ScoresOf(r))
           high == Max(ScoresOf(r))
           Scale(s) == Scaled(low, high, s)
           old(k) == r[k].score
           new(k) == Normal(r)[k].score
<1>1. Normal(r) = [k \in DOMAIN r |-> [r[k] EXCEPT !.score = Scale(r[k].score)]]
      /\ DOMAIN r = D
  <2>1. ~(Len(r) < 2)
    BY Indexes
  <2>2. Normal(r) = [k \in DOMAIN r |-> [r[k] EXCEPT !.score = Scale(r[k].score)]]
    BY <2>1 DEF Normal, ScoresOf, Scaled
  <2> QED BY <2>2, Indexes
<1>2. low \in Int /\ high \in Int /\ \A k \in D : old(k) \in low .. high
  <2>1. Len(r) > 0
    OBVIOUS
  <2>2. \A k \in D : old(k) \in Int
    BY ScoreTypes
  <2>3. low \in Int /\ high \in Int /\ \A k \in D : old(k) <= high /\ old(k) >= low
    BY <2>1, Extremes
  <2> HIDE DEF low, high, old, D
  <2> QED BY <2>2, <2>3
<1> HIDE DEF low, high
<1>3. ASSUME NEW k \in D
      PROVE  /\ Scale(old(k)) \in Int
             /\ high > low \/ high > 0 =>
                   Scale(old(k)) \in Permille /\ (old(k) = high => Scale(old(k)) = Whole)
             /\ ~(high > low \/ high > 0) =>
                   Scale(old(k)) = high /\ old(k) = high /\ old(k) <= 0
  <2> DEFINE s == old(k)
  <2>1. s \in low .. high
    BY <1>2
  <2> HIDE DEF old, s
  <2>2. /\ Scale(s) \in Int
        /\ high > low \/ high > 0 => Scale(s) \in Permille /\ (s = high => Scale(s) = Whole)
        /\ ~(high > low \/ high > 0) => Scale(s) = high /\ s = high /\ s <= 0
    BY <1>2, <2>1, Scaling
  <2> QED BY <2>2 DEF s
<1> HIDE DEF Scale
<1>4. ASSUME NEW k \in D
      PROVE  /\ Normal(r)[k] \in Ranked /\ new(k) = Scale(old(k))
             /\ Normal(r)[k].candidate = r[k].candidate
  <2>1. Normal(r)[k] = [r[k] EXCEPT !.score = Scale(r[k].score)]
    BY <1>1
  <2>2. r[k] \in [candidate : 1 .. MaxInputs, score : Int]
    BY ScoreTypes DEF Ranked
  <2> DEFINE s == Scale(r[k].score)
  <2>3. s \in Int /\ Normal(r)[k] = [r[k] EXCEPT !.score = s]
    BY <1>3, <2>1
  <2> HIDE DEF s
  <2> QED BY <2>2, <2>3 DEF Ranked, s
<1>5. Normal(r) \in Seq(Ranked) /\ Len(Normal(r)) = Len(r)
  <2>1. Normal(r) \in [D -> Ranked]
    BY <1>1, <1>4
  <2> QED BY <2>1, Indexes
<1> HIDE DEF old, new, D
<1>6. CASE high > low \/ high > 0
  <2>1. \A k \in D : new(k) \in Permille /\ (old(k) = high => new(k) = Whole)
    BY <1>3, <1>4, <1>6
  <2>2. \A b, k \in D : old(b) = high => new(k) <= new(b)
    BY <2>1, Thousandths
  <2> QED BY <1>4, <1>5, <2>1, <2>2 DEF high, old, new, D
<1>7. CASE ~(high > low \/ high > 0)
  <2>1. \A k \in D : new(k) = high /\ old(k) = high /\ old(k) <= 0
    BY <1>3, <1>4, <1>7
  <2>2. \A b, k \in D : new(k) <= new(b)
    BY <1>2, <2>1
  <2> QED BY <1>4, <1>5, <2>1, <2>2 DEF high, old, new, D
<1> QED BY <1>6, <1>7

BestStays(A, S) ==
    \E r \in Range(S), s \in Range(A) :
        r.score = Max(ScoresOf(S)) /\ s.score = Max(ScoresOf(A)) /\ r.candidate = s.candidate

OnScale(A, S) ==
    \/ ScoresOf(S) \subseteq Permille
    \/ Len(A) = 1
    \/ ScoresOf(A) = {Max(ScoresOf(A))} /\ Max(ScoresOf(A)) <= 0

\* What a provider that is brought to scale leaves, and what the local model does.
Compared(A, S) == A # <<>> => BestStays(A, S) /\ OnScale(A, S)
Kept(A, S) == A # <<>> => BestStays(A, S) /\ Range(S) \subseteq Range(A)

\* An entry a of the results that is as good as the best entry b of the answer.
LEMMA BestFound ==
    ASSUME NEW A \in Seq(Ranked), NEW S \in Seq(Ranked),
           NEW a \in 1 .. Len(S), NEW b \in 1 .. Len(A), S[a].candidate = A[b].candidate,
           \A k \in 1 .. Len(S) : S[k].score <= S[a].score,
           \A k \in 1 .. Len(A) : A[k].score <= A[b].score
    PROVE  BestStays(A, S) /\ Max(ScoresOf(A)) = A[b].score
<1>1. Len(A) > 0 /\ Len(S) > 0
  BY Indexes
<1>2. /\ \A k \in 1 .. Len(A) : A[k] \in Range(A)
      /\ \A k \in 1 .. Len(S) : S[k] \in Range(S)
  BY Indexes DEF Range
<1>3. Max(ScoresOf(A)) = A[b].score
  <2>1. \A k \in 1 .. Len(A) : A[k].score \in Int
    BY ScoreTypes
  <2>2. PICK k \in 1 .. Len(A) : A[k].score = Max(ScoresOf(A))
    BY <1>1, Extremes
  <2>3. A[b].score <= Max(ScoresOf(A))
    BY <1>1, Extremes
  <2> QED BY <2>1, <2>2, <2>3
<1>4. Max(ScoresOf(S)) = S[a].score
  <2>1. \A k \in 1 .. Len(S) : S[k].score \in Int
    BY ScoreTypes
  <2>2. PICK k \in 1 .. Len(S) : S[k].score = Max(ScoresOf(S))
    BY <1>1, Extremes
  <2>3. S[a].score <= Max(ScoresOf(S))
    BY <1>1, Extremes
  <2> QED BY <2>1, <2>2, <2>3
<1> QED BY <1>2, <1>3, <1>4 DEF BestStays

LEMMA Comparable ==
    ASSUME NEW A \in Seq(Ranked), NEW S \in Seq(Ranked),
           NEW a \in 1 .. Len(S), NEW b \in 1 .. Len(A), S[a].candidate = A[b].candidate,
           \A k \in 1 .. Len(S) : S[k].score <= S[a].score,
           \A k \in 1 .. Len(A) : A[k].score <= A[b].score,
           \/ \A k \in 1 .. Len(S) : S[k].score \in Permille
           \/ Len(A) = 1
           \/ \A k \in 1 .. Len(A) : A[k].score = A[b].score /\ A[k].score <= 0
    PROVE  Compared(A, S)
<1>1. BestStays(A, S) /\ Max(ScoresOf(A)) = A[b].score
  BY BestFound
<1>2. /\ ScoresOf(A) = {A[k].score : k \in 1 .. Len(A)}
      /\ ScoresOf(S) = {S[k].score : k \in 1 .. Len(S)}
  BY Indexes DEF ScoresOf, Range
<1>3. OnScale(A, S)
  <2>1. CASE \A k \in 1 .. Len(S) : S[k].score \in Permille
    <3>1. ASSUME NEW x \in ScoresOf(S) PROVE x \in Permille
      <4>1. PICK k \in 1 .. Len(S) : x = S[k].score
        BY <1>2
      <4> QED BY <2>1, <4>1
    <3> QED BY <3>1 DEF OnScale
  <2>2. CASE \A k \in 1 .. Len(A) : A[k].score = A[b].score /\ A[k].score <= 0
    <3>1. ScoresOf(A) = {A[b].score}
      BY <1>2, <2>2
    <3>2. A[b].score <= 0
      BY <2>2
    <3> QED BY <1>1, <3>1, <3>2, Zenon DEF OnScale
  <2>3. CASE Len(A) = 1
    BY <2>3 DEF OnScale
  <2> QED BY <2>1, <2>2, <2>3
<1> QED BY <1>1, <1>3 DEF Compared

\* The cut keeps the first entry, and adds none.
LEMMA CutFacts ==
    ASSUME NEW r \in Seq(Ranked), Len(r) > 0
    PROVE  /\ Cut(r) \in Seq(Ranked) /\ Len(Cut(r)) \in 1 .. Len(r)
           /\ \A k \in 1 .. Len(Cut(r)) : Cut(r)[k] = r[k]
<1> DEFINE m == Least(RankTop, Len(r))
<1>1. m \in 1 .. Len(r) /\ Len(r) \in Nat
  BY AnswersAssumption DEF Least
<1> HIDE DEF m
<1>2. /\ SubSeq(r, 1, m) \in Seq(Ranked) /\ Len(SubSeq(r, 1, m)) = m
      /\ \A k \in 1 .. m : SubSeq(r, 1, m)[k] = r[k]
  BY <1>1
<1> QED BY <1>1, <1>2 DEF Cut, m

-----------------------------------------------------------------------------
\* The answers that a provider gives, and what they are made of.
LEMMA ScoredFacts ==
    ASSUME job.inputs \in 1 .. MaxInputs,
           NEW n \in Nat, NEW reply, DOMAIN reply = 1 .. n,
           \A k \in 1 .. n : reply[k].index \in Int /\ reply[k].score \in Int
    PROVE  /\ Scored(reply) \in Seq(Ranked) /\ Len(Scored(reply)) = n
           /\ \A k \in 1 .. n : Scored(reply)[k].score = reply[k].score
<1>1. \A i \in Int : Candidate(i) \in 1 .. MaxInputs
  <2>1. job.inputs \in Nat \ {0} /\ MaxInputs \in Nat /\ job.inputs <= MaxInputs
    BY AnswersAssumption
  <2> SUFFICES ASSUME NEW i \in Int PROVE Candidate(i) \in 1 .. MaxInputs
    OBVIOUS
  <2> DEFINE r == i % job.inputs
  <2>2. r \in 0 .. job.inputs - 1
    BY <2>1, SMTT(30)
  <2>3. Candidate(i) = 1 + r
    BY DEF Candidate
  <2> HIDE DEF r
  <2> QED BY <2>1, <2>2, <2>3
<1>2. Scored(reply) = [k \in 1 .. n |->
          [candidate |-> Candidate(reply[k].index), score |-> reply[k].score]]
  BY DEF Scored
<1>3. \A k \in 1 .. n : [candidate |-> Candidate(reply[k].index), score |-> reply[k].score]
                           \in Ranked
  BY <1>1 DEF Ranked
<1>4. Scored(reply) \in Seq(Ranked) /\ Len(Scored(reply)) = n
  BY <1>2, <1>3
<1>5. \A k \in 1 .. n : Scored(reply)[k].score = reply[k].score
  BY <1>2
<1> QED BY <1>4, <1>5

LEMMA ListFacts ==
    ASSUME NEW indexes \in SUBSET Int, NEW length \in Nat,
           NEW reply \in ScoreLists(indexes, length)
    PROVE  \E n \in Nat : /\ DOMAIN reply = 1 .. n
                          /\ \A k \in 1 .. n : reply[k].index \in Int /\ reply[k].score \in Int
<1>1. PICK n \in 0 .. length : reply \in [1 .. n -> [index : indexes, score : Scores]]
  BY DEF ScoreLists
<1>2. \A k \in 1 .. n : reply[k] \in [index : indexes, score : Scores]
  BY <1>1
<1>3. \A k \in 1 .. n : reply[k].index \in Int /\ reply[k].score \in Int
  BY <1>2, AnswersAssumption
<1> QED BY <1>1, <1>3

LEMMA Typing ==
    ASSUME NEW r \in Seq(Ranked)
    PROVE  Sorted(r) \in Seq(Ranked) /\ Normal(r) \in Seq(Ranked) /\ Cut(r) \in Seq(Ranked)
<1>1. Sorted(r) \in Seq(Ranked)
  BY SortFacts
<1>2. Normal(r) \in Seq(Ranked)
  <2>1. CASE Len(r) >= 2
    BY <2>1, NormalFacts
  <2>2. CASE Len(r) < 2
    BY <2>2 DEF Normal
  <2> QED BY <2>1, <2>2, Indexes
<1>3. Cut(r) \in Seq(Ranked)
  <2>1. CASE Len(r) > 0
    BY <2>1, CutFacts
  <2>2. CASE Len(r) = 0
    <3>1. Least(RankTop, Len(r)) = 0
      BY <2>2, AnswersAssumption DEF Least
    <3> QED BY <3>1 DEF Cut
  <2> QED BY <2>1, <2>2, Indexes
<1> QED BY <1>1, <1>2, <1>3

LEMMA FallbackType == ASSUME job.inputs \in 1 .. MaxInputs PROVE Fallback \in Seq(Ranked)
<1> DEFINE n == job.inputs
           r == [k \in 1 .. n |-> [candidate |-> k, score |-> 33 \div k]]
<1>1. n \in Nat /\ \A k \in 1 .. n : k \in 1 .. MaxInputs /\ 33 \div k \in Int
  BY AnswersAssumption
<1> HIDE DEF n
<1>2. r \in Seq(Ranked)
  <2>1. \A k \in 1 .. n : [candidate |-> k, score |-> 33 \div k] \in Ranked
    BY <1>1 DEF Ranked
  <2> QED BY <1>1, <2>1
<1> HIDE DEF r
<1>3. Cut(r) \in Seq(Ranked)
  BY <1>2, Typing
<1> QED BY <1>3 DEF Fallback, r, n

LEMMA Lengths ==
    ASSUME NEW r \in Seq(Ranked)
    PROVE  /\ Len(r) = 0 \/ Len(r) = 1 \/ Len(r) >= 2
           /\ Len(r) = 0 \/ Len(r) > 0
           /\ Len(r) = 1 \/ Len(r) >= 2 => Len(r) > 0
<1> DEFINE n == Len(r)
<1>1. n \in Nat
  OBVIOUS
<1> HIDE DEF n
<1>2. (n = 0 \/ n = 1 \/ n >= 2) /\ (n = 0 \/ n > 0) /\ (n = 1 \/ n >= 2 => n > 0)
  BY <1>1
<1> QED BY <1>2 DEF n

LEMMA NoAnswer == ASSUME NEW A \in Seq(Ranked), NEW S, Len(A) = 0 PROVE Compared(A, S)
<1>1. A = <<>>
  OBVIOUS
<1> QED BY <1>1 DEF Compared

\* A provider that is taken at its word, but for the scale.
LEMMA HttpRanking == ASSUME NEW A \in Seq(Ranked) PROVE Compared(A, Normal(A))
<1>1. CASE Len(A) = 0
  BY <1>1, NoAnswer
<1>2. CASE Len(A) = 1
  <2>1. Normal(A) = A
    BY <1>2 DEF Normal
  <2>2. 1 \in 1 .. Len(A) /\ \A k \in 1 .. Len(A) : A[k].score <= A[1].score
    <3>1. A[1].score \in Int /\ \A k \in 1 .. Len(A) : k = 1
      BY <1>2, ScoreTypes
    <3> QED BY <1>2, <3>1
  <2> QED BY <1>2, <2>1, <2>2, Comparable
<1>3. CASE Len(A) >= 2
  <2>1. PICK b \in 1 .. Len(A) : A[b].score = Max(ScoresOf(A))
    BY <1>3, Extremes
  <2>2. \A k \in 1 .. Len(A) : A[k].score <= A[b].score
    BY <1>3, <2>1, Extremes
  <2> DEFINE N == Normal(A)
  <2>3. /\ N \in Seq(Ranked) /\ Len(N) = Len(A)
        /\ N[b].candidate = A[b].candidate
        /\ \A k \in 1 .. Len(A) : N[k].score <= N[b].score
        /\ \/ \A k \in 1 .. Len(A) : N[k].score \in Permille
           \/ \A k \in 1 .. Len(A) : A[k].score = A[b].score /\ A[k].score <= 0
    BY <1>3, <2>1, NormalFacts
  <2> HIDE DEF N
  <2>4. Compared(A, N)
    BY <2>2, <2>3, Comparable
  <2> QED BY <2>4 DEF N
<1> QED BY <1>1, <1>2, <1>3, Lengths, Zenon

\* The first of the sorted entries is the best.
LEMMA FirstIsBest ==
    ASSUME NEW A \in Seq(Ranked), Len(A) > 0
    PROVE  /\ Sorted(A) \in Seq(Ranked) /\ Len(Sorted(A)) = Len(A) /\ 1 \in 1 .. Len(A)
           /\ \A k \in 1 .. Len(A) : \E n \in 1 .. Len(A) : Sorted(A)[n] = A[k]
           /\ \A k \in 1 .. Len(A) : \E n \in 1 .. Len(A) : Sorted(A)[k] = A[n]
           /\ \A k \in 1 .. Len(A) : Sorted(A)[k].score <= Sorted(A)[1].score
           /\ \A k \in 1 .. Len(A) : A[k].score <= Sorted(A)[1].score
<1> DEFINE B == Sorted(A)
<1>0. /\ B \in Seq(Ranked) /\ Len(B) = Len(A)
      /\ \A k \in 1 .. Len(A) : \E n \in 1 .. Len(A) : B[n] = A[k]
      /\ \A k \in 1 .. Len(A) : \E n \in 1 .. Len(A) : B[k] = A[n]
      /\ \A m, n \in 1 .. Len(A) : m < n => B[m].score >= B[n].score
  BY SortFacts, Zenon
<1> HIDE DEF B
<1>1. 1 \in 1 .. Len(A)
  BY <1>0
<1>2. ASSUME NEW k \in 1 .. Len(A) PROVE B[k].score <= B[1].score
  <2>1. B[k].score \in Int /\ B[1].score \in Int /\ (1 < k => B[1].score >= B[k].score)
    BY <1>0, <1>1, ScoreTypes
  <2>2. k = 1 \/ 1 < k
    OBVIOUS
  <2> QED BY <2>1, <2>2
<1>3. \A k \in 1 .. Len(A) : A[k].score <= B[1].score
  BY <1>0, <1>1, <1>2
<1> QED BY <1>0, <1>1, <1>2, <1>3 DEF B

LEMMA NormalFirst ==
    ASSUME NEW B \in Seq(Ranked), Len(B) >= 2,
           \A k \in 1 .. Len(B) : B[k].score <= B[1].score
    PROVE  /\ Normal(B) \in Seq(Ranked) /\ Len(Normal(B)) = Len(B)
           /\ Normal(B)[1].candidate = B[1].candidate
           /\ \A k \in 1 .. Len(B) : Normal(B)[k].score <= Normal(B)[1].score
           /\ \/ \A k \in 1 .. Len(B) : Normal(B)[k].score \in Permille
              \/ \A k \in 1 .. Len(B) : B[k].score = B[1].score /\ B[k].score <= 0
<1>1. Len(B) > 0 /\ 1 \in 1 .. Len(B)
  OBVIOUS
<1>2. B[1].score = Max(ScoresOf(B))
  <2>1. \A k \in 1 .. Len(B) : B[k].score \in Int
    BY ScoreTypes
  <2>2. PICK k \in 1 .. Len(B) : B[k].score = Max(ScoresOf(B))
    BY <1>1, Extremes
  <2>3. B[1].score <= Max(ScoresOf(B))
    BY <1>1, Extremes
  <2> QED BY <1>1, <2>1, <2>2, <2>3
<1>3. /\ Normal(B) \in Seq(Ranked) /\ Len(Normal(B)) = Len(B)
      /\ Normal(B)[1].candidate = B[1].candidate
      /\ \A k \in 1 .. Len(B) : Normal(B)[k].score <= Normal(B)[1].score
  BY <1>1, <1>2, NormalFacts, Zenon
<1>4. \/ \A k \in 1 .. Len(B) : Normal(B)[k].score \in Permille
      \/ \A k \in 1 .. Len(B) : B[k].score = B[1].score /\ B[k].score <= 0
  BY <1>2, NormalFacts, Zenon
<1> QED BY <1>3, <1>4, Zenon

\* What is sorted and cut has the best of the answer first.
LEMMA CutRanking ==
    ASSUME NEW A \in Seq(Ranked), Len(A) > 0, NEW N \in Seq(Ranked), Len(N) = Len(A),
           N[1].candidate = Sorted(A)[1].candidate,
           \A k \in 1 .. Len(A) : N[k].score <= N[1].score,
           \/ \A k \in 1 .. Len(A) : N[k].score \in Permille
           \/ Len(A) = 1
           \/ \A k \in 1 .. Len(A) : A[k].score = Sorted(A)[1].score /\ A[k].score <= 0
    PROVE  Compared(A, Cut(N))
<1>0. 1 \in 1 .. Len(A)
  BY FirstIsBest, Zenon
<1> DEFINE B == Sorted(A)  S == Cut(N)
<1>1. PICK b \in 1 .. Len(A) : B[1] = A[b]
  BY <1>0, FirstIsBest, Zenon
<1>2. \A k \in 1 .. Len(A) : A[k].score <= A[b].score
  BY <1>1, FirstIsBest
<1>3. /\ N[1].candidate = A[b].candidate
      /\ \/ \A k \in 1 .. Len(A) : N[k].score \in Permille
         \/ Len(A) = 1
         \/ \A k \in 1 .. Len(A) : A[k].score = A[b].score /\ A[k].score <= 0
  BY <1>1
<1> HIDE DEF B
<1>4. /\ S \in Seq(Ranked) /\ Len(S) \in 1 .. Len(A)
      /\ \A k \in 1 .. Len(S) : S[k] = N[k]
  BY CutFacts
<1> HIDE DEF S
<1>5. 1 \in 1 .. Len(S) /\ \A k \in 1 .. Len(S) : k \in 1 .. Len(A)
  BY <1>4
<1>6. /\ S[1].candidate = A[b].candidate
      /\ \A k \in 1 .. Len(S) : S[k].score <= S[1].score
  BY <1>3, <1>4, <1>5
<1>7. \/ \A k \in 1 .. Len(S) : S[k].score \in Permille
      \/ Len(A) = 1
      \/ \A k \in 1 .. Len(A) : A[k].score = A[b].score /\ A[k].score <= 0
  <2>1. CASE \A k \in 1 .. Len(A) : N[k].score \in Permille
    <3>1. ASSUME NEW k \in 1 .. Len(S) PROVE S[k].score \in Permille
      <4>1. S[k] = N[k] /\ k \in 1 .. Len(A)
        BY <1>4, <1>5, Zenon
      <4>2. N[k].score \in Permille
        BY <2>1, <4>1, Zenon
      <4> QED BY <4>1, <4>2, Zenon
    <3> QED BY <3>1
  <2> QED BY <1>3, <2>1, Zenon
<1>8. Compared(A, S)
  BY <1>2, <1>4, <1>5, <1>6, <1>7, Comparable
<1> QED BY <1>8 DEF S

LEMMA ModelRanking == ASSUME NEW A \in Seq(Ranked) PROVE Compared(A, Cut(Normal(Sorted(A))))
<1> DEFINE B == Sorted(A)  N == Normal(B)
<1>1. CASE Len(A) = 0
  BY <1>1, NoAnswer
<1>0. Len(A) > 0 =>
        /\ B \in Seq(Ranked) /\ Len(B) = Len(A) /\ 1 \in 1 .. Len(A)
        /\ \A k \in 1 .. Len(A) : \E n \in 1 .. Len(A) : B[n] = A[k]
        /\ \A k \in 1 .. Len(A) : B[k].score <= B[1].score
  BY FirstIsBest, Zenon
<1>2. CASE Len(A) = 1
  <2>1. Len(A) > 0 /\ Len(B) = 1
    BY <1>0, <1>2, Lengths, Zenon
  <2>2. N = B
    <3> HIDE DEF B
    <3> QED BY <2>1 DEF Normal
  <2>3. Compared(A, Cut(B))
    BY <1>0, <1>2, <2>1, CutRanking, Zenon
  <2> HIDE DEF N
  <2>4. Compared(A, Cut(N))
    BY <2>2, <2>3, Zenon
  <2> QED BY <2>4 DEF N
<1>3. CASE Len(A) >= 2
  <2>0. Len(A) > 0
    BY <1>3, Lengths, Zenon
  <2>1. /\ B \in Seq(Ranked) /\ Len(B) = Len(A)
        /\ \A k \in 1 .. Len(A) : \E n \in 1 .. Len(A) : B[n] = A[k]
        /\ \A k \in 1 .. Len(A) : B[k].score <= B[1].score
    BY <1>0, <2>0, Zenon
  <2> HIDE DEF B
  <2>2. Len(B) >= 2 /\ \A k \in 1 .. Len(B) : B[k].score <= B[1].score
    BY <1>3, <2>1
  <2>3. /\ N \in Seq(Ranked) /\ Len(N) = Len(B) /\ N[1].candidate = B[1].candidate
        /\ \A k \in 1 .. Len(B) : N[k].score <= N[1].score
        /\ \/ \A k \in 1 .. Len(B) : N[k].score \in Permille
           \/ \A k \in 1 .. Len(B) : B[k].score = B[1].score /\ B[k].score <= 0
    BY <2>1, <2>2, NormalFirst, Zenon
  <2> HIDE DEF N
  <2>4. \/ \A k \in 1 .. Len(A) : N[k].score \in Permille
        \/ \A k \in 1 .. Len(A) : A[k].score = B[1].score /\ A[k].score <= 0
    <3>1. CASE \A k \in 1 .. Len(B) : N[k].score \in Permille
      <4>1. \A k \in 1 .. Len(A) : N[k].score \in Permille
        BY <2>1, <3>1, Zenon
      <4> QED BY <4>1, Zenon
    <3>2. CASE \A k \in 1 .. Len(B) : B[k].score = B[1].score /\ B[k].score <= 0
      <4>1. ASSUME NEW k \in 1 .. Len(A) PROVE A[k].score = B[1].score /\ A[k].score <= 0
        BY <2>1, <3>2, Zenon
      <4> QED BY <4>1, Zenon
    <3> QED BY <2>3, <3>1, <3>2
  <2>5. Compared(A, Cut(N))
    <3>1. Len(N) = Len(A) /\ \A k \in 1 .. Len(A) : N[k].score <= N[1].score
      BY <2>1, <2>3, Zenon
    <3>2. N \in Seq(Ranked) /\ N[1].candidate = Sorted(A)[1].candidate
      BY <2>3 DEF B
    <3>3. \/ \A k \in 1 .. Len(A) : N[k].score \in Permille
          \/ Len(A) = 1
          \/ \A k \in 1 .. Len(A) : A[k].score = Sorted(A)[1].score /\ A[k].score <= 0
      BY <2>4, Zenon DEF B
    <3> QED BY <2>0, <3>1, <3>2, <3>3, CutRanking, Zenon
  <2>6. Compared(A, Cut(Normal(Sorted(A))))
    BY <2>5, Zenon DEF N, B
  <2> QED BY <2>6
<1> QED BY <1>1, <1>2, <1>3, Lengths, Zenon

\* What is sorted and cut, and nothing else.
LEMMA LocalRanking == ASSUME NEW A \in Seq(Ranked) PROVE Kept(A, Cut(Sorted(A)))
<1> DEFINE B == Sorted(A)  S == Cut(B)
<1>1. CASE Len(A) = 0
  <2>1. A = <<>>
    BY <1>1
  <2> QED BY <2>1 DEF Kept
<1>2. CASE Len(A) > 0
  <2>1. /\ B \in Seq(Ranked) /\ Len(B) = Len(A) /\ 1 \in 1 .. Len(A)
        /\ \A k \in 1 .. Len(A) : \E n \in 1 .. Len(A) : B[k] = A[n]
        /\ \A k \in 1 .. Len(A) : B[k].score <= B[1].score
        /\ \A k \in 1 .. Len(A) : A[k].score <= B[1].score
    BY <1>2, FirstIsBest, Zenon
  <2> HIDE DEF B
  <2>2. /\ S \in Seq(Ranked) /\ Len(S) \in 1 .. Len(A)
        /\ \A k \in 1 .. Len(S) : S[k] = B[k]
    BY <1>2, <2>1, CutFacts
  <2> HIDE DEF S
  <2>3. 1 \in 1 .. Len(S) /\ \A k \in 1 .. Len(S) : k \in 1 .. Len(A)
    BY <2>2
  <2>4. PICK b \in 1 .. Len(A) : B[1] = A[b]
    BY <2>1, Zenon
  <2>5. /\ S[1].candidate = A[b].candidate
        /\ \A k \in 1 .. Len(S) : S[k].score <= S[1].score
        /\ \A k \in 1 .. Len(A) : A[k].score <= A[b].score
    BY <2>1, <2>2, <2>3, <2>4
  <2>6. BestStays(A, S)
    BY <2>2, <2>3, <2>5, BestFound
  <2>7. Range(S) \subseteq Range(A)
    <3>1. ASSUME NEW k \in 1 .. Len(S) PROVE \E n \in 1 .. Len(A) : S[k] = A[n]
      BY <2>1, <2>2, <2>3, Zenon
    <3>2. Range(S) = {S[k] : k \in 1 .. Len(S)} /\ Range(A) = {A[k] : k \in 1 .. Len(A)}
      BY <2>2, Indexes DEF Range
    <3> QED BY <3>1, <3>2
  <2> QED BY <2>6, <2>7 DEF Kept, B, S
<1> QED BY <1>1, <1>2, Lengths, Zenon

-----------------------------------------------------------------------------
\* What a step of a ranking leaves: results that can be compared with the answer.
Answered == \E A \in Seq(Ranked), S \in Seq(Ranked) :
               /\ said' = A /\ slots' = S /\ job' = job
               /\ job.kind = "cross" => Kept(A, S)
               /\ job.kind # "cross" => Compared(A, S)

LEMMA FallbackAnswers == ASSUME BatchInv, RankedAs(Fallback, <<>>) PROVE Answered
<1>1. Fallback \in Seq(Ranked)
  BY JobFacts, FallbackType
<1>2. <<>> \in Seq(Ranked) /\ Compared(<<>>, Fallback) /\ Kept(<<>>, Fallback)
  BY DEF Compared, Kept
<1> QED BY <1>1, <1>2, Zenon DEF Answered, RankedAs

LEMMA HttpAnswers == ASSUME BatchInv, RankedByHttp PROVE Answered
<1>1. job.inputs \in 1 .. MaxInputs
  BY JobFacts
<1>2. PICK reply \in ScoreLists(-job.inputs - 1 .. job.inputs, MaxScored) :
        \/ RankedAs(Normal(Scored(reply)), Scored(reply))
        \/ RankedAs(Fallback, <<>>)
  BY DEF RankedByHttp
<1>3. Scored(reply) \in Seq(Ranked)
  <2> DEFINE indexes == -job.inputs - 1 .. job.inputs
  <2>1. indexes \in SUBSET Int /\ MaxScored \in Nat
    BY <1>1, AnswersAssumption
  <2>2. reply \in ScoreLists(indexes, MaxScored)
    OBVIOUS
  <2> HIDE DEF indexes
  <2> QED BY <1>1, <2>1, <2>2, ListFacts, ScoredFacts, Zenon
<1>4. Normal(Scored(reply)) \in Seq(Ranked) /\ Compared(Scored(reply), Normal(Scored(reply)))
  BY <1>3, Typing, HttpRanking, Zenon
<1>5. job.kind # "cross"
  BY DEF RankedByHttp, Asking
<1> QED BY <1>2, <1>3, <1>4, <1>5, FallbackAnswers, Zenon DEF Answered, RankedAs

LEMMA ModelAnswers == ASSUME BatchInv, RankedByModel PROVE Answered
<1>1. job.inputs \in 1 .. MaxInputs
  BY JobFacts
<1>2. CASE RankedAs(Fallback, <<>>)
  BY <1>2, FallbackAnswers
<1>3. CASE \E reply \in ScoreLists(0 .. Least(job.inputs, 2 * RankTop) - 1, MaxScored) :
             RankedAs(Cut(Normal(Sorted(Scored(reply)))), Scored(reply))
  <2> DEFINE indexes == 0 .. Least(job.inputs, 2 * RankTop) - 1
  <2>1. indexes \in SUBSET Int /\ MaxScored \in Nat
    BY <1>1, AnswersAssumption DEF Least
  <2>2. PICK reply \in ScoreLists(indexes, MaxScored) :
          RankedAs(Cut(Normal(Sorted(Scored(reply)))), Scored(reply))
    BY <1>3
  <2> HIDE DEF indexes
  <2>3. Scored(reply) \in Seq(Ranked)
    BY <1>1, <2>1, <2>2, ListFacts, ScoredFacts, Zenon
  <2> DEFINE A == Scored(reply)
             S == Cut(Normal(Sorted(A)))
  <2>4. S \in Seq(Ranked) /\ Compared(A, S)
    BY <2>3, Typing, ModelRanking, Zenon
  <2>5. said' = A /\ slots' = S /\ job' = job
    BY <2>2 DEF RankedAs
  <2>6. job.kind # "cross"
    BY DEF RankedByModel, Asking
  <2> QED BY <2>3, <2>4, <2>5, <2>6, Zenon DEF Answered
<1> QED BY <1>2, <1>3 DEF RankedByModel

LEMMA LocalAnswers == ASSUME BatchInv, RankedLocally PROVE Answered
<1>1. job.inputs \in 1 .. MaxInputs /\ job.inputs \in Nat
  BY JobFacts
<1>2. CASE RankedAs(Fallback, <<>>)
  BY <1>2, FallbackAnswers
<1>3. CASE ~RankedAs(Fallback, <<>>)
  <2>1. PICK scores \in [1 .. job.inputs -> Scores] :
          LET reply == [k \in DOMAIN scores |-> [index |-> k - 1, score |-> scores[k]]] IN
          RankedAs(Cut(Sorted(Scored(reply))), Scored(reply))
    BY <1>3, Zenon DEF RankedLocally
  <2> DEFINE reply == [k \in DOMAIN scores |-> [index |-> k - 1, score |-> scores[k]]]
             A == Scored(reply)
             S == Cut(Sorted(A))
             n == job.inputs
  <2>2. /\ DOMAIN reply = 1 .. n
        /\ \A k \in 1 .. n : reply[k].index \in Int /\ reply[k].score \in Int
    <3>1. DOMAIN scores = 1 .. n /\ \A k \in 1 .. n : scores[k] \in Int
      BY AnswersAssumption
    <3> HIDE DEF n
    <3>2. DOMAIN reply = 1 .. n
      BY <3>1
    <3>3. ASSUME NEW k \in 1 .. n
          PROVE  reply[k].index \in Int /\ reply[k].score \in Int
      <4>1. reply[k] = [index |-> k - 1, score |-> scores[k]] /\ k - 1 \in Int
        BY <3>1
      <4> HIDE DEF reply
      <4> QED BY <3>1, <4>1
    <3> QED BY <3>2, <3>3
  <2>3. said' = A /\ slots' = S /\ job' = job
    BY <2>1 DEF RankedAs
  <2> HIDE DEF reply
  <2>4. A \in Seq(Ranked)
    BY <1>1, <2>2, ScoredFacts
  <2> HIDE DEF A, n
  <2>5. Cut(Sorted(A)) \in Seq(Ranked) /\ Kept(A, Cut(Sorted(A)))
    BY <2>4, Typing, LocalRanking
  <2>6. job.kind = "cross"
    BY DEF RankedLocally, Asking
  <2> QED BY <2>3, <2>4, <2>5, <2>6, Zenon DEF Answered
<1> QED BY <1>2, <1>3

\* RankingIsComparable, of an answer and its ranking.
LEMMA Stated ==
    RankingIsComparable <=>
        /\ job.kind = "cross" => Kept(said, slots)
        /\ job.kind # "cross" => Compared(said, slots)
<1>1. CASE said = <<>>
  BY <1>1 DEF RankingIsComparable, Kept, Compared
<1>2. CASE said # <<>>
  <2>1. RankingIsComparable <=>
          /\ BestStays(said, slots)
          /\ job.kind = "cross" => Range(slots) \subseteq Range(said)
          /\ job.kind = "cross" \/ OnScale(said, slots)
    BY <1>2, Zenon DEF RankingIsComparable, BestStays, OnScale, ScoresOf, Permille
  <2> QED BY <1>2, <2>1, Zenon DEF Kept, Compared
<1> QED BY <1>1, <1>2

RankInv ==
    /\ said \in Seq(Ranked)
    /\ job.kind \in {"http", "llm", "cross"} => slots \in Seq(Ranked)
    /\ RankingIsComparable

LEMMA RankStart == AnswersInit => RankInv
<1> SUFFICES ASSUME AnswersInit PROVE RankInv
  OBVIOUS
<1>1. said = <<>> /\ (job.kind \in {"http", "llm", "cross"} => slots = <<>>)
  BY DEF AnswersInit
<1>2. said \in Seq(Ranked)
  BY <1>1
<1>3. job.kind \in {"http", "llm", "cross"} => slots \in Seq(Ranked)
  <2>1. <<>> \in Seq(Ranked)
    OBVIOUS
  <2> QED BY <1>1, <2>1, Zenon
<1>4. RankingIsComparable
  BY <1>1, Zenon DEF RankingIsComparable
<1> QED BY <1>2, <1>3, <1>4 DEF RankInv

LEMMA RankStep == ASSUME BatchInv, RankInv, [AnswersNext]_answersVars PROVE RankInv'
<1>0. RankingIsComparable' <=>
        /\ job'.kind = "cross" => Kept(said', slots')
        /\ job'.kind # "cross" => Compared(said', slots')
  <2>1. CASE said' = <<>>
    BY <2>1 DEF RankingIsComparable, Kept, Compared
  <2>2. CASE said' # <<>>
    <3>1. RankingIsComparable' <=>
            /\ BestStays(said', slots')
            /\ job'.kind = "cross" => Range(slots') \subseteq Range(said')
            /\ job'.kind = "cross" \/ OnScale(said', slots')
      BY <2>2, Zenon DEF RankingIsComparable, BestStays, OnScale, ScoresOf, Permille
    <3> QED BY <2>2, <3>1, Zenon DEF Kept, Compared
  <2> QED BY <2>1, <2>2
<1>1. CASE UNCHANGED answersVars
  <2>1. said' = said /\ slots' = slots /\ job' = job
    BY <1>1 DEF answersVars
  <2>2. RankingIsComparable
    BY DEF RankInv
  <2>3. RankingIsComparable'
    BY <1>0, <2>1, <2>2, Stated, Zenon
  <2> QED BY <2>1, <2>3, Zenon DEF RankInv
<1>2. CASE EmbedAnswered \/ EmbedFails \/ EmbedLocally \/ MatchAnswered
  <2>1. job' = job /\ said' = said /\ job.kind \in {"embed", "local", "match"} /\ said = <<>>
    BY <1>2 DEF EmbedAnswered, EmbedFails, EmbedLocally, MatchAnswered, Asking, BatchInv
  <2>2. RankingIsComparable'
    BY <2>1 DEF RankingIsComparable
  <2> QED BY <2>1, <2>2 DEF RankInv
<1>3. CASE RankedByHttp \/ RankedByModel \/ RankedLocally
  <2>1. Answered
    BY <1>3, HttpAnswers, ModelAnswers, LocalAnswers
  <2>2. PICK A \in Seq(Ranked), S \in Seq(Ranked) :
          /\ said' = A /\ slots' = S /\ job' = job
          /\ job.kind = "cross" => Kept(A, S)
          /\ job.kind # "cross" => Compared(A, S)
    BY <2>1, Zenon DEF Answered
  <2>4. RankingIsComparable'
    BY <1>0, <2>2, Zenon
  <2> QED BY <2>2, <2>4, Zenon DEF RankInv
<1> QED BY <1>1, <1>2, <1>3 DEF AnswersNext

\* Whatever the scores of a provider, and whatever it leaves out or says of none of the
\* candidates, its best candidate stays in and stays the best, on the scale of the results.
THEOREM RankingCorrect == AnswersSpec => []RankingIsComparable
<1>1. RankInv => RankingIsComparable
  BY DEF RankInv
<1> QED BY <1>1, BatchStart, BatchStep, RankStart, RankStep, PTL DEF AnswersSpec

\* Both together, for any numbers of inputs, batch sizes, tries, scores and answers.
THEOREM InPlaceCorrect == AnswersSpec => []AnswersInPlace
<1>1. InPlace /\ RankingIsComparable => AnswersInPlace
  BY DEF AnswersInPlace
<1> QED BY <1>1, PlacesCorrect, RankingCorrect, PTL

\* A call is at a batch of its inputs, and what it holds are results or a ranking.
THEOREM AnswersTypeCorrect == AnswersSpec => []AnswersTypeOK
<1>1. BatchInv /\ RankInv => AnswersTypeOK
  <2> SUFFICES ASSUME BatchInv, RankInv PROVE AnswersTypeOK
    OBVIOUS
  <2>1. job.kind \in {"embed", "local", "match"} => slots \in Seq(Placing)
    BY DEF BatchInv, Slotted
  <2>2. job.kind \notin {"embed", "local", "match"} => slots \in Seq(Ranked)
    BY JobFacts DEF RankInv, Kinds
  <2> QED BY <2>1, <2>2 DEF AnswersTypeOK, BatchInv, RankInv
<1> QED BY <1>1, BatchStart, BatchStep, RankStart, RankStep, PTL DEF AnswersSpec

-----------------------------------------------------------------------------
(* The fusion.  A cut keeps the ranks of what it leaves, so a product that *)
(* another beats scores less than it, or neither is in the lists.          *)

Ranking(s, S) ==
    /\ s \in Seq(S)
    /\ \A i, j \in 1 .. Len(s) : i # j => s[i] # s[j]

LEMMA RankingFacts ==
    ASSUME NEW S, IsFiniteSet(S), NEW s \in SetToSeqs(S)
    PROVE  Ranking(s, S) /\ Range(s) = S
<1> DEFINE n == Cardinality(S)
<1>1. n \in Nat /\ IsFiniteSet(1 .. n) /\ Cardinality(1 .. n) = n
  <2>1. n \in Nat
    BY FS_CardinalityType
  <2> QED BY <2>1, FS_Interval
<1>2. s \in [1 .. n -> S] /\ \A i, j \in 1 .. n : i # j => s[i] # s[j]
  BY DEF SetToSeqs
<1>3. s \in Injection(1 .. n, S)
  BY <1>2 DEF Injection, IsInjective
<1>4. s \in Surjection(1 .. n, S)
  BY <1>1, <1>3, FS_Injection
<1>5. Range(s) = S
  BY <1>2, <1>4 DEF Surjection, Range
<1>6. s \in Seq(S) /\ Len(s) = n
  <2> HIDE DEF n
  <2> QED BY <1>1, <1>2
<1> QED BY <1>2, <1>5, <1>6 DEF Ranking

LEMMA RankingOf ==
    ASSUME NEW S, IsFiniteSet(S), NEW s \in Rankings(S)
    PROVE  Ranking(s, S)
<1>1. PICK T \in SUBSET S : s \in SetToSeqs(T)
  BY DEF Rankings
<1>2. IsFiniteSet(T)
  BY FS_Subset
<1>3. Ranking(s, T)
  BY <1>1, <1>2, RankingFacts
<1> QED BY <1>3 DEF Ranking

LEMMA RankingMade ==
    ASSUME NEW S, NEW s, Ranking(s, S)
    PROVE  s \in Rankings(S)
<1> DEFINE n == Len(s)
           T == Range(s)
<1>1. n \in Nat /\ s \in [1 .. n -> S] /\ DOMAIN s = 1 .. n
  BY DEF Ranking
<1>2. T \in SUBSET S /\ s \in [1 .. n -> T]
  BY <1>1 DEF Range
<1>3. \A i, j \in 1 .. n : i # j => s[i] # s[j]
  BY DEF Ranking
<1>4. s \in Bijection(1 .. n, T)
  BY <1>1, <1>2, <1>3 DEF Bijection, Injection, IsInjective, Surjection, Range
<1>5. IsFiniteSet(1 .. n) /\ Cardinality(1 .. n) = n
  BY <1>1, FS_Interval
<1>6. Cardinality(T) = n
  <2>1. ExistsBijection(1 .. n, T)
    BY <1>4 DEF ExistsBijection
  <2> QED BY <1>5, <2>1, FS_Bijection
<1>7. s \in SetToSeqs(T)
  BY <1>2, <1>3, <1>6 DEF SetToSeqs
<1> QED BY <1>2, <1>7 DEF Rankings

LEMMA RankFacts ==
    ASSUME NEW S, NEW s, Ranking(s, S)
    PROVE  /\ \A i \in 1 .. Len(s) : s[i] \in Range(s) /\ RankIn(s, s[i]) = i
           /\ \A p \in Range(s) : RankIn(s, p) \in 1 .. Len(s) /\ s[RankIn(s, p)] = p
<1>1. DOMAIN s = 1 .. Len(s)
  BY DEF Ranking
<1>2. ASSUME NEW i \in 1 .. Len(s) PROVE s[i] \in Range(s) /\ RankIn(s, s[i]) = i
  <2>1. s[i] \in Range(s)
    BY <1>1 DEF Range
  <2>2. \A r \in DOMAIN s : s[r] = s[i] <=> r = i
    BY <1>1 DEF Ranking
  <2>3. RankIn(s, s[i]) \in DOMAIN s /\ s[RankIn(s, s[i])] = s[i]
    BY <1>1 DEF RankIn
  <2> QED BY <2>1, <2>2, <2>3
<1>3. ASSUME NEW p \in Range(s) PROVE RankIn(s, p) \in 1 .. Len(s) /\ s[RankIn(s, p)] = p
  <2>1. \E r \in DOMAIN s : s[r] = p
    BY DEF Range
  <2>2. RankIn(s, p) \in DOMAIN s /\ s[RankIn(s, p)] = p
    BY <2>1 DEF RankIn
  <2> QED BY <1>1, <2>2
<1> QED BY <1>2, <1>3

LEMMA TakeFacts ==
    ASSUME NEW S, NEW s, Ranking(s, S), NEW n \in Nat
    PROVE  /\ Ranking(Take(s, n), S)
           /\ Len(Take(s, n)) = IF n < Len(s) THEN n ELSE Len(s)
           /\ \A i \in 1 .. Len(Take(s, n)) : Take(s, n)[i] = s[i]
<1> DEFINE m == IF n < Len(s) THEN n ELSE Len(s)
<1>1. m \in Nat /\ m <= Len(s) /\ Len(s) \in Nat
  BY DEF Ranking
<1>2. Take(s, n) = [i \in 1 .. m |-> s[i]]
  <2>1. Take(s, n) = SubSeq(s, 1, m)
    BY DEF Take
  <2> HIDE DEF m
  <2> QED BY <1>1, <2>1 DEF Ranking
<1> HIDE DEF m
<1>3. Take(s, n) \in Seq(S) /\ Len(Take(s, n)) = m
  BY <1>1, <1>2 DEF Ranking
<1>4. \A i \in 1 .. m : Take(s, n)[i] = s[i] /\ i \in 1 .. Len(s)
  BY <1>1, <1>2
<1>5. Ranking(Take(s, n), S)
  BY <1>3, <1>4 DEF Ranking
<1> QED BY <1>3, <1>4, <1>5 DEF m

LEMMA TakeAll == ASSUME NEW S, NEW s, Ranking(s, S) PROVE Take(s, Len(s)) = s
BY DEF Ranking, Take

\* What a cut leaves of a ranking keeps its rank.
LEMMA CutRanks ==
    ASSUME NEW S, NEW s, Ranking(s, S), NEW n \in Nat, NEW p
    PROVE  p \in Range(Take(s, n)) <=> p \in Range(s) /\ RankIn(s, p) <= n
<1> DEFINE t == Take(s, n)
<1>1. /\ Ranking(t, S) /\ Len(t) = IF n < Len(s) THEN n ELSE Len(s)
      /\ \A i \in 1 .. Len(t) : t[i] = s[i]
  BY TakeFacts
<1>2. Len(s) \in Nat
  BY DEF Ranking
<1> HIDE DEF t
<1>3. ASSUME p \in Range(t) PROVE p \in Range(s) /\ RankIn(s, p) <= n
  <2> DEFINE i == RankIn(t, p)
  <2>1. i \in 1 .. Len(t) /\ t[i] = p
    BY <1>1, <1>3, RankFacts
  <2>2. i \in 1 .. Len(s) /\ s[i] = p /\ i <= n
    BY <1>1, <1>2, <2>1
  <2> HIDE DEF i
  <2> QED BY <2>2, RankFacts
<1>4. ASSUME p \in Range(s), RankIn(s, p) <= n PROVE p \in Range(t)
  <2> DEFINE i == RankIn(s, p)
  <2>1. i \in 1 .. Len(s) /\ s[i] = p
    BY <1>4, RankFacts
  <2>2. i \in 1 .. Len(t) /\ t[i] = p
    BY <1>1, <1>2, <1>4, <2>1
  <2> HIDE DEF i
  <2> QED BY <1>1, <2>2, RankFacts
<1> QED BY <1>3, <1>4 DEF t

LEMMA CutRank ==
    ASSUME NEW S, NEW s, Ranking(s, S), NEW n \in Nat, NEW p \in Range(Take(s, n))
    PROVE  RankIn(Take(s, n), p) = RankIn(s, p)
<1> DEFINE t == Take(s, n)
           i == RankIn(t, p)
<1>1. /\ Ranking(t, S) /\ Len(t) = IF n < Len(s) THEN n ELSE Len(s)
      /\ \A k \in 1 .. Len(t) : t[k] = s[k]
  BY TakeFacts
<1>2. i \in 1 .. Len(t) /\ t[i] = p
  BY <1>1, RankFacts
<1>3. i \in 1 .. Len(s) /\ s[i] = p
  <2>1. Len(s) \in Nat
    BY DEF Ranking
  <2> HIDE DEF t, i
  <2> QED BY <1>1, <1>2, <2>1
<1>4. RankIn(s, p) = i
  <2> HIDE DEF i
  <2> QED BY <1>3, RankFacts
<1> QED BY <1>4

Fraction == [num : Nat, den : Nat \ {0}]

LEMMA PlusType == ASSUME NEW x \in Fraction, NEW y \in Fraction PROVE Plus(x, y) \in Fraction
<1>1. x.den * y.den \in Nat \ {0}
  BY DEF Fraction
<1>2. x.num * y.den + y.num * x.den \in Nat
  BY DEF Fraction
<1> QED BY <1>1, <1>2 DEF Plus, Fraction

LEMMA Positive ==
    ASSUME NEW a \in Int, NEW b \in Nat, a >= 0
    PROVE  a * b \in Nat /\ (a > 0 /\ b > 0 => a * b > 0)
OBVIOUS

\* The sum of two fractions grows with either of them.
LEMMA PlusGrows ==
    ASSUME NEW x \in Fraction, NEW u \in Fraction, NEW y \in Fraction, NEW v \in Fraction,
           AtLeast(x, u), AtLeast(y, v), ~AtLeast(u, x) \/ ~AtLeast(v, y)
    PROVE  ~AtLeast(Plus(u, v), Plus(x, y))
<1> DEFINE a == x.num * u.den - u.num * x.den
           b == y.num * v.den - v.num * y.den
           c == y.den * v.den
           d == x.den * u.den
<1>1. /\ x.num \in Nat /\ x.den \in Nat \ {0} /\ u.num \in Nat /\ u.den \in Nat \ {0}
      /\ y.num \in Nat /\ y.den \in Nat \ {0} /\ v.num \in Nat /\ v.den \in Nat \ {0}
  BY DEF Fraction
<1>2. a \in Int /\ b \in Int /\ a >= 0 /\ b >= 0 /\ (a > 0 \/ b > 0)
  BY <1>1 DEF AtLeast
<1>3. c \in Nat /\ d \in Nat /\ c > 0 /\ d > 0
  BY <1>1
<1>4. (x.num * y.den + y.num * x.den) * (u.den * v.den)
        - (u.num * v.den + v.num * u.den) * (x.den * y.den) = a * c + b * d
  BY <1>1
<1>5. a * c + b * d > 0
  <2> HIDE DEF a, b, c, d
  <2>1. a * c \in Nat /\ (a > 0 => a * c > 0)
    BY <1>2, <1>3, Positive
  <2>2. b * d \in Nat /\ (b > 0 => b * d > 0)
    BY <1>2, <1>3, Positive
  <2> QED BY <1>2, <2>1, <2>2
<1>6. /\ (x.num * y.den + y.num * x.den) * (u.den * v.den) \in Nat
      /\ (u.num * v.den + v.num * u.den) * (x.den * y.den) \in Nat
  <2>1. \A m, k \in Nat : m * k \in Nat /\ m + k \in Nat
    OBVIOUS
  <2>2. /\ x.num * y.den + y.num * x.den \in Nat /\ u.den * v.den \in Nat
        /\ u.num * v.den + v.num * u.den \in Nat /\ x.den * y.den \in Nat
    BY <1>1, <2>1
  <2> QED BY <2>1, <2>2
<1>7. ~((u.num * v.den + v.num * u.den) * (x.den * y.den)
          >= (x.num * y.den + y.num * x.den) * (u.den * v.den))
  <2> HIDE DEF a, b, c, d
  <2> QED BY <1>4, <1>5, <1>6
<1> QED BY <1>7 DEF AtLeast, Plus

LEMMA SignalType ==
    ASSUME NEW S, NEW s, Ranking(s, S), NEW p
    PROVE  Signal(s, p) \in Fraction
<1>1. RrfK \in Nat \ {0}
  BY RetrievalAssumption
<1>2. CASE p \in Range(s)
  <2>1. RankIn(s, p) \in 1 .. Len(s) /\ Len(s) \in Nat
    BY <1>2, RankFacts DEF Ranking
  <2>2. RrfK + RankIn(s, p) \in Nat \ {0}
    BY <1>1, <2>1
  <2> QED BY <1>2, <2>2 DEF Signal, Fraction
<1>3. CASE p \notin Range(s)
  BY <1>3 DEF Signal, Fraction
<1> QED BY <1>2, <1>3

\* Of two products, the one that beats the other in a list has the greater signal of
\* what a cut leaves of the list.
LEMMA SignalCut ==
    ASSUME NEW S, NEW s, Ranking(s, S), NEW n \in Nat, NEW p, NEW q, Beats(p, q, s)
    PROVE  /\ AtLeast(Signal(Take(s, n), p), Signal(Take(s, n), q))
           /\ q \in Range(Take(s, n)) =>
                 /\ p \in Range(Take(s, n))
                 /\ ~AtLeast(Signal(Take(s, n), q), Signal(Take(s, n), p))
<1> DEFINE t == Take(s, n)
<1>1. RrfK \in Nat \ {0}
  BY RetrievalAssumption
<1>2. Ranking(t, S)
  BY TakeFacts
<1>3. CASE q \in Range(t)
  <2>1. q \in Range(s) /\ RankIn(s, q) <= n /\ RankIn(t, q) = RankIn(s, q)
    BY <1>3, CutRanks, CutRank
  <2>2. p \in Range(s) /\ RankIn(s, p) < RankIn(s, q)
    BY <2>1 DEF Beats
  <2>3. RankIn(s, p) \in Nat \ {0} /\ RankIn(s, q) \in Nat \ {0}
    <3>1. Len(s) \in Nat /\ RankIn(s, p) \in 1 .. Len(s) /\ RankIn(s, q) \in 1 .. Len(s)
      BY <2>1, <2>2, RankFacts DEF Ranking
    <3> QED BY <3>1
  <2>4. p \in Range(t) /\ RankIn(t, p) = RankIn(s, p)
    <3>1. RankIn(s, p) <= n
      BY <2>1, <2>2, <2>3
    <3>2. p \in Range(t)
      BY <2>2, <3>1, CutRanks
    <3> QED BY <3>2, CutRank
  <2>5. /\ Signal(t, p) = [num |-> 1, den |-> RrfK + RankIn(s, p)]
        /\ Signal(t, q) = [num |-> 1, den |-> RrfK + RankIn(s, q)]
    BY <1>3, <2>1, <2>4 DEF Signal
  <2>6. AtLeast(Signal(t, p), Signal(t, q)) /\ ~AtLeast(Signal(t, q), Signal(t, p))
    BY <1>1, <2>2, <2>3, <2>5 DEF AtLeast
  <2> QED BY <2>4, <2>6
<1>4. CASE q \notin Range(t)
  <2>1. Signal(t, q) = [num |-> 0, den |-> 1]
    BY <1>4 DEF Signal
  <2>2. Signal(t, p) \in Fraction
    BY <1>2, SignalType
  <2>3. AtLeast(Signal(t, p), Signal(t, q))
    BY <2>1, <2>2 DEF AtLeast, Fraction
  <2> QED BY <1>4, <2>3
<1> QED BY <1>3, <1>4

\* The rows of a fusion are some of the products of its two lists, each of them once.
LEMMA FusedType ==
    ASSUME NEW S, IsFiniteSet(S), NEW s, Ranking(s, S), NEW t, Ranking(t, S), NEW n \in Nat,
           NEW rows \in Fused(s, t, n)
    PROVE  Ranking(rows, S)
<1> DEFINE hits == Range(s) \cup Range(t)
<1>1. PICK all \in SetToSeqs(hits) : rows = Take(all, n)
  BY DEF Fused
<1>2. hits \subseteq S
  BY DEF Ranking, Range
<1>3. IsFiniteSet(hits)
  BY <1>2, FS_Subset
<1> HIDE DEF hits
<1>4. Ranking(all, S)
  <2>1. Ranking(all, hits)
    BY <1>1, <1>3, RankingFacts
  <2> QED BY <1>2, <2>1 DEF Ranking
<1> QED BY <1>1, <1>4, TakeFacts

\* A product that beats another in both lists comes before it among the rows of what
\* the limits leave of them.
LEMMA FusedOrder ==
    ASSUME NEW S, IsFiniteSet(S), NEW s, Ranking(s, S), NEW t, Ranking(t, S),
           NEW k \in Nat, NEW l \in Nat, NEW n \in Nat,
           NEW rows \in Fused(Take(s, k), Take(t, l), n),
           NEW p, NEW q \in Range(rows), p # q, Beats(p, q, s), Beats(p, q, t)
    PROVE  p \in Range(rows) /\ RankIn(rows, p) < RankIn(rows, q)
<1> DEFINE a == Take(s, k)
           b == Take(t, l)
           hits == Range(a) \cup Range(b)
<1>1. PICK all \in SetToSeqs(hits) :
          /\ rows = Take(all, n)
          /\ \A i, j \in DOMAIN all : i < j => AtLeast(Rrf(a, b, all[i]), Rrf(a, b, all[j]))
  BY DEF Fused
<1>2. Ranking(a, S) /\ Ranking(b, S)
  BY TakeFacts
<1>3. Ranking(all, hits) /\ Range(all) = hits
  <2>1. hits \subseteq S
    BY <1>2 DEF Ranking, Range
  <2>2. IsFiniteSet(hits)
    BY <2>1, FS_Subset
  <2> QED BY <1>1, <2>2, RankingFacts
<1>4. q \in Range(all) /\ RankIn(all, q) <= n /\ RankIn(rows, q) = RankIn(all, q)
  BY <1>1, <1>3, CutRanks, CutRank
<1>5. /\ AtLeast(Signal(a, p), Signal(a, q)) /\ AtLeast(Signal(b, p), Signal(b, q))
      /\ q \in Range(a) => p \in Range(a) /\ ~AtLeast(Signal(a, q), Signal(a, p))
      /\ q \in Range(b) => p \in Range(b) /\ ~AtLeast(Signal(b, q), Signal(b, p))
  BY SignalCut
<1>6. p \in Range(all) /\ ~AtLeast(Rrf(a, b, q), Rrf(a, b, p))
  <2>1. p \in hits /\ (~AtLeast(Signal(a, q), Signal(a, p)) \/ ~AtLeast(Signal(b, q), Signal(b, p)))
    BY <1>3, <1>4, <1>5
  <2>2. /\ Signal(a, p) \in Fraction /\ Signal(a, q) \in Fraction
        /\ Signal(b, p) \in Fraction /\ Signal(b, q) \in Fraction
    BY <1>2, SignalType
  <2> HIDE DEF a, b
  <2>3. ~AtLeast(Plus(Signal(a, q), Signal(b, q)), Plus(Signal(a, p), Signal(b, p)))
    BY <1>5, <2>1, <2>2, PlusGrows
  <2> QED BY <1>3, <2>1, <2>3 DEF Rrf
<1> DEFINE i == RankIn(all, p)
           j == RankIn(all, q)
<1>7. /\ i \in 1 .. Len(all) /\ all[i] = p /\ j \in 1 .. Len(all) /\ all[j] = q
      /\ DOMAIN all = 1 .. Len(all) /\ Len(all) \in Nat
  BY <1>3, <1>4, <1>6, RankFacts DEF Ranking
<1>8. i < j
  <2> HIDE DEF i, j, a, b
  <2>1. ~(j < i)
    BY <1>1, <1>6, <1>7
  <2>2. i # j
    BY <1>7
  <2> QED BY <1>7, <2>1, <2>2
<1>9. p \in Range(rows) /\ RankIn(rows, p) = i
  <2>1. i <= n
    <3> HIDE DEF i, j
    <3>1. j <= n
      BY <1>4 DEF j
    <3> QED BY <1>7, <1>8, <3>1
  <2>2. p \in Range(rows)
    BY <1>1, <1>3, <1>6, <2>1, CutRanks
  <2> QED BY <1>1, <1>3, <2>2, CutRank
<1> QED BY <1>4, <1>8, <1>9

-----------------------------------------------------------------------------
(* The search.  The lists never change, and the relaxed search is reached  *)
(* only if the first one has no list, or no room.                          *)

RetrievalInv ==
    /\ RetrievalTypeOK
    /\ FusionMonotone

LEMMA TypeFacts ==
    ASSUME RetrievalTypeOK
    PROVE  /\ IsFiniteSet(Products)
           /\ Ranking(words, Products) /\ Ranking(relaxed, Products)
           /\ Ranking(vectors, Products)
           /\ passing \in Nat /\ Len(words) \in Nat
           /\ Ranking(Take(words, passing), Products)
<1>1. IsFiniteSet(Products)
  BY RetrievalAssumption
<1>2. Ranking(words, Products)
  BY <1>1, RankingOf DEF RetrievalTypeOK
<1>3. Range(words) \in SUBSET Products
  BY <1>2 DEF Ranking, Range
<1>4. ASSUME NEW s \in Rankings(Range(words)) PROVE Ranking(s, Products)
  <2>1. Ranking(s, Range(words))
    BY <1>1, <1>3, FS_Subset, RankingOf
  <2> QED BY <1>3, <2>1 DEF Ranking
<1>5. Ranking(relaxed, Products) /\ Ranking(vectors, Products)
  BY <1>4 DEF RetrievalTypeOK
<1>6. Len(words) \in Nat /\ passing \in Nat
  BY <1>2 DEF RetrievalTypeOK, Ranking
<1> QED BY <1>1, <1>2, <1>5, <1>6, TakeFacts

\* What the search may find.
Rows == Primary(TopN) \cup Relaxed(TopN \div 2)

LEMMA FoundType ==
    ASSUME RetrievalTypeOK, NEW rows \in Rows
    PROVE  Ranking(rows, Products)
<1>1. /\ IsFiniteSet(Products)
      /\ Ranking(words, Products) /\ Ranking(relaxed, Products) /\ Ranking(vectors, Products)
      /\ Ranking(Take(words, passing), Products)
  BY TypeFacts
<1>2. /\ ListLimit \in Nat /\ RelaxedLimit \in Nat /\ TopN \in Nat /\ TopN \div 2 \in Nat
  BY RetrievalAssumption
<1>3. CASE rows \in Primary(TopN)
  <2>1. CASE RankWhole
    <3>1. rows \in Fused(words, vectors, TopN)
      BY <1>3, <2>1 DEF Primary
    <3> QED BY <1>1, <1>2, <3>1, FusedType
  <2>2. CASE ~RankWhole
    <3>1. rows \in Fused(Take(Take(words, passing), ListLimit), Take(vectors, ListLimit), TopN)
      BY <1>3, <2>2 DEF Primary
    <3>2. /\ Ranking(Take(Take(words, passing), ListLimit), Products)
          /\ Ranking(Take(vectors, ListLimit), Products)
      BY <1>1, <1>2, TakeFacts
    <3> QED BY <1>1, <1>2, <3>1, <3>2, FusedType
  <2> QED BY <2>1, <2>2
<1>4. CASE rows \in Relaxed(TopN \div 2)
  <2>1. CASE rows = <<>>
    BY <2>1 DEF Ranking
  <2>2. CASE rows # <<>>
    <3>1. rows \in Fused(Take(relaxed, RelaxedLimit), Take(vectors, RelaxedLimit), TopN \div 2)
      BY <1>4, <2>2 DEF Relaxed
    <3>2. /\ Ranking(Take(relaxed, RelaxedLimit), Products)
          /\ Ranking(Take(vectors, RelaxedLimit), Products)
      BY <1>1, <1>2, TakeFacts
    <3> QED BY <1>1, <1>2, <3>1, <3>2, FusedType
  <2> QED BY <2>1, <2>2
<1> QED BY <1>3, <1>4 DEF Rows

LEMMA SearchType == ASSUME RetrievalTypeOK, HybridSearch PROVE RetrievalTypeOK'
<1>1. found' \in Rows
  <2>1. PICK rows \in Primary(TopN) :
            IF rows = <<>> /\ ~RankWhole THEN found' \in Relaxed(TopN \div 2)
            ELSE found' = rows
    BY DEF HybridSearch
  <2> QED BY <2>1 DEF Rows
<1>2. found' \in Rankings(Products)
  BY <1>1, FoundType, RankingMade
<1>3. UNCHANGED <<words, passing, relaxed, vectors>>
  BY DEF HybridSearch
<1> QED BY <1>2, <1>3 DEF RetrievalTypeOK

\* A fusion that finds nothing has no lists, or no room.
LEMMA FusedEmpty ==
    ASSUME NEW s, Ranking(s, Products), NEW t, Ranking(t, Products),
           NEW k \in Nat \ {0}, NEW n \in Nat \ {0},
           <<>> \in Fused(Take(s, k), Take(t, k), n)
    PROVE  s = <<>> /\ t = <<>>
<1> DEFINE a == Take(s, k)
           b == Take(t, k)
           hits == Range(a) \cup Range(b)
<1>1. PICK all \in SetToSeqs(hits) : <<>> = Take(all, n)
  BY DEF Fused
<1>2. Ranking(a, Products) /\ Ranking(b, Products)
  BY TakeFacts
<1>3. Ranking(all, hits) /\ Range(all) = hits
  <2>1. hits \in SUBSET Products
    BY <1>2 DEF Ranking, Range
  <2>2. IsFiniteSet(hits)
    BY <2>1, FS_Subset, RetrievalAssumption
  <2> QED BY <1>1, <2>2, RankingFacts
<1>4. Len(all) = 0
  <2>1. Len(Take(all, n)) = IF n < Len(all) THEN n ELSE Len(all)
    BY <1>3, TakeFacts
  <2>2. Len(all) \in Nat
    BY <1>3 DEF Ranking
  <2> QED BY <1>1, <2>1, <2>2
<1>5. hits = {}
  <2>1. ASSUME NEW h \in hits PROVE FALSE
    BY <1>3, <1>4, RankFacts
  <2> QED BY <2>1
<1>6. ASSUME NEW u, Ranking(u, Products), Range(Take(u, k)) = {} PROVE u = <<>>
  <2>1. /\ Ranking(Take(u, k), Products)
        /\ Len(Take(u, k)) = IF k < Len(u) THEN k ELSE Len(u)
    BY <1>6, TakeFacts
  <2>2. ~(1 \in 1 .. Len(Take(u, k)))
    BY <1>6, <2>1, RankFacts
  <2>3. Len(u) \in Nat
    BY <1>6 DEF Ranking
  <2>4. Len(u) = 0
    BY <2>1, <2>2, <2>3
  <2> QED BY <1>6, <2>4 DEF Ranking
<1> QED BY <1>2, <1>5, <1>6

LEMMA SearchOrder == ASSUME RetrievalTypeOK, HybridSearch PROVE FusionMonotone'
<1> DEFINE lexical == IF RankWhole THEN words ELSE Take(words, passing)
<1>1. /\ IsFiniteSet(Products) /\ Ranking(words, Products) /\ Ranking(vectors, Products)
      /\ Ranking(Take(words, passing), Products)
      /\ Len(words) \in Nat /\ Len(vectors) \in Nat
  BY TypeFacts DEF Ranking
<1>2. TopN \in Nat /\ ListLimit \in Nat \ {0}
  BY RetrievalAssumption
<1>3. PICK rows \in Primary(TopN) :
          IF rows = <<>> /\ ~RankWhole THEN found' \in Relaxed(TopN \div 2)
          ELSE found' = rows
  BY DEF HybridSearch
<1>4. UNCHANGED <<words, passing, relaxed, vectors>>
  BY DEF HybridSearch
<1>5. SUFFICES ASSUME lexical # <<>> \/ vectors # <<>>,
                      NEW q \in Range(found'), NEW p \in Products,
                      p # q, Beats(p, q, lexical), Beats(p, q, vectors)
               PROVE  p \in Range(found') /\ RankIn(found', p) < RankIn(found', q)
  BY <1>4, Zenon DEF FusionMonotone, RankWhole
<1>6. CASE RankWhole
  <2>1. found' \in Fused(words, vectors, TopN)
    BY <1>3, <1>6 DEF Primary
  <2>2. Take(words, Len(words)) = words /\ Take(vectors, Len(vectors)) = vectors
    BY <1>1, TakeAll
  <2>3. found' \in Fused(Take(words, Len(words)), Take(vectors, Len(vectors)), TopN)
    BY <2>1, <2>2
  <2>4. Beats(p, q, words)
    BY <1>5, <1>6
  <2> QED BY <1>1, <1>2, <1>5, <2>3, <2>4, FusedOrder
<1>7. CASE ~RankWhole /\ rows # <<>>
  <2>1. found' \in Fused(Take(Take(words, passing), ListLimit), Take(vectors, ListLimit), TopN)
    BY <1>3, <1>7 DEF Primary
  <2>2. Beats(p, q, Take(words, passing))
    BY <1>5, <1>7
  <2> QED BY <1>1, <1>2, <1>5, <2>1, <2>2, FusedOrder
<1>8. CASE ~RankWhole /\ rows = <<>>
  <2>1. CASE TopN = 0
    <3>1. found' = <<>>
      <4>1. found' \in Relaxed(0)
        BY <1>3, <1>8, <2>1
      <4>2. CASE found' # <<>>
        <5> DEFINE a == Take(relaxed, RelaxedLimit)
                   b == Take(vectors, RelaxedLimit)
        <5>1. PICK all \in SetToSeqs(Range(a) \cup Range(b)) : found' = Take(all, 0)
          BY <4>1, <4>2 DEF Relaxed, Fused
        <5>2. /\ Ranking(a, Products) /\ Ranking(b, Products)
          BY TypeFacts, TakeFacts, RetrievalAssumption
        <5>3. Range(a) \cup Range(b) \in SUBSET Products
          BY <5>2 DEF Ranking, Range
        <5>4. Ranking(all, Range(a) \cup Range(b))
          BY <1>1, <5>1, <5>3, FS_Subset, RankingFacts
        <5> HIDE DEF a, b
        <5>5. Len(all) \in Nat /\ Len(found') = IF 0 < Len(all) THEN 0 ELSE Len(all)
          BY <5>1, <5>4, TakeFacts DEF Ranking
        <5>6. found' \in Seq(Range(a) \cup Range(b))
          BY <5>1, <5>4, TakeFacts DEF Ranking
        <5> QED BY <4>2, <5>5, <5>6
      <4> QED BY <4>2
    <3>2. Range(found') = {}
      BY <3>1 DEF Range
    <3> QED BY <1>5, <3>2
  <2>2. CASE TopN # 0
    <3>1. <<>> \in Fused(Take(Take(words, passing), ListLimit), Take(vectors, ListLimit), TopN)
      BY <1>3, <1>8 DEF Primary
    <3>2. Take(words, passing) = <<>> /\ vectors = <<>>
      BY <1>1, <1>2, <2>2, <3>1, FusedEmpty
    <3> QED BY <1>5, <1>8, <3>2
  <2> QED BY <2>1, <2>2
<1> QED BY <1>6, <1>7, <1>8

LEMMA RetrievalStart == RetrievalInit => RetrievalInv
BY DEF RetrievalInit, RetrievalInv, RetrievalTypeOK, FusionMonotone

LEMMA RetrievalStep == ASSUME RetrievalInv, [HybridSearch]_retrievalVars PROVE RetrievalInv'
<1>1. CASE HybridSearch
  BY <1>1, SearchType, SearchOrder DEF RetrievalInv
<1>2. CASE UNCHANGED retrievalVars
  <2>1. /\ words' = words /\ passing' = passing /\ relaxed' = relaxed
        /\ vectors' = vectors /\ found' = found
    BY <1>2 DEF retrievalVars
  <2>2. RetrievalTypeOK'
    BY <2>1 DEF RetrievalInv, RetrievalTypeOK
  <2>3. FusionMonotone'
    BY <2>1, Zenon DEF RetrievalInv, FusionMonotone, RankWhole
  <2> QED BY <2>2, <2>3 DEF RetrievalInv
<1> QED BY <1>1, <1>2

\* Among the candidates of a query, a product is never behind one that it beats by its
\* words and by its embedding, nor missing when that one is there, however many products
\* there are and wherever the limits cut (hybrid_search).
THEOREM FusionCorrect == RetrievalSpec => []FusionMonotone
<1>1. RetrievalSpec => []RetrievalInv
  BY RetrievalStart, RetrievalStep, PTL DEF RetrievalSpec
<1>2. RetrievalInv => FusionMonotone
  BY DEF RetrievalInv
<1> QED BY <1>1, <1>2, PTL

\* A search finds products of the catalog, each of them once (hybrid_search).
THEOREM RetrievalTypeCorrect == RetrievalSpec => []RetrievalTypeOK
<1>1. RetrievalSpec => []RetrievalInv
  BY RetrievalStart, RetrievalStep, PTL DEF RetrievalSpec
<1>2. RetrievalInv => RetrievalTypeOK
  BY DEF RetrievalInv
<1> QED BY <1>1, <1>2, PTL

-----------------------------------------------------------------------------
(* OneCFetch.  Which items a page has follows from their ranks: an edit of *)
(* an item moves those behind it, and whom it moves is in `shifted`, so    *)
(* that the others keep a rank below the number that was counted (ReadInv).*)
(* The path of a group that was read with all that is above it is the one  *)
(* that it has in the tree, until one of these is moved (PathsInv).        *)

\* What goes from each number to the next holds at the last.
LEMMA LoopEnds ==
    ASSUME NEW n \in Nat, NEW Good \in SUBSET Nat, 0 \in Good,
           \A i \in 1 .. n : i - 1 \in Good => i \in Good
    PROVE  n \in Good
<1> DEFINE bad == (0 .. n) \ Good
           less == OpToRel(<, Nat)
<1>1. SUFFICES ASSUME bad # {} PROVE FALSE
  OBVIOUS
<1>2. bad \subseteq Nat
  OBVIOUS
<1>3. IsWellFoundedOn(less, Nat)
  BY NatLessThanWellFounded, Zenon
<1>4. \A x, y \in Nat : y < x => <<y, x>> \in less
  BY Zenon DEF OpToRel
<1>5. PICK x \in bad : \A y \in bad : ~(<<y, x>> \in less)
  <2> HIDE DEF bad, less
  <2> QED BY <1>1, <1>2, <1>3, WFMin, Zenon
<1>6. \A y \in bad : ~(y < x)
  <2> HIDE DEF bad, less
  <2> QED BY <1>2, <1>4, <1>5
<1>7. x \in 1 .. n
  <2>1. x \in 0 .. n /\ x \notin Good
    BY <1>5
  <2>2. x # 0
    BY <2>1
  <2> QED BY <2>1, <2>2
<1>8. x - 1 \in Good
  BY <1>6, <1>7
<1> QED BY <1>5, <1>7, <1>8

-----------------------------------------------------------------------------
\* The items by code.

LEMMA RankGrows ==
    ASSUME NEW S \in SUBSET Nat, IsFiniteSet(S), NEW i \in S
    PROVE  /\ Rank(i, S) \in Nat /\ Rank(i, S) < Cardinality(S)
           /\ \A j \in S : i < j => Rank(i, S) < Rank(j, S)
<1> DEFINE before(j) == {h \in S : h < j}
<1>1. \A T \in SUBSET S : IsFiniteSet(T) /\ Cardinality(T) \in Nat
                              /\ Cardinality(T) <= Cardinality(S)
  BY FS_Subset, FS_CardinalityType
<1>2. Rank(i, S) = Cardinality(before(i)) /\ before(i) \in SUBSET S /\ Cardinality(S) \in Nat
  BY <1>1 DEF Rank
<1>3. Cardinality(before(i) \cup {i}) = Cardinality(before(i)) + 1
  <2>1. i \notin before(i)
    OBVIOUS
  <2> QED BY <1>1, <1>2, <2>1, FS_AddElement
<1>4. Rank(i, S) < Cardinality(S)
  <2>1. before(i) \cup {i} \in SUBSET S
    OBVIOUS
  <2>2. Cardinality(before(i) \cup {i}) <= Cardinality(S)
    BY <1>1, <2>1
  <2> QED BY <1>1, <1>2, <1>3, <2>2
<1>5. ASSUME NEW j \in S, i < j PROVE Rank(i, S) < Rank(j, S)
  <2>1. before(i) \cup {i} \in SUBSET before(j)
    <3>1. \A h \in S : h < i \/ h = i => h < j
      BY <1>5
    <3> QED BY <3>1
  <2>2. IsFiniteSet(before(j)) /\ Cardinality(before(j)) \in Nat
    BY <1>1
  <2>3. Cardinality(before(i) \cup {i}) <= Cardinality(before(j))
    BY <2>1, <2>2, FS_Subset
  <2>4. Rank(j, S) = Cardinality(before(j))
    BY DEF Rank
  <2> QED BY <1>1, <1>2, <1>3, <2>2, <2>3, <2>4
<1> QED BY <1>1, <1>2, <1>4, <1>5

LEMMA CodesDiffer ==
    ASSUME NEW S \in SUBSET Nat, IsFiniteSet(S), NEW i \in S, NEW j \in S,
           Rank(i, S) = Rank(j, S)
    PROVE  i = j
<1>1. ~(i < j) /\ ~(j < i)
  BY RankGrows
<1> QED BY <1>1

\* Every rank below the number of items is that of an item.
LEMMA RanksFill ==
    ASSUME NEW S \in SUBSET Nat, IsFiniteSet(S), NEW k \in Nat, k < Cardinality(S)
    PROVE  \E i \in S : Rank(i, S) = k
<1> DEFINE n == Cardinality(S)
           rank == [i \in S |-> Rank(i, S)]
<1>1. n \in Nat
  BY FS_CardinalityType
<1>2. IsFiniteSet(0 .. n - 1) /\ Cardinality(0 .. n - 1) = n
  <2>1. 0 \in Int /\ n - 1 \in Int /\ (IF 0 > n - 1 THEN 0 ELSE n - 1 - 0 + 1) = n
    <3> HIDE DEF n
    <3> QED BY <1>1
  <2> HIDE DEF n
  <2> QED BY <2>1, FS_Interval
<1>3. rank \in Injection(S, 0 .. n - 1)
  <2>1. \A i \in S : rank[i] \in 0 .. n - 1
    BY <1>1, RankGrows
  <2>2. rank \in [S -> 0 .. n - 1]
    BY <2>1
  <2>3. \A i, j \in S : rank[i] = rank[j] => i = j
    BY CodesDiffer
  <2> HIDE DEF rank, n
  <2> QED BY <2>2, <2>3 DEF Injection, IsInjective
<1>4. rank \in Surjection(S, 0 .. n - 1)
  <2> HIDE DEF rank
  <2> QED BY <1>2, <1>3, FS_Injection
<1>5. PICK i \in S : rank[i] = k
  <2>1. k \in 0 .. n - 1
    BY <1>1
  <2> HIDE DEF rank
  <2> QED BY <1>4, <2>1 DEF Surjection
<1> QED BY <1>5

\* A page has as many items as it has ranks.
LEMMA PageSizes ==
    ASSUME NEW S \in SUBSET Nat, IsFiniteSet(S), NEW a \in Nat, NEW b \in Nat,
           a <= b, b <= Cardinality(S)
    PROVE  Cardinality({i \in S : a <= Rank(i, S) /\ Rank(i, S) < b}) = b - a
<1> DEFINE page == {i \in S : a <= Rank(i, S) /\ Rank(i, S) < b}
           rank == [i \in page |-> Rank(i, S)]
<1>1. Cardinality(S) \in Nat
  BY FS_CardinalityType
<1>2. IsFiniteSet(a .. b - 1) /\ Cardinality(a .. b - 1) = b - a
  <2>1. a \in Int /\ b - 1 \in Int /\ (IF a > b - 1 THEN 0 ELSE b - 1 - a + 1) = b - a
    OBVIOUS
  <2> QED BY <2>1, FS_Interval
<1>3. rank \in Injection(page, a .. b - 1)
  <2>1. \A i \in page : rank[i] \in a .. b - 1
    BY RankGrows
  <2>2. rank \in [page -> a .. b - 1]
    BY <2>1
  <2>3. \A i, j \in page : rank[i] = rank[j] => i = j
    BY CodesDiffer
  <2> HIDE DEF rank, page
  <2> QED BY <2>2, <2>3 DEF Injection, IsInjective
<1>4. rank \in Surjection(page, a .. b - 1)
  <2>1. ASSUME NEW k \in a .. b - 1 PROVE \E i \in page : rank[i] = k
    <3>1. PICK i \in S : Rank(i, S) = k
      BY <1>1, RanksFill
    <3>2. i \in page
      BY <3>1
    <3> QED BY <3>1, <3>2
  <2>2. rank \in [page -> a .. b - 1]
    <3> HIDE DEF rank, page
    <3> QED BY <1>3 DEF Injection
  <2> HIDE DEF rank, page
  <2> QED BY <2>1, <2>2 DEF Surjection
<1>5. Cardinality(page) = Cardinality(a .. b - 1)
  <2> HIDE DEF rank, page
  <2> QED BY <1>2, <1>3, <1>4, FS_Injection
<1> QED BY <1>2, <1>5

\* InOrder has every element once.
LEMMA InOrderHasAll ==
    ASSUME NEW S \in SUBSET Nat, IsFiniteSet(S)
    PROVE  /\ InOrder(S) \in Seq(S) /\ Len(InOrder(S)) = Cardinality(S)
           /\ \A i \in S : \E k \in DOMAIN InOrder(S) :
                 \A l \in DOMAIN InOrder(S) : InOrder(S)[l] = i <=> l = k
<1> DEFINE n == Cardinality(S)
           s == InOrder(S)
<1>1. n \in Nat
  BY FS_CardinalityType
<1>2. s = [k \in 1 .. n |-> CHOOSE i \in S : Rank(i, S) = k - 1]
  BY DEF InOrder
<1>3. ASSUME NEW k \in 1 .. n PROVE s[k] \in S /\ Rank(s[k], S) = k - 1
  <2>1. \E i \in S : Rank(i, S) = k - 1
    BY <1>1, RanksFill
  <2>2. s[k] = CHOOSE i \in S : Rank(i, S) = k - 1
    BY <1>2
  <2> QED BY <2>1, <2>2
<1>4. s \in [1 .. n -> S]
  <2> HIDE DEF s, n
  <2> QED BY <1>2, <1>3
<1>5. s \in Seq(S) /\ Len(s) = n /\ DOMAIN s = 1 .. n
  <2> HIDE DEF s, n
  <2> QED BY <1>1, <1>4
<1>6. ASSUME NEW i \in S
      PROVE  \E k \in DOMAIN s : \A l \in DOMAIN s : s[l] = i <=> l = k
  <2>1. Rank(i, S) \in Nat /\ Rank(i, S) < n
    BY RankGrows
  <2>2. PICK k \in 1 .. n : k = Rank(i, S) + 1
    BY <1>1, <2>1
  <2>3. s[k] = i
    <3>1. s[k] \in S /\ Rank(s[k], S) = Rank(i, S)
      BY <1>3, <2>1, <2>2
    <3> HIDE DEF s, n
    <3> QED BY <3>1, CodesDiffer
  <2>4. ASSUME NEW l \in 1 .. n, s[l] = i PROVE l = k
    BY <1>3, <2>2, <2>4
  <2> HIDE DEF s, n
  <2> QED BY <1>5, <2>3, <2>4
<1> QED BY <1>5, <1>6

-----------------------------------------------------------------------------
\* The groups.

IsForest(up) ==
    /\ up \in [DOMAIN up -> DOMAIN up \cup {Nowhere}]
    /\ DOMAIN up \subseteq Groups
    /\ Acyclic(up)

LEMMA UpwardsIsLeast ==
    ASSUME NEW up, IsForest(up), NEW g \in DOMAIN up
    PROVE  /\ g \in Upwards(up, g) /\ Upwards(up, g) \in SUBSET DOMAIN up
           /\ Closed(up, Upwards(up, g))
           /\ \A S \in SUBSET DOMAIN up : g \in S /\ Closed(up, S) => Upwards(up, g) \subseteq S
<1>1. g \in Upwards(up, g) /\ Upwards(up, g) \in SUBSET DOMAIN up
  BY DEF Upwards
<1>2. \A S \in SUBSET DOMAIN up : g \in S /\ Closed(up, S) => Upwards(up, g) \subseteq S
  BY Zenon DEF Upwards
<1>3. ASSUME NEW h \in Upwards(up, g), up[h] # Nowhere PROVE up[h] \in Upwards(up, g)
  <2>1. h \in DOMAIN up
    BY <1>1
  <2>2. up[h] \in DOMAIN up
    BY <1>3, <2>1 DEF IsForest
  <2>3. ASSUME NEW S \in SUBSET DOMAIN up, g \in S, Closed(up, S) PROVE up[h] \in S
    <3>1. h \in S
      BY <1>2, <2>3
    <3> QED BY <1>3, <2>3, <3>1 DEF Closed
  <2> QED BY <2>2, <2>3 DEF Upwards
<1>4. Closed(up, Upwards(up, g))
  BY <1>3 DEF Closed
<1> QED BY <1>1, <1>2, <1>4

LEMMA UpwardsFromAbove ==
    ASSUME NEW up, IsForest(up), NEW g \in DOMAIN up
    PROVE  /\ up[g] = Nowhere => Upwards(up, g) = {g}
           /\ up[g] # Nowhere => /\ up[g] \in DOMAIN up
                                 /\ Upwards(up, g) = {g} \cup Upwards(up, up[g])
<1>1. /\ g \in Upwards(up, g) /\ Upwards(up, g) \in SUBSET DOMAIN up
      /\ Closed(up, Upwards(up, g))
      /\ \A S \in SUBSET DOMAIN up : g \in S /\ Closed(up, S) => Upwards(up, g) \subseteq S
  BY UpwardsIsLeast
<1>2. ASSUME up[g] = Nowhere PROVE Upwards(up, g) = {g}
  <2>1. Closed(up, {g})
    BY <1>2 DEF Closed
  <2> QED BY <1>1, <2>1
<1>3. ASSUME up[g] # Nowhere
      PROVE  up[g] \in DOMAIN up /\ Upwards(up, g) = {g} \cup Upwards(up, up[g])
  <2> DEFINE p == up[g]
  <2>1. p \in DOMAIN up
    BY <1>3 DEF IsForest
  <2>2. /\ p \in Upwards(up, p) /\ Upwards(up, p) \in SUBSET DOMAIN up
        /\ Closed(up, Upwards(up, p))
        /\ \A S \in SUBSET DOMAIN up : p \in S /\ Closed(up, S) => Upwards(up, p) \subseteq S
    <3> HIDE DEF p
    <3> QED BY <2>1, UpwardsIsLeast
  <2>3. Closed(up, {g} \cup Upwards(up, p))
    BY <2>2 DEF Closed
  <2>4. Upwards(up, g) \subseteq {g} \cup Upwards(up, p)
    BY <1>1, <2>2, <2>3
  <2>5. p \in Upwards(up, g)
    BY <1>1, <1>3 DEF Closed
  <2>6. Upwards(up, p) \subseteq Upwards(up, g)
    BY <1>1, <2>2, <2>5
  <2> QED BY <1>1, <2>1, <2>4, <2>6
<1> QED BY <1>2, <1>3

\* Nothing is above itself.
LEMMA UpwardsEnds ==
    ASSUME NEW up, IsForest(up), Nowhere \notin Groups, NEW g \in DOMAIN up, up[g] # Nowhere
    PROVE  g \notin Upwards(up, up[g])
<1>1. SUFFICES ASSUME g \in Upwards(up, up[g]) PROVE FALSE
  OBVIOUS
<1> DEFINE S == {x \in Upwards(up, up[g]) : g \in Upwards(up, x)}
<1>2. up[g] \in DOMAIN up
  BY DEF IsForest
<1>3. /\ up[g] \in Upwards(up, up[g]) /\ Upwards(up, up[g]) \in SUBSET DOMAIN up
      /\ Closed(up, Upwards(up, up[g]))
  BY <1>2, UpwardsIsLeast
<1>4. up[g] \in S
  BY <1>1, <1>3
<1>5. ASSUME NEW x \in S PROVE up[x] \in S
  <2>1. x \in DOMAIN up /\ x \in Upwards(up, up[g]) /\ g \in Upwards(up, x)
    BY <1>3
  <2>2. CASE x = g
    BY <1>4, <2>2
  <2>3. CASE x # g
    <3>1. up[x] # Nowhere
      BY <2>1, <2>3, UpwardsFromAbove
    <3>2. g \in Upwards(up, up[x])
      BY <2>1, <2>3, <3>1, UpwardsFromAbove
    <3>3. up[x] \in Upwards(up, up[g])
      BY <1>3, <2>1, <3>1 DEF Closed
    <3> QED BY <3>2, <3>3
  <2> QED BY <2>2, <2>3
<1>6. S \in SUBSET DOMAIN up
  BY <1>3
<1> QED
  <2> HIDE DEF S
  <2> QED BY <1>4, <1>5, <1>6 DEF IsForest, Acyclic

\* A group that moves to one that is not under it leaves a forest.
LEMMA ForestRegrouped ==
    ASSUME NEW up, IsForest(up), Nowhere \notin Groups, NEW g \in Groups,
           NEW h \in DOMAIN up \cup {Nowhere}, h # g, h # Nowhere => g \notin Upwards(up, h),
           NEW next, next = [k \in DOMAIN up \cup {g} |-> IF k = g THEN h ELSE up[k]]
    PROVE  IsForest(next)
<1>1. DOMAIN next = DOMAIN up \cup {g} /\ DOMAIN next \subseteq Groups
  BY DEF IsForest
<1>2. next \in [DOMAIN next -> DOMAIN next \cup {Nowhere}]
  BY DEF IsForest
<1>3. ASSUME NEW S \in SUBSET DOMAIN next, S # {}, \A k \in S : next[k] \in S PROVE FALSE
  <2>1. CASE g \notin S
    <3>1. S \in SUBSET DOMAIN up /\ \A k \in S : up[k] \in S
      BY <1>1, <1>3, <2>1
    <3> QED BY <1>3, <3>1 DEF IsForest, Acyclic
  <2>2. CASE g \in S
    <3>1. h \in S /\ h # Nowhere /\ h \in DOMAIN up
      BY <1>1, <1>3, <2>2
    <3>2. PICK C \in SUBSET DOMAIN up : h \in C /\ Closed(up, C) /\ g \notin C
      <4>1. CASE g \in DOMAIN up
        BY <3>1, <4>1 DEF Upwards
      <4>2. CASE g \notin DOMAIN up
        <5>1. Closed(up, DOMAIN up)
          BY DEF Closed, IsForest
        <5> QED BY <3>1, <4>2, <5>1
      <4> QED BY <4>1, <4>2
    <3>3. ASSUME NEW k \in S \cap C PROVE up[k] \in S \cap C
      <4>1. k # g /\ k \in DOMAIN up
        BY <3>2
      <4>2. up[k] = next[k] /\ up[k] \in S
        BY <1>1, <1>3, <4>1
      <4>3. up[k] # Nowhere
        BY <1>1, <4>2
      <4> QED BY <3>2, <4>2, <4>3 DEF Closed
    <3> QED BY <3>1, <3>2, <3>3 DEF IsForest, Acyclic
  <2> QED BY <2>1, <2>2
<1>4. Acyclic(next)
  BY <1>3 DEF Acyclic
<1> QED BY <1>1, <1>2, <1>4 DEF IsForest

\* A group that nothing is in may go.
LEMMA ForestPruned ==
    ASSUME NEW up, IsForest(up), NEW g \in DOMAIN up, g \notin Range(up),
           NEW next, next = Restrict(up, DOMAIN up \ {g})
    PROVE  IsForest(next)
<1>1. DOMAIN next = DOMAIN up \ {g} /\ \A k \in DOMAIN next : next[k] = up[k]
  BY DEF Restrict
<1>2. \A k \in DOMAIN up : up[k] # g
  BY DEF Range
<1>3. next \in [DOMAIN next -> DOMAIN next \cup {Nowhere}]
  BY <1>1, <1>2 DEF IsForest, Restrict
<1>4. Acyclic(next)
  BY <1>1 DEF IsForest, Acyclic
<1> QED BY <1>1, <1>3, <1>4 DEF IsForest

\* The groups above one that do not move stay above it.
LEMMA UpwardsAgree ==
    ASSUME NEW up, IsForest(up), NEW next, IsForest(next), NEW g \in DOMAIN up,
           g \in DOMAIN next,
           \A k \in Upwards(next, g) : k \in DOMAIN up /\ up[k] = next[k]
    PROVE  Upwards(up, g) = Upwards(next, g)
<1>1. /\ g \in Upwards(up, g) /\ Upwards(up, g) \in SUBSET DOMAIN up
      /\ Closed(up, Upwards(up, g))
      /\ \A S \in SUBSET DOMAIN up : g \in S /\ Closed(up, S) => Upwards(up, g) \subseteq S
  BY UpwardsIsLeast
<1>2. /\ g \in Upwards(next, g) /\ Upwards(next, g) \in SUBSET DOMAIN next
      /\ Closed(next, Upwards(next, g))
      /\ \A S \in SUBSET DOMAIN next : g \in S /\ Closed(next, S) => Upwards(next, g) \subseteq S
  BY UpwardsIsLeast
<1>3. Closed(up, Upwards(next, g))
  BY <1>2 DEF Closed
<1>4. Upwards(up, g) \subseteq Upwards(next, g)
  BY <1>1, <1>2, <1>3
<1>5. Closed(next, Upwards(up, g))
  BY <1>1, <1>4 DEF Closed
<1> QED BY <1>1, <1>2, <1>4, <1>5

-----------------------------------------------------------------------------
\* The paths.

IsLookup(lookup) ==
    DOMAIN lookup \subseteq Groups /\ lookup \in [DOMAIN lookup -> Groups \cup {Nowhere}]

\* One more group, from below, on each path of at most one less.
Lengthen(paths1, lookup) ==
    [h \in Groups \cup {Nowhere} |->
        IF h \notin DOMAIN lookup THEN <<>> ELSE Append(paths1[lookup[h]], h)]

Resolves(f, n, lookup) ==
    f = [i \in 0 .. n |-> [h \in Groups \cup {Nowhere} |->
            IF i = 0 \/ h \notin DOMAIN lookup THEN <<>>
            ELSE Append(f[i - 1][lookup[h]], h)]]

LEMMA PathsExist ==
    ASSUME NEW n \in Nat, NEW lookup
    PROVE  \E f : Resolves(f, n, lookup)
<1> DEFINE Good == {i \in Nat : \E f : Resolves(f, i, lookup)}
<1>1. 0 \in Good
  <2> DEFINE f == [i \in 0 .. 0 |-> [h \in Groups \cup {Nowhere} |-> <<>>]]
  <2>1. Resolves(f, 0, lookup)
    BY DEF Resolves
  <2> QED BY <2>1
<1>2. ASSUME NEW k \in 1 .. n, k - 1 \in Good PROVE k \in Good
  <2>1. PICK g : Resolves(g, k - 1, lookup)
    BY <1>2
  <2> DEFINE top == [h \in Groups \cup {Nowhere} |->
                        IF h \notin DOMAIN lookup THEN <<>> ELSE Append(g[k - 1][lookup[h]], h)]
             f == [i \in 0 .. k |-> IF i = k THEN top ELSE g[i]]
  <2>2. \A i \in 0 .. k - 1 : f[i] = g[i]
    OBVIOUS
  <2>3. ASSUME NEW i \in 0 .. k
        PROVE  f[i] = [h \in Groups \cup {Nowhere} |->
                          IF i = 0 \/ h \notin DOMAIN lookup THEN <<>>
                          ELSE Append(f[i - 1][lookup[h]], h)]
    <3>1. CASE i = k
      <4>1. f[i] = top /\ f[i - 1] = g[k - 1] /\ i # 0
        BY <3>1, <2>2
      <4> HIDE DEF f
      <4> QED BY <4>1, <3>1
    <3>2. CASE i # k
      <4>1. i \in 0 .. k - 1 /\ f[i] = g[i]
        BY <3>2
      <4>2. g[i] = [h \in Groups \cup {Nowhere} |->
                        IF i = 0 \/ h \notin DOMAIN lookup THEN <<>>
                        ELSE Append(g[i - 1][lookup[h]], h)]
        BY <2>1, <4>1 DEF Resolves
      <4>3. i = 0 \/ f[i - 1] = g[i - 1]
        BY <4>1
      <4> HIDE DEF f
      <4> QED BY <4>1, <4>2, <4>3
    <3> QED BY <3>1, <3>2
  <2>4. Resolves(f, k, lookup)
    <3>1. f = [i \in 0 .. k |-> f[i]]
      OBVIOUS
    <3> HIDE DEF f
    <3> QED BY <2>3, <3>1 DEF Resolves
  <2> QED BY <2>4
<1> QED
  <2>1. Good \in SUBSET Nat
    OBVIOUS
  <2> HIDE DEF Good
  <2>2. n \in Good
    BY <1>1, <1>2, <2>1, LoopEnds
  <2> USE DEF Good
  <2> QED BY <2>2

\* What PathOf computes, group by group from below.
Finds(f, lookup) ==
    /\ \A h \in Groups \cup {Nowhere} : f[0][h] = <<>> /\ f[MaxDepth + 1][h] = PathOf(lookup, h)
    /\ \A n \in 1 .. MaxDepth + 1 : \A h \in Groups \cup {Nowhere} :
          f[n][h] = IF h \notin DOMAIN lookup THEN <<>> ELSE Append(f[n - 1][lookup[h]], h)

LEMMA PathsFound ==
    ASSUME NEW lookup
    PROVE  \E f : Finds(f, lookup)
<1> DEFINE f == CHOOSE g : Resolves(g, MaxDepth + 1, lookup)
<1>1. MaxDepth + 1 \in Nat /\ 0 \in 0 .. MaxDepth + 1 /\ MaxDepth + 1 \in 0 .. MaxDepth + 1
  BY OneCAssumption DEF OneCAssumption
<1>2. Resolves(f, MaxDepth + 1, lookup)
  BY <1>1, PathsExist
<1>3. \A h : PathOf(lookup, h) = f[MaxDepth + 1][h]
  BY DEF PathOf, Resolves
<1> HIDE DEF f
<1>4. ASSUME NEW n \in 0 .. MaxDepth + 1, NEW h \in Groups \cup {Nowhere}
      PROVE  f[n][h] = IF n = 0 \/ h \notin DOMAIN lookup THEN <<>>
                       ELSE Append(f[n - 1][lookup[h]], h)
  <2>1. f[n] = [k \in Groups \cup {Nowhere} |->
                   IF n = 0 \/ k \notin DOMAIN lookup THEN <<>>
                   ELSE Append(f[n - 1][lookup[k]], k)]
    BY <1>2 DEF Resolves
  <2> QED BY <2>1
<1>5. \A h \in Groups \cup {Nowhere} : f[0][h] = <<>>
  BY <1>1, <1>4
<1>6. \A n \in 1 .. MaxDepth + 1 : \A h \in Groups \cup {Nowhere} :
          f[n][h] = IF h \notin DOMAIN lookup THEN <<>> ELSE Append(f[n - 1][lookup[h]], h)
  BY <1>1, <1>4
<1> QED BY <1>3, <1>5, <1>6 DEF Finds

LEMMA PathsAreSequences ==
    ASSUME NEW lookup, IsLookup(lookup), NEW f, Finds(f, lookup),
           NEW n \in 0 .. MaxDepth + 1
    PROVE  \A h \in Groups \cup {Nowhere} : f[n][h] \in Seq(Groups)
<1> DEFINE Good == {k \in Nat : k <= MaxDepth + 1 =>
                                    \A h \in Groups \cup {Nowhere} : f[k][h] \in Seq(Groups)}
<1>1. 0 \in Good
  <2>1. \A h \in Groups \cup {Nowhere} : f[0][h] = <<>>
    BY DEF Finds
  <2>2. <<>> \in Seq(Groups)
    OBVIOUS
  <2> QED BY <2>1, <2>2
<1>2. ASSUME NEW k \in 1 .. n, k - 1 \in Good PROVE k \in Good
  <2>1. MaxDepth \in Nat
    BY OneCAssumption DEF OneCAssumption
  <2>2. \A h \in Groups \cup {Nowhere} : f[k - 1][h] \in Seq(Groups)
    BY <1>2, <2>1
  <2>3. ASSUME NEW h \in Groups \cup {Nowhere} PROVE f[k][h] \in Seq(Groups)
    <3>1. f[k][h] = IF h \notin DOMAIN lookup THEN <<>> ELSE Append(f[k - 1][lookup[h]], h)
      BY <2>1 DEF Finds
    <3>2. CASE h \notin DOMAIN lookup
      BY <3>1, <3>2
    <3>3. CASE h \in DOMAIN lookup
      <4>1. lookup[h] \in Groups \cup {Nowhere} /\ h \in Groups
        BY <3>3 DEF IsLookup
      <4>2. f[k - 1][lookup[h]] \in Seq(Groups)
        BY <2>2, <4>1
      <4> QED BY <3>1, <3>3, <4>1, <4>2
    <3> QED BY <3>2, <3>3
  <2> QED BY <2>3
<1>3. n \in Good
  <2>1. Good \in SUBSET Nat /\ n \in Nat
    BY OneCAssumption DEF OneCAssumption
  <2> HIDE DEF Good
  <2> QED BY <1>1, <1>2, <2>1, LoopEnds
<1> QED BY <1>3, OneCAssumption DEF OneCAssumption

LEMMA PathEndsHere ==
    ASSUME NEW lookup, IsLookup(lookup), NEW g \in DOMAIN lookup
    PROVE  PathOf(lookup, g) \in Seq(Groups) /\ Last(PathOf(lookup, g)) = g
<1>1. PICK f : Finds(f, lookup)
  BY PathsFound
<1>2. MaxDepth + 1 \in 1 .. MaxDepth + 1 /\ MaxDepth \in 0 .. MaxDepth + 1
      /\ MaxDepth + 1 - 1 = MaxDepth /\ g \in Groups /\ lookup[g] \in Groups \cup {Nowhere}
  BY OneCAssumption DEF OneCAssumption, IsLookup
<1>3. f[MaxDepth][lookup[g]] \in Seq(Groups)
  BY <1>1, <1>2, PathsAreSequences
<1>4. PathOf(lookup, g) = Append(f[MaxDepth][lookup[g]], g)
  <2>1. f[MaxDepth + 1][g] = Append(f[MaxDepth][lookup[g]], g)
    <3>1. PICK n \in 1 .. MaxDepth + 1 : n = MaxDepth + 1
      BY <1>2
    <3>2. n - 1 = MaxDepth
      BY <1>2, <3>1
    <3>3. f[n][g] = Append(f[n - 1][lookup[g]], g)
      BY <1>1, <1>2 DEF Finds
    <3> QED BY <3>1, <3>2, <3>3
  <2>2. f[MaxDepth + 1][g] = PathOf(lookup, g)
    BY <1>1, <1>2 DEF Finds
  <2> QED BY <1>2, <2>1, <2>2
<1> QED BY <1>2, <1>3, <1>4 DEF Last

\* Lookups that agree on a group and all above it find the same path.
LEMMA PathsAgree ==
    ASSUME NEW a, NEW b, NEW U \in SUBSET Groups, Nowhere \notin DOMAIN a,
           Nowhere \notin DOMAIN b,
           \A h \in U : /\ h \in DOMAIN a /\ h \in DOMAIN b /\ a[h] = b[h]
                        /\ a[h] \in U \cup {Nowhere},
           NEW g \in U
    PROVE  PathOf(a, g) = PathOf(b, g)
<1>1. PICK f : Finds(f, a)
  BY PathsFound
<1>2. PICK e : Finds(e, b)
  BY PathsFound
<1> DEFINE Good == {k \in Nat : k <= MaxDepth + 1 => \A h \in U \cup {Nowhere} : f[k][h] = e[k][h]}
<1>3. 0 \in Good
  BY <1>1, <1>2 DEF Finds
<1>4. ASSUME NEW k \in 1 .. MaxDepth + 1, k - 1 \in Good PROVE k \in Good
  <2>1. MaxDepth \in Nat
    BY OneCAssumption DEF OneCAssumption
  <2>2. \A h \in U \cup {Nowhere} : f[k - 1][h] = e[k - 1][h]
    BY <1>4, <2>1
  <2>3. ASSUME NEW h \in U \cup {Nowhere} PROVE f[k][h] = e[k][h]
    <3>1. /\ f[k][h] = IF h \notin DOMAIN a THEN <<>> ELSE Append(f[k - 1][a[h]], h)
          /\ e[k][h] = IF h \notin DOMAIN b THEN <<>> ELSE Append(e[k - 1][b[h]], h)
      BY <1>1, <1>2, <2>1 DEF Finds
    <3>2. CASE h = Nowhere
      BY <3>1, <3>2
    <3>3. CASE h \in U
      <4>1. f[k - 1][a[h]] = e[k - 1][b[h]]
        BY <2>2, <3>3
      <4> QED BY <3>1, <3>3, <4>1
    <3> QED BY <3>2, <3>3
  <2> QED BY <2>3
<1>5. MaxDepth + 1 \in Good
  <2>1. Good \in SUBSET Nat /\ MaxDepth + 1 \in Nat
    BY OneCAssumption DEF OneCAssumption
  <2> HIDE DEF Good
  <2> QED BY <1>3, <1>4, <2>1, LoopEnds
<1>6. f[MaxDepth + 1][g] = e[MaxDepth + 1][g]
  BY <1>5, OneCAssumption DEF OneCAssumption
<1> QED BY <1>1, <1>2, <1>6 DEF Finds

LEMMA RangeGrows ==
    ASSUME NEW S, NEW s \in Seq(S), NEW x
    PROVE  Range(Append(s, x)) = Range(s) \cup {x}
<1> DEFINE t == Append(s, x)
           n == Len(s)
<1>1. n \in Nat /\ DOMAIN s = 1 .. n /\ DOMAIN t = 1 .. n + 1
      /\ t[n + 1] = x /\ \A k \in 1 .. n : t[k] = s[k]
  OBVIOUS
<1> HIDE DEF t, n
<1>2. \A k \in 1 .. n + 1 : k \in 1 .. n \/ k = n + 1
  BY <1>1
<1>3. Range(t) = Range(s) \cup {x}
  BY <1>1, <1>2 DEF Range
<1> QED BY <1>3 DEF t

\* A path that is not cut off has all the groups from its end upwards.
LEMMA PathHasAll ==
    ASSUME NEW up, IsForest(up), NEW g \in DOMAIN up,
           Cardinality(Upwards(up, g)) <= MaxDepth + 1
    PROVE  Range(PathOf(up, g)) = Upwards(up, g)
<1>1. PICK f : Finds(f, up)
  BY PathsFound
<1>2. IsLookup(up) /\ Nowhere \notin DOMAIN up /\ Nowhere \notin Groups /\ MaxDepth \in Nat
  BY OneCAssumption DEF IsForest, IsLookup, OneCAssumption
<1>3. ASSUME NEW h \in DOMAIN up
      PROVE  IsFiniteSet(Upwards(up, h)) /\ Cardinality(Upwards(up, h)) \in Nat
             /\ Cardinality(Upwards(up, h)) >= 1
  <2>1. Upwards(up, h) \in SUBSET Groups /\ h \in Upwards(up, h)
    BY UpwardsIsLeast DEF IsForest
  <2>2. IsFiniteSet(Upwards(up, h)) /\ Cardinality(Upwards(up, h)) \in Nat
    BY <2>1, FS_Subset, FS_CardinalityType, OneCAssumption DEF OneCAssumption
  <2>3. Cardinality(Upwards(up, h)) # 0
    BY <2>1, <2>2, FS_EmptySet
  <2> QED BY <2>2, <2>3
<1> DEFINE Good == {k \in Nat : k <= MaxDepth + 1 =>
              \A h \in DOMAIN up : Cardinality(Upwards(up, h)) <= k
                                       => Range(f[k][h]) = Upwards(up, h)}
<1>4. 0 \in Good
  BY <1>3
<1>5. ASSUME NEW k \in 1 .. MaxDepth + 1, k - 1 \in Good PROVE k \in Good
  <2>1. \A h \in DOMAIN up : Cardinality(Upwards(up, h)) <= k - 1
                                       => Range(f[k - 1][h]) = Upwards(up, h)
    BY <1>2, <1>5
  <2>2. ASSUME NEW h \in DOMAIN up, Cardinality(Upwards(up, h)) <= k
        PROVE  Range(f[k][h]) = Upwards(up, h)
    <3>1. h \in Groups /\ up[h] \in Groups \cup {Nowhere} /\ k - 1 \in 0 .. MaxDepth + 1
      BY <1>2 DEF IsLookup
    <3>2. f[k][h] = Append(f[k - 1][up[h]], h)
      BY <1>1, <3>1 DEF Finds
    <3>3. f[k - 1][up[h]] \in Seq(Groups)
      BY <1>1, <1>2, <3>1, PathsAreSequences
    <3>4. Range(f[k][h]) = Range(f[k - 1][up[h]]) \cup {h}
      BY <3>1, <3>2, <3>3, RangeGrows
    <3>5. CASE up[h] = Nowhere
      <4>1. f[k - 1][Nowhere] = <<>>
        <5>1. CASE k - 1 = 0
          BY <1>1, <5>1 DEF Finds
        <5>2. CASE k - 1 # 0
          BY <1>1, <1>2, <3>1, <5>2 DEF Finds
        <5> QED BY <5>1, <5>2
      <4>2. Range(<<>>) = {}
        BY DEF Range
      <4>3. Upwards(up, h) = {h}
        BY <3>5, UpwardsFromAbove
      <4> QED BY <3>4, <3>5, <4>1, <4>2, <4>3
    <3>6. CASE up[h] # Nowhere
      <4>1. up[h] \in DOMAIN up /\ Upwards(up, h) = {h} \cup Upwards(up, up[h])
        BY <3>6, UpwardsFromAbove
      <4>2. h \notin Upwards(up, up[h])
        BY <1>2, <3>6, UpwardsEnds
      <4>3. Cardinality(Upwards(up, h)) = Cardinality(Upwards(up, up[h])) + 1
        <5>1. Upwards(up, h) = Upwards(up, up[h]) \cup {h}
          BY <4>1
        <5> QED BY <1>3, <4>1, <4>2, <5>1, FS_AddElement
      <4>4. Cardinality(Upwards(up, up[h])) <= k - 1
        BY <1>3, <2>2, <4>1, <4>3
      <4>5. Range(f[k - 1][up[h]]) = Upwards(up, up[h])
        BY <2>1, <4>1, <4>4
      <4> QED BY <3>4, <4>1, <4>5
    <3> QED BY <3>5, <3>6
  <2> QED BY <2>2
<1>6. MaxDepth + 1 \in Good
  <2>1. Good \in SUBSET Nat /\ MaxDepth + 1 \in Nat
    BY <1>2
  <2> HIDE DEF Good
  <2> QED BY <1>4, <1>5, <2>1, LoopEnds
<1>7. Range(f[MaxDepth + 1][g]) = Upwards(up, g)
  BY <1>2, <1>6
<1> QED BY <1>1, <1>2, <1>7 DEF Finds, IsLookup

-----------------------------------------------------------------------------
\* The fetch.

HasOnce(s, i) == \E k \in DOMAIN s : \A l \in DOMAIN s : s[l] = i <=> l = k

LEMMA ConcatOnce ==
    ASSUME NEW S, NEW a \in Seq(S), NEW b \in Seq(S), NEW i
    PROVE  /\ i \in Range(a \o b) <=> i \in Range(a) \cup Range(b)
           /\ HasOnce(a, i) /\ i \notin Range(b) => HasOnce(a \o b, i)
           /\ i \notin Range(a) /\ HasOnce(b, i) => HasOnce(a \o b, i)
<1> DEFINE c == a \o b
           m == Len(a)
           n == Len(b)
<1>1. /\ m \in Nat /\ n \in Nat /\ DOMAIN a = 1 .. m /\ DOMAIN b = 1 .. n
      /\ DOMAIN c = 1 .. m + n
      /\ \A k \in 1 .. m : c[k] = a[k]
      /\ \A k \in 1 .. m + n : k > m => c[k] = b[k - m]
  OBVIOUS
<1> HIDE DEF c, m, n
<1>2. ASSUME NEW k \in 1 .. n PROVE c[m + k] = b[k] /\ m + k \in 1 .. m + n
  <2>1. PICK j \in 1 .. m + n : j = m + k
    BY <1>1
  <2>2. j > m /\ j - m = k
    BY <1>1, <2>1
  <2>3. c[j] = b[j - m]
    BY <1>1, <2>2
  <2> QED BY <2>1, <2>2, <2>3
<1>3. ASSUME NEW k \in 1 .. m + n
      PROVE  k \in 1 .. m \/ k - m \in 1 .. n
  BY <1>1
<1>4. i \in Range(c) <=> i \in Range(a) \cup Range(b)
  <2>1. ASSUME NEW k \in 1 .. m + n PROVE c[k] \in Range(a) \cup Range(b)
    <3>1. CASE k \in 1 .. m
      BY <1>1, <3>1 DEF Range
    <3>2. CASE k \notin 1 .. m
      <4>1. k > m /\ k - m \in 1 .. n
        BY <1>1, <3>2
      <4>2. c[k] = b[k - m]
        BY <1>1, <4>1
      <4> QED BY <1>1, <4>1, <4>2 DEF Range
    <3> QED BY <3>1, <3>2
  <2>2. \A k \in 1 .. m : a[k] \in Range(c)
    <3>1. \A k \in 1 .. m : k \in 1 .. m + n
      BY <1>1
    <3> QED BY <1>1, <3>1 DEF Range
  <2>3. \A k \in 1 .. n : b[k] \in Range(c)
    BY <1>1, <1>2 DEF Range
  <2> QED BY <1>1, <2>1, <2>2, <2>3, Zenon DEF Range
<1>5. ASSUME HasOnce(a, i), i \notin Range(b) PROVE HasOnce(c, i)
  <2>1. PICK k \in DOMAIN a : \A l \in DOMAIN a : a[l] = i <=> l = k
    BY <1>5 DEF HasOnce
  <2>2. k \in DOMAIN c
    BY <1>1, <2>1
  <2>3. ASSUME NEW l \in DOMAIN c PROVE c[l] = i <=> l = k
    <3>1. CASE l \in 1 .. m
      BY <1>1, <2>1, <3>1
    <3>2. CASE l \notin 1 .. m
      <4>1. l > m /\ l - m \in 1 .. n
        BY <1>1, <3>2
      <4>2. c[l] = b[l - m] /\ l # k
        BY <1>1, <2>1, <4>1
      <4>3. c[l] # i
        BY <1>1, <1>5, <4>1, <4>2 DEF Range
      <4> QED BY <4>2, <4>3
    <3> QED BY <3>1, <3>2
  <2> QED BY <2>2, <2>3 DEF HasOnce
<1>6. ASSUME i \notin Range(a), HasOnce(b, i) PROVE HasOnce(c, i)
  <2>1. PICK k \in DOMAIN b : \A l \in DOMAIN b : b[l] = i <=> l = k
    BY <1>6 DEF HasOnce
  <2>2. PICK j \in DOMAIN c : j = m + k
    BY <1>1, <2>1
  <2>3. ASSUME NEW l \in DOMAIN c PROVE c[l] = i <=> l = j
    <3>1. CASE l \in 1 .. m
      <4>1. c[l] = a[l] /\ a[l] # i
        BY <1>1, <1>6, <3>1 DEF Range
      <4>2. l # j
        BY <1>1, <2>1, <2>2, <3>1
      <4> QED BY <4>1, <4>2
    <3>2. CASE l \notin 1 .. m
      <4>1. l > m /\ l - m \in 1 .. n
        BY <1>1, <3>2
      <4>2. c[l] = b[l - m]
        BY <1>1, <4>1
      <4>3. c[l] = i <=> l - m = k
        BY <1>1, <2>1, <4>1, <4>2
      <4> QED BY <1>1, <2>1, <2>2, <4>1, <4>3
    <3> QED BY <3>1, <3>2
  <2> QED BY <2>2, <2>3 DEF HasOnce
<1> QED BY <1>4, <1>5, <1>6 DEF c

WorldInv ==
    /\ items \in SUBSET Items /\ IsForest(above)
    /\ home \in [Items -> Groups \cup {Nowhere}]
    /\ homes \in [Items -> SUBSET (Groups \cup {Nowhere})]
    /\ shifted \in SUBSET Items /\ regrouped \in SUBSET Groups /\ edits \in 0 .. MaxEdits

PathsInv ==
    /\ DOMAIN paths \subseteq Groups
    /\ \A g \in DOMAIN paths :
          /\ paths[g] \in Seq(Groups) /\ Last(paths[g]) = g
          /\ g \notin regrouped =>
                /\ g \in DOMAIN above
                /\ Upwards(above, g) \subseteq DOMAIN paths \ regrouped
                      => paths[g] = PathOf(above, g)

\* The items that no edit has moved are read up to skip and there are none of them beyond
\* what was counted.
ReadInv ==
    /\ phase \in {"groups", "count", "read", "done", "dry", "failed"}
    /\ skip \in Nat /\ total \in 0 .. Cardinality(Items) /\ fetched \in Seq(Items \ Nameless)
    /\ phase \in {"groups", "count"} => skip = 0 /\ fetched = <<>>
    /\ phase \in {"read", "done"} =>
          \A i \in Items \ shifted :
             /\ i \in items
             /\ Rank(i, items) < IF phase = "read" THEN total ELSE skip
             /\ i \notin Nameless =>
                    IF Rank(i, items) < skip THEN HasOnce(fetched, i) ELSE i \notin Range(fetched)

\* What was read of an item is a group that it has been in.
KeysInv ==
    /\ keys \in Seq(Groups \cup {Nowhere}) /\ Len(keys) = Len(fetched)
    /\ phase \in {"read", "done"} =>
          /\ \A i \in Items : home[i] \in homes[i]
          /\ \A k \in DOMAIN fetched : keys[k] \in homes[fetched[k]]

PlacesInv ==
    places = IF phase = "done" THEN [k \in DOMAIN keys |-> PlaceOf(keys[k])] ELSE <<>>

OneCInv == WorldInv /\ PathsInv /\ ReadInv /\ KeysInv /\ PlacesInv

LEMMA WorldStarts == ASSUME OneCInit PROVE OneCInv
<1>1. IsForest(above)
  BY TreesAssumption DEF OneCInit, TreesAssumption, Forests, IsForest
<1>2. WorldInv
  <2>1. /\ home \in [Items -> Groups \cup {Nowhere}] /\ items \in SUBSET Items
        /\ homes = [i \in Items |-> {}]
    BY OneCAssumption DEF OneCInit, OneCAssumption
  <2> QED BY <1>1, <2>1, OneCAssumption DEF OneCInit, OneCAssumption, WorldInv
<1>3. /\ DOMAIN paths = {} /\ phase = "groups" /\ fetched = <<>> /\ keys = <<>>
      /\ skip = 0 /\ total = 0 /\ places = <<>>
  BY DEF OneCInit
<1>4. PathsInv
  BY <1>3 DEF PathsInv
<1>5. ReadInv
  <2>1. Cardinality(Items) \in Nat /\ <<>> \in Seq(Items \ Nameless)
    BY FS_CardinalityType, OneCAssumption DEF OneCAssumption
  <2> QED BY <1>3, <2>1 DEF ReadInv
<1>6. KeysInv
  BY <1>3 DEF KeysInv
<1> QED BY <1>2, <1>3, <1>4, <1>5, <1>6 DEF OneCInv, PlacesInv

LEMMA SubgroupsAre ==
    ASSUME WorldInv, NEW g \in Groups
    PROVE  Subgroups(g) \in SUBSET Groups /\ g \in Subgroups(g)
BY DEF Subgroups, WorldInv, IsForest

LEMMA RegroupKeepsWorld ==
    ASSUME WorldInv, NEW g \in Groups, Regroup(g)
    PROVE  WorldInv'
<1>1. PICK h \in (DOMAIN above \ Subgroups(g)) \cup {Nowhere} :
          above' = [k \in DOMAIN above \cup {g} |-> IF k = g THEN h ELSE above[k]]
  BY DEF Regroup
<1>2. IsForest(above) /\ Nowhere \notin Groups
  BY OneCAssumption DEF WorldInv, OneCAssumption
<1>3. h # g /\ (h # Nowhere => g \notin Upwards(above, h))
  BY <1>1, <1>2 DEF Subgroups
<1>4. IsForest(above')
  BY <1>1, <1>2, <1>3, ForestRegrouped
<1>5. regrouped' \in SUBSET Groups
  BY SubgroupsAre DEF Regroup, WorldInv
<1>6. edits' \in 0 .. MaxEdits
  BY OneCAssumption DEF Regroup, Edits, WorldInv, OneCAssumption
<1>7. UNCHANGED <<items, home, shifted, homes>>
  BY DEF Regroup
<1> QED BY <1>4, <1>5, <1>6, <1>7 DEF WorldInv

LEMMA RemoveKeepsWorld ==
    ASSUME WorldInv, NEW g \in Groups, RemoveGroup(g)
    PROVE  WorldInv'
<1>1. IsForest(above')
  BY ForestPruned DEF RemoveGroup, WorldInv
<1>2. regrouped' \in SUBSET Groups
  BY DEF RemoveGroup, WorldInv
<1>3. edits' \in 0 .. MaxEdits
  BY OneCAssumption DEF RemoveGroup, Edits, WorldInv, OneCAssumption
<1>4. UNCHANGED <<items, home, shifted, homes>>
  BY DEF RemoveGroup
<1> QED BY <1>1, <1>2, <1>3, <1>4 DEF WorldInv

\* An item that settles has been where it is, and all the others where they were.
LEMMA Settles ==
    ASSUME WorldInv, NEW i \in Items, NEW g \in DOMAIN above \cup {Nowhere}, EntersGroup(i, g)
    PROVE  /\ home' \in [Items -> Groups \cup {Nowhere}]
           /\ homes' \in [Items -> SUBSET (Groups \cup {Nowhere})]
           /\ \A j \in Items : homes[j] \subseteq homes'[j]
           /\ phase = "read" /\ (\A j \in Items : home[j] \in homes[j])
                 => \A j \in Items : home'[j] \in homes'[j]
<1>1. g \in Groups \cup {Nowhere}
  BY DEF WorldInv, IsForest
<1>2. /\ home \in [Items -> Groups \cup {Nowhere}]
      /\ homes \in [Items -> SUBSET (Groups \cup {Nowhere})]
  BY DEF WorldInv
<1> QED BY <1>1, <1>2 DEF EntersGroup

LEMMA EditKeepsWorld ==
    ASSUME WorldInv, NEW i \in Items, Edit(i) \/ Move(i)
    PROVE  WorldInv'
<1>1. items' \in SUBSET Items /\ shifted' \in SUBSET Items
  BY DEF Edit, Move, WorldInv
<1>2. edits' \in 0 .. MaxEdits
  BY OneCAssumption DEF Edit, Move, Edits, WorldInv, OneCAssumption
<1>3. UNCHANGED <<above, regrouped>>
  BY DEF Edit, Move
<1>4. /\ home' \in [Items -> Groups \cup {Nowhere}]
      /\ homes' \in [Items -> SUBSET (Groups \cup {Nowhere})]
  <2>1. CASE UNCHANGED <<home, homes>>
    BY <2>1 DEF WorldInv
  <2>2. CASE \E g \in DOMAIN above \cup {Nowhere} : EntersGroup(i, g)
    BY <2>2, Settles
  <2> QED BY <2>1, <2>2 DEF Edit, Move
<1> QED BY <1>1, <1>2, <1>3, <1>4 DEF WorldInv

LEMMA WorldKept ==
    ASSUME WorldInv, [OneCNext]_onecVars
    PROVE  WorldInv'
<1>1. CASE FetchCategoryMap
  <2>1. UNCHANGED <<items, home, above, shifted, homes, edits>> /\ regrouped' = {}
    BY <1>1 DEF FetchCategoryMap
  <2> QED BY <2>1 DEF WorldInv
<1>2. CASE GetTotalCount
  <2>1. UNCHANGED <<items, home, above, regrouped, edits>> /\ shifted' = Items \ items
        /\ homes' = [i \in Items |-> {home[i]}]
    BY <1>2 DEF GetTotalCount
  <2>2. homes' \in [Items -> SUBSET (Groups \cup {Nowhere})]
    BY <2>1 DEF WorldInv
  <2> QED BY <2>1, <2>2 DEF WorldInv
<1>3. CASE DryRun \/ FetchPage \/ EmptyPage \/ FetchFails \/ UNCHANGED onecVars
  <2>1. UNCHANGED worldVars1C
    BY <1>3 DEF DryRun, FetchPage, EmptyPage, FetchFails, onecVars
  <2> QED BY <2>1 DEF WorldInv, worldVars1C
<1>4. CASE \E i \in Items : Edit(i) \/ Move(i)
  BY <1>4, EditKeepsWorld
<1>5. CASE \E g \in Groups : Regroup(g) \/ RemoveGroup(g)
  BY <1>5, RegroupKeepsWorld, RemoveKeepsWorld
<1> QED BY <1>1, <1>2, <1>3, <1>4, <1>5 DEF OneCNext

\* The lookup that was read finds the same path as long as the groups above do not move.
LEMMA MapKeepsPaths ==
    ASSUME WorldInv, FetchCategoryMap
    PROVE  PathsInv'
<1>1. PICK gs \in SUBSET DOMAIN above : paths' = [g \in gs |-> PathOf(Restrict(above, gs), g)]
  BY DEF FetchCategoryMap
<1> DEFINE lookup == Restrict(above, gs)
<1>2. DOMAIN lookup = gs /\ (\A h \in gs : lookup[h] = above[h]) /\ above' = above
  BY DEF Restrict, FetchCategoryMap
<1>3. IsLookup(lookup) /\ IsForest(above) /\ Nowhere \notin DOMAIN above /\ DOMAIN above \subseteq Groups
  BY <1>2, OneCAssumption DEF IsLookup, WorldInv, IsForest, OneCAssumption, Restrict
<1> HIDE DEF lookup
<1>4. ASSUME NEW g \in gs
      PROVE  /\ PathOf(lookup, g) \in Seq(Groups) /\ Last(PathOf(lookup, g)) = g
             /\ Upwards(above, g) \subseteq gs => PathOf(lookup, g) = PathOf(above, g)
  <2>1. PathOf(lookup, g) \in Seq(Groups) /\ Last(PathOf(lookup, g)) = g
    BY <1>2, <1>3, PathEndsHere
  <2>2. ASSUME Upwards(above, g) \subseteq gs PROVE PathOf(lookup, g) = PathOf(above, g)
    <3> DEFINE U == Upwards(above, g)
    <3>1. g \in U /\ U \in SUBSET DOMAIN above /\ Closed(above, U)
      BY <1>3, UpwardsIsLeast
    <3> HIDE DEF U
    <3>2. U \subseteq gs
      BY <2>2 DEF U
    <3>3. \A h \in U : /\ h \in DOMAIN lookup /\ h \in DOMAIN above /\ lookup[h] = above[h]
                       /\ lookup[h] \in U \cup {Nowhere}
      BY <1>2, <3>1, <3>2 DEF Closed
    <3>4. U \in SUBSET Groups /\ Nowhere \notin DOMAIN lookup
      BY <1>2, <1>3, <3>1
    <3> QED BY <1>3, <3>1, <3>3, <3>4, PathsAgree
  <2> QED BY <2>1, <2>2
<1>5. DOMAIN paths' = gs /\ \A g \in gs : paths'[g] = PathOf(lookup, g)
  BY <1>1 DEF lookup
<1> QED BY <1>2, <1>3, <1>4, <1>5 DEF PathsInv

\* Paths stay right as long as only groups that are named as such come, go or move.
LEMMA PathsFollow ==
    ASSUME WorldInv, PathsInv, IsForest(above'), paths' = paths, regrouped \subseteq regrouped',
           \A k \in DOMAIN above \ regrouped' : k \in DOMAIN above' /\ above'[k] = above[k]
    PROVE  PathsInv'
<1>1. IsForest(above) /\ Nowhere \notin Groups
  BY OneCAssumption DEF WorldInv, OneCAssumption
<1>2. ASSUME NEW f \in DOMAIN paths, f \notin regrouped'
      PROVE  f \in DOMAIN above /\ f \in DOMAIN above'
  BY <1>2 DEF PathsInv
<1>3. ASSUME NEW f \in DOMAIN paths, f \notin regrouped',
             Upwards(above', f) \subseteq DOMAIN paths \ regrouped'
      PROVE  paths[f] = PathOf(above', f)
  <2> DEFINE U == Upwards(above', f)
  <2>1. f \in DOMAIN above /\ f \in DOMAIN above'
    BY <1>2, <1>3
  <2>2. \A k \in U : k \in DOMAIN above /\ above[k] = above'[k]
    BY <1>2, <1>3
  <2>3. Upwards(above, f) = U
    BY <1>1, <2>1, <2>2, UpwardsAgree
  <2>4. paths[f] = PathOf(above, f)
    BY <1>3, <2>3 DEF PathsInv
  <2>5. f \in U /\ U \in SUBSET DOMAIN above' /\ Closed(above', U)
    BY <2>1, UpwardsIsLeast
  <2> HIDE DEF U
  <2>6. \A k \in U : /\ k \in DOMAIN above /\ k \in DOMAIN above' /\ above[k] = above'[k]
                     /\ above[k] \in U \cup {Nowhere}
    BY <2>2, <2>5 DEF Closed
  <2>7. U \in SUBSET Groups /\ Nowhere \notin DOMAIN above /\ Nowhere \notin DOMAIN above'
    BY <1>1, <2>5 DEF IsForest
  <2>8. PathOf(above, f) = PathOf(above', f)
    BY <2>5, <2>6, <2>7, PathsAgree
  <2> QED BY <2>4, <2>8
<1> QED BY <1>2, <1>3 DEF PathsInv

LEMMA RegroupKeepsPaths ==
    ASSUME WorldInv, PathsInv, NEW g \in Groups, Regroup(g) \/ RemoveGroup(g)
    PROVE  PathsInv'
<1>1. IsForest(above')
  BY RegroupKeepsWorld, RemoveKeepsWorld DEF WorldInv
<1>2. paths' = paths /\ regrouped \subseteq regrouped' /\ g \in regrouped'
  BY SubgroupsAre DEF Regroup, RemoveGroup, Edits
<1>3. ASSUME NEW k \in DOMAIN above, k # g PROVE k \in DOMAIN above' /\ above'[k] = above[k]
  <2>1. CASE Regroup(g)
    BY <1>3, <2>1 DEF Regroup
  <2>2. CASE RemoveGroup(g)
    BY <1>3, <2>2 DEF RemoveGroup, Restrict
  <2> QED BY <2>1, <2>2
<1> QED BY <1>1, <1>2, <1>3, PathsFollow

LEMMA PathsKept ==
    ASSUME WorldInv, PathsInv, [OneCNext]_onecVars
    PROVE  PathsInv'
<1>1. CASE FetchCategoryMap
  BY <1>1, MapKeepsPaths
<1>2. CASE \/ GetTotalCount \/ DryRun \/ FetchPage \/ EmptyPage \/ FetchFails
           \/ UNCHANGED onecVars \/ \E i \in Items : Edit(i) \/ Move(i)
  <2>1. UNCHANGED <<paths, above, regrouped>>
    BY <1>2 DEF GetTotalCount, DryRun, FetchPage, EmptyPage, FetchFails, onecVars, worldVars1C,
       Edit, Move, Edits
  <2> QED BY <2>1 DEF PathsInv
<1>3. CASE \E g \in Groups : Regroup(g) \/ RemoveGroup(g)
  BY <1>3, RegroupKeepsPaths
<1> QED BY <1>1, <1>2, <1>3 DEF OneCNext

\* A page reads on to where it ends, without the items that have no name.
LEMMA PageReads ==
    ASSUME WorldInv, ReadInv, FetchPage
    PROVE  /\ skip' \in Nat /\ skip <= skip' /\ fetched' \in Seq(Items \ Nameless)
           /\ \A i \in Items \ shifted : i \notin Nameless =>
                  IF Rank(i, items) < skip' THEN HasOnce(fetched', i) ELSE i \notin Range(fetched')
<1>1. PICK k \in skip + 1 .. Cardinality(items) :
          LET page == {i \in items : skip <= Rank(i, items) /\ Rank(i, items) < k}
          IN  fetched' = fetched \o Mapped1C(page) /\ skip' = skip + Cardinality(page)
  BY DEF FetchPage, Pages
<1> DEFINE page == {i \in items : skip <= Rank(i, items) /\ Rank(i, items) < k}
           named == page \ Nameless
           more == InOrder(named)
<1>2. items \in SUBSET Nat /\ IsFiniteSet(items) /\ items \in SUBSET Items /\ skip \in Nat
      /\ Cardinality(items) \in Nat /\ phase = "read" /\ fetched \in Seq(Items \ Nameless)
  BY FS_Subset, FS_CardinalityType, OneCAssumption DEF WorldInv, OneCAssumption, ReadInv, FetchPage
<1>3. k \in Nat /\ skip < k /\ k <= Cardinality(items)
  BY <1>2
<1>4. skip' = k
  <2>1. Cardinality(page) = k - skip
    BY <1>2, <1>3, PageSizes
  <2>2. skip' = skip + Cardinality(page)
    BY <1>1
  <2> HIDE DEF page
  <2> QED BY <1>2, <1>3, <2>1, <2>2
<1>5. named \in SUBSET Nat /\ IsFiniteSet(named) /\ named \in SUBSET (Items \ Nameless)
  BY <1>2, FS_Subset
<1>6. fetched' = fetched \o more
  BY <1>1 DEF Mapped1C
<1>7. more \in Seq(named) /\ \A i \in named : HasOnce(more, i)
  <2> HIDE DEF named
  <2> QED BY <1>5, InOrderHasAll DEF HasOnce
<1>8. more \in Seq(Items \ Nameless)
  <2> HIDE DEF named, more
  <2>1. \A n \in 1 .. Len(more) : more[n] \in named
    BY <1>7
  <2>2. more = [n \in 1 .. Len(more) |-> more[n]] /\ Len(more) \in Nat
    BY <1>7
  <2>3. \A n \in 1 .. Len(more) : more[n] \in Items \ Nameless
    BY <1>5, <2>1
  <2> QED BY <2>2, <2>3
<1>9. Range(more) \subseteq named
  <2> HIDE DEF named, more
  <2> QED BY <1>7 DEF Range
<1>10. ASSUME NEW i \in Items \ shifted, i \notin Nameless
       PROVE  IF Rank(i, items) < k THEN HasOnce(fetched', i) ELSE i \notin Range(fetched')
  <2>1. i \in items
    BY <1>2 DEF ReadInv
  <2>2. Rank(i, items) \in Nat
    BY <1>2, <2>1, RankGrows
  <2>3. IF Rank(i, items) < skip THEN HasOnce(fetched, i) ELSE i \notin Range(fetched)
    BY <1>2, <1>10 DEF ReadInv
  <2>4. /\ i \in Range(fetched') <=> i \in Range(fetched) \cup Range(more)
        /\ HasOnce(fetched, i) /\ i \notin Range(more) => HasOnce(fetched', i)
        /\ i \notin Range(fetched) /\ HasOnce(more, i) => HasOnce(fetched', i)
    <3> HIDE DEF more
    <3> QED BY <1>2, <1>6, <1>8, ConcatOnce
  <2>5. i \in named <=> skip <= Rank(i, items) /\ Rank(i, items) < k
    BY <1>10, <2>1
  <2> HIDE DEF named, more
  <2>6. CASE Rank(i, items) < skip
    BY <1>2, <1>3, <1>9, <2>2, <2>3, <2>4, <2>5, <2>6
  <2>7. CASE skip <= Rank(i, items) /\ Rank(i, items) < k
    BY <1>2, <1>7, <2>2, <2>3, <2>4, <2>5, <2>7
  <2>8. CASE k <= Rank(i, items)
    BY <1>2, <1>3, <1>9, <2>2, <2>3, <2>4, <2>5, <2>8
  <2> QED BY <1>2, <1>3, <2>2, <2>6, <2>7, <2>8
<1>11. fetched' \in Seq(Items \ Nameless)
  <2> HIDE DEF more
  <2> QED BY <1>2, <1>6, <1>8
<1> QED BY <1>2, <1>3, <1>4, <1>10, <1>11

LEMMA FetchKeepsReads ==
    ASSUME WorldInv, ReadInv, FetchPage
    PROVE  ReadInv'
<1>1. /\ skip' \in Nat /\ fetched' \in Seq(Items \ Nameless)
      /\ \A i \in Items \ shifted : i \notin Nameless =>
             IF Rank(i, items) < skip' THEN HasOnce(fetched', i) ELSE i \notin Range(fetched')
  BY PageReads
<1>2. UNCHANGED <<items, shifted, total>> /\ total \in Nat /\ total' \in 0 .. Cardinality(Items)
  BY FS_CardinalityType, OneCAssumption DEF FetchPage, worldVars1C, ReadInv, OneCAssumption
<1>3. \/ skip' < total' /\ phase' = "read"
      \/ ~(skip' < total') /\ phase' = "done"
  BY DEF FetchPage, ReadOn
<1>4. ASSUME NEW i \in Items \ shifted
      PROVE  i \in items /\ Rank(i, items) < IF phase' = "read" THEN total' ELSE skip'
  <2>1. i \in items /\ Rank(i, items) < total
    BY DEF ReadInv, FetchPage
  <2>2. Rank(i, items) \in Nat
    <3>1. items \in SUBSET Nat /\ IsFiniteSet(items)
      BY FS_Subset, OneCAssumption DEF WorldInv, OneCAssumption
    <3> QED BY <2>1, <3>1, RankGrows
  <2> QED BY <1>1, <1>2, <1>3, <2>1, <2>2
<1> QED BY <1>1, <1>2, <1>3, <1>4 DEF ReadInv

LEMMA CountKeepsReads ==
    ASSUME WorldInv, ReadInv, GetTotalCount
    PROVE  ReadInv'
<1>1. /\ UNCHANGED <<items, skip, fetched>> /\ total' = Cardinality(items)
      /\ shifted' = Items \ items /\ skip = 0 /\ fetched = <<>>
  BY DEF GetTotalCount, ReadInv
<1>2. items \in SUBSET Nat /\ items \in SUBSET Items /\ IsFiniteSet(items)
      /\ Cardinality(items) \in 0 .. Cardinality(Items)
  <2>1. items \in SUBSET Nat /\ items \in SUBSET Items /\ IsFiniteSet(items)
        /\ Cardinality(items) <= Cardinality(Items)
    BY FS_Subset, OneCAssumption DEF WorldInv, OneCAssumption
  <2> QED BY <2>1, FS_CardinalityType, OneCAssumption DEF OneCAssumption
<1>3. \/ skip' < total' /\ phase' = "read"
      \/ ~(skip' < total') /\ phase' = "done"
  BY DEF GetTotalCount, ReadOn
<1>4. ASSUME NEW i \in Items \ shifted'
      PROVE  /\ i \in items
             /\ Rank(i, items) < IF phase' = "read" THEN total' ELSE skip'
             /\ ~(Rank(i, items) < skip') /\ i \notin Range(fetched')
  <2>1. i \in items
    BY <1>1
  <2>2. Rank(i, items) \in Nat /\ Rank(i, items) < Cardinality(items)
    BY <1>2, <2>1, RankGrows
  <2>3. Range(<<>>) = {}
    BY DEF Range
  <2> QED BY <1>1, <1>2, <1>3, <2>1, <2>2, <2>3
<1>5. skip' \in Nat /\ fetched' \in Seq(Items \ Nameless)
  BY <1>1 DEF ReadInv
<1> QED BY <1>1, <1>2, <1>3, <1>4, <1>5 DEF ReadInv

\* Who is behind an edit counts as shifted; the others keep their places.
LEMMA EditKeepsReads ==
    ASSUME WorldInv, ReadInv, NEW e \in Items, Edit(e)
    PROVE  ReadInv'
<1>1. /\ UNCHANGED <<total, skip, fetched, phase>> /\ phase \in {"groups", "count", "read"}
      /\ items' = IF e \in items THEN items \ {e} ELSE items \cup {e}
      /\ phase = "read" => shifted' = shifted \cup {j \in Items : j >= e}
  BY DEF Edit, Edits, Fetching
<1>2. ASSUME phase = "read", NEW i \in Items \ shifted'
      PROVE  i \in Items \ shifted /\ i \in items' /\ Rank(i, items') = Rank(i, items)
  <2>1. i < e /\ i \in Items \ shifted
    BY <1>1, <1>2, OneCAssumption DEF OneCAssumption
  <2>2. i \in items /\ i # e
    BY <1>2, <2>1, OneCAssumption DEF ReadInv, OneCAssumption
  <2>3. \A h \in Items : h < i => h # e
    BY <2>1, OneCAssumption DEF OneCAssumption
  <2>4. {h \in items' : h < i} = {h \in items : h < i}
    BY <1>1, <2>3 DEF WorldInv
  <2> QED BY <1>1, <2>1, <2>2, <2>4 DEF Rank
<1>3. ASSUME phase' \in {"read", "done"}, NEW i \in Items \ shifted'
      PROVE  /\ i \in items'
             /\ Rank(i, items') < IF phase' = "read" THEN total' ELSE skip'
             /\ i \notin Nameless => IF Rank(i, items') < skip' THEN HasOnce(fetched', i)
                                     ELSE i \notin Range(fetched')
  <2>1. phase = "read"
    BY <1>1, <1>3
  <2>2. i \in Items \ shifted /\ i \in items' /\ Rank(i, items') = Rank(i, items)
    BY <1>2, <1>3, <2>1
  <2>3. /\ Rank(i, items) < total
        /\ i \notin Nameless => IF Rank(i, items) < skip THEN HasOnce(fetched, i)
                                ELSE i \notin Range(fetched)
    BY <2>1, <2>2 DEF ReadInv
  <2> QED BY <1>1, <2>1, <2>2, <2>3
<1> QED BY <1>1, <1>3 DEF ReadInv

LEMMA EndKeepsReads ==
    ASSUME WorldInv, ReadInv, EmptyPage
    PROVE  ReadInv'
<1>1. UNCHANGED <<items, shifted, total, skip, fetched>> /\ phase = "read" /\ phase' = "done"
      /\ skip >= Cardinality(items)
  BY DEF EmptyPage, worldVars1C
<1>2. ASSUME NEW i \in Items \ shifted PROVE i \in items /\ Rank(i, items) < skip
  <2>1. i \in items
    BY <1>1 DEF ReadInv
  <2>2. items \in SUBSET Nat /\ IsFiniteSet(items) /\ Cardinality(items) \in Nat
    BY FS_Subset, FS_CardinalityType, OneCAssumption DEF WorldInv, OneCAssumption
  <2>3. Rank(i, items) \in Nat /\ Rank(i, items) < Cardinality(items)
    BY <2>1, <2>2, RankGrows
  <2> QED BY <1>1, <2>1, <2>2, <2>3 DEF ReadInv
<1> QED BY <1>1, <1>2 DEF ReadInv

LEMMA ReadsKept ==
    ASSUME WorldInv, ReadInv, [OneCNext]_onecVars
    PROVE  ReadInv'
<1>1. CASE FetchCategoryMap
  <2>1. UNCHANGED <<items, shifted, total, skip, fetched>> /\ phase = "groups" /\ phase' = "count"
    BY <1>1 DEF FetchCategoryMap
  <2> QED BY <2>1 DEF ReadInv
<1>2. CASE DryRun
  <2>1. UNCHANGED <<items, shifted, skip, fetched>> /\ phase = "groups" /\ phase' = "dry"
        /\ total' = Cardinality(items)
    BY <1>2 DEF DryRun, worldVars1C
  <2>2. Cardinality(items) \in 0 .. Cardinality(Items)
    <3>1. IsFiniteSet(items) /\ Cardinality(items) <= Cardinality(Items)
      BY FS_Subset, OneCAssumption DEF WorldInv, OneCAssumption
    <3> QED BY <3>1, FS_CardinalityType, OneCAssumption DEF OneCAssumption
  <2> QED BY <2>1, <2>2 DEF ReadInv
<1>3. CASE FetchFails
  <2>1. UNCHANGED <<items, shifted, total, skip, fetched>> /\ phase' = "failed"
    BY <1>3 DEF FetchFails, worldVars1C
  <2> QED BY <2>1 DEF ReadInv
<1>4. CASE \/ UNCHANGED onecVars \/ \E i \in Items : Move(i)
           \/ \E g \in Groups : Regroup(g) \/ RemoveGroup(g)
  <2>1. UNCHANGED <<items, shifted, total, skip, fetched, phase>>
    BY <1>4 DEF onecVars, worldVars1C, Move, Regroup, RemoveGroup, Edits
  <2> QED BY <2>1 DEF ReadInv
<1> QED BY <1>1, <1>2, <1>3, <1>4, CountKeepsReads, FetchKeepsReads, EndKeepsReads, EditKeepsReads
        DEF OneCNext

LEMMA PageIsNamed ==
    ASSUME WorldInv, NEW page \in Pages
    PROVE  Mapped1C(page) \in Seq(Items \ Nameless)
<1> DEFINE named == page \ Nameless
           more == InOrder(named)
<1>1. page \in SUBSET items
  BY DEF Pages
<1>2. items \in SUBSET Nat /\ IsFiniteSet(items) /\ items \in SUBSET Items
  BY FS_Subset, OneCAssumption DEF WorldInv, OneCAssumption
<1>3. named \in SUBSET Nat /\ IsFiniteSet(named) /\ named \in SUBSET (Items \ Nameless)
  BY <1>1, <1>2, FS_Subset
<1> HIDE DEF named
<1>4. more \in Seq(named)
  BY <1>3, InOrderHasAll
<1> HIDE DEF more
<1>5. more = [n \in 1 .. Len(more) |-> more[n]] /\ Len(more) \in Nat
      /\ \A n \in 1 .. Len(more) : more[n] \in Items \ Nameless
  BY <1>3, <1>4
<1>6. more \in Seq(Items \ Nameless)
  BY <1>5
<1> QED BY <1>6 DEF more, named, Mapped1C

\* A page brings the groups that its items are in.
LEMMA PageKeepsKeys ==
    ASSUME WorldInv, ReadInv, KeysInv, FetchPage
    PROVE  KeysInv'
<1>1. PICK page \in Pages :
          fetched' = fetched \o Mapped1C(page) /\ keys' = keys \o KeysOf(page)
  BY DEF FetchPage
<1> DEFINE named == Mapped1C(page)
           read == KeysOf(page)
           m == Len(fetched)
           n == Len(named)
<1>2. /\ named \in Seq(Items \ Nameless) /\ fetched \in Seq(Items \ Nameless)
      /\ keys \in Seq(Groups \cup {Nowhere}) /\ Len(keys) = Len(fetched)
  BY PageIsNamed DEF ReadInv, KeysInv
<1>3. UNCHANGED <<home, homes>> /\ phase = "read"
  BY DEF FetchPage, worldVars1C
<1>4. read = [k \in DOMAIN named |-> home[named[k]]]
  BY DEF KeysOf
<1> HIDE DEF named, read
<1>5. /\ DOMAIN named = 1 .. n /\ n \in Nat /\ m \in Nat /\ DOMAIN fetched = 1 .. m
      /\ \A k \in 1 .. n : named[k] \in Items
  BY <1>2
<1>6. /\ read \in Seq(Groups \cup {Nowhere}) /\ Len(read) = n
      /\ \A k \in 1 .. n : read[k] = home[named[k]]
  BY <1>4, <1>5 DEF WorldInv
<1>7. /\ fetched' = fetched \o named /\ keys' = keys \o read
      /\ keys' \in Seq(Groups \cup {Nowhere}) /\ Len(keys') = Len(fetched')
  <2>1. fetched' = fetched \o named /\ keys' = keys \o read
    BY <1>1 DEF named, read
  <2>2. keys \o read \in Seq(Groups \cup {Nowhere}) /\ Len(keys \o read) = m + n
    BY <1>2, <1>6
  <2>3. Len(fetched \o named) = m + n
    BY <1>2
  <2> QED BY <2>1, <2>2, <2>3
<1>8. /\ \A i \in Items : home[i] \in homes[i]
      /\ \A k \in 1 .. m : keys[k] \in homes[fetched[k]]
  BY <1>3, <1>5 DEF KeysInv
<1>9. ASSUME NEW k \in DOMAIN fetched' PROVE keys'[k] \in homes[fetched'[k]]
  <2>1. k \in 1 .. m + n
    BY <1>2, <1>5, <1>7
  <2>2. CASE k \in 1 .. m
    <3>1. fetched'[k] = fetched[k] /\ keys'[k] = keys[k]
      BY <1>2, <1>5, <1>6, <1>7, <2>2
    <3> QED BY <1>8, <2>2, <3>1
  <2>3. CASE k \notin 1 .. m
    <3>1. k - m \in 1 .. n /\ k > m
      BY <1>5, <2>1, <2>3
    <3>2. fetched'[k] = named[k - m] /\ keys'[k] = read[k - m]
      BY <1>2, <1>5, <1>6, <1>7, <2>1, <3>1
    <3> QED BY <1>5, <1>6, <1>8, <3>1, <3>2
  <2> QED BY <2>2, <2>3
<1> QED BY <1>3, <1>7, <1>8, <1>9 DEF KeysInv

\* Who moves has also been where it was.
LEMMA EditKeepsKeys ==
    ASSUME WorldInv, ReadInv, KeysInv, NEW i \in Items, Edit(i) \/ Move(i)
    PROVE  KeysInv'
<1>1. UNCHANGED <<fetched, keys, phase>> /\ phase \in {"groups", "count", "read"}
  BY DEF Edit, Move, Edits, Fetching
<1>2. ASSUME phase = "read"
      PROVE  /\ \A j \in Items : home'[j] \in homes'[j]
             /\ \A j \in Items : homes[j] \subseteq homes'[j]
  <2>1. CASE UNCHANGED <<home, homes>>
    BY <1>2, <2>1 DEF KeysInv
  <2>2. CASE \E g \in DOMAIN above \cup {Nowhere} : EntersGroup(i, g)
    BY <1>2, <2>2, Settles DEF KeysInv
  <2> QED BY <2>1, <2>2 DEF Edit, Move
<1>3. \A k \in DOMAIN fetched : fetched[k] \in Items
  BY DEF ReadInv
<1> QED BY <1>1, <1>2, <1>3 DEF KeysInv

LEMMA KeysKept ==
    ASSUME WorldInv, ReadInv, KeysInv, [OneCNext]_onecVars
    PROVE  KeysInv'
<1>1. CASE GetTotalCount
  <2>1. /\ UNCHANGED <<home, fetched, keys>> /\ fetched = <<>>
        /\ homes' = [i \in Items |-> {home[i]}]
    BY <1>1 DEF GetTotalCount, ReadInv
  <2>2. DOMAIN fetched = {} /\ \A i \in Items : home'[i] \in homes'[i]
    BY <2>1
  <2> QED BY <2>1, <2>2 DEF KeysInv
<1>2. CASE EmptyPage
  <2>1. UNCHANGED <<home, homes, fetched, keys>> /\ phase = "read"
    BY <1>2 DEF EmptyPage, worldVars1C
  <2> QED BY <2>1 DEF KeysInv
<1>3. CASE FetchCategoryMap \/ DryRun \/ FetchFails
  <2>1. UNCHANGED <<fetched, keys>> /\ phase' \notin {"read", "done"}
    BY <1>3 DEF FetchCategoryMap, DryRun, FetchFails
  <2> QED BY <2>1 DEF KeysInv
<1>4. CASE UNCHANGED onecVars \/ \E g \in Groups : Regroup(g) \/ RemoveGroup(g)
  <2>1. UNCHANGED <<home, homes, fetched, keys, phase>>
    BY <1>4 DEF onecVars, worldVars1C, Regroup, RemoveGroup, Edits
  <2> QED BY <2>1 DEF KeysInv
<1> QED BY <1>1, <1>2, <1>3, <1>4, PageKeepsKeys, EditKeepsKeys DEF OneCNext

LEMMA PlacesKept ==
    ASSUME PlacesInv, [OneCNext]_onecVars
    PROVE  PlacesInv'
<1>1. CASE GetTotalCount
  <2>1. paths' = paths /\ places = <<>> /\ ReadOn
    BY <1>1 DEF GetTotalCount, PlacesInv
  <2>2. CASE phase' = "read"
    BY <2>1, <2>2 DEF ReadOn, PlacesInv
  <2>3. CASE phase' # "read"
    BY <2>1, <2>3 DEF ReadOn, PlacesInv, PlaceOf
  <2> QED BY <2>2, <2>3
<1>2. CASE FetchPage
  <2>1. paths' = paths /\ places = <<>> /\ ReadOn
    BY <1>2 DEF FetchPage, PlacesInv
  <2>2. CASE phase' = "read"
    BY <2>1, <2>2 DEF ReadOn, PlacesInv
  <2>3. CASE phase' # "read"
    BY <2>1, <2>3 DEF ReadOn, PlacesInv, PlaceOf
  <2> QED BY <2>2, <2>3
<1>3. CASE EmptyPage
  <2>1. /\ UNCHANGED <<paths, keys>> /\ phase' = "done"
        /\ places' = [k \in DOMAIN keys |-> PlaceOf(keys[k])]
    BY <1>3 DEF EmptyPage
  <2> QED BY <2>1 DEF PlacesInv, PlaceOf
<1>4. CASE FetchCategoryMap \/ DryRun \/ FetchFails
  <2>1. phase # "done" /\ phase' # "done" /\ places' = places
    BY <1>4 DEF FetchCategoryMap, DryRun, FetchFails
  <2> QED BY <2>1 DEF PlacesInv
<1>5. CASE \/ UNCHANGED onecVars
           \/ \E i \in Items : Edit(i) \/ Move(i)
           \/ \E g \in Groups : Regroup(g) \/ RemoveGroup(g)
  <2>1. UNCHANGED <<places, phase, keys, paths>>
    BY <1>5 DEF onecVars, Edit, Move, Regroup, RemoveGroup, Edits
  <2> QED BY <2>1 DEF PlacesInv, PlaceOf
<1> QED BY <1>1, <1>2, <1>3, <1>4, <1>5 DEF OneCNext

LEMMA OneCInvHolds == OneCSpec => []OneCInv
<1>1. OneCInit => OneCInv
  BY WorldStarts
<1>2. OneCInv /\ [OneCNext]_onecVars => OneCInv'
  BY WorldKept, PathsKept, ReadsKept, KeysKept, PlacesKept DEF OneCInv
<1> QED BY <1>1, <1>2, PTL DEF OneCSpec

LEMMA OneCTypes == ASSUME OneCInv PROVE OneCTypeOK
<1>1. \A g \in DOMAIN above : above[g] \in Groups \cup {Nowhere}
  BY DEF OneCInv, WorldInv, IsForest
<1>2. Range(above) \subseteq Groups \cup {Nowhere} /\ DOMAIN above \subseteq Groups
  BY <1>1 DEF Range, OneCInv, WorldInv, IsForest
<1>3. Range(paths) \subseteq Seq(Groups) /\ DOMAIN paths \subseteq Groups
  BY DEF Range, OneCInv, PathsInv
<1>4. Len(places) \in {0, Len(fetched)}
  <2>1. CASE phase = "done"
    <3>1. places = [k \in 1 .. Len(fetched) |-> PlaceOf(keys[k])] /\ Len(fetched) \in Nat
      BY <2>1 DEF OneCInv, PlacesInv, KeysInv, ReadInv
    <3> QED BY <3>1
  <2>2. CASE phase # "done"
    BY <2>2 DEF OneCInv, PlacesInv
  <2> QED BY <2>1, <2>2
<1> QED BY <1>2, <1>3, <1>4 DEF OneCTypeOK, OneCInv, WorldInv, ReadInv, KeysInv

LEMMA OneCComplete == ASSUME OneCInv PROVE FetchComplete
<1>1. SUFFICES ASSUME phase = "done" PROVE FetchComplete
  BY DEF FetchComplete
<1>2. /\ places = [k \in DOMAIN keys |-> PlaceOf(keys[k])]
      /\ DOMAIN keys = DOMAIN fetched
      /\ \A k \in DOMAIN fetched : keys[k] \in homes[fetched[k]]
  BY <1>1 DEF OneCInv, PlacesInv, KeysInv, ReadInv
<1>3. ASSUME NEW i \in Items \ (shifted \cup Nameless)
      PROVE  \E k \in DOMAIN fetched : \A l \in DOMAIN fetched : fetched[l] = i <=> l = k
  <2>1. HasOnce(fetched, i)
    BY <1>1, <1>3 DEF OneCInv, ReadInv
  <2> QED BY <2>1 DEF HasOnce
<1>4. ASSUME NEW k \in DOMAIN fetched, NEW g, g = keys[k]
      PROVE  IF g = Nowhere THEN places[k] = <<>>
             ELSE IF g \notin DOMAIN paths THEN places[k] = <<"key", g>>
             ELSE /\ Last(places[k]) = g
                  /\ g \notin regrouped
                         /\ Upwards(above, g) \subseteq DOMAIN paths \ regrouped
                         /\ Cardinality(Upwards(above, g)) <= MaxDepth + 1
                       => places[k] = PathOf(above, g) /\ Range(places[k]) = Upwards(above, g)
  <2>1. places[k] = PlaceOf(keys[k])
    BY <1>2
  <2>2. CASE g = Nowhere \/ g \notin DOMAIN paths
    BY <1>4, <2>1, <2>2 DEF PlaceOf
  <2>3. CASE g # Nowhere /\ g \in DOMAIN paths
    <3>1. places[k] = paths[g]
      BY <1>4, <2>1, <2>3 DEF PlaceOf
    <3>2. Last(paths[g]) = g
      BY <2>3 DEF OneCInv, PathsInv
    <3>3. ASSUME g \notin regrouped, Upwards(above, g) \subseteq DOMAIN paths \ regrouped,
                 Cardinality(Upwards(above, g)) <= MaxDepth + 1
          PROVE  paths[g] = PathOf(above, g) /\ Range(PathOf(above, g)) = Upwards(above, g)
      <4>1. g \in DOMAIN above /\ IsForest(above) /\ paths[g] = PathOf(above, g)
        BY <2>3, <3>3 DEF OneCInv, PathsInv, WorldInv
      <4> QED BY <3>3, <4>1, PathHasAll
    <3> QED BY <2>3, <3>1, <3>2, <3>3
  <2> QED BY <2>2, <2>3
<1> QED BY <1>2, <1>3, <1>4 DEF FetchComplete

\* Type correctness of a fetch: every item that has been read has a name, and at the end
\* each has a place (fetch_onec_catalog).
THEOREM OneCTypeCorrect == OneCSpec => []OneCTypeOK
BY OneCInvHolds, OneCTypes, PTL

\* A fetch that ends has read once every item with a name that was there from the count to
\* the end and that no edit ahead of it has moved.  It puts each item under the path of a
\* group that it was in since the count, the one that it has if nobody moved it, if that
\* path was read whole and no group of it came, went or moved, however many items and
\* groups there are and however the server cuts its pages (fetch_onec_catalog, fetch_all,
\* fetch_category_map).
THEOREM FetchCompleteCorrect == OneCSpec => []FetchComplete
BY OneCInvHolds, OneCComplete, PTL

-----------------------------------------------------------------------------
(* Files.  What the lists hold follows from what has filled them           *)
(* (FilesInv, at the end).  For the rules: no keyword of a header stands   *)
(* outside the header, so its score beats that of every other row          *)
(* (HeaderWins); the groups of columns without a gap are the tables        *)
(* (GroupsAre), so the tables seen are the drawn ones in their order       *)
(* (SeenInOrder), each with its header, its names and its role             *)
(* (TableFound).  For all readers: a table gives each of its names once    *)
(* (RegionTexts), and what is listed adds up over the tables               *)
(* (ItemsCounted).                                                         *)

\* A sum over cells, taken cell by cell.
Adds(f, sheet, cells, n) ==
    f = [T \in {T \in SUBSET cells : Cardinality(T) <= n} |->
            IF T = {} THEN 0
            ELSE LET x == CHOOSE x \in T : TRUE
                 IN  sheet[x[1]][x[2]].length + f[T \ {x}]]

LEMMA OneLess ==
    ASSUME NEW T, IsFiniteSet(T), T # {}
    PROVE  LET x == CHOOSE x \in T : TRUE
           IN  x \in T /\ Cardinality(T) \in Nat /\ IsFiniteSet(T \ {x})
               /\ Cardinality(T \ {x}) = Cardinality(T) - 1
<1> DEFINE x == CHOOSE x \in T : TRUE
<1>1. x \in T
  OBVIOUS
<1> HIDE DEF x
<1>2. Cardinality(T) \in Nat /\ IsFiniteSet(T \ {x}) /\ Cardinality(T \ {x}) = Cardinality(T) - 1
  BY <1>1, FS_CardinalityType, FS_RemoveElement
<1> QED BY <1>1, <1>2 DEF x

LEMMA SumExists ==
    ASSUME NEW sheet, NEW cells, IsFiniteSet(cells), NEW n \in Nat
    PROVE  \E f : Adds(f, sheet, cells, n)
<1> DEFINE Small(i) == {T \in SUBSET cells : Cardinality(T) <= i}
           Chosen(T) == CHOOSE x \in T : TRUE
           Good == {i \in Nat : \E f : Adds(f, sheet, cells, i)}
<1>0. \A T \in SUBSET cells : IsFiniteSet(T) /\ Cardinality(T) \in Nat
  BY FS_Subset, FS_CardinalityType
<1>1. 0 \in Good
  <2> DEFINE f == [T \in Small(0) |-> 0]
  <2>1. \A T \in Small(0) : T = {}
    BY <1>0, FS_EmptySet
  <2>2. Adds(f, sheet, cells, 0)
    BY <2>1 DEF Adds
  <2> QED BY <2>2
<1>2. ASSUME NEW i \in 1 .. n, i - 1 \in Good PROVE i \in Good
  <2>1. PICK g : Adds(g, sheet, cells, i - 1)
    BY <1>2
  <2> DEFINE step(h, T) == IF T = {} THEN 0
                           ELSE sheet[Chosen(T)[1]][Chosen(T)[2]].length + h[T \ {Chosen(T)}]
             f == [T \in Small(i) |-> step(g, T)]
  <2>2. g = [T \in Small(i - 1) |-> step(g, T)]
    BY <2>1 DEF Adds
  <2>3. \A T \in Small(i - 1) : T \in Small(i)
    BY <1>0
  <2>4. ASSUME NEW T \in Small(i), T # {} PROVE T \ {Chosen(T)} \in Small(i - 1)
    BY <1>0, <2>4, OneLess
  <2>5. ASSUME NEW T \in Small(i - 1) PROVE f[T] = g[T]
    <3>1. f[T] = step(g, T)
      BY <2>3, <2>5
    <3>2. g[T] = step(g, T)
      <4> HIDE DEF step, Small
      <4> QED BY <2>2, <2>5
    <3> QED BY <3>1, <3>2
  <2>6. ASSUME NEW T \in Small(i) PROVE step(g, T) = step(f, T)
    <3>1. CASE T = {}
      BY <3>1
    <3>2. CASE T # {}
      <4>1. f[T \ {Chosen(T)}] = g[T \ {Chosen(T)}]
        <5> HIDE DEF f, Small, Chosen
        <5> QED BY <2>4, <2>5, <2>6, <3>2
      <4> HIDE DEF f, Small, Chosen
      <4> QED BY <4>1
    <3> QED BY <3>1, <3>2
  <2>7. f = [T \in Small(i) |-> step(f, T)]
    <3>1. f = [T \in Small(i) |-> step(g, T)]
      OBVIOUS
    <3> HIDE DEF step, Small
    <3> QED BY <2>6, <3>1, Zenon
  <2>8. Adds(f, sheet, cells, i)
    BY <2>7 DEF Adds
  <2> HIDE DEF f
  <2> QED BY <2>8
<1> HIDE DEF Good
<1>3. Good \in SUBSET Nat
  BY DEF Good
<1>4. n \in Good
  BY <1>1, <1>2, <1>3, LoopEnds
<1> QED BY <1>4 DEF Good

LEMMA SumFacts ==
    ASSUME NEW sheet, NEW cells, IsFiniteSet(cells),
           \A rc \in cells : sheet[rc[1]][rc[2]].length \in Nat
    PROVE  /\ Sum(sheet, cells) \in Nat
           /\ (\A rc \in cells : sheet[rc[1]][rc[2]].length <= 15)
                 => Sum(sheet, cells) <= 15 * Cardinality(cells)
<1> DEFINE n == Cardinality(cells)
           f == CHOOSE g : g = [T \in SUBSET cells |->
                    IF T = {} THEN 0
                    ELSE LET x == CHOOSE x \in T : TRUE
                         IN  sheet[x[1]][x[2]].length + g[T \ {x}]]
           Chosen(T) == CHOOSE x \in T : TRUE
<1>1. n \in Nat
  BY FS_CardinalityType
<1>2. Sum(sheet, cells) = f[cells]
  BY DEF Sum, MapThenSumSet, MapThenFoldSet
<1>3. {T \in SUBSET cells : Cardinality(T) <= n} = SUBSET cells
  BY FS_Subset
<1>4. f = [T \in SUBSET cells |->
              IF T = {} THEN 0
              ELSE LET x == CHOOSE x \in T : TRUE IN sheet[x[1]][x[2]].length + f[T \ {x}]]
  <2>1. PICK g : Adds(g, sheet, cells, n)
    BY <1>1, SumExists
  <2>2. g = [T \in SUBSET cells |->
              IF T = {} THEN 0
              ELSE LET x == CHOOSE x \in T : TRUE IN sheet[x[1]][x[2]].length + g[T \ {x}]]
    BY <1>3, <2>1, Zenon DEF Adds
  <2> QED BY <2>2
<1> HIDE DEF f
<1>5. /\ f[{}] = 0
      /\ \A T \in SUBSET cells : T # {} =>
            f[T] = sheet[Chosen(T)[1]][Chosen(T)[2]].length + f[T \ {Chosen(T)}]
  BY <1>4
<1> DEFINE short == \A rc \in cells : sheet[rc[1]][rc[2]].length <= 15
           Good == {i \in Nat : \A T \in SUBSET cells : Cardinality(T) = i =>
                        f[T] \in Nat /\ (short => f[T] <= 15 * i)}
<1>6. \A T \in SUBSET cells : IsFiniteSet(T)
  BY FS_Subset
<1>7. 0 \in Good
  <2>1. \A T \in SUBSET cells : Cardinality(T) = 0 => T = {}
    BY <1>6, FS_EmptySet
  <2>2. f[{}] \in Nat /\ f[{}] <= 15 * 0
    BY <1>5
  <2> HIDE DEF short
  <2> QED BY <2>1, <2>2
<1>8. ASSUME NEW i \in 1 .. n, i - 1 \in Good PROVE i \in Good
  <2>1. ASSUME NEW T \in SUBSET cells, Cardinality(T) = i
        PROVE  f[T] \in Nat /\ (short => f[T] <= 15 * i)
    <3> DEFINE x == Chosen(T)
    <3>1. T # {}
      BY <2>1, FS_EmptySet
    <3>2. x \in T /\ Cardinality(T \ {x}) = i - 1
      BY <1>6, <2>1, <3>1, OneLess
    <3>3. f[T] = sheet[x[1]][x[2]].length + f[T \ {x}]
      BY <1>5, <3>1
    <3> HIDE DEF x
    <3>4. f[T \ {x}] \in Nat /\ (short => f[T \ {x}] <= 15 * (i - 1))
      BY <1>8, <3>2
    <3>5. x \in cells /\ sheet[x[1]][x[2]].length \in Nat
      BY <3>2
    <3>6. short => sheet[x[1]][x[2]].length <= 15
      BY <3>5
    <3> HIDE DEF short
    <3> QED BY <3>3, <3>4, <3>5, <3>6
  <2> QED BY <2>1
<1> HIDE DEF Good
<1>9. n \in Good
  <2>1. Good \in SUBSET Nat
    BY DEF Good
  <2> HIDE DEF n
  <2> QED BY <1>1, <1>7, <1>8, <2>1, LoopEnds
<1> QED BY <1>2, <1>9 DEF Good

\* Sheets, and tables with a header that the rules find.
IsSheet(s) ==
    /\ s \in Seq(Seq(Cells)) /\ s # <<>>
    /\ \A row \in Range(s) : Len(row) = Len(s[1])

Headed(s, t) ==
    /\ IsTable(s, t) /\ t.header <= HeaderRows
    /\ \A c \in t.left .. t.right :
          /\ s[t.header][c] # Blank
          /\ s[t.header][c].length <= 15 /\ s[t.header][c].words \cap HeaderWords # {}
          /\ "name" \in s[t.header][c].words <=> c = t.name
          /\ \A rc \in Filled(s, (DOMAIN s \ {t.header}) \X {c}) :
                s[rc[1]][c].words \cap HeaderWords = {}

LEMMA SheetFacts ==
    ASSUME NEW s, IsSheet(s)
    PROVE  /\ Len(s) \in Nat /\ Len(s) >= 1 /\ DOMAIN s = 1 .. Len(s)
           /\ Len(s[1]) \in Nat /\ Columns(s) = 1 .. Len(s[1])
           /\ \A r \in DOMAIN s : \A c \in Columns(s) : s[r][c] \in Cells
<1>1. s \in Seq(Seq(Cells)) /\ s # <<>>
  BY DEF IsSheet
<1>2. Len(s) \in Nat /\ Len(s) >= 1 /\ DOMAIN s = 1 .. Len(s) /\ s[1] \in Seq(Cells)
  BY <1>1
<1>3. \A r \in DOMAIN s : s[r] \in Seq(Cells) /\ Len(s[r]) = Len(s[1])
  BY <1>1 DEF IsSheet, Range
<1>4. Len(s[1]) \in Nat /\ Columns(s) = 1 .. Len(s[1])
  BY <1>2 DEF Columns
<1>5. ASSUME NEW r \in DOMAIN s, NEW c \in Columns(s) PROVE s[r][c] \in Cells
  BY <1>3, <1>4
<1> QED BY <1>2, <1>4, <1>5

LEMMA TableColumns ==
    ASSUME NEW s, IsSheet(s), NEW t, IsTable(s, t)
    PROVE  /\ t.left \in Nat /\ t.right \in Nat /\ 1 <= t.left /\ t.left <= t.right
           /\ t.left .. t.right \subseteq Columns(s) /\ t.header \in DOMAIN s
           /\ IsFiniteSet(t.left .. t.right)
           /\ Cardinality(t.left .. t.right) = t.right - t.left + 1
<1>1. /\ t.right \in 1 .. Len(s[1]) /\ t.left \in 1 .. t.right /\ t.header \in DOMAIN s
  BY DEF IsTable
<1>2. Len(s[1]) \in Nat /\ Columns(s) = 1 .. Len(s[1])
  BY SheetFacts
<1> HIDE DEF IsSheet, IsTable
<1>3. t.left \in Int /\ t.right \in Int /\ t.left <= t.right /\ 1 <= t.left /\ t.right <= Len(s[1])
  BY <1>1, <1>2
<1>4. IsFiniteSet(t.left .. t.right) /\ Cardinality(t.left .. t.right) = t.right - t.left + 1
  BY <1>3, FS_Interval
<1>5. t.left .. t.right \subseteq Columns(s)
  BY <1>2, <1>3
<1> QED BY <1>1, <1>3, <1>4, <1>5

\* The filled cells of a row.
LEMMA RowCells ==
    ASSUME NEW s, IsSheet(s), NEW r \in DOMAIN s,
           NEW cols \in SUBSET Columns(s), IsFiniteSet(cols)
    PROVE  LET cells == Filled(s, {r} \X cols)
           IN  /\ IsFiniteSet(cells) /\ Cardinality(cells) \in Nat
               /\ Cardinality(cells) <= Cardinality(cols)
               /\ cells = {rc \in {r} \X cols : s[r][rc[2]] # Blank}
               /\ \A rc \in cells : rc = <<r, rc[2]>> /\ rc[2] \in cols
                                    /\ s[r][rc[2]] \in Cells \ {Blank}
<1> DEFINE cells == Filled(s, {r} \X cols)
<1>1. IsFiniteSet({r} \X cols) /\ Cardinality({r} \X cols) = Cardinality(cols)
  <2>1. IsFiniteSet({r}) /\ Cardinality({r}) = 1 /\ Cardinality(cols) \in Nat
    BY FS_Singleton, FS_CardinalityType
  <2>2. Cardinality({r} \X cols) = 1 * Cardinality(cols) /\ IsFiniteSet({r} \X cols)
    BY <2>1, FS_Product
  <2> QED BY <2>1, <2>2
<1>2. cells = {rc \in {r} \X cols : s[r][rc[2]] # Blank}
  BY DEF Filled
<1>3. cells \in SUBSET ({r} \X cols)
  BY <1>2
<1>4. ASSUME NEW rc \in cells
      PROVE rc = <<r, rc[2]>> /\ rc[2] \in cols /\ s[r][rc[2]] \in Cells \ {Blank}
  <2>1. rc \in {r} \X cols /\ s[r][rc[2]] # Blank
    BY <1>2
  <2>2. rc = <<r, rc[2]>> /\ rc[2] \in Columns(s)
    BY <2>1
  <2> QED BY <2>1, <2>2, SheetFacts
<1>5. IsFiniteSet(cells) /\ Cardinality(cells) <= Cardinality(cols)
  <2> HIDE DEF cells
  <2> QED BY <1>1, <1>3, FS_Subset
<1>6. Cardinality(cells) \in Nat
  BY <1>5, FS_CardinalityType
<1> HIDE DEF cells
<1> QED BY <1>2, <1>4, <1>5, <1>6 DEF cells

LEMMA FullRow ==
    ASSUME NEW s, NEW r, NEW cols, IsFiniteSet(cols), \A c \in cols : s[r][c] # Blank
    PROVE  Cardinality(Filled(s, {r} \X cols)) = Cardinality(cols)
<1>1. Filled(s, {r} \X cols) = {r} \X cols
  BY DEF Filled
<1>2. IsFiniteSet({r}) /\ Cardinality({r}) = 1 /\ Cardinality(cols) \in Nat
  BY FS_Singleton, FS_CardinalityType
<1>3. Cardinality({r} \X cols) = 1 * Cardinality(cols)
  BY <1>2, FS_Product
<1>4. 1 * Cardinality(cols) = Cardinality(cols)
  BY <1>2
<1> QED BY <1>1, <1>3, <1>4, Zenon

LEMMA GreaterOfTwo ==
    ASSUME NEW b \in Int
    PROVE  Max({0, b}) = IF b <= 0 THEN 0 ELSE b
<1> DEFINE m == IF b <= 0 THEN 0 ELSE b
<1>1. m \in {0, b} /\ \A y \in {0, b} : m >= y
  OBVIOUS
<1>2. ASSUME NEW x \in {0, b}, \A y \in {0, b} : x >= y PROVE x = m
  BY <1>2
<1> HIDE DEF m
<1>3. (CHOOSE x \in {0, b} : \A y \in {0, b} : x >= y) = m
  BY <1>1, <1>2
<1> QED BY <1>3 DEF Max, m

\* A header beats every row with no keyword in its cells.
LEMMA HeadersScore ==
    ASSUME NEW s, IsSheet(s), NEW t, Headed(s, t)
    PROVE  LET cols == t.left .. t.right
               best == RowScore(s, t.header, Filled(s, {t.header} \X cols))
               w == Cardinality(cols)
           IN  best.score \in Nat /\ best.of = w
               /\ best.score >= 195 * w * w + 120 * w + 90
<1> DEFINE cols == t.left .. t.right
           h == t.header
           cells == Filled(s, {h} \X cols)
           w == Cardinality(cols)
           hits == {rc \in cells : /\ s[h][rc[2]].words \cap HeaderWords # {}
                                   /\ s[h][rc[2]].length < 30}
           texts == {s[h][rc[2]].text : rc \in cells}
<1>1. IsTable(s, t)
  BY DEF Headed
<1>2. /\ cols \in SUBSET Columns(s) /\ IsFiniteSet(cols) /\ h \in DOMAIN s /\ w \in Nat /\ w >= 1
  BY <1>1, TableColumns
<1>3. \A c \in cols : /\ s[h][c] # Blank /\ s[h][c].length <= 15
                      /\ s[h][c].words \cap HeaderWords # {}
  BY DEF Headed
<1>4. /\ IsFiniteSet(cells) /\ Cardinality(cells) = w
      /\ \A rc \in cells : rc = <<h, rc[2]>> /\ rc[2] \in cols /\ s[h][rc[2]] \in Cells \ {Blank}
  <2> HIDE DEF h, cols
  <2>1. \A c \in cols : s[h][c] # Blank
    BY <1>3
  <2>2. h \in DOMAIN s /\ cols \in SUBSET Columns(s) /\ IsFiniteSet(cols)
    BY <1>2
  <2>3. /\ IsFiniteSet(cells)
        /\ \A rc \in cells : rc = <<h, rc[2]>> /\ rc[2] \in cols /\ s[h][rc[2]] \in Cells \ {Blank}
    BY <2>2, RowCells
  <2>4. Cardinality(cells) = Cardinality(cols)
    BY <2>1, <2>2, FullRow
  <2> QED BY <2>3, <2>4
<1> HIDE DEF cols, h, cells
<1>5. \A rc \in cells : s[rc[1]][rc[2]] = s[h][rc[2]] /\ s[h][rc[2]].length \in Nat
  <2>1. \A rc \in cells : rc[1] = h
    BY <1>4
  <2> QED BY <1>4, <2>1, FilesAssumption DEF FilesAssumption
<1>6. \A rc \in cells : s[h][rc[2]].length <= 15 /\ s[h][rc[2]].length < 30
  BY <1>3, <1>4, <1>5
<1>7. Sum(s, cells) \in Nat /\ Sum(s, cells) <= 15 * w
  <2>1. \A rc \in cells : s[rc[1]][rc[2]].length \in Nat /\ s[rc[1]][rc[2]].length <= 15
    BY <1>5, <1>6
  <2> QED BY <1>4, <2>1, SumFacts
<1>8. hits = cells
  BY <1>3, <1>4, <1>6
<1>9. Cardinality(texts) \in Nat /\ Cardinality(texts) >= 1
  <2>1. IsFiniteSet(texts)
    <3> DEFINE f == [rc \in cells |-> s[h][rc[2]].text]
    <3>1. f \in Surjection(cells, texts)
      BY DEF Surjection
    <3> HIDE DEF texts, f
    <3> QED BY <1>4, <3>1, FS_Surjection
  <2>2. texts # {}
    <3>1. cells # {}
      BY <1>2, <1>4, FS_EmptySet
    <3> QED BY <3>1
  <2> HIDE DEF texts
  <2> QED BY <2>1, <2>2, FS_CardinalityType, FS_EmptySet
<1>10. RowScore(s, h, cells) =
          [of |-> w, score |-> 150 * w * w + 45 * w * w + 90 * Cardinality(texts)
                                 + Max({0, 240 * w - 8 * Sum(s, cells)})]
  <2>1. RowScore(s, h, cells) =
          [of |-> Cardinality(cells),
           score |-> 150 * Cardinality(hits) * Cardinality(cells)
                        + 45 * Cardinality(cells) * Cardinality(cells) + 90 * Cardinality(texts)
                        + Max({0, 240 * Cardinality(cells) - 8 * Sum(s, cells)})]
    BY DEF RowScore
  <2> HIDE DEF hits, texts
  <2> QED BY <1>4, <1>8, <2>1
<1> HIDE DEF w, hits, texts
<1>11. Max({0, 240 * w - 8 * Sum(s, cells)}) \in Nat
       /\ Max({0, 240 * w - 8 * Sum(s, cells)}) >= 120 * w
  <2> DEFINE b == 240 * w - 8 * Sum(s, cells)
  <2>1. b \in Int /\ b >= 120 * w /\ b >= 0
    BY <1>2, <1>7
  <2> HIDE DEF b
  <2>2. Max({0, b}) = b
    BY <2>1, GreaterOfTwo
  <2>3. b \in Nat
    BY <2>1
  <2> QED BY <2>1, <2>2, <2>3 DEF b
<1> DEFINE more == Max({0, 240 * w - 8 * Sum(s, cells)})
           square == w * w
<1>12. square \in Nat
  BY <1>2
<1>13. RowScore(s, h, cells) =
          [of |-> w, score |-> 150 * square + 45 * square + 90 * Cardinality(texts) + more]
  <2>1. 150 * w * w = 150 * square /\ 45 * w * w = 45 * square
    BY <1>2
  <2> QED BY <1>10, <2>1
<1>14. 195 * w * w = 195 * square
  BY <1>2
<1> DEFINE best == RowScore(s, h, cells)
<1>15. best.of = w /\ best.score = 150 * square + 45 * square + 90 * Cardinality(texts) + more
  <2> HIDE DEF square, more
  <2> QED BY <1>13
<1>16. best.score \in Nat /\ best.of = w /\ best.score >= 195 * w * w + 120 * w + 90
  <2>1. more \in Nat /\ more >= 120 * w
    BY <1>11
  <2> HIDE DEF square, more, best
  <2> QED BY <1>2, <1>9, <1>12, <1>14, <1>15, <2>1
<1> QED BY <1>16 DEF cols, h, cells, w

LEMMA OthersScore ==
    ASSUME NEW s, IsSheet(s), NEW t, Headed(s, t), NEW r \in DOMAIN s, r # t.header
    PROVE  LET cells == Filled(s, {r} \X (t.left .. t.right))
               other == RowScore(s, r, cells)
               m == Cardinality(cells)
           IN  other.score \in Nat /\ other.of = m
               /\ m \in Nat /\ m <= Cardinality(t.left .. t.right)
               /\ other.score <= 45 * m * m + 330 * m
<1> DEFINE cols == t.left .. t.right
           cells == Filled(s, {r} \X cols)
           m == Cardinality(cells)
           hits == {rc \in cells : /\ s[r][rc[2]].words \cap HeaderWords # {}
                                   /\ s[r][rc[2]].length < 30}
           texts == {s[r][rc[2]].text : rc \in cells}
<1>1. IsTable(s, t)
  BY DEF Headed
<1>2. /\ cols \in SUBSET Columns(s) /\ IsFiniteSet(cols)
  BY <1>1, TableColumns
<1>3. \A c \in cols : \A rc \in Filled(s, (DOMAIN s \ {t.header}) \X {c}) :
            s[rc[1]][c].words \cap HeaderWords = {}
  BY DEF Headed
<1> HIDE DEF cols
<1>4. /\ IsFiniteSet(cells) /\ m \in Nat /\ m <= Cardinality(cols)
      /\ \A rc \in cells : rc = <<r, rc[2]>> /\ rc[2] \in cols /\ s[r][rc[2]] \in Cells \ {Blank}
  BY <1>2, RowCells
<1> HIDE DEF cells
<1>5. \A rc \in cells : s[rc[1]][rc[2]].length \in Nat
  <2>1. \A rc \in cells : rc[1] = r
    BY <1>4
  <2> QED BY <1>4, <2>1, FilesAssumption DEF FilesAssumption
<1>6. Sum(s, cells) \in Nat
  BY <1>4, <1>5, SumFacts
<1>7. hits = {}
  <2>1. ASSUME NEW rc \in cells PROVE s[r][rc[2]].words \cap HeaderWords = {}
    <3>1. rc[2] \in cols /\ s[r][rc[2]] # Blank
      BY <1>4
    <3>2. <<r, rc[2]>> \in Filled(s, (DOMAIN s \ {t.header}) \X {rc[2]})
      BY <3>1 DEF Filled
    <3> QED BY <1>3, <3>1, <3>2
  <2> QED BY <2>1
<1>8. Cardinality(texts) \in Nat /\ Cardinality(texts) <= m
  <2> DEFINE f == [rc \in cells |-> s[r][rc[2]].text]
  <2>1. f \in Surjection(cells, texts)
    BY DEF Surjection
  <2> HIDE DEF texts, f
  <2> QED BY <1>4, <2>1, FS_Surjection, FS_CardinalityType
<1> DEFINE b == 240 * m - 8 * Sum(s, cells)
           square == m * m
           other == RowScore(s, r, cells)
<1>9. other = [of |-> m,
               score |-> 150 * Cardinality(hits) * m + 45 * m * m + 90 * Cardinality(texts)
                           + Max({0, b})]
  BY DEF RowScore
<1>10. Cardinality(hits) = 0
  BY <1>7, FS_EmptySet
<1> HIDE DEF hits, texts
<1>11. b \in Int /\ b <= 240 * m
  <2> HIDE DEF m
  <2> QED BY <1>4, <1>6
<1>12. Max({0, b}) \in Nat /\ Max({0, b}) <= 240 * m
  <2> HIDE DEF b, m
  <2> QED BY <1>4, <1>11, GreaterOfTwo
<1>13. square \in Nat /\ 45 * m * m = 45 * square /\ 150 * 0 * m = 0
  <2> HIDE DEF m
  <2> QED BY <1>4
<1> DEFINE more == Max({0, b})
<1>14. other.of = m /\ other.score = 0 + 45 * square + 90 * Cardinality(texts) + more
  <2>1. other = [of |-> m, score |-> 0 + 45 * square + 90 * Cardinality(texts) + more]
    <3> HIDE DEF other, m, square
    <3> QED BY <1>9, <1>10, <1>13
  <2> HIDE DEF other, m, square, more
  <2> QED BY <2>1
<1>15. other.score \in Nat /\ other.score <= 45 * m * m + 330 * m
  <2>1. more \in Nat /\ more <= 240 * m
    BY <1>12
  <2> HIDE DEF other, m, square, more
  <2> QED BY <1>4, <1>8, <1>13, <1>14, <2>1
<1> QED BY <1>4, <1>14, <1>15 DEF cols, cells

LEMMA HeaderWins ==
    ASSUME NEW w \in Nat, w >= 1, NEW m \in Nat, m >= 1, m <= w,
           NEW p \in Nat, p >= 195 * w * w + 120 * w + 90,
           NEW q \in Nat, q <= 45 * m * m + 330 * m
    PROVE  p * m > q * w
<1> DEFINE mm == m * m
           ww == w * w
           mw == m * w
<1>1. mm \in Nat /\ ww \in Nat /\ mw \in Nat /\ mw <= ww
  OBVIOUS
<1>2. 150 * ww + 90 > 210 * w
  <2>1. CASE w = 1
    BY <2>1
  <2>2. CASE w >= 2
    <3>1. ww >= 2 * w
      BY <2>2
    <3> HIDE DEF ww
    <3> QED BY <1>1, <3>1
  <2> QED BY <2>1, <2>2
<1>3. 195 * ww + 120 * w + 90 > 45 * mw + 330 * w
  <2> HIDE DEF ww, mw
  <2> QED BY <1>1, <1>2
<1> DEFINE x == 195 * ww + 120 * w + 90
           y == 45 * mw + 330 * w
<1>4. p >= x
  BY DEF ww
<1>5. p * m >= x * m
  <2> HIDE DEF x
  <2>1. x \in Nat
    BY <1>1 DEF x
  <2> QED BY <1>4, <2>1
<1>6. x * m > y * m
  <2>1. x \in Nat /\ y \in Nat /\ x > y
    BY <1>1, <1>3
  <2> HIDE DEF x, y
  <2> QED BY <2>1
<1>7. q * w <= (45 * mm + 330 * m) * w
  <2> DEFINE z == 45 * mm + 330 * m
  <2>1. z \in Nat /\ q <= z
    OBVIOUS
  <2> HIDE DEF z
  <2>2. q * w <= z * w
    BY <2>1
  <2> QED BY <2>2 DEF z
<1>8. (45 * mm + 330 * m) * w = y * m
  OBVIOUS
<1> DEFINE a == p * m
           b == x * m
           d == y * m
           e == q * w
<1>9. a \in Int /\ b \in Int /\ d \in Int /\ e \in Int
  <2>1. x \in Nat /\ y \in Nat
    BY <1>1
  <2> HIDE DEF x, y
  <2> QED BY <2>1
<1>10. a >= b /\ b > d /\ e <= d
  BY <1>5, <1>6, <1>7, <1>8
<1> HIDE DEF a, b, d, e, x, y
<1>11. a > e
  BY <1>9, <1>10
<1> QED BY <1>11 DEF a, e

LEMMA HighestIs ==
    ASSUME NEW scores, NEW h \in DOMAIN scores,
           \A q \in DOMAIN scores : scores[q].score \in Nat /\ scores[q].of \in Nat,
           \A q \in DOMAIN scores \ {h} : Above(scores[h], scores[q])
    PROVE  Highest(scores) = h
<1>1. \A q \in DOMAIN scores \ {h} : ~Above(scores[q], scores[h])
  <2>1. ASSUME NEW q \in DOMAIN scores \ {h} PROVE ~Above(scores[q], scores[h])
    <3> DEFINE x == scores[h].score * scores[q].of
               y == scores[q].score * scores[h].of
    <3>1. x \in Int /\ y \in Int
      <4>1. \A a, b \in Nat : a * b \in Int
        OBVIOUS
      <4> QED BY <4>1
    <3>2. x > y
      BY DEF Above
    <3> HIDE DEF x, y
    <3>3. ~(y > x)
      BY <3>1, <3>2
    <3> QED BY <3>3 DEF Above, x, y
  <2> QED BY <2>1
<1> DEFINE best(r) == \A q \in DOMAIN scores \ {r} :
               Above(scores[r], scores[q]) \/ (r < q /\ ~Above(scores[q], scores[r]))
<1>2. best(h)
  OBVIOUS
<1>3. ASSUME NEW r \in DOMAIN scores, best(r) PROVE r = h
  BY <1>1, <1>3
<1> HIDE DEF best
<1>4. (CHOOSE r \in DOMAIN scores : best(r)) = h
  BY <1>2, <1>3
<1> QED BY <1>4 DEF Highest, best

LEMMA HeaderIsNoTitle ==
    ASSUME NEW s, IsSheet(s), NEW t, Headed(s, t)
    PROVE  LET cells == Filled(s, {t.header} \X (t.left .. t.right))
           IN  cells # {} /\ ~IsTitle(s, cells)
<1> DEFINE cols == t.left .. t.right
           h == t.header
           cells == Filled(s, {h} \X cols)
           texts == {s[rc[1]][rc[2]].text : rc \in cells}
<1>1. IsTable(s, t) /\ t.name \in cols
  BY DEF Headed, IsTable
<1>2. /\ cols \in SUBSET Columns(s) /\ IsFiniteSet(cols) /\ h \in DOMAIN s
      /\ t.left \in Nat /\ t.right \in Nat /\ t.left <= t.right
      /\ Cardinality(cols) = t.right - t.left + 1
  BY <1>1, TableColumns
<1>3. \A c \in cols : s[h][c] # Blank /\ ("name" \in s[h][c].words <=> c = t.name)
  BY DEF Headed
<1>4. \A c \in cols : <<h, c>> \in cells
  BY <1>3 DEF Filled
<1>5. cells # {}
  BY <1>1, <1>4
<1>6. ASSUME IsTitle(s, cells) PROVE FALSE
  <2>1. Cardinality(cells) > 1 /\ Cardinality(texts) = 1
    BY <1>6 DEF IsTitle
  <2>2. IsFiniteSet(cells) /\ Cardinality(cells) <= Cardinality(cols)
    <3> HIDE DEF h, cols
    <3> QED BY <1>2, RowCells
  <2>3. IsFiniteSet(texts)
    <3> DEFINE f == [rc \in cells |-> s[rc[1]][rc[2]].text]
    <3>1. f \in Surjection(cells, texts)
      BY DEF Surjection
    <3> HIDE DEF texts, f, cells
    <3> QED BY <2>2, <3>1, FS_Surjection
  <2>4. PICK x : texts = {x}
    <3> HIDE DEF texts
    <3> QED BY <2>1, <2>3, FS_Singleton
  <2>5. t.right > t.left
    <3>1. Cardinality(cells) \in Nat
      <4> HIDE DEF cells
      <4> QED BY <2>2, FS_CardinalityType
    <3> HIDE DEF cells, cols
    <3> QED BY <1>2, <2>1, <2>2, <3>1
  <2>6. PICK c \in cols : c # t.name
    <3>1. t.left \in cols /\ t.right \in cols /\ t.left # t.right
      BY <1>2, <2>5
    <3> HIDE DEF cols
    <3> QED BY <3>1
  <2>7. s[h][c].text = x /\ s[h][t.name].text = x
    <3>1. ASSUME NEW d \in cols PROVE s[h][d].text = x
      <4>1. s[<<h, d>>[1]][<<h, d>>[2]].text \in texts
        BY <1>4
      <4> HIDE DEF texts, cells
      <4> QED BY <2>4, <4>1
    <3> QED BY <1>1, <3>1
  <2>8. \A d \in cols : s[h][d] \in Cells \ {Blank}
    BY <1>2, <1>3, SheetFacts
  <2>9. s[h][c] = s[h][t.name]
    <3> HIDE DEF cols, h
    <3> QED BY <1>1, <2>7, <2>8, FilesAssumption DEF FilesAssumption
  <2> HIDE DEF cols, h
  <2> QED BY <1>1, <1>3, <2>6, <2>9
<1> QED BY <1>5, <1>6

\* Where a table has a header, it is found.
LEMMA HeaderFound ==
    ASSUME NEW s, IsSheet(s), NEW t, Headed(s, t)
    PROVE  HeaderRow(s, t.left .. t.right) = t.header
<1> DEFINE cols == t.left .. t.right
           h == t.header
           cells(r) == Filled(s, {r} \X cols)
           rows == {r \in DOMAIN s : r <= HeaderRows /\ cells(r) # {} /\ ~IsTitle(s, cells(r))}
           scores == [r \in rows |-> RowScore(s, r, cells(r))]
           w == Cardinality(cols)
<1>1. h \in DOMAIN s /\ h <= HeaderRows /\ IsTable(s, t)
  BY DEF Headed, IsTable
<1>2. h \in rows
  BY <1>1, HeaderIsNoTitle
<1>3. /\ cols \in SUBSET Columns(s) /\ IsFiniteSet(cols) /\ w \in Nat /\ w >= 1
  BY <1>1, TableColumns
<1>4. scores[h].score \in Nat /\ scores[h].of = w
      /\ scores[h].score >= 195 * w * w + 120 * w + 90
  <2>1. scores[h] = RowScore(s, h, cells(h))
    BY <1>2
  <2> HIDE DEF rows, scores
  <2> QED BY <2>1, HeadersScore
<1>5. ASSUME NEW q \in rows, q # h
      PROVE  scores[q].score \in Nat /\ scores[q].of \in Nat /\ Above(scores[h], scores[q])
  <2> DEFINE m == Cardinality(cells(q))
  <2>1. scores[q] = RowScore(s, q, cells(q))
    OBVIOUS
  <2>2. /\ scores[q].score \in Nat /\ scores[q].of = m /\ m \in Nat /\ m <= w
        /\ scores[q].score <= 45 * m * m + 330 * m
    <3>1. q \in DOMAIN s /\ q # t.header
      BY <1>5
    <3> HIDE DEF scores, rows
    <3> QED BY <2>1, <3>1, OthersScore
  <2>3. m >= 1
    <3>1. cells(q) # {} /\ IsFiniteSet(cells(q))
      <4>1. q \in DOMAIN s
        OBVIOUS
      <4>2. IsFiniteSet(cells(q))
        <5> HIDE DEF cols
        <5> QED BY <1>3, <4>1, RowCells
      <4> QED BY <4>2
    <3> HIDE DEF cells
    <3> QED BY <2>2, <3>1, FS_EmptySet
  <2> HIDE DEF m, w, scores
  <2>4. scores[h].score * m > scores[q].score * w
    BY <1>3, <1>4, <2>2, <2>3, HeaderWins
  <2> QED BY <1>4, <2>2, <2>4 DEF Above
<1>6. Highest(scores) = h
  <2>1. DOMAIN scores = rows
    OBVIOUS
  <2>2. scores[h].of \in Nat
    BY <1>3, <1>4
  <2> HIDE DEF scores, rows, h, w
  <2> QED BY <1>2, <1>4, <1>5, <2>1, <2>2, HighestIs
<1>7. HeaderRow(s, cols) = IF rows = {} THEN 1 ELSE Highest(scores)
  BY DEF HeaderRow
<1> HIDE DEF scores, rows
<1> QED BY <1>2, <1>6, <1>7

\* Tables that lie side by side, with nothing else on the sheet.
SideBySide(s, tables) ==
    /\ tables \in Seq(TableSpec)
    /\ \A t \in Range(tables) : IsTable(s, t)
    /\ \A j, k \in DOMAIN tables : j < k => tables[j].right + 1 < tables[k].left
    /\ \A c \in Columns(s) :
          20 * Cardinality(Filled(s, (DOMAIN s) \X {c})) > 3 * Len(s)
             <=> \E t \in Range(tables) : c \in t.left .. t.right

\* A column is no gap if more than 15 % of its cells are filled.
LEMMA GapIs ==
    ASSUME NEW s, IsSheet(s), NEW c
    PROVE  IsGap(s, c) <=> ~(20 * Cardinality(Filled(s, (DOMAIN s) \X {c})) > 3 * Len(s))
<1> DEFINE cells == Filled(s, (DOMAIN s) \X {c})
           n == Cardinality(cells)
           m == Len(s)
<1>1. m \in Nat /\ DOMAIN s = 1 .. m
  BY SheetFacts
<1>2. IsFiniteSet(DOMAIN s) /\ IsFiniteSet({c})
  <2>1. 1 \in Int /\ m \in Int
    BY <1>1
  <2>2. IsFiniteSet(1 .. m)
    BY <2>1, FS_Interval
  <2>3. IsFiniteSet({c})
    BY FS_Singleton
  <2> QED BY <1>1, <2>2, <2>3
<1>3. IsFiniteSet((DOMAIN s) \X {c})
  BY <1>2, FS_Product
<1>4. cells \in SUBSET ((DOMAIN s) \X {c})
  BY DEF Filled
<1>5. n \in Nat
  <2> HIDE DEF cells
  <2> QED BY <1>3, <1>4, FS_Subset, FS_CardinalityType
<1>6. IsGap(s, c) <=> 20 * (m - n) >= 17 * m
  BY DEF IsGap
<1> HIDE DEF n, m
<1>7. 20 * (m - n) >= 17 * m <=> ~(20 * n > 3 * m)
  BY <1>1, <1>5
<1> QED BY <1>6, <1>7 DEF n, m, cells

LEMMA SidesApart ==
    ASSUME NEW s, IsSheet(s), NEW tables, SideBySide(s, tables),
           NEW t \in Range(tables), NEW u \in Range(tables)
    PROVE  /\ t.left - 1 \notin u.left .. u.right /\ t.right + 1 \notin u.left .. u.right
           /\ t.left = u.left => t = u
<1>1. \A v \in Range(tables) : v.left \in Nat /\ v.right \in Nat /\ v.left <= v.right
  BY TableColumns DEF SideBySide
<1>2. PICK j \in DOMAIN tables : t = tables[j]
  BY DEF Range
<1>3. PICK k \in DOMAIN tables : u = tables[k]
  BY DEF Range
<1>4. j \in Nat /\ k \in Nat
  <2>1. DOMAIN tables = 1 .. Len(tables) /\ Len(tables) \in Nat
    BY DEF SideBySide
  <2> QED BY <2>1
<1>5. CASE j = k
  BY <1>1, <1>2, <1>3, <1>5
<1>6. CASE j < k
  <2>1. t.right + 1 < u.left
    BY <1>2, <1>3, <1>6 DEF SideBySide
  <2> QED BY <1>1, <2>1
<1>7. CASE k < j
  <2>1. u.right + 1 < t.left
    BY <1>2, <1>3, <1>7 DEF SideBySide
  <2> QED BY <1>1, <2>1
<1> QED BY <1>4, <1>5, <1>6, <1>7

\* The groups of columns are the tables.
LEMMA GroupsAre ==
    ASSUME NEW s, IsSheet(s), NEW tables, SideBySide(s, tables)
    PROVE  ColumnGroups(s) = {<<t.left, t.right>> : t \in Range(tables)}
<1> DEFINE span(t) == t.left .. t.right
           gaps == {c \in Columns(s) : IsGap(s, c)}
           wide == Columns(s) \ gaps
           Held(c) == \E t \in Range(tables) : c \in span(t)
<1>1. \A t \in Range(tables) : /\ t.left \in Nat /\ t.right \in Nat /\ t.left <= t.right
                               /\ span(t) \subseteq Columns(s)
  BY TableColumns DEF SideBySide
<1>2. \A c : c \in wide <=> Held(c)
  <2>1. \A c \in Columns(s) : c \in wide <=> Held(c)
    BY GapIs DEF SideBySide
  <2>2. \A c : Held(c) => c \in Columns(s)
    BY <1>1
  <2> HIDE DEF Held
  <2> QED BY <2>1, <2>2
<1>3. ColumnGroups(s) = {g \in Columns(s) \X Columns(s) :
            /\ g[1] <= g[2] /\ \A c \in g[1] .. g[2] : ~(c \notin wide)
            /\ g[1] - 1 \notin wide /\ g[2] + 1 \notin wide}
  BY DEF ColumnGroups
<1> HIDE DEF wide
<1>4. ColumnGroups(s) = {g \in Columns(s) \X Columns(s) :
            /\ g[1] <= g[2] /\ \A c \in g[1] .. g[2] : Held(c)
            /\ ~Held(g[1] - 1) /\ ~Held(g[2] + 1)}
  <2> HIDE DEF Held
  <2> QED BY <1>2, <1>3
<1>5. ASSUME NEW t \in Range(tables) PROVE ~Held(t.left - 1) /\ ~Held(t.right + 1)
  BY SidesApart
<1>6. ASSUME NEW t \in Range(tables) PROVE <<t.left, t.right>> \in ColumnGroups(s)
  <2> DEFINE g == <<t.left, t.right>>
  <2>1. t.left \in span(t) /\ t.right \in span(t) /\ t.left <= t.right
    BY <1>1
  <2>2. g \in Columns(s) \X Columns(s)
    BY <1>1, <2>1
  <2>3. \A c \in t.left .. t.right : Held(c)
    OBVIOUS
  <2> HIDE DEF Held
  <2> QED BY <1>4, <1>5, <2>1, <2>2, <2>3
<1>7. ASSUME NEW g \in ColumnGroups(s)
      PROVE  \E t \in Range(tables) : g = <<t.left, t.right>>
  <2>1. /\ g \in Columns(s) \X Columns(s) /\ g[1] <= g[2] /\ \A c \in g[1] .. g[2] : Held(c)
        /\ ~Held(g[1] - 1) /\ ~Held(g[2] + 1)
    <3> HIDE DEF Held
    <3> QED BY <1>4
  <2>2. PICK a \in Nat, b \in Nat : g = <<a, b>>
    <3>1. Columns(s) \subseteq Nat
      BY SheetFacts
    <3> QED BY <2>1, <3>1
  <2>3. /\ a <= b /\ ~Held(a - 1) /\ ~Held(b + 1)
        /\ \A c \in a .. b : Held(c)
    BY <2>1, <2>2
  <2>4. a \in a .. b
    BY <2>3
  <2>5. PICK t \in Range(tables) : a \in span(t)
    BY <2>3, <2>4
  <2>6. t.left = a
    <3>1. ~(t.left < a)
      <4>1. t.left < a => a - 1 \in span(t)
        BY <1>1, <2>5
      <4> QED BY <2>3, <4>1
    <3> QED BY <1>1, <2>5, <3>1
  <2>7. ~(t.right < b)
    <3>1. t.right < b => t.right + 1 \in a .. b
      BY <1>1, <2>5
    <3> HIDE DEF Held
    <3> QED BY <1>5, <2>3, <3>1
  <2>8. ~(b < t.right)
    <3>1. b < t.right => b + 1 \in span(t)
      BY <1>1, <2>3, <2>6
    <3> QED BY <2>3, <3>1
  <2>9. t.right = b
    BY <1>1, <2>7, <2>8
  <2> QED BY <2>2, <2>6, <2>9
<1> QED BY <1>6, <1>7

\* What grows is in order.
LEMMA GrowingInOrder ==
    ASSUME NEW n \in Nat, NEW f \in [1 .. n -> Nat],
           \A j, k \in 1 .. n : j < k => f[j] < f[k]
    PROVE  InOrder({f[k] : k \in 1 .. n}) = f
<1> DEFINE S == {f[k] : k \in 1 .. n}
<1>1. S \in SUBSET Nat
  OBVIOUS
<1>2. \A j, k \in 1 .. n : f[j] = f[k] => j = k
  <2>1. \A j, k \in 1 .. n : j < k \/ k < j \/ j = k
    OBVIOUS
  <2>2. \A j, k \in 1 .. n : f[j] \in Nat /\ f[k] \in Nat
    OBVIOUS
  <2> QED BY <2>1, <2>2
<1>3. ASSUME NEW m \in 0 .. n
      PROVE  /\ IsFiniteSet({f[k] : k \in 1 .. m}) /\ Cardinality({f[k] : k \in 1 .. m}) = m
  <2> DEFINE T == {f[k] : k \in 1 .. m}
             g == [k \in 1 .. m |-> f[k]]
  <2>1. \A k \in 1 .. m : k \in 1 .. n
    OBVIOUS
  <2>2. g \in Surjection(1 .. m, T) /\ g \in Injection(1 .. m, T)
    <3>1. g \in [1 .. m -> T]
      OBVIOUS
    <3>2. \A x \in T : \E k \in 1 .. m : g[k] = x
      OBVIOUS
    <3>3. \A j, k \in 1 .. m : g[j] = g[k] => j = k
      BY <1>2, <2>1
    <3> HIDE DEF g, T
    <3> QED BY <3>1, <3>2, <3>3 DEF Surjection, Injection, IsInjective
  <2>3. IsFiniteSet(1 .. m) /\ Cardinality(1 .. m) = m
    <3>1. 1 \in Int /\ m \in Int /\ (IF 1 > m THEN 0 ELSE m - 1 + 1) = m
      OBVIOUS
    <3> QED BY <3>1, FS_Interval
  <2> HIDE DEF g, T
  <2>4. IsFiniteSet(T) /\ Cardinality(T) = Cardinality(1 .. m)
    BY <2>2, <2>3, FS_Surjection
  <2> QED BY <2>3, <2>4 DEF T
<1>4. IsFiniteSet(S) /\ Cardinality(S) = n
  <2>1. n \in 0 .. n
    OBVIOUS
  <2> QED BY <1>3, <2>1
<1>5. ASSUME NEW k \in 1 .. n PROVE Rank(f[k], S) = k - 1
  <2>1. {h \in S : h < f[k]} = {f[j] : j \in 1 .. k - 1}
    <3>1. \A j \in 1 .. n : f[j] < f[k] <=> j < k
      <4>1. \A j \in 1 .. n : j < k \/ k < j \/ j = k
        OBVIOUS
      <4>2. \A j \in 1 .. n : f[j] \in Nat /\ f[k] \in Nat
        OBVIOUS
      <4> QED BY <4>1, <4>2
    <3>2. \A j : j \in 1 .. k - 1 <=> j \in 1 .. n /\ j < k
      OBVIOUS
    <3> QED BY <3>1, <3>2
  <2>2. k - 1 \in 0 .. n
    OBVIOUS
  <2> QED BY <1>3, <2>1, <2>2 DEF Rank
<1>6. ASSUME NEW k \in 1 .. n PROVE (CHOOSE i \in S : Rank(i, S) = k - 1) = f[k]
  <2>1. f[k] \in S
    OBVIOUS
  <2> HIDE DEF S
  <2>2. \A i \in S : Rank(i, S) = k - 1 => i = f[k]
    BY <1>1, <1>4, <1>5, <2>1, CodesDiffer
  <2> QED BY <1>5, <2>1, <2>2
<1>7. InOrder(S) = [k \in 1 .. n |-> CHOOSE i \in S : Rank(i, S) = k - 1]
  BY <1>4 DEF InOrder
<1> HIDE DEF S
<1> QED BY <1>6, <1>7 DEF S

LEMMA SeenInOrder ==
    ASSUME NEW s, IsSheet(s), NEW tables, SideBySide(s, tables)
    PROVE  TablesSeen(s) = [k \in 1 .. Len(tables) |->
               TableWith(s, tables[k].left .. tables[k].right,
                         HeaderRow(s, tables[k].left .. tables[k].right))]
<1> DEFINE n == Len(tables)
           groups == ColumnGroups(s)
           lefts == InOrder({g[1] : g \in groups})
           f == [k \in 1 .. n |-> tables[k].left]
<1>1. n \in Nat /\ DOMAIN tables = 1 .. n /\ Range(tables) = {tables[k] : k \in 1 .. n}
  BY DEF SideBySide, Range
<1>2. \A t \in Range(tables) : t.left \in Nat /\ t.right \in Nat /\ t.left <= t.right
  BY TableColumns DEF SideBySide
<1>3. groups = {<<t.left, t.right>> : t \in Range(tables)}
  BY GroupsAre
<1> HIDE DEF groups
<1>4. {g[1] : g \in groups} = {f[k] : k \in 1 .. n}
  <2>1. {g[1] : g \in groups} = {t.left : t \in Range(tables)}
    <3>1. ASSUME NEW g \in groups PROVE \E t \in Range(tables) : g[1] = t.left
      BY <1>3
    <3>2. ASSUME NEW t \in Range(tables) PROVE \E g \in groups : g[1] = t.left
      <4>1. <<t.left, t.right>> \in groups
        BY <1>3
      <4>2. <<t.left, t.right>>[1] = t.left
        OBVIOUS
      <4> QED BY <4>1, <4>2
    <3> QED BY <3>1, <3>2
  <2>2. {t.left : t \in Range(tables)} = {f[k] : k \in 1 .. n}
    BY <1>1
  <2> QED BY <2>1, <2>2
<1>5. lefts = f
  <2>1. f \in [1 .. n -> Nat]
    BY <1>1, <1>2
  <2>2. \A j, k \in 1 .. n : j < k => f[j] < f[k]
    <3>1. ASSUME NEW j \in 1 .. n, NEW k \in 1 .. n, j < k PROVE f[j] < f[k]
      <4>1. tables[j].right + 1 < tables[k].left
        BY <1>1, <3>1 DEF SideBySide
      <4> QED BY <1>1, <1>2, <4>1
    <3> QED BY <3>1
  <2> HIDE DEF f
  <2> QED BY <1>1, <1>4, <2>1, <2>2, GrowingInOrder
<1> DEFINE group(k) == CHOOSE g \in groups : g[1] = lefts[k]
<1>6. ASSUME NEW k \in 1 .. n PROVE group(k) = <<tables[k].left, tables[k].right>>
  <2> DEFINE t == tables[k]
  <2>1. lefts[k] = t.left /\ t \in Range(tables)
    BY <1>1, <1>5
  <2> HIDE DEF lefts, t
  <2>2. <<t.left, t.right>> \in groups
    BY <1>3, <2>1
  <2>3. ASSUME NEW g \in groups, g[1] = t.left PROVE g = <<t.left, t.right>>
    <3>1. PICK u \in Range(tables) : g = <<u.left, u.right>>
      BY <1>3
    <3>2. u = t
      BY <2>1, <2>3, <3>1, SidesApart
    <3> QED BY <3>1, <3>2
  <2> QED BY <2>1, <2>2, <2>3 DEF t
<1>7. DOMAIN lefts = 1 .. n
  BY <1>5
<1>8. TablesSeen(s) = [k \in DOMAIN lefts |->
            TableWith(s, group(k)[1] .. group(k)[2], HeaderRow(s, group(k)[1] .. group(k)[2]))]
  BY DEF TablesSeen, groups
<1> HIDE DEF group, lefts
<1> QED BY <1>6, <1>7, <1>8

LEMMA LeastIs ==
    ASSUME NEW S \in SUBSET Nat, NEW m \in S, \A x \in S : m <= x
    PROVE  Min(S) = m
<1>1. \A x \in S : (\A y \in S : x <= y) => x = m
  OBVIOUS
<1>2. (CHOOSE x \in S : \A y \in S : x <= y) = m
  BY <1>1
<1> QED BY <1>2, Zenon DEF Min

LEMMA GreatestIs ==
    ASSUME NEW S \in SUBSET Nat, NEW m \in S, \A x \in S : x <= m
    PROVE  Max(S) = m
<1>1. \A x \in S : (\A y \in S : x >= y) => x = m
  OBVIOUS
<1>2. \A x \in S : m >= x
  OBVIOUS
<1>3. (CHOOSE x \in S : \A y \in S : x >= y) = m
  BY <1>1, <1>2
<1> QED BY <1>3, Zenon DEF Max

LEMMA LeastOf == ASSUME NEW S \in SUBSET Nat, S # {} PROVE \E x \in S : \A y \in S : x <= y
<1> DEFINE less == OpToRel(<, Nat)
<1>1. IsWellFoundedOn(less, Nat)
  BY NatLessThanWellFounded, Zenon
<1>2. \A x, y \in Nat : y < x => <<y, x>> \in less
  BY Zenon DEF OpToRel
<1>3. PICK x \in S : \A y \in S : ~(<<y, x>> \in less)
  <2> HIDE DEF less
  <2> QED BY <1>1, WFMin, Zenon
<1>4. \A y \in S : ~(y < x)
  <2> HIDE DEF less
  <2> QED BY <1>2, <1>3
<1>5. \A y \in S : x <= y
  BY <1>4
<1> QED BY <1>5

LEMMA LeastIn == ASSUME NEW S \in SUBSET Nat, S # {} PROVE Min(S) \in S
<1>1. PICK x \in S : \A y \in S : x <= y
  BY LeastOf
<1> QED BY <1>1, LeastIs

\* What the first keyword of a header says.
LEMMA HeadKind ==
    ASSUME NEW s, NEW t, Headed(s, t), NEW c \in t.left .. t.right
    PROVE  ColumnKind(s, c, t.header) = "name" <=> c = t.name
<1> DEFINE head == s[t.header][c].words
           held == {k \in 1 .. 4 : HeaderKinds[k] \in head}
<1>1. /\ s[t.header][c] # Blank /\ head \cap HeaderWords # {}
      /\ "name" \in head <=> c = t.name
  BY DEF Headed
<1> HIDE DEF head
<1>2. ColumnKind(s, c, t.header) = HeaderKinds[Min(held)]
  <2>1. head \cap HeaderWords # {}
    BY <1>1
  <2> QED BY <1>1, <2>1 DEF ColumnKind, head
<1>3. held # {}
  <2>1. PICK word \in head : word \in HeaderWords
    BY <1>1
  <2>2. PICK k \in DOMAIN HeaderKinds : word = HeaderKinds[k]
    BY <2>1 DEF HeaderWords, Range
  <2>3. DOMAIN HeaderKinds = 1 .. 4
    BY DEF HeaderKinds
  <2> QED BY <2>1, <2>2, <2>3
<1>4. Min(held) \in held
  <2>1. held \in SUBSET Nat
    OBVIOUS
  <2> HIDE DEF held
  <2> QED BY <1>3, <2>1, LeastIn
<1>5. ASSUME c = t.name PROVE HeaderKinds[Min(held)] = "name"
  <2>1. 1 \in held
    BY <1>1, <1>5 DEF HeaderKinds
  <2>2. held \in SUBSET Nat /\ \A x \in held : 1 <= x
    OBVIOUS
  <2> HIDE DEF held
  <2>3. Min(held) = 1
    BY <2>1, <2>2, LeastIs
  <2> QED BY <2>3 DEF HeaderKinds
<1>6. ASSUME HeaderKinds[Min(held)] = "name" PROVE c = t.name
  <2>1. HeaderKinds[Min(held)] \in head
    BY <1>4
  <2> HIDE DEF held
  <2> QED BY <1>1, <1>6, <2>1
<1> QED BY <1>2, <1>5, <1>6

\* The header and the titles above it name the side of the table.
Sided(s, t) ==
    LET spoken == UNION {s[rc[1]][rc[2]].words :
                   rc \in Filled(s, {r \in DOMAIN s : r \in t.header - 3 .. t.header}
                                      \X (t.left .. t.right))}
    IN  /\ spoken \cap {"supplier", "catalog"} \subseteq {t.role}
        /\ t.role = "catalog" => "catalog" \in spoken

LEMMA RoleFound ==
    ASSUME NEW s, NEW t, IsTable(s, t), Sided(s, t)
    PROVE  TableRole(s, t.left .. t.right, t.header) = t.role
<1> DEFINE spoken == UNION {s[rc[1]][rc[2]].words :
                   rc \in Filled(s, {r \in DOMAIN s : r \in t.header - 3 .. t.header}
                                      \X (t.left .. t.right))}
<1>1. /\ spoken \cap {"supplier", "catalog"} \subseteq {t.role}
      /\ t.role = "catalog" => "catalog" \in spoken
  BY DEF Sided
<1>2. TableRole(s, t.left .. t.right, t.header)
        = IF "catalog" \in spoken /\ "supplier" \notin spoken THEN "catalog" ELSE "supplier"
  BY DEF TableRole
<1>3. t.role \in {"supplier", "catalog"}
  BY DEF IsTable
<1> HIDE DEF spoken
<1> QED BY <1>1, <1>2, <1>3

\* A table is seen as it is.
LEMMA TableFound ==
    ASSUME NEW s, IsSheet(s), NEW t, Headed(s, t), Sided(s, t)
    PROVE  LET u == TableWith(s, t.left .. t.right, t.header)
           IN  /\ u \in TableSpec /\ u.left = t.left /\ u.right = t.right
               /\ u.header = t.header /\ u.name = t.name /\ u.role = t.role
<1> DEFINE cols == t.left .. t.right
           u == TableWith(s, cols, t.header)
           first(kind) == First({c \in cols : ColumnKind(s, c, t.header) = kind})
<1>1. IsTable(s, t) /\ t.name \in cols /\ t.role \in {"supplier", "catalog"}
  BY DEF Headed, IsTable
<1>2. /\ t.left \in Nat /\ t.right \in Nat /\ 1 <= t.left /\ t.left <= t.right
      /\ t.header \in DOMAIN s
  BY <1>1, TableColumns
<1>3. t.header \in Nat
  BY <1>2, SheetFacts
<1>4. Min(cols) = t.left /\ Max(cols) = t.right
  <2>1. /\ cols \in SUBSET Nat /\ t.left \in cols /\ t.right \in cols
        /\ \A x \in cols : t.left <= x /\ x <= t.right
    BY <1>2
  <2> HIDE DEF cols
  <2> QED BY <2>1, LeastIs, GreatestIs
<1>5. \A kind : first(kind) \in Nat
  <2>1. ASSUME NEW S \in SUBSET cols PROVE First(S) \in Nat
    <3>1. S \in SUBSET Nat
      BY <1>2
    <3>2. CASE S = {}
      BY <3>2 DEF First
    <3>3. CASE S # {}
      BY <3>1, <3>3, LeastIn DEF First
    <3> QED BY <3>2, <3>3
  <2> QED BY <2>1
<1>6. first("name") = t.name /\ t.name \in Nat /\ t.name # 0
  <2>1. {c \in cols : ColumnKind(s, c, t.header) = "name"} = {t.name}
    BY <1>1, HeadKind
  <2>2. t.name \in Nat /\ t.name # 0
    BY <1>1, <1>2
  <2>3. Min({t.name}) = t.name
    BY <2>2, LeastIs
  <2> QED BY <2>1, <2>2, <2>3 DEF First
<1>7. TableRole(s, cols, t.header) = t.role
  BY <1>1, RoleFound
<1>8. u = [left |-> t.left, right |-> t.right, header |-> t.header,
           name |-> t.name, unit |-> first("unit"), price |-> first("price"), role |-> t.role]
  <2>1. u = [left |-> Min(cols), right |-> Max(cols), header |-> t.header,
             name |-> IF first("name") # 0 THEN first("name")
                      ELSE LongestColumn(s, cols, t.header),
             unit |-> first("unit"), price |-> first("price"),
             role |-> TableRole(s, cols, t.header)]
    BY DEF TableWith
  <2> HIDE DEF cols, first
  <2> QED BY <1>4, <1>6, <1>7, <2>1
<1>9. first("unit") \in Nat /\ first("price") \in Nat
  BY <1>5
<1> HIDE DEF u, first
<1>10. u \in TableSpec
  BY <1>1, <1>2, <1>3, <1>6, <1>8, <1>9 DEF TableSpec
<1>11. /\ u.left = t.left /\ u.right = t.right
       /\ u.header = t.header /\ u.name = t.name /\ u.role = t.role
  BY <1>8
<1> QED BY <1>10, <1>11 DEF u

Texts == {cell.text : cell \in Cells \ {Blank}}

\* An item of a list, and how often a text is listed.
Item == [text : Texts, unit : Cells \cup {Blank}, price : Cells \cup {Blank}]

With(list, v) == {n \in DOMAIN list : list[n].text = v}
Count(list, v) == Cardinality(With(list, v))

NamesOf(s, t) ==
    {s[r][t.name].text : r \in {r \in t.header + 1 .. Len(s) : IsName(s[r][t.name])}}

\* A table that can be read.
InSheet(s, t) ==
    /\ t.header \in DOMAIN s /\ t.name \in Columns(s)
    /\ t.name \in t.left .. t.right

\* The names of a table are listed once.
LEMMA RegionTexts ==
    ASSUME NEW s, IsSheet(s), NEW t, InSheet(s, t)
    PROVE  /\ RegionItems(s, t) \in Seq(Item)
           /\ \A v : Count(RegionItems(s, t), v) = IF v \in NamesOf(s, t) THEN 1 ELSE 0
<1> DEFINE under == IF t.header = 0 THEN {} ELSE t.header + 1 .. Len(s)
           within(c) == c \in Columns(s) /\ c \in t.left .. t.right
           names == IF within(t.name) THEN {r \in under : IsName(s[r][t.name])} ELSE {}
           first == {r \in names : \A q \in names :
                        s[q][t.name].text = s[r][t.name].text => r <= q}
           value(r, c) == IF within(c) THEN s[r][c] ELSE Blank
           item(r) == [text |-> s[r][t.name].text,
                       unit |-> value(r, t.unit), price |-> value(r, t.price)]
           rows == InOrder(first)
           list == [k \in DOMAIN rows |-> item(rows[k])]
           text(r) == s[r][t.name].text
<1>1. RegionItems(s, t) = list
  BY DEF RegionItems
<1>2. /\ Len(s) \in Nat /\ DOMAIN s = 1 .. Len(s)
      /\ \A r \in DOMAIN s : \A c \in Columns(s) : s[r][c] \in Cells
  BY SheetFacts
<1>3. t.header \in 1 .. Len(s) /\ t.header # 0 /\ within(t.name)
  BY <1>2 DEF InSheet
<1>4. under = t.header + 1 .. Len(s)
  BY <1>3
<1>5. names = {r \in t.header + 1 .. Len(s) : IsName(s[r][t.name])}
  <2> HIDE DEF under, within
  <2> QED BY <1>3, <1>4
<1>6. NamesOf(s, t) = {text(r) : r \in names}
  BY <1>5 DEF NamesOf
<1>7. /\ names \in SUBSET (DOMAIN s) /\ names \in SUBSET Nat
      /\ \A r \in names : s[r][t.name] \in Cells \ {Blank}
  <2>1. \A r \in t.header + 1 .. Len(s) : r \in 1 .. Len(s) /\ r \in Nat
    BY <1>2, <1>3
  <2>2. names \in SUBSET (DOMAIN s) /\ names \in SUBSET Nat
    <3> HIDE DEF names
    <3> QED BY <1>2, <1>5, <2>1
  <2>3. ASSUME NEW r \in names PROVE s[r][t.name] \in Cells \ {Blank}
    <3>1. IsName(s[r][t.name]) /\ r \in DOMAIN s
      <4> HIDE DEF names
      <4> QED BY <1>5, <2>2, <2>3
    <3>2. t.name \in Columns(s)
      BY DEF InSheet
    <3> QED BY <1>2, <3>1, <3>2 DEF IsName
  <2> QED BY <2>2, <2>3
<1>8. \A r \in names : \A c : value(r, c) \in Cells \cup {Blank}
  <2>1. ASSUME NEW r \in names, NEW c PROVE value(r, c) \in Cells \cup {Blank}
    <3>1. r \in DOMAIN s
      <4> HIDE DEF names
      <4> QED BY <1>7
    <3> QED BY <1>2, <3>1
  <2> QED BY <2>1
<1> HIDE DEF value, under, within, names
<1>9. \A r \in names : item(r) \in Item /\ item(r).text = text(r)
  BY <1>7, <1>8 DEF Item, Texts
<1> HIDE DEF item
<1>10. first \in SUBSET names /\ first \in SUBSET Nat /\ IsFiniteSet(first)
  <2>1. first \in SUBSET (1 .. Len(s))
    BY <1>2, <1>7
  <2>2. IsFiniteSet(1 .. Len(s))
    <3>1. 1 \in Int /\ Len(s) \in Int
      BY <1>2
    <3> QED BY <3>1, FS_Interval
  <2> HIDE DEF first
  <2>3. IsFiniteSet(first)
    BY <2>1, <2>2, FS_Subset
  <2> QED BY <1>7, <2>1, <2>3 DEF first
<1>11. \A r, q \in first : text(r) = text(q) => r = q
  <2>1. \A r, q \in first : text(r) = text(q) => r <= q /\ q <= r
    OBVIOUS
  <2>2. \A r \in first : r \in Nat
    BY <1>10
  <2> HIDE DEF first
  <2> QED BY <2>1, <2>2
<1>12. ASSUME NEW r \in names PROVE \E q \in first : text(q) = text(r)
  <2> DEFINE same == {q \in names : text(q) = text(r)}
             q == Min(same)
  <2>1. same \in SUBSET Nat /\ r \in same
    BY <1>7
  <2>2. q \in same /\ \A p \in same : q <= p
    <3> HIDE DEF same
    <3>1. q \in same
      BY <2>1, LeastIn
    <3>2. PICK x \in same : \A p \in same : x <= p
      BY <2>1, LeastOf
    <3> QED BY <2>1, <3>1, <3>2, LeastIs
  <2> HIDE DEF q
  <2>3. q \in first
    BY <2>2
  <2> QED BY <2>2, <2>3
<1> HIDE DEF first
<1>13. /\ rows \in Seq(first) /\ Len(rows) = Cardinality(first)
       /\ \A i \in first : \E k \in DOMAIN rows : \A l \in DOMAIN rows : rows[l] = i <=> l = k
  BY <1>10, InOrderHasAll
<1> HIDE DEF rows
<1>14. DOMAIN rows = 1 .. Len(rows) /\ Len(rows) \in Nat /\ \A k \in DOMAIN rows : rows[k] \in first
  BY <1>13
<1>15. list \in Seq(Item)
  <2>1. \A k \in 1 .. Len(rows) : item(rows[k]) \in Item
    BY <1>9, <1>10, <1>14
  <2>2. list = [k \in 1 .. Len(rows) |-> item(rows[k])]
    BY <1>14
  <2> HIDE DEF list
  <2> QED BY <1>14, <2>1, <2>2
<1>16. DOMAIN list = DOMAIN rows /\ \A k \in DOMAIN rows : list[k].text = text(rows[k])
  BY <1>9, <1>10, <1>14
<1> HIDE DEF list, text
<1>17. ASSUME NEW v, v \in NamesOf(s, t) PROVE Count(list, v) = 1
  <2>1. PICK r \in names : v = text(r)
    BY <1>6, <1>17
  <2>2. PICK q \in first : text(q) = v
    BY <1>12, <2>1
  <2>3. PICK k \in DOMAIN rows : \A l \in DOMAIN rows : rows[l] = q <=> l = k
    BY <1>13
  <2>4. With(list, v) = {k}
    <3>1. ASSUME NEW l \in DOMAIN rows PROVE text(rows[l]) = v <=> l = k
      <4>1. text(rows[l]) = v <=> rows[l] = q
        BY <1>11, <1>14, <2>2
      <4> QED BY <2>3, <4>1
    <3> QED BY <1>16, <3>1 DEF With
  <2> QED BY <2>4, FS_Singleton DEF Count
<1>18. ASSUME NEW v, v \notin NamesOf(s, t) PROVE Count(list, v) = 0
  <2>1. With(list, v) = {}
    <3>1. \A k \in DOMAIN rows : text(rows[k]) \in NamesOf(s, t)
      BY <1>6, <1>10, <1>14
    <3> QED BY <1>16, <1>18, <3>1 DEF With
  <2> QED BY <2>1, FS_EmptySet DEF Count
<1> QED BY <1>1, <1>15, <1>17, <1>18

LEMMA ConcatCount ==
    ASSUME NEW a \in Seq(Item), NEW b \in Seq(Item), NEW v
    PROVE  /\ Count(a, v) \in Nat /\ Count(b, v) \in Nat
           /\ a \o b \in Seq(Item) /\ Count(a \o b, v) = Count(a, v) + Count(b, v)
<1> DEFINE c == a \o b
           m == Len(a)
           n == Len(b)
           A == With(a, v)
           B == With(b, v)
           C == {k \in 1 .. m + n : k > m /\ c[k].text = v}
<1>1. /\ m \in Nat /\ n \in Nat /\ DOMAIN a = 1 .. m /\ DOMAIN b = 1 .. n
      /\ c \in Seq(Item) /\ DOMAIN c = 1 .. m + n
      /\ \A k \in 1 .. m : c[k] = a[k]
      /\ \A k \in 1 .. m + n : k > m => c[k] = b[k - m]
  OBVIOUS
<1> HIDE DEF c, m, n
<1>2. IsFiniteSet(A) /\ IsFiniteSet(B) /\ IsFiniteSet(C)
  <2>1. \A k \in Nat : IsFiniteSet(1 .. k)
    <3>1. 1 \in Int /\ \A k \in Nat : k \in Int
      OBVIOUS
    <3> QED BY <3>1, FS_Interval
  <2>2. m + n \in Nat
    BY <1>1
  <2>3. A \in SUBSET (1 .. m) /\ B \in SUBSET (1 .. n) /\ C \in SUBSET (1 .. m + n)
    BY <1>1 DEF With
  <2> HIDE DEF A, B, C
  <2> QED BY <1>1, <2>1, <2>2, <2>3, FS_Subset
<1>3. With(c, v) = A \cup C /\ A \cap C = {}
  <2>1. ASSUME NEW k \in 1 .. m + n PROVE k \in With(c, v) <=> k \in A \cup C
    <3>1. CASE k \in 1 .. m
      BY <1>1, <3>1 DEF With
    <3>2. CASE k \notin 1 .. m
      BY <1>1, <3>2 DEF With
    <3> QED BY <3>1, <3>2
  <2>2. A \subseteq 1 .. m + n /\ C \subseteq 1 .. m + n /\ With(c, v) \subseteq 1 .. m + n
    BY <1>1 DEF With
  <2>3. A \cap C = {}
    BY <1>1 DEF With
  <2> HIDE DEF A, C
  <2> QED BY <2>1, <2>2, <2>3
<1>4. Cardinality(C) = Cardinality(B)
  <2> DEFINE f == [k \in B |-> m + k]
  <2>1. ASSUME NEW k \in B PROVE m + k \in C
    <3>1. k \in 1 .. n /\ b[k].text = v
      BY <1>1 DEF With
    <3>2. PICK j \in 1 .. m + n : j = m + k
      BY <1>1, <3>1
    <3>3. j > m /\ j - m = k
      BY <1>1, <3>1, <3>2
    <3> QED BY <1>1, <3>1, <3>2, <3>3
  <2>2. ASSUME NEW j \in C PROVE \E k \in B : m + k = j
    <3>1. j \in 1 .. m + n /\ j > m /\ c[j].text = v
      OBVIOUS
    <3>2. PICK k \in 1 .. n : k = j - m
      BY <1>1, <3>1
    <3>3. k \in B
      BY <1>1, <3>1, <3>2 DEF With
    <3> QED BY <1>1, <3>1, <3>2, <3>3
  <2>3. \A k \in B : k \in Nat
    BY <1>1 DEF With
  <2>4. \A k, l \in B : m + k = m + l => k = l
    BY <1>1, <2>3
  <2> HIDE DEF B, C
  <2>5. f \in Surjection(B, C) /\ f \in Injection(B, C)
    BY <2>1, <2>2, <2>4 DEF Surjection, Injection, IsInjective
  <2> HIDE DEF f
  <2> QED BY <1>2, <2>5, FS_Surjection
<1> HIDE DEF A, B, C
<1>5. Cardinality(A \cup C) = Cardinality(A) + Cardinality(C) - Cardinality({})
  BY <1>2, <1>3, FS_Union
<1>6. Cardinality({}) = 0 /\ Cardinality(A) \in Nat /\ Cardinality(B) \in Nat
  BY <1>2, FS_EmptySet, FS_CardinalityType
<1>7. Count(c, v) = Cardinality(A) + Cardinality(B)
  BY <1>3, <1>4, <1>5, <1>6 DEF Count
<1> QED BY <1>1, <1>6, <1>7 DEF Count, A, B, c

\* The lists of all tables one after the other.
ListOf(s, t, role) == IF t # Blank /\ t.role = role THEN RegionItems(s, t) ELSE <<>>

Joins(f, s, tables, role, n) ==
    f = [k \in 0 .. n |-> IF k = 0 THEN <<>> ELSE f[k - 1] \o ListOf(s, tables[k], role)]

LEMMA JoinExists ==
    ASSUME NEW s, NEW tables, NEW role, NEW n \in Nat
    PROVE  \E f : Joins(f, s, tables, role, n)
<1> DEFINE Good == {i \in Nat : \E f : Joins(f, s, tables, role, i)}
           step(h, k) == IF k = 0 THEN <<>> ELSE h[k - 1] \o ListOf(s, tables[k], role)
<1>1. 0 \in Good
  <2> DEFINE f == [k \in 0 .. 0 |-> <<>>]
  <2>1. Joins(f, s, tables, role, 0)
    BY DEF Joins
  <2> QED BY <2>1
<1>2. ASSUME NEW i \in 1 .. n, i - 1 \in Good PROVE i \in Good
  <2>1. PICK g : Joins(g, s, tables, role, i - 1)
    BY <1>2
  <2> DEFINE f == [k \in 0 .. i |-> step(g, k)]
  <2>2. g = [k \in 0 .. i - 1 |-> step(g, k)]
    BY <2>1 DEF Joins
  <2>3. ASSUME NEW k \in 0 .. i - 1 PROVE f[k] = g[k]
    <3>1. k \in 0 .. i
      OBVIOUS
    <3>2. f[k] = step(g, k)
      BY <3>1
    <3>3. g[k] = step(g, k)
      <4> HIDE DEF step
      <4> QED BY <2>2
    <3> QED BY <3>2, <3>3
  <2>4. ASSUME NEW k \in 0 .. i PROVE step(g, k) = step(f, k)
    <3>1. CASE k = 0
      BY <3>1
    <3>2. CASE k # 0
      <4>1. k - 1 \in 0 .. i - 1
        BY <3>2
      <4>2. f[k - 1] = g[k - 1]
        <5> HIDE DEF f
        <5> QED BY <2>3, <4>1
      <4> HIDE DEF f
      <4> QED BY <4>2
    <3> QED BY <3>1, <3>2
  <2>5. f = [k \in 0 .. i |-> step(f, k)]
    <3>1. f = [k \in 0 .. i |-> step(g, k)]
      OBVIOUS
    <3> HIDE DEF step
    <3> QED BY <2>4, <3>1, Zenon
  <2>6. Joins(f, s, tables, role, i)
    BY <2>5 DEF Joins
  <2> HIDE DEF f
  <2> QED BY <2>6
<1> HIDE DEF Good
<1>3. Good \in SUBSET Nat
  BY DEF Good
<1>4. n \in Good
  BY <1>1, <1>2, <1>3, LoopEnds
<1> QED BY <1>4 DEF Good

Joined(f, s, tables, role) ==
    /\ f[0] = <<>> /\ ItemsOf(s, tables)[role] = f[Len(tables)]
    /\ \A k \in 1 .. Len(tables) : f[k] = f[k - 1] \o ListOf(s, tables[k], role)

LEMMA ItemsJoined ==
    ASSUME NEW s, NEW tables, Len(tables) \in Nat, NEW role \in {"supplier", "catalog"}
    PROVE  \E f : Joined(f, s, tables, role)
<1> DEFINE f == CHOOSE g : Joins(g, s, tables, role, Len(tables))
<1>1. Joins(f, s, tables, role, Len(tables))
  BY JoinExists
<1>2. ItemsOf(s, tables)[role] = f[Len(tables)]
  BY DEF ItemsOf, Joins, ListOf
<1> HIDE DEF f
<1>3. f[0] = <<>>
  BY <1>1 DEF Joins
<1>4. ASSUME NEW k \in 1 .. Len(tables) PROVE f[k] = f[k - 1] \o ListOf(s, tables[k], role)
  <2> DEFINE step(i) == IF i = 0 THEN <<>> ELSE f[i - 1] \o ListOf(s, tables[i], role)
  <2>1. f = [i \in 0 .. Len(tables) |-> step(i)]
    BY <1>1 DEF Joins
  <2>2. k \in 0 .. Len(tables) /\ k # 0
    OBVIOUS
  <2>3. f[k] = step(k)
    <3> HIDE DEF step
    <3> QED BY <2>1, <2>2
  <2> QED BY <2>2, <2>3
<1> QED BY <1>2, <1>3, <1>4 DEF Joined

\* Every text is listed as often as there are tables of the role with it.
Telling(s, tables, role, v, n) ==
    {k \in 1 .. n : tables[k] # Blank /\ tables[k].role = role /\ v \in NamesOf(s, tables[k])}

LEMMA ItemsCounted ==
    ASSUME NEW s, IsSheet(s), NEW tables, Len(tables) \in Nat,
           \A k \in 1 .. Len(tables) : tables[k] = Blank \/ InSheet(s, tables[k]),
           NEW role \in {"supplier", "catalog"}, NEW v
    PROVE  Count(ItemsOf(s, tables)[role], v)
              = Cardinality(Telling(s, tables, role, v, Len(tables)))
<1> DEFINE n == Len(tables)
           told(k) == Telling(s, tables, role, v, k)
<1>1. PICK f : Joined(f, s, tables, role)
  BY ItemsJoined
<1>0. /\ f[0] = <<>> /\ ItemsOf(s, tables)[role] = f[n]
      /\ \A k \in 1 .. n : f[k] = f[k - 1] \o ListOf(s, tables[k], role)
  BY <1>1 DEF Joined
<1> DEFINE Good == {k \in Nat : f[k] \in Seq(Item) /\ Count(f[k], v) = Cardinality(told(k))
                                /\ IsFiniteSet(told(k))}
<1>2. 0 \in Good
  <2>1. told(0) = {}
    BY DEF Telling
  <2>2. <<>> \in Seq(Item) /\ With(<<>>, v) = {}
    BY DEF With
  <2> QED BY <1>0, <2>1, <2>2, FS_EmptySet DEF Count
<1>3. ASSUME NEW k \in 1 .. n, k - 1 \in Good PROVE k \in Good
  <2> DEFINE t == tables[k]
             list == ListOf(s, t, role)
             tells == t # Blank /\ t.role = role /\ v \in NamesOf(s, t)
  <2>1. list \in Seq(Item) /\ Count(list, v) = IF tells THEN 1 ELSE 0
    <3>1. CASE t # Blank /\ t.role = role
      <4>1. InSheet(s, t)
        BY <3>1
      <4> HIDE DEF t
      <4> QED BY <3>1, <4>1, RegionTexts DEF ListOf
    <3>2. CASE ~(t # Blank /\ t.role = role)
      <4>1. list = <<>> /\ ~tells
        BY <3>2 DEF ListOf
      <4>2. With(<<>>, v) = {}
        BY DEF With
      <4>3. <<>> \in Seq(Item) /\ Count(<<>>, v) = 0
        <5>1. Count(<<>>, v) = 0
          BY <4>2, FS_EmptySet DEF Count
        <5> QED BY <5>1
      <4> HIDE DEF list, tells
      <4> QED BY <4>1, <4>3
    <3> QED BY <3>1, <3>2
  <2>2. /\ f[k - 1] \in Seq(Item) /\ Count(f[k - 1], v) = Cardinality(told(k - 1))
        /\ IsFiniteSet(told(k - 1))
    BY <1>3
  <2>3. f[k] = f[k - 1] \o list
    BY <1>0
  <2> HIDE DEF list, tells
  <2>4. f[k] \in Seq(Item) /\ Count(f[k], v) = Cardinality(told(k - 1)) + Count(list, v)
    BY <2>1, <2>2, <2>3, ConcatCount
  <2>5. told(k) = IF tells THEN told(k - 1) \cup {k} ELSE told(k - 1)
    <3>1. \A j : j \in 1 .. k <=> j \in 1 .. k - 1 \/ j = k
      OBVIOUS
    <3> QED BY <3>1 DEF Telling, tells
  <2>6. k \notin told(k - 1)
    BY DEF Telling
  <2>7. Cardinality(told(k - 1)) \in Nat
    BY <2>2, FS_CardinalityType
  <2> HIDE DEF told
  <2>8. IsFiniteSet(told(k)) /\ Cardinality(told(k))
           = Cardinality(told(k - 1)) + IF tells THEN 1 ELSE 0
    <3>1. CASE tells
      BY <2>2, <2>5, <2>6, <3>1, FS_AddElement
    <3>2. CASE ~tells
      BY <2>2, <2>5, <2>7, <3>2
    <3> QED BY <3>1, <3>2
  <2> QED BY <2>1, <2>4, <2>8
<1> HIDE DEF Good
<1>4. n \in Good
  <2>1. Good \in SUBSET Nat
    BY DEF Good
  <2> QED BY <1>2, <1>3, <2>1, LoopEnds
<1> QED BY <1>0, <1>4 DEF Good

LEMMA FileShape ==
    ASSUME file \in Files
    PROVE  /\ DOMAIN file.sheets = 1 .. Len(file.sheets) /\ Len(file.sheets) \in Nat
           /\ Len(file.sheets) >= 1
           /\ \A s \in Range(file.sheets) : IsSheet(s)
           /\ Drawn \in Range(file.sheets)
           /\ file.tables \in Seq(TableSpec) /\ Len(file.tables) \in Nat
           /\ \A t \in Range(file.tables) :
                 t \in TableSpec /\ t # Blank /\ IsTable(Drawn, t) /\ InSheet(Drawn, t)
<1>1. /\ file.sheets \in Seq(Seq(Seq(Cells))) /\ file.sheets # <<>>
      /\ \A s \in Range(file.sheets) : s # <<>> /\ \A row \in Range(s) : Len(row) = Len(s[1])
      /\ file.tables \in Seq(TableSpec)
      /\ \A t \in Range(file.tables) : IsTable(Drawn, t)
  BY FilesAssumption DEF FilesAssumption, Drawn
<1>2. /\ DOMAIN file.sheets = 1 .. Len(file.sheets) /\ Len(file.sheets) \in Nat
      /\ Len(file.sheets) >= 1 /\ Len(file.tables) \in Nat
  BY <1>1
<1>3. \A s \in Range(file.sheets) : IsSheet(s)
  <2>1. \A s \in Range(file.sheets) : s \in Seq(Seq(Cells))
    BY <1>1 DEF Range
  <2> QED BY <1>1, <2>1 DEF IsSheet
<1>4. Drawn \in Range(file.sheets)
  <2>1. Len(file.sheets) \in DOMAIN file.sheets
    BY <1>2
  <2> QED BY <2>1 DEF Drawn, Range
<1>5. ASSUME NEW t \in Range(file.tables) PROVE t \in TableSpec /\ t # Blank /\ InSheet(Drawn, t)
  <2>1. t \in TableSpec
    BY <1>1 DEF Range
  <2>2. t # Blank
    BY <2>1, FilesAssumption DEF FilesAssumption
  <2>3. IsTable(Drawn, t) /\ IsSheet(Drawn)
    BY <1>1, <1>3, <1>4
  <2>4. t.left .. t.right \subseteq Columns(Drawn)
    BY <2>3, TableColumns
  <2>5. t.header \in DOMAIN Drawn /\ t.name \in t.left .. t.right
    BY <2>3 DEF IsTable
  <2> QED BY <2>1, <2>2, <2>4, <2>5 DEF InSheet
<1> QED BY <1>1, <1>2, <1>3, <1>4, <1>5

LEMMA ReadableTables ==
    ASSUME file \in Files, Readable
    PROVE  /\ IsSheet(Drawn) /\ SideBySide(Drawn, file.tables)
           /\ \A t \in Range(file.tables) : Headed(Drawn, t) /\ Sided(Drawn, t)
<1>1. /\ IsSheet(Drawn) /\ file.tables \in Seq(TableSpec)
      /\ \A t \in Range(file.tables) : IsTable(Drawn, t)
  BY FileShape
<1>2. \A j, k \in DOMAIN file.tables : j < k => file.tables[j].right + 1 < file.tables[k].left
  BY FilesAssumption DEF FilesAssumption
<1>3. SideBySide(Drawn, file.tables)
  BY <1>1, <1>2 DEF Readable, SideBySide
<1>4. ASSUME NEW t \in Range(file.tables) PROVE Headed(Drawn, t) /\ Sided(Drawn, t)
  <2>1. Headed(Drawn, t)
    BY <1>1 DEF Readable, Headed
  <2>2. Sided(Drawn, t)
    BY DEF Readable, Sided
  <2> QED BY <2>1, <2>2
<1> QED BY <1>1, <1>3, <1>4

LEMMA StandingIs ==
    ASSUME file \in Files, NEW role, NEW v
    PROVE  Standing(role, v) = Cardinality(Telling(Drawn, file.tables, role, v, Len(file.tables)))
<1>1. DOMAIN file.tables = 1 .. Len(file.tables)
  BY FileShape
<1>2. \A k \in 1 .. Len(file.tables) : file.tables[k] # Blank
  BY <1>1, FileShape DEF Range
<1>3. {k \in DOMAIN file.tables : file.tables[k].role = role /\ v \in NamesIn(file.tables[k])}
        = Telling(Drawn, file.tables, role, v, Len(file.tables))
  BY <1>1, <1>2 DEF Telling, NamesIn, NamesOf
<1> QED BY <1>3 DEF Standing

\* What the rules read of a file that is readable by them.
LEMMA RulesRead ==
    ASSUME file \in Files, Readable, NEW role \in {"supplier", "catalog"}, NEW v
    PROVE  Count(ItemsOf(Drawn, TablesSeen(Drawn))[role], v) = Standing(role, v)
<1> DEFINE tables == file.tables
           seen == TablesSeen(Drawn)
           n == Len(tables)
           shown(k) == TableWith(Drawn, tables[k].left .. tables[k].right, tables[k].header)
<1>1. /\ IsSheet(Drawn) /\ SideBySide(Drawn, tables)
      /\ \A t \in Range(tables) : Headed(Drawn, t) /\ Sided(Drawn, t)
  BY ReadableTables
<1>2. n \in Nat /\ DOMAIN tables = 1 .. n /\ \A k \in 1 .. n : tables[k] \in Range(tables)
  BY FileShape DEF Range
<1>3. ASSUME NEW k \in 1 .. n
      PROVE  HeaderRow(Drawn, tables[k].left .. tables[k].right) = tables[k].header
  <2>1. Headed(Drawn, tables[k])
    BY <1>1, <1>2
  <2> QED BY <1>1, <2>1, HeaderFound
<1>4. seen = [k \in 1 .. n |-> shown(k)]
  <2>1. seen = [k \in 1 .. n |-> TableWith(Drawn, tables[k].left .. tables[k].right,
                                     HeaderRow(Drawn, tables[k].left .. tables[k].right))]
    BY <1>1, SeenInOrder
  <2> HIDE DEF seen, n, tables
  <2> QED BY <1>3, <2>1
<1>5. ASSUME NEW k \in 1 .. n
      PROVE  /\ shown(k) # Blank /\ shown(k).role = tables[k].role
             /\ tables[k] # Blank /\ InSheet(Drawn, shown(k))
             /\ NamesOf(Drawn, shown(k)) = NamesOf(Drawn, tables[k])
  <2> DEFINE t == tables[k]
  <2>1. t \in Range(tables) /\ Headed(Drawn, t) /\ Sided(Drawn, t)
    BY <1>1, <1>2
  <2>2. t # Blank /\ InSheet(Drawn, t)
    BY <2>1, FileShape
  <2> HIDE DEF t
  <2> DEFINE u == TableWith(Drawn, t.left .. t.right, t.header)
  <2>3. /\ u \in TableSpec /\ u.left = t.left /\ u.right = t.right
        /\ u.header = t.header /\ u.name = t.name /\ u.role = t.role
    BY <1>1, <2>1, TableFound
  <2> HIDE DEF u
  <2>4. u # Blank
    BY <2>3, FilesAssumption DEF FilesAssumption
  <2>5. InSheet(Drawn, u) /\ NamesOf(Drawn, u) = NamesOf(Drawn, t)
    BY <2>2, <2>3 DEF InSheet, NamesOf
  <2> QED BY <2>2, <2>3, <2>4, <2>5 DEF t, u
<1> HIDE DEF shown, seen
<1>6. seen \in Seq({shown(k) : k \in 1 .. n}) /\ Len(seen) = n
  <2> HIDE DEF n
  <2> QED BY <1>2, <1>4
<1>7. Telling(Drawn, seen, role, v, n) = Telling(Drawn, tables, role, v, n)
  <2> HIDE DEF n, tables
  <2> QED BY <1>4, <1>5 DEF Telling
<1>8. \A k \in 1 .. n : seen[k] = Blank \/ InSheet(Drawn, seen[k])
  <2> HIDE DEF n, tables
  <2> QED BY <1>4, <1>5
<1>9. Count(ItemsOf(Drawn, seen)[role], v) = Cardinality(Telling(Drawn, seen, role, v, n))
  <2>1. Len(seen) \in Nat
    BY <1>2, <1>6
  <2> HIDE DEF n, tables
  <2> QED BY <1>1, <1>6, <1>8, <2>1, ItemsCounted
<1> QED BY <1>7, <1>9, StandingIs DEF seen

\* What is read of the tables that a model has named, with or without one that is none.
LEMMA ModelReads ==
    ASSUME file \in Files, NEW role \in {"supplier", "catalog"}, NEW v,
           NEW tables \in {file.tables, <<Blank>> \o file.tables}
    PROVE  Count(ItemsOf(Drawn, tables)[role], v) = Standing(role, v)
<1> DEFINE drawn == file.tables
           n == Len(drawn)
           told == Telling(Drawn, drawn, role, v, n)
           shown == Telling(Drawn, tables, role, v, Len(tables))
<1>1. /\ IsSheet(Drawn) /\ n \in Nat /\ drawn \in Seq(TableSpec)
      /\ \A t \in Range(drawn) : InSheet(Drawn, t)
  BY FileShape
<1>2. \A k \in 1 .. n : InSheet(Drawn, drawn[k])
  BY <1>1 DEF Range
<1>3. Standing(role, v) = Cardinality(told)
  BY StandingIs
<1>4. CASE tables = drawn
  BY <1>1, <1>2, <1>3, <1>4, ItemsCounted
<1>5. CASE tables = <<Blank>> \o drawn
  <2>1. /\ Len(tables) = n + 1 /\ tables[1] = Blank
        /\ \A k \in 1 .. n : tables[k + 1] = drawn[k]
    <3>1. <<Blank>> \in Seq(TableSpec \cup {Blank}) /\ drawn \in Seq(TableSpec \cup {Blank})
      BY <1>1
    <3> HIDE DEF drawn
    <3> QED BY <1>5, <3>1
  <2> HIDE DEF n
  <2>2. \A k \in 1 .. n + 1 : k = 1 \/ k - 1 \in 1 .. n
    BY <1>1
  <2>3. ASSUME NEW k \in 1 .. n + 1 PROVE tables[k] = Blank \/ InSheet(Drawn, tables[k])
    <3>1. CASE k = 1
      BY <2>1, <3>1
    <3>2. CASE k # 1
      <4>1. PICK j \in 1 .. n : j = k - 1
        BY <2>2, <3>2
      <4>2. k = j + 1
        BY <4>1
      <4> QED BY <1>2, <2>1, <4>2
    <3> QED BY <3>1, <3>2
  <2>4. Count(ItemsOf(Drawn, tables)[role], v) = Cardinality(shown)
    <3>1. Len(tables) \in Nat /\ \A k \in 1 .. Len(tables) : tables[k] = Blank \/ InSheet(Drawn, tables[k])
      BY <1>1, <2>1, <2>3
    <3> QED BY <1>1, <3>1, ItemsCounted
  <2>5. \A k \in told : k \in 1 .. n /\ k + 1 \in shown
    <3>1. ASSUME NEW k \in told PROVE k \in 1 .. n /\ k + 1 \in shown
      <4>1. /\ k \in 1 .. n /\ drawn[k] # Blank /\ drawn[k].role = role
            /\ v \in NamesOf(Drawn, drawn[k])
        BY DEF Telling
      <4>2. k + 1 \in 1 .. n + 1 /\ tables[k + 1] = drawn[k]
        BY <1>1, <2>1, <4>1
      <4> QED BY <2>1, <4>1, <4>2 DEF Telling
    <3> QED BY <3>1
  <2>6. \A j \in shown : \E k \in told : j = k + 1
    <3>1. ASSUME NEW j \in shown PROVE \E k \in told : j = k + 1
      <4>1. /\ j \in 1 .. n + 1 /\ tables[j] # Blank /\ tables[j].role = role
            /\ v \in NamesOf(Drawn, tables[j])
        BY <2>1 DEF Telling
      <4>2. PICK k \in 1 .. n : k = j - 1
        BY <2>1, <2>2, <4>1
      <4>3. j = k + 1 /\ tables[j] = drawn[k]
        BY <2>1, <4>1, <4>2
      <4>4. k \in told
        BY <4>1, <4>3 DEF Telling
      <4> QED BY <4>3, <4>4
    <3> QED BY <3>1
  <2> DEFINE f == [k \in told |-> k + 1]
  <2>7. IsFiniteSet(told)
    <3>1. told \in SUBSET (1 .. n)
      BY DEF Telling
    <3>2. 1 \in Int /\ n \in Int
      BY <1>1
    <3>3. IsFiniteSet(1 .. n)
      BY <3>2, FS_Interval
    <3> HIDE DEF told
    <3> QED BY <3>1, <3>3, FS_Subset
  <2> HIDE DEF told, shown
  <2>8. f \in Surjection(told, shown) /\ f \in Injection(told, shown)
    <3>1. f \in [told -> shown]
      BY <2>5
    <3>2. \A j \in shown : \E k \in told : f[k] = j
      BY <2>6
    <3>3. \A k, l \in told : f[k] = f[l] => k = l
      BY <2>5
    <3> HIDE DEF f
    <3> QED BY <3>1, <3>2, <3>3 DEF Surjection, Injection, IsInjective
  <2>9. Cardinality(shown) = Cardinality(told)
    <3> HIDE DEF f
    <3> QED BY <2>7, <2>8, FS_Surjection
  <2> QED BY <1>3, <2>4, <2>9
<1> QED BY <1>4, <1>5

\* A file with one table that fills its sheet is read as one table alike.
LEMMA SingleReads ==
    ASSUME file \in Files, Readable, Len(file.sheets) = 1, Len(file.tables) = 1,
           file.tables[1].left = 1, file.tables[1].right = Len(Drawn[1]),
           file.tables[1].role = "supplier", NEW v
    PROVE  /\ Count(SingleItems(SingleTable, NamesColumn(SingleTable)), v)
                 = Standing("supplier", v)
           /\ Count(<<>>, v) = Standing("catalog", v)
<1> DEFINE t == file.tables[1]
           one == SingleTable
           cols == Columns(Drawn)
           column == NamesColumn(one)
<1>1. t \in Range(file.tables) /\ DOMAIN file.tables = 1 .. 1
  <2>1. DOMAIN file.tables = 1 .. 1
    BY FileShape
  <2>2. 1 \in 1 .. 1
    OBVIOUS
  <2> QED BY <2>1, <2>2 DEF Range
<1>2. /\ IsSheet(Drawn) /\ Headed(Drawn, t) /\ IsTable(Drawn, t) /\ InSheet(Drawn, t) /\ t # Blank
  BY <1>1, ReadableTables, FileShape
<1>3. cols = t.left .. t.right
  BY <1>2, SheetFacts
<1> HIDE DEF cols, t
<1>4. one = [sheet |-> Drawn, header |-> t.header, again |-> TRUE]
  <2>1. BestSheet = Drawn /\ file.sheets[1] = Drawn
    BY DEF Readable, Drawn
  <2>2. HeaderRow(Drawn, Columns(Drawn)) = t.header
    BY <1>2, <1>3, HeaderFound DEF cols
  <2>3. t.header \in DOMAIN Drawn
    BY <1>2 DEF IsTable
  <2>4. t.header <= Len(Drawn)
    BY <1>2, <2>3, SheetFacts
  <2> QED BY <2>1, <2>2, <2>4 DEF SingleTable, SingleReading
<1> HIDE DEF one
<1>5. \A c \in cols : SingleHead(one, c) = Drawn[t.header][c].words
  <2>1. \A c \in cols : Drawn[t.header][c] # Blank
    BY <1>2, <1>3 DEF Headed
  <2>2. one.sheet = Drawn /\ one.header = t.header /\ one.again
    BY <1>4
  <2> HIDE DEF cols
  <2>3. ASSUME NEW c \in cols PROVE SingleHead(one, c) = Drawn[t.header][c].words
    <3>1. SingleHead(one, c) = LET cell == Drawn[t.header][c]
                              IN  IF cell # Blank THEN cell.words ELSE {"name"}
      BY <2>2 DEF SingleHead
    <3> QED BY <2>1, <3>1
  <2> QED BY <2>3
<1>6. \A c \in cols : "name" \in SingleHead(one, c) <=> c = t.name
  <2>1. \A c \in cols : "name" \in Drawn[t.header][c].words <=> c = t.name
    BY <1>2, <1>3 DEF Headed
  <2> HIDE DEF cols
  <2> QED BY <1>5, <2>1
<1>7. t.name \in cols /\ t.name \in Nat
  <2>1. t.name \in cols
    BY <1>2, <1>3 DEF IsTable
  <2>2. cols \subseteq Nat
    BY <1>2, SheetFacts DEF cols
  <2> QED BY <2>1, <2>2
<1>8. column = t.name
  <2> DEFINE clients == {c \in Columns(one.sheet) : {"name", "supplier"} \subseteq SingleHead(one, c)}
             named == {c \in Columns(one.sheet) : "name" \in SingleHead(one, c)}
  <2>1. Columns(one.sheet) = cols
    BY <1>4 DEF cols
  <2>2. named = {t.name}
    BY <1>6, <1>7, <2>1
  <2>3. clients = {} \/ clients = {t.name}
    BY <1>6, <2>1
  <2>4. Min({t.name}) = t.name
    BY <1>7, LeastIs
  <2>5. clients # {} => NamesColumn(one) = Min(clients)
    BY DEF NamesColumn
  <2>6. clients = {} /\ named # {} => NamesColumn(one) = Min(named)
    BY DEF NamesColumn
  <2> HIDE DEF clients, named
  <2> QED BY <2>2, <2>3, <2>4, <2>5, <2>6
<1> DEFINE u == [left |-> t.name, right |-> t.name, header |-> t.header,
                 name |-> t.name, unit |-> 0, price |-> 0]
<1>9. SingleItems(one, column) = RegionItems(Drawn, u)
  BY <1>4, <1>8 DEF SingleItems
<1>10. InSheet(Drawn, u) /\ NamesOf(Drawn, u) = NamesOf(Drawn, t)
  <2>1. t.name \in t.name .. t.name
    BY <1>7
  <2>2. /\ u.left = t.name /\ u.right = t.name /\ u.header = t.header /\ u.name = t.name
    OBVIOUS
  <2> HIDE DEF u
  <2> QED BY <1>2, <2>1, <2>2 DEF InSheet, NamesOf
<1> HIDE DEF u
<1>11. Count(RegionItems(Drawn, u), v) = IF v \in NamesOf(Drawn, t) THEN 1 ELSE 0
  BY <1>2, <1>10, RegionTexts
<1>12. Standing("supplier", v) = IF v \in NamesOf(Drawn, t) THEN 1 ELSE 0
  <2> DEFINE told == {k \in DOMAIN file.tables :
                file.tables[k].role = "supplier" /\ v \in NamesIn(file.tables[k])}
  <2>1. told = IF v \in NamesOf(Drawn, t) THEN {1} ELSE {}
    BY <1>1 DEF NamesIn, NamesOf, t
  <2> HIDE DEF told
  <2>2. Cardinality(told) = IF v \in NamesOf(Drawn, t) THEN 1 ELSE 0
    BY <2>1, FS_Singleton, FS_EmptySet
  <2> QED BY <2>2 DEF Standing, told
<1>13. Standing("catalog", v) = 0
  <2>1. {k \in DOMAIN file.tables :
            file.tables[k].role = "catalog" /\ v \in NamesIn(file.tables[k])} = {}
    BY <1>1
  <2> QED BY <2>1, FS_EmptySet DEF Standing
<1>14. Count(<<>>, v) = 0
  <2>1. With(<<>>, v) = {}
    BY DEF With
  <2> QED BY <2>1, FS_EmptySet DEF Count
<1> QED BY <1>9, <1>11, <1>12, <1>13, <1>14 DEF one, column

\* The import lists every row with a name.
LEMMA ImportReads ==
    ASSUME file \in Files, Cardinality(FieldColumns(Drawn, "name")) = 1
    PROVE  Len(AdapterItems(Drawn))
             = Cardinality(Filled(Drawn, (2 .. Len(Drawn)) \X FieldColumns(Drawn, "name")))
<1> DEFINE s == Drawn
           fields == FieldColumns(s, "name")
<1>1. /\ IsSheet(s) /\ Len(s) \in Nat /\ DOMAIN s = 1 .. Len(s)
      /\ Len(s[1]) \in Nat /\ Columns(s) = 1 .. Len(s[1])
  <2>1. IsSheet(s)
    BY FileShape
  <2> HIDE DEF s
  <2> QED BY <2>1, SheetFacts
<1> HIDE DEF s
<1>2. PICK c : fields = {c}
  <2>1. IsFiniteSet(1 .. Len(s[1]))
    <3>1. 1 \in Int /\ Len(s[1]) \in Int
      BY <1>1
    <3> QED BY <3>1, FS_Interval
  <2>2. fields \in SUBSET (1 .. Len(s[1]))
    BY <1>1 DEF FieldColumns
  <2>3. Cardinality(fields) = 1
    BY DEF s
  <2> HIDE DEF fields
  <2>4. IsFiniteSet(fields)
    BY <2>1, <2>2, FS_Subset
  <2> QED BY <2>3, <2>4, FS_Singleton
<1> HIDE DEF fields
<1> DEFINE rows == {r \in 2 .. Len(s) : s[r][c] # Blank}
           cells == Filled(s, (2 .. Len(s)) \X fields)
<1>3. cells = {rc \in (2 .. Len(s)) \X {c} : s[rc[1]][rc[2]] # Blank}
  BY <1>2 DEF Filled
<1>4. IsFiniteSet(rows) /\ Cardinality(rows) \in Nat
  <2>1. IsFiniteSet(2 .. Len(s))
    <3>1. 2 \in Int /\ Len(s) \in Int
      BY <1>1
    <3> QED BY <3>1, FS_Interval
  <2>2. rows \in SUBSET (2 .. Len(s))
    OBVIOUS
  <2> HIDE DEF rows
  <2> QED BY <2>1, <2>2, FS_Subset, FS_CardinalityType
<1>5. Cardinality(cells) = Cardinality(rows)
  <2> DEFINE f == [r \in rows |-> <<r, c>>]
  <2>1. \A r \in rows : <<r, c>> \in cells
    BY <1>3
  <2>2. ASSUME NEW rc \in cells PROVE \E r \in rows : rc = <<r, c>>
    <3>0. rc \in (2 .. Len(s)) \X {c} /\ s[rc[1]][rc[2]] # Blank
      <4> HIDE DEF cells
      <4> QED BY <1>3, <2>2
    <3>1. PICK r \in 2 .. Len(s) : rc = <<r, c>> /\ s[rc[1]][rc[2]] # Blank
      <4> HIDE DEF cells, s
      <4> QED BY <3>0
    <3>2. rc[1] = r /\ rc[2] = c
      BY <3>1
    <3>3. r \in rows
      BY <3>1, <3>2
    <3> QED BY <3>1, <3>3
  <2> HIDE DEF rows, cells
  <2>3. f \in Surjection(rows, cells) /\ f \in Injection(rows, cells)
    <3>1. f \in [rows -> cells]
      BY <2>1
    <3>2. \A rc \in cells : \E r \in rows : f[r] = rc
      BY <2>2
    <3>3. \A r, q \in rows : f[r] = f[q] => r = q
      OBVIOUS
    <3> HIDE DEF f
    <3> QED BY <3>1, <3>2, <3>3 DEF Surjection, Injection, IsInjective
  <2> HIDE DEF f
  <2> QED BY <1>4, <2>3, FS_Surjection
<1>6. Len(AdapterItems(s)) = Cardinality(rows)
  <2> DEFINE filled(r, field) == {d \in FieldColumns(s, field) : s[r][d] # Blank}
             value(r, field) == IF filled(r, field) = {} THEN Blank ELSE s[r][Max(filled(r, field))]
             order == InOrder({r \in 2 .. Len(s) : filled(r, "name") # {}})
             item(r) == [text |-> value(r, "name").text, unit |-> value(r, "unit"), price |-> Blank]
  <2>1. \A r : filled(r, "name") # {} <=> s[r][c] # Blank
    BY <1>2 DEF fields
  <2>2. {r \in 2 .. Len(s) : filled(r, "name") # {}} = rows
    <3> HIDE DEF filled
    <3> QED BY <2>1
  <2>3. AdapterItems(s) = [k \in DOMAIN order |-> item(order[k])]
    BY DEF AdapterItems
  <2>4. DOMAIN order = 1 .. Cardinality(rows)
    <3> HIDE DEF rows, filled
    <3> QED BY <2>2 DEF InOrder
  <2> HIDE DEF order, item, rows
  <2>5. AdapterItems(s) = [k \in 1 .. Cardinality(rows) |-> item(order[k])]
    BY <2>3, <2>4
  <2> QED BY <1>4, <2>5
<1> QED BY <1>5, <1>6 DEF s, fields, cells

-----------------------------------------------------------------------------
\* What the lists hold follows from what has filled them.
FilesInv ==
    /\ FileTypeOK /\ file \in Files
    /\ reading # "done" => by = "nothing"
    /\ by = "heuristic" => lists = ItemsOf(BestSheet, TablesSeen(BestSheet))
    /\ by = "model" => lists = ItemsOf(BestSheet, answer)
    /\ by = "single" /\ ~picker /\ ~available =>
          lists = [supplier |-> SingleItems(SingleTable, NamesColumn(SingleTable)), catalog |-> <<>>]
    /\ by = "adapter" => \E sheet \in Range(file.sheets) :
          lists = [supplier |-> <<>>, catalog |-> AdapterItems(sheet)]

LEMMA FilesStart == FileInit => FilesInv
<1> SUFFICES ASSUME FileInit PROVE FilesInv
  OBVIOUS
<1>1. DOMAIN lists = {"supplier", "catalog"}
  BY DEF FileInit, NoItems
<1> QED BY <1>1 DEF FileInit, FilesInv, FileTypeOK

LEMMA ListedIsTyped == ASSUME NEW s, NEW tables PROVE DOMAIN ItemsOf(s, tables) = {"supplier", "catalog"}
BY DEF ItemsOf

LEMMA FilesStep == ASSUME FilesInv, [FileNext]_fileVars PROVE FilesInv'
<1>1. CASE ParseCatalogFile
  <2>1. reading = "import" /\ by = "nothing" /\ file' = file /\ picker' = picker
        /\ available' = available /\ FileTypeOK /\ file \in Files
    BY <1>1 DEF ParseCatalogFile, FilesInv
  <2>2. PICK sheet \in Range(file.sheets) :
            \/ reading' = "failed" /\ UNCHANGED <<lists, by>>
            \/ /\ reading' = "done" /\ by' = "adapter"
               /\ lists' = [supplier |-> <<>>, catalog |-> AdapterItems(sheet)]
    BY <1>1 DEF ParseCatalogFile
  <2>3. CASE reading' = "failed" /\ UNCHANGED <<lists, by>>
    BY <2>1, <2>3 DEF FilesInv, FileTypeOK
  <2>4. CASE /\ reading' = "done" /\ by' = "adapter"
             /\ lists' = [supplier |-> <<>>, catalog |-> AdapterItems(sheet)]
    BY <2>1, <2>4 DEF FilesInv, FileTypeOK
  <2> QED BY <2>2, <2>3, <2>4
<1>2. ASSUME NEW model \in {picker, available}, reading \in {"upload", "single"}, ParseAsOneTable(model)
      PROVE  FilesInv'
  <2>1. by = "nothing" /\ file' = file /\ picker' = picker
        /\ available' = available /\ FileTypeOK /\ file \in Files
    BY <1>2 DEF ParseAsOneTable, FilesInv
  <2>2. CASE reading' = "failed" /\ UNCHANGED <<lists, by>>
    BY <2>1, <2>2 DEF FilesInv, FileTypeOK
  <2>3. CASE ~(reading' = "failed" /\ UNCHANGED <<lists, by>>)
    <3>1. reading' = "done" /\ by' = "single"
      BY <1>2, <2>3 DEF ParseAsOneTable
    <3>2. PICK column : /\ lists' = [supplier |-> SingleItems(SingleTable, column), catalog |-> <<>>]
                        /\ ~model => column = NamesColumn(SingleTable)
      BY <1>2, <2>3 DEF ParseAsOneTable
    <3>3. ~picker /\ ~available => ~model
      BY DEF FilesInv
    <3>4. SingleTable' = SingleTable
      <4>1. BestSheet' = BestSheet
        BY <2>1 DEF BestSheet
      <4> QED BY <2>1, <4>1 DEF SingleTable, SingleReading
    <3> QED BY <2>1, <3>1, <3>2, <3>3, <3>4 DEF FilesInv, FileTypeOK
  <2> QED BY <2>2, <2>3
<1>3. CASE ParseUpload
  BY <1>2, <1>3 DEF ParseUpload
<1>4. CASE LastResort
  BY <1>2, <1>4 DEF LastResort
<1>5. CASE AskModel
  <2>1. by = "nothing" /\ file' = file /\ picker' = picker
        /\ available' = available /\ FileTypeOK /\ file \in Files
    BY <1>5 DEF AskModel, FilesInv
  <2>2. lists' = ItemsOf(BestSheet, answer')
    BY <1>5 DEF AskModel
  <2>3. \/ reading' = "done" /\ by' = "model"
        \/ reading' = "heuristic" /\ by' = by
    BY <1>5 DEF AskModel
  <2>4. BestSheet' = BestSheet
    BY <2>1 DEF BestSheet
  <2> QED BY <2>1, <2>2, <2>3, <2>4, ListedIsTyped DEF FilesInv, FileTypeOK
<1>6. CASE NoModel
  BY <1>6 DEF NoModel, FilesInv, FileTypeOK
<1>7. CASE AnalyzeHeuristic
  <2>1. by = "nothing" /\ file' = file /\ picker' = picker
        /\ available' = available /\ FileTypeOK /\ file \in Files
    BY <1>7 DEF AnalyzeHeuristic, FilesInv
  <2>2. lists' = ItemsOf(BestSheet, TablesSeen(BestSheet))
    BY <1>7 DEF AnalyzeHeuristic
  <2>3. \/ reading' = "done" /\ by' = "heuristic"
        \/ reading' = "single" /\ by' = by
    BY <1>7 DEF AnalyzeHeuristic
  <2>4. BestSheet' = BestSheet /\ TablesSeen(BestSheet)' = TablesSeen(BestSheet)
    BY <2>1 DEF BestSheet, TablesSeen
  <2> QED BY <2>1, <2>2, <2>3, <2>4, ListedIsTyped DEF FilesInv, FileTypeOK
<1>8. CASE UNCHANGED fileVars
  <2>1. BestSheet' = BestSheet
    BY <1>8 DEF fileVars, BestSheet
  <2>2. SingleTable' = SingleTable
    BY <1>8, <2>1 DEF fileVars, SingleTable, SingleReading
  <2> QED BY <1>8, <2>1, <2>2 DEF fileVars, FilesInv, FileTypeOK
<1> QED BY <1>1, <1>3, <1>4, <1>5, <1>6, <1>7, <1>8 DEF FileNext

LEMMA FilesRead == ASSUME FilesInv PROVE TablesAreRead
<1>1. file \in Files
  BY DEF FilesInv
<1>2. \A role, v : Listed(role, v) = Count(lists[role], v)
  BY DEF Listed, Count, With
<1>3. ASSUME Readable, by = "heuristic", NEW role \in {"supplier", "catalog"}, NEW v
      PROVE  Listed(role, v) = Standing(role, v)
  <2>1. lists = ItemsOf(Drawn, TablesSeen(Drawn))
    BY <1>3 DEF FilesInv, Readable
  <2> QED BY <1>1, <1>2, <1>3, <2>1, RulesRead
<1>4. ASSUME by = "model", BestSheet = Drawn, answer \in {file.tables, <<Blank>> \o file.tables},
             NEW role \in {"supplier", "catalog"}, NEW v
      PROVE  Listed(role, v) = Standing(role, v)
  <2>1. lists = ItemsOf(Drawn, answer)
    BY <1>4 DEF FilesInv
  <2> QED BY <1>1, <1>2, <1>4, <2>1, ModelReads
<1>5. ASSUME Readable, by = "single", ~picker, ~available, Len(file.sheets) = 1,
             Len(file.tables) = 1, file.tables[1].left = 1,
             file.tables[1].right = Len(Drawn[1]), file.tables[1].role = "supplier",
             NEW role \in {"supplier", "catalog"}, NEW v
      PROVE  Listed(role, v) = Standing(role, v)
  <2>1. lists = [supplier |-> SingleItems(SingleTable, NamesColumn(SingleTable)), catalog |-> <<>>]
    BY <1>5 DEF FilesInv
  <2>2. /\ lists["supplier"] = SingleItems(SingleTable, NamesColumn(SingleTable))
        /\ lists["catalog"] = <<>>
    BY <2>1
  <2>3. /\ Count(SingleItems(SingleTable, NamesColumn(SingleTable)), v) = Standing("supplier", v)
        /\ Count(<<>>, v) = Standing("catalog", v)
    BY <1>1, <1>5, SingleReads
  <2> QED BY <1>2, <2>2, <2>3
<1>6. ASSUME by = "adapter", Len(file.sheets) = 1, Cardinality(FieldColumns(Drawn, "name")) = 1
      PROVE  Len(lists.catalog)
               = Cardinality(Filled(Drawn, (2 .. Len(Drawn)) \X FieldColumns(Drawn, "name")))
  <2>1. PICK sheet \in Range(file.sheets) :
            lists = [supplier |-> <<>>, catalog |-> AdapterItems(sheet)]
    BY <1>6 DEF FilesInv
  <2>2. sheet = Drawn
    <3>1. DOMAIN file.sheets = 1 .. 1
      BY <1>1, <1>6, FileShape
    <3> QED BY <1>6, <3>1 DEF Range, Drawn
  <2>3. lists.catalog = AdapterItems(Drawn)
    BY <2>1, <2>2
  <2> QED BY <1>1, <1>6, <2>3, ImportReads
<1> QED BY <1>3, <1>4, <1>5, <1>6 DEF TablesAreRead

LEMMA FilesInvHolds == FileSpec => []FilesInv
<1>1. FileInit => FilesInv
  BY FilesStart
<1>2. FilesInv /\ [FileNext]_fileVars => FilesInv'
  BY FilesStep
<1> QED BY <1>1, <1>2, PTL DEF FileSpec

\* What is read of a file is listed in one of the ways that there are.
THEOREM FilesTypeCorrect == FileSpec => []FileTypeOK
<1>1. FilesInv => FileTypeOK
  BY DEF FilesInv
<1> QED BY <1>1, FilesInvHolds, PTL

\* Every name of every table is an item exactly once, on the side of its table, and
\* nothing else is.
THEOREM TablesReadCorrect == FileSpec => []TablesAreRead
<1>1. FilesInv => TablesAreRead
  BY FilesRead
<1> QED BY <1>1, FilesInvHolds, PTL
=============================================================================
