--------------------------- MODULE ProviderAnswers ---------------------------
(***************************************************************************)
(* What the program makes of the answers of its providers: vectors for     *)
(* texts, asked for in batches that are retried (indexing/embedder.py),    *)
(* matches of items, asked for in batches that are not                     *)
(* (pipeline/llm_matcher.py), and the scores of a reranker                 *)
(* (pipeline/reranker.py).  An answer says nothing of what it is about but *)
(* by its order or by an index, and may be short, long or beside the point.*)
(*                                                                         *)
(* Inputs are numbered from 1, indexes from 0, scores are in thousandths.  *)
(***************************************************************************)
EXTENDS Integers, FiniteSets, SequencesExt

CONSTANTS
    MaxInputs,   \* bound: texts, items or candidates of a call
    BatchSize,   \* batch_size, llm_matcher_batch_size
    MaxRetries,  \* max_retries
    RankTop,     \* rerank_top_n
    Scores,      \* what a reranker gives
    MaxScored    \* bound: entries of a reranker's answer

ASSUME AnswersAssumption ==
    /\ MaxInputs \in Nat /\ BatchSize \in 1 .. MaxInputs
    /\ MaxRetries \in Nat \ {0} /\ RankTop \in Nat \ {0}
    /\ Scores \subseteq Int /\ MaxScored \in Nat

VARIABLES
    job,         \* what is asked for, for how many inputs, in what batches
    from,        \* the first input of the batch under way
    tries,
    slots,       \* results, in the order of the inputs; a ranking of its own
    said,        \* history: of a ranking the answer
    full,        \* history: the batches that were answered vector by vector
    progress

answersVars == <<job, from, tries, slots, said, full, progress>>

Kinds == {"embed", "local", "match", "http", "llm", "cross"}
Nobody == [batch |-> 0, no |-> 0]

Placing == [batch : 0 .. MaxInputs, no : Nat]
Ranked == [candidate : 1 .. MaxInputs, score : Int]

AnswersTypeOK ==
    /\ job \in [kind : Kinds, inputs : 1 .. MaxInputs, batch : 1 .. MaxInputs]
    /\ from \in 1 .. job.inputs /\ tries \in 0 .. MaxRetries - 1
    /\ full \subseteq 1 .. job.inputs
    /\ progress \in {"ask", "done", "raised"}
    /\ slots \in IF job.kind \in {"embed", "local", "match"} THEN Seq(Placing) ELSE Seq(Ranked)
    /\ said \in Seq(Ranked)

Least(a, b) == IF a < b THEN a ELSE b

\* embed_texts, llm_match_batch and rerank_candidates are called.  A batch of items may be
\* larger than configured if the model can take more; a local model starts from nothing.
AnswersInit ==
    /\ job \in {[kind |-> k, inputs |-> n, batch |-> b] :
                   k \in Kinds, n \in 1 .. MaxInputs, b \in BatchSize .. MaxInputs}
    /\ job.batch > BatchSize => job.kind = "match" /\ job.batch <= job.inputs
    /\ from = 1 /\ tries = 0 /\ said = <<>> /\ full = {} /\ progress = "ask"
    /\ slots = IF job.kind \in {"embed", "match"} THEN [k \in 1 .. job.inputs |-> Nobody]
               ELSE <<>>

-----------------------------------------------------------------------------
Asking(kinds) == progress = "ask" /\ job.kind \in kinds

Batch == from .. Least(from + job.batch - 1, job.inputs)

\* Entry number no of the answer to the batch under way.
Entry(no) == [batch |-> from, no |-> no]

Onward ==
    /\ tries' = 0
    /\ IF from + job.batch > job.inputs THEN progress' = "done" /\ UNCHANGED from
       ELSE from' = from + job.batch /\ UNCHANGED progress

Retried ==
    /\ IF tries + 1 = MaxRetries THEN progress' = "raised" /\ UNCHANGED tries
       ELSE tries' = tries + 1 /\ UNCHANGED progress
    /\ UNCHANGED from

\* Vector j goes to slot i + j, whatever the number of vectors.  One beyond the last slot
\* raises, and what was written before it stays.
EmbedAnswered ==
    /\ Asking({"embed"})
    /\ \E count \in 0 .. job.batch + 1 :
        /\ slots' = [k \in DOMAIN slots |->
                        IF k - from \in 0 .. count - 1 THEN Entry(k - from) ELSE slots[k]]
        /\ IF from + count - 1 > job.inputs THEN Retried /\ UNCHANGED full
           ELSE Onward /\ full' = IF count = Cardinality(Batch) THEN full \cup {from} ELSE full
    /\ UNCHANGED <<job, said>>

EmbedFails == Asking({"embed"}) /\ Retried /\ UNCHANGED <<job, slots, said, full>>

\* _embed_texts_local: the model in the process gives a vector for each text of the
\* batch; if it fails, so does the call.
EmbedLocally ==
    /\ Asking({"local"})
    /\ \/ /\ slots' = slots \o [j \in 1 .. Cardinality(Batch) |-> Entry(j - 1)]
          /\ full' = full \cup {from}
          /\ Onward
       \/ progress' = "raised" /\ UNCHANGED <<from, tries, slots, full>>
    /\ UNCHANGED <<job, said>>

\* Plausible bug: the index is taken for a position among all items.
PlacedAmongAll(named) ==
    [k \in DOMAIN slots |-> IF k - 1 \in named THEN Entry(k - 1) ELSE slots[k]]

\* An index that is none of the batch is passed over.
Placed(named) ==
    [k \in DOMAIN slots |->
        IF k \in Batch /\ k - from \in named THEN Entry(k - from) ELSE slots[k]]

\* An answer that fails, is no list, or breaks off at an entry that cannot be read, leaves
\* the rest of the batch without a result; there is no second try.
MatchAnswered ==
    /\ Asking({"match"})
    /\ \E named \in SUBSET (-1 .. job.batch) : slots' = Placed(named)
    /\ Onward
    /\ UNCHANGED <<job, said, full>>

-----------------------------------------------------------------------------
\* A ranking is a sequence of candidates with their scores.

Candidate(index) == 1 + (index % job.inputs)

Scored(answer) ==
    [k \in DOMAIN answer |->
        [candidate |-> Candidate(answer[k].index), score |-> answer[k].score]]

\* Two and more results are spread over the scale, so that the best has 1 and the worst 0
\* however alike they are; one alone keeps what the provider gave it.
Normal(ranking) ==
    LET scores == {r.score : r \in Range(ranking)}
        low == Min(scores)  high == Max(scores)
        Scale(s) == IF high > low THEN (1000 * (s - low)) \div (high - low)
                    ELSE IF high > 0 THEN 1000 ELSE s
    IN  IF Len(ranking) < 2 THEN ranking
        ELSE [k \in DOMAIN ranking |-> [ranking[k] EXCEPT !.score = Scale(@)]]

Cut(ranking) == SubSeq(ranking, 1, Least(RankTop, Len(ranking)))

\* sort(reverse=True) keeps the order of those that have the same score.
Ahead(ranking, k) ==
    {i \in DOMAIN ranking : \/ ranking[i].score > ranking[k].score
                            \/ ranking[i].score = ranking[k].score /\ i < k}

Sorted(ranking) ==
    [n \in DOMAIN ranking |->
        ranking[CHOOSE k \in DOMAIN ranking : Cardinality(Ahead(ranking, k)) = n - 1]]

\* The candidates come in the order of the search and keep its scores.
Fallback == Cut([k \in 1 .. job.inputs |-> [candidate |-> k, score |-> 33 \div k]])

RankedAs(ranking, answer) ==
    /\ slots' = ranking /\ said' = answer /\ progress' = "done"
    /\ UNCHANGED <<job, from, tries, full>>

ScoreLists(indexes, length) ==
    UNION {[1 .. n -> [index : indexes, score : Scores]] : n \in 0 .. length}

\* Indexes below zero count from the end; one that is none at all fails the whole answer.
\* The order and the number of the results are the provider's.
RankedByHttp ==
    /\ Asking({"http"})
    /\ \E answer \in ScoreLists(-job.inputs - 1 .. job.inputs, MaxScored) :
        IF \A k \in DOMAIN answer : answer[k].index \in -job.inputs .. job.inputs - 1
        THEN RankedAs(Normal(Scored(answer)), Scored(answer))
        ELSE RankedAs(Fallback, <<>>)

\* The model sees twice as many candidates as are wanted; what it says of others is passed
\* over, so the answer is what is left of it.  What is no list of scores at all leaves the
\* order of the search.
RankedByModel ==
    /\ Asking({"llm"})
    /\ \/ RankedAs(Fallback, <<>>)
       \/ \E answer \in ScoreLists(0 .. Least(job.inputs, 2 * RankTop) - 1, MaxScored) :
            RankedAs(Cut(Normal(Sorted(Scored(answer)))), Scored(answer))

\* The model in the process scores every candidate on a scale of its own, which nobody
\* brings to that of the others; it may be missing.
RankedLocally ==
    /\ Asking({"cross"})
    /\ \/ RankedAs(Fallback, <<>>)
       \/ \E scores \in [1 .. job.inputs -> Scores] :
            LET answer == [k \in DOMAIN scores |-> [index |-> k - 1, score |-> scores[k]]] IN
            RankedAs(Cut(Sorted(Scored(answer))), Scored(answer))

AnswersNext ==
    \/ EmbedAnswered \/ EmbedFails \/ EmbedLocally \/ MatchAnswered
    \/ RankedByHttp \/ RankedByModel \/ RankedLocally

AnswersSpec == AnswersInit /\ [][AnswersNext]_answersVars

-----------------------------------------------------------------------------
StartOf(k) == 1 + job.batch * ((k - 1) \div job.batch)

\* No answer is taken for that of another input.  An item has what the model said of it in
\* its own call, or nothing.  A text of a batch that was answered vector by vector has its
\* own vector, also if the answer of the batch before was too long or an earlier try
\* stopped half way; the others may have none, or one too many of the batch before.
InPlace ==
    progress = "done" /\ job.kind \in {"embed", "local", "match"} =>
        /\ Len(slots) = job.inputs
        /\ \A k \in DOMAIN slots :
              LET own == [batch |-> StartOf(k), no |-> k - StartOf(k)]
              IN  \/ slots[k] = own
                  \/ job.kind = "match" /\ slots[k] = Nobody
                  \/ /\ job.kind = "embed" /\ StartOf(k) \notin full
                     /\ \/ slots[k] = Nobody
                        \/ slots[k].batch < StartOf(k) /\ slots[k].no >= job.batch

\* Whatever scale a provider has, its best candidate stays in and stays the best.  The
\* scores are between 0 and 1, unless there is but one or all are the same and none good;
\* those of the local model are its own, on whatever scale.
RankingIsComparable ==
    said # <<>> =>
        LET best == Max({r.score : r \in Range(said)})
            top == Max({r.score : r \in Range(slots)})
        IN  /\ \E r \in Range(slots), s \in Range(said) :
                  r.score = top /\ s.score = best /\ r.candidate = s.candidate
            /\ job.kind = "cross" => Range(slots) \subseteq Range(said)
            /\ \/ job.kind = "cross"
               \/ {r.score : r \in Range(slots)} \subseteq 0 .. 1000
               \/ Len(said) = 1
               \/ {r.score : r \in Range(said)} = {best} /\ best <= 0

\* What a provider says is taken for what it is about, and for no more than it says.
AnswersInPlace == InPlace /\ RankingIsComparable
=============================================================================
