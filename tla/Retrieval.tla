----------------------------- MODULE Retrieval ------------------------------
(***************************************************************************)
(* hybrid_search (indexing/search.py): two ranked lists of products, one   *)
(* by words and one by embeddings, fused by reciprocal ranks.  No caller   *)
(* passes an article, a category or a brand, so the exact matches and the  *)
(* filters are left out.  What a list ranks first is the database's        *)
(* business: the lists are any lists that it may return.                   *)
(***************************************************************************)
EXTENDS Naturals, FiniteSets, SequencesExt

CONSTANTS
    Products,      \* the products that may be active
    SmallCatalog,  \* small_catalog_threshold
    ListLimit,     \* LIMIT of each list
    RelaxedLimit,  \* LIMIT of each list of the relaxed search
    TopN,          \* top_n
    RrfK,          \* rrf_k
    NotYet

ASSUME RetrievalAssumption ==
    /\ IsFiniteSet(Products)
    /\ {SmallCatalog, RelaxedLimit, TopN} \subseteq Nat
    /\ {ListLimit, RrfK} \subseteq Nat \ {0}
    /\ NotYet \notin Seq(Products)

VARIABLES
    words,     \* the active products by their lexical score
    passing,   \* how many of them pass the thresholds of the search
    relaxed,   \* those that pass the thresholds of the relaxed one, by its lexical score
    vectors,   \* the products with an embedding, by their distance; none at all if the
               \* query has no embedding
    found      \* the candidates, or none yet

retrievalVars == <<words, passing, relaxed, vectors, found>>

\* Sequences without repetitions.
Rankings(set) == UNION {SetToSeqs(some) : some \in SUBSET set}

RetrievalTypeOK ==
    /\ words \in Rankings(Products)
    /\ passing \in 0 .. Len(words)
    /\ relaxed \in Rankings(Range(words))
    /\ vectors \in Rankings(Range(words))
    /\ found = NotYet \/ found \in Rankings(Products)

-----------------------------------------------------------------------------
Take(list, n) == SubSeq(list, 1, IF n < Len(list) THEN n ELSE Len(list))

RankIn(list, p) == CHOOSE r \in DOMAIN list : list[r] = p

\* Fractions that are not negative.
Plus(x, y) == [num |-> x.num * y.den + y.num * x.den, den |-> x.den * y.den]

AtLeast(x, y) == x.num * y.den >= y.num * x.den

\* Plausible bug: a product that a list lacks has rank 0 there.
SignalOrZero(list, p) ==
    [num |-> 1, den |-> RrfK + IF p \in Range(list) THEN RankIn(list, p) ELSE 0]

\* 1 / (rrf_k + rank).
Signal(list, p) ==
    IF p \in Range(list) THEN [num |-> 1, den |-> RrfK + RankIn(list, p)]
    ELSE [num |-> 0, den |-> 1]

Rrf(lexical, semantic, p) == Plus(Signal(lexical, p), Signal(semantic, p))

\* The rows of the fusion, highest score first; ties come in any order.
Fused(lexical, semantic, n) ==
    LET hits == Range(lexical) \cup Range(semantic)
        Ordered(s) == \A i, j \in DOMAIN s :
            i < j => AtLeast(Rrf(lexical, semantic, s[i]), Rrf(lexical, semantic, s[j]))
    IN  {Take(s, n) : s \in {t \in SetToSeqs(hits) : Ordered(t)}}

RankWhole == Len(words) <= SmallCatalog

\* A small catalog is ranked whole; otherwise each list is filtered and cut.
Primary(n) ==
    IF RankWhole THEN Fused(words, vectors, n)
    ELSE Fused(Take(Take(words, passing), ListLimit), Take(vectors, ListLimit), n)

\* The relaxed search needs a leading word; without one it finds nothing.
Relaxed(n) ==
    {<<>>} \cup Fused(Take(relaxed, RelaxedLimit), Take(vectors, RelaxedLimit), n)

RetrievalInit ==
    /\ words \in Rankings(Products)
    /\ passing \in 0 .. Len(words)
    /\ relaxed \in Rankings(Range(words))
    /\ vectors \in Rankings(Range(words))
    /\ found = NotYet

HybridSearch ==
    /\ found = NotYet
    /\ \E rows \in Primary(TopN) :
          IF rows = <<>> /\ ~RankWhole THEN found' \in Relaxed(TopN \div 2) ELSE found' = rows
    /\ UNCHANGED <<words, passing, relaxed, vectors>>

RetrievalSpec == RetrievalInit /\ [][HybridSearch]_retrievalVars

-----------------------------------------------------------------------------
\* p is listed wherever q is, and before it.
Beats(p, q, list) ==
    q \in Range(list) => p \in Range(list) /\ RankIn(list, p) < RankIn(list, q)

\* Among the candidates of a query, a product is never behind one that it beats by its
\* words and by its embedding, nor missing when that one is there: whatever the limits
\* have cut from either list, and also if only one list knows the product.
FusionMonotone ==
    LET lexical == IF RankWhole THEN words ELSE Take(words, passing) IN
    found # NotYet /\ (lexical # <<>> \/ vectors # <<>>) =>
        \A q \in Range(found), p \in Products :
            p # q /\ Beats(p, q, lexical) /\ Beats(p, q, vectors) =>
                p \in Range(found) /\ RankIn(found, p) < RankIn(found, q)
=============================================================================
