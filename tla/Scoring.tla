------------------------------ MODULE Scoring -------------------------------
(***************************************************************************)
(* The score of one candidate and the decision it leads to                 *)
(* (pipeline/scoring.py, pipeline/decision.py), as match_single calls them.*)
(* It never passes an article of the query, a category of the query or a   *)
(* supplier's mapping, so what the formula makes of these is left out.     *)
(* Features are integers in thousandths, scores in hundred-thousandths,    *)
(* numbers of a text in tenths.                                            *)
(***************************************************************************)
EXTENDS Naturals, Integers, FiniteSets, SequencesExt

CONSTANT Pairs    \* the pairs of a query and a candidate that are scored

\* Of brand, category, unit and packaging only matters which side has one and how
\* alike they are; `article` says whether the candidate has one.
Pair == [brand : {"neither", "query", "candidate", "equal", "similar", "unlike"},
         category : {"neither", "candidate"}, article : BOOLEAN,
         unit : {"neither", "one", "same", "other"},
         packaging : {"unknown", "same", "other"}, alias : BOOLEAN,
         lexical : 0 .. 1000, semantic : 0 .. 1000, rerank : 0 .. 1000,
         query : Seq(Nat), candidate : Seq(Nat)]

ASSUME ScoringAssumption == Pairs \subseteq Pair

VARIABLES
    pair,
    verdict      \* none yet, or its score and status

scoringVars == <<pair, verdict>>

-----------------------------------------------------------------------------
\* compute_pair_features: numbers.  A pairing is a set of pairs of positions.

Fuzzy(a, b) ==
    LET diff == IF a > b THEN a - b ELSE b - a
        most == IF a > b THEN a ELSE b
    IN  diff <= 1 \/ 100 * diff <= 15 * most

\* The positions of c that may still go with number a of the query.
FreeFor(a, m, c, fuzzy) ==
    {j \in DOMAIN c : /\ IF fuzzy THEN Fuzzy(a, c[j]) ELSE a = c[j]
                      /\ \A e \in m : e[2] # j}

\* One position of q, if it has no partner yet, takes the first that is free.
WithPartner(i, m, q, c, fuzzy) ==
    LET free == FreeFor(q[i], m, c, fuzzy) IN
    IF (\E e \in m : e[1] = i) \/ free = {} THEN m ELSE m \cup {<<i, Min(free)>>}

\* A pass over q: a number goes with an equal one, or, if it is fuzzy, with a similar one.
Pass(done, q, c, fuzzy) ==
    LET paired[i \in 0 .. Len(q)] ==
            IF i = 0 THEN done ELSE WithPartner(i, paired[i - 1], q, c, fuzzy)
    IN  paired[Len(q)]

\* Equal numbers are paired before similar ones.
Pairing(q, c) == Pass(Pass({}, q, c, FALSE), q, c, TRUE)

NumberSignature(p) ==
    LET matched == Cardinality(Pairing(p.query, p.candidate))
    IN  IF p.query = <<>> \/ p.candidate = <<>> THEN 0
        ELSE (1000 * matched) \div (Len(p.query) + Len(p.candidate) - matched)

CriticalNumberConflict(p) ==
    p.query # <<>> /\ p.candidate # <<>> /\ Pairing(p.query, p.candidate) = {}

-----------------------------------------------------------------------------
\* compute_attribute_overlap for brand, unit and numbers: what one side has at least is
\* comparable; the numbers always are, and compare as sets.
AttributeOverlap(p) ==
    LET qs == Range(p.query)  cs == Range(p.candidate)
        jaccard == IF qs = {} \/ cs = {} THEN 0
                   ELSE (1000 * Cardinality(qs \cap cs)) \div Cardinality(qs \cup cs)
        comparable == 1 + (IF p.brand = "neither" THEN 0 ELSE 1)
                        + (IF p.unit = "neither" THEN 0 ELSE 1)
        matches == jaccard + (IF p.brand = "equal" THEN 1000 ELSE 0)
                           + (IF p.unit = "same" THEN 1000 ELSE 0)
    IN  matches \div comparable

\* The most that brands alike to 40 % and more, or to less, may reach.
BrandFuzzy(p) == CASE p.brand = "equal" -> 1000 [] p.brand = "similar" -> 999
                   [] p.brand = "unlike" -> 399 [] OTHER -> 0

\* A unit or a packaging that a side lacks counts half.
Alike(x) == CASE x = "same" -> 1000 [] x = "other" -> 0 [] OTHER -> 500

HasIdentifiers(p) == p.article \/ p.brand \notin {"neither", "query"}

\* Plausible bug: the weight of a brand is given away when one side has none.
LiveWeightOfBoth(p) == 100 - (IF p.brand \in {"neither", "query", "candidate"} THEN 12 ELSE 0)
                           - (IF p.category = "neither" THEN 9 ELSE 0)

\* _compute_effective_weights: the weights that are left when neither side has a brand
\* or a category; they are scaled up to a sum of 100.
LiveWeight(p) == 100 - (IF p.brand = "neither" THEN 12 ELSE 0)
                     - (IF p.category = "neither" THEN 9 ELSE 0)

BaseScore(p) ==
    LET sum == 8 * (IF p.brand = "equal" THEN 1000 ELSE 0) + 4 * BrandFuzzy(p)
               + 12 * p.lexical + 18 * p.semantic + 26 * p.rerank
               + 14 * NumberSignature(p) + 3 * Alike(p.packaging) + 2 * Alike(p.unit)
               + 3 * AttributeOverlap(p) + (IF p.alias THEN 1000 ELSE 0)
    IN  (100 * sum) \div LiveWeight(p)

Bonus(p) ==
    (IF p.brand = "equal" /\ NumberSignature(p) >= 900 THEN 3000 ELSE 0)
    + (IF p.alias THEN 2000 ELSE 0)

Penalty(p) ==
    (IF ~CriticalNumberConflict(p) THEN 0 ELSE IF HasIdentifiers(p) THEN 18000 ELSE 8000)
    + (IF p.packaging = "other" THEN 12000 ELSE 0)
    + (IF p.unit = "other" THEN 10000 ELSE 0)
    + (IF p.brand = "unlike" THEN 8000 ELSE 0)

\* Plausible bug: the sum is not cut to a score between 0 and 1.
FinalScoreUncut(p) == BaseScore(p) + Bonus(p) - Penalty(p)

FinalScore(p) == Min({100000, Max({0, BaseScore(p) + Bonus(p) - Penalty(p)})})

AutoMatchForbidden(p) ==
    \/ CriticalNumberConflict(p) /\ HasIdentifiers(p)
    \/ p.brand = "unlike" /\ NumberSignature(p) < 600

\* decide with the default thresholds.
StatusOf(p) ==
    IF FinalScore(p) >= 93000 /\ ~AutoMatchForbidden(p) THEN "auto_match"
    ELSE IF FinalScore(p) >= 75000 THEN "review_needed" ELSE "no_match"

-----------------------------------------------------------------------------
NoVerdict == [score |-> 0, status |-> "none"]

ScoringTypeOK ==
    /\ pair \in Pairs
    /\ verdict = NoVerdict
       \/ verdict \in [score : 0 .. 100000, status : {"auto_match", "review_needed", "no_match"}]

ScoringInit == pair \in Pairs /\ verdict = NoVerdict

ScoreCandidate ==
    /\ verdict = NoVerdict
    /\ verdict' = [score |-> FinalScore(pair), status |-> StatusOf(pair)]
    /\ UNCHANGED pair

ScoringSpec == ScoringInit /\ [][ScoreCandidate]_scoringVars

-----------------------------------------------------------------------------
\* The ways to give numbers of q different partners in c.
Pairings(q, c) ==
    {m \in SUBSET {e \in (DOMAIN q) \X (DOMAIN c) : Fuzzy(q[e[1]], c[e[2]])} :
        \A d, e \in m : d # e => d[1] # e[1] /\ d[2] # e[2]}

\* However the greedy passes go, no number is used twice, half of what could be paired is
\* (so a conflict is seen only where no number fits any other), and the same numbers in
\* another order are all paired.
NumbersPaired ==
    LET q == pair.query  c == pair.candidate  m == Pairing(q, c) IN
        /\ m \in Pairings(q, c)
        /\ \A other \in Pairings(q, c) : Cardinality(other) <= 2 * Cardinality(m)
        /\ (\A v \in Range(q \o c) : Cardinality({i \in DOMAIN q : q[i] = v})
                                     = Cardinality({j \in DOMAIN c : c[j] = v}))
              => Cardinality(m) = Len(q)

\* The weights, bonuses and penalties together let a candidate be matched without a
\* review only if its numbers do not contradict the query, if a reranker has ranked it
\* (the order of the retrieval, which stands in when there is none, never exceeds a
\* tenth), and if its brand is the query's, or neither has a brand and the candidate no
\* category; and what the greedy pairing of the numbers says of them is so.
AutoMatchIsEarned ==
    /\ verdict.status = "auto_match" =>
        /\ ~CriticalNumberConflict(pair)
        /\ pair.rerank > 100
        /\ \/ pair.brand \in {"equal", "similar"}
           \/ pair.brand = "neither" /\ pair.category = "neither"
    /\ NumbersPaired
=============================================================================
