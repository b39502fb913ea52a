------------------------ MODULE MatchPipeline_proofs ------------------------
(***************************************************************************)
(* Proofs about MatchPipeline, for any items, products, settings, answers  *)
(* and changes of the catalog, and about Scoring, for any pairs.           *)
(*                                                                         *)
(* The invariant says of each stage of an item (Fits): it works on products *)
(* that the catalog has or had, it has no result before the decision, an   *)
(* item waits for a reranker only if there is one, the agent gets nothing  *)
(* but an open case, and a result that does not come from the model or the *)
(* agent names only products that the catalog has or had.                  *)
(***************************************************************************)
EXTENDS MatchPipeline, Scoring, FiniteSetTheorems, TLAPS

Known == catalog \cup gone

NamedOf(r) == ({r.best} \ {Nothing}) \cup r.alternatives

Undecided == {"bulk", "start", "model", "whole", "hybrid", "ask", "ask_hybrid", "search",
              "found", "rerank", "score"}

\* A scored candidate that is no automatic match.
Open(r) ==
    /\ r.by = "scoring" /\ r.status # "auto_match"
    /\ r.best \in r.alternatives /\ r.label = r.best

Coherent(r) ==
    /\ r.status = "auto_match" /\ r.best = Nothing => r.by = "model"
    /\ r.label \notin {Nothing, r.best} => r.by = "agent" /\ r.best \notin r.alternatives
    /\ r.status = "auto_match" /\ r.forbidden => r.by = "agent"

Cause(r) ==
    \/ r.by \in {"model", "agent"}
    \/ r.by = "scoring" /\ setup.rerank
    \/ NamedOf(r) \cap gone # {}

Fits(here, products, r) ==
    /\ products \subseteq Known
    /\ here \in Undecided => r = NoResult
    /\ r.by \in {"nobody", "override", "scoring"} => NamedOf(r) \subseteq Known
    /\ here = "rerank" => setup.rerank
    /\ here = "score" /\ products = {} => setup.rerank
    /\ here = "agent" => r = NoResult \/ Open(r)
    /\ here = "save" => Coherent(r)
    /\ here = "error" => Cause(r)

PipelineInv ==
    /\ PipelineTypeOK
    /\ cached # Nothing => cached \subseteq Known
    /\ \A i \in Lines : Fits(stage[i], sees[i], result[i])

-----------------------------------------------------------------------------
\* Facts about the values.

LEMMA NoResultFits ==
    ASSUME PipelineAssumption
    PROVE  NoResult \in Result /\ NamedOf(NoResult) = {} /\ Coherent(NoResult)
  BY DEF PipelineAssumption, NoResult, Result, NamedOf, Coherent, Outcomes

LEMMA CountType ==
    ASSUME PipelineAssumption, PipelineTypeOK PROVE Count \in Nat
  <1>1. IsFiniteSet(Goods) /\ catalog \subseteq Goods
    BY DEF PipelineAssumption, PipelineTypeOK
  <1>2. Cardinality(catalog) \in Nat
    BY <1>1, FS_Subset, FS_CardinalityType
  <1>3. count \in Nat \cup {Nothing}
    BY DEF PipelineTypeOK
  <1> QED BY <1>2, <1>3 DEF Count

LEMMA WholeKnown ==
    ASSUME PipelineInv PROVE Whole \subseteq Known /\ Whole \subseteq Goods
  BY DEF PipelineInv, PipelineTypeOK, Whole, Known

LEMMA FoundKnown ==
    ASSUME PipelineInv, NEW found \in Found PROVE found \subseteq Known /\ found \subseteq Goods
  BY DEF PipelineInv, PipelineTypeOK, Found, Known

LEMMA DecideType ==
    ASSUME NEW level \in Levels, NEW forbidden \in BOOLEAN
    PROVE  /\ Decide(level, forbidden) \in Outcomes
           /\ Decide(level, forbidden) = "auto_match" => ~forbidden
  BY DEF Decide, Outcomes

-----------------------------------------------------------------------------
\* A step of one item, and what it leaves alone.

LEMMA ItemGoes ==
    ASSUME PipelineInv, NEW i \in Lines, NEW there \in Stages, NEW products \in SUBSET Goods,
           NEW r \in Result, Fits(there, products, r),
           Go(i, there, products), result' = [result EXCEPT ![i] = r],
           loops' \in [Lines -> 0 .. AgentLoops - 1],
           count' \in Nat \cup {Nothing},
           cached' = cached \/ cached' = Whole,
           UNCHANGED <<worldVars, answered>>
    PROVE  PipelineInv'
  <1>1. /\ stage' = [stage EXCEPT ![i] = there] /\ sees' = [sees EXCEPT ![i] = products]
        /\ UNCHANGED <<setup, catalog, gone, uploaded, changes, answered>>
    BY DEF Go, worldVars
  <1>2. cached' \in (SUBSET Goods) \cup {Nothing} /\ (cached' # Nothing => cached' \subseteq Known)
    BY WholeKnown DEF PipelineInv, PipelineTypeOK
  <1>3. PipelineTypeOK'
    BY <1>1, <1>2 DEF PipelineInv, PipelineTypeOK
  <1>4. (cached # Nothing => cached \subseteq Known)'
    BY <1>1, <1>2 DEF Known
  <1>5. ASSUME NEW j \in Lines PROVE Fits(stage[j], sees[j], result[j])'
    <2>1. CASE j = i
      <3>1. stage'[j] = there /\ sees'[j] = products /\ result'[j] = r
        BY <1>1, <2>1 DEF PipelineInv, PipelineTypeOK
      <3> QED BY <1>1, <3>1 DEF Fits, Known, NamedOf, Open, Coherent, Cause
    <2>2. CASE j # i
      <3>1. stage'[j] = stage[j] /\ sees'[j] = sees[j] /\ result'[j] = result[j]
        BY <1>1, <2>2 DEF PipelineInv, PipelineTypeOK
      <3>2. Fits(stage[j], sees[j], result[j])
        BY DEF PipelineInv
      <3> QED BY <1>1, <3>1, <3>2 DEF Fits, Known, NamedOf, Open, Coherent, Cause
    <2> QED BY <2>1, <2>2
  <1> QED BY <1>3, <1>4, <1>5 DEF PipelineInv

LEMMA ItemKeepsResult ==
    ASSUME PipelineInv, NEW i \in Lines, NEW there \in Stages, NEW products \in SUBSET Goods,
           Fits(there, products, result[i]),
           Go(i, there, products), UNCHANGED result,
           loops' \in [Lines -> 0 .. AgentLoops - 1],
           count' \in Nat \cup {Nothing},
           cached' = cached \/ cached' = Whole,
           UNCHANGED <<worldVars, answered>>
    PROVE  PipelineInv'
  <1>1. result[i] \in Result /\ result' = [result EXCEPT ![i] = result[i]]
    BY DEF PipelineInv, PipelineTypeOK
  <1> QED BY <1>1, ItemGoes

\* What an item has and is at a stage.
LEMMA ItemHas ==
    ASSUME PipelineInv, NEW i \in Lines
    PROVE  /\ Fits(stage[i], sees[i], result[i])
           /\ result[i] \in Result /\ sees[i] \in SUBSET Goods
           /\ loops \in [Lines -> 0 .. AgentLoops - 1]
           /\ count \in Nat \cup {Nothing}
  BY DEF PipelineInv, PipelineTypeOK

LEMMA AgentEndsType ==
    ASSUME PipelineAssumption, PipelineInv, NEW i \in Lines, AgentEnds(i)
    PROVE  loops' \in [Lines -> 0 .. AgentLoops - 1]
  <1>1. loops \in [Lines -> 0 .. AgentLoops - 1] /\ 0 \in 0 .. AgentLoops - 1
    BY DEF PipelineAssumption, PipelineInv, PipelineTypeOK
  <1> QED BY <1>1 DEF AgentEnds

USE DEF At, worldVars, cacheVars

-----------------------------------------------------------------------------
\* The actions of an item.

LEMMA OverrideKeeps ==
    ASSUME PipelineAssumption, PipelineInv, NEW i \in Lines, Override(i) PROVE PipelineInv'
  <1>1. PICK p \in catalog :
          result' = [result EXCEPT ![i] = [NoResult EXCEPT
                        !.status = "auto_match", !.best = p, !.by = "override"]]
    BY DEF Override
  <1> DEFINE r == [NoResult EXCEPT !.status = "auto_match", !.best = p, !.by = "override"]
  <1>2. p \in Goods /\ p \in Known /\ p # Nothing
    BY DEF PipelineAssumption, PipelineInv, PipelineTypeOK, Known
  <1>3. r \in Result
    BY <1>2 DEF NoResult, Result, Outcomes
  <1>4. Fits("save", {}, r)
    BY <1>2 DEF Fits, NoResult, NamedOf, Coherent, Undecided
  <1> QED BY <1>1, <1>3, <1>4, ItemHas, ItemGoes DEF Override, Stages

\* Before the decision, an item moves with products that are known.
LEMMA EarlyFits ==
    ASSUME PipelineAssumption, PipelineInv, NEW i \in Lines, stage[i] \in Undecided,
           NEW there \in Undecided, NEW products \in SUBSET Goods, products \subseteq Known,
           there = "rerank" => setup.rerank,
           there = "score" /\ products = {} => setup.rerank
    PROVE  Fits(there, products, result[i])
  <1>1. result[i] = NoResult
    BY ItemHas DEF Fits
  <1>2. there \notin {"agent", "save", "error"}
    BY DEF Undecided
  <1> QED BY <1>1, <1>2, NoResultFits DEF Fits

LEMMA EarlyKeeps ==
    ASSUME PipelineAssumption, PipelineInv, NEW i \in Lines,
           \/ NoOverride(i) \/ CountCatalog(i) \/ ShowWhole(i) \/ ShowFound(i)
           \/ Search(i) \/ SkipRerank(i) \/ CallRerank(i) \/ RerankAnswers(i)
           \/ RerankFails(i) \/ ModelFails(i)
    PROVE  PipelineInv'
  <1>1. PICK there \in Undecided, products \in SUBSET Goods :
          /\ Go(i, there, products) /\ products \subseteq Known
          /\ there = "rerank" => setup.rerank
          /\ there = "score" /\ products = {} => setup.rerank
    <2>1. sees[i] \in SUBSET Goods /\ sees[i] \subseteq Known
      BY ItemHas DEF Fits
    <2>2. {} \in SUBSET Goods /\ {} \subseteq Known
      OBVIOUS
    <2>3. CASE NoOverride(i)
      BY <2>1, <2>3 DEF NoOverride, Undecided
    <2>4. CASE CountCatalog(i)
      BY <2>1, <2>4 DEF CountCatalog, Undecided
    <2>5. CASE ShowWhole(i)
      BY <2>5, WholeKnown DEF ShowWhole, Undecided
    <2>6. CASE ShowFound(i)
      BY <2>6, FoundKnown DEF ShowFound, Undecided
    <2>7. CASE Search(i)
      BY <2>7, FoundKnown DEF Search, Undecided
    <2>8. CASE SkipRerank(i)
      BY <2>1, <2>8 DEF SkipRerank, Undecided
    <2>9. CASE CallRerank(i)
      BY <2>1, <2>9 DEF CallRerank, Undecided
    <2>10. CASE RerankAnswers(i)
      <3>1. setup.rerank
        BY <2>10, ItemHas DEF RerankAnswers, Fits
      <3> QED BY <2>1, <2>10, <3>1 DEF RerankAnswers, Undecided
    <2>11. CASE RerankFails(i)
      <3>1. setup.rerank
        BY <2>11, ItemHas DEF RerankFails, Fits
      <3> QED BY <2>1, <2>11, <3>1 DEF RerankFails, Undecided
    <2>12. CASE ModelFails(i)
      BY <2>1, <2>2, <2>12 DEF ModelFails, Undecided
    <2> QED BY <2>3, <2>4, <2>5, <2>6, <2>7, <2>8, <2>9, <2>10, <2>11, <2>12
  <1>2. stage[i] \in Undecided
    BY DEF NoOverride, CountCatalog, ShowWhole, ShowFound, Search, SkipRerank, CallRerank,
           RerankAnswers, RerankFails, ModelFails, Undecided
  <1>3. /\ UNCHANGED <<worldVars, answered, result, loops>>
        /\ count' = count \/ count' = Count
        /\ cached' = cached \/ cached' = Whole
    BY DEF NoOverride, CountCatalog, ShowWhole, ShowFound, Search, SkipRerank, CallRerank,
           RerankAnswers, RerankFails, ModelFails
  <1>4. Fits(there, products, result[i])
    BY <1>1, <1>2, EarlyFits
  <1>5. count' \in Nat \cup {Nothing} /\ loops' \in [Lines -> 0 .. AgentLoops - 1]
    BY <1>3, ItemHas, CountType DEF PipelineInv
  <1>6. there \in Stages
    BY DEF Undecided, Stages
  <1> QED BY <1>1, <1>3, <1>4, <1>5, <1>6, ItemKeepsResult

LEMMA NothingFoundKeeps ==
    ASSUME PipelineAssumption, PipelineInv, NEW i \in Lines, NothingFound(i) PROVE PipelineInv'
  <1> DEFINE there == IF setup.agent THEN "agent" ELSE "save"
  <1>1. result[i] = NoResult /\ sees[i] \subseteq Known
    BY ItemHas DEF NothingFound, Fits, Undecided
  <1>2. Fits(there, sees[i], result[i])
    BY <1>1, NoResultFits DEF Fits, Undecided
  <1>3. there \in Stages
    BY DEF Stages
  <1>4. Go(i, there, sees[i])
    BY DEF NothingFound
  <1> HIDE DEF there
  <1> QED BY <1>2, <1>3, <1>4, ItemHas, ItemKeepsResult DEF NothingFound

\* An answer of the model is coherent whatever it is.
LEMMA ModelResult ==
    ASSUME PipelineAssumption, PipelineInv, NEW i \in Lines, NEW shown \in SUBSET Goods,
           FromModel(i, shown)
    PROVE  \E r \in Result : Fits("save", {}, r) /\ result' = [result EXCEPT ![i] = r]
  <1>1. PICK level \in Levels, best \in shown \cup {Nothing},
             alternatives \in {{}, {Stray}} \cup {{p} : p \in shown} :
          result' = [result EXCEPT ![i] =
            [status |-> Decide(level, FALSE), best |-> best, label |-> best,
             alternatives |-> alternatives, forbidden |-> FALSE, by |-> "model"]]
    BY DEF FromModel
  <1> DEFINE r == [status |-> Decide(level, FALSE), best |-> best, label |-> best,
                   alternatives |-> alternatives, forbidden |-> FALSE, by |-> "model"]
  <1>2. Decide(level, FALSE) \in Outcomes
    BY DecideType
  <1>3. alternatives \in SUBSET (Goods \cup {Stray})
    OBVIOUS
  <1>4. r \in Result
    BY <1>2, <1>3 DEF Result
  <1>5. Fits("save", {}, r)
    BY DEF Fits, Coherent, Undecided
  <1> QED BY <1>1, <1>4, <1>5

LEMMA ModelAnswersKeep ==
    ASSUME PipelineAssumption, PipelineInv, NEW i \in Lines,
           ModelAnswers(i) \/ TakeAnswer(i)
    PROVE  PipelineInv'
  <1>1. PICK shown \in SUBSET Goods : FromModel(i, shown)
    BY WholeKnown, ItemHas DEF ModelAnswers, TakeAnswer
  <1>2. PICK r \in Result : Fits("save", {}, r) /\ result' = [result EXCEPT ![i] = r]
    BY <1>1, ModelResult
  <1>3. /\ Go(i, "save", {}) /\ UNCHANGED <<worldVars, answered, count, loops>>
        /\ cached' = cached \/ cached' = Whole
    BY DEF ModelAnswers, TakeAnswer
  <1> QED BY <1>2, <1>3, ItemHas, ItemGoes DEF Stages

LEMMA MalformedKeeps ==
    ASSUME PipelineAssumption, PipelineInv, NEW i \in Lines, Malformed(i) PROVE PipelineInv'
  <1>1. PICK who \in {"model", "agent"} :
          result' = [result EXCEPT ![i] = [result[i] EXCEPT !.by = who]]
    BY DEF Malformed
  <1> DEFINE r == [result[i] EXCEPT !.by = who]
  <1>2. r \in Result /\ r.by = who
    BY ItemHas DEF Result
  <1>3. Fits("error", {}, r)
    <2> HIDE DEF r
    <2> QED BY <1>2 DEF Fits, Cause, Undecided
  <1>4. /\ Go(i, "error", {}) /\ AgentEnds(i) /\ UNCHANGED <<worldVars, answered, count, cached>>
    BY DEF Malformed
  <1> HIDE DEF r
  <1> QED BY <1>1, <1>2, <1>3, <1>4, AgentEndsType, ItemHas, ItemGoes DEF Stages, r

LEMMA ScoreKeeps ==
    ASSUME PipelineAssumption, PipelineInv, NEW i \in Lines, Score(i) PROVE PipelineInv'
  <1>1. PICK best \in sees[i], level \in Levels, forbidden \in BOOLEAN :
          LET status == Decide(level, forbidden)
          IN  /\ result' = [result EXCEPT ![i] =
                    [status |-> status, best |-> best, label |-> best,
                     alternatives |-> sees[i], forbidden |-> forbidden, by |-> "scoring"]]
              /\ IF status # "auto_match" /\ setup.agent
                 THEN Go(i, "agent", sees[i]) ELSE Go(i, "save", {})
    BY DEF Score
  <1> DEFINE r == [status |-> Decide(level, forbidden), best |-> best, label |-> best,
                   alternatives |-> sees[i], forbidden |-> forbidden, by |-> "scoring"]
  <1>2. sees[i] \subseteq Goods /\ sees[i] \subseteq Known /\ best # Nothing
    BY ItemHas DEF Fits, PipelineAssumption
  <1>3. Decide(level, forbidden) \in Outcomes /\ (Decide(level, forbidden) = "auto_match" => ~forbidden)
    BY DecideType
  <1>4. r \in Result
    BY <1>2, <1>3 DEF Result
  <1>5. Coherent(r)
    BY <1>2, <1>3 DEF Coherent
  <1>6. NamedOf(r) \subseteq Known
    BY <1>2 DEF NamedOf
  <1>7. /\ UNCHANGED <<worldVars, answered, count, cached, loops>>
        /\ result' = [result EXCEPT ![i] = r]
    BY <1>1 DEF Score
  <1>8. CASE Decide(level, forbidden) # "auto_match" /\ setup.agent
    <2>1. Open(r)
      BY <1>8 DEF Open
    <2>2. Fits("agent", sees[i], r)
      <3> HIDE DEF r
      <3> QED BY <1>2, <1>6, <2>1 DEF Fits, Undecided
    <2>3. Go(i, "agent", sees[i])
      BY <1>1, <1>8
    <2> HIDE DEF r
    <2> QED BY <1>4, <1>7, <2>2, <2>3, ItemHas, ItemGoes DEF Stages
  <1>9. CASE ~(Decide(level, forbidden) # "auto_match" /\ setup.agent)
    <2>1. Fits("save", {}, r)
      <3> HIDE DEF r
      <3> QED BY <1>5, <1>6 DEF Fits, Undecided
    <2>2. Go(i, "save", {})
      BY <1>1, <1>9
    <2> HIDE DEF r
    <2> QED BY <1>4, <1>7, <2>1, <2>2, ItemHas, ItemGoes DEF Stages
  <1> QED BY <1>8, <1>9

LEMMA ScoreNothingKeeps ==
    ASSUME PipelineAssumption, PipelineInv, NEW i \in Lines, ScoreNothing(i) PROVE PipelineInv'
  <1> DEFINE r == [result[i] EXCEPT !.by = "scoring"]
  <1>1. result[i] = NoResult /\ setup.rerank
    BY ItemHas DEF ScoreNothing, Fits, Undecided
  <1>2. r \in Result /\ r.by = "scoring"
    BY ItemHas DEF Result
  <1>3. NamedOf(r) = {}
    BY <1>1 DEF NamedOf, NoResult
  <1>4. Fits("error", {}, r)
    <2> HIDE DEF r
    <2> QED BY <1>1, <1>2, <1>3 DEF Fits, Cause, Undecided
  <1>5. /\ Go(i, "error", {}) /\ result' = [result EXCEPT ![i] = r]
        /\ UNCHANGED <<worldVars, answered, count, cached, loops>>
    BY DEF ScoreNothing
  <1> HIDE DEF r
  <1> QED BY <1>2, <1>4, <1>5, ItemHas, ItemGoes DEF Stages

\* What the agent is given may be saved as it is.
LEMMA OpenIsCoherent ==
    ASSUME PipelineAssumption, PipelineInv, NEW i \in Lines, At(i, "agent")
    PROVE  /\ Fits("save", {}, result[i])
           /\ sees[i] \subseteq Known
           /\ result[i] = NoResult \/ Open(result[i])
  <1>1. /\ result[i] = NoResult \/ Open(result[i])
        /\ result[i].by \in {"nobody", "override", "scoring"} => NamedOf(result[i]) \subseteq Known
        /\ sees[i] \subseteq Known
    BY ItemHas DEF Fits
  <1>2. Coherent(result[i])
    BY <1>1, NoResultFits DEF Open, Coherent
  <1> QED BY <1>1, <1>2 DEF Fits, Undecided

LEMMA AgentTurnKeeps ==
    ASSUME PipelineAssumption, PipelineInv, NEW i \in Lines, AgentTurn(i) PROVE PipelineInv'
  <1>1. count' \in Nat \cup {Nothing} /\ UNCHANGED <<worldVars, cached, answered, result>>
    BY ItemHas, CountType DEF AgentTurn, PipelineInv
  <1>2. CASE loops[i] + 1 = AgentLoops
    <2>1. Go(i, "save", {}) /\ AgentEnds(i)
      BY <1>2 DEF AgentTurn
    <2>2. Fits("save", {}, result[i])
      BY OpenIsCoherent DEF AgentTurn
    <2> QED BY <1>1, <2>1, <2>2, AgentEndsType, ItemKeepsResult DEF Stages
  <1>3. CASE loops[i] + 1 # AgentLoops
    <2>1. PICK found \in {{}} \cup Found : Go(i, "agent", sees[i] \cup found)
      BY <1>3 DEF AgentTurn
    <2>2. sees[i] \cup found \subseteq Known /\ sees[i] \cup found \in SUBSET Goods
      BY OpenIsCoherent, FoundKnown, ItemHas DEF AgentTurn
    <2>3. Fits("agent", sees[i] \cup found, result[i])
      BY <2>2, OpenIsCoherent DEF AgentTurn, Fits, Undecided
    <2>4. loops' \in [Lines -> 0 .. AgentLoops - 1]
      <3>1. loops' = [loops EXCEPT ![i] = loops[i] + 1]
        BY <1>3 DEF AgentTurn
      <3>2. loops[i] \in 0 .. AgentLoops - 1 /\ AgentLoops \in Nat \ {0}
        BY ItemHas DEF PipelineAssumption
      <3>3. loops[i] + 1 \in 0 .. AgentLoops - 1
        BY <1>3, <3>2
      <3> QED BY <3>1, <3>3, ItemHas
    <2> QED BY <1>1, <2>1, <2>2, <2>3, <2>4, ItemKeepsResult DEF Stages
  <1> QED BY <1>2, <1>3

LEMMA AgentFailsKeeps ==
    ASSUME PipelineAssumption, PipelineInv, NEW i \in Lines, AgentFails(i) PROVE PipelineInv'
  <1>1. /\ Go(i, "save", {}) /\ AgentEnds(i)
        /\ UNCHANGED <<worldVars, answered, count, cached, result>>
    BY DEF AgentFails
  <1>2. Fits("save", {}, result[i])
    BY OpenIsCoherent DEF AgentFails
  <1> QED BY <1>1, <1>2, AgentEndsType, ItemHas, ItemKeepsResult DEF Stages

\* Whatever the agent decides about an open case is coherent.
LEMMA SettleFits ==
    ASSUME PipelineAssumption, PipelineInv, NEW old \in Result, old = NoResult \/ Open(old),
           Fits("save", {}, old), NEW p \in Goods \cup {Stray},
           NEW decision \in {"exact_match", "likely_match", "no_match"}
    PROVE  Settle(old, decision, p) \in Result /\ Fits("save", {}, Settle(old, decision, p))
  <1>1. p # Nothing
    BY DEF PipelineAssumption
  <1>2. CASE Settle(old, decision, p) = old
    BY <1>2
  <1>3. CASE old.alternatives = {} /\ decision # "no_match"
    <2> DEFINE r == [old EXCEPT !.status = "review_needed", !.best = p, !.by = "agent"]
    <2>1. Settle(old, decision, p) = r
      BY <1>3 DEF Settle
    <2>2. r \in Result
      BY DEF Result, Outcomes
    <2>3. r.status = "review_needed" /\ r.by = "agent" /\ r.label = old.label
      BY DEF Result
    <2>4. old.label = Nothing
      BY <1>3 DEF Open, NoResult
    <2>5. Fits("save", {}, r)
      <3> HIDE DEF r
      <3>1. Coherent(r)
        BY <2>3, <2>4 DEF Coherent
      <3> QED BY <2>3, <3>1 DEF Fits, Undecided
    <2> QED BY <2>1, <2>2, <2>5
  <1>4. CASE old.alternatives # {} /\ decision = "exact_match"
    <2> DEFINE r == [old EXCEPT !.status = "auto_match", !.best = p, !.by = "agent",
                                !.label = IF p \in old.alternatives THEN p ELSE @]
    <2>1. Settle(old, decision, p) = r
      BY <1>4 DEF Settle
    <2>2. Open(old)
      BY <1>4 DEF NoResult
    <2>3. old.alternatives \subseteq Goods
      <3>1. NamedOf(old) \subseteq Known
        BY <2>2 DEF Fits, Open
      <3>2. Known \subseteq Goods
        BY DEF PipelineInv, PipelineTypeOK, Known
      <3> QED BY <3>1, <3>2 DEF NamedOf
    <2>4. r \in Result
      BY <2>3 DEF Result, Outcomes
    <2>5. /\ r.by = "agent" /\ r.best = p /\ r.alternatives = old.alternatives
          /\ r.label = IF p \in old.alternatives THEN p ELSE old.label
      BY DEF Result
    <2>6. Fits("save", {}, r)
      <3> HIDE DEF r
      <3> QED BY <1>1, <2>5 DEF Fits, Coherent, Undecided
    <2> QED BY <2>1, <2>4, <2>6
  <1> QED BY <1>2, <1>3, <1>4 DEF Settle

LEMMA AgentDecidesKeeps ==
    ASSUME PipelineAssumption, PipelineInv, NEW i \in Lines, AgentDecides(i) PROVE PipelineInv'
  <1>1. PICK decision \in {"exact_match", "likely_match", "no_match"},
             p \in sees[i] \cup {Stray} :
          result' = [result EXCEPT ![i] = Settle(result[i], decision, p)]
    BY DEF AgentDecides
  <1>2. p \in Goods \cup {Stray} /\ result[i] \in Result
    BY ItemHas
  <1>3. /\ Settle(result[i], decision, p) \in Result
        /\ Fits("save", {}, Settle(result[i], decision, p))
    BY <1>2, OpenIsCoherent, SettleFits DEF AgentDecides
  <1>4. /\ Go(i, "save", {}) /\ AgentEnds(i)
        /\ UNCHANGED <<worldVars, answered, count, cached>>
    BY DEF AgentDecides
  <1> QED BY <1>1, <1>3, <1>4, AgentEndsType, ItemHas, ItemGoes DEF Stages

LEMMA SaveKeeps ==
    ASSUME PipelineAssumption, PipelineInv, NEW i \in Lines, Save(i) PROVE PipelineInv'
  <1>1. UNCHANGED <<worldVars, answered, count, cached, loops>>
    BY DEF Save
  <1>2. CASE /\ Go(i, "saved", {})
             /\ result' = [result EXCEPT ![i] = NoResult]
    <2>1. Fits("saved", {}, NoResult)
      BY NoResultFits DEF Fits, Undecided
    <2> QED BY <1>1, <1>2, <2>1, NoResultFits, ItemHas, ItemGoes DEF Stages
  <1>3. CASE /\ ~(Named(i) \subseteq catalog)
             /\ Go(i, "error", {}) /\ UNCHANGED result
    <2>1. NamedOf(result[i]) = Named(i)
      BY DEF NamedOf, Named
    <2>2. /\ result[i].by \in {"nobody", "override", "model", "scoring", "agent"}
          /\ result[i].by \in {"nobody", "override", "scoring"} =>
                NamedOf(result[i]) \subseteq Known
      BY ItemHas DEF Fits, Result
    <2>3. Cause(result[i])
      BY <1>3, <2>1, <2>2 DEF Cause, Known
    <2>4. Fits("error", {}, result[i])
      BY <2>2, <2>3 DEF Fits, Undecided
    <2> QED BY <1>1, <1>3, <2>4, ItemHas, ItemKeepsResult DEF Stages
  <1> QED BY <1>2, <1>3 DEF Save

-----------------------------------------------------------------------------
\* The steps of all items at once and of the catalog.

LEMMA AskForAllKeeps ==
    ASSUME PipelineAssumption, PipelineInv, AskForAll PROVE PipelineInv'
  <1>1. /\ \A i \in Lines : stage[i] = "bulk"
        /\ cached' = Whole
        /\ answered' \in [Lines -> BOOLEAN]
        /\ stage' = [i \in Lines |-> "start"]
        /\ UNCHANGED <<setup, catalog, gone, uploaded, changes, count, sees, result, loops>>
    BY DEF AskForAll
  <1>2. PipelineTypeOK'
    BY <1>1, WholeKnown DEF PipelineInv, PipelineTypeOK, Stages
  <1>3. (cached # Nothing => cached \subseteq Known)'
    BY <1>1, WholeKnown DEF Known
  <1>4. ASSUME NEW i \in Lines PROVE Fits(stage[i], sees[i], result[i])'
    <2>1. Fits("bulk", sees[i], result[i]) /\ stage'[i] = "start"
      BY <1>1, ItemHas
    <2> QED BY <1>1, <2>1 DEF Fits, Undecided, Known, NamedOf
  <1> QED BY <1>2, <1>3, <1>4 DEF PipelineInv

LEMMA ChangeKeeps ==
    ASSUME PipelineAssumption, PipelineInv, NEW p \in Goods, Import(p) \/ Delete(p)
    PROVE  PipelineInv'
  <1>1. /\ changes < MaxChanges /\ changes' = changes + 1
        /\ UNCHANGED <<setup, count, cached, answered, stage, sees, result, loops>>
    BY DEF Import, Delete, Change
  <1>2. /\ catalog' \subseteq Goods /\ uploaded' \subseteq Goods /\ gone' \subseteq Goods
        /\ Known \subseteq Known' /\ gone \subseteq gone'
    BY DEF Import, Delete, PipelineInv, PipelineTypeOK, Known
  <1>3. changes' \in 0 .. MaxChanges
    BY <1>1 DEF PipelineAssumption, PipelineInv, PipelineTypeOK
  <1>4. PipelineTypeOK'
    BY <1>1, <1>2, <1>3 DEF PipelineInv, PipelineTypeOK
  <1>5. (cached # Nothing => cached \subseteq Known)'
    BY <1>1, <1>2 DEF PipelineInv
  <1>6. ASSUME NEW i \in Lines PROVE Fits(stage[i], sees[i], result[i])'
    <2>1. Fits(stage[i], sees[i], result[i])
      BY ItemHas
    <2>2. Cause(result[i]) => Cause(result[i])'
      BY <1>1, <1>2 DEF Cause, NamedOf
    <2>3. Coherent(result[i]) => Coherent(result[i])'
      BY <1>1 DEF Coherent
    <2>4. Open(result[i]) => Open(result[i])'
      BY <1>1 DEF Open
    <2>5. NamedOf(result[i])' = NamedOf(result[i])
      BY <1>1 DEF NamedOf
    <2> QED BY <1>1, <1>2, <2>1, <2>2, <2>3, <2>4, <2>5 DEF Fits
  <1> QED BY <1>4, <1>5, <1>6 DEF PipelineInv

LEMMA PipelineStart == ASSUME PipelineAssumption, PipelineInit PROVE PipelineInv
  <1>1. setup \in Setups /\ catalog \in Stocks
    BY DEF PipelineInit
  <1>2. stage \in [Lines -> Stages] /\ \A i \in Lines : stage[i] \in {"bulk", "start"}
    BY DEF PipelineInit, Stages
  <1>3. result \in [Lines -> Result] /\ \A i \in Lines : result[i] = NoResult
    BY NoResultFits DEF PipelineInit
  <1>4. loops \in [Lines -> 0 .. AgentLoops - 1]
    <2>1. 0 \in 0 .. AgentLoops - 1
      BY DEF PipelineAssumption
    <2> QED BY <2>1 DEF PipelineInit
  <1>5. changes \in 0 .. MaxChanges
    BY DEF PipelineAssumption, PipelineInit
  <1>6. PipelineTypeOK
    BY <1>1, <1>2, <1>3, <1>4, <1>5 DEF PipelineAssumption, PipelineInit, PipelineTypeOK
  <1>7. \A i \in Lines : Fits(stage[i], sees[i], result[i])
    BY <1>2, <1>3, NoResultFits DEF PipelineInit, Fits, Undecided
  <1> QED BY <1>6, <1>7 DEF PipelineInv, PipelineInit

\* Every step keeps the invariant.
LEMMA PipelineStep ==
    ASSUME PipelineAssumption, PipelineInv, [PipelineNext]_pipelineVars PROVE PipelineInv'
  <1>1. CASE UNCHANGED pipelineVars
    BY <1>1 DEF pipelineVars, PipelineInv, PipelineTypeOK, Fits, Known, NamedOf, Open,
                Coherent, Cause
  <1>2. CASE AskForAll
    BY <1>2, AskForAllKeeps
  <1>3. ASSUME NEW i \in Lines, ItemMoves(i) PROVE PipelineInv'
    BY <1>3, OverrideKeeps, EarlyKeeps, NothingFoundKeeps, ModelAnswersKeep, MalformedKeeps,
       ScoreKeeps, ScoreNothingKeeps, AgentTurnKeeps, AgentFailsKeeps, AgentDecidesKeeps,
       SaveKeeps DEF ItemMoves
  <1>4. ASSUME NEW p \in Goods, Import(p) \/ Delete(p) PROVE PipelineInv'
    BY <1>4, ChangeKeeps
  <1> QED BY <1>1, <1>2, <1>3, <1>4 DEF PipelineNext

LEMMA PipelineInvariant == PipelineSpec => []PipelineInv
  <1>1. PipelineInit => PipelineInv
    BY PipelineStart, PipelineAssumption
  <1>2. PipelineInv /\ [PipelineNext]_pipelineVars => PipelineInv'
    BY PipelineStep, PipelineAssumption
  <1> QED BY <1>1, <1>2, PTL DEF PipelineSpec

\* The variables of the pipeline have their types in every behaviour.
THEOREM PipelineTypeCorrect == PipelineSpec => []PipelineTypeOK
  <1>1. PipelineInv => PipelineTypeOK
    BY DEF PipelineInv
  <1> QED BY <1>1, PipelineInvariant, PTL

\* No failure of a provider fails an item: whatever match_single meets, an item fails
\* only for a malformed answer, an empty rerank or a product that is gone or never was.
THEOREM ErrorHasCauseCorrect == PipelineSpec => []ErrorHasCause
  <1>1. PipelineInv => ErrorHasCause
    <2> SUFFICES ASSUME PipelineInv, NEW i \in Lines, stage[i] = "error"
                 PROVE  Cause(result[i])
      BY DEF ErrorHasCause, Cause, NamedOf, Named
    <2> QED BY ItemHas DEF Fits
  <1> QED BY <1>1, PipelineInvariant, PTL

\* Whoever decides, the status, the product and the name that match_single returns fit
\* each other.
THEOREM ResultIsCoherentCorrect == PipelineSpec => []ResultIsCoherent
  <1>1. PipelineInv => ResultIsCoherent
    <2> SUFFICES ASSUME PipelineInv, NEW i \in Lines, stage[i] = "save"
                 PROVE  Coherent(result[i])
      BY DEF ResultIsCoherent, Coherent
    <2> QED BY ItemHas DEF Fits
  <1> QED BY <1>1, PipelineInvariant, PTL

-----------------------------------------------------------------------------
(* The pairing of numbers.  A pass is a loop over the numbers of the query *)
(* (PassLoop), and LoopInv is its invariant.                               *)

\* An invariant of a loop that counts from zero holds at its end.
LEMMA LoopEnds ==
    ASSUME NEW n \in Nat, NEW Good \in SUBSET Nat, 0 \in Good,
           \A i \in 1 .. n : i - 1 \in Good => i \in Good
    PROVE  n \in Good
<1> DEFINE bad == (0 .. n) \ Good
           less == OpToRel(<, Nat)
<1>1. SUFFICES ASSUME bad # {} PROVE FALSE
  OBVIOUS
<1>2. bad \subseteq Nat
  OBVIOUS
<1>3. IsWellFoundedOn(less, Nat)
  BY NatLessThanWellFounded, Zenon
<1>4. \A x, y \in Nat : y < x => <<y, x>> \in less
  BY Zenon DEF OpToRel
<1>5. PICK x \in bad : \A y \in bad : ~(<<y, x>> \in less)
  <2> HIDE DEF bad, less
  <2> QED BY <1>1, <1>2, <1>3, WFMin, Zenon
<1>6. \A y \in bad : ~(y < x)
  <2> HIDE DEF bad, less
  <2> QED BY <1>2, <1>4, <1>5
<1>7. x \in 1 .. n
  <2>1. x \in 0 .. n /\ x \notin Good
    BY <1>5
  <2>2. x # 0
    BY <2>1
  <2> QED BY <2>1, <2>2
<1>8. x - 1 \in Good
  BY <1>6, <1>7
<1> QED BY <1>5, <1>7, <1>8

\* What a loop makes of a pairing, number by number.
Runs(f, n, done, q, c, fuzzy) ==
    f = [i \in 0 .. n |-> IF i = 0 THEN done ELSE WithPartner(i, f[i - 1], q, c, fuzzy)]

LEMMA RunExists ==
    ASSUME NEW n \in Nat, NEW done, NEW q, NEW c, NEW fuzzy
    PROVE  \E f : Runs(f, n, done, q, c, fuzzy)
<1> DEFINE Good == {i \in Nat : \E f : Runs(f, i, done, q, c, fuzzy)}
<1>1. 0 \in Good
  <2> DEFINE f == [i \in 0 .. 0 |-> done]
  <2>1. f = [i \in 0 .. 0 |-> IF i = 0 THEN done ELSE WithPartner(i, f[i - 1], q, c, fuzzy)]
    OBVIOUS
  <2> QED BY <2>1 DEF Runs
<1>2. ASSUME NEW k \in 1 .. n, k - 1 \in Good PROVE k \in Good
  <2>1. PICK g : Runs(g, k - 1, done, q, c, fuzzy)
    BY <1>2
  <2> DEFINE f == [i \in 0 .. k |-> IF i = k THEN WithPartner(k, g[k - 1], q, c, fuzzy) ELSE g[i]]
  <2>2. /\ \A i \in 0 .. k - 1 :
              g[i] = IF i = 0 THEN done ELSE WithPartner(i, g[i - 1], q, c, fuzzy)
    <3> HIDE DEF Good
    <3> QED BY <2>1 DEF Runs
  <2>3. ASSUME NEW i \in 0 .. k
        PROVE  f[i] = IF i = 0 THEN done ELSE WithPartner(i, f[i - 1], q, c, fuzzy)
    <3>1. CASE i = k
      BY <3>1
    <3>2. CASE i # k
      BY <2>2, <3>2
    <3> QED BY <3>1, <3>2
  <2>4. Runs(f, k, done, q, c, fuzzy)
    <3> SUFFICES f = [i \in 0 .. k |-> IF i = 0 THEN done
                                       ELSE WithPartner(i, f[i - 1], q, c, fuzzy)]
      BY DEF Runs
    <3> QED BY <2>3
  <2> QED BY <2>4
<1> HIDE DEF Good
<1>3. n \in Good
  <2>1. Good \in SUBSET Nat
    BY DEF Good
  <2> QED BY <1>1, <1>2, <2>1, LoopEnds
<1> QED BY <1>3 DEF Good

LEMMA PassLoop ==
    ASSUME NEW done, NEW q, NEW c, NEW fuzzy, Len(q) \in Nat
    PROVE  \E f : /\ f[0] = done /\ f[Len(q)] = Pass(done, q, c, fuzzy)
                  /\ \A i \in 1 .. Len(q) : f[i] = WithPartner(i, f[i - 1], q, c, fuzzy)
<1> DEFINE f == CHOOSE g : Runs(g, Len(q), done, q, c, fuzzy)
<1>1. Runs(f, Len(q), done, q, c, fuzzy)
  BY RunExists
<1>2. Pass(done, q, c, fuzzy) = f[Len(q)]
  BY DEF Pass, Runs
<1> HIDE DEF f
<1>3. f[0] = done
  BY <1>1 DEF Runs
<1>4. \A i \in 1 .. Len(q) : f[i] = WithPartner(i, f[i - 1], q, c, fuzzy)
  BY <1>1 DEF Runs
<1> QED BY <1>2, <1>3, <1>4

LEMMA LeastIn == ASSUME NEW S \in SUBSET Nat, S # {} PROVE Min(S) \in S
<1> DEFINE less == OpToRel(<, Nat)
<1>1. IsWellFoundedOn(less, Nat)
  BY NatLessThanWellFounded, Zenon
<1>2. \A x, y \in Nat : y < x => <<y, x>> \in less
  BY Zenon DEF OpToRel
<1>3. PICK x \in S : \A y \in S : ~(<<y, x>> \in less)
  <2> HIDE DEF less
  <2> QED BY <1>1, WFMin, Zenon
<1>4. \A y \in S : ~(y < x)
  <2> HIDE DEF less
  <2> QED BY <1>2, <1>3
<1>5. \A y \in S : x <= y
  BY <1>4
<1> QED BY <1>5, Zenon DEF Min

\* Numbers that a pass lets go together.
GoWith(a, b, fuzzy) == IF fuzzy THEN Fuzzy(a, b) ELSE a = b

LEMMA GoWithIsFuzzy ==
    ASSUME NEW a \in Nat, NEW b \in Nat, NEW fuzzy \in BOOLEAN, GoWith(a, b, fuzzy)
    PROVE  Fuzzy(a, b)
BY DEF GoWith, Fuzzy

HasPartner(m, i) == \E e \in m : e[1] = i
IsTaken(m, j) == \E e \in m : e[2] = j

\* No number of either side is used twice, and those that go together are alike.
LEMMA PairingsAre ==
    ASSUME NEW q \in Seq(Nat), NEW c \in Seq(Nat), NEW m
    PROVE  m \in Pairings(q, c) <=>
              /\ \A e \in m : /\ e \in (1 .. Len(q)) \X (1 .. Len(c))
                              /\ Fuzzy(q[e[1]], c[e[2]])
              /\ \A d, e \in m : d # e => d[1] # e[1] /\ d[2] # e[2]
BY DEF Pairings

LEMMA WithPartnerFacts ==
    ASSUME NEW q \in Seq(Nat), NEW c \in Seq(Nat), NEW fuzzy \in BOOLEAN,
           NEW i \in 1 .. Len(q), NEW m \in Pairings(q, c)
    PROVE  LET n == WithPartner(i, m, q, c, fuzzy) IN
           /\ n \in Pairings(q, c)
           /\ m \subseteq n
           /\ \A e \in n : e \in m \/ GoWith(q[e[1]], c[e[2]], fuzzy)
           /\ HasPartner(n, i)
              \/ \A j \in 1 .. Len(c) : GoWith(q[i], c[j], fuzzy) => IsTaken(n, j)
<1> DEFINE n == WithPartner(i, m, q, c, fuzzy)
           free == FreeFor(q[i], m, c, fuzzy)
           j == Min(free)
<1>1. free = {k \in 1 .. Len(c) : GoWith(q[i], c[k], fuzzy) /\ ~IsTaken(m, k)}
  BY DEF FreeFor, GoWith, IsTaken
<1>2. CASE HasPartner(m, i)
  <2>1. n = m
    BY <1>2 DEF WithPartner, HasPartner
  <2> QED BY <1>2, <2>1
<1>3. CASE ~HasPartner(m, i) /\ free = {}
  <2>1. n = m
    BY <1>3 DEF WithPartner, HasPartner
  <2>2. \A k \in 1 .. Len(c) : GoWith(q[i], c[k], fuzzy) => IsTaken(m, k)
    BY <1>1, <1>3
  <2> QED BY <2>1, <2>2
<1>4. CASE ~HasPartner(m, i) /\ free # {}
  <2>1. n = m \cup {<<i, j>>}
    BY <1>4 DEF WithPartner, HasPartner
  <2>2. j \in 1 .. Len(c) /\ GoWith(q[i], c[j], fuzzy) /\ ~IsTaken(m, j)
    <3>1. free \subseteq Nat
      BY <1>1
    <3>2. j \in free
      <4> HIDE DEF free
      <4> QED BY <1>4, <3>1, LeastIn
    <3> QED BY <1>1, <3>2
  <2> HIDE DEF n, free, j
  <2>3. q[i] \in Nat /\ c[j] \in Nat
    BY <2>2
  <2>4. Fuzzy(q[i], c[j])
    BY <2>2, <2>3, GoWithIsFuzzy
  <2>5. /\ \A e \in m : /\ e \in (1 .. Len(q)) \X (1 .. Len(c))
                        /\ Fuzzy(q[e[1]], c[e[2]])
        /\ \A d, e \in m : d # e => d[1] # e[1] /\ d[2] # e[2]
    BY PairingsAre
  <2> DEFINE new == <<i, j>>
  <2>6. new[1] = i /\ new[2] = j /\ new \in (1 .. Len(q)) \X (1 .. Len(c))
    BY <2>2
  <2> HIDE DEF new
  <2>7. \A e \in m : e[1] # new[1] /\ e[2] # new[2]
    BY <1>4, <2>2, <2>6 DEF HasPartner, IsTaken
  <2>8. n = m \cup {new}
    BY <2>1 DEF new
  <2>9. /\ \A e \in n : /\ e \in (1 .. Len(q)) \X (1 .. Len(c))
                        /\ Fuzzy(q[e[1]], c[e[2]])
        /\ \A d, e \in n : d # e => d[1] # e[1] /\ d[2] # e[2]
    BY <2>4, <2>5, <2>6, <2>7, <2>8
  <2>10. n \in Pairings(q, c)
    BY <2>9, PairingsAre
  <2>11. HasPartner(n, i)
    BY <2>6, <2>8 DEF HasPartner
  <2>12. \A e \in n : e \in m \/ GoWith(q[e[1]], c[e[2]], fuzzy)
    BY <2>2, <2>6, <2>8
  <2> QED BY <2>8, <2>10, <2>11, <2>12 DEF n
<1> QED BY <1>2, <1>3, <1>4

\* After i numbers of a pass: each of them has a partner, or all that it may go with
\* are taken.
LoopInv(m, done, q, c, fuzzy, i) ==
    /\ m \in Pairings(q, c)
    /\ done \subseteq m
    /\ \A e \in m : e \in done \/ GoWith(q[e[1]], c[e[2]], fuzzy)
    /\ \A h \in 1 .. i :
          HasPartner(m, h) \/ \A j \in 1 .. Len(c) : GoWith(q[h], c[j], fuzzy) => IsTaken(m, j)

LEMMA PassKeeps ==
    ASSUME NEW q \in Seq(Nat), NEW c \in Seq(Nat), NEW fuzzy \in BOOLEAN,
           NEW done \in Pairings(q, c)
    PROVE  LoopInv(Pass(done, q, c, fuzzy), done, q, c, fuzzy, Len(q))
<1> DEFINE n == Len(q)
<1>1. n \in Nat
  OBVIOUS
<1>2. PICK f : /\ f[0] = done /\ f[n] = Pass(done, q, c, fuzzy)
               /\ \A i \in 1 .. n : f[i] = WithPartner(i, f[i - 1], q, c, fuzzy)
  <2>1. Len(q) \in Nat
    OBVIOUS
  <2>2. \E f : /\ f[0] = done /\ f[Len(q)] = Pass(done, q, c, fuzzy)
               /\ \A i \in 1 .. Len(q) : f[i] = WithPartner(i, f[i - 1], q, c, fuzzy)
    BY <2>1, PassLoop
  <2> QED BY <2>2
<1> DEFINE Good == {i \in Nat : LoopInv(f[i], done, q, c, fuzzy, i)}
<1>3. 0 \in Good
  BY <1>2 DEF LoopInv
<1>4. ASSUME NEW i \in 1 .. n, i - 1 \in Good PROVE i \in Good
  <2> DEFINE m == f[i - 1]
             next == WithPartner(i, m, q, c, fuzzy)
  <2>1. LoopInv(m, done, q, c, fuzzy, i - 1)
    BY <1>4
  <2>2. f[i] = next
    BY <1>2
  <2> HIDE DEF m, Good
  <2>3. /\ next \in Pairings(q, c) /\ m \subseteq next
        /\ \A e \in next : e \in m \/ GoWith(q[e[1]], c[e[2]], fuzzy)
        /\ HasPartner(next, i)
           \/ \A j \in 1 .. Len(c) : GoWith(q[i], c[j], fuzzy) => IsTaken(next, j)
    BY <2>1, WithPartnerFacts DEF LoopInv
  <2> HIDE DEF next
  <2>4. \A h \in 1 .. i - 1 : HasPartner(m, h) => HasPartner(next, h)
    BY <2>3 DEF HasPartner
  <2>5. \A j : IsTaken(m, j) => IsTaken(next, j)
    BY <2>3 DEF IsTaken
  <2>6. ASSUME NEW h \in 1 .. i
        PROVE  HasPartner(next, h)
               \/ \A j \in 1 .. Len(c) : GoWith(q[h], c[j], fuzzy) => IsTaken(next, j)
    <3>1. CASE h = i
      BY <2>3, <3>1
    <3>2. CASE h # i
      <4>1. h \in 1 .. i - 1
        BY <3>2
      <4> QED BY <2>1, <2>4, <2>5, <4>1 DEF LoopInv
    <3> QED BY <3>1, <3>2
  <2>7. \A e \in next : e \in done \/ GoWith(q[e[1]], c[e[2]], fuzzy)
    BY <2>1, <2>3 DEF LoopInv
  <2>8. done \subseteq next
    BY <2>1, <2>3 DEF LoopInv
  <2>9. LoopInv(next, done, q, c, fuzzy, i)
    BY <2>3, <2>6, <2>7, <2>8 DEF LoopInv
  <2> QED BY <2>2, <2>9 DEF Good
<1>5. n \in Good
  <2>1. Good \in SUBSET Nat
    OBVIOUS
  <2> HIDE DEF Good, n
  <2> QED BY <1>1, <1>3, <1>4, <2>1, LoopEnds
<1> QED BY <1>2, <1>5

\* Equal numbers first, then similar ones; what is left over goes with nothing left over.
LEMMA PairingFacts ==
    ASSUME NEW q \in Seq(Nat), NEW c \in Seq(Nat)
    PROVE  /\ Pairing(q, c) \in Pairings(q, c)
           /\ \A i \in 1 .. Len(q), j \in 1 .. Len(c) :
                 Fuzzy(q[i], c[j]) => HasPartner(Pairing(q, c), i) \/ IsTaken(Pairing(q, c), j)
           /\ \E equal \in SUBSET Pairing(q, c) :
                 /\ \A e \in equal : q[e[1]] = c[e[2]]
                 /\ \A i \in 1 .. Len(q) :
                       HasPartner(equal, i)
                       \/ \A j \in 1 .. Len(c) : q[i] = c[j] => IsTaken(equal, j)
<1> DEFINE equal == Pass({}, q, c, FALSE)
           all == Pairing(q, c)
<1>1. {} \in Pairings(q, c)
  BY PairingsAre
<1>2. LoopInv(equal, {}, q, c, FALSE, Len(q))
  BY <1>1, PassKeeps
<1>3. LoopInv(all, equal, q, c, TRUE, Len(q))
  <2>1. equal \in Pairings(q, c)
    BY <1>2 DEF LoopInv
  <2>2. all = Pass(equal, q, c, TRUE)
    BY DEF Pairing
  <2> HIDE DEF equal
  <2> QED BY <2>1, <2>2, PassKeeps
<1> HIDE DEF equal, all
<1>4. equal \in SUBSET all
  BY <1>3 DEF LoopInv
<1>5. \A i \in 1 .. Len(q), j \in 1 .. Len(c) :
          Fuzzy(q[i], c[j]) => HasPartner(all, i) \/ IsTaken(all, j)
  BY <1>3 DEF LoopInv, GoWith
<1>6. /\ \A e \in equal : q[e[1]] = c[e[2]]
      /\ \A i \in 1 .. Len(q) :
            HasPartner(equal, i) \/ \A j \in 1 .. Len(c) : q[i] = c[j] => IsTaken(equal, j)
  BY <1>2 DEF LoopInv, GoWith
<1>7. all \in Pairings(q, c)
  BY <1>3 DEF LoopInv
<1> QED BY <1>4, <1>5, <1>6, <1>7 DEF all

LEMMA PairingSize ==
    ASSUME NEW q \in Seq(Nat), NEW c \in Seq(Nat), NEW m \in Pairings(q, c)
    PROVE  /\ IsFiniteSet(m) /\ Cardinality(m) \in Nat
           /\ Cardinality(m) <= Len(q) /\ Cardinality(m) <= Len(c)
<1>1. /\ \A e \in m : e[1] \in 1 .. Len(q) /\ e[2] \in 1 .. Len(c)
                      /\ e \in (1 .. Len(q)) \X (1 .. Len(c))
      /\ \A d, e \in m : d # e => d[1] # e[1] /\ d[2] # e[2]
  BY PairingsAre
<1>2. \A n \in Nat : IsFiniteSet(1 .. n) /\ Cardinality(1 .. n) = n
  BY FS_Interval
<1>3. Len(q) \in Nat /\ Len(c) \in Nat
  OBVIOUS
<1>4. [e \in m |-> e[1]] \in Injection(m, 1 .. Len(q))
  BY <1>1 DEF Injection, IsInjective
<1>5. [e \in m |-> e[2]] \in Injection(m, 1 .. Len(c))
  BY <1>1 DEF Injection, IsInjective
<1>6. IsFiniteSet(m) /\ Cardinality(m) <= Cardinality(1 .. Len(q))
  BY <1>2, <1>3, <1>4, FS_Injection
<1>7. Cardinality(m) <= Cardinality(1 .. Len(c))
  BY <1>2, <1>3, <1>5, FS_Injection
<1> QED BY <1>2, <1>3, <1>6, <1>7, FS_CardinalityType

\* Every pair of another pairing meets a pair of this one, on one side or the other.
LEMMA HalfOfBest ==
    ASSUME NEW q \in Seq(Nat), NEW c \in Seq(Nat), NEW other \in Pairings(q, c)
    PROVE  Cardinality(other) <= 2 * Cardinality(Pairing(q, c))
<1> DEFINE m == Pairing(q, c)
           A == {e \in other : HasPartner(m, e[1])}
           B == {e \in other : IsTaken(m, e[2])}
<1>1. /\ m \in Pairings(q, c)
      /\ \A i \in 1 .. Len(q), j \in 1 .. Len(c) :
            Fuzzy(q[i], c[j]) => HasPartner(m, i) \/ IsTaken(m, j)
  BY PairingFacts
<1> HIDE DEF m
<1>2. /\ IsFiniteSet(m) /\ Cardinality(m) \in Nat
      /\ IsFiniteSet(other) /\ Cardinality(other) \in Nat
  BY <1>1, PairingSize
<1>3. /\ \A e \in other : /\ e[1] \in 1 .. Len(q) /\ e[2] \in 1 .. Len(c)
                          /\ Fuzzy(q[e[1]], c[e[2]])
      /\ \A d, e \in other : d # e => d[1] # e[1] /\ d[2] # e[2]
  BY PairingsAre
<1>4. other = A \cup B
  BY <1>1, <1>3
<1>5. Cardinality(A) <= Cardinality(m)
  <2> DEFINE f == [e \in A |-> CHOOSE d \in m : d[1] = e[1]]
  <2>1. \A e \in A : f[e] \in m /\ f[e][1] = e[1]
    BY DEF HasPartner
  <2>2. \A d, e \in A : d # e => d[1] # e[1]
    BY <1>3
  <2>3. f \in [A -> m]
    BY <2>1
  <2> HIDE DEF f, A
  <2>4. f \in Injection(A, m)
    BY <2>1, <2>2, <2>3 DEF Injection, IsInjective
  <2> QED BY <1>2, <2>4, FS_Injection
<1>6. Cardinality(B) <= Cardinality(m)
  <2> DEFINE f == [e \in B |-> CHOOSE d \in m : d[2] = e[2]]
  <2>1. \A e \in B : f[e] \in m /\ f[e][2] = e[2]
    BY DEF IsTaken
  <2>2. \A d, e \in B : d # e => d[2] # e[2]
    BY <1>3
  <2>3. f \in [B -> m]
    BY <2>1
  <2> HIDE DEF f, B
  <2>4. f \in Injection(B, m)
    BY <2>1, <2>2, <2>3 DEF Injection, IsInjective
  <2> QED BY <1>2, <2>4, FS_Injection
<1>7. A \in SUBSET other /\ B \in SUBSET other
  OBVIOUS
<1> HIDE DEF A, B
<1>8. /\ IsFiniteSet(A) /\ IsFiniteSet(B) /\ IsFiniteSet(A \cap B)
      /\ Cardinality(other) = Cardinality(A) + Cardinality(B) - Cardinality(A \cap B)
  <2>1. IsFiniteSet(A) /\ IsFiniteSet(B)
    BY <1>2, <1>7, FS_Subset
  <2> QED BY <1>4, <2>1, FS_Union, FS_Intersection
<1>9. Cardinality(A) \in Nat /\ Cardinality(B) \in Nat /\ Cardinality(A \cap B) \in Nat
  BY <1>8, FS_CardinalityType
<1> QED BY <1>2, <1>5, <1>6, <1>8, <1>9 DEF m

\* The same numbers in another order are all paired: whoever were left over would have
\* too few equal numbers on the other side.
LEMMA SameNumbers ==
    ASSUME NEW q \in Seq(Nat), NEW c \in Seq(Nat),
           \A v \in Range(q \o c) : Cardinality({i \in DOMAIN q : q[i] = v})
                                    = Cardinality({j \in DOMAIN c : c[j] = v})
    PROVE  Cardinality(Pairing(q, c)) = Len(q)
<1> DEFINE m == Pairing(q, c)
<1>1. PICK equal \in SUBSET m :
          /\ \A e \in equal : q[e[1]] = c[e[2]]
          /\ \A i \in 1 .. Len(q) :
                HasPartner(equal, i) \/ \A j \in 1 .. Len(c) : q[i] = c[j] => IsTaken(equal, j)
  BY PairingFacts
<1>2. m \in Pairings(q, c)
  BY PairingFacts
<1> HIDE DEF m
<1>3. /\ \A e \in m : e[1] \in 1 .. Len(q) /\ e[2] \in 1 .. Len(c)
      /\ \A d, e \in m : d # e => d[1] # e[1] /\ d[2] # e[2]
  BY <1>2, PairingsAre
<1>4. IsFiniteSet(m) /\ Cardinality(m) \in Nat /\ Cardinality(m) <= Len(q)
  BY <1>2, PairingSize
<1>5. ASSUME NEW i \in 1 .. Len(q), ~HasPartner(equal, i) PROVE FALSE
  <2> DEFINE I == {k \in DOMAIN q : q[k] = q[i]}
             J == {k \in DOMAIN c : c[k] = q[i]}
             f == [j \in J |-> (CHOOSE e \in equal : e[2] = j)[1]]
  <2>1. q[i] \in Range(q \o c)
    <3>1. i \in DOMAIN (q \o c) /\ (q \o c)[i] = q[i]
      OBVIOUS
    <3> QED BY <3>1 DEF Range
  <2>2. Cardinality(I) = Cardinality(J)
    BY <2>1
  <2>3. \A j \in J : IsTaken(equal, j)
    BY <1>1, <1>5
  <2>4. ASSUME NEW j \in J
        PROVE  \E e \in equal : e[2] = j /\ f[j] = e[1]
    BY <2>3 DEF IsTaken
  <2>5. ASSUME NEW j \in J PROVE f[j] \in I \ {i}
    <3>1. PICK e \in equal : e[2] = j /\ f[j] = e[1]
      BY <2>4
    <3>2. e[1] \in 1 .. Len(q) /\ q[e[1]] = q[i]
      BY <1>1, <1>3, <3>1
    <3>3. e[1] # i
      BY <1>5 DEF HasPartner
    <3> HIDE DEF f
    <3> QED BY <3>1, <3>2, <3>3
  <2>6. ASSUME NEW j \in J, NEW k \in J, f[j] = f[k] PROVE j = k
    <3>1. PICK d \in equal : d[2] = j /\ f[j] = d[1]
      BY <2>4
    <3>2. PICK e \in equal : e[2] = k /\ f[k] = e[1]
      BY <2>4
    <3> HIDE DEF f
    <3> QED BY <1>3, <2>6, <3>1, <3>2
  <2>7. f \in [J -> I \ {i}]
    BY <2>5
  <2>8. IsFiniteSet(I) /\ IsFiniteSet(J) /\ i \in I
    <3>1. IsFiniteSet(1 .. Len(q)) /\ IsFiniteSet(1 .. Len(c))
      <4>1. Len(q) \in Nat /\ Len(c) \in Nat
        OBVIOUS
      <4> QED BY <4>1, FS_Interval
    <3>2. I \in SUBSET (1 .. Len(q)) /\ J \in SUBSET (1 .. Len(c))
      OBVIOUS
    <3>3. IsFiniteSet(I) /\ IsFiniteSet(J)
      <4> HIDE DEF I, J
      <4> QED BY <3>1, <3>2, FS_Subset
    <3> QED BY <3>3
  <2> HIDE DEF f, I, J
  <2>9. f \in Injection(J, I \ {i})
    BY <2>6, <2>7 DEF Injection, IsInjective
  <2>10. /\ IsFiniteSet(I \ {i}) /\ Cardinality(I \ {i}) = Cardinality(I) - 1
         /\ Cardinality(I) \in Nat
    BY <2>8, FS_RemoveElement, FS_CardinalityType
  <2>11. Cardinality(J) <= Cardinality(I \ {i})
    BY <2>9, <2>10, FS_Injection
  <2> QED BY <2>2, <2>10, <2>11
<1>6. \A i \in 1 .. Len(q) : HasPartner(m, i)
  BY <1>1, <1>5 DEF HasPartner
<1>7. Len(q) <= Cardinality(m)
  <2> DEFINE n == Len(q)
             f == [i \in 1 .. n |-> CHOOSE e \in m : e[1] = i]
  <2>1. \A i \in 1 .. n : f[i] \in m /\ f[i][1] = i
    BY <1>6 DEF HasPartner
  <2>2. f \in [1 .. n -> m]
    BY <2>1
  <2>3. n \in Nat
    OBVIOUS
  <2> HIDE DEF f, n
  <2>4. f \in Injection(1 .. n, m)
    BY <2>1, <2>2 DEF Injection, IsInjective
  <2>5. Cardinality(1 .. n) = n
    BY <2>3, FS_Interval
  <2>6. n <= Cardinality(m)
    BY <1>4, <2>4, <2>5, FS_Injection
  <2> QED BY <2>6 DEF n
<1> QED BY <1>4, <1>7 DEF m

LEMMA NumbersArePaired == ASSUME pair \in Pair PROVE NumbersPaired
<1>1. pair.query \in Seq(Nat) /\ pair.candidate \in Seq(Nat)
  BY DEF Pair
<1>2. Pairing(pair.query, pair.candidate) \in Pairings(pair.query, pair.candidate)
  BY <1>1, PairingFacts
<1> QED BY <1>1, <1>2, HalfOfBest, SameNumbers DEF NumbersPaired

-----------------------------------------------------------------------------
(* The formula.  Every feature is bounded, so an automatic match that were *)
(* not earned would lack more than bonuses can make up for.                *)

\* A share of a whole, in thousandths.
LEMMA Share ==
    ASSUME NEW m \in Nat, NEW d \in Nat \ {0}, m <= d
    PROVE  (1000 * m) \div d \in 0 .. 1000
<1> DEFINE s == (1000 * m) \div d
<1>1. s \in Nat /\ d * s <= 1000 * m
  OBVIOUS
<1>2. s > 1000 => d * s >= d * 1001
  BY <1>1
<1> HIDE DEF s
<1>3. s <= 1000
  BY <1>1, <1>2
<1> QED BY <1>1, <1>3 DEF s

LEMMA PairTypes ==
    ASSUME NEW p \in Pair
    PROVE  /\ p.query \in Seq(Nat) /\ p.candidate \in Seq(Nat)
           /\ p.lexical \in 0 .. 1000 /\ p.semantic \in 0 .. 1000 /\ p.rerank \in 0 .. 1000
           /\ p.brand \in {"neither", "query", "candidate", "equal", "similar", "unlike"}
           /\ p.category \in {"neither", "candidate"} /\ p.alias \in BOOLEAN
           /\ p.unit \in {"neither", "one", "same", "other"}
           /\ p.packaging \in {"unknown", "same", "other"}
BY DEF Pair

LEMMA SignatureRange ==
    ASSUME NEW p \in Pair
    PROVE  /\ NumberSignature(p) \in 0 .. 1000
           /\ CriticalNumberConflict(p) => NumberSignature(p) = 0
<1> DEFINE q == p.query
           c == p.candidate
           m == Pairing(q, c)
<1>1. q \in Seq(Nat) /\ c \in Seq(Nat)
  BY PairTypes
<1> HIDE DEF q, c
<1>2. /\ Cardinality(m) \in Nat /\ Cardinality(m) <= Len(q) /\ Cardinality(m) <= Len(c)
  BY <1>1, PairingFacts, PairingSize
<1>3. NumberSignature(p) = IF q = <<>> \/ c = <<>> THEN 0
                           ELSE (1000 * Cardinality(m)) \div (Len(q) + Len(c) - Cardinality(m))
  BY DEF NumberSignature, q, c
<1>4. CriticalNumberConflict(p) => m = {}
  BY DEF CriticalNumberConflict, q, c
<1>5. Len(q) \in Nat /\ Len(c) \in Nat /\ (q # <<>> => Len(q) > 0) /\ (c # <<>> => Len(c) > 0)
  BY <1>1
<1>6. Cardinality({}) = 0
  BY FS_EmptySet
<1> DEFINE k == Cardinality(m)
           d == Len(q) + Len(c) - k
<1>7. k \in Nat /\ (m = {} => k = 0)
  BY <1>2, <1>6
<1> HIDE DEF m
<1>8. ASSUME q # <<>>, c # <<>> PROVE d \in Nat \ {0} /\ k <= d
  BY <1>2, <1>5, <1>7, <1>8
<1>9. CASE q = <<>> \/ c = <<>>
  BY <1>3, <1>9
<1>10. CASE q # <<>> /\ c # <<>>
  <2>1. NumberSignature(p) = (1000 * k) \div d
    BY <1>3, <1>10
  <2>2. d \in Nat \ {0} /\ k <= d
    BY <1>8, <1>10
  <2> HIDE DEF k, d
  <2>3. (1000 * k) \div d \in 0 .. 1000
    BY <1>7, <2>2, Share
  <2>4. k = 0 => (1000 * k) \div d = 0
    BY <2>2
  <2> QED BY <1>4, <1>7, <2>1, <2>3, <2>4
<1> QED BY <1>9, <1>10

LEMMA RangeFinite ==
    ASSUME NEW s \in Seq(Nat)
    PROVE  IsFiniteSet(Range(s))
<1> DEFINE n == Len(s)
<1>1. n \in Nat /\ DOMAIN s = 1 .. n
  OBVIOUS
<1>2. IsFiniteSet(1 .. n)
  BY <1>1, FS_Interval
<1> HIDE DEF n
<1>3. s \in Surjection(1 .. n, Range(s))
  BY <1>1 DEF Surjection, Range
<1> QED BY <1>2, <1>3, FS_Surjection

LEMMA OverlapRange ==
    ASSUME NEW p \in Pair
    PROVE  AttributeOverlap(p) \in 0 .. 1000
<1> DEFINE qs == Range(p.query)
           cs == Range(p.candidate)
           jaccard == IF qs = {} \/ cs = {} THEN 0
                      ELSE (1000 * Cardinality(qs \cap cs)) \div Cardinality(qs \cup cs)
           n == 1 + (IF p.brand = "neither" THEN 0 ELSE 1) + (IF p.unit = "neither" THEN 0 ELSE 1)
           matches == jaccard + (IF p.brand = "equal" THEN 1000 ELSE 0)
                              + (IF p.unit = "same" THEN 1000 ELSE 0)
<1>1. IsFiniteSet(qs) /\ IsFiniteSet(cs)
  BY PairTypes, RangeFinite
<1>2. jaccard \in 0 .. 1000
  <2> HIDE DEF qs, cs
  <2>1. CASE qs = {} \/ cs = {}
    BY <2>1
  <2>2. CASE qs # {} /\ cs # {}
    <3> DEFINE a == Cardinality(qs \cap cs)
               b == Cardinality(qs \cup cs)
    <3>1. IsFiniteSet(qs \cup cs) /\ qs \cap cs \in SUBSET (qs \cup cs)
      BY <1>1, FS_Union
    <3>2. IsFiniteSet(qs \cap cs) /\ a <= b
      BY <3>1, FS_Subset
    <3>3. a \in Nat /\ b \in Nat /\ b # 0
      BY <2>2, <3>1, <3>2, FS_CardinalityType, FS_EmptySet
    <3>4. jaccard = (1000 * a) \div b
      BY <2>2
    <3> HIDE DEF a, b, jaccard
    <3> QED BY <3>2, <3>3, <3>4, Share
  <2> QED BY <2>1, <2>2
<1>3. AttributeOverlap(p) = matches \div n
  BY DEF AttributeOverlap
<1> HIDE DEF jaccard
<1>4. n \in {1, 2, 3} /\ matches \in Nat /\ matches <= 1000 * n
  BY <1>2
<1> HIDE DEF n, matches
<1>5. matches \div n \in 0 .. 1000
  <2>1. CASE n = 1
    BY <1>4, <2>1
  <2>2. CASE n = 2
    BY <1>4, <2>2
  <2>3. CASE n = 3
    BY <1>4, <2>3
  <2> QED BY <1>4, <2>1, <2>2, <2>3
<1> QED BY <1>3, <1>5

LEMMA TwoNumbers ==
    ASSUME NEW a \in Int, NEW b \in Int
    PROVE  /\ Max({a, b}) \in {a, b} /\ Max({a, b}) >= a /\ Max({a, b}) >= b
           /\ Min({a, b}) \in {a, b} /\ Min({a, b}) <= a /\ Min({a, b}) <= b
<1>1. \E x \in {a, b} : \A y \in {a, b} : x >= y
  OBVIOUS
<1>2. \E x \in {a, b} : \A y \in {a, b} : x <= y
  OBVIOUS
<1>3. Max({a, b}) \in {a, b} /\ \A y \in {a, b} : Max({a, b}) >= y
  BY <1>1, Zenon DEF Max
<1>4. Min({a, b}) \in {a, b} /\ \A y \in {a, b} : Min({a, b}) <= y
  BY <1>2, Zenon DEF Min
<1> QED BY <1>3, <1>4

\* A number brought between zero and k.
LEMMA Clamped ==
    ASSUME NEW k \in Nat, NEW x \in Int
    PROVE  /\ Min({k, Max({0, x})}) \in 0 .. k
           /\ Min({k, Max({0, x})}) <= x \/ Min({k, Max({0, x})}) = 0
<1> DEFINE top == Max({0, x})
<1>1. top \in {0, x} /\ top >= 0 /\ top >= x
  BY TwoNumbers
<1> HIDE DEF top
<1>2. Min({k, top}) \in {k, top} /\ Min({k, top}) <= k /\ Min({k, top}) <= top
  BY <1>1, TwoNumbers
<1> QED BY <1>1, <1>2 DEF top

\* The scale of the scores.
Highest == 100000
Scale == 0 .. Highest

\* The sum of the features, in thousandths of a hundredth.
Weighed(p) ==
    8 * (IF p.brand = "equal" THEN 1000 ELSE 0) + 4 * BrandFuzzy(p)
    + 12 * p.lexical + 18 * p.semantic + 26 * p.rerank
    + 14 * NumberSignature(p) + 3 * Alike(p.packaging) + 2 * Alike(p.unit)
    + 3 * AttributeOverlap(p) + (IF p.alias THEN 1000 ELSE 0)

\* What is left of the formula without the parts that a claim is about.
Unranked(p) == 12 * p.lexical + 18 * p.semantic + 14 * NumberSignature(p)
           + 3 * Alike(p.packaging) + 2 * Alike(p.unit) + 3 * AttributeOverlap(p)
           + (IF p.alias THEN 1000 ELSE 0)

LEMMA SumParts ==
    ASSUME NEW p \in Pair
    PROVE  /\ Weighed(p) = 26 * p.rerank + Unranked(p)
                       + (CASE p.brand = "equal" -> 12000 [] p.brand = "similar" -> 3996
                            [] p.brand = "unlike" -> 1596 [] OTHER -> 0)
           /\ Weighed(p) \in Nat /\ p.rerank \in 0 .. 1000
           /\ Unranked(p) \in Nat /\ Unranked(p) <= 53000
           /\ NumberSignature(p) = 0 => Unranked(p) <= 39000
<1>1. /\ NumberSignature(p) \in 0 .. 1000 /\ AttributeOverlap(p) \in 0 .. 1000
      /\ p.lexical \in 0 .. 1000 /\ p.semantic \in 0 .. 1000 /\ p.rerank \in 0 .. 1000
  BY SignatureRange, OverlapRange, PairTypes
<1>2. Alike(p.packaging) \in 0 .. 1000 /\ Alike(p.unit) \in 0 .. 1000
  BY DEF Alike
<1>3. 8 * (IF p.brand = "equal" THEN 1000 ELSE 0) + 4 * BrandFuzzy(p)
      = CASE p.brand = "equal" -> 12000 [] p.brand = "similar" -> 3996
          [] p.brand = "unlike" -> 1596 [] OTHER -> 0
  BY PairTypes DEF BrandFuzzy
<1> DEFINE a == IF p.alias THEN 1000 ELSE 0
           b == CASE p.brand = "equal" -> 12000 [] p.brand = "similar" -> 3996
                  [] p.brand = "unlike" -> 1596 [] OTHER -> 0
           e == IF p.brand = "equal" THEN 1000 ELSE 0
<1>4. a \in 0 .. 1000 /\ b \in Nat /\ e \in Nat /\ BrandFuzzy(p) \in Nat
  BY PairTypes DEF BrandFuzzy
<1> DEFINE f == BrandFuzzy(p)
           l == p.lexical
           s == p.semantic
           r == p.rerank
           n == NumberSignature(p)
           k == Alike(p.packaging)
           u == Alike(p.unit)
           o == AttributeOverlap(p)
<1>5. /\ Weighed(p) = 8 * e + 4 * f + 12 * l + 18 * s + 26 * r + 14 * n + 3 * k + 2 * u + 3 * o + a
      /\ Unranked(p) = 12 * l + 18 * s + 14 * n + 3 * k + 2 * u + 3 * o + a
      /\ 8 * e + 4 * f = b
  BY <1>3 DEF Weighed, Unranked
<1>6. /\ Weighed(p) = 26 * r + Unranked(p) + b /\ Weighed(p) \in Nat
      /\ Unranked(p) \in Nat /\ Unranked(p) <= 53000
      /\ n = 0 => Unranked(p) <= 39000
  <2>1. /\ l \in 0 .. 1000 /\ s \in 0 .. 1000 /\ r \in 0 .. 1000 /\ n \in 0 .. 1000
        /\ k \in 0 .. 1000 /\ u \in 0 .. 1000 /\ o \in 0 .. 1000 /\ a \in 0 .. 1000
        /\ b \in Nat /\ e \in Nat /\ f \in Nat
    BY <1>1, <1>2, <1>4
  <2> HIDE DEF a, b, e, f, l, s, r, n, k, u, o
  <2> QED BY <1>5, <2>1
<1> QED BY <1>1, <1>6 DEF b

LEMMA Quotients ==
    ASSUME NEW x \in Nat, NEW d \in Nat \ {0}
    PROVE  x \div d \in Nat /\ d * (x \div d) <= x
OBVIOUS

\* An automatic match has 93 points, before it is cut to the scale.
LEMMA Points ==
    ASSUME NEW p \in Pair, FinalScore(p) >= 93000
    PROVE  /\ BaseScore(p) + Bonus(p) - Penalty(p) >= 93000
           /\ BaseScore(p) \in Nat /\ LiveWeight(p) * BaseScore(p) <= 100 * Weighed(p)
           /\ LiveWeight(p) = 100 - (IF p.brand = "neither" THEN 12 ELSE 0)
                                  - (IF p.category = "neither" THEN 9 ELSE 0)
           /\ Bonus(p) \in Nat /\ Bonus(p) <= 5000
           /\ p.brand # "equal" => Bonus(p) <= 2000
           /\ Penalty(p) \in Nat /\ (CriticalNumberConflict(p) => Penalty(p) >= 8000)
           /\ p.brand = "unlike" => Penalty(p) >= 8000
<1>1. LiveWeight(p) = 100 - (IF p.brand = "neither" THEN 12 ELSE 0)
                          - (IF p.category = "neither" THEN 9 ELSE 0)
      /\ LiveWeight(p) \in Nat \ {0}
  BY DEF LiveWeight
<1>2. BaseScore(p) = (100 * Weighed(p)) \div LiveWeight(p)
  BY DEF BaseScore, Weighed
<1>3. 100 * Weighed(p) \in Nat
  BY SumParts
<1>4. BaseScore(p) \in Nat /\ LiveWeight(p) * BaseScore(p) <= 100 * Weighed(p)
  <2> DEFINE x == 100 * Weighed(p)
             d == LiveWeight(p)
  <2> HIDE DEF x, d
  <2>1. x \in Nat /\ d \in Nat \ {0} /\ BaseScore(p) = x \div d
    BY <1>1, <1>2, <1>3 DEF x, d
  <2>2. BaseScore(p) \in Nat /\ d * BaseScore(p) <= x
    BY <2>1, Quotients
  <2> QED BY <2>2 DEF x, d
<1>5. Bonus(p) \in Nat /\ Bonus(p) <= 5000 /\ (p.brand # "equal" => Bonus(p) <= 2000)
  <2> DEFINE a == IF p.brand = "equal" /\ NumberSignature(p) >= 900 THEN 3000 ELSE 0
             b == IF p.alias THEN 2000 ELSE 0
  <2>1. /\ a \in {0, 3000} /\ b \in {0, 2000}
        /\ p.brand # "equal" => a = 0
    OBVIOUS
  <2>2. Bonus(p) = a + b
    BY DEF Bonus
  <2> HIDE DEF a, b
  <2> QED BY <2>1, <2>2
<1>6. /\ Penalty(p) \in Nat /\ (CriticalNumberConflict(p) => Penalty(p) >= 8000)
      /\ p.brand = "unlike" => Penalty(p) >= 8000
  BY DEF Penalty
<1> DEFINE raw == BaseScore(p) + Bonus(p) - Penalty(p)
<1>7. raw \in Int
  <2> DEFINE x == BaseScore(p)
             y == Bonus(p)
             z == Penalty(p)
  <2>1. x \in Nat
    BY <1>4
  <2>2. y \in Nat
    BY <1>5
  <2>3. z \in Nat
    BY <1>6
  <2> HIDE DEF x, y, z
  <2>4. x + y - z \in Int
    BY <2>1, <2>2, <2>3
  <2> QED BY <2>4 DEF x, y, z
<1>8. raw >= 93000
  <2>1. FinalScore(p) = Min({Highest, Max({0, raw})}) /\ Highest \in Nat
    BY DEF FinalScore, Highest
  <2> HIDE DEF raw
  <2>2. /\ FinalScore(p) \in 0 .. Highest
        /\ FinalScore(p) <= raw \/ FinalScore(p) = 0
    BY <1>7, <2>1, Clamped
  <2> QED BY <1>7, <2>1, <2>2
<1> QED BY <1>1, <1>4, <1>5, <1>6, <1>8

LEMMA Earned ==
    ASSUME NEW p \in Pair, FinalScore(p) >= 93000, ~AutoMatchForbidden(p)
    PROVE  /\ ~CriticalNumberConflict(p)
           /\ p.rerank > 100
           /\ \/ p.brand \in {"equal", "similar"}
              \/ p.brand = "neither" /\ p.category = "neither"
<1> DEFINE base == BaseScore(p)
           bonus == Bonus(p)
           penalty == Penalty(p)
           live == LiveWeight(p)
           sum == Weighed(p)
           r == p.rerank
           others == Unranked(p)
           brand == CASE p.brand = "equal" -> 12000 [] p.brand = "similar" -> 3996
                      [] p.brand = "unlike" -> 1596 [] OTHER -> 0
<1>1. /\ base + bonus - penalty >= 93000 /\ base \in Nat /\ live * base <= 100 * sum
      /\ bonus \in Nat /\ bonus <= 5000 /\ penalty \in Nat
  BY Points
<1>2. /\ sum = 26 * r + others + brand /\ sum \in Nat /\ r \in 0 .. 1000
      /\ others \in Nat /\ others <= 53000
  BY SumParts
<1>3. /\ p.brand # "equal" => bonus <= 2000
      /\ CriticalNumberConflict(p) => penalty >= 8000
      /\ p.brand = "unlike" => penalty >= 8000
      /\ live = 100 - (IF p.brand = "neither" THEN 12 ELSE 0)
                     - (IF p.category = "neither" THEN 9 ELSE 0)
  BY Points
<1>4. CriticalNumberConflict(p) => others <= 39000
  <2>1. NumberSignature(p) = 0 => others <= 39000
    <3> HIDE DEF brand
    <3> QED BY SumParts
  <2>2. CriticalNumberConflict(p) => NumberSignature(p) = 0
    BY SignatureRange
  <2> HIDE DEF others
  <2> QED BY <2>1, <2>2
<1>5. p.brand \in {"neither", "query", "candidate", "equal", "similar", "unlike"}
  BY PairTypes
<1>6. /\ brand \in Nat /\ brand <= 12000
      /\ p.brand # "equal" => brand <= 3996
      /\ p.brand \notin {"equal", "similar"} => brand <= 1596
      /\ p.brand \in {"neither", "query", "candidate"} => brand = 0
  BY <1>5
<1> HIDE DEF base, bonus, penalty, live, sum, r, others, brand
\* The score by the brand.
<1>7. /\ p.brand = "neither" => live \in {79, 88}
      /\ p.brand # "neither" => live \in {91, 100}
      /\ p.brand = "neither" /\ p.category # "neither" => live = 88
  BY <1>3
<1>8. /\ live = 79 => 79 * base <= 100 * sum
      /\ live = 88 => 88 * base <= 100 * sum
      /\ live = 91 => 91 * base <= 100 * sum
      /\ live = 100 => 100 * base <= 100 * sum
  BY <1>1
<1>9. ~CriticalNumberConflict(p)
  <2> SUFFICES ASSUME CriticalNumberConflict(p) PROVE FALSE
    OBVIOUS
  <2>1. p.brand \in {"neither", "query"}
    BY DEF AutoMatchForbidden, HasIdentifiers
  <2>2. brand = 0 /\ bonus <= 2000 /\ penalty >= 8000 /\ others <= 39000
    BY <1>3, <1>4, <1>6, <2>1
  <2>3. live \in {79, 88, 91, 100}
    BY <1>7
  <2> QED BY <1>1, <1>2, <1>8, <2>2, <2>3
<1>10. r > 100
  <2> SUFFICES ASSUME r <= 100 PROVE FALSE
    BY <1>2
  <2>1. CASE p.brand = "neither"
    <3>1. live \in {79, 88} /\ brand = 0 /\ bonus <= 2000
      BY <1>3, <1>6, <1>7, <2>1
    <3> QED BY <1>1, <1>2, <1>8, <3>1
  <2>2. CASE p.brand # "neither"
    <3>1. live \in {91, 100} /\ brand <= 12000
      BY <1>6, <1>7, <2>2
    <3> QED BY <1>1, <1>2, <1>6, <1>8, <3>1
  <2> QED BY <2>1, <2>2
<1>11. p.brand \in {"equal", "similar"} \/ (p.brand = "neither" /\ p.category = "neither")
  <2>1. CASE p.brand \in {"query", "candidate"}
    <3>1. live \in {91, 100} /\ brand = 0 /\ bonus <= 2000
      BY <1>3, <1>6, <1>7, <2>1
    <3> QED BY <1>1, <1>2, <1>8, <3>1
  <2>2. CASE p.brand = "unlike"
    <3>1. live \in {91, 100} /\ brand <= 1596 /\ bonus <= 2000 /\ penalty >= 8000
      BY <1>3, <1>6, <1>7, <2>2
    <3> QED BY <1>1, <1>2, <1>6, <1>8, <3>1
  <2>3. CASE p.brand = "neither" /\ p.category # "neither"
    <3>1. live = 88 /\ brand = 0 /\ bonus <= 2000
      BY <1>3, <1>6, <1>7, <2>3
    <3> QED BY <1>1, <1>2, <1>8, <3>1
  <2> QED BY <1>5, <2>1, <2>2, <2>3
<1> QED BY <1>9, <1>10, <1>11 DEF r

-----------------------------------------------------------------------------
LEMMA ScoreRange ==
    ASSUME NEW p \in Pair
    PROVE  FinalScore(p) \in Scale
<1> DEFINE raw == BaseScore(p) + Bonus(p) - Penalty(p)
<1>1. LiveWeight(p) \in Nat \ {0}
  BY DEF LiveWeight
<1>2. BaseScore(p) \in Nat
  <2> DEFINE x == 100 * Weighed(p)
             d == LiveWeight(p)
  <2>1. x \in Nat
    BY SumParts
  <2>2. BaseScore(p) = x \div d
    BY DEF BaseScore, Weighed
  <2> HIDE DEF x, d
  <2> QED BY <1>1, <2>1, <2>2, Quotients DEF d
<1>3. Bonus(p) \in Nat
  BY DEF Bonus
<1>4. Penalty(p) \in Nat
  BY DEF Penalty
<1>5. raw \in Int
  <2> DEFINE x == BaseScore(p)
             y == Bonus(p)
             z == Penalty(p)
  <2>1. x \in Nat
    BY <1>2
  <2>2. y \in Nat
    BY <1>3
  <2>3. z \in Nat
    BY <1>4
  <2> HIDE DEF x, y, z
  <2>4. x + y - z \in Int
    BY <2>1, <2>2, <2>3
  <2> QED BY <2>4 DEF x, y, z
<1>6. FinalScore(p) = Min({Highest, Max({0, raw})}) /\ Highest \in Nat
  BY DEF FinalScore, Highest
<1> HIDE DEF raw
<1> QED BY <1>5, <1>6, Clamped DEF Scale

\* What a verdict may be.
Verdict == [score : Scale, status : {"auto_match", "review_needed", "no_match"}]

LEMMA TypeIs ==
    ScoringTypeOK <=> pair \in Pairs /\ (verdict = NoVerdict \/ verdict \in Verdict)
BY DEF ScoringTypeOK, Verdict, Scale, Highest

LEMMA TypeBecomes ==
    ScoringTypeOK' <=> pair' \in Pairs /\ (verdict' = NoVerdict \/ verdict' \in Verdict)
<1>1. ScoringTypeOK' <=> (pair \in Pairs /\ (verdict = NoVerdict \/ verdict \in Verdict))'
  BY TypeIs, PTL
<1> QED BY <1>1

LEMMA PairScored == ASSUME pair \in Pairs PROVE pair \in Pair
BY ScoringAssumption

LEMMA ScoringStart == ScoringInit => ScoringTypeOK /\ AutoMatchIsEarned
<1> SUFFICES ASSUME ScoringInit PROVE ScoringTypeOK /\ AutoMatchIsEarned
  OBVIOUS
<1>1. pair \in Pairs /\ verdict = NoVerdict
  BY DEF ScoringInit
<1>2. NumbersPaired
  BY <1>1, PairScored, NumbersArePaired
<1> QED BY <1>1, <1>2 DEF ScoringTypeOK, AutoMatchIsEarned, NoVerdict

LEMMA ScoringStep ==
    ASSUME ScoringTypeOK, AutoMatchIsEarned, [ScoreCandidate]_scoringVars
    PROVE  ScoringTypeOK' /\ AutoMatchIsEarned'
<1>1. CASE ScoreCandidate
  <2>1. pair \in Pair /\ pair' = pair /\ pair \in Pairs
    BY <1>1, PairScored DEF ScoringTypeOK, ScoreCandidate
  <2>2. verdict' = [score |-> FinalScore(pair), status |-> StatusOf(pair)]
    BY <1>1 DEF ScoreCandidate
  <2>3. FinalScore(pair) \in Scale
    BY <2>1, ScoreRange
  <2>4. StatusOf(pair) \in {"auto_match", "review_needed", "no_match"}
    BY DEF StatusOf
  <2>5. ScoringTypeOK'
    <3>1. verdict' \in Verdict
      BY <2>2, <2>3, <2>4 DEF Verdict
    <3> QED BY <2>1, <3>1, TypeBecomes
  <2>6. NumbersPaired'
    BY <2>1, NumbersArePaired DEF NumbersPaired
  <2>7. ASSUME StatusOf(pair) = "auto_match"
        PROVE  FinalScore(pair) >= 93000 /\ ~AutoMatchForbidden(pair)
    BY <2>7 DEF StatusOf
  <2>8. AutoMatchIsEarned'
    <3>1. verdict'.status = StatusOf(pair)
      BY <2>2
    <3>2. StatusOf(pair) = "auto_match" =>
              /\ ~CriticalNumberConflict(pair)
              /\ pair.rerank > 100
              /\ \/ pair.brand \in {"equal", "similar"}
                 \/ pair.brand = "neither" /\ pair.category = "neither"
      BY <2>1, <2>7, Earned
    <3> QED BY <2>1, <2>6, <3>1, <3>2 DEF AutoMatchIsEarned
  <2> QED BY <2>5, <2>8
<1>2. CASE UNCHANGED scoringVars
  <2>1. pair' = pair /\ verdict' = verdict
    BY <1>2 DEF scoringVars
  <2>2. NumbersPaired'
    BY <2>1 DEF AutoMatchIsEarned, NumbersPaired
  <2>3. ScoringTypeOK'
    BY <2>1, TypeIs, TypeBecomes
  <2> QED BY <2>1, <2>2, <2>3 DEF AutoMatchIsEarned
<1> QED BY <1>1, <1>2

ScoringInv == ScoringTypeOK /\ AutoMatchIsEarned

LEMMA ScoringInvariant == ScoringSpec => []ScoringInv
<1>1. ScoringInit => ScoringInv
  BY ScoringStart DEF ScoringInv
<1>2. ScoringInv /\ [ScoreCandidate]_scoringVars => ScoringInv'
  BY ScoringStep DEF ScoringInv
<1> QED BY <1>1, <1>2, PTL DEF ScoringSpec

\* Whatever a query and a candidate are, a match is automatic only if it is earned, and
\* the pairing of their numbers is one, at least half of the best, and whole if the
\* numbers are the same (compute_pair_features, score_candidate, decide).
THEOREM AutoMatchIsEarnedCorrect == ScoringSpec => []AutoMatchIsEarned
<1>1. ScoringInv => AutoMatchIsEarned
  BY DEF ScoringInv
<1> QED BY <1>1, ScoringInvariant, PTL

\* Every score is within the scale (score_candidate).
THEOREM ScoringTypeCorrect == ScoringSpec => []ScoringTypeOK
<1>1. ScoringInv => ScoringTypeOK
  BY DEF ScoringInv
<1> QED BY <1>1, ScoringInvariant, PTL
=============================================================================
