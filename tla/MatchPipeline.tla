--------------------------- MODULE MatchPipeline ----------------------------
(***************************************************************************)
(* match_single (pipeline/orchestrator.py) for the items that one process  *)
(* matches at the same time, with what these items share there: the cached *)
(* product count and catalog.  The circuit of the reranker (CircuitBreaker) *)
(* may be open or closed whenever an item asks.                            *)
(*                                                                         *)
(* A step runs from one await on shared state or on a provider to the      *)
(* next; normalisation, the supplier profile and the embedding read        *)
(* nothing that changes here and belong to the step that follows; what the *)
(* database may raise is Raise of BatchProcess, as is the error row.  A score *)
(* is known by the threshold it reaches, a text not at all: what a search, *)
(* a reranker or a model answers is any answer it may give.                *)
(***************************************************************************)
EXTENDS MatchOutcomes

CONSTANTS
    Lines,        \* the items that are matched
    Goods,        \* product ids
    Stocks,       \* what the catalog may hold when the matching begins
    Stray,        \* an id that no product has and a model may still name
    Small,        \* small_catalog_threshold
    AgentLoops,   \* max_loops of resolve_agentically
    Setups,       \* [bulk, llm, agent, rerank, smart : BOOLEAN]: the settings, whether
                  \* the items are a batch, and whether imports are smart uploads
    MaxChanges,   \* bound: imports and deletions during the matching
    Nothing

ASSUME PipelineAssumption ==
    /\ IsFiniteSet(Lines) /\ IsFiniteSet(Goods) /\ Stocks \subseteq SUBSET Goods
    /\ Stray \notin Goods /\ Nothing \notin Goods \cup {Stray}
    /\ Small \in Nat /\ AgentLoops \in Nat \ {0} /\ MaxChanges \in Nat
    /\ Setups \subseteq [bulk : BOOLEAN, llm : BOOLEAN, agent : BOOLEAN,
                    rerank : BOOLEAN, smart : BOOLEAN]

VARIABLES
    setup,       \* the settings and the kind of the run
    catalog,     \* catalog_products
    count,       \* search._catalog_count of this process
    cached,      \* llm_matcher._cached_catalog of this process
    answered,    \* pre_llm_results: the items that the bulk call has answered
    stage,       \* where each item is
    sees,        \* the products that this stage of the item works on
    result,      \* its MatchItemResult
    loops,       \* the loop_count of its agent
    gone,        \* history: the products that were deleted
    uploaded,    \* history: the products that smart uploads of this process imported
    changes

pipelineVars == <<setup, catalog, count, cached, answered, stage, sees, result, loops,
                  gone, uploaded, changes>>
cacheVars == <<count, cached, answered>>
worldVars == <<setup, catalog, gone, uploaded, changes>>

Stages == {"bulk", "start", "model", "whole", "hybrid", "ask", "ask_hybrid", "search",
           "found", "rerank", "score", "agent", "save", "saved", "error"}

\* Who decided, and the product whose name, article and brand go with the best id.
\* `forbidden` is auto_match_forbidden of the candidate that scoring put first.
Result == [status : Outcomes, best : Goods \cup {Stray, Nothing},
           label : Goods \cup {Nothing}, alternatives : SUBSET (Goods \cup {Stray}),
           forbidden : BOOLEAN, by : {"nobody", "override", "model", "scoring", "agent"}]

NoResult == [status |-> "no_match", best |-> Nothing, label |-> Nothing,
             alternatives |-> {}, forbidden |-> FALSE, by |-> "nobody"]

PipelineTypeOK ==
    /\ setup \in Setups
    /\ catalog \subseteq Goods /\ gone \subseteq Goods /\ uploaded \subseteq Goods
    /\ count \in Nat \cup {Nothing}
    /\ cached \in (SUBSET Goods) \cup {Nothing}
    /\ answered \in [Lines -> BOOLEAN]
    /\ stage \in [Lines -> Stages]
    /\ sees \in [Lines -> SUBSET Goods]
    /\ result \in [Lines -> Result]
    /\ loops \in [Lines -> 0 .. AgentLoops - 1]
    /\ changes \in 0 .. MaxChanges

PipelineInit ==
    /\ setup \in Setups
    /\ catalog \in Stocks
    /\ count = Nothing /\ cached = Nothing
    /\ answered = [i \in Lines |-> FALSE]
    /\ stage = [i \in Lines |-> IF setup.bulk /\ setup.llm THEN "bulk" ELSE "start"]
    /\ sees = [i \in Lines |-> {}]
    /\ result = [i \in Lines |-> NoResult]
    /\ loops = [i \in Lines |-> 0]
    /\ gone = {} /\ uploaded = {}
    /\ changes = 0

-----------------------------------------------------------------------------
\* The steps of an item.

At(i, here) == stage[i] = here

\* The item goes on to another stage, with these products.
Go(i, there, products) ==
    /\ stage' = [stage EXCEPT ![i] = there]
    /\ sees' = [sees EXCEPT ![i] = products]

\* get_catalog_count and get_cached_catalog: read once, and kept.
Count == IF count = Nothing THEN Cardinality(catalog) ELSE count
Whole == IF cached = Nothing THEN catalog ELSE cached

\* The loop_count of an agent goes with it.
AgentEnds(i) == loops' = [loops EXCEPT ![i] = 0]

\* What hybrid_search may return: a small catalog is ranked whole, a large one is
\* filtered by the query and then once more by the relaxed search.
Found == IF Count <= Small THEN {catalog} ELSE SUBSET catalog

\* decide: a level is the number of thresholds that the score reaches.
Levels == 0 .. 2

Decide(level, forbidden) ==
    IF level = 2 /\ ~forbidden THEN "auto_match"
    ELSE IF level >= 1 THEN "review_needed" ELSE "no_match"

\* Phase 2.5 of _process_batch: one call for all items, shown the whole catalog.  A
\* batch that fails, or an answer that cannot be read, leaves items unanswered.
AskForAll ==
    /\ \A i \in Lines : At(i, "bulk")
    /\ cached' = Whole
    /\ answered' \in [Lines -> BOOLEAN]
    /\ stage' = [i \in Lines |-> "start"]
    /\ UNCHANGED <<worldVars, count, sees, result, loops>>

\* The supplier's mapping decides alone if it is exact or approved.  A mapping is
\* deleted with its product, so it names a product of the catalog.
Override(i) ==
    /\ At(i, "start")
    /\ \E p \in catalog :
          result' = [result EXCEPT ![i] = [NoResult EXCEPT
                        !.status = "auto_match", !.best = p, !.by = "override"]]
    /\ Go(i, "save", {})
    /\ UNCHANGED <<worldVars, cacheVars, loops>>

NoOverride(i) ==
    /\ At(i, "start")
    /\ Go(i, IF setup.llm THEN "model" ELSE "search", sees[i])
    /\ UNCHANGED <<worldVars, cacheVars, result, loops>>

\* The catalog that the model will be shown depends on the product count.
CountCatalog(i) ==
    /\ At(i, "model") /\ ~answered[i]
    /\ count' = Count
    /\ Go(i, IF Count <= Small THEN "whole" ELSE "hybrid", sees[i])
    /\ UNCHANGED <<worldVars, cached, answered, result, loops>>

ShowWhole(i) ==
    /\ At(i, "whole")
    /\ cached' = Whole
    /\ Go(i, "ask", Whole)
    /\ UNCHANGED <<worldVars, count, answered, result, loops>>

ShowFound(i) ==
    /\ At(i, "hybrid")
    /\ \E found \in Found : Go(i, "ask_hybrid", found)
    /\ UNCHANGED <<worldVars, cacheVars, result, loops>>

\* What becomes of the model's answer: its product counts only if it was shown, its
\* confidence counts either way, and its alternatives are stored as it names them.
FromModel(i, shown) ==
    \E level \in Levels, best \in shown \cup {Nothing},
       alternatives \in {{}, {Stray}} \cup {{p} : p \in shown} :
        result' = [result EXCEPT ![i] =
            [status |-> Decide(level, FALSE), best |-> best, label |-> best,
             alternatives |-> alternatives, forbidden |-> FALSE, by |-> "model"]]

\* Plausible bug: the product of an answer is taken without a look at what was shown.
FromModelUnchecked(i, shown) ==
    \E level \in Levels, best \in shown \cup {Stray, Nothing} :
        result' = [result EXCEPT ![i] =
            [status |-> Decide(level, FALSE), best |-> best, label |-> Nothing,
             alternatives |-> {}, forbidden |-> FALSE, by |-> "model"]]

\* A bulk answer is looked up in the cached catalog.
TakeAnswer(i) ==
    /\ At(i, "model") /\ answered[i]
    /\ cached' = Whole
    /\ FromModel(i, Whole)
    /\ Go(i, "save", {})
    /\ UNCHANGED <<worldVars, count, answered, loops>>

ModelAnswers(i) ==
    /\ At(i, "ask") \/ At(i, "ask_hybrid")
    /\ FromModel(i, sees[i])
    /\ Go(i, "save", {})
    /\ UNCHANGED <<worldVars, cacheVars, loops>>

\* A failed call or text that is not JSON: on with the usual pipeline, which takes
\* over the candidates if the model was shown those of a search.
ModelFails(i) ==
    /\ \/ At(i, "ask") /\ Go(i, "search", {})
       \/ At(i, "ask_hybrid") /\ Go(i, "found", sees[i])
    /\ UNCHANGED <<worldVars, cacheVars, result, loops>>

\* JSON of another shape (a list, a confidence or an id of another type) raises out of
\* llm_match or of the lookup that follows it, and arguments of a tool that are not an
\* object raise out of the agent.
Malformed(i) ==
    /\ \/ At(i, "ask") \/ At(i, "ask_hybrid") \/ At(i, "agent")
       \/ At(i, "model") /\ answered[i]
    /\ Go(i, "error", {})
    /\ result' = [result EXCEPT ![i].by = IF At(i, "agent") THEN "agent" ELSE "model"]
    /\ AgentEnds(i)
    /\ UNCHANGED <<worldVars, cacheVars>>

Search(i) ==
    /\ At(i, "search")
    /\ count' = Count
    /\ \E found \in Found : Go(i, "found", found)
    /\ UNCHANGED <<worldVars, cached, answered, result, loops>>

\* Without a candidate: the agent as a last resort, or no match.
NothingFound(i) ==
    /\ At(i, "found") /\ sees[i] = {}
    /\ Go(i, IF setup.agent THEN "agent" ELSE "save", sees[i])
    /\ UNCHANGED <<worldVars, cacheVars, result, loops>>

\* A reranker that is off or unknown, or whose circuit is open, is skipped: the
\* candidates keep the order of the search.
SkipRerank(i) ==
    /\ At(i, "found") /\ sees[i] # {}
    /\ Go(i, "score", sees[i])
    /\ UNCHANGED <<worldVars, cacheVars, result, loops>>

CallRerank(i) ==
    /\ At(i, "found") /\ sees[i] # {}
    /\ setup.rerank
    /\ Go(i, "rerank", sees[i])
    /\ UNCHANGED <<worldVars, cacheVars, result, loops>>

\* An answer may leave candidates out, all of them too.
RerankAnswers(i) ==
    /\ At(i, "rerank")
    /\ \E ranked \in SUBSET sees[i] : Go(i, "score", ranked)
    /\ UNCHANGED <<worldVars, cacheVars, result, loops>>

\* Plausible bug: the failure of a reranker fails the item.
RerankFailsItem(i) ==
    /\ At(i, "rerank")
    /\ Go(i, "error", {})
    /\ UNCHANGED <<worldVars, cacheVars, result, loops>>

RerankFails(i) ==
    /\ At(i, "rerank")
    /\ Go(i, "score", sees[i])
    /\ UNCHANGED <<worldVars, cacheVars, result, loops>>

\* The candidate with the highest final score decides, also if its automatic match is
\* forbidden and that of the next one is not.
Score(i) ==
    /\ At(i, "score") /\ sees[i] # {}
    /\ \E best \in sees[i], level \in Levels, forbidden \in BOOLEAN :
          LET status == Decide(level, forbidden)
          IN  /\ result' = [result EXCEPT ![i] =
                    [status |-> status, best |-> best, label |-> best,
                     alternatives |-> sees[i], forbidden |-> forbidden, by |-> "scoring"]]
              /\ IF status # "auto_match" /\ setup.agent
                 THEN Go(i, "agent", sees[i]) ELSE Go(i, "save", {})
    /\ UNCHANGED <<worldVars, cacheVars, loops>>

\* scored_candidates[0] of an empty list.
ScoreNothing(i) ==
    /\ At(i, "score") /\ sees[i] = {}
    /\ Go(i, "error", {})
    /\ result' = [result EXCEPT ![i].by = "scoring"]
    /\ UNCHANGED <<worldVars, cacheVars, loops>>

\* A turn of the agent that decides nothing: a tool, a talk, a search of the catalog.
\* The last turn ends the agent without a decision.
AgentTurn(i) ==
    /\ At(i, "agent")
    /\ IF loops[i] + 1 = AgentLoops
       THEN Go(i, "save", {}) /\ AgentEnds(i)
       ELSE /\ \E found \in {{}} \cup Found : Go(i, "agent", sees[i] \cup found)
            /\ loops' = [loops EXCEPT ![i] = @ + 1]
    /\ count' \in {count, Count}
    /\ UNCHANGED <<worldVars, cached, answered, result>>

\* Without a key, or after an error, the agent decides nothing.
AgentFails(i) ==
    /\ At(i, "agent")
    /\ Go(i, "save", {})
    /\ AgentEnds(i)
    /\ UNCHANGED <<worldVars, cacheVars, result>>

\* Plausible bug: the id changes and the name stays, for alternatives too.
SettleIdOnly(old, decision, p) ==
    IF decision # "exact_match" THEN old
    ELSE [old EXCEPT !.status = "auto_match", !.best = p, !.by = "agent"]

\* final_decision.  Of a scored item only an exact match changes the result, and its
\* name follows the id only for one of the alternatives; an item without candidates
\* takes whatever product the agent names, for review.
Settle(old, decision, p) ==
    IF old.alternatives = {}
    THEN IF decision = "no_match" THEN old
         ELSE [old EXCEPT !.status = "review_needed", !.best = p, !.by = "agent"]
    ELSE IF decision # "exact_match" THEN old
         ELSE [old EXCEPT !.status = "auto_match", !.best = p, !.by = "agent",
                          !.label = IF p \in old.alternatives THEN p ELSE @]

AgentDecides(i) ==
    /\ At(i, "agent")
    /\ \E decision \in {"exact_match", "likely_match", "no_match"},
          p \in sees[i] \cup {Stray} :
          result' = [result EXCEPT ![i] = Settle(@, decision, p)]
    /\ Go(i, "save", {})
    /\ AgentEnds(i)
    /\ UNCHANGED <<worldVars, cacheVars>>

\* The foreign keys of the item's row and of its candidates.
Named(i) == ({result[i].best} \ {Nothing}) \cup result[i].alternatives

\* A result that is saved is the database's (BatchProcess) and forgotten here.
Save(i) ==
    /\ At(i, "save")
    /\ \/ /\ Named(i) \subseteq catalog
          /\ Go(i, "saved", {})
          /\ result' = [result EXCEPT ![i] = NoResult]
       \/ /\ ~(Named(i) \subseteq catalog)
          /\ Go(i, "error", {})
          /\ UNCHANGED result
    /\ UNCHANGED <<worldVars, cacheVars, loops>>

ItemMoves(i) ==
    \/ Override(i) \/ NoOverride(i)
    \/ CountCatalog(i) \/ ShowWhole(i) \/ ShowFound(i)
    \/ TakeAnswer(i) \/ ModelAnswers(i) \/ ModelFails(i) \/ Malformed(i)
    \/ Search(i) \/ NothingFound(i)
    \/ SkipRerank(i) \/ CallRerank(i) \/ RerankAnswers(i) \/ RerankFails(i)
    \/ Score(i) \/ ScoreNothing(i)
    \/ AgentTurn(i) \/ AgentFails(i) \/ AgentDecides(i)
    \/ Save(i)

-----------------------------------------------------------------------------
\* What goes on beside the items.

Change ==
    /\ changes < MaxChanges
    /\ changes' = changes + 1
    /\ UNCHANGED <<setup, count, cached, answered, stage, sees, result, loops>>

\* An import, and its reindex: by the catalog worker, whose caches are not the ones of
\* this process, or by a smart upload in this worker, before its match.
Import(p) ==
    /\ Change
    /\ p \notin catalog
    /\ catalog' = catalog \cup {p}
    /\ uploaded' = IF setup.smart THEN uploaded \cup {p} ELSE uploaded
    /\ UNCHANGED gone

Delete(p) ==
    /\ Change
    /\ p \in catalog
    /\ catalog' = catalog \ {p}
    /\ gone' = gone \cup {p}
    /\ uploaded' = uploaded \ {p}

PipelineNext ==
    \/ AskForAll
    \/ \E i \in Lines : ItemMoves(i)
    \/ \E p \in Goods : Import(p) \/ Delete(p)

PipelineSpec == PipelineInit /\ [][PipelineNext]_pipelineVars

-----------------------------------------------------------------------------
\* An item fails only for a malformed answer of the model or the agent, for a reranker
\* that names no candidate at all, or for a product in its result that no longer
\* exists or never did: never because a provider fails, answers late or not at all.
ErrorHasCause ==
    \A i \in Lines : At(i, "error") =>
        \/ result[i].by \in {"model", "agent"}
        \/ result[i].by = "scoring" /\ setup.rerank
        \/ Named(i) \cap gone # {}

\* Of the results that are to be saved: an automatic match without a product is the
\* model's, which named a product it was not shown; the name is that of the product,
\* unless the agent named one that is not among the alternatives; and only the agent
\* overrules a candidate whose automatic match is forbidden.
ResultIsCoherent ==
    \A i \in Lines : LET r == result[i] IN At(i, "save") =>
        /\ r.status = "auto_match" /\ r.best = Nothing => r.by = "model"
        /\ r.label \notin {Nothing, r.best} => r.by = "agent" /\ r.best \notin r.alternatives
        /\ r.status = "auto_match" /\ r.forbidden => r.by = "agent"

\* An item is still under way: neither saved nor failed.
ItemsPend == \E i \in Lines : stage[i] \notin {"saved", "error"}

\* What the docstring of the invalidation asks for: the products that an upload has
\* imported in this process are in the catalog that this process then matches against.
CacheFollowsImport == cached # Nothing => uploaded \subseteq cached
=============================================================================
