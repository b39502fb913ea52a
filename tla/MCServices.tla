----------------------------- MODULE MCServices -----------------------------
(***************************************************************************)
(* The components that share no state with each other, in one run of TLC:  *)
(* each behaviour moves one of them, the others rest in one of their       *)
(* states, so the states of the run are the sum of theirs.                 *)
(***************************************************************************)
EXTENDS MCPipeline, CircuitBreaker, Accounts, RateLimit, RuntimeSettings,
        Scoring, Retrieval, OneCFetch, MCFiles, MCMigrations,
        ProviderAnswers

VARIABLE focus     \* the component that moves

servicesVars == <<focus, pipelineVars, breakerVars, accountVars, limitVars, settingsVars,
                  scoringVars, retrievalVars, onecVars, fileVars,
                  migrationVars, answersVars>>

MCSetups == {MCSetup(TRUE, TRUE, FALSE, FALSE), MCSetup(FALSE, FALSE, TRUE, TRUE)}

\* Numbers that are equal, within the tolerance, or apart; one list of three against
\* its own orders.
Lists(n) == UNION {[1 .. k -> {900, 1000, 1100}] : k \in 0 .. n}
Orders(q) == {[k \in 1 .. 3 |-> q[f[k]]] : f \in Permutations(1 .. 3)}

PlainPair == [brand |-> "neither", category |-> "neither", article |-> FALSE,
              unit |-> "neither", packaging |-> "unknown", alias |-> FALSE,
              lexical |-> 1000, semantic |-> 1000, rerank |-> 1000,
              query |-> <<>>, candidate |-> <<>>]

NumberPairs ==
    {[PlainPair EXCEPT !.query = q, !.candidate = c] : q \in Lists(3), c \in Lists(2)}
    \cup UNION {{[PlainPair EXCEPT !.query = q, !.candidate = c] : c \in Orders(q)} :
                    q \in [1 .. 3 -> {900, 1000, 1100}]}

\* Best values of what only adds to a score, and the greatest that a retrieval order
\* gives for a rerank.
FeaturePairs ==
    {[brand |-> b, category |-> k, article |-> a, unit |-> u, packaging |-> w, alias |-> h,
      lexical |-> 1000, semantic |-> 1000, rerank |-> r, query |-> n[1], candidate |-> n[2]] :
        b \in {"neither", "query", "candidate", "equal", "similar", "unlike"},
        k \in {"neither", "candidate"}, a \in BOOLEAN,
        u \in {"neither", "one", "same", "other"}, w \in {"unknown", "same", "other"},
        h \in BOOLEAN, r \in {100, 1000},
        n \in {<<<<>>, <<>>>>, <<<<1000>>, <<>>>>, <<<<1000>>, <<1000>>>>,
               <<<<1000>>, <<1100>>>>, <<<<1000>>, <<2000>>>>}}

\* Below zero, between, and above the scale.
MCScores == {-500, 0, 400, 2000}

\* The groups of three items, and those of 1C at first: one above the other, two trees, or one
\* still to come.
MCHomes == {<<2, 1, Nowhere>>}
MCTrees == {<<Nowhere, 1, 2>>, <<Nowhere, 1, Nowhere>>, <<Nowhere, 1>>}

MCPairs == NumberPairs \cup FeaturePairs

-----------------------------------------------------------------------------
PipelineRests ==
    /\ setup = MCSetup(TRUE, TRUE, FALSE, FALSE) /\ catalog = {OneProduct}
    /\ count = Nothing /\ cached = Nothing /\ answered = [i \in Lines |-> FALSE]
    /\ stage = [i \in Lines |-> "saved"] /\ sees = [i \in Lines |-> {}]
    /\ result = [i \in Lines |-> NoResult] /\ loops = [i \in Lines |-> 0]
    /\ gone = {} /\ uploaded = {} /\ changes = 0

AccountsRest ==
    /\ account = [u \in People |-> [role |-> "admin", active |-> TRUE,
                                    chosenBy |-> "self", must |-> FALSE]]
    /\ call = [c \in Calls |-> Idle]
    /\ requests = 0 /\ late = FALSE /\ crossed = {}

ScoringRests == pair = PlainPair /\ verdict = NoVerdict

RetrievalRests ==
    words = <<>> /\ passing = 0 /\ relaxed = <<>> /\ vectors = <<>> /\ found = NotYet

OneCRests ==
    /\ items = {} /\ home = [i \in Items |-> Nowhere] /\ above = <<>>
    /\ paths = <<>> /\ total = 0 /\ skip = 0
    /\ fetched = <<>> /\ keys = <<>> /\ places = <<>> /\ phase = "failed"
    /\ shifted = {} /\ regrouped = {} /\ homes = [i \in Items |-> {}] /\ edits = 0

FilesRest ==
    /\ file = EmptyFile /\ available = FALSE /\ picker = FALSE
    /\ reading = "done" /\ answer = <<>> /\ lists = NoItems /\ by = "nothing"

MigrationsRest ==
    /\ at = 0 /\ schema = EmptySchema /\ rows = {} /\ goal = 0
    /\ before = NoDatabase /\ failed = 0 /\ commands = 0

AnswersRest ==
    /\ job = [kind |-> "llm", inputs |-> 1, batch |-> BatchSize]
    /\ from = 1 /\ tries = 0 /\ slots = <<>> /\ said = <<>> /\ full = {}
    /\ progress = "done"

Init ==
    /\ focus \in {"pipeline", "breaker", "accounts", "limits", "settings", "scoring",
                  "retrieval", "onec", "files", "migrations", "answers"}
    /\ IF focus = "pipeline" THEN PipelineInit ELSE PipelineRests
    /\ IF focus = "accounts" THEN AccountsInit ELSE AccountsRest
    /\ IF focus = "scoring" THEN ScoringInit ELSE ScoringRests
    /\ IF focus = "retrieval" THEN RetrievalInit ELSE RetrievalRests
    /\ IF focus = "onec" THEN OneCInit ELSE OneCRests
    /\ IF focus = "files" THEN FileInit ELSE FilesRest
    /\ IF focus = "migrations" THEN MigrationsInit ELSE MigrationsRest
    /\ IF focus = "answers" THEN AnswersInit ELSE AnswersRest
    /\ BreakerInit /\ RateLimitInit /\ SettingsInit

\* The other components rest.
Rest ==
    /\ UNCHANGED focus
    /\ IF focus = "pipeline"  THEN TRUE ELSE UNCHANGED pipelineVars
    /\ IF focus = "breaker"   THEN TRUE ELSE UNCHANGED breakerVars
    /\ IF focus = "accounts"  THEN TRUE ELSE UNCHANGED accountVars
    /\ IF focus = "limits"    THEN TRUE ELSE UNCHANGED limitVars
    /\ IF focus = "settings"  THEN TRUE ELSE UNCHANGED settingsVars
    /\ IF focus = "scoring"   THEN TRUE ELSE UNCHANGED scoringVars
    /\ IF focus = "retrieval" THEN TRUE ELSE UNCHANGED retrievalVars
    /\ IF focus = "onec"      THEN TRUE ELSE UNCHANGED onecVars
    /\ IF focus = "files"     THEN TRUE ELSE UNCHANGED fileVars
    /\ IF focus = "migrations" THEN TRUE ELSE UNCHANGED migrationVars
    /\ IF focus = "answers" THEN TRUE ELSE UNCHANGED answersVars

Next ==
    \/ focus = "pipeline"  /\ PipelineNext   /\ Rest
    \/ focus = "breaker"   /\ BreakerNext    /\ Rest
    \/ focus = "accounts"  /\ AccountsNext   /\ Rest
    \/ focus = "limits"    /\ RateLimitNext  /\ Rest
    \/ focus = "settings"  /\ SettingsNext   /\ Rest
    \/ focus = "scoring"   /\ ScoreCandidate /\ Rest
    \/ focus = "retrieval" /\ HybridSearch   /\ Rest
    \/ focus = "onec"      /\ OneCNext       /\ Rest
    \/ focus = "files"     /\ FileNext       /\ Rest
    \/ focus = "migrations" /\ MigrationsNext /\ Rest
    \/ focus = "answers" /\ AnswersNext /\ Rest

\* What fairness is about: the event loop takes every item and every request further,
\* every call of a provider ends, and time (number 0) goes on.  The focus never changes,
\* so steps of different components may share a number.
FairStep(n) ==
    /\ \/ focus = "pipeline" /\ n = 0 /\ AskForAll
       \/ focus = "pipeline" /\ n \in Lines /\ ItemMoves(n)
       \/ focus = "breaker" /\ n = 0 /\ Elapse
       \/ focus = "breaker" /\ n \in Callers /\ Ends(n)
       \/ focus = "limits" /\ n = 0 /\ Tick
       \/ focus = "limits" /\ n \in Requests /\ RequestMoves(n)
    /\ Rest

ServicesSpec ==
    Init /\ [][Next]_servicesVars /\ \A n \in {0} \cup Callers : WF_servicesVars(FairStep(n))

\* Nothing waits for ever.  Whatever the providers answer, every item is saved or fails.
\* A circuit that has opened is passed again, however many calls of before it opened fail
\* after that: nobody calls while it is open, so they run out.  An address over the limit
\* of the API is let in again, also if it keeps asking, unless its counter never got an
\* expiry: then it stays out for good.
Waiting == ItemsPend \/ ~IsAvailable \/ ShutOut
WaitingEnds == Waiting ~> ~Waiting

\* The values that the variables may have; those of a component at rest do not change.
ServicesTypeOK ==
    CASE focus = "pipeline"  -> PipelineTypeOK
      [] focus = "breaker"   -> BreakerTypeOK
      [] focus = "accounts"  -> AccountsTypeOK
      [] focus = "limits"    -> RateLimitTypeOK
      [] focus = "settings"  -> SettingsTypeOK
      [] focus = "scoring"   -> ScoringTypeOK
      [] focus = "retrieval" -> RetrievalTypeOK
      [] focus = "onec"      -> OneCTypeOK
      [] focus = "files"     -> FileTypeOK
      [] focus = "migrations" -> MigrationsTypeOK
      [] focus = "answers" -> AnswersTypeOK
=============================================================================
