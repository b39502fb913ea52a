----------------------------- MODULE MCPipeline -----------------------------
(***************************************************************************)
(* The matching of a few items against a few products.                     *)
(***************************************************************************)
EXTENDS MatchPipeline

OneProduct == CHOOSE p \in Goods : TRUE

\* A catalog that a first import makes too large to be shown whole.
MCStocks == {{OneProduct}}

MCSetup(bulk, llm, agent, rerank) ==
    [bulk |-> bulk, llm |-> llm, agent |-> agent, rerank |-> rerank, smart |-> FALSE]

\* Smart uploads of one worker, whose items the model is asked for in one call.
MCSmartSetups == {[MCSetup(TRUE, TRUE, FALSE, FALSE) EXCEPT !.smart = TRUE]}
=============================================================================
