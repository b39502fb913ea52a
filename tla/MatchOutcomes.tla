---------------------------- MODULE MatchOutcomes ----------------------------
(***************************************************************************)
(* The vocabulary that the batch worker, the request row and the item rows *)
(* share: the three item statuses that the database accepts and the four   *)
(* counters that `_process_batch` keeps in a dict and copies, under other  *)
(* names, into columns of match_requests.                                  *)
(***************************************************************************)
EXTENDS Naturals, FiniteSets

\* ck_match_request_items_status
Outcomes == {"auto_match", "review_needed", "no_match"}

\* The keys of the `counters` dict ("auto" is counted under "auto_match", ...).
CounterKeys == Outcomes \cup {"processed"}

Tallies == [CounterKeys -> Nat]

ZeroTally == [k \in CounterKeys |-> 0]

\* One more item with outcome o: its own counter and "processed" go up together.
Bump(tally, o) ==
    [tally EXCEPT ![o] = @ + 1, !["processed"] = @ + 1]

\* What the counters must say of the items of S whose outcomes are out.
Tally(S, out) ==
    [k \in CounterKeys |->
        IF k = "processed" THEN Cardinality(S)
                           ELSE Cardinality({i \in S : out[i] = k})]
=============================================================================
