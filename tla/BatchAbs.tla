------------------------------ MODULE BatchAbs ------------------------------
(***************************************************************************)
(* What one run of a batch promises to whoever polls its request row: every *)
(* item is decided at most once, whatever is published is the exact tally  *)
(* of a set of items that are already decided, and a request is "done" only *)
(* with all its items decided and all of them in the published tally.      *)
(***************************************************************************)
EXTENDS MatchOutcomes

CONSTANT Items

VARIABLES
    outcome,    \* the decision on each item, "none" before there is one
    status,     \* the status that the request row shows
    published   \* the counters that the request row shows

vars == <<outcome, status, published>>

Decided == {i \in Items : outcome[i] # "none"}

Init ==
    /\ outcome = [i \in Items |-> "none"]
    /\ status = "running"
    /\ published = ZeroTally

Decide(i) ==
    /\ status = "running"
    /\ outcome[i] = "none"
    /\ \E o \in Outcomes : outcome' = [outcome EXCEPT ![i] = o]
    /\ UNCHANGED <<status, published>>

\* A progress report may be late, never wrong.
Publish ==
    /\ status = "running"
    /\ \E S \in SUBSET Decided : published' = Tally(S, outcome)
    /\ UNCHANGED <<outcome, status>>

Finish ==
    /\ status = "running"
    /\ Decided = Items
    /\ status' = "done"
    /\ published' = Tally(Items, outcome)
    /\ UNCHANGED outcome

Fail ==
    /\ status = "running"
    /\ status' = "failed"
    /\ published' = Tally(Decided, outcome)
    /\ UNCHANGED outcome

Next == Publish \/ Finish \/ Fail \/ \E i \in Items : Decide(i)

Spec == Init /\ [][Next]_vars
=============================================================================
