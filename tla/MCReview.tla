------------------------------ MODULE MCReview ------------------------------
(***************************************************************************)
(* Review for TLC: the reviews of a run, and its symmetry.                   *)
(***************************************************************************)
EXTENDS Review, TLC

\* Accepting the best candidate, rejecting, a correction to a product that is
\* missing, and an accepted product that the foreign key refuses.
MCBodies ==
    {[decision |-> "accepted", product |-> None],
     [decision |-> "rejected", product |-> None],
     [decision |-> "corrected", product |-> Unknown],
     [decision |-> "accepted", product |-> Unknown]}

\* For the bulk reviews of several entries: accepting the best candidate, and a
\* correction to a missing product.
MCBulkBodies ==
    {[decision |-> "accepted", product |-> None],
     [decision |-> "corrected", product |-> Unknown]}

\* Users, sessions and items are interchangeable (for the safety properties).
MCSymmetry == Permutations(Users) \cup Permutations(Sessions) \cup Permutations(Items)
=============================================================================
