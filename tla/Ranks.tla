------------------------------- MODULE Ranks --------------------------------
(***************************************************************************)
(* The numbers of a finite set in their order: the codes of 1C items on    *)
(* the pages of a catalog, the rows and columns of a sheet.                *)
(***************************************************************************)
EXTENDS Naturals, FiniteSets

\* How many elements of S come before i, and S from the first to the last.
Rank(i, S) == Cardinality({h \in S : h < i})

InOrder(S) == [k \in 1 .. Cardinality(S) |-> CHOOSE i \in S : Rank(i, S) = k - 1]
=============================================================================
