----------------------------- MODULE MCCatalog -----------------------------
(* The sources that TLC gives to CatalogIndex.                             *)
EXTENDS CatalogIndex

Row(id, key, text) == [id |-> id, key |-> key, text |-> text]

\* An unreadable source; two products; the second product with another text and the
\* key of the first, as one from 1C may have.
MCInputs == {<<>>, <<Row(1, "k1", "t1"), Row(2, "k2", "t1")>>, <<Row(2, "k1", "t2")>>}

\* One product whose search document changes with its category, and its key does not.
MCChanged == {<<>>, <<Row(1, "k1", "t1")>>, <<Row(1, "k1", "t2")>>}
=============================================================================
