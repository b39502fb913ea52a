----------------------------- MODULE OneCFetch ------------------------------
(***************************************************************************)
(* fetch_onec_catalog (ingestion/onec_adapter.py): the groups of the 1C    *)
(* catalog are read, its items counted and read page by page with $skip,   *)
(* ordered by code, and each item gets the path of the group it was in     *)
(* when its page was read, while 1C users go on creating, deleting and     *)
(* moving items and groups.  An item is its code.                          *)
(***************************************************************************)
EXTENDS Naturals, FiniteSetsExt, SequencesExt, Ranks

CONSTANTS
    Items,       \* the codes that an item may have, numbers
    Nameless,    \* those of them without a name
    Groups,
    Nowhere,     \* no group
    Homes,       \* what the groups of the items may be at first
    Trees,       \* and the groups that these are in
    PageSize,
    GroupLimit,  \* the groups that one answer has at most, 5000 in the code
    MaxDepth,    \* the depth that a path is followed to, 10 in the code
    MaxEdits     \* bound: what 1C users create, delete or move during the fetch

ASSUME OneCAssumption ==
    /\ IsFiniteSet(Items) /\ Items \subseteq Nat
    /\ IsFiniteSet(Groups) /\ Nowhere \notin Groups
    /\ Homes \subseteq [Items -> Groups \cup {Nowhere}]
    /\ PageSize \in Nat \ {0} /\ GroupLimit \in Nat /\ MaxDepth \in Nat /\ MaxEdits \in Nat

VARIABLES
    items,       \* the items in 1C that are neither deleted nor folders
    home,        \* the group that each is in
    above,       \* the group that each group in 1C is in
    paths,       \* category_map
    total,       \* what $count has returned
    skip,
    fetched,     \* all_items
    keys,        \* the category_id of each
    places,      \* the category_path of each
    phase,
    shifted,     \* history: the items that an edit ahead of them has moved since the
                 \* count, and those that were not there all the time
    regrouped,   \* history: the groups that came, went or moved since they were read
    homes,       \* history: the groups that each item has been in since the count
    edits

worldVars1C == <<items, home, above, shifted, regrouped, homes, edits>>
onecVars == <<worldVars1C, paths, total, skip, fetched, keys, places, phase>>

OneCTypeOK ==
    /\ items \subseteq Items /\ fetched \in Seq(Items \ Nameless) /\ shifted \subseteq Items
    /\ home \in [Items -> Groups \cup {Nowhere}] /\ keys \in Seq(Groups \cup {Nowhere})
    /\ homes \in [Items -> SUBSET (Groups \cup {Nowhere})]
    /\ DOMAIN above \subseteq Groups /\ Range(above) \subseteq Groups \cup {Nowhere}
    /\ DOMAIN paths \subseteq Groups /\ Range(paths) \subseteq Seq(Groups)
    /\ total \in 0 .. Cardinality(Items) /\ skip \in Nat
    /\ phase \in {"groups", "count", "read", "done", "dry", "failed"}
    /\ Len(keys) = Len(fetched) /\ Len(places) \in {0, Len(fetched)}
    /\ regrouped \subseteq Groups
    /\ edits \in 0 .. MaxEdits

\* What has the groups above its members among them, and those from g upwards.
Closed(up, S) == \A h \in S : up[h] \in S \cup {Nowhere}

Upwards(up, g) == {h \in DOMAIN up : \A S \in SUBSET DOMAIN up : g \in S /\ Closed(up, S) => h \in S}

\* Going up ends, from wherever.
Acyclic(up) == \A S \in SUBSET DOMAIN up : S # {} => \E h \in S : up[h] \notin S

Forests ==
    {up \in UNION {[gs -> gs \cup {Nowhere}] : gs \in SUBSET Groups} : Acyclic(up)}

ASSUME TreesAssumption == Trees \subseteq Forests

OneCInit ==
    /\ above \in Trees
    /\ home \in Homes
    /\ items \in SUBSET {i \in Items : home[i] \in DOMAIN above \cup {Nowhere}}
    /\ paths = <<>> /\ total = 0 /\ skip = 0 /\ fetched = <<>> /\ keys = <<>> /\ places = <<>>
    /\ phase = "groups" /\ shifted = {} /\ regrouped = {} /\ edits = 0
    /\ homes = [i \in Items |-> {}]

-----------------------------------------------------------------------------
\* resolve_path: the groups above g that are in the lookup, the lowest MaxDepth + 1.
PathOf(lookup, g) ==
    LET path[n \in 0 .. MaxDepth + 1] == [h \in Groups \cup {Nowhere} |->
            IF n = 0 \/ h \notin DOMAIN lookup THEN <<>>
            ELSE Append(path[n - 1][lookup[h]], h)]
    IN  path[MaxDepth + 1][g]

\* One answer, of GroupLimit groups at most, in no order.
FetchCategoryMap ==
    /\ phase = "groups"
    /\ \E gs \in SUBSET DOMAIN above :
        /\ Cardinality(gs) = Min({GroupLimit, Cardinality(DOMAIN above)})
        /\ paths' = [g \in gs |-> PathOf(Restrict(above, gs), g)]
    /\ regrouped' = {}
    /\ phase' = "count"
    /\ UNCHANGED <<items, home, above, shifted, homes, edits, total, skip, fetched, keys, places>>

\* dry_run: only the items are counted.
DryRun ==
    /\ phase = "groups"
    /\ total' = Cardinality(items)
    /\ phase' = "dry"
    /\ UNCHANGED <<worldVars1C, paths, skip, fetched, keys, places>>

\* The items from skip on, by code, PageSize at most; a server may send fewer than asked for.
Pages == {{i \in items : skip <= Rank(i, items) /\ Rank(i, items) < k} :
            k \in {n \in skip + 1 .. Cardinality(items) : n <= skip + PageSize}}

\* map_onec_odata_item: an item without a name is none.
Mapped1C(page) == InOrder(page \ Nameless)

\* The key of its group is part of the row of an item.
KeysOf(page) == [k \in DOMAIN Mapped1C(page) |-> home[Mapped1C(page)[k]]]

\* An item whose group is not among those that were read keeps its key for a path.
PlaceOf(g) == IF g = Nowhere THEN <<>>
              ELSE IF g \in DOMAIN paths THEN paths[g]
              ELSE <<"key", g>>

\* When the last page is in, every item gets its place.
ReadOn ==
    IF skip' < total' THEN phase' = "read" /\ UNCHANGED places
    ELSE phase' = "done" /\ places' = [k \in DOMAIN keys' |-> PlaceOf(keys'[k])]

GetTotalCount ==
    /\ phase = "count"
    /\ total' = Cardinality(items)
    /\ shifted' = Items \ items
    /\ homes' = [i \in Items |-> {home[i]}]
    /\ UNCHANGED <<items, home, above, regrouped, edits, paths, skip, fetched, keys>>
    /\ ReadOn

\* Plausible bug: the next page starts after the items that were mapped.
FetchPageMapped ==
    /\ phase = "read"
    /\ \E page \in Pages :
          /\ fetched' = fetched \o Mapped1C(page)
          /\ keys' = keys \o KeysOf(page)
          /\ skip' = skip + Len(Mapped1C(page))
    /\ UNCHANGED <<worldVars1C, paths, total>>
    /\ ReadOn

FetchPage ==
    /\ phase = "read"
    /\ \E page \in Pages :
          /\ fetched' = fetched \o Mapped1C(page)
          /\ keys' = keys \o KeysOf(page)
          /\ skip' = skip + Cardinality(page)
    /\ UNCHANGED <<worldVars1C, paths, total>>
    /\ ReadOn

\* The catalog has shrunk below skip.
EmptyPage ==
    /\ phase = "read"
    /\ skip >= Cardinality(items)
    /\ phase' = "done"
    /\ places' = [k \in DOMAIN keys |-> PlaceOf(keys[k])]
    /\ UNCHANGED <<worldVars1C, paths, total, skip, fetched, keys>>

\* An HTTP error, or a connection that is not configured, ends the fetch with all that
\* was read.
FetchFails ==
    /\ phase \in {"groups", "count", "read"}
    /\ phase' = "failed"
    /\ UNCHANGED <<worldVars1C, paths, total, skip, fetched, keys, places>>

Fetching == phase \in {"groups", "count", "read"}

\* One change by a 1C user while the fetch goes on.
Edits ==
    /\ Fetching
    /\ edits < MaxEdits
    /\ edits' = edits + 1
    /\ UNCHANGED <<paths, total, skip, fetched, keys, places, phase>>

\* Item i is in group g from now on.
EntersGroup(i, g) ==
    /\ home' = [home EXCEPT ![i] = g]
    /\ homes' = IF phase = "read" THEN [homes EXCEPT ![i] = @ \cup {g}] ELSE homes

\* An item is deleted, or created in a group that there is.
Edit(i) ==
    /\ Edits
    /\ IF i \in items THEN items' = items \ {i} /\ UNCHANGED <<home, homes>>
       ELSE items' = items \cup {i} /\ \E g \in DOMAIN above \cup {Nowhere} : EntersGroup(i, g)
    /\ shifted' = IF phase = "read" THEN shifted \cup {j \in Items : j >= i} ELSE shifted
    /\ UNCHANGED <<above, regrouped>>

\* An item is moved to another group, which leaves the order of the codes as it is.
Move(i) ==
    /\ Edits
    /\ i \in items
    /\ \E g \in (DOMAIN above \cup {Nowhere}) \ {home[i]} : EntersGroup(i, g)
    /\ UNCHANGED <<items, above, shifted, regrouped>>

\* The groups that g is above of, itself among them.
Subgroups(g) == {g} \cup {h \in DOMAIN above : g \in Upwards(above, h)}

\* A group is created, or moved to one that is not under it.
Regroup(g) ==
    /\ Edits
    /\ \E h \in (DOMAIN above \ Subgroups(g)) \cup {Nowhere} :
          above' = [k \in DOMAIN above \cup {g} |-> IF k = g THEN h ELSE above[k]]
    /\ regrouped' = regrouped \cup Subgroups(g)
    /\ UNCHANGED <<items, home, shifted, homes>>

\* A group that has become empty is deleted; 1C keeps what something refers to.
RemoveGroup(g) ==
    /\ Edits
    /\ g \in DOMAIN above
    /\ g \notin Range(above)
    /\ \A i \in items : home[i] # g
    /\ above' = Restrict(above, DOMAIN above \ {g})
    /\ regrouped' = regrouped \cup {g}
    /\ UNCHANGED <<items, home, shifted, homes>>

OneCNext ==
    \/ FetchCategoryMap \/ DryRun \/ GetTotalCount \/ FetchPage \/ EmptyPage \/ FetchFails
    \/ \E i \in Items : Edit(i) \/ Move(i)
    \/ \E g \in Groups : Regroup(g) \/ RemoveGroup(g)

OneCSpec == OneCInit /\ [][OneCNext]_onecVars

-----------------------------------------------------------------------------
\* A fetch that succeeds has every item with a name, once, whose place in the order no
\* edit has changed since the count, however long its pages were; an item behind an edit
\* may be missing or be there twice.  Its group is the one that it is in, or, if users moved
\* it since the count, one that it was in meanwhile.  It has the whole path of that group if
\* that was read, is not too long, and no group of it came, went or moved since; it has its
\* key instead, and no path, only if its group was not read.
FetchComplete ==
    phase = "done" =>
        /\ \A i \in Items \ (shifted \cup Nameless) : \E k \in DOMAIN fetched :
              \A l \in DOMAIN fetched : fetched[l] = i <=> l = k
        /\ \A k \in DOMAIN fetched : keys[k] \in homes[fetched[k]]
        /\ \A k \in DOMAIN fetched : LET g == keys[k] IN
              IF g = Nowhere THEN places[k] = <<>>
              ELSE IF g \notin DOMAIN paths THEN places[k] = <<"key", g>>
              ELSE /\ Last(places[k]) = g
                   /\ g \notin regrouped
                          /\ Upwards(above, g) \subseteq DOMAIN paths \ regrouped
                          /\ Cardinality(Upwards(above, g)) <= MaxDepth + 1
                        => places[k] = PathOf(above, g) /\ Range(places[k]) = Upwards(above, g)
=============================================================================
