-------------------------- MODULE Migrations_proofs --------------------------
(***************************************************************************)
(* Proofs about Migrations, for any contents that an application may leave *)
(* and any number of commands.                                             *)
(*                                                                         *)
(* The first part puts the statements of the migrations together: the      *)
(* schema of the n-th revision, spelled out (SchemaAt), is what its        *)
(* upgrades build and its downgrades come back to (UpShapes, DownShapes).  *)
(* The second says of the rows that a migration leaves in the place of     *)
(* those it finds: it carries each over, in more columns or in fewer       *)
(* (Carry), so that a constraint of both revisions keeps holding           *)
(* (CarriedReferences, CarriedUniques, CarriedChecks), no null comes into  *)
(* a column that may hold none (UpNulls, DownNulls), and the keys of the   *)
(* old providers find their way into the registry and back (GatewayKeeps,  *)
(* KeyRowsKeep).  The third is about 0007, which deletes (Remainder).  The *)
(* inductive invariant is MigrationsInv: the rows stand in the columns of  *)
(* their revision and meet its constraints, so do those that a rollback    *)
(* would restore, and a command that is going up has not touched yet what  *)
(* its deletions will look at (CommandInv).                                *)
(***************************************************************************)
EXTENDS Migrations, FiniteSetTheorems, TLAPS

\* What goes from each number to the next holds at the last.
LEMMA LoopEnds ==
    ASSUME NEW n \in Nat, NEW Good \in SUBSET Nat, 0 \in Good,
           \A i \in 1 .. n : i - 1 \in Good => i \in Good
    PROVE  n \in Good
<1> DEFINE bad == (0 .. n) \ Good
           less == OpToRel(<, Nat)
<1>1. SUFFICES ASSUME bad # {} PROVE FALSE
  OBVIOUS
<1>2. bad \subseteq Nat
  OBVIOUS
<1>3. IsWellFoundedOn(less, Nat)
  BY NatLessThanWellFounded, Zenon
<1>4. \A x, y \in Nat : y < x => <<y, x>> \in less
  BY Zenon DEF OpToRel
<1>5. PICK x \in bad : \A y \in bad : ~(<<y, x>> \in less)
  <2> HIDE DEF bad, less
  <2> QED BY <1>1, <1>2, <1>3, WFMin, Zenon
<1>6. \A y \in bad : ~(y < x)
  <2> HIDE DEF bad, less
  <2> QED BY <1>2, <1>4, <1>5
<1>7. x \in 1 .. n
  <2>1. x \in 0 .. n /\ x \notin Good
    BY <1>5
  <2>2. x # 0
    BY <2>1
  <2> QED BY <2>1, <2>2
<1>8. x - 1 \in Good
  BY <1>6, <1>7
<1> QED BY <1>5, <1>7, <1>8

Since(k, n, S) == IF n >= k THEN S ELSE {}

Db(s, x) == [schema |-> s, rows |-> x]

Scheme(c, r, u, k) == [columns |-> c, references |-> r, uniques |-> u, checks |-> k]

\* The columns of the n-th revision.
FirstColumns == ColumnsOf(FirstRequired, FirstOptional)

No == FALSE
Yes == TRUE

DefinedAt(n) ==
    Since(1, n, FirstColumns) \cup Since(2, n, UserColumns) \cup Since(3, n, SettingColumns)
        \cup Since(4, n, {Attribute("match_request_items", "original_row_json", Yes)})
        \cup Since(5, n, {Attribute("users", "must_change_password", No)})
        \cup Since(7, n, UsageColumns) \cup Since(10, n, AuditColumns)
        \cup Since(10, n, {Attribute("match_request_items", "review_notes", Yes),
                           Attribute("golden_labels", "version", Yes),
                           Attribute("golden_labels", "is_active", No)})
        \cup Since(11, n, {Attribute("match_requests", "job_name", No),
                           Attribute("match_requests", "job_payload_json", No)})

\* What rows stand in: its tables, each as a column without a name, and its later columns.
Entire(t) == <<t, "">>

ColumnsAt(n) ==
    Since(1, n, {Entire(t) : t \in FirstTables})
        \cup Since(2, n, {Entire("users")}) \cup Since(3, n, {Entire("system_settings")})
        \cup Since(4, n, {<<"match_request_items", "original_row_json">>})
        \cup Since(5, n, {<<"users", "must_change_password">>})
        \cup Since(7, n, {Entire("token_usage_log")})
        \cup Since(10, n, {<<"match_request_items", "review_notes">>, Entire("audit_log"),
                           <<"golden_labels", "version">>, <<"golden_labels", "is_active">>})
        \cup Since(11, n, {<<"match_requests", "job_name">>,
                           <<"match_requests", "job_payload_json">>})

\* The references that every revision from the first has.
FirstReferences ==
    CatalogReferences
        \cup {Reference("match_request_items", "request_id", "match_requests", "cascade"),
              Reference("match_request_items", "best_product_id", "catalog_products", "refuse"),
              Reference("match_request_items", "final_product_id", "catalog_products", "refuse"),
              Reference("match_candidates", "request_item_id", "match_request_items", "cascade"),
              OfProducts("match_candidates", "cascade"), OfProducts("golden_labels", "refuse"),
              OfSuppliers("golden_labels", "refuse"),
              OfSuppliers("normalization_synonyms", "refuse"),
              Reference("quality_reports", "index_version_id", "index_versions", "refuse")}

ReferencesAt(n) ==
    Since(1, n, FirstReferences
                    \cup {OfSuppliers("match_requests", IF n >= 8 THEN "null" ELSE "refuse")})
        \cup Since(7, n, {Reference("token_usage_log", "request_id", "match_requests", "null")})

UniquesAt(n) ==
    Since(1, n, {Unique("catalog_products", {"onec_ref"}), Unique("index_versions", {"is_active"})})
        \cup Since(2, n, {Unique("users", {"username"})})
        \cup Since(8, n, {Unique("supplier_mappings", {"supplier_id", "supplier_raw_text"})})
        \cup Since(9, n, {Unique("catalog_products", {"source_hash"})})

FirstChecks ==
    {Check("catalog_aliases", "alias_type", Aliases),
     Check("supplier_mappings", "mapping_type", Mappings),
     Check("match_request_items", "status", Verdicts),
     Check("match_request_items", "final_decision", Decisions),
     Check("golden_labels", "label_type", Labels)}

ChecksAt(n) ==
    Since(1, n, FirstChecks
                    \cup {Check("match_requests", "status",
                                IF n >= 11 THEN AllStatuses ELSE FirstStatuses)})
        \cup Since(2, n, {Check("users", "role", IF n >= 10 THEN AllRoles ELSE FirstRoles)})

\* The schema of the n-th revision, spelled out.
SchemaAt(n) == Scheme(DefinedAt(n), ReferencesAt(n), UniquesAt(n), ChecksAt(n))

SchemaInv ==
    /\ at \in 0 .. Latest /\ schema = SchemaAt(at)
    /\ before.at \in 0 .. Latest
    /\ before = [schema |-> SchemaAt(before.at), rows |-> before.rows, at |-> before.at]

GoalInv ==
    /\ goal \in 0 .. Latest
    /\ goal < at => goal = at - 1 /\ at = before.at /\ rows = before.rows
    /\ goal > at => goal = Latest
    /\ failed # 0 => Settled
    /\ failed \in -Latest .. Latest
    /\ commands \in 0 .. MaxCommands

OfTable(x, table) == {r \in x : r.table = table}

\* Rows that stand in these columns, the products under a key.
Placed(x, c) ==
    /\ \A r \in x :
          /\ Writable(r) /\ Entire(r.table) \in c
          /\ \A d \in DOMAIN r.has : <<r.table, d>> \in LaterColumns => <<r.table, d>> \in c
    /\ \A r, s \in OfTable(x, "catalog_products") : r.id = s.id => r = s

\* The keys of the providers are where revision n has them.
Registered(x, n) ==
    \A r \in OfTable(x, "system_settings") :
        IF n < 6 THEN r.id # "providers_registry" ELSE r.id \notin OldKeys

\* The rows that an application of revision n leaves, or a migration to it.
Sound(x, n) == Placed(x, ColumnsAt(n)) /\ Registered(x, n)
Kept(x, n) == Sound(x, n) /\ Holds(Db(SchemaAt(n), x))

RowsInv == Kept(rows, at) /\ Kept(before.rows, before.at)

\* What a command that is going up has not touched yet when it comes to its deletions.
Alike(x, y) ==
    /\ \A table \in {"supplier_mappings", "catalog_products", "golden_labels"} :
          OfTable(x, table) = OfTable(y, table)
    /\ \A column \in {"best_product_id", "final_product_id"} :
          ValuesIn(x, "match_request_items", column) = ValuesIn(y, "match_request_items", column)

CommandInv == goal > at /\ at <= 8 => Alike(rows, before.rows)

MigrationsInv == SchemaInv /\ GoalInv /\ RowsInv /\ CommandInv

-----------------------------------------------------------------------------
\* What the statements make of a database in parts.

Widened(x, table, column, value) ==
    {IF r.table = table THEN With(r, column, value) ELSE r : r \in x}

Narrowed(x, table, column) ==
    {IF r.table = table THEN Without(r, {column}) ELSE r : r \in x}

Rest(x, tables) == {r \in x : r.table \notin tables}

WithTables(c, tables) == c \cup {Entire(t) : t \in tables}
WithColumn(c, table, column) == c \cup {<<table, column>>}
WithoutColumn(c, table, column) == c \ {<<table, column>>}
ColumnsOutside(c, tables) == {d \in c : d[1] \notin tables}
Defining(c, table, column, null) == c \cup {Attribute(table, column, null)}
Undefining(c, table, column) == {d \in c : ~(d.table = table /\ d.column = column)}
DefinedOutside(c, tables) == {d \in c : d.table \notin tables}
ReferencesOutside(r, tables) == {f \in r : {f.from, f.to} \cap tables = {}}
Outside(u, tables) == {f \in u : f.table \notin tables}

Rechecked(k, table, column, values) ==
    {f \in k : ~(f.table = table /\ f.column = column)} \cup {Check(table, column, values)}

LEMMA Parts ==
    ASSUME NEW s, NEW x
    PROVE  Db(s, x).schema = s /\ Db(s, x).rows = x
BY DEF Db

LEMMA WidenedShape ==
    ASSUME NEW c, NEW r, NEW u, NEW k, NEW x, NEW table, NEW column, NEW null, NEW v
    PROVE  AddColumn(Db(Scheme(c, r, u, k), x), table, column, null, v)
               = Db(Scheme(Defining(c, table, column, null), r, u, k), Widened(x, table, column, v))
<1> DEFINE db == Db(Scheme(c, r, u, k), x)
           y == Widened(x, table, column, v)
           e == {Attribute(table, column, null)}
<1>1. db.rows = x /\ db.schema = Scheme(c, r, u, k)
      /\ [db.schema EXCEPT !.columns = @ \cup e] = Scheme(c \cup e, r, u, k)
  <2> HIDE DEF e
  <2> QED BY DEF Db, Scheme
<1>2. AddColumn(db, table, column, null, v)
          = [schema |-> [db.schema EXCEPT !.columns = @ \cup e], rows |-> y]
  <2> HIDE DEF db
  <2> QED BY <1>1, Zenon DEF AddColumn, Widened
<1> QED BY <1>1, <1>2, Zenon DEF Db, Defining

LEMMA NarrowedShape ==
    ASSUME NEW c, NEW r, NEW u, NEW k, NEW x, NEW table, NEW column
    PROVE  DropColumn(Db(Scheme(c, r, u, k), x), table, column)
               = Db(Scheme(Undefining(c, table, column), r, u, k), Narrowed(x, table, column))
<1> DEFINE db == Db(Scheme(c, r, u, k), x)
           y == Narrowed(x, table, column)
           e == Undefining(c, table, column)
<1>1. db.rows = x /\ db.schema = Scheme(c, r, u, k) /\ db.schema.columns = c
      /\ [db.schema EXCEPT !.columns = e] = Scheme(e, r, u, k)
  <2> HIDE DEF e
  <2> QED BY DEF Db, Scheme
<1>2. DropColumn(db, table, column) = [schema |-> [db.schema EXCEPT !.columns = e], rows |-> y]
  <2>1. DropColumn(db, table, column)
            = [schema |-> [db.schema EXCEPT !.columns = Undefining(db.schema.columns, table, column)],
               rows |-> Narrowed(db.rows, table, column)]
    <3> HIDE DEF db
    <3> QED BY Zenon DEF DropColumn, Narrowed, Undefining
  <2> HIDE DEF db
  <2> QED BY <1>1, <2>1, Zenon
<1> HIDE DEF db, e
<1> QED BY <1>1, <1>2, Zenon DEF Db, db, e

LEMMA CreatedShape ==
    ASSUME NEW c, NEW r, NEW u, NEW k, NEW x, NEW e
    PROVE  CreateTables(Db(Scheme(c, r, u, k), x), e) = Db(Scheme(c \cup e, r, u, k), x)
BY DEF CreateTables, Db, Scheme

LEMMA DroppedShape ==
    ASSUME NEW c, NEW r, NEW u, NEW k, NEW x, NEW tables
    PROVE  DropTables(Db(Scheme(c, r, u, k), x), tables)
               = Db(Scheme(DefinedOutside(c, tables), ReferencesOutside(r, tables),
                           Outside(u, tables), Outside(k, tables)), Rest(x, tables))
BY DEF DropTables, Db, Scheme, Rest, DefinedOutside, ReferencesOutside, Outside

LEMMA RecheckedShape ==
    ASSUME NEW c, NEW r, NEW u, NEW k, NEW x, NEW table, NEW column, NEW v
    PROVE  Recheck(Db(Scheme(c, r, u, k), x), table, column, v)
               = Db(Scheme(c, r, u, Rechecked(k, table, column, v)), x)
BY DEF Recheck, Db, Scheme, Rechecked

LEMMA UpCases ==
    ASSUME NEW db
    PROVE  /\ Up(1, db) = UpInit(db) /\ Up(2, db) = UpUsers(db)
           /\ Up(3, db) = UpSystemSettings(db) /\ Up(4, db) = UpOriginalRow(db)
           /\ Up(5, db) = UpMustChange(db) /\ Up(6, db) = UpGateway(db)
           /\ Up(7, db) = UpTokenUsage(db) /\ Up(8, db) = UpIntegrity(db)
           /\ Up(9, db) = UpSourceHash(db) /\ Up(10, db) = UpAuditRoles(db)
           /\ Up(11, db) = UpQueueRecovery(db)
BY DEF Up

LEMMA DownCases ==
    ASSUME NEW db
    PROVE  /\ Down(1, db) = DownInit(db) /\ Down(2, db) = DownUsers(db)
           /\ Down(3, db) = DownSystemSettings(db) /\ Down(4, db) = DownOriginalRow(db)
           /\ Down(5, db) = DownMustChange(db) /\ Down(6, db) = DownGateway(db)
           /\ Down(7, db) = DownTokenUsage(db) /\ Down(8, db) = DownIntegrity(db)
           /\ Down(9, db) = DownSourceHash(db) /\ Down(10, db) = DownAuditRoles(db)
           /\ Down(11, db) = DownQueueRecovery(db)
BY DEF Down

LEMMA ColumnsGrow ==
    /\ ColumnsAt(0) = {} /\ ColumnsAt(1) = {Entire(t) : t \in FirstTables}
    /\ ColumnsAt(2) = ColumnsAt(1) \cup {Entire("users")}
    /\ ColumnsAt(3) = ColumnsAt(2) \cup {Entire("system_settings")}
    /\ ColumnsAt(4) = ColumnsAt(3) \cup {<<"match_request_items", "original_row_json">>}
    /\ ColumnsAt(5) = ColumnsAt(4) \cup {<<"users", "must_change_password">>}
    /\ ColumnsAt(6) = ColumnsAt(5)
    /\ ColumnsAt(7) = ColumnsAt(6) \cup {Entire("token_usage_log")}
    /\ ColumnsAt(8) = ColumnsAt(7) /\ ColumnsAt(9) = ColumnsAt(8)
    /\ ColumnsAt(10) = (((ColumnsAt(9) \cup {<<"match_request_items", "review_notes">>})
                            \cup {Entire("audit_log")})
                           \cup {<<"golden_labels", "version">>})
                           \cup {<<"golden_labels", "is_active">>}
    /\ ColumnsAt(11) = (ColumnsAt(10) \cup {<<"match_requests", "job_name">>})
                           \cup {<<"match_requests", "job_payload_json">>}
<1>1. ColumnsAt(0) = {} /\ ColumnsAt(1) = {Entire(t) : t \in FirstTables}
  BY DEF ColumnsAt, Since
<1>2. ColumnsAt(2) = ColumnsAt(1) \cup {Entire("users")}
  BY DEF ColumnsAt, Since
<1>3. ColumnsAt(3) = ColumnsAt(2) \cup {Entire("system_settings")}
  BY DEF ColumnsAt, Since
<1>4. ColumnsAt(4) = ColumnsAt(3) \cup {<<"match_request_items", "original_row_json">>}
  BY DEF ColumnsAt, Since
<1>5. ColumnsAt(5) = ColumnsAt(4) \cup {<<"users", "must_change_password">>}
  BY DEF ColumnsAt, Since
<1>6. ColumnsAt(6) = ColumnsAt(5)
  BY DEF ColumnsAt, Since
<1>7. ColumnsAt(7) = ColumnsAt(6) \cup {Entire("token_usage_log")}
  BY DEF ColumnsAt, Since
<1>8. ColumnsAt(8) = ColumnsAt(7) /\ ColumnsAt(9) = ColumnsAt(8)
  BY DEF ColumnsAt, Since
<1>9. ColumnsAt(10) = (((ColumnsAt(9) \cup {<<"match_request_items", "review_notes">>})
                           \cup {Entire("audit_log")})
                          \cup {<<"golden_labels", "version">>})
                          \cup {<<"golden_labels", "is_active">>}
  BY DEF ColumnsAt, Since
<1>10. ColumnsAt(11) = (ColumnsAt(10) \cup {<<"match_requests", "job_name">>})
                           \cup {<<"match_requests", "job_payload_json">>}
  BY DEF ColumnsAt, Since
<1> QED BY <1>1, <1>2, <1>3, <1>4, <1>5, <1>6, <1>7, <1>8, <1>9, <1>10

\* The rule of the reference that 0006 changes.
Requesters(n) == {OfSuppliers("match_requests", IF n >= 8 THEN "null" ELSE "refuse")}
Usage == Reference("token_usage_log", "request_id", "match_requests", "null")

LEMMA ReferencesGrow ==
    /\ ReferencesAt(0) = {} /\ ReferencesAt(1) = FirstReferences \cup {OfSuppliers("match_requests", "refuse")}
    /\ \A n \in 2 .. 6 : ReferencesAt(n) = ReferencesAt(1)
    /\ ReferencesAt(7) = ReferencesAt(1) \cup {Usage}
    /\ \A n \in 8 .. 11 : ReferencesAt(n)
           = (ReferencesAt(7) \ {OfSuppliers("match_requests", "refuse")})
                 \cup {OfSuppliers("match_requests", "null")}
    /\ ReferencesAt(7) = (ReferencesAt(8) \ {OfSuppliers("match_requests", "null")})
                 \cup {OfSuppliers("match_requests", "refuse")}
    /\ \A r \in ReferencesAt(1) : {r.from, r.to} \subseteq FirstTables
<1>1. OfSuppliers("match_requests", "refuse") \notin FirstReferences \cup {Usage}
      /\ OfSuppliers("match_requests", "null") \notin FirstReferences \cup {Usage}
      /\ OfSuppliers("match_requests", "null") # OfSuppliers("match_requests", "refuse")
  BY DEF FirstReferences, CatalogReferences, OfSuppliers, OfProducts, Reference, Usage
<1>2. ReferencesAt(0) = {} /\ ReferencesAt(1) = FirstReferences \cup {OfSuppliers("match_requests", "refuse")}
  BY DEF ReferencesAt, Since
<1>3. \A n \in 2 .. 6 : ReferencesAt(n) = ReferencesAt(1)
  BY DEF ReferencesAt, Since
<1>4. ReferencesAt(7) = ReferencesAt(1) \cup {Usage}
  BY DEF ReferencesAt, Since, Usage
<1>5. \A n \in 8 .. 11 : ReferencesAt(n)
           = FirstReferences \cup {OfSuppliers("match_requests", "null")} \cup {Usage}
  BY DEF ReferencesAt, Since, Usage
<1>6. \A r \in ReferencesAt(1) : {r.from, r.to} \subseteq FirstTables
  BY <1>2 DEF FirstReferences, CatalogReferences, OfSuppliers, OfProducts, Reference, FirstTables
<1>7. \A n \in 8 .. 11 : ReferencesAt(n)
           = (ReferencesAt(7) \ {OfSuppliers("match_requests", "refuse")})
                 \cup {OfSuppliers("match_requests", "null")}
  BY <1>1, <1>2, <1>4, <1>5
<1>8. ReferencesAt(7) = (ReferencesAt(8) \ {OfSuppliers("match_requests", "null")})
                 \cup {OfSuppliers("match_requests", "refuse")}
  BY <1>1, <1>2, <1>4, <1>5
<1> QED BY <1>2, <1>3, <1>4, <1>6, <1>7, <1>8

LEMMA UniquesGrow ==
    /\ UniquesAt(0) = {}
    /\ UniquesAt(1) = {Unique("catalog_products", {"onec_ref"}), Unique("index_versions", {"is_active"})}
    /\ UniquesAt(2) = UniquesAt(1) \cup {Unique("users", {"username"})}
    /\ \A n \in 3 .. 7 : UniquesAt(n) = UniquesAt(2)
    /\ UniquesAt(8) = UniquesAt(7) \cup {Unique("supplier_mappings", {"supplier_id", "supplier_raw_text"})}
    /\ UniquesAt(7) = UniquesAt(8) \ {Unique("supplier_mappings", {"supplier_id", "supplier_raw_text"})}
    /\ UniquesAt(9) = UniquesAt(8) \cup {Unique("catalog_products", {"source_hash"})}
    /\ UniquesAt(8) = UniquesAt(9) \ {Unique("catalog_products", {"source_hash"})}
    /\ UniquesAt(10) = UniquesAt(9) /\ UniquesAt(11) = UniquesAt(9)
    /\ \A u \in UniquesAt(1) : u.table \in FirstTables
<1>1. /\ UniquesAt(0) = {}
      /\ UniquesAt(1) = {Unique("catalog_products", {"onec_ref"}), Unique("index_versions", {"is_active"})}
      /\ UniquesAt(2) = UniquesAt(1) \cup {Unique("users", {"username"})}
  BY DEF UniquesAt, Since
<1>2. \A n \in 3 .. 7 : UniquesAt(n) = UniquesAt(2)
  BY DEF UniquesAt, Since
<1>3. /\ UniquesAt(8) = UniquesAt(7) \cup {Unique("supplier_mappings", {"supplier_id", "supplier_raw_text"})}
      /\ UniquesAt(9) = UniquesAt(8) \cup {Unique("catalog_products", {"source_hash"})}
      /\ UniquesAt(10) = UniquesAt(9) /\ UniquesAt(11) = UniquesAt(9)
  BY DEF UniquesAt, Since
<1>4. \A u \in UniquesAt(1) : u.table \in FirstTables
  BY <1>1 DEF Unique, FirstTables
<1>5. Unique("supplier_mappings", {"supplier_id", "supplier_raw_text"}) \notin UniquesAt(7)
  <2>1. \A u \in UniquesAt(7) : u.table # "supplier_mappings"
    BY <1>1, <1>2 DEF Unique
  <2> QED BY <2>1 DEF Unique
<1>6. Unique("catalog_products", {"source_hash"}) \notin UniquesAt(8)
  <2>1. {"source_hash"} # {"onec_ref"}
    OBVIOUS
  <2>2. \A u \in UniquesAt(8) : u.table = "catalog_products" => u.columns = {"onec_ref"}
    BY <1>1, <1>2, <1>3 DEF Unique
  <2> QED BY <2>1, <2>2 DEF Unique
<1> QED BY <1>1, <1>2, <1>3, <1>4, <1>5, <1>6

LEMMA ChecksGrow ==
    /\ ChecksAt(0) = {}
    /\ ChecksAt(1) = FirstChecks \cup {Check("match_requests", "status", FirstStatuses)}
    /\ ChecksAt(2) = ChecksAt(1) \cup {Check("users", "role", FirstRoles)}
    /\ \A n \in 3 .. 9 : ChecksAt(n) = ChecksAt(2)
    /\ ChecksAt(10) = Rechecked(ChecksAt(9), "users", "role", AllRoles)
    /\ ChecksAt(9) = Rechecked(ChecksAt(10), "users", "role", FirstRoles)
    /\ ChecksAt(11) = Rechecked(ChecksAt(10), "match_requests", "status", AllStatuses)
    /\ ChecksAt(10) = Rechecked(ChecksAt(11), "match_requests", "status", FirstStatuses)
    /\ \A k \in ChecksAt(1) : k.table \in FirstTables
<1>1. /\ ChecksAt(0) = {}
      /\ ChecksAt(1) = FirstChecks \cup {Check("match_requests", "status", FirstStatuses)}
      /\ ChecksAt(2) = ChecksAt(1) \cup {Check("users", "role", FirstRoles)}
  BY DEF ChecksAt, Since
<1>2. \A n \in 3 .. 9 : ChecksAt(n) = ChecksAt(2)
  BY DEF ChecksAt, Since
<1>3. /\ ChecksAt(10) = FirstChecks \cup {Check("match_requests", "status", FirstStatuses)}
                            \cup {Check("users", "role", AllRoles)}
      /\ ChecksAt(11) = FirstChecks \cup {Check("match_requests", "status", AllStatuses)}
                            \cup {Check("users", "role", AllRoles)}
  BY DEF ChecksAt, Since
<1>4. \A k \in FirstChecks : /\ k.table \in FirstTables \ {"match_requests"}
                             /\ k.table # "users"
  BY DEF FirstChecks, Check, FirstTables
<1>5. \A values : Check("users", "role", values).table = "users"
                  /\ Check("users", "role", values).column = "role"
                  /\ Check("match_requests", "status", values).table = "match_requests"
                  /\ Check("match_requests", "status", values).column = "status"
  BY DEF Check
<1>6. \A k \in ChecksAt(1) : k.table \in FirstTables
  BY <1>1, <1>4, <1>5 DEF FirstTables
<1>7. ChecksAt(9) = ChecksAt(2)
  BY <1>2
<1>8. ChecksAt(10) = Rechecked(ChecksAt(9), "users", "role", AllRoles)
  BY <1>1, <1>3, <1>4, <1>5, <1>7 DEF Rechecked
<1>9. ChecksAt(9) = Rechecked(ChecksAt(10), "users", "role", FirstRoles)
  BY <1>1, <1>3, <1>4, <1>5, <1>7 DEF Rechecked
<1>10. ChecksAt(11) = Rechecked(ChecksAt(10), "match_requests", "status", AllStatuses)
  BY <1>3, <1>4, <1>5 DEF Rechecked
<1>11. ChecksAt(10) = Rechecked(ChecksAt(11), "match_requests", "status", FirstStatuses)
  BY <1>3, <1>4, <1>5 DEF Rechecked
<1> QED BY <1>1, <1>2, <1>6, <1>8, <1>9, <1>10, <1>11

LEMMA TablesGrow ==
    /\ ColumnsAt(1) = WithTables(ColumnsAt(0), FirstTables)
    /\ ColumnsAt(2) = WithTables(ColumnsAt(1), {"users"})
    /\ ColumnsAt(3) = WithTables(ColumnsAt(2), {"system_settings"})
    /\ ColumnsAt(7) = WithTables(ColumnsAt(6), {"token_usage_log"})
    /\ \A c, t : WithTables(c, {t}) = c \cup {Entire(t)}
<1>1. \A t : {Entire(s) : s \in {t}} = {Entire(t)}
  OBVIOUS
<1>2. ColumnsAt(1) = WithTables(ColumnsAt(0), FirstTables)
  BY ColumnsGrow DEF WithTables
<1>3. ASSUME NEW c, NEW t PROVE WithTables(c, {t}) = c \cup {Entire(t)}
  BY <1>1 DEF WithTables
<1>4. WithTables(ColumnsAt(1), {"users"}) = ColumnsAt(1) \cup {Entire("users")}
  BY <1>3
<1>5. WithTables(ColumnsAt(2), {"system_settings"}) = ColumnsAt(2) \cup {Entire("system_settings")}
  BY <1>3
<1>6. WithTables(ColumnsAt(6), {"token_usage_log"}) = ColumnsAt(6) \cup {Entire("token_usage_log")}
  BY <1>3
<1> QED BY <1>2, <1>3, <1>4, <1>5, <1>6, ColumnsGrow

LEMMA Minus ==
    ASSUME NEW A, NEW t, \A d \in A : d[1] # t
    PROVE  ColumnsOutside(WithTables(A, {t}), {t}) = A
<1>1. WithTables(A, {t}) = A \cup {Entire(t)} /\ Entire(t)[1] = t
  BY TablesGrow DEF Entire
<1> QED BY <1>1 DEF ColumnsOutside

LEMMA ColumnsShrink ==
    /\ ColumnsOutside(ColumnsAt(1), FirstTables) = {}
    /\ ColumnsOutside(ColumnsAt(2), {"users"}) = ColumnsAt(1)
    /\ ColumnsOutside(ColumnsAt(3), {"system_settings"}) = ColumnsAt(2)
    /\ ColumnsAt(4) \ {<<"match_request_items", "original_row_json">>} = ColumnsAt(3)
    /\ ColumnsAt(5) \ {<<"users", "must_change_password">>} = ColumnsAt(4)
    /\ ColumnsOutside(ColumnsAt(7), {"token_usage_log"}) = ColumnsAt(6)
    /\ ColumnsOutside((ColumnsAt(10) \ {<<"golden_labels", "is_active">>})
                          \ {<<"golden_labels", "version">>}, {"audit_log"})
           \ {<<"match_request_items", "review_notes">>} = ColumnsAt(9)
    /\ (ColumnsAt(11) \ {<<"match_requests", "job_payload_json">>})
           \ {<<"match_requests", "job_name">>} = ColumnsAt(10)
<1> DEFINE original == <<"match_request_items", "original_row_json">>
           must == <<"users", "must_change_password">>
           notes == <<"match_request_items", "review_notes">>
           version == <<"golden_labels", "version">>
           active == <<"golden_labels", "is_active">>
           name == <<"match_requests", "job_name">>
           payload == <<"match_requests", "job_payload_json">>
<1>1. /\ original[1] = "match_request_items" /\ original[2] = "original_row_json"
      /\ must[1] = "users" /\ must[2] = "must_change_password"
      /\ notes[1] = "match_request_items" /\ notes[2] = "review_notes"
      /\ version[1] = "golden_labels" /\ version[2] = "version"
      /\ active[1] = "golden_labels" /\ active[2] = "is_active"
      /\ name[1] = "match_requests" /\ name[2] = "job_name"
      /\ payload[1] = "match_requests" /\ payload[2] = "job_payload_json"
  OBVIOUS
<1>2. \A t : Entire(t)[1] = t /\ Entire(t)[2] = ""
  BY DEF Entire
<1>3. /\ "users" \notin FirstTables /\ "system_settings" \notin FirstTables
      /\ "token_usage_log" \notin FirstTables /\ "audit_log" \notin FirstTables
      /\ {"match_request_items", "golden_labels", "match_requests"} \subseteq FirstTables
  BY DEF FirstTables
<1>4. /\ ColumnsAt(1) = {Entire(t) : t \in FirstTables}
      /\ ColumnsAt(2) = ColumnsAt(1) \cup {Entire("users")}
      /\ ColumnsAt(3) = ColumnsAt(2) \cup {Entire("system_settings")}
      /\ ColumnsAt(4) = ColumnsAt(3) \cup {original}
      /\ ColumnsAt(5) = ColumnsAt(4) \cup {must}
      /\ ColumnsAt(6) = ColumnsAt(5)
      /\ ColumnsAt(7) = ColumnsAt(6) \cup {Entire("token_usage_log")}
      /\ ColumnsAt(9) = ColumnsAt(7)
      /\ ColumnsAt(10) = (((ColumnsAt(9) \cup {notes}) \cup {Entire("audit_log")})
                              \cup {version}) \cup {active}
      /\ ColumnsAt(11) = (ColumnsAt(10) \cup {name}) \cup {payload}
  BY ColumnsGrow
<1>c1. ColumnsAt(1) = {Entire(t) : t \in FirstTables}
  BY <1>4
<1>c2. ColumnsAt(2) = ColumnsAt(1) \cup {Entire("users")}
  BY <1>4
<1>c3. ColumnsAt(3) = ColumnsAt(2) \cup {Entire("system_settings")}
  BY <1>4
<1>c7. ColumnsAt(7) = ColumnsAt(6) \cup {Entire("token_usage_log")} /\ ColumnsAt(9) = ColumnsAt(7)
  BY <1>4
<1>c10. ColumnsAt(10) = (((ColumnsAt(9) \cup {notes}) \cup {Entire("audit_log")})
                              \cup {version}) \cup {active}
  BY <1>4
<1>e. /\ Entire("users")[1] = "users" /\ Entire("users")[2] = ""
      /\ Entire("system_settings")[1] = "system_settings" /\ Entire("system_settings")[2] = ""
      /\ Entire("token_usage_log")[1] = "token_usage_log" /\ Entire("token_usage_log")[2] = ""
      /\ Entire("audit_log")[1] = "audit_log" /\ Entire("audit_log")[2] = ""
  BY <1>2
<1> HIDE DEF original, must, notes, version, active, name, payload
<1>5. \A d \in ColumnsAt(1) : d[1] \in FirstTables /\ d[2] = ""
  BY <1>2, <1>c1
<1>6. \A d \in ColumnsAt(2) : d[1] \in FirstTables \cup {"users"} /\ d[2] = ""
  BY <1>2, <1>4, <1>5
<1>7. \A d \in ColumnsAt(3) : d[1] \in FirstTables \cup {"users", "system_settings"} /\ d[2] = ""
  BY <1>2, <1>4, <1>6
<1>8. \A d \in ColumnsAt(4) : d[1] \in FirstTables \cup {"users", "system_settings"}
                              /\ d[2] \in {"", "original_row_json"}
  BY <1>1, <1>3, <1>4, <1>7
<1>9. \A d \in ColumnsAt(6) : d[1] \in FirstTables \cup {"users", "system_settings"}
                              /\ d[2] \in {"", "original_row_json", "must_change_password"}
  BY <1>1, <1>3, <1>4, <1>8
<1>10. \A d \in ColumnsAt(9) :
          /\ d[1] \in FirstTables \cup {"users", "system_settings", "token_usage_log"}
          /\ d[2] \in {"", "original_row_json", "must_change_password"}
  BY <1>e, <1>c7, <1>9
<1>11. ColumnsOutside(ColumnsAt(1), FirstTables) = {}
  BY <1>5 DEF ColumnsOutside
<1>12. ColumnsOutside(ColumnsAt(2), {"users"}) = ColumnsAt(1)
  <2>1. \A d \in ColumnsAt(1) : d[1] # "users"
    BY <1>3, <1>5
  <2> QED BY <2>1, Minus, TablesGrow
<1>13. ColumnsOutside(ColumnsAt(3), {"system_settings"}) = ColumnsAt(2)
  <2>1. \A d \in ColumnsAt(2) : d[1] # "system_settings"
    BY <1>3, <1>6
  <2> QED BY <2>1, Minus, TablesGrow
<1>14. ColumnsAt(4) \ {original} = ColumnsAt(3)
  BY <1>1, <1>4, <1>7
<1>15. ColumnsAt(5) \ {must} = ColumnsAt(4)
  BY <1>1, <1>4, <1>8
<1>16. ColumnsOutside(ColumnsAt(7), {"token_usage_log"}) = ColumnsAt(6)
  <2>1. \A d \in ColumnsAt(6) : d[1] # "token_usage_log"
    BY <1>3, <1>9
  <2> QED BY <2>1, Minus, TablesGrow
<1>17. ColumnsOutside((ColumnsAt(10) \ {active}) \ {version}, {"audit_log"}) \ {notes}
           = ColumnsAt(9)
  <2>1. (ColumnsAt(10) \ {active}) \ {version} = (ColumnsAt(9) \cup {notes}) \cup {Entire("audit_log")}
    BY <1>1, <1>e, <1>c10, <1>10
  <2>2. ColumnsOutside((ColumnsAt(10) \ {active}) \ {version}, {"audit_log"})
            = ColumnsAt(9) \cup {notes}
    <3>1. \A d \in ColumnsAt(9) \cup {notes} : d[1] # "audit_log"
      BY <1>1, <1>3, <1>10
    <3>2. (ColumnsAt(10) \ {active}) \ {version} = WithTables(ColumnsAt(9) \cup {notes}, {"audit_log"})
      BY <2>1, TablesGrow
    <3> QED BY <3>1, <3>2, Minus
  <2> QED BY <1>1, <1>10, <2>2
<1>18. (ColumnsAt(11) \ {payload}) \ {name} = ColumnsAt(10)
  <2>1. \A d \in ColumnsAt(10) : d[2] \notin {"job_name", "job_payload_json"}
    BY <1>1, <1>2, <1>4, <1>10
  <2> QED BY <1>1, <1>4, <2>1
<1> USE DEF original, must, notes, version, active, name, payload
<1> QED BY <1>11, <1>12, <1>13, <1>14, <1>15, <1>16, <1>17, <1>18

\* What the constraints become when tables are dropped.
LEMMA DefinedGrow ==
    /\ DefinedAt(0) = {} /\ DefinedAt(1) = DefinedAt(0) \cup FirstColumns
    /\ DefinedAt(2) = DefinedAt(1) \cup UserColumns
    /\ DefinedAt(3) = DefinedAt(2) \cup SettingColumns
    /\ DefinedAt(4) = Defining(DefinedAt(3), "match_request_items", "original_row_json", Yes)
    /\ DefinedAt(5) = Defining(DefinedAt(4), "users", "must_change_password", No)
    /\ DefinedAt(6) = DefinedAt(5) /\ DefinedAt(7) = DefinedAt(6) \cup UsageColumns
    /\ DefinedAt(8) = DefinedAt(7) /\ DefinedAt(9) = DefinedAt(8)
    /\ DefinedAt(10) = Defining(Defining(
           Defining(DefinedAt(9), "match_request_items", "review_notes", Yes) \cup AuditColumns,
           "golden_labels", "version", Yes), "golden_labels", "is_active", No)
    /\ DefinedAt(11) = Defining(Defining(DefinedAt(10), "match_requests", "job_name", No),
                                "match_requests", "job_payload_json", No)
<1> DEFINE F == FirstColumns
           U == UserColumns
           S == SettingColumns
           G == UsageColumns
           A == AuditColumns
           original == Attribute("match_request_items", "original_row_json", Yes)
           must == Attribute("users", "must_change_password", No)
           notes == Attribute("match_request_items", "review_notes", Yes)
           version == Attribute("golden_labels", "version", Yes)
           active == Attribute("golden_labels", "is_active", No)
           name == Attribute("match_requests", "job_name", No)
           payload == Attribute("match_requests", "job_payload_json", No)
<1>1. \A n : DefinedAt(n) =
          Since(1, n, F) \cup Since(2, n, U) \cup Since(3, n, S) \cup Since(4, n, {original})
              \cup Since(5, n, {must}) \cup Since(7, n, G) \cup Since(10, n, A)
              \cup Since(10, n, {notes, version, active}) \cup Since(11, n, {name, payload})
  BY DEF DefinedAt
<1>2. \A c : /\ Defining(c, "match_request_items", "original_row_json", Yes) = c \cup {original}
             /\ Defining(c, "users", "must_change_password", No) = c \cup {must}
             /\ Defining(c, "match_request_items", "review_notes", Yes) = c \cup {notes}
             /\ Defining(c, "golden_labels", "version", Yes) = c \cup {version}
             /\ Defining(c, "golden_labels", "is_active", No) = c \cup {active}
             /\ Defining(c, "match_requests", "job_name", No) = c \cup {name}
             /\ Defining(c, "match_requests", "job_payload_json", No) = c \cup {payload}
  BY DEF Defining
<1> HIDE DEF F, U, S, G, A, original, must, notes, version, active, name, payload
<1>3. /\ DefinedAt(0) = {} /\ DefinedAt(1) = F /\ DefinedAt(2) = F \cup U
      /\ DefinedAt(3) = F \cup U \cup S
  BY <1>1 DEF Since
<1>4. /\ DefinedAt(4) = F \cup U \cup S \cup {original}
      /\ DefinedAt(5) = F \cup U \cup S \cup {original} \cup {must}
      /\ DefinedAt(6) = F \cup U \cup S \cup {original} \cup {must}
  BY <1>1 DEF Since
<1>5. /\ DefinedAt(7) = F \cup U \cup S \cup {original} \cup {must} \cup G
      /\ DefinedAt(8) = F \cup U \cup S \cup {original} \cup {must} \cup G
      /\ DefinedAt(9) = F \cup U \cup S \cup {original} \cup {must} \cup G
  BY <1>1 DEF Since
<1>6. DefinedAt(10) = F \cup U \cup S \cup {original} \cup {must} \cup G \cup A
                          \cup {notes, version, active}
  BY <1>1 DEF Since
<1>7. DefinedAt(11) = F \cup U \cup S \cup {original} \cup {must} \cup G \cup A
                          \cup {notes, version, active} \cup {name, payload}
  BY <1>1 DEF Since
<1>8. DefinedAt(10) = ((((DefinedAt(9) \cup {notes}) \cup A) \cup {version}) \cup {active})
  BY <1>5, <1>6
<1>9. DefinedAt(11) = (DefinedAt(10) \cup {name}) \cup {payload}
  BY <1>6, <1>7
<1>10. /\ DefinedAt(1) = DefinedAt(0) \cup F /\ DefinedAt(2) = DefinedAt(1) \cup U
       /\ DefinedAt(3) = DefinedAt(2) \cup S /\ DefinedAt(4) = DefinedAt(3) \cup {original}
       /\ DefinedAt(5) = DefinedAt(4) \cup {must} /\ DefinedAt(6) = DefinedAt(5)
       /\ DefinedAt(7) = DefinedAt(6) \cup G /\ DefinedAt(8) = DefinedAt(7)
       /\ DefinedAt(9) = DefinedAt(8)
  BY <1>3, <1>4, <1>5
<1> QED BY <1>2, <1>3, <1>8, <1>9, <1>10 DEF F, U, S, G, A

\* The columns of some tables name no others, and each of them has one.
LEMMA ColumnsNamed ==
    ASSUME NEW required, NEW optional
    PROVE  /\ \A d \in ColumnsOf(required, optional) :
                 /\ d.table \in DOMAIN required
                 /\ d.column \in required[d.table] \cup optional[d.table]
           /\ \A t, c : Attribute(t, c, No) \in ColumnsOf(required, optional)
                            <=> t \in DOMAIN required /\ c \in required[t]
           /\ \A t, c : Attribute(t, c, Yes) \in ColumnsOf(required, optional)
                            <=> t \in DOMAIN required /\ c \in optional[t]
           /\ \A d \in ColumnsOf(required, optional) :
                 \E t, c : d = Attribute(t, c, No) \/ d = Attribute(t, c, Yes)
<1>1. No # Yes
  BY Zenon DEF No, Yes
<1>2. ASSUME NEW d
      PROVE  d \in ColumnsOf(required, optional)
                 <=> \E t \in DOMAIN required : \/ \E c \in required[t] : d = Attribute(t, c, No)
                                              \/ \E c \in optional[t] : d = Attribute(t, c, Yes)
  <2> DEFINE here(t) == {Attribute(t, c, No) : c \in required[t]} \cup {Attribute(t, c, Yes) : c \in optional[t]}
  <2>1. ColumnsOf(required, optional) = UNION {here(t) : t \in DOMAIN required}
    BY Zenon DEF ColumnsOf, No, Yes
  <2>2. \A t : d \in here(t) <=> \/ \E c \in required[t] : d = Attribute(t, c, No)
                               \/ \E c \in optional[t] : d = Attribute(t, c, Yes)
    OBVIOUS
  <2> HIDE DEF here
  <2>3. d \in UNION {here(t) : t \in DOMAIN required} <=> \E t \in DOMAIN required : d \in here(t)
    OBVIOUS
  <2> QED BY <2>1, <2>2, <2>3
<1>3. \A t, c, n : Attribute(t, c, n).table = t /\ Attribute(t, c, n).column = c /\ Attribute(t, c, n).null = n
  BY DEF Attribute
<1> QED BY <1>1, <1>2, <1>3

Fresh == {"original_row_json", "review_notes", "must_change_password", "job_name",
          "job_payload_json", "version"}

\* No first column has the name of a later one.
LEMMA FirstNamed ==
    /\ \A d \in FirstColumns :
          /\ d.table \in FirstTables /\ d.column \notin Fresh
          /\ d.table = "golden_labels" => d.column # "is_active"
    /\ \A t \in FirstTables : \E d \in FirstColumns : d.table = t
<1>1. DOMAIN FirstRequired = FirstTables
  BY DEF FirstRequired, FirstTables
<1>2. ASSUME NEW t \in FirstTables
      PROVE  FirstRequired[t] \cap Fresh = {} /\ FirstOptional[t] \cap Fresh = {}
  BY DEF FirstRequired, FirstOptional, FirstTables, Fresh
<1>3. "is_active" \notin FirstRequired["golden_labels"] \cup FirstOptional["golden_labels"]
  BY DEF FirstRequired, FirstOptional
<1>4. ASSUME NEW t \in FirstTables PROVE FirstRequired[t] # {}
  BY DEF FirstRequired, FirstTables
<1>5. ASSUME NEW d \in FirstColumns
      PROVE  /\ d.table \in FirstTables /\ d.column \notin Fresh
             /\ d.table = "golden_labels" => d.column # "is_active"
  BY <1>1, <1>2, <1>3, ColumnsNamed DEF FirstColumns
<1>6. ASSUME NEW t \in FirstTables PROVE \E d \in FirstColumns : d.table = t
  <2>1. PICK c \in FirstRequired[t] : TRUE
    BY <1>4
  <2>2. Attribute(t, c, No) \in FirstColumns
    BY <1>1, ColumnsNamed DEF FirstColumns
  <2> QED BY <2>2 DEF Attribute
<1> QED BY <1>5, <1>6

LEMMA OthersNamed ==
    /\ \A d \in UserColumns : d.table = "users" /\ d.column \notin Fresh
    /\ \A d \in SettingColumns : d.table = "system_settings" /\ d.column \notin Fresh
    /\ \A d \in UsageColumns : d.table = "token_usage_log" /\ d.column \notin Fresh
    /\ \A d \in AuditColumns : d.table = "audit_log" /\ d.column \notin Fresh
    /\ UserColumns # {} /\ SettingColumns # {} /\ UsageColumns # {} /\ AuditColumns # {}
<1>1. (\A d \in UserColumns : d.table = "users" /\ d.column \notin Fresh)
         /\ UserColumns # {}
  <2> DEFINE r == [users |-> {"user_id", "username", "hashed_password", "role", "is_active",
                        "created_at", "updated_at"}]
             o == [users |-> {"full_name"}]
  <2>1. UserColumns = ColumnsOf(r, o)
    BY Zenon DEF UserColumns
  <2>2. /\ DOMAIN r = {"users"} /\ r["users"] \cap Fresh = {} /\ o["users"] \cap Fresh = {}
        /\ "user_id" \in r["users"]
    BY DEF Fresh
  <2> HIDE DEF r, o
  <2>3. Attribute("users", "user_id", No) \in UserColumns
    BY <2>1, <2>2, ColumnsNamed
  <2> QED BY <2>1, <2>2, <2>3, ColumnsNamed
<1>2. (\A d \in SettingColumns : d.table = "system_settings" /\ d.column \notin Fresh)
         /\ SettingColumns # {}
  <2> DEFINE r == [system_settings |-> {"key"}]
             o == [system_settings |-> {"value", "updated_at"}]
  <2>1. SettingColumns = ColumnsOf(r, o)
    BY Zenon DEF SettingColumns
  <2>2. /\ DOMAIN r = {"system_settings"} /\ r["system_settings"] \cap Fresh = {} /\ o["system_settings"] \cap Fresh = {}
        /\ "key" \in r["system_settings"]
    BY DEF Fresh
  <2> HIDE DEF r, o
  <2>3. Attribute("system_settings", "key", No) \in SettingColumns
    BY <2>1, <2>2, ColumnsNamed
  <2> QED BY <2>1, <2>2, <2>3, ColumnsNamed
<1>3. (\A d \in UsageColumns : d.table = "token_usage_log" /\ d.column \notin Fresh)
         /\ UsageColumns # {}
  <2> DEFINE r == [token_usage_log |-> {"id", "operation", "provider", "model", "prompt_tokens",
                                  "completion_tokens", "total_tokens", "created_at"}]
             o == [token_usage_log |-> {"request_id", "estimated_cost_usd"}]
  <2>1. UsageColumns = ColumnsOf(r, o)
    BY Zenon DEF UsageColumns
  <2>2. /\ DOMAIN r = {"token_usage_log"} /\ r["token_usage_log"] \cap Fresh = {} /\ o["token_usage_log"] \cap Fresh = {}
        /\ "id" \in r["token_usage_log"]
    BY DEF Fresh
  <2> HIDE DEF r, o
  <2>3. Attribute("token_usage_log", "id", No) \in UsageColumns
    BY <2>1, <2>2, ColumnsNamed
  <2> QED BY <2>1, <2>2, <2>3, ColumnsNamed
<1>4. (\A d \in AuditColumns : d.table = "audit_log" /\ d.column \notin Fresh)
         /\ AuditColumns # {}
  <2> DEFINE r == [audit_log |-> {"log_id", "action", "entity_type"}]
             o == [audit_log |-> {"entity_id", "user_id", "username", "details", "ip_address",
                            "created_at"}]
  <2>1. AuditColumns = ColumnsOf(r, o)
    BY Zenon DEF AuditColumns
  <2>2. /\ DOMAIN r = {"audit_log"} /\ r["audit_log"] \cap Fresh = {} /\ o["audit_log"] \cap Fresh = {}
        /\ "log_id" \in r["audit_log"]
    BY DEF Fresh
  <2> HIDE DEF r, o
  <2>3. Attribute("audit_log", "log_id", No) \in AuditColumns
    BY <2>1, <2>2, ColumnsNamed
  <2> QED BY <2>1, <2>2, <2>3, ColumnsNamed
<1> QED BY <1>1, <1>2, <1>3, <1>4

\* What a migration has added it takes back.
LEMMA OutsideAgain ==
    ASSUME NEW A, NEW B, NEW T, \A d \in A : d.table \notin T, \A d \in B : d.table \in T
    PROVE  DefinedOutside(A \cup B, T) = A
BY DEF DefinedOutside

LEMMA UndefinedAgain ==
    ASSUME NEW A, NEW t, NEW c, NEW null, \A d \in A : ~(d.table = t /\ d.column = c)
    PROVE  Undefining(Defining(A, t, c, null), t, c) = A
BY DEF Undefining, Defining, Attribute

LEMMA DefinedShrink ==
    /\ DefinedOutside(DefinedAt(1), FirstTables) = {}
    /\ DefinedOutside(DefinedAt(2), {"users"}) = DefinedAt(1)
    /\ DefinedOutside(DefinedAt(3), {"system_settings"}) = DefinedAt(2)
    /\ Undefining(DefinedAt(4), "match_request_items", "original_row_json") = DefinedAt(3)
    /\ Undefining(DefinedAt(5), "users", "must_change_password") = DefinedAt(4)
    /\ DefinedOutside(DefinedAt(7), {"token_usage_log"}) = DefinedAt(6)
    /\ Undefining(DefinedOutside(Undefining(Undefining(DefinedAt(10),
                      "golden_labels", "is_active"), "golden_labels", "version"),
                      {"audit_log"}), "match_request_items", "review_notes") = DefinedAt(9)
    /\ Undefining(Undefining(DefinedAt(11), "match_requests", "job_payload_json"),
                  "match_requests", "job_name") = DefinedAt(10)
<1> DEFINE i == "match_request_items"
           g == "golden_labels"
           q == "match_requests"
           a == Defining(DefinedAt(9), i, "review_notes", Yes)
           b == a \cup AuditColumns
           e == Defining(b, g, "version", Yes)
           f == Defining(DefinedAt(10), q, "job_name", No)
           others == {"users", "system_settings", "token_usage_log", "audit_log"}
<1>1. others \cap FirstTables = {}
  BY DEF FirstTables
<1>2. \A c, t, n, v : Defining(c, t, n, v) = c \cup {Attribute(t, n, v)}
                        /\ Attribute(t, n, v).table = t /\ Attribute(t, n, v).column = n
  BY DEF Defining, Attribute
<1>3. \A d \in DefinedAt(1) :
          /\ d.table \in FirstTables /\ d.column \notin Fresh
          /\ d.table = g => d.column # "is_active"
  BY DefinedGrow, FirstNamed
<1>4. \A d \in DefinedAt(3) :
          /\ d.table \in FirstTables \cup {"users", "system_settings"} /\ d.column \notin Fresh
          /\ d.table = g => d.column # "is_active"
  BY <1>3, DefinedGrow, OthersNamed
<1>5. \A d \in DefinedAt(4) :
          /\ d.table \in FirstTables \cup {"users", "system_settings"}
          /\ d.column \notin Fresh \ {"original_row_json"}
          /\ d.table = g => d.column # "is_active"
  BY <1>2, <1>4, DefinedGrow DEF Fresh, FirstTables
<1>6. \A d \in DefinedAt(6) :
          /\ d.table \in FirstTables \cup {"users", "system_settings"}
          /\ d.column \notin Fresh \ {"original_row_json", "must_change_password"}
          /\ d.table = g => d.column # "is_active"
  BY <1>2, <1>5, DefinedGrow DEF Fresh
<1>7. \A d \in DefinedAt(9) :
          /\ d.table \in FirstTables \cup {"users", "system_settings", "token_usage_log"}
          /\ d.column \notin Fresh \ {"original_row_json", "must_change_password"}
          /\ d.table = g => d.column # "is_active"
  BY <1>6, DefinedGrow, OthersNamed
<1>8. \A d \in a :
          /\ d.table \in FirstTables \cup {"users", "system_settings", "token_usage_log"}
          /\ d.column \notin {"version", "job_name", "job_payload_json"}
          /\ d.table = g => d.column # "is_active"
  BY <1>2, <1>7 DEF Fresh, FirstTables
<1>9. \A d \in b : /\ d.column \notin {"version", "job_name", "job_payload_json"}
                   /\ d.table = g => d.column # "is_active"
  BY <1>8, OthersNamed DEF Fresh
<1>10. \A d \in e : /\ d.column \notin {"job_name", "job_payload_json"}
                    /\ d.table = g => d.column # "is_active"
  BY <1>2, <1>9
<1>11. DefinedAt(10) = Defining(e, g, "is_active", No)
       /\ DefinedAt(11) = Defining(f, q, "job_payload_json", No)
  BY DefinedGrow
<1>12. \A d \in DefinedAt(10) : d.column \notin {"job_name", "job_payload_json"}
  BY <1>2, <1>10, <1>11
<1>13. \A d \in f : d.column # "job_payload_json"
  BY <1>2, <1>12
<1>14. DefinedOutside(DefinedAt(1), FirstTables) = {}
  BY <1>3 DEF DefinedOutside
<1>15. DefinedOutside(DefinedAt(2), {"users"}) = DefinedAt(1)
  <2>1. \A d \in DefinedAt(1) : d.table \notin {"users"}
    BY <1>1, <1>3
  <2>2. \A d \in UserColumns : d.table \in {"users"}
    BY OthersNamed
  <2>3. DefinedOutside(DefinedAt(1) \cup UserColumns, {"users"}) = DefinedAt(1)
    BY <2>1, <2>2, OutsideAgain
  <2> QED BY <2>3, DefinedGrow
<1>16. DefinedOutside(DefinedAt(3), {"system_settings"}) = DefinedAt(2)
  <2>1. \A d \in DefinedAt(2) : d.table \notin {"system_settings"}
    BY <1>1, <1>3, DefinedGrow, OthersNamed
  <2>2. \A d \in SettingColumns : d.table \in {"system_settings"}
    BY OthersNamed
  <2>3. DefinedOutside(DefinedAt(2) \cup SettingColumns, {"system_settings"}) = DefinedAt(2)
    BY <2>1, <2>2, OutsideAgain
  <2> QED BY <2>3, DefinedGrow
<1>17. Undefining(DefinedAt(4), "match_request_items", "original_row_json") = DefinedAt(3)
  BY <1>4, DefinedGrow, UndefinedAgain DEF Fresh
<1>18. Undefining(DefinedAt(5), "users", "must_change_password") = DefinedAt(4)
  BY <1>5, DefinedGrow, UndefinedAgain DEF Fresh
<1>19. DefinedOutside(DefinedAt(7), {"token_usage_log"}) = DefinedAt(6)
  <2>1. \A d \in DefinedAt(6) : d.table \notin {"token_usage_log"}
    BY <1>1, <1>6
  <2>2. \A d \in UsageColumns : d.table \in {"token_usage_log"}
    BY OthersNamed
  <2>3. DefinedOutside(DefinedAt(6) \cup UsageColumns, {"token_usage_log"}) = DefinedAt(6)
    BY <2>1, <2>2, OutsideAgain
  <2> QED BY <2>3, DefinedGrow
<1>20. Undefining(DefinedAt(10), g, "is_active") = e
  <2> HIDE DEF e
  <2> QED BY <1>10, <1>11, UndefinedAgain
<1>21. Undefining(e, g, "version") = b
  <2> HIDE DEF b
  <2> QED BY <1>9, UndefinedAgain
<1>22. DefinedOutside(b, {"audit_log"}) = a
  <2>1. \A d \in a : d.table \notin {"audit_log"}
    BY <1>1, <1>8
  <2>2. \A d \in AuditColumns : d.table \in {"audit_log"}
    BY OthersNamed
  <2> HIDE DEF a
  <2>3. DefinedOutside(a \cup AuditColumns, {"audit_log"}) = a
    BY <2>1, <2>2, OutsideAgain
  <2> QED BY <2>3
<1>23. Undefining(a, i, "review_notes") = DefinedAt(9)
  BY <1>7, UndefinedAgain DEF Fresh
<1>24. Undefining(DefinedAt(11), q, "job_payload_json") = f
  <2> HIDE DEF f
  <2> QED BY <1>11, <1>13, UndefinedAgain
<1>25. Undefining(f, q, "job_name") = DefinedAt(10)
  BY <1>12, UndefinedAgain
<1> QED BY <1>14, <1>15, <1>16, <1>17, <1>18, <1>19, <1>20, <1>21, <1>22, <1>23, <1>24, <1>25

LEMMA ConstraintsShrink ==
    /\ ReferencesOutside(ReferencesAt(1), FirstTables) = {}
    /\ Outside(UniquesAt(1), FirstTables) = {}
    /\ Outside(ChecksAt(1), FirstTables) = {}
    /\ ReferencesOutside(ReferencesAt(2), {"users"}) = ReferencesAt(1)
    /\ Outside(UniquesAt(2), {"users"}) = UniquesAt(1)
    /\ Outside(ChecksAt(2), {"users"}) = ChecksAt(1)
    /\ ReferencesOutside(ReferencesAt(2), {"system_settings"}) = ReferencesAt(2)
    /\ Outside(UniquesAt(2), {"system_settings"}) = UniquesAt(2)
    /\ Outside(ChecksAt(2), {"system_settings"}) = ChecksAt(2)
    /\ ReferencesOutside(ReferencesAt(7), {"token_usage_log"}) = ReferencesAt(6)
    /\ Outside(UniquesAt(7), {"token_usage_log"}) = UniquesAt(6)
    /\ Outside(ChecksAt(7), {"token_usage_log"}) = ChecksAt(6)
    /\ ReferencesOutside(ReferencesAt(9), {"audit_log"}) = ReferencesAt(9)
    /\ Outside(UniquesAt(9), {"audit_log"}) = UniquesAt(9)
    /\ Outside(ChecksAt(9), {"audit_log"}) = ChecksAt(9)
<1>1. "users" \notin FirstTables /\ "system_settings" \notin FirstTables
      /\ "token_usage_log" \notin FirstTables /\ "audit_log" \notin FirstTables
  BY DEF FirstTables
<1>2. /\ \A f \in ReferencesAt(1) : f.from \in FirstTables /\ f.to \in FirstTables
      /\ ReferencesAt(2) = ReferencesAt(1) /\ ReferencesAt(6) = ReferencesAt(1)
      /\ ReferencesAt(7) = ReferencesAt(6) \cup {Usage} /\ Usage.from = "token_usage_log"
      /\ \A f \in ReferencesAt(9) : f.from \in FirstTables \cup {"token_usage_log"}
                                    /\ f.to \in FirstTables
  <2>1. \A f \in ReferencesAt(1) : f.from \in FirstTables /\ f.to \in FirstTables
    BY ReferencesGrow
  <2>2. /\ ReferencesAt(2) = ReferencesAt(1) /\ ReferencesAt(6) = ReferencesAt(1)
        /\ ReferencesAt(7) = ReferencesAt(6) \cup {Usage}
    BY ReferencesGrow
  <2>3. Usage.from = "token_usage_log" /\ Usage.to = "match_requests"
        /\ \A rule : OfSuppliers("match_requests", rule).from = "match_requests"
                     /\ OfSuppliers("match_requests", rule).to = "supplier_profiles"
    BY DEF Usage, Reference, OfSuppliers
  <2>4. ReferencesAt(9) \subseteq ReferencesAt(7) \cup {OfSuppliers("match_requests", "null")}
    BY ReferencesGrow
  <2> QED BY <2>1, <2>2, <2>3, <2>4 DEF FirstTables
<1>3. /\ \A f \in UniquesAt(1) : f.table \in FirstTables
      /\ UniquesAt(2) = UniquesAt(1) \cup {Unique("users", {"username"})}
      /\ Unique("users", {"username"}).table = "users"
      /\ UniquesAt(6) = UniquesAt(2) /\ UniquesAt(7) = UniquesAt(2)
      /\ \A f \in UniquesAt(9) : f.table \in FirstTables \cup {"users"}
  <2>1. /\ \A f \in UniquesAt(1) : f.table \in FirstTables
        /\ UniquesAt(2) = UniquesAt(1) \cup {Unique("users", {"username"})}
        /\ UniquesAt(6) = UniquesAt(2) /\ UniquesAt(7) = UniquesAt(2)
    BY UniquesGrow
  <2>2. \A t, c : Unique(t, c).table = t
    BY DEF Unique
  <2>3. UniquesAt(9) = (UniquesAt(7) \cup {Unique("supplier_mappings", {"supplier_id", "supplier_raw_text"})})
                           \cup {Unique("catalog_products", {"source_hash"})}
    BY UniquesGrow
  <2> QED BY <2>1, <2>2, <2>3 DEF FirstTables
<1>4. /\ \A f \in ChecksAt(1) : f.table \in FirstTables
      /\ ChecksAt(2) = ChecksAt(1) \cup {Check("users", "role", FirstRoles)}
      /\ Check("users", "role", FirstRoles).table = "users"
      /\ ChecksAt(6) = ChecksAt(2) /\ ChecksAt(7) = ChecksAt(2) /\ ChecksAt(9) = ChecksAt(2)
  BY ChecksGrow DEF Check
<1>5. /\ ReferencesOutside(ReferencesAt(1), FirstTables) = {}
      /\ ReferencesOutside(ReferencesAt(2), {"users"}) = ReferencesAt(1)
      /\ ReferencesOutside(ReferencesAt(2), {"system_settings"}) = ReferencesAt(2)
      /\ ReferencesOutside(ReferencesAt(7), {"token_usage_log"}) = ReferencesAt(6)
      /\ ReferencesOutside(ReferencesAt(9), {"audit_log"}) = ReferencesAt(9)
  <2>1. \A f \in ReferencesAt(1) : {f.from, f.to} \cap FirstTables # {}
    BY <1>2
  <2>2. \A f \in ReferencesAt(1) : {f.from, f.to} \cap {"users"} = {}
                                   /\ {f.from, f.to} \cap {"system_settings"} = {}
                                   /\ {f.from, f.to} \cap {"token_usage_log"} = {}
    BY <1>1, <1>2
  <2>3. \A f \in ReferencesAt(9) : {f.from, f.to} \cap {"audit_log"} = {}
    BY <1>1, <1>2
  <2>4. {Usage.from, Usage.to} \cap {"token_usage_log"} # {}
    BY <1>2
  <2> QED BY <1>2, <2>1, <2>2, <2>3, <2>4 DEF ReferencesOutside
<1>6. /\ Outside(UniquesAt(1), FirstTables) = {}
      /\ Outside(UniquesAt(2), {"users"}) = UniquesAt(1)
      /\ Outside(UniquesAt(2), {"system_settings"}) = UniquesAt(2)
      /\ Outside(UniquesAt(7), {"token_usage_log"}) = UniquesAt(6)
      /\ Outside(UniquesAt(9), {"audit_log"}) = UniquesAt(9)
  BY <1>1, <1>3 DEF Outside
<1>7. /\ Outside(ChecksAt(1), FirstTables) = {}
      /\ Outside(ChecksAt(2), {"users"}) = ChecksAt(1)
      /\ Outside(ChecksAt(2), {"system_settings"}) = ChecksAt(2)
      /\ Outside(ChecksAt(7), {"token_usage_log"}) = ChecksAt(6)
      /\ Outside(ChecksAt(9), {"audit_log"}) = ChecksAt(9)
  BY <1>1, <1>4 DEF Outside
<1> QED BY <1>5, <1>6, <1>7

-----------------------------------------------------------------------------
\* What each migration makes of the database of the revision that it starts from.

\* What the settings say, of these or of all.
SaidBy(x, ids) == UNION {r.has.value : r \in {r \in OfTable(x, "system_settings") : r.id \in ids}}

SingleKeys == {KeyOf(p) : p \in OldProviders}
Filled(said) == {k \in said : k[1] \in OldProviders /\ k[2] = "key" /\ k[3] # ""}

\* The settings once the keys are in the registry, and once those that were read are back.
NewRegistry(x) ==
    LET keys == Filled(SaidBy(x, SingleKeys))
    IN  LocalEntry \cup keys \cup {<<k[1], "url", UrlOf(k[1])>> : k \in keys}

GatewayRows(x) ==
    {r \in x : ~(r.table = "system_settings" /\ r.id \in OldKeys \cup {"providers_registry"})}
        \cup {Setting("providers_registry", NewRegistry(x))}

Registry(x) == SaidBy(x, {"providers_registry"})
Named(registry) == {p \in OldProviders : \E k \in registry : k[1] = p /\ k[2] # "broken"}
Readings(registry) == IF Unreadable(registry) THEN SUBSET Named(registry) ELSE {Named(registry)}

KeyRows(x, read) ==
    {r \in x : ~(r.table = "system_settings" /\ r.id = "providers_registry")}
        \cup {KeyBack(Registry(x), p) :
                 p \in {p \in read : KeyOf(p) \notin {r.id : r \in OfTable(x, "system_settings")}}}

\* The rows that 0007 leaves when its statements choose first, second and last.
Deduplicated(x, first, second, last) ==
    DeleteProducts(Repoint(Repoint(Db(SchemaAt(8), x), "match_request_items", "best_product_id", first),
                           "match_candidates", "product_id", second),
                   {p \in DOMAIN last : last[p] # p}).rows

UpRows(n, x) ==
    CASE n \in {1, 2, 3, 7, 8} -> {x}
      [] n = 4 -> {Widened(x, "match_request_items", "original_row_json", Null)}
      [] n = 5 -> {Widened(x, "users", "must_change_password", No)}
      [] n = 6 -> {GatewayRows(x)}
      [] n = 9 -> {Deduplicated(x, first, second, last) :
                      first \in Keepers(Db(SchemaAt(8), x)),
                      second \in Keepers(Db(SchemaAt(8), x)), last \in Keepers(Db(SchemaAt(8), x))}
      [] n = 10 -> {Widened(Widened(Widened(x, "match_request_items", "review_notes", Null),
                                    "golden_labels", "version", Null),
                            "golden_labels", "is_active", Yes)}
      [] n = 11 -> {Widened(Widened(x, "match_requests", "job_name", "batch_match"),
                            "match_requests", "job_payload_json", EmptyJson)}

DownRows(n, x) ==
    CASE n = 1 -> {Rest(x, FirstTables)}
      [] n = 2 -> {Rest(x, {"users"})}
      [] n = 3 -> {Rest(x, {"system_settings"})}
      [] n = 4 -> {Narrowed(x, "match_request_items", "original_row_json")}
      [] n = 5 -> {Narrowed(x, "users", "must_change_password")}
      [] n = 6 -> {KeyRows(x, read) : read \in Readings(Registry(x))}
      [] n = 7 -> {Rest(x, {"token_usage_log"})}
      [] n \in {8, 9} -> {x}
      [] n = 10 -> {Narrowed(Rest(Narrowed(Narrowed(x, "golden_labels", "is_active"),
                                           "golden_labels", "version"), {"audit_log"}),
                             "match_request_items", "review_notes")}
      [] n = 11 -> {Narrowed(Narrowed(x, "match_requests", "job_payload_json"),
                             "match_requests", "job_name")}

Extended(s, r, u, k) ==
    [s EXCEPT !.references = @ \cup r, !.uniques = @ \cup u, !.checks = @ \cup k]

LEMMA ExtendedShape ==
    ASSUME NEW c, NEW r, NEW u, NEW k, NEW x, NEW y, NEW z
    PROVE  Extended(Scheme(c, r, u, k), x, y, z) = Scheme(c, r \cup x, u \cup y, k \cup z)
<1> DEFINE a == r \cup x
           b == u \cup y
           d == k \cup z
<1>1. Extended(Scheme(c, r, u, k), x, y, z)
          = [Scheme(c, r, u, k) EXCEPT !.references = a, !.uniques = b, !.checks = d]
  BY DEF Extended, Scheme
<1>2. [Scheme(c, r, u, k) EXCEPT !.references = a, !.uniques = b, !.checks = d]
          = Scheme(c, a, b, d)
  <2> HIDE DEF a, b, d
  <2>1. [Scheme(c, r, u, k) EXCEPT !.references = a] = Scheme(c, a, u, k)
    BY DEF Scheme
  <2>2. [Scheme(c, a, u, k) EXCEPT !.uniques = b] = Scheme(c, a, b, k)
    BY DEF Scheme
  <2>3. [Scheme(c, a, b, k) EXCEPT !.checks = d] = Scheme(c, a, b, d)
    BY DEF Scheme
  <2> QED BY <2>1, <2>2, <2>3, Zenon
<1> QED BY <1>1, <1>2

LEMMA UpInitShape == ASSUME NEW x PROVE Up(1, Db(SchemaAt(0), x)) = {Db(SchemaAt(1), x)}
<1>1. SchemaAt(0) = Scheme(DefinedAt(0), {}, {}, {})
  BY ReferencesGrow, UniquesGrow, ChecksGrow DEF SchemaAt
<1>2. CreateTables(Db(SchemaAt(0), x), FirstColumns) = Db(Scheme(DefinedAt(1), {}, {}, {}), x)
  BY <1>1, CreatedShape, DefinedGrow
<1>3. InitMatching(InitCatalog(Scheme(DefinedAt(1), {}, {}, {}))) = SchemaAt(1)
  <2> DEFINE r1 == CatalogReferences
             u1 == {Unique("catalog_products", {"onec_ref"})}
             k1 == {Check("catalog_aliases", "alias_type", Aliases),
                    Check("supplier_mappings", "mapping_type", Mappings)}
             r2 == {OfSuppliers("match_requests", "refuse"),
                    Reference("match_request_items", "request_id", "match_requests", "cascade"),
                    Reference("match_request_items", "best_product_id", "catalog_products", "refuse"),
                    Reference("match_request_items", "final_product_id", "catalog_products", "refuse"),
                    Reference("match_candidates", "request_item_id", "match_request_items", "cascade"),
                    OfProducts("match_candidates", "cascade"), OfProducts("golden_labels", "refuse"),
                    OfSuppliers("golden_labels", "refuse"),
                    OfSuppliers("normalization_synonyms", "refuse"),
                    Reference("quality_reports", "index_version_id", "index_versions", "refuse")}
             u2 == {Unique("index_versions", {"is_active"})}
             k2 == {Check("match_requests", "status", FirstStatuses),
                    Check("match_request_items", "status", Verdicts),
                    Check("match_request_items", "final_decision", Decisions),
                    Check("golden_labels", "label_type", Labels)}
  <2>1. \A s : InitCatalog(s) = Extended(s, r1, u1, k1)
    BY Zenon DEF InitCatalog, Extended, CatalogReferences
  <2>2. \A s : InitMatching(s) = Extended(s, r2, u2, k2)
    BY Zenon DEF InitMatching, Extended
  <2>3. /\ ({} \cup r1) \cup r2 = ReferencesAt(1)
        /\ ({} \cup u1) \cup u2 = UniquesAt(1)
        /\ ({} \cup k1) \cup k2 = ChecksAt(1)
    BY ReferencesGrow, UniquesGrow, ChecksGrow DEF FirstReferences, FirstChecks
  <2> HIDE DEF r1, u1, k1, r2, u2, k2
  <2>4. InitCatalog(Scheme(DefinedAt(1), {}, {}, {}))
            = Scheme(DefinedAt(1), {} \cup r1, {} \cup u1, {} \cup k1)
    BY <2>1, ExtendedShape
  <2>5. InitMatching(Scheme(DefinedAt(1), {} \cup r1, {} \cup u1, {} \cup k1))
            = Scheme(DefinedAt(1), ({} \cup r1) \cup r2, ({} \cup u1) \cup u2, ({} \cup k1) \cup k2)
    BY <2>2, ExtendedShape
  <2> QED BY <2>3, <2>4, <2>5, Zenon DEF SchemaAt
<1>4. \A s : [Db(s, x) EXCEPT !.schema = InitMatching(InitCatalog(@))]
                 = Db(InitMatching(InitCatalog(s)), x)
  BY DEF Db
<1>5. UpInit(Db(SchemaAt(0), x)) = {Db(SchemaAt(1), x)}
  BY <1>2, <1>3, <1>4 DEF UpInit, FirstColumns
<1> QED BY <1>5, UpCases

LEMMA DownInitShape == ASSUME NEW x PROVE Down(1, Db(SchemaAt(1), x)) = {Db(SchemaAt(0), Rest(x, FirstTables))}
<1>1. SchemaAt(0) = Scheme({}, {}, {}, {})
  BY DefinedGrow, ReferencesGrow, UniquesGrow, ChecksGrow DEF SchemaAt
<1>2. DropTables(Db(SchemaAt(1), x), FirstTables) = Db(SchemaAt(0), Rest(x, FirstTables))
  BY <1>1, DefinedShrink, ConstraintsShrink, DroppedShape DEF SchemaAt
<1> QED BY <1>2, DownCases DEF DownInit

LEMMA SchemaGrow ==
    /\ SchemaAt(1) = Scheme(DefinedAt(1), ReferencesAt(1), UniquesAt(1), ChecksAt(1))
    /\ SchemaAt(2) = Scheme(DefinedAt(1) \cup UserColumns, ReferencesAt(1),
                            UniquesAt(1) \cup {Unique("users", {"username"})},
                            ChecksAt(1) \cup {Check("users", "role", FirstRoles)})
    /\ SchemaAt(3) = Scheme(DefinedAt(2) \cup SettingColumns, ReferencesAt(2),
                            UniquesAt(2), ChecksAt(2))
    /\ SchemaAt(4) = Scheme(Defining(DefinedAt(3), "match_request_items", "original_row_json", Yes),
                            ReferencesAt(3), UniquesAt(3), ChecksAt(3))
    /\ SchemaAt(5) = Scheme(Defining(DefinedAt(4), "users", "must_change_password", No),
                            ReferencesAt(4), UniquesAt(4), ChecksAt(4))
    /\ SchemaAt(6) = SchemaAt(5)
    /\ SchemaAt(7) = Scheme(DefinedAt(6) \cup UsageColumns,
                            ReferencesAt(6) \cup {Usage}, UniquesAt(6), ChecksAt(6))
    /\ SchemaAt(8) = Scheme(DefinedAt(7),
           (ReferencesAt(7) \ {OfSuppliers("match_requests", "refuse")})
               \cup {OfSuppliers("match_requests", "null")},
           UniquesAt(7) \cup {Unique("supplier_mappings", {"supplier_id", "supplier_raw_text"})},
           ChecksAt(7))
    /\ SchemaAt(9) = Scheme(DefinedAt(8), ReferencesAt(8),
                            UniquesAt(8) \cup {Unique("catalog_products", {"source_hash"})},
                            ChecksAt(8))
    /\ SchemaAt(10) = Scheme(Defining(Defining(
                                 Defining(DefinedAt(9), "match_request_items",
                                          "review_notes", Yes) \cup AuditColumns,
                                 "golden_labels", "version", Yes), "golden_labels", "is_active", No),
                             ReferencesAt(9), UniquesAt(9),
                             Rechecked(ChecksAt(9), "users", "role", AllRoles))
    /\ SchemaAt(11) = Scheme(Defining(Defining(DefinedAt(10), "match_requests", "job_name", No),
                                        "match_requests", "job_payload_json", No),
                             ReferencesAt(10), UniquesAt(10),
                             Rechecked(ChecksAt(10), "match_requests", "status", AllStatuses))
<1>1. /\ ReferencesAt(2) = ReferencesAt(1) /\ ReferencesAt(3) = ReferencesAt(2)
      /\ ReferencesAt(4) = ReferencesAt(3) /\ ReferencesAt(5) = ReferencesAt(4)
      /\ ReferencesAt(6) = ReferencesAt(5) /\ ReferencesAt(7) = ReferencesAt(6) \cup {Usage}
      /\ ReferencesAt(8) = (ReferencesAt(7) \ {OfSuppliers("match_requests", "refuse")})
               \cup {OfSuppliers("match_requests", "null")}
      /\ ReferencesAt(9) = ReferencesAt(8) /\ ReferencesAt(10) = ReferencesAt(9)
      /\ ReferencesAt(11) = ReferencesAt(10)
  <2>1. \A n \in 2 .. 6 : ReferencesAt(n) = ReferencesAt(1)
    BY ReferencesGrow
  <2>2. ReferencesAt(7) = ReferencesAt(1) \cup {Usage}
    BY ReferencesGrow
  <2>3. \A n \in 8 .. 11 : ReferencesAt(n)
           = (ReferencesAt(7) \ {OfSuppliers("match_requests", "refuse")})
                 \cup {OfSuppliers("match_requests", "null")}
    BY ReferencesGrow
  <2> QED BY <2>1, <2>2, <2>3
<1>2. /\ UniquesAt(2) = UniquesAt(1) \cup {Unique("users", {"username"})}
      /\ UniquesAt(3) = UniquesAt(2) /\ UniquesAt(4) = UniquesAt(3)
      /\ UniquesAt(5) = UniquesAt(4) /\ UniquesAt(6) = UniquesAt(5) /\ UniquesAt(7) = UniquesAt(6)
      /\ UniquesAt(8) = UniquesAt(7) \cup {Unique("supplier_mappings", {"supplier_id", "supplier_raw_text"})}
      /\ UniquesAt(9) = UniquesAt(8) \cup {Unique("catalog_products", {"source_hash"})}
      /\ UniquesAt(10) = UniquesAt(9) /\ UniquesAt(11) = UniquesAt(10)
  <2>1. \A n \in 3 .. 7 : UniquesAt(n) = UniquesAt(2)
    BY UniquesGrow
  <2> QED BY <2>1, UniquesGrow
<1>3. /\ ChecksAt(2) = ChecksAt(1) \cup {Check("users", "role", FirstRoles)}
      /\ ChecksAt(3) = ChecksAt(2) /\ ChecksAt(4) = ChecksAt(3) /\ ChecksAt(5) = ChecksAt(4)
      /\ ChecksAt(6) = ChecksAt(5) /\ ChecksAt(7) = ChecksAt(6) /\ ChecksAt(8) = ChecksAt(7)
      /\ ChecksAt(9) = ChecksAt(8)
      /\ ChecksAt(10) = Rechecked(ChecksAt(9), "users", "role", AllRoles)
      /\ ChecksAt(11) = Rechecked(ChecksAt(10), "match_requests", "status", AllStatuses)
  <2>1. \A n \in 3 .. 9 : ChecksAt(n) = ChecksAt(2)
    BY ChecksGrow
  <2> QED BY <2>1, ChecksGrow
<1>4. /\ SchemaAt(1) = Scheme(DefinedAt(1), ReferencesAt(1), UniquesAt(1), ChecksAt(1))
      /\ SchemaAt(2) = Scheme(DefinedAt(2), ReferencesAt(2), UniquesAt(2), ChecksAt(2))
      /\ SchemaAt(3) = Scheme(DefinedAt(3), ReferencesAt(3), UniquesAt(3), ChecksAt(3))
      /\ SchemaAt(4) = Scheme(DefinedAt(4), ReferencesAt(4), UniquesAt(4), ChecksAt(4))
      /\ SchemaAt(5) = Scheme(DefinedAt(5), ReferencesAt(5), UniquesAt(5), ChecksAt(5))
      /\ SchemaAt(6) = Scheme(DefinedAt(6), ReferencesAt(6), UniquesAt(6), ChecksAt(6))
      /\ SchemaAt(7) = Scheme(DefinedAt(7), ReferencesAt(7), UniquesAt(7), ChecksAt(7))
      /\ SchemaAt(8) = Scheme(DefinedAt(8), ReferencesAt(8), UniquesAt(8), ChecksAt(8))
      /\ SchemaAt(9) = Scheme(DefinedAt(9), ReferencesAt(9), UniquesAt(9), ChecksAt(9))
      /\ SchemaAt(10) = Scheme(DefinedAt(10), ReferencesAt(10), UniquesAt(10), ChecksAt(10))
      /\ SchemaAt(11) = Scheme(DefinedAt(11), ReferencesAt(11), UniquesAt(11), ChecksAt(11))
  BY DEF SchemaAt
<1> QED BY <1>1, <1>2, <1>3, <1>4, DefinedGrow, Zenon

\* What sets back the rows only, or adds constraints, leaves the rest of the database.
SetRows(db, y) == [db EXCEPT !.rows = y]

LEMMA RowsSet ==
    ASSUME NEW s, NEW x, NEW y
    PROVE  SetRows(Db(s, x), y) = Db(s, y)
BY DEF Db, SetRows

SetReferences(db, e) == [db EXCEPT !.schema.references = e]
SetUniques(db, e) == [db EXCEPT !.schema.uniques = e]
SetUniquesChecks(db, e, f) == [db EXCEPT !.schema.uniques = e, !.schema.checks = f]
SetUniquesReferences(db, e, f) == [db EXCEPT !.schema.uniques = e, !.schema.references = f]
SetReferencesUniques(db, f, e) == [db EXCEPT !.schema.references = f, !.schema.uniques = e]

LEMMA ConstraintSet ==
    ASSUME NEW c, NEW r, NEW u, NEW k, NEW x, NEW e
    PROVE  /\ SetReferences(Db(Scheme(c, r, u, k), x), e) = Db(Scheme(c, e, u, k), x)
           /\ SetUniques(Db(Scheme(c, r, u, k), x), e) = Db(Scheme(c, r, e, k), x)
BY DEF Db, Scheme, SetReferences, SetUniques

LEMMA ConstraintsSet ==
    ASSUME NEW c, NEW r, NEW u, NEW k, NEW x, NEW e, NEW f
    PROVE  /\ SetUniquesChecks(Db(Scheme(c, r, u, k), x), e, f) = Db(Scheme(c, r, e, f), x)
           /\ SetUniquesReferences(Db(Scheme(c, r, u, k), x), e, f) = Db(Scheme(c, f, e, k), x)
           /\ SetReferencesUniques(Db(Scheme(c, r, u, k), x), f, e) = Db(Scheme(c, f, e, k), x)
<1>2. [Db(Scheme(c, r, u, k), x) EXCEPT !.schema.uniques = e] = Db(Scheme(c, r, e, k), x)
  BY DEF Db, Scheme
<1>3. [Db(Scheme(c, r, e, k), x) EXCEPT !.schema.checks = f] = Db(Scheme(c, r, e, f), x)
  BY DEF Db, Scheme
<1>4. [Db(Scheme(c, r, e, k), x) EXCEPT !.schema.references = f] = Db(Scheme(c, f, e, k), x)
  BY DEF Db, Scheme
<1>5. [Db(Scheme(c, r, u, k), x) EXCEPT !.schema.references = f] = Db(Scheme(c, f, u, k), x)
  BY DEF Db, Scheme
<1>6. [Db(Scheme(c, f, u, k), x) EXCEPT !.schema.uniques = e] = Db(Scheme(c, f, e, k), x)
  BY DEF Db, Scheme
<1>7. SetUniquesChecks(Db(Scheme(c, r, u, k), x), e, f) = Db(Scheme(c, r, e, f), x)
  BY <1>2, <1>3, Zenon DEF SetUniquesChecks
<1>8. SetUniquesReferences(Db(Scheme(c, r, u, k), x), e, f) = Db(Scheme(c, f, e, k), x)
  BY <1>2, <1>4, Zenon DEF SetUniquesReferences
<1>9. SetReferencesUniques(Db(Scheme(c, r, u, k), x), f, e) = Db(Scheme(c, f, e, k), x)
  BY <1>5, <1>6, Zenon DEF SetReferencesUniques
<1> QED BY <1>7, <1>8, <1>9

LEMMA SchemaParts ==
    ASSUME NEW c, NEW r, NEW u, NEW k, NEW x
    PROVE  /\ Db(Scheme(c, r, u, k), x).schema.references = r
           /\ Db(Scheme(c, r, u, k), x).schema.uniques = u
           /\ Db(Scheme(c, r, u, k), x).schema.checks = k
BY DEF Db, Scheme

LEMMA OneOutcome ==
    ASSUME NEW n, NEW x, NEW y, UpRows(n, x) = {y},
           Up(n, Db(SchemaAt(n - 1), x)) = {Db(SchemaAt(n), y)}
    PROVE  Up(n, Db(SchemaAt(n - 1), x)) = {Db(SchemaAt(n), z) : z \in UpRows(n, x)}
<1>1. {Db(SchemaAt(n), z) : z \in {y}} = {Db(SchemaAt(n), y)}
  OBVIOUS
<1> QED BY <1>1

LEMMA UpUsersShape == ASSUME NEW x PROVE Up(2, Db(SchemaAt(1), x)) = {Db(SchemaAt(2), x)}
<1> DEFINE a == {Unique("users", {"username"})}
           b == {Check("users", "role", FirstRoles)}
           w == DefinedAt(1) \cup UserColumns
           db == Db(Scheme(w, ReferencesAt(1), UniquesAt(1), ChecksAt(1)), x)
<1>1. CreateTables(Db(SchemaAt(1), x), UserColumns) = db
  BY SchemaGrow, CreatedShape
<1>2. UpUsers(Db(SchemaAt(1), x))
          = {SetUniquesChecks(db, db.schema.uniques \cup a, db.schema.checks \cup b)}
  BY <1>1, Zenon DEF UpUsers, SetUniquesChecks
<1>3. db.schema.uniques = UniquesAt(1) /\ db.schema.checks = ChecksAt(1)
  BY SchemaParts
<1>4. SetUniquesChecks(db, UniquesAt(1) \cup a, ChecksAt(1) \cup b)
          = Db(Scheme(w, ReferencesAt(1), UniquesAt(1) \cup a, ChecksAt(1) \cup b), x)
  BY ConstraintsSet
<1>5. Db(Scheme(w, ReferencesAt(1), UniquesAt(1) \cup a, ChecksAt(1) \cup b), x) = Db(SchemaAt(2), x)
  BY SchemaGrow, Zenon
<1> HIDE DEF a, b, w, db
<1> QED BY <1>2, <1>3, <1>4, <1>5, UpCases, Zenon

LEMMA UpTokenUsageShape == ASSUME NEW x PROVE Up(7, Db(SchemaAt(6), x)) = {Db(SchemaAt(7), x)}
<1> DEFINE w == DefinedAt(6) \cup UsageColumns
           db == Db(Scheme(w, ReferencesAt(6), UniquesAt(6), ChecksAt(6)), x)
<1>1. CreateTables(Db(SchemaAt(6), x), UsageColumns) = db
  BY CreatedShape DEF SchemaAt
<1>2. UpTokenUsage(Db(SchemaAt(6), x)) = {SetReferences(db, db.schema.references \cup {Usage})}
  BY <1>1, Zenon DEF UpTokenUsage, SetReferences, Usage
<1>3. db.schema.references = ReferencesAt(6)
  BY SchemaParts
<1>4. SetReferences(db, ReferencesAt(6) \cup {Usage})
          = Db(Scheme(w, ReferencesAt(6) \cup {Usage}, UniquesAt(6), ChecksAt(6)), x)
  <2> DEFINE e == ReferencesAt(6) \cup {Usage}
  <2> HIDE DEF e, w
  <2> QED BY ConstraintSet
<1>5. Db(Scheme(w, ReferencesAt(6) \cup {Usage}, UniquesAt(6), ChecksAt(6)), x) = Db(SchemaAt(7), x)
  BY SchemaGrow, Zenon
<1> HIDE DEF w, db
<1> QED BY <1>2, <1>3, <1>4, <1>5, UpCases, Zenon

LEMMA UpIntegrityShape == ASSUME NEW x PROVE Up(8, Db(SchemaAt(7), x)) = {Db(SchemaAt(8), x)}
<1> DEFINE a == {Unique("supplier_mappings", {"supplier_id", "supplier_raw_text"})}
           b == {OfSuppliers("match_requests", "refuse")}
           d == {OfSuppliers("match_requests", "null")}
           db == Db(Scheme(DefinedAt(7), ReferencesAt(7), UniquesAt(7), ChecksAt(7)), x)
<1>1. Db(SchemaAt(7), x) = db
  BY DEF SchemaAt
<1>2. UpIntegrity(Db(SchemaAt(7), x))
          = {SetUniquesReferences(db, db.schema.uniques \cup a, (db.schema.references \ b) \cup d)}
  BY <1>1, Zenon DEF UpIntegrity, SetUniquesReferences
<1>3. db.schema.uniques = UniquesAt(7) /\ db.schema.references = ReferencesAt(7)
  BY SchemaParts
<1>4. SetUniquesReferences(db, UniquesAt(7) \cup a, (ReferencesAt(7) \ b) \cup d)
          = Db(Scheme(DefinedAt(7), (ReferencesAt(7) \ b) \cup d, UniquesAt(7) \cup a, ChecksAt(7)), x)
  BY ConstraintsSet
<1>5. Db(Scheme(DefinedAt(7), (ReferencesAt(7) \ b) \cup d, UniquesAt(7) \cup a, ChecksAt(7)), x)
          = Db(SchemaAt(8), x)
  BY SchemaGrow, Zenon
<1> HIDE DEF a, b, d, db
<1> QED BY <1>2, <1>3, <1>4, <1>5, UpCases, Zenon

LEMMA UpAuditRolesShape ==
    ASSUME NEW x, NEW a, NEW b, NEW y, a = Widened(x, "match_request_items", "review_notes", Null),
           b = Widened(a, "golden_labels", "version", Null),
           y = Widened(b, "golden_labels", "is_active", Yes)
    PROVE  Up(10, Db(SchemaAt(9), x)) = {Db(SchemaAt(10), y)}
<1> DEFINE r == ReferencesAt(9)
           u == UniquesAt(9)
           k == Rechecked(ChecksAt(9), "users", "role", AllRoles)
           c == Defining(DefinedAt(9), "match_request_items", "review_notes", Yes)
           d == c \cup AuditColumns
           e == Defining(d, "golden_labels", "version", Yes)
           f == Defining(e, "golden_labels", "is_active", No)
<1>1. AddColumn(Db(SchemaAt(9), x), "match_request_items", "review_notes", Yes, Null)
          = Db(Scheme(c, r, u, ChecksAt(9)), a)
  BY WidenedShape DEF SchemaAt
<1>2. CreateTables(Db(Scheme(c, r, u, ChecksAt(9)), a), AuditColumns)
          = Db(Scheme(d, r, u, ChecksAt(9)), a)
  <2> HIDE DEF c
  <2> QED BY CreatedShape
<1>3. Recheck(Db(Scheme(d, r, u, ChecksAt(9)), a), "users", "role", AllRoles)
          = Db(Scheme(d, r, u, k), a)
  BY RecheckedShape
<1>4. AddColumn(Db(Scheme(d, r, u, k), a), "golden_labels", "version", Yes, Null)
          = Db(Scheme(e, r, u, k), b)
  <2> HIDE DEF d, k
  <2> QED BY WidenedShape
<1>5. AddColumn(Db(Scheme(e, r, u, k), b), "golden_labels", "is_active", No, Yes)
          = Db(Scheme(f, r, u, k), y)
  <2> HIDE DEF e, k
  <2> QED BY WidenedShape
<1>6. Scheme(f, r, u, k) = SchemaAt(10)
  BY SchemaGrow, Zenon
<1> HIDE DEF r, u, k, c, d, e, f
<1>7. UpAuditRoles(Db(SchemaAt(9), x)) = {Db(SchemaAt(10), y)}
  BY <1>1, <1>2, <1>3, <1>4, <1>5, <1>6, Zenon DEF UpAuditRoles, Yes, No
<1> QED BY <1>7, UpCases

LEMMA UpQueueRecoveryShape ==
    ASSUME NEW x, NEW a, NEW y, a = Widened(x, "match_requests", "job_name", "batch_match"),
           y = Widened(a, "match_requests", "job_payload_json", EmptyJson)
    PROVE  Up(11, Db(SchemaAt(10), x)) = {Db(SchemaAt(11), y)}
<1> DEFINE r == ReferencesAt(10)
           u == UniquesAt(10)
           k == Rechecked(ChecksAt(10), "match_requests", "status", AllStatuses)
           c == Defining(DefinedAt(10), "match_requests", "job_name", No)
           d == Defining(c, "match_requests", "job_payload_json", No)
<1>1. AddColumn(Db(SchemaAt(10), x), "match_requests", "job_name", No, "batch_match")
          = Db(Scheme(c, r, u, ChecksAt(10)), a)
  BY WidenedShape DEF SchemaAt
<1>2. AddColumn(Db(Scheme(c, r, u, ChecksAt(10)), a), "match_requests", "job_payload_json", No, EmptyJson)
          = Db(Scheme(d, r, u, ChecksAt(10)), y)
  <2> HIDE DEF c
  <2> QED BY WidenedShape
<1>3. Recheck(Db(Scheme(d, r, u, ChecksAt(10)), y), "match_requests", "status", AllStatuses)
          = Db(Scheme(d, r, u, k), y)
  BY RecheckedShape
<1>4. Scheme(d, r, u, k) = SchemaAt(11)
  BY SchemaGrow, Zenon
<1> HIDE DEF r, u, k, c, d
<1> QED BY <1>1, <1>2, <1>3, <1>4, UpCases, Zenon DEF UpQueueRecovery, No

SourceHashOutcome(db, first, second, last) ==
    [DeleteProducts(Repoint(Repoint(db, "match_request_items", "best_product_id", first),
                            "match_candidates", "product_id", second),
                    {p \in DOMAIN last : last[p] # p})
       EXCEPT !.schema.uniques = @ \cup {Unique("catalog_products", {"source_hash"})}]

LEMMA UpSourceHashShape ==
    ASSUME NEW x
    PROVE  Up(9, Db(SchemaAt(8), x)) = {Db(SchemaAt(9), y) : y \in UpRows(9, x)}
<1> DEFINE K == Keepers(Db(SchemaAt(8), x))
           a == {Unique("catalog_products", {"source_hash"})}
           gone(last) == {p \in DOMAIN last : last[p] # p}
           db(first, second, last) ==
               DeleteProducts(Repoint(Repoint(Db(SchemaAt(8), x), "match_request_items",
                                              "best_product_id", first),
                                      "match_candidates", "product_id", second), gone(last))
<1>1. UpRows(9, x) = {Deduplicated(x, first, second, last) : first \in K, second \in K, last \in K}
  BY DEF UpRows
<1>2. ASSUME NEW first, NEW second, NEW last
      PROVE  SourceHashOutcome(Db(SchemaAt(8), x), first, second, last)
                 = Db(SchemaAt(9), Deduplicated(x, first, second, last))
  <2>1. ASSUME NEW z, NEW table, NEW column, NEW keep
        PROVE  \E y : Repoint(Db(SchemaAt(8), z), table, column, keep) = Db(SchemaAt(8), y)
    <3> DEFINE q == {IF r.table = table /\ Value(r, column) \in DOMAIN keep
                     THEN With(r, column, keep[r.has[column]]) ELSE r : r \in Db(SchemaAt(8), z).rows}
    <3>1. Repoint(Db(SchemaAt(8), z), table, column, keep) = SetRows(Db(SchemaAt(8), z), q)
      BY Zenon DEF Repoint, SetRows
    <3> HIDE DEF q
    <3> QED BY <3>1, RowsSet
  <2>2. PICK v : Repoint(Db(SchemaAt(8), x), "match_request_items", "best_product_id", first)
                     = Db(SchemaAt(8), v)
    BY <2>1
  <2>3. PICK y : Repoint(Db(SchemaAt(8), v), "match_candidates", "product_id", second)
                     = Db(SchemaAt(8), y)
    BY <2>1
  <2>4. ASSUME NEW ids
        PROVE  \E z : DeleteProducts(Db(SchemaAt(8), y), ids) = Db(SchemaAt(8), z)
    <3> DEFINE d == Db(SchemaAt(8), y)
               q == {r \in d.rows :
                       /\ ~(r.table = "catalog_products" /\ r.id \in ids)
                       /\ ~\E ref \in d.schema.references :
                              /\ ref.from = r.table /\ ref.to = "catalog_products"
                              /\ ref.rule = "cascade" /\ Value(r, ref.column) \in ids}
    <3>1. DeleteProducts(d, ids) = SetRows(d, q)
      BY Zenon DEF DeleteProducts, SetRows
    <3> HIDE DEF q
    <3> QED BY <3>1, RowsSet
  <2>5. PICK z : DeleteProducts(Db(SchemaAt(8), y), gone(last)) = Db(SchemaAt(8), z)
    <3> HIDE DEF gone
    <3> QED BY <2>4
  <2>6. db(first, second, last) = Db(SchemaAt(8), z)
    BY <2>2, <2>3, <2>5, Zenon
  <2>7. Deduplicated(x, first, second, last) = z
    BY <2>6, Parts DEF Deduplicated
  <2>8. SchemaAt(8) = Scheme(DefinedAt(8), ReferencesAt(8), UniquesAt(8), ChecksAt(8))
        /\ SchemaAt(9) = Scheme(DefinedAt(8), ReferencesAt(8), UniquesAt(8) \cup a, ChecksAt(8))
    BY SchemaGrow DEF SchemaAt
  <2>9. SetUniques(Db(SchemaAt(8), z), Db(SchemaAt(8), z).schema.uniques \cup a) = Db(SchemaAt(9), z)
    <3> HIDE DEF a
    <3>1. Db(SchemaAt(8), z).schema.uniques = UniquesAt(8)
      BY <2>8, SchemaParts
    <3> QED BY <2>8, <3>1, ConstraintSet
  <2>10. SourceHashOutcome(Db(SchemaAt(8), x), first, second, last)
             = SetUniques(db(first, second, last), db(first, second, last).schema.uniques \cup a)
    BY Zenon DEF SourceHashOutcome, SetUniques
  <2> HIDE DEF db
  <2> QED BY <2>6, <2>7, <2>9, <2>10, Zenon
<1> HIDE DEF db, K, a, gone
<1>6. \A d : d \in UpSourceHash(Db(SchemaAt(8), x))
                 <=> \E first \in K, second \in K, last \in K :
                         d = SourceHashOutcome(Db(SchemaAt(8), x), first, second, last)
  BY DEF UpSourceHash, SourceHashOutcome, K
<1>7. \A d : d \in UpSourceHash(Db(SchemaAt(8), x))
                 <=> \E first \in K, second \in K, last \in K :
                         d = Db(SchemaAt(9), Deduplicated(x, first, second, last))
  BY <1>2, <1>6
<1>8. \A d : d \in {Db(SchemaAt(9), y) : y \in UpRows(9, x)}
                 <=> \E first \in K, second \in K, last \in K :
                         d = Db(SchemaAt(9), Deduplicated(x, first, second, last))
  BY <1>1
<1>9. UpSourceHash(Db(SchemaAt(8), x)) = {Db(SchemaAt(9), y) : y \in UpRows(9, x)}
  BY <1>7, <1>8
<1> QED BY <1>9, UpCases

LEMMA UpShapes ==
    ASSUME NEW n \in 1 .. Latest, NEW x
    PROVE  Up(n, Db(SchemaAt(n - 1), x)) = {Db(SchemaAt(n), y) : y \in UpRows(n, x)}
<1>1. CASE n = 1
  <2>1. UpRows(1, x) = {x}
    BY DEF UpRows
  <2> QED BY <1>1, <2>1, UpInitShape, OneOutcome
<1>2. CASE n = 2
  <2>1. UpRows(2, x) = {x}
    BY DEF UpRows
  <2> QED BY <1>2, <2>1, UpUsersShape, OneOutcome
<1>3. CASE n = 3
  <2>1. UpRows(3, x) = {x}
    BY DEF UpRows
  <2>2. CreateTables(Db(SchemaAt(2), x), SettingColumns) = Db(SchemaAt(3), x)
    BY CreatedShape, SchemaGrow DEF SchemaAt
  <2>3. Up(3, Db(SchemaAt(2), x)) = {Db(SchemaAt(3), x)}
    BY <2>2, UpCases DEF UpSystemSettings
  <2> QED BY <1>3, <2>1, <2>3, OneOutcome
<1>4. CASE n = 4
  <2> DEFINE y == Widened(x, "match_request_items", "original_row_json", Null)
  <2>1. UpRows(4, x) = {y}
    BY DEF UpRows
  <2>2. AddColumn(Db(SchemaAt(3), x), "match_request_items", "original_row_json", Yes, Null)
            = Db(SchemaAt(4), y)
    BY WidenedShape, SchemaGrow DEF SchemaAt
  <2>3. Up(4, Db(SchemaAt(3), x)) = {Db(SchemaAt(4), y)}
    BY <2>2, UpCases, Zenon DEF UpOriginalRow, Yes
  <2> QED BY <1>4, <2>1, <2>3, OneOutcome
<1>5. CASE n = 5
  <2> DEFINE y == Widened(x, "users", "must_change_password", No)
  <2>1. UpRows(5, x) = {y}
    BY DEF UpRows
  <2>2. AddColumn(Db(SchemaAt(4), x), "users", "must_change_password", No, No)
            = Db(SchemaAt(5), y)
    BY WidenedShape, SchemaGrow DEF SchemaAt
  <2>3. Up(5, Db(SchemaAt(4), x)) = {Db(SchemaAt(5), y)}
    BY <2>2, UpCases, Zenon DEF UpMustChange, No
  <2> QED BY <1>5, <2>1, <2>3, OneOutcome
<1>6. CASE n = 6
  <2>1. UpRows(6, x) = {GatewayRows(x)}
    BY DEF UpRows
  <2>2. UpGateway(Db(SchemaAt(5), x)) = {SetRows(Db(SchemaAt(5), x), GatewayRows(x))}
    <3>1. Db(SchemaAt(5), x).rows = x
      BY Parts
    <3>2. Said(Db(SchemaAt(5), x), {KeyOf(p) : p \in OldProviders}) = SaidBy(x, SingleKeys)
      BY <3>1, Zenon DEF Said, SaidBy, RowsIn, OfTable, SingleKeys
    <3> QED BY <3>1, <3>2, Zenon DEF UpGateway, GatewayRows, NewRegistry, Filled, SetRows
  <2>3. Up(6, Db(SchemaAt(5), x)) = {Db(SchemaAt(6), GatewayRows(x))}
    BY <2>2, RowsSet, UpCases, SchemaGrow
  <2> QED BY <1>6, <2>1, <2>3, OneOutcome
<1>7. CASE n = 7
  <2>1. UpRows(7, x) = {x}
    BY DEF UpRows
  <2> QED BY <1>7, <2>1, UpTokenUsageShape, OneOutcome
<1>8. CASE n = 8
  <2>1. UpRows(8, x) = {x}
    BY DEF UpRows
  <2> QED BY <1>8, <2>1, UpIntegrityShape, OneOutcome
<1>9. CASE n = 9
  BY <1>9, UpSourceHashShape
<1>10. CASE n = 10
  <2> DEFINE a == Widened(x, "match_request_items", "review_notes", Null)
             b == Widened(a, "golden_labels", "version", Null)
             y == Widened(b, "golden_labels", "is_active", Yes)
  <2>1. UpRows(10, x) = {y}
    BY DEF UpRows
  <2>2. Up(10, Db(SchemaAt(9), x)) = {Db(SchemaAt(10), y)}
    BY UpAuditRolesShape
  <2> HIDE DEF y
  <2> QED BY <1>10, <2>1, <2>2, OneOutcome
<1>11. CASE n = 11
  <2> DEFINE a == Widened(x, "match_requests", "job_name", "batch_match")
             y == Widened(a, "match_requests", "job_payload_json", EmptyJson)
  <2>1. UpRows(11, x) = {y}
    BY DEF UpRows
  <2>2. Up(11, Db(SchemaAt(10), x)) = {Db(SchemaAt(11), y)}
    BY UpQueueRecoveryShape
  <2> HIDE DEF y
  <2> QED BY <1>11, <2>1, <2>2, OneOutcome
<1> QED BY <1>1, <1>2, <1>3, <1>4, <1>5, <1>6, <1>7, <1>8, <1>9, <1>10, <1>11 DEF Latest

LEMMA SchemaShrink ==
    /\ SchemaAt(1) = Scheme(DefinedOutside(DefinedAt(2), {"users"}),
                            ReferencesOutside(ReferencesAt(2), {"users"}),
                            Outside(UniquesAt(2), {"users"}), Outside(ChecksAt(2), {"users"}))
    /\ SchemaAt(2) = Scheme(DefinedOutside(DefinedAt(3), {"system_settings"}),
                            ReferencesOutside(ReferencesAt(3), {"system_settings"}),
                            Outside(UniquesAt(3), {"system_settings"}),
                            Outside(ChecksAt(3), {"system_settings"}))
    /\ SchemaAt(3) = Scheme(Undefining(DefinedAt(4), "match_request_items", "original_row_json"),
                            ReferencesAt(4), UniquesAt(4), ChecksAt(4))
    /\ SchemaAt(4) = Scheme(Undefining(DefinedAt(5), "users", "must_change_password"),
                            ReferencesAt(5), UniquesAt(5), ChecksAt(5))
    /\ SchemaAt(6) = Scheme(DefinedOutside(DefinedAt(7), {"token_usage_log"}),
                            ReferencesOutside(ReferencesAt(7), {"token_usage_log"}),
                            Outside(UniquesAt(7), {"token_usage_log"}),
                            Outside(ChecksAt(7), {"token_usage_log"}))
    /\ SchemaAt(7) = Scheme(DefinedAt(8),
           (ReferencesAt(8) \ {OfSuppliers("match_requests", "null")})
               \cup {OfSuppliers("match_requests", "refuse")},
           UniquesAt(8) \ {Unique("supplier_mappings", {"supplier_id", "supplier_raw_text"})},
           ChecksAt(8))
    /\ SchemaAt(8) = Scheme(DefinedAt(9), ReferencesAt(9),
                            UniquesAt(9) \ {Unique("catalog_products", {"source_hash"})},
                            ChecksAt(9))
    /\ SchemaAt(9) = Scheme(
           Undefining(DefinedOutside(Undefining(Undefining(DefinedAt(10),
                             "golden_labels", "is_active"), "golden_labels", "version"),
                             {"audit_log"}), "match_request_items", "review_notes"),
           ReferencesOutside(ReferencesAt(10), {"audit_log"}),
           Outside(UniquesAt(10), {"audit_log"}),
           Outside(Rechecked(ChecksAt(10), "users", "role", FirstRoles), {"audit_log"}))
    /\ SchemaAt(10) = Scheme(
           Undefining(Undefining(DefinedAt(11), "match_requests", "job_payload_json"),
                         "match_requests", "job_name"),
           ReferencesAt(11), UniquesAt(11),
           Rechecked(ChecksAt(11), "match_requests", "status", FirstStatuses))
<1>1. /\ ReferencesAt(3) = ReferencesAt(2) /\ ReferencesAt(4) = ReferencesAt(3)
      /\ ReferencesAt(5) = ReferencesAt(4) /\ ReferencesAt(6) = ReferencesAt(5)
      /\ ReferencesAt(9) = ReferencesAt(8) /\ ReferencesAt(10) = ReferencesAt(9)
      /\ ReferencesAt(11) = ReferencesAt(10)
      /\ ReferencesAt(7) = (ReferencesAt(8) \ {OfSuppliers("match_requests", "null")})
               \cup {OfSuppliers("match_requests", "refuse")}
  <2>1. \A n \in 2 .. 6 : ReferencesAt(n) = ReferencesAt(1)
    BY ReferencesGrow
  <2>2. \A n \in 8 .. 11 : ReferencesAt(n)
           = (ReferencesAt(7) \ {OfSuppliers("match_requests", "refuse")})
                 \cup {OfSuppliers("match_requests", "null")}
    BY ReferencesGrow
  <2>3. ReferencesAt(7) = (ReferencesAt(8) \ {OfSuppliers("match_requests", "null")})
               \cup {OfSuppliers("match_requests", "refuse")}
    BY ReferencesGrow
  <2> QED BY <2>1, <2>2, <2>3
<1>2. /\ UniquesAt(3) = UniquesAt(2) /\ UniquesAt(4) = UniquesAt(3)
      /\ UniquesAt(5) = UniquesAt(4) /\ UniquesAt(6) = UniquesAt(5)
      /\ UniquesAt(7) = UniquesAt(8) \ {Unique("supplier_mappings", {"supplier_id", "supplier_raw_text"})}
      /\ UniquesAt(8) = UniquesAt(9) \ {Unique("catalog_products", {"source_hash"})}
      /\ UniquesAt(10) = UniquesAt(9) /\ UniquesAt(11) = UniquesAt(10)
  <2>1. \A n \in 3 .. 7 : UniquesAt(n) = UniquesAt(2)
    BY UniquesGrow
  <2> QED BY <2>1, UniquesGrow
<1>3. /\ ChecksAt(3) = ChecksAt(2) /\ ChecksAt(4) = ChecksAt(3) /\ ChecksAt(5) = ChecksAt(4)
      /\ ChecksAt(6) = ChecksAt(5) /\ ChecksAt(7) = ChecksAt(6) /\ ChecksAt(8) = ChecksAt(7)
      /\ ChecksAt(9) = ChecksAt(8)
      /\ ChecksAt(9) = Rechecked(ChecksAt(10), "users", "role", FirstRoles)
      /\ ChecksAt(10) = Rechecked(ChecksAt(11), "match_requests", "status", FirstStatuses)
  <2>1. \A n \in 3 .. 9 : ChecksAt(n) = ChecksAt(2)
    BY ChecksGrow
  <2> QED BY <2>1, ChecksGrow
<1>4. /\ SchemaAt(1) = Scheme(DefinedAt(1), ReferencesAt(1), UniquesAt(1), ChecksAt(1))
      /\ SchemaAt(2) = Scheme(DefinedAt(2), ReferencesAt(2), UniquesAt(2), ChecksAt(2))
      /\ SchemaAt(3) = Scheme(DefinedAt(3), ReferencesAt(3), UniquesAt(3), ChecksAt(3))
      /\ SchemaAt(4) = Scheme(DefinedAt(4), ReferencesAt(4), UniquesAt(4), ChecksAt(4))
      /\ SchemaAt(6) = Scheme(DefinedAt(6), ReferencesAt(6), UniquesAt(6), ChecksAt(6))
      /\ SchemaAt(7) = Scheme(DefinedAt(7), ReferencesAt(7), UniquesAt(7), ChecksAt(7))
      /\ SchemaAt(8) = Scheme(DefinedAt(8), ReferencesAt(8), UniquesAt(8), ChecksAt(8))
      /\ SchemaAt(9) = Scheme(DefinedAt(9), ReferencesAt(9), UniquesAt(9), ChecksAt(9))
      /\ SchemaAt(10) = Scheme(DefinedAt(10), ReferencesAt(10), UniquesAt(10), ChecksAt(10))
  BY DEF SchemaAt
<1>5. /\ DefinedAt(7) = DefinedAt(8) /\ DefinedAt(8) = DefinedAt(9)
  BY DefinedGrow
<1>6. /\ Undefining(DefinedAt(4), "match_request_items", "original_row_json") = DefinedAt(3)
      /\ Undefining(DefinedAt(5), "users", "must_change_password") = DefinedAt(4)
      /\ Undefining(DefinedOutside(Undefining(Undefining(DefinedAt(10),
                             "golden_labels", "is_active"), "golden_labels", "version"),
                             {"audit_log"}), "match_request_items", "review_notes") = DefinedAt(9)
      /\ Undefining(Undefining(DefinedAt(11), "match_requests", "job_payload_json"),
                       "match_requests", "job_name") = DefinedAt(10)
      /\ DefinedOutside(DefinedAt(2), {"users"}) = DefinedAt(1)
      /\ DefinedOutside(DefinedAt(3), {"system_settings"}) = DefinedAt(2)
      /\ DefinedOutside(DefinedAt(7), {"token_usage_log"}) = DefinedAt(6)
  BY DefinedShrink, Zenon
<1> QED BY <1>1, <1>2, <1>3, <1>4, <1>5, <1>6, ConstraintsShrink, Zenon

LEMMA DownIntegrityShape == ASSUME NEW x PROVE Down(8, Db(SchemaAt(8), x)) = {Db(SchemaAt(7), x)}
<1> DEFINE a == {Unique("supplier_mappings", {"supplier_id", "supplier_raw_text"})}
           b == {OfSuppliers("match_requests", "null")}
           d == {OfSuppliers("match_requests", "refuse")}
           db == Db(Scheme(DefinedAt(8), ReferencesAt(8), UniquesAt(8), ChecksAt(8)), x)
<1>1. Db(SchemaAt(8), x) = db
  BY DEF SchemaAt
<1>2. DownIntegrity(Db(SchemaAt(8), x))
          = {SetReferencesUniques(db, (db.schema.references \ b) \cup d, db.schema.uniques \ a)}
  BY <1>1, Zenon DEF DownIntegrity, SetReferencesUniques
<1>3. db.schema.uniques = UniquesAt(8) /\ db.schema.references = ReferencesAt(8)
  BY SchemaParts
<1>4. SetReferencesUniques(db, (ReferencesAt(8) \ b) \cup d, UniquesAt(8) \ a)
          = Db(Scheme(DefinedAt(8), (ReferencesAt(8) \ b) \cup d, UniquesAt(8) \ a, ChecksAt(8)), x)
  BY ConstraintsSet
<1>5. Db(Scheme(DefinedAt(8), (ReferencesAt(8) \ b) \cup d, UniquesAt(8) \ a, ChecksAt(8)), x)
          = Db(SchemaAt(7), x)
  BY SchemaShrink, Zenon
<1> HIDE DEF a, b, d, db
<1> QED BY <1>2, <1>3, <1>4, <1>5, DownCases, Zenon

LEMMA DownSourceHashShape == ASSUME NEW x PROVE Down(9, Db(SchemaAt(9), x)) = {Db(SchemaAt(8), x)}
<1> DEFINE a == {Unique("catalog_products", {"source_hash"})}
           db == Db(Scheme(DefinedAt(9), ReferencesAt(9), UniquesAt(9), ChecksAt(9)), x)
<1>1. Db(SchemaAt(9), x) = db
  BY DEF SchemaAt
<1>2. DownSourceHash(Db(SchemaAt(9), x)) = {SetUniques(db, db.schema.uniques \ a)}
  BY <1>1, Zenon DEF DownSourceHash, SetUniques
<1>3. db.schema.uniques = UniquesAt(9)
  BY SchemaParts
<1>4. SetUniques(db, UniquesAt(9) \ a)
          = Db(Scheme(DefinedAt(9), ReferencesAt(9), UniquesAt(9) \ a, ChecksAt(9)), x)
  <2> DEFINE e == UniquesAt(9) \ a
  <2> HIDE DEF e
  <2> QED BY ConstraintSet
<1>5. Db(Scheme(DefinedAt(9), ReferencesAt(9), UniquesAt(9) \ a, ChecksAt(9)), x) = Db(SchemaAt(8), x)
  BY SchemaShrink, Zenon
<1> HIDE DEF a, db
<1> QED BY <1>2, <1>3, <1>4, <1>5, DownCases, Zenon

LEMMA DownAuditRolesShape ==
    ASSUME NEW x, NEW a, NEW b, NEW d, NEW y, a = Narrowed(x, "golden_labels", "is_active"),
           b = Narrowed(a, "golden_labels", "version"), d = Rest(b, {"audit_log"}),
           y = Narrowed(d, "match_request_items", "review_notes")
    PROVE  Down(10, Db(SchemaAt(10), x)) = {Db(SchemaAt(9), y)}
<1> DEFINE r == ReferencesAt(10)
           u == UniquesAt(10)
           k == Rechecked(ChecksAt(10), "users", "role", FirstRoles)
           c == Undefining(DefinedAt(10), "golden_labels", "is_active")
           e == Undefining(c, "golden_labels", "version")
           f == DefinedOutside(e, {"audit_log"})
           g == Undefining(f, "match_request_items", "review_notes")
           ro == ReferencesOutside(r, {"audit_log"})
           uo == Outside(u, {"audit_log"})
           ko == Outside(k, {"audit_log"})
<1>1. DropColumn(Db(SchemaAt(10), x), "golden_labels", "is_active")
          = Db(Scheme(c, r, u, ChecksAt(10)), a)
  BY NarrowedShape DEF SchemaAt
<1>2. DropColumn(Db(Scheme(c, r, u, ChecksAt(10)), a), "golden_labels", "version")
          = Db(Scheme(e, r, u, ChecksAt(10)), b)
  <2> HIDE DEF c
  <2> QED BY NarrowedShape
<1>3. Recheck(Db(Scheme(e, r, u, ChecksAt(10)), b), "users", "role", FirstRoles)
          = Db(Scheme(e, r, u, k), b)
  BY RecheckedShape
<1>4. DropTables(Db(Scheme(e, r, u, k), b), {"audit_log"}) = Db(Scheme(f, ro, uo, ko), d)
  <2> HIDE DEF e, k
  <2> QED BY DroppedShape
<1>5. DropColumn(Db(Scheme(f, ro, uo, ko), d), "match_request_items", "review_notes")
          = Db(Scheme(g, ro, uo, ko), y)
  <2> HIDE DEF f, ro, uo, ko
  <2> QED BY NarrowedShape
<1>6. Scheme(g, ro, uo, ko) = SchemaAt(9)
  BY SchemaShrink, Zenon
<1> HIDE DEF r, u, k, c, e, f, g, ro, uo, ko
<1>7. DownAuditRoles(Db(SchemaAt(10), x)) = {Db(SchemaAt(9), y)}
  BY <1>1, <1>2, <1>3, <1>4, <1>5, <1>6, Zenon DEF DownAuditRoles
<1> QED BY <1>7, DownCases

LEMMA DownQueueRecoveryShape ==
    ASSUME NEW x, NEW a, NEW y, a = Narrowed(x, "match_requests", "job_payload_json"),
           y = Narrowed(a, "match_requests", "job_name")
    PROVE  Down(11, Db(SchemaAt(11), x)) = {Db(SchemaAt(10), y)}
<1> DEFINE r == ReferencesAt(11)
           u == UniquesAt(11)
           k == Rechecked(ChecksAt(11), "match_requests", "status", FirstStatuses)
           c == Undefining(DefinedAt(11), "match_requests", "job_payload_json")
           d == Undefining(c, "match_requests", "job_name")
<1>1. Recheck(Db(SchemaAt(11), x), "match_requests", "status", FirstStatuses)
          = Db(Scheme(DefinedAt(11), r, u, k), x)
  BY RecheckedShape DEF SchemaAt
<1>2. DropColumn(Db(Scheme(DefinedAt(11), r, u, k), x), "match_requests", "job_payload_json")
          = Db(Scheme(c, r, u, k), a)
  <2> HIDE DEF k
  <2> QED BY NarrowedShape
<1>3. DropColumn(Db(Scheme(c, r, u, k), a), "match_requests", "job_name")
          = Db(Scheme(d, r, u, k), y)
  <2> HIDE DEF c, k
  <2> QED BY NarrowedShape
<1>4. Scheme(d, r, u, k) = SchemaAt(10)
  BY SchemaShrink, Zenon
<1> HIDE DEF r, u, k, c, d
<1>5. DownQueueRecovery(Db(SchemaAt(11), x)) = {Db(SchemaAt(10), y)}
  BY <1>1, <1>2, <1>3, <1>4, Zenon DEF DownQueueRecovery
<1> QED BY <1>5, DownCases

LEMMA OneOutcomeDown ==
    ASSUME NEW n, NEW x, NEW y, DownRows(n, x) = {y},
           Down(n, Db(SchemaAt(n), x)) = {Db(SchemaAt(n - 1), y)}
    PROVE  Down(n, Db(SchemaAt(n), x)) = {Db(SchemaAt(n - 1), z) : z \in DownRows(n, x)}
<1>1. {Db(SchemaAt(n - 1), z) : z \in {y}} = {Db(SchemaAt(n - 1), y)}
  OBVIOUS
<1> QED BY <1>1

LEMMA DownShapes ==
    ASSUME NEW n \in 1 .. Latest, NEW x
    PROVE  Down(n, Db(SchemaAt(n), x)) = {Db(SchemaAt(n - 1), y) : y \in DownRows(n, x)}
<1>1. CASE n = 1
  <2>1. DownRows(1, x) = {Rest(x, FirstTables)}
    BY DEF DownRows
  <2> QED BY <1>1, <2>1, DownInitShape, OneOutcomeDown
<1>2. CASE n = 2
  <2>1. DropTables(Db(SchemaAt(2), x), {"users"}) = Db(SchemaAt(1), Rest(x, {"users"}))
    BY DroppedShape, SchemaShrink DEF SchemaAt
  <2>2. Down(2, Db(SchemaAt(2), x)) = {Db(SchemaAt(1), Rest(x, {"users"}))}
    BY <2>1, DownCases DEF DownUsers
  <2>3. DownRows(2, x) = {Rest(x, {"users"})}
    BY DEF DownRows
  <2> QED BY <1>2, <2>2, <2>3, OneOutcomeDown
<1>3. CASE n = 3
  <2>1. DropTables(Db(SchemaAt(3), x), {"system_settings"})
            = Db(SchemaAt(2), Rest(x, {"system_settings"}))
    BY DroppedShape, SchemaShrink DEF SchemaAt
  <2>2. Down(3, Db(SchemaAt(3), x)) = {Db(SchemaAt(2), Rest(x, {"system_settings"}))}
    BY <2>1, DownCases DEF DownSystemSettings
  <2>3. DownRows(3, x) = {Rest(x, {"system_settings"})}
    BY DEF DownRows
  <2> QED BY <1>3, <2>2, <2>3, OneOutcomeDown
<1>4. CASE n = 4
  <2> DEFINE y == Narrowed(x, "match_request_items", "original_row_json")
  <2>1. DropColumn(Db(SchemaAt(4), x), "match_request_items", "original_row_json")
            = Db(SchemaAt(3), y)
    BY NarrowedShape, SchemaShrink DEF SchemaAt
  <2>2. Down(4, Db(SchemaAt(4), x)) = {Db(SchemaAt(3), y)}
    BY <2>1, DownCases DEF DownOriginalRow
  <2>3. DownRows(4, x) = {y}
    BY DEF DownRows
  <2> QED BY <1>4, <2>2, <2>3, OneOutcomeDown
<1>5. CASE n = 5
  <2> DEFINE y == Narrowed(x, "users", "must_change_password")
  <2>1. DropColumn(Db(SchemaAt(5), x), "users", "must_change_password") = Db(SchemaAt(4), y)
    BY NarrowedShape, SchemaShrink DEF SchemaAt
  <2>2. Down(5, Db(SchemaAt(5), x)) = {Db(SchemaAt(4), y)}
    BY <2>1, DownCases DEF DownMustChange
  <2>3. DownRows(5, x) = {y}
    BY DEF DownRows
  <2> QED BY <1>5, <2>2, <2>3, OneOutcomeDown
<1>6. CASE n = 6
  <2> DEFINE R == Readings(Registry(x))
             db == Db(SchemaAt(6), x)
  <2>1. DownRows(6, x) = {KeyRows(x, read) : read \in R}
    BY DEF DownRows
  <2>2. DownGateway(db) = {SetRows(db, KeyRows(x, read)) : read \in R}
    <3>1. db.rows = x
      BY Parts
    <3>2. Said(db, {"providers_registry"}) = Registry(x)
      BY <3>1, Zenon DEF Said, Registry, SaidBy, RowsIn, OfTable
    <3>3. {r.id : r \in RowsIn(db, "system_settings")} = {r.id : r \in OfTable(x, "system_settings")}
      BY <3>1, Zenon DEF RowsIn, OfTable
    <3> DEFINE settled(read) == {r \in db.rows : ~(r.table = "system_settings" /\ r.id = "providers_registry")}
                   \cup {KeyBack(Said(db, {"providers_registry"}), p) :
                           p \in {p \in read : KeyOf(p) \notin {r.id : r \in RowsIn(db, "system_settings")}}}
               S == Readings(Said(db, {"providers_registry"}))
    <3>4. DownGateway(db) = {SetRows(db, settled(read)) : read \in S}
      <4> HIDE DEF db
      <4> QED BY Zenon DEF DownGateway, SetRows, Readings, Named
    <3>5. S = R
      BY <3>2
    <3>6. ASSUME NEW read PROVE settled(read) = KeyRows(x, read)
      <4> HIDE DEF db
      <4> QED BY <3>1, <3>2, <3>3, Zenon DEF KeyRows
    <3> HIDE DEF db, settled, S, R
    <3> QED BY <3>4, <3>5, <3>6
  <2>3. \A y : SetRows(db, y) = Db(SchemaAt(5), y)
    BY RowsSet, SchemaGrow
  <2>4. Down(6, db) = {Db(SchemaAt(5), KeyRows(x, read)) : read \in R}
    <3> HIDE DEF R, db
    <3> QED BY <2>2, <2>3, DownCases
  <2>5. {Db(SchemaAt(5), y) : y \in {KeyRows(x, read) : read \in R}}
            = {Db(SchemaAt(5), KeyRows(x, read)) : read \in R}
    <3> HIDE DEF R
    <3> QED OBVIOUS
  <2> QED BY <1>6, <2>1, <2>4, <2>5
<1>7. CASE n = 7
  <2>1. DropTables(Db(SchemaAt(7), x), {"token_usage_log"})
            = Db(SchemaAt(6), Rest(x, {"token_usage_log"}))
    BY DroppedShape, SchemaShrink DEF SchemaAt
  <2>2. Down(7, Db(SchemaAt(7), x)) = {Db(SchemaAt(6), Rest(x, {"token_usage_log"}))}
    BY <2>1, DownCases DEF DownTokenUsage
  <2>3. DownRows(7, x) = {Rest(x, {"token_usage_log"})}
    BY DEF DownRows
  <2> QED BY <1>7, <2>2, <2>3, OneOutcomeDown
<1>8. CASE n = 8
  <2>1. DownRows(8, x) = {x}
    BY DEF DownRows
  <2> QED BY <1>8, <2>1, DownIntegrityShape, OneOutcomeDown
<1>9. CASE n = 9
  <2>1. DownRows(9, x) = {x}
    BY DEF DownRows
  <2> QED BY <1>9, <2>1, DownSourceHashShape, OneOutcomeDown
<1>10. CASE n = 10
  <2> DEFINE a == Narrowed(x, "golden_labels", "is_active")
             b == Narrowed(a, "golden_labels", "version")
             d == Rest(b, {"audit_log"})
             y == Narrowed(d, "match_request_items", "review_notes")
  <2>1. DownRows(10, x) = {y}
    BY DEF DownRows
  <2>2. Down(10, Db(SchemaAt(10), x)) = {Db(SchemaAt(9), y)}
    BY DownAuditRolesShape
  <2> HIDE DEF y
  <2> QED BY <1>10, <2>1, <2>2, OneOutcomeDown
<1>11. CASE n = 11
  <2> DEFINE a == Narrowed(x, "match_requests", "job_payload_json")
             y == Narrowed(a, "match_requests", "job_name")
  <2>1. DownRows(11, x) = {y}
    BY DEF DownRows
  <2>2. Down(11, Db(SchemaAt(11), x)) = {Db(SchemaAt(10), y)}
    BY DownQueueRecoveryShape
  <2> HIDE DEF y
  <2> QED BY <1>11, <2>1, <2>2, OneOutcomeDown
<1> QED BY <1>1, <1>2, <1>3, <1>4, <1>5, <1>6, <1>7, <1>8, <1>9, <1>10, <1>11 DEF Latest

\* Every migration makes something of an empty database.
LEMMA UpOfNothing == ASSUME NEW n \in 1 .. Latest PROVE UpRows(n, {}) # {}
<1>1. CASE n \in {1, 2, 3, 7, 8}
  <2>1. \A x : UpRows(1, x) = {x} /\ UpRows(2, x) = {x} /\ UpRows(3, x) = {x}
               /\ UpRows(7, x) = {x} /\ UpRows(8, x) = {x}
    BY DEF UpRows
  <2> QED BY <1>1, <2>1
<1>2. CASE n \in {4, 5, 6, 10, 11}
  BY <1>2 DEF UpRows
<1>3. CASE n = 9
  <2> DEFINE K == Keepers(Db(SchemaAt(8), {}))
             e == [p \in {} |-> p]
  <2>1. RowsIn(Db(SchemaAt(8), {}), "catalog_products") = {}
    BY Parts DEF RowsIn
  <2>2. e \in K
    BY <2>1 DEF Keepers
  <2>3. Deduplicated({}, e, e, e) \in {Deduplicated({}, first, second, last) :
                      first \in K, second \in K, last \in K}
    <3> HIDE DEF K, e
    <3> QED BY <2>2
  <2>4. UpRows(9, {}) = {Deduplicated({}, first, second, last) :
                      first \in K, second \in K, last \in K}
    BY DEF UpRows
  <2> QED BY <1>3, <2>3, <2>4
<1> QED BY <1>1, <1>2, <1>3 DEF Latest

NextSchema(n, s) == (CHOOSE db \in Up(n, [schema |-> s, rows |-> {}]) : TRUE).schema

LEMMA NextBuilt == ASSUME NEW n \in 1 .. Latest PROVE NextSchema(n, SchemaAt(n - 1)) = SchemaAt(n)
<1>1. Up(n, Db(SchemaAt(n - 1), {})) = {Db(SchemaAt(n), y) : y \in UpRows(n, {})}
  BY UpShapes
<1>2. PICK y \in UpRows(n, {}) : TRUE
  BY UpOfNothing
<1>3. Db(SchemaAt(n), y) \in Up(n, Db(SchemaAt(n - 1), {}))
  BY <1>1
<1>4. (CHOOSE db \in Up(n, Db(SchemaAt(n - 1), {})) : TRUE) \in Up(n, Db(SchemaAt(n - 1), {}))
  BY <1>3
<1>5. \A db \in Up(n, Db(SchemaAt(n - 1), {})) : db.schema = SchemaAt(n)
  BY <1>1, Parts
<1>6. NextSchema(n, SchemaAt(n - 1)) = (CHOOSE db \in Up(n, Db(SchemaAt(n - 1), {})) : TRUE).schema
  BY Zenon DEF NextSchema, Db
<1> QED BY <1>4, <1>5, <1>6

LEMMA BuiltIsSchema == \A n \in 0 .. Latest : Built[n] = SchemaAt(n)
<1> DEFINE Solves(f) == f = [n \in 0 .. Latest |->
                               IF n = 0 THEN EmptySchema ELSE NextSchema(n, f[n - 1])]
           f == [n \in 0 .. Latest |-> SchemaAt(n)]
<1>1. SchemaAt(0) = EmptySchema
  BY DefinedGrow, ReferencesGrow, UniquesGrow, ChecksGrow DEF SchemaAt, Scheme, EmptySchema
<1>2. Solves(f)
  <2>1. \A n \in 1 .. Latest : n - 1 \in 0 .. Latest /\ f[n - 1] = SchemaAt(n - 1)
    BY DEF Latest
  <2>2. \A n \in 0 .. Latest : SchemaAt(n) = IF n = 0 THEN EmptySchema ELSE NextSchema(n, f[n - 1])
    <3> SUFFICES ASSUME NEW n \in 0 .. Latest
                 PROVE  SchemaAt(n) = IF n = 0 THEN EmptySchema ELSE NextSchema(n, f[n - 1])
      OBVIOUS
    <3>1. CASE n = 0
      BY <1>1, <3>1
    <3>2. CASE n # 0
      <4>1. n \in 1 .. Latest
        BY <3>2 DEF Latest
      <4>2. NextSchema(n, f[n - 1]) = SchemaAt(n)
        <5> HIDE DEF f
        <5> QED BY <2>1, <4>1, NextBuilt
      <4> QED BY <3>2, <4>2
    <3> QED BY <3>1, <3>2
  <2> QED BY <2>2
<1>3. Built = CHOOSE g : Solves(g)
  BY Zenon DEF Built, NextSchema
<1>4. Solves(Built)
  <2> HIDE DEF Solves, f
  <2> QED BY <1>2, <1>3, Zenon
<1>5. \A n \in 0 .. Latest : Built[n] = IF n = 0 THEN EmptySchema ELSE NextSchema(n, Built[n - 1])
  BY <1>4
<1>6. Built[0] = SchemaAt(0)
  BY <1>1, <1>5 DEF Latest
<1>7. ASSUME NEW n \in 1 .. Latest, Built[n - 1] = SchemaAt(n - 1)
      PROVE  Built[n] = SchemaAt(n)
  <2>1. Built[n] = NextSchema(n, SchemaAt(n - 1))
    BY <1>5, <1>7 DEF Latest
  <2> QED BY <2>1, NextBuilt
<1> DEFINE Good == {n \in 0 .. Latest : Built[n] = SchemaAt(n)}
<1>8. \A n \in 0 .. Latest : n \in Good
  <2> SUFFICES ASSUME NEW n \in 0 .. Latest PROVE n \in Good
    OBVIOUS
  <2>1. n \in Nat /\ Good \in SUBSET Nat /\ 0 \in Good
    BY <1>6 DEF Latest
  <2>2. \A i \in 1 .. n : i - 1 \in Good => i \in Good
    BY <1>7 DEF Latest
  <2> HIDE DEF Good
  <2> QED BY <2>1, <2>2, LoopEnds
<1> QED BY <1>8

-----------------------------------------------------------------------------
\* What the constraints of a revision have in common with those of its neighbours.

TablesAt(n) ==
    Since(1, n, FirstTables) \cup Since(2, n, {"users"}) \cup Since(3, n, {"system_settings"})
        \cup Since(7, n, {"token_usage_log"}) \cup Since(10, n, {"audit_log"})

LEMMA TablesThere ==
    ASSUME NEW n \in 0 .. Latest, NEW t
    PROVE  Entire(t) \in ColumnsAt(n) <=> t \in TablesAt(n)
<1>1. \A a : Entire(t) = Entire(a) <=> t = a
  BY DEF Entire
<1>2. \A c : c[2] # "" => Entire(t) # c
  <2>1. Entire(t)[2] = ""
    BY DEF Entire
  <2> QED BY <2>1
<1> DEFINE original == <<"match_request_items", "original_row_json">>
           must == <<"users", "must_change_password">>
           notes == <<"match_request_items", "review_notes">>
           version == <<"golden_labels", "version">>
           active == <<"golden_labels", "is_active">>
           name == <<"match_requests", "job_name">>
           payload == <<"match_requests", "job_payload_json">>
<1>3. Entire(t) \notin {original, must, notes, version, active, name, payload}
  <2>1. original[2] # "" /\ must[2] # "" /\ notes[2] # "" /\ version[2] # "" /\ active[2] # ""
        /\ name[2] # "" /\ payload[2] # ""
    OBVIOUS
  <2> HIDE DEF original, must, notes, version, active, name, payload
  <2> QED BY <2>1, <1>2
<1>4. ColumnsAt(n) = Since(1, n, {Entire(a) : a \in FirstTables})
        \cup Since(2, n, {Entire("users")}) \cup Since(3, n, {Entire("system_settings")})
        \cup Since(4, n, {original}) \cup Since(5, n, {must}) \cup Since(7, n, {Entire("token_usage_log")})
        \cup Since(10, n, {notes, Entire("audit_log"), version, active})
        \cup Since(11, n, {name, payload})
  BY DEF ColumnsAt
<1> HIDE DEF original, must, notes, version, active, name, payload
<1>5. \A k, a : Entire(t) \in Since(k, n, {Entire(a)}) <=> t \in Since(k, n, {a})
  BY <1>1 DEF Since
<1>6. Entire(t) \in Since(1, n, {Entire(a) : a \in FirstTables}) <=> t \in Since(1, n, FirstTables)
  BY <1>1 DEF Since
<1>7. /\ Entire(t) \notin Since(4, n, {original}) /\ Entire(t) \notin Since(5, n, {must})
      /\ Entire(t) \notin Since(11, n, {name, payload})
      /\ Entire(t) \in Since(10, n, {notes, Entire("audit_log"), version, active})
             <=> t \in Since(10, n, {"audit_log"})
  BY <1>1, <1>3 DEF Since
<1> QED BY <1>4, <1>5, <1>6, <1>7 DEF TablesAt

\* A table and a later column are there by these names and by their definitions.
LEMMA TableDefined ==
    ASSUME NEW n \in 0 .. Latest, NEW t
    PROVE  HasTable(SchemaAt(n), t) <=> Entire(t) \in ColumnsAt(n)
<1>1. HasTable(SchemaAt(n), t) <=> \E d \in DefinedAt(n) : d.table = t
  BY DEF HasTable, SchemaAt, Scheme
<1> DEFINE has(S) == \E d \in S : d.table = t
           original == Attribute("match_request_items", "original_row_json", Yes)
           must == Attribute("users", "must_change_password", No)
           notes == Attribute("match_request_items", "review_notes", Yes)
           version == Attribute("golden_labels", "version", Yes)
           active == Attribute("golden_labels", "is_active", No)
           name == Attribute("match_requests", "job_name", No)
           payload == Attribute("match_requests", "job_payload_json", No)
<1>2. /\ original.table = "match_request_items" /\ must.table = "users"
      /\ notes.table = "match_request_items" /\ version.table = "golden_labels"
      /\ active.table = "golden_labels" /\ name.table = "match_requests"
      /\ payload.table = "match_requests"
  BY DEF Attribute
<1>3. /\ has(FirstColumns) <=> t \in FirstTables
      /\ has(UserColumns) <=> t = "users"
      /\ has(SettingColumns) <=> t = "system_settings"
      /\ has(UsageColumns) <=> t = "token_usage_log"
      /\ has(AuditColumns) <=> t = "audit_log"
  BY FirstNamed, OthersNamed
<1>4. DefinedAt(n) =
          Since(1, n, FirstColumns) \cup Since(2, n, UserColumns) \cup Since(3, n, SettingColumns)
              \cup Since(4, n, {original}) \cup Since(5, n, {must}) \cup Since(7, n, UsageColumns)
              \cup Since(10, n, AuditColumns) \cup Since(10, n, {notes, version, active})
              \cup Since(11, n, {name, payload})
  BY DEF DefinedAt
<1> HIDE DEF original, must, notes, version, active, name, payload
<1>5. has(DefinedAt(n)) <=> t \in TablesAt(n)
  <2>1. "match_request_items" \in FirstTables /\ "golden_labels" \in FirstTables
        /\ "match_requests" \in FirstTables
    BY DEF FirstTables
  <2>2. has(DefinedAt(n)) <=>
            \/ n >= 1 /\ has(FirstColumns)
            \/ n >= 2 /\ has(UserColumns)
            \/ n >= 3 /\ has(SettingColumns)
            \/ n >= 4 /\ t = "match_request_items"
            \/ n >= 5 /\ t = "users"
            \/ n >= 7 /\ has(UsageColumns)
            \/ n >= 10 /\ (has(AuditColumns) \/ t = "match_request_items" \/ t = "golden_labels")
            \/ n >= 11 /\ t = "match_requests"
    <3>1. ASSUME NEW d
          PROVE  d \in DefinedAt(n) <=>
                     \/ n >= 1 /\ d \in FirstColumns
                     \/ n >= 2 /\ d \in UserColumns
                     \/ n >= 3 /\ d \in SettingColumns
                     \/ n >= 4 /\ d = original
                     \/ n >= 5 /\ d = must
                     \/ n >= 7 /\ d \in UsageColumns
                     \/ n >= 10 /\ (d \in AuditColumns \/ d \in {notes, version, active})
                     \/ n >= 11 /\ d \in {name, payload}
      BY <1>4 DEF Since
    <3> QED BY <1>2, <3>1
  <2>3. t \in TablesAt(n) <=>
            \/ n >= 1 /\ t \in FirstTables
            \/ n >= 2 /\ t = "users"
            \/ n >= 3 /\ t = "system_settings"
            \/ n >= 7 /\ t = "token_usage_log"
            \/ n >= 10 /\ t = "audit_log"
    BY DEF TablesAt, Since
  <2> HIDE DEF has
  <2> QED BY <1>3, <2>1, <2>2, <2>3 DEF Latest
<1> QED BY <1>1, <1>5, TablesThere

LEMMA ColumnDefined ==
    ASSUME NEW n \in 0 .. Latest, NEW t, NEW c, <<t, c>> \in LaterColumns
    PROVE  HasColumn(SchemaAt(n), t, c) <=> <<t, c>> \in ColumnsAt(n)
<1> DEFINE has(S) == \E d \in S : d.table = t /\ d.column = c
           original == Attribute("match_request_items", "original_row_json", Yes)
           must == Attribute("users", "must_change_password", No)
           notes == Attribute("match_request_items", "review_notes", Yes)
           version == Attribute("golden_labels", "version", Yes)
           active == Attribute("golden_labels", "is_active", No)
           name == Attribute("match_requests", "job_name", No)
           payload == Attribute("match_requests", "job_payload_json", No)
           is(d) == t = d.table /\ c = d.column
<1>1. HasColumn(SchemaAt(n), t, c) <=> has(DefinedAt(n))
  BY DEF HasColumn, SchemaAt, Scheme
<1>2. DefinedAt(n) =
          Since(1, n, FirstColumns) \cup Since(2, n, UserColumns) \cup Since(3, n, SettingColumns)
              \cup Since(4, n, {original}) \cup Since(5, n, {must}) \cup Since(7, n, UsageColumns)
              \cup Since(10, n, AuditColumns) \cup Since(10, n, {notes, version, active})
              \cup Since(11, n, {name, payload})
  BY DEF DefinedAt
<1>3. /\ ~has(FirstColumns) /\ ~has(UserColumns) /\ ~has(SettingColumns)
      /\ ~has(UsageColumns) /\ ~has(AuditColumns)
  <2>1. c \in Fresh \/ (t = "golden_labels" /\ c = "is_active")
    BY DEF LaterColumns, Fresh
  <2>2. "golden_labels" \notin {"users", "system_settings", "token_usage_log", "audit_log"}
    OBVIOUS
  <2> QED BY <2>1, <2>2, FirstNamed, OthersNamed
<1>4. has(DefinedAt(n)) <=>
          \/ n >= 4 /\ is(original)
          \/ n >= 5 /\ is(must)
          \/ n >= 10 /\ (is(notes) \/ is(version) \/ is(active))
          \/ n >= 11 /\ (is(name) \/ is(payload))
  <2> HIDE DEF original, must, notes, version, active, name, payload
  <2>1. ASSUME NEW d
        PROVE  d \in DefinedAt(n) <=>
                   \/ n >= 1 /\ d \in FirstColumns
                   \/ n >= 2 /\ d \in UserColumns
                   \/ n >= 3 /\ d \in SettingColumns
                   \/ n >= 4 /\ d = original
                   \/ n >= 5 /\ d = must
                   \/ n >= 7 /\ d \in UsageColumns
                   \/ n >= 10 /\ (d \in AuditColumns \/ d \in {notes, version, active})
                   \/ n >= 11 /\ d \in {name, payload}
    BY <1>2 DEF Since
  <2> QED BY <1>3, <2>1
<1>5. <<t, c>> \in ColumnsAt(n) <=>
          \/ n >= 4 /\ <<t, c>> = <<"match_request_items", "original_row_json">>
          \/ n >= 5 /\ <<t, c>> = <<"users", "must_change_password">>
          \/ n >= 10 /\ <<t, c>> \in {<<"match_request_items", "review_notes">>,
                             <<"golden_labels", "version">>, <<"golden_labels", "is_active">>}
          \/ n >= 11 /\ <<t, c>> \in {<<"match_requests", "job_name">>,
                             <<"match_requests", "job_payload_json">>}
  <2>1. \A a : <<t, c>> # Entire(a)
    <3>1. c # ""
      BY DEF LaterColumns
    <3> QED BY <3>1 DEF Entire
  <2> QED BY <2>1 DEF ColumnsAt, Since
<1>6. \A a, b, v : is(Attribute(a, b, v)) <=> <<t, c>> = <<a, b>>
  BY DEF Attribute
<1> HIDE DEF is
<1>7. /\ is(original) <=> <<t, c>> = <<"match_request_items", "original_row_json">>
      /\ is(must) <=> <<t, c>> = <<"users", "must_change_password">>
      /\ is(notes) <=> <<t, c>> = <<"match_request_items", "review_notes">>
      /\ is(version) <=> <<t, c>> = <<"golden_labels", "version">>
      /\ is(active) <=> <<t, c>> = <<"golden_labels", "is_active">>
      /\ is(name) <=> <<t, c>> = <<"match_requests", "job_name">>
      /\ is(payload) <=> <<t, c>> = <<"match_requests", "job_payload_json">>
  BY <1>6
<1> HIDE DEF has, original, must, notes, version, active, name, payload
<1> QED BY <1>1, <1>4, <1>5, <1>7

LEMMA TablesGrowBy ==
    /\ TablesAt(0) = {} /\ TablesAt(1) = FirstTables
    /\ TablesAt(2) = FirstTables \cup {"users"}
    /\ \A n \in 3 .. 6 : TablesAt(n) = FirstTables \cup {"users", "system_settings"}
    /\ \A n \in 7 .. 9 : TablesAt(n) = FirstTables \cup {"users", "system_settings", "token_usage_log"}
    /\ \A n \in 10 .. 11 : TablesAt(n) = FirstTables \cup {"users", "system_settings",
                                                         "token_usage_log", "audit_log"}
<1>1. /\ TablesAt(0) = {} /\ TablesAt(1) = FirstTables
      /\ TablesAt(2) = FirstTables \cup {"users"}
  BY DEF TablesAt, Since
<1>2. \A n \in 3 .. 6 : TablesAt(n) = FirstTables \cup {"users", "system_settings"}
  BY DEF TablesAt, Since
<1>3. \A n \in 7 .. 9 : TablesAt(n) = FirstTables \cup {"users", "system_settings", "token_usage_log"}
  BY DEF TablesAt, Since
<1>4. \A n \in 10 .. 11 : TablesAt(n) = FirstTables \cup {"users", "system_settings",
                                                         "token_usage_log", "audit_log"}
  BY DEF TablesAt, Since
<1> QED BY <1>1, <1>2, <1>3, <1>4

RefsHold(r, x) ==
    \A ref \in r : \A q \in OfTable(x, ref.from) :
        Value(q, ref.column) = Null \/ \E s \in OfTable(x, ref.to) : s.id = Value(q, ref.column)

SameIn(q, s, columns) == \A c \in columns : Value(q, c) # Null /\ Value(q, c) = Value(s, c)

UniquesHold(u, x) ==
    \A f \in u : \A q, s \in OfTable(x, f.table) : SameIn(q, s, f.columns) => q = s

ChecksHold(k, x) ==
    \A f \in k : \A q \in OfTable(x, f.table) : Value(q, f.column) \in f.values \cup {Null}

\* No required column holds a null.
NullsHold(d, x) ==
    \A r \in x : \A c \in DOMAIN r.has : r.has[c] = Null => Attribute(r.table, c, No) \notin d

LEMMA HoldsParts ==
    ASSUME NEW n, NEW x
    PROVE  Holds(Db(SchemaAt(n), x))
               <=> NullsHold(DefinedAt(n), x) /\ RefsHold(ReferencesAt(n), x) /\ UniquesHold(UniquesAt(n), x)
                       /\ ChecksHold(ChecksAt(n), x)
<1> DEFINE db == Db(SchemaAt(n), x)
<1>1. /\ db.schema.columns = DefinedAt(n) /\ db.rows = x
      /\ db.schema.references = ReferencesAt(n)
      /\ db.schema.uniques = UniquesAt(n)
      /\ db.schema.checks = ChecksAt(n)
      /\ \A t : RowsIn(db, t) = OfTable(x, t)
  BY DEF Db, SchemaAt, Scheme, RowsIn, OfTable
<1> HIDE DEF db
<1>2. (\A ref \in db.schema.references : \A r \in RowsIn(db, ref.from) :
           Value(r, ref.column) = Null
               \/ \E s \in RowsIn(db, ref.to) : s.id = Value(r, ref.column))
          <=> RefsHold(ReferencesAt(n), x)
  BY <1>1 DEF RefsHold
<1>3. (\A u \in db.schema.uniques : \A r, s \in RowsIn(db, u.table) :
           (\A c \in u.columns : Value(r, c) # Null /\ Value(r, c) = Value(s, c)) => r = s)
          <=> UniquesHold(UniquesAt(n), x)
  <2>1. (\A u \in db.schema.uniques : \A r, s \in RowsIn(db, u.table) :
             (\A c \in u.columns : Value(r, c) # Null /\ Value(r, c) = Value(s, c)) => r = s)
            <=> \A u \in db.schema.uniques : \A r, s \in RowsIn(db, u.table) :
                    SameIn(r, s, u.columns) => r = s
    BY Zenon DEF SameIn
  <2>2. (\A u \in db.schema.uniques : \A r, s \in RowsIn(db, u.table) :
             SameIn(r, s, u.columns) => r = s)
            <=> UniquesHold(UniquesAt(n), x)
    BY <1>1 DEF UniquesHold
  <2> QED BY <2>1, <2>2, Zenon
<1>4. (\A k \in db.schema.checks : \A r \in RowsIn(db, k.table) :
           Value(r, k.column) \in k.values \cup {Null})
          <=> ChecksHold(ChecksAt(n), x)
  BY <1>1, Zenon DEF ChecksHold
<1>6. (\A r \in db.rows : \A c \in DOMAIN r.has :
           r.has[c] = Null => Attribute(r.table, c, FALSE) \notin db.schema.columns)
          <=> NullsHold(DefinedAt(n), x)
  BY <1>1, Zenon DEF NullsHold, No
<1>5. Holds(db) <=> NullsHold(DefinedAt(n), x) /\ RefsHold(ReferencesAt(n), x) /\ UniquesHold(UniquesAt(n), x)
                        /\ ChecksHold(ChecksAt(n), x)
  BY <1>2, <1>3, <1>4, <1>6, Zenon DEF Holds
<1> USE DEF db
<1> QED BY <1>5

\* One reference says of rows what another says.
Like(a, b) == a.from = b.from /\ a.column = b.column /\ a.to = b.to

LEMMA ReferencesNear ==
    ASSUME NEW n \in 1 .. Latest
    PROVE  /\ \A a \in ReferencesAt(n) :
                 (\E b \in ReferencesAt(n - 1) : Like(a, b)) \/ a.from \notin TablesAt(n - 1)
           /\ \A b \in ReferencesAt(n - 1) : \E a \in ReferencesAt(n) : Like(b, a)
<1>1. /\ \A rule : Like(OfSuppliers("match_requests", rule), OfSuppliers("match_requests", "null"))
      /\ \A rule : Like(OfSuppliers("match_requests", rule), OfSuppliers("match_requests", "refuse"))
      /\ \A a : Like(a, a)
  BY DEF Like, OfSuppliers, Reference
<1>2. CASE n = 1
  BY <1>2, ReferencesGrow, TablesGrowBy
<1>3. CASE n \in 2 .. 6
  <2>1. ReferencesAt(n) = ReferencesAt(n - 1)
    <3>1. n = 2 \/ n - 1 \in 2 .. 6
      BY <1>3
    <3> QED BY <1>3, <3>1, ReferencesGrow
  <2> QED BY <2>1, <1>1
<1>4. CASE n = 7
  <2>1. ReferencesAt(7) = ReferencesAt(6) \cup {Usage}
    BY ReferencesGrow
  <2>2. Usage.from = "token_usage_log" /\ "token_usage_log" \notin TablesAt(6)
    BY TablesGrowBy DEF Usage, Reference, FirstTables
  <2> QED BY <1>1, <1>4, <2>1, <2>2
<1>5. CASE n = 8
  <2>1. ReferencesAt(8) = (ReferencesAt(7) \ {OfSuppliers("match_requests", "refuse")})
                 \cup {OfSuppliers("match_requests", "null")}
    BY ReferencesGrow
  <2>2. ReferencesAt(7) = (ReferencesAt(8) \ {OfSuppliers("match_requests", "null")})
                 \cup {OfSuppliers("match_requests", "refuse")}
    BY ReferencesGrow
  <2> QED BY <1>1, <1>5, <2>1, <2>2
<1>6. CASE n \in 9 .. 11
  <2>1. n \in 8 .. 11 /\ n - 1 \in 8 .. 11
    BY <1>6
  <2>2. ReferencesAt(n) = ReferencesAt(n - 1)
    BY <2>1, ReferencesGrow
  <2> QED BY <2>2, <1>1
<1> QED BY <1>2, <1>3, <1>4, <1>5, <1>6 DEF Latest

LEMMA UniquesNear ==
    ASSUME NEW n \in 1 .. Latest
    PROVE  /\ n \notin {8, 9} => \A u \in UniquesAt(n) :
                  u \in UniquesAt(n - 1) \/ u.table \notin TablesAt(n - 1)
           /\ UniquesAt(n - 1) \subseteq UniquesAt(n)
<1>1. CASE n = 1
  BY <1>1, UniquesGrow, TablesGrowBy
<1>2. CASE n = 2
  <2>1. Unique("users", {"username"}).table = "users" /\ "users" \notin TablesAt(1)
    BY TablesGrowBy DEF Unique, FirstTables
  <2> QED BY <1>2, <2>1, UniquesGrow
<1>3. CASE n \in 3 .. 7
  <2>1. n - 1 = 2 \/ n - 1 \in 3 .. 7
    BY <1>3
  <2>2. UniquesAt(n) = UniquesAt(n - 1)
    BY <1>3, <2>1, UniquesGrow
  <2> QED BY <2>2
<1>4. CASE n \in {8, 9}
  BY <1>4, UniquesGrow
<1>5. CASE n \in {10, 11}
  BY <1>5, UniquesGrow
<1> QED BY <1>1, <1>2, <1>3, <1>4, <1>5 DEF Latest

\* A check of another revision that asks as much.
AsStrict(a, b) == a.table = b.table /\ a.column = b.column /\ b.values \subseteq a.values

LEMMA ChecksNear ==
    ASSUME NEW n \in 1 .. Latest
    PROVE  /\ \A a \in ChecksAt(n) :
                 (\E b \in ChecksAt(n - 1) : AsStrict(a, b)) \/ a.table \notin TablesAt(n - 1)
           /\ n \notin {10, 11} => ChecksAt(n - 1) \subseteq ChecksAt(n)
<1>1. \A a : AsStrict(a, a)
  BY DEF AsStrict
<1>2. CASE n = 1
  BY <1>2, ChecksGrow, TablesGrowBy
<1>3. CASE n = 2
  <2>1. Check("users", "role", FirstRoles).table = "users" /\ "users" \notin TablesAt(1)
    BY TablesGrowBy DEF Check, FirstTables
  <2> QED BY <1>1, <1>3, <2>1, ChecksGrow
<1>4. CASE n \in 3 .. 9
  <2>1. n - 1 = 2 \/ n - 1 \in 3 .. 9
    BY <1>4
  <2>2. ChecksAt(n) = ChecksAt(n - 1)
    BY <1>4, <2>1, ChecksGrow
  <2> QED BY <1>1, <2>2
<1>5. CASE n = 10
  <2>1. Check("users", "role", FirstRoles) \in ChecksAt(9)
    BY ChecksGrow DEF Rechecked
  <2>2. AsStrict(Check("users", "role", AllRoles), Check("users", "role", FirstRoles))
    BY DEF AsStrict, Check, AllRoles
  <2>3. ChecksAt(10) \subseteq ChecksAt(9) \cup {Check("users", "role", AllRoles)}
    BY ChecksGrow DEF Rechecked
  <2> QED BY <1>1, <1>5, <2>1, <2>2, <2>3
<1>6. CASE n = 11
  <2>1. Check("match_requests", "status", FirstStatuses) \in ChecksAt(10)
    BY ChecksGrow DEF Rechecked
  <2>2. AsStrict(Check("match_requests", "status", AllStatuses),
                 Check("match_requests", "status", FirstStatuses))
    BY DEF AsStrict, Check, AllStatuses
  <2>3. ChecksAt(11) \subseteq ChecksAt(10) \cup {Check("match_requests", "status", AllStatuses)}
    BY ChecksGrow DEF Rechecked
  <2> QED BY <1>1, <1>6, <2>1, <2>2, <2>3
<1> QED BY <1>2, <1>3, <1>4, <1>5, <1>6 DEF Latest

-----------------------------------------------------------------------------
\* The steps, in terms of the rows.

LEMMA UpStep ==
    ASSUME SchemaInv, goal \in 0 .. Latest, MigrateUp
    PROVE  /\ at + 1 \in 1 .. Latest /\ at = (at + 1) - 1 /\ at < goal
           /\ UNCHANGED commands
           /\ \E y \in UpRows(at + 1, rows) :
                 IF Holds(Db(SchemaAt(at + 1), y))
                 THEN /\ schema' = SchemaAt(at + 1) /\ rows' = y /\ at' = at + 1
                      /\ UNCHANGED <<goal, before, failed>>
                 ELSE Rollback /\ failed' = at + 1
<1>1. at + 1 \in 1 .. Latest /\ at = (at + 1) - 1 /\ at < goal
  BY DEF SchemaInv, MigrateUp, Latest
<1>2. Database = Db(SchemaAt((at + 1) - 1), rows)
  BY <1>1 DEF Database, Db, SchemaInv
<1>3. Up(at + 1, Database) = {Db(SchemaAt(at + 1), y) : y \in UpRows(at + 1, rows)}
  BY <1>1, <1>2, UpShapes
<1>4. Migrate(at + 1, at + 1, Up(at + 1, Database))
  BY DEF MigrateUp
<1>5. PICK db \in Up(at + 1, Database) :
          IF Holds(db)
          THEN /\ schema' = db.schema /\ rows' = db.rows /\ at' = at + 1
               /\ UNCHANGED <<goal, before, failed>>
          ELSE Rollback /\ failed' = at + 1
  BY <1>4, Zenon DEF Migrate
<1>6. PICK y \in UpRows(at + 1, rows) : db = Db(SchemaAt(at + 1), y)
  BY <1>3, <1>5
<1>7. UNCHANGED commands
  BY <1>4 DEF Migrate
<1>8. db.schema = SchemaAt(at + 1) /\ db.rows = y
  BY <1>6, Parts
<1> QED BY <1>1, <1>5, <1>6, <1>7, <1>8

LEMMA DownStep ==
    ASSUME SchemaInv, goal \in 0 .. Latest, MigrateDown
    PROVE  /\ at \in 1 .. Latest /\ goal < at
           /\ UNCHANGED commands
           /\ \E y \in DownRows(at, rows) :
                 IF Holds(Db(SchemaAt(at - 1), y))
                 THEN /\ schema' = SchemaAt(at - 1) /\ rows' = y /\ at' = at - 1
                      /\ UNCHANGED <<goal, before, failed>>
                 ELSE Rollback /\ failed' = -at
<1>1. at \in 1 .. Latest /\ goal < at
  BY DEF SchemaInv, MigrateDown, Latest
<1>2. Database = Db(SchemaAt(at), rows)
  BY DEF Database, Db, SchemaInv
<1>3. Down(at, Database) = {Db(SchemaAt(at - 1), y) : y \in DownRows(at, rows)}
  BY <1>1, <1>2, DownShapes
<1>4. Migrate(-at, at - 1, Down(at, Database))
  BY DEF MigrateDown
<1>5. PICK db \in Down(at, Database) :
          IF Holds(db)
          THEN /\ schema' = db.schema /\ rows' = db.rows /\ at' = at - 1
               /\ UNCHANGED <<goal, before, failed>>
          ELSE Rollback /\ failed' = -at
  BY <1>4, Zenon DEF Migrate
<1>6. PICK y \in DownRows(at, rows) : db = Db(SchemaAt(at - 1), y)
  BY <1>3, <1>5
<1>7. UNCHANGED commands
  BY <1>4 DEF Migrate
<1>8. db.schema = SchemaAt(at - 1) /\ db.rows = y
  BY <1>6, Parts
<1> QED BY <1>1, <1>5, <1>6, <1>7, <1>8

\* A revision and a command, whatever the rows.
Course == SchemaInv /\ GoalInv

LEMMA NothingBefore ==
    /\ NoDatabase.at = 0 /\ NoDatabase.rows = {}
    /\ NoDatabase = [schema |-> SchemaAt(0), rows |-> NoDatabase.rows, at |-> NoDatabase.at]
<1>1. SchemaAt(0) = EmptySchema
  BY BuiltIsSchema DEF SchemaAt, Scheme, EmptySchema, DefinedAt, ReferencesAt, UniquesAt, ChecksAt, Since
<1> QED BY <1>1 DEF NoDatabase

LEMMA RollbackCourse ==
    ASSUME Course, Rollback, failed' \in -Latest .. Latest, UNCHANGED commands
    PROVE  Course'
<1>1. before.at \in 0 .. Latest /\ at' = before.at /\ goal' = before.at
      /\ schema' = SchemaAt(before.at) /\ before' = NoDatabase
  BY DEF Course, SchemaInv, Rollback
<1>2. SchemaInv'
  BY <1>1, NothingBefore DEF SchemaInv, Latest
<1>3. GoalInv'
  BY <1>1 DEF Course, GoalInv, Settled
<1> QED BY <1>2, <1>3 DEF Course

\* What is assumed of the constants, in parts.
LEMMA CommandsBounded == MaxCommands \in Nat
BY MigrationsAssumption, Zenon

LEMMA NullsApart ==
    /\ Null # No /\ Null # Yes /\ Null # "batch_match" /\ Null # EmptyJson
    /\ \A content \in Contents : \A r \in content : Writable(r)
    /\ \A content \in Contents : \A r, s \in content : r.table = s.table /\ r.id = s.id => r = s
BY MigrationsAssumption, Zenon DEF No, Yes, EmptyJson

LEMMA CourseHolds == MigrationsSpec => []Course
<1>1. MigrationsInit => Course
  <2> SUFFICES ASSUME MigrationsInit PROVE Course
    OBVIOUS
  <2>1. SchemaInv
    BY NothingBefore, BuiltIsSchema DEF MigrationsInit, SchemaInv, Latest
  <2>2. GoalInv
    BY CommandsBounded DEF MigrationsInit, GoalInv, Latest
  <2> QED BY <2>1, <2>2 DEF Course
<1>2. Course /\ [MigrationsNext]_migrationVars => Course'
  <2> SUFFICES ASSUME Course, [MigrationsNext]_migrationVars PROVE Course'
    OBVIOUS
  <2> USE DEF Course
  <2>1. CASE Work
    <3>1. at' = at /\ schema' = schema /\ goal' = goal /\ before' = before /\ commands' = commands
          /\ failed' = 0 /\ goal = at
      BY <2>1 DEF Work, Settled
    <3>2. SchemaInv'
      BY <3>1 DEF SchemaInv
    <3>3. GoalInv'
      BY <3>1 DEF GoalInv, Latest, SchemaInv
    <3> QED BY <3>2, <3>3
  <2>2. CASE Command
    <3>1. /\ at' = at /\ schema' = schema /\ rows' = rows /\ failed' = 0
          /\ goal = at /\ goal' \in {at - 1, Latest} \cap (0 .. Latest)
          /\ before' = [schema |-> schema, rows |-> rows, at |-> at]
          /\ commands' = commands + 1 /\ commands < MaxCommands
      BY <2>2 DEF Command, Settled
    <3>2. SchemaInv'
      BY <3>1 DEF SchemaInv
    <3>3. GoalInv'
      BY <3>1, CommandsBounded DEF GoalInv, Latest, SchemaInv
    <3> QED BY <3>2, <3>3
  <2>3. CASE MigrateUp
    <3>1. /\ at + 1 \in 1 .. Latest /\ at = (at + 1) - 1 /\ at < goal
          /\ UNCHANGED commands
      BY <2>3, UpStep DEF GoalInv
    <3>2. PICK y \in UpRows(at + 1, rows) :
              IF Holds(Db(SchemaAt(at + 1), y))
              THEN /\ schema' = SchemaAt(at + 1) /\ rows' = y /\ at' = at + 1
                   /\ UNCHANGED <<goal, before, failed>>
              ELSE Rollback /\ failed' = at + 1
      BY <2>3, UpStep DEF GoalInv
    <3>3. CASE Holds(Db(SchemaAt(at + 1), y))
      <4>1. SchemaInv'
        BY <3>1, <3>2, <3>3 DEF SchemaInv, Latest
      <4>2. GoalInv'
        BY <3>1, <3>2, <3>3 DEF GoalInv, Latest, SchemaInv, Settled
      <4> QED BY <4>1, <4>2
    <3>4. CASE ~Holds(Db(SchemaAt(at + 1), y))
      BY <3>1, <3>2, <3>4, RollbackCourse DEF Latest
    <3> QED BY <3>3, <3>4
  <2>4. CASE MigrateDown
    <3>1. /\ at \in 1 .. Latest /\ goal < at
          /\ UNCHANGED commands
      BY <2>4, DownStep DEF GoalInv
    <3>2. PICK y \in DownRows(at, rows) :
              IF Holds(Db(SchemaAt(at - 1), y))
              THEN /\ schema' = SchemaAt(at - 1) /\ rows' = y /\ at' = at - 1
                   /\ UNCHANGED <<goal, before, failed>>
              ELSE Rollback /\ failed' = -at
      BY <2>4, DownStep DEF GoalInv
    <3>3. CASE Holds(Db(SchemaAt(at - 1), y))
      <4>1. SchemaInv'
        BY <3>1, <3>2, <3>3 DEF SchemaInv, Latest
      <4>2. GoalInv'
        BY <3>1, <3>2, <3>3 DEF GoalInv, Latest, SchemaInv, Settled
      <4> QED BY <4>1, <4>2
    <3>4. CASE ~Holds(Db(SchemaAt(at - 1), y))
      <4>1. Rollback /\ failed' = -at
        BY <3>2, <3>4
      <4> QED BY <3>1, <4>1, RollbackCourse DEF Latest
    <3> QED BY <3>3, <3>4
  <2>5. CASE Commit
    <3>1. /\ at' = at /\ schema' = schema /\ rows' = rows /\ goal' = goal /\ failed' = failed
          /\ commands' = commands /\ goal = at /\ before # NoDatabase /\ before' = NoDatabase
      BY <2>5 DEF Commit
    <3>2. SchemaInv'
      BY <3>1, NothingBefore DEF SchemaInv, Latest
    <3>3. GoalInv'
      BY <3>1 DEF GoalInv, Latest, SchemaInv, Settled
    <3> QED BY <3>2, <3>3
  <2>6. CASE Interrupt
    <3>1. Rollback /\ failed' = failed /\ commands' = commands
      BY <2>6 DEF Interrupt
    <3> QED BY <3>1, RollbackCourse DEF GoalInv
  <2>7. CASE UNCHANGED migrationVars
    BY <2>7 DEF migrationVars, SchemaInv, GoalInv, Settled
  <2> QED BY <2>1, <2>2, <2>3, <2>4, <2>5, <2>6, <2>7 DEF MigrationsNext
<1> QED BY <1>1, <1>2, PTL DEF MigrationsSpec

\* The columns that the models declare and those of the first revision, table by table.
LEMMA ModelTable ==
    ASSUME NEW t \in FirstTables \ {"match_requests", "match_request_items", "golden_labels"}
    PROVE  ModelRequired[t] = FirstRequired[t] /\ ModelOptional[t] = FirstOptional[t]
<1>1. t \in {"supplier_profiles", "catalog_products", "catalog_embeddings", "catalog_aliases",
             "supplier_mappings", "match_candidates", "normalization_synonyms",
             "index_versions", "quality_reports"}
  BY DEF FirstTables
<1>2. CASE t = "supplier_profiles"
  BY <1>2 DEF ModelRequired, FirstRequired, ModelOptional, FirstOptional
<1>3. CASE t = "catalog_products"
  BY <1>3 DEF ModelRequired, FirstRequired, ModelOptional, FirstOptional
<1>4. CASE t = "catalog_embeddings"
  BY <1>4 DEF ModelRequired, FirstRequired, ModelOptional, FirstOptional
<1>5. CASE t = "catalog_aliases"
  BY <1>5 DEF ModelRequired, FirstRequired, ModelOptional, FirstOptional
<1>6. CASE t = "supplier_mappings"
  BY <1>6 DEF ModelRequired, FirstRequired, ModelOptional, FirstOptional
<1>7. CASE t = "match_candidates"
  BY <1>7 DEF ModelRequired, FirstRequired, ModelOptional, FirstOptional
<1>8. CASE t = "normalization_synonyms"
  BY <1>8 DEF ModelRequired, FirstRequired, ModelOptional, FirstOptional
<1>9. CASE t = "index_versions"
  BY <1>9 DEF ModelRequired, FirstRequired, ModelOptional, FirstOptional
<1>10. CASE t = "quality_reports"
  BY <1>10 DEF ModelRequired, FirstRequired, ModelOptional, FirstOptional
<1> QED BY <1>1, <1>2, <1>3, <1>4, <1>5, <1>6, <1>7, <1>8, <1>9, <1>10

LEMMA ModelGrown ==
    /\ ModelRequired["match_requests"]
           = FirstRequired["match_requests"] \cup {"job_name", "job_payload_json"}
    /\ ModelOptional["match_requests"] = FirstOptional["match_requests"]
    /\ ModelRequired["match_request_items"] = FirstRequired["match_request_items"]
    /\ ModelOptional["match_request_items"]
           = FirstOptional["match_request_items"] \cup {"original_row_json", "review_notes"}
    /\ ModelRequired["golden_labels"] = FirstRequired["golden_labels"] \cup {"is_active"}
    /\ ModelOptional["golden_labels"] = FirstOptional["golden_labels"] \cup {"version"}
<1>1. /\ ModelRequired["match_requests"]
             = FirstRequired["match_requests"] \cup {"job_name", "job_payload_json"}
      /\ ModelOptional["match_requests"] = FirstOptional["match_requests"]
  BY DEF ModelRequired, FirstRequired, ModelOptional, FirstOptional
<1>2. /\ ModelRequired["match_request_items"] = FirstRequired["match_request_items"]
      /\ ModelOptional["match_request_items"]
             = FirstOptional["match_request_items"] \cup {"original_row_json", "review_notes"}
  BY DEF ModelRequired, FirstRequired, ModelOptional, FirstOptional
<1>3. /\ ModelRequired["golden_labels"] = FirstRequired["golden_labels"] \cup {"is_active"}
      /\ ModelOptional["golden_labels"] = FirstOptional["golden_labels"] \cup {"version"}
  BY DEF ModelRequired, FirstRequired, ModelOptional, FirstOptional
<1> QED BY <1>1, <1>2, <1>3

LEMMA ColumnsSame ==
    ASSUME NEW C, NEW D, \A d \in C \cup D : \E t, c : d = Attribute(t, c, No) \/ d = Attribute(t, c, Yes),
           \A t, c : Attribute(t, c, No) \in C <=> Attribute(t, c, No) \in D,
           \A t, c : Attribute(t, c, Yes) \in C <=> Attribute(t, c, Yes) \in D
    PROVE  C = D
<1>1. ASSUME NEW d \in C PROVE d \in D
  <2>1. PICK t, c : d = Attribute(t, c, No) \/ d = Attribute(t, c, Yes)
    BY <1>1
  <2> QED BY <1>1, <2>1, Zenon
<1>2. ASSUME NEW d \in D PROVE d \in C
  <2>1. PICK t, c : d = Attribute(t, c, No) \/ d = Attribute(t, c, Yes)
    BY <1>2
  <2> QED BY <1>2, <2>1, Zenon
<1> QED BY <1>1, <1>2

LEMMA HeadColumns ==
    DefinedAt(Latest) = (ColumnsOf(ModelRequired, ModelOptional) \ AuditRequired)
                            \cup AuditLeft \cup SettingColumns
<1> DEFINE M == ColumnsOf(ModelRequired, ModelOptional)
           head == (M \ AuditRequired) \cup AuditLeft \cup SettingColumns
           ur == [users |-> {"user_id", "username", "hashed_password", "role", "is_active",
                             "created_at", "updated_at"}]
           uo == [users |-> {"full_name"}]
           gr == [token_usage_log |-> {"id", "operation", "provider", "model", "prompt_tokens",
                                       "completion_tokens", "total_tokens", "created_at"}]
           go == [token_usage_log |-> {"request_id", "estimated_cost_usd"}]
           ar == [audit_log |-> {"log_id", "action", "entity_type"}]
           ao == [audit_log |-> {"entity_id", "user_id", "username", "details", "ip_address",
                                 "created_at"}]
           new == {"users", "token_usage_log", "audit_log"}
           three == {"match_requests", "match_request_items", "golden_labels"}
           late == {"details", "created_at"}
<1>1. UserColumns = ColumnsOf(ur, uo) /\ UsageColumns = ColumnsOf(gr, go)
      /\ AuditColumns = ColumnsOf(ar, ao)
  BY Zenon DEF UserColumns, UsageColumns, AuditColumns
<1>2. /\ DOMAIN ur = {"users"} /\ DOMAIN gr = {"token_usage_log"} /\ DOMAIN ar = {"audit_log"}
      /\ DOMAIN FirstRequired = FirstTables /\ DOMAIN ModelRequired = FirstTables \cup new
      /\ FirstTables \cap new = {} /\ three \subseteq FirstTables
  <2>1. DOMAIN FirstRequired = FirstTables
    BY DEF FirstRequired, FirstTables
  <2>2. DOMAIN ModelRequired = FirstTables \cup new
    BY DEF ModelRequired, FirstTables
  <2>3. FirstTables \cap new = {} /\ three \subseteq FirstTables
    BY DEF FirstTables
  <2> QED BY <2>1, <2>2, <2>3
<1>3. /\ ModelRequired["users"] = ur["users"] \cup {"must_change_password"}
      /\ ModelOptional["users"] = uo["users"]
  BY DEF ModelRequired, ModelOptional
<1>4. /\ ModelRequired["token_usage_log"] = gr["token_usage_log"]
      /\ ModelOptional["token_usage_log"] = go["token_usage_log"]
  BY DEF ModelRequired, ModelOptional
<1>5. /\ ModelRequired["audit_log"] = ar["audit_log"] \cup late
      /\ ModelOptional["audit_log"] \cup late = ao["audit_log"]
      /\ ar["audit_log"] \cap late = {}
  BY DEF ModelRequired, ModelOptional
<1> HIDE DEF ur, uo, gr, go, ar, ao
<1>6. ASSUME NEW t, NEW c
      PROVE  /\ Attribute(t, c, No) \in AuditRequired <=> t = "audit_log" /\ c \in late
             /\ Attribute(t, c, Yes) \notin AuditRequired
             /\ Attribute(t, c, Yes) \in AuditLeft <=> t = "audit_log" /\ c \in late
             /\ Attribute(t, c, No) \notin AuditLeft
  <2>1. No # Yes
    BY Zenon DEF No, Yes
  <2>2. /\ AuditRequired = {Attribute("audit_log", b, No) : b \in late}
        /\ AuditLeft = {Attribute("audit_log", b, Yes) : b \in late}
    BY Zenon DEF AuditRequired, AuditLeft, No, Yes
  <2>3. \A a, b, v, e, f, w : Attribute(a, b, v) = Attribute(e, f, w) <=> a = e /\ b = f /\ v = w
    BY DEF Attribute
  <2> QED BY <2>1, <2>2, <2>3
<1>7. ASSUME NEW t, NEW c
      PROVE  /\ Attribute(t, c, No) \in head
                    <=> \/ t \in FirstTables \cup new /\ c \in ModelRequired[t]
                              /\ ~(t = "audit_log" /\ c \in late)
                        \/ Attribute(t, c, No) \in SettingColumns
             /\ Attribute(t, c, Yes) \in head
                    <=> \/ t \in FirstTables \cup new /\ c \in ModelOptional[t]
                        \/ t = "audit_log" /\ c \in late
                        \/ Attribute(t, c, Yes) \in SettingColumns
  BY <1>2, <1>6, ColumnsNamed
<1>8. ASSUME NEW t, NEW c
      PROVE  /\ Attribute(t, c, No) \in DefinedAt(Latest)
                    <=> \/ t \in FirstTables /\ c \in FirstRequired[t]
                        \/ t = "users" /\ c \in ur["users"]
                        \/ t = "token_usage_log" /\ c \in gr["token_usage_log"]
                        \/ t = "audit_log" /\ c \in ar["audit_log"]
                        \/ Attribute(t, c, No) \in SettingColumns
                        \/ t = "users" /\ c = "must_change_password"
                        \/ t = "golden_labels" /\ c = "is_active"
                        \/ t = "match_requests" /\ c \in {"job_name", "job_payload_json"}
             /\ Attribute(t, c, Yes) \in DefinedAt(Latest)
                    <=> \/ t \in FirstTables /\ c \in FirstOptional[t]
                        \/ t = "users" /\ c \in uo["users"]
                        \/ t = "token_usage_log" /\ c \in go["token_usage_log"]
                        \/ t = "audit_log" /\ c \in ao["audit_log"]
                        \/ Attribute(t, c, Yes) \in SettingColumns
                        \/ t = "match_request_items" /\ c \in {"original_row_json", "review_notes"}
                        \/ t = "golden_labels" /\ c = "version"
  <2>1. No # Yes
    BY Zenon DEF No, Yes
  <2>2. \A a, b, v, e, f, w : Attribute(a, b, v) = Attribute(e, f, w) <=> a = e /\ b = f /\ v = w
    BY DEF Attribute
  <2>3. DefinedAt(Latest) = FirstColumns \cup UserColumns \cup SettingColumns \cup UsageColumns
            \cup AuditColumns
            \cup {Attribute("match_request_items", "original_row_json", Yes),
                  Attribute("users", "must_change_password", No),
                  Attribute("match_request_items", "review_notes", Yes),
                  Attribute("golden_labels", "version", Yes),
                  Attribute("golden_labels", "is_active", No),
                  Attribute("match_requests", "job_name", No),
                  Attribute("match_requests", "job_payload_json", No)}
    BY DEF DefinedAt, Since, Latest
  <2>4. /\ Attribute(t, c, No) \in FirstColumns <=> t \in FirstTables /\ c \in FirstRequired[t]
        /\ Attribute(t, c, Yes) \in FirstColumns <=> t \in FirstTables /\ c \in FirstOptional[t]
    BY <1>2, ColumnsNamed DEF FirstColumns
  <2>5. /\ Attribute(t, c, No) \in UserColumns <=> t = "users" /\ c \in ur["users"]
        /\ Attribute(t, c, Yes) \in UserColumns <=> t = "users" /\ c \in uo["users"]
    BY <1>1, <1>2, ColumnsNamed
  <2>6. /\ Attribute(t, c, No) \in UsageColumns <=> t = "token_usage_log" /\ c \in gr["token_usage_log"]
        /\ Attribute(t, c, Yes) \in UsageColumns <=> t = "token_usage_log" /\ c \in go["token_usage_log"]
    BY <1>1, <1>2, ColumnsNamed
  <2>7. /\ Attribute(t, c, No) \in AuditColumns <=> t = "audit_log" /\ c \in ar["audit_log"]
        /\ Attribute(t, c, Yes) \in AuditColumns <=> t = "audit_log" /\ c \in ao["audit_log"]
    BY <1>1, <1>2, ColumnsNamed
  <2> QED BY <2>1, <2>2, <2>3, <2>4, <2>5, <2>6, <2>7
<1>9. ASSUME NEW t, NEW c
      PROVE  /\ Attribute(t, c, No) \in head <=> Attribute(t, c, No) \in DefinedAt(Latest)
             /\ Attribute(t, c, Yes) \in head <=> Attribute(t, c, Yes) \in DefinedAt(Latest)
  <2> HIDE DEF head
  <2>1. CASE t \in FirstTables \ three
    BY <1>2, <1>7, <1>8, <2>1, ModelTable
  <2>2. CASE t \in three
    BY <1>2, <1>7, <1>8, <2>2, ModelGrown
  <2>3. CASE t = "users"
    BY <1>2, <1>3, <1>7, <1>8, <2>3
  <2>4. CASE t = "token_usage_log"
    BY <1>2, <1>4, <1>7, <1>8, <2>4
  <2>5. CASE t = "audit_log"
    BY <1>2, <1>5, <1>7, <1>8, <2>5
  <2>6. CASE t \notin FirstTables \cup new
    BY <1>2, <1>7, <1>8, <2>6
  <2> QED BY <2>1, <2>2, <2>3, <2>4, <2>5, <2>6
<1>10. \A d \in head \cup DefinedAt(Latest) : \E t, c : d = Attribute(t, c, No) \/ d = Attribute(t, c, Yes)
  <2> DEFINE formed(d) == \E t, c : d = Attribute(t, c, No) \/ d = Attribute(t, c, Yes)
  <2>1. \A d \in AuditLeft : formed(d)
    BY Zenon DEF AuditLeft, No, Yes
  <2>2. \A d \in M \cup FirstColumns \cup UserColumns \cup SettingColumns \cup UsageColumns
                \cup AuditColumns : formed(d)
    <3>1. \A d \in M : formed(d)
      BY ColumnsNamed
    <3>2. \A d \in FirstColumns : formed(d)
      BY ColumnsNamed DEF FirstColumns
    <3>3. \A d \in UserColumns : formed(d)
      BY <1>1, ColumnsNamed
    <3>4. \A d \in SettingColumns : formed(d)
      BY ColumnsNamed DEF SettingColumns
    <3>5. \A d \in UsageColumns : formed(d)
      BY <1>1, ColumnsNamed
    <3>6. \A d \in AuditColumns : formed(d)
      BY <1>1, ColumnsNamed
    <3> QED BY <3>1, <3>2, <3>3, <3>4, <3>5, <3>6
  <2>3. \A d \in head : formed(d)
    <3> HIDE DEF formed, M
    <3> QED BY <2>1, <2>2
  <2>4. \A d \in DefinedAt(Latest) : formed(d)
    BY <2>2 DEF DefinedAt, Since, Latest
  <2> HIDE DEF head
  <2> QED BY <2>3, <2>4
<1> HIDE DEF head
<1>11. head = DefinedAt(Latest)
  BY <1>9, <1>10, ColumnsSame
<1> QED BY <1>11 DEF head, M

LEMMA HeadReferences ==
    ReferencesAt(Latest) \ {OfSuppliers("match_requests", "null")}
        = (CatalogReferences \cup RequestReferences \cup OtherReferences)
              \ {OfSuppliers("match_requests", "refuse")}
<1> DEFINE refuse == OfSuppliers("match_requests", "refuse")
           null == OfSuppliers("match_requests", "null")
<1>1. null \notin FirstReferences \cup {Usage} /\ refuse \notin FirstReferences \cup {Usage}
  BY DEF FirstReferences, CatalogReferences, OfSuppliers, OfProducts, Reference, Usage
<1>2. ReferencesAt(Latest) = FirstReferences \cup {null} \cup {Usage}
  BY DEF ReferencesAt, Since, Usage, Latest
<1>3. CatalogReferences \cup RequestReferences \cup OtherReferences
          = FirstReferences \cup {refuse} \cup {Usage}
  BY DEF FirstReferences, RequestReferences, OtherReferences, Usage
<1> HIDE DEF refuse, null
<1>4. ReferencesAt(Latest) \ {null}
          = (CatalogReferences \cup RequestReferences \cup OtherReferences) \ {refuse}
  BY <1>1, <1>2, <1>3
<1> QED BY <1>4 DEF refuse, null

LEMMA HeadUniques ==
    /\ UniquesAt(Latest) \ ModelUniques
           = {Unique("catalog_products", {"source_hash"}),
              Unique("supplier_mappings", {"supplier_id", "supplier_raw_text"}),
              Unique("index_versions", {"is_active"})}
    /\ ModelUniques \subseteq UniquesAt(Latest)
<1> DEFINE onec == Unique("catalog_products", {"onec_ref"})
           active == Unique("index_versions", {"is_active"})
           name == Unique("users", {"username"})
           text == Unique("supplier_mappings", {"supplier_id", "supplier_raw_text"})
           hash == Unique("catalog_products", {"source_hash"})
<1>1. UniquesAt(Latest) = {onec, active, name, text, hash} /\ ModelUniques = {onec, name}
  BY DEF UniquesAt, Since, Latest, ModelUniques
<1>2. {active, text, hash} \cap {onec, name} = {}
  <2>1. {"source_hash"} # {"onec_ref"}
    OBVIOUS
  <2>2. /\ onec.table = "catalog_products" /\ active.table = "index_versions"
        /\ name.table = "users" /\ text.table = "supplier_mappings"
        /\ hash.table = "catalog_products"
        /\ hash.columns = {"source_hash"} /\ onec.columns = {"onec_ref"}
    BY DEF Unique
  <2> HIDE DEF onec, active, name, text, hash
  <2> QED BY <2>1, <2>2
<1> HIDE DEF onec, active, name, text, hash
<1>3. UniquesAt(Latest) \ ModelUniques = {hash, text, active} /\ ModelUniques \subseteq UniquesAt(Latest)
  BY <1>1, <1>2
<1> QED BY <1>3 DEF onec, active, name, text, hash

LEMMA HeadChecks ==
    /\ ChecksAt(Latest) \ ModelChecks = {Check("users", "role", AllRoles)}
    /\ ModelChecks \subseteq ChecksAt(Latest)
<1> DEFINE status == Check("match_requests", "status", AllStatuses)
           role == Check("users", "role", AllRoles)
<1>1. ChecksAt(Latest) = FirstChecks \cup {status} \cup {role}
  BY DEF ChecksAt, Since, Latest
<1>2. AllStatuses = {"pending", "queued", "running", "done", "failed"}
  BY DEF AllStatuses, FirstStatuses
<1>3. ModelChecks = FirstChecks \cup {status}
  BY <1>2 DEF ModelChecks, FirstChecks
<1>4. role \notin FirstChecks \cup {status}
  BY DEF FirstChecks, Check
<1> HIDE DEF status, role
<1>5. ChecksAt(Latest) \ ModelChecks = {role} /\ ModelChecks \subseteq ChecksAt(Latest)
  BY <1>1, <1>3, <1>4
<1> QED BY <1>5 DEF role

\* Whatever upgrades, downgrades, failures and interruptions have led to a revision, its
\* schema is what the migrations (migrations/versions) build of an empty database, and at
\* the head it has the columns, by name and NOT NULL, and the constraints that the models
\* (db/models.py) declare, but for what is named: two columns of the audit log that are
\* left nullable, the settings, one rule of deletion, three uniques and the roles.
THEOREM SchemaCorrect == MigrationsSpec => []SchemaIsDeclared
<1>1. Course => SchemaIsDeclared
  <2> SUFFICES ASSUME Course PROVE SchemaIsDeclared
    OBVIOUS
  <2>1. at \in 0 .. Latest /\ schema = SchemaAt(at)
    BY DEF Course, SchemaInv
  <2>2. schema = Built[at]
    BY <2>1, BuiltIsSchema
  <2>3. ASSUME at = Latest
        PROVE  /\ schema.columns = DefinedAt(Latest)
               /\ schema.references = ReferencesAt(Latest)
               /\ schema.uniques = UniquesAt(Latest)
               /\ schema.checks = ChecksAt(Latest)
    BY <2>1, <2>3 DEF SchemaAt, Scheme
  <2>4. ASSUME at = Latest
        PROVE  /\ schema.columns = (ColumnsOf(ModelRequired, ModelOptional) \ AuditRequired)
                                       \cup AuditLeft \cup SettingColumns
               /\ schema.references \ {OfSuppliers("match_requests", "null")}
                      = (CatalogReferences \cup RequestReferences \cup OtherReferences)
                            \ {OfSuppliers("match_requests", "refuse")}
               /\ schema.uniques \ ModelUniques
                      = {Unique("catalog_products", {"source_hash"}),
                         Unique("supplier_mappings", {"supplier_id", "supplier_raw_text"}),
                         Unique("index_versions", {"is_active"})}
               /\ ModelUniques \subseteq schema.uniques
               /\ schema.checks \ ModelChecks = {Check("users", "role", AllRoles)}
               /\ ModelChecks \subseteq schema.checks
    BY <2>3, <2>4, HeadColumns, HeadReferences, HeadUniques, HeadChecks, Zenon
  <2> QED BY <2>2, <2>4, Zenon DEF SchemaIsDeclared
<1> QED BY <1>1, CourseHolds, PTL

-----------------------------------------------------------------------------
\* What a migration other than 0007 makes of the rows of a table.

\* A row with further columns, which have come later.
Grown(r, s) ==
    /\ s.table = r.table /\ s.id = r.id
    /\ DOMAIN r.has \subseteq DOMAIN s.has
    /\ \A c \in DOMAIN r.has : s.has[c] = r.has[c]
    /\ \A c \in DOMAIN s.has \ DOMAIN r.has : <<r.table, c>> \in LaterColumns
    /\ r.table = "system_settings" => s = r

Near(way, r, s) == IF way = "up" THEN Grown(r, s) ELSE Grown(s, r)

\* The rows of each of these tables are carried over, one by one.
Carries(f, way, x, y, tables) ==
    \A t \in tables :
        /\ OfTable(y, t) = {f[r] : r \in OfTable(x, t)}
        /\ \A r \in OfTable(x, t) : Near(way, r, f[r])

Carry(way, x, y, tables) == \E f : Carries(f, way, x, y, tables)

Shaped(r) == r = [table |-> r.table, id |-> r.id, has |-> [c \in DOMAIN r.has |-> r.has[c]]]

LEMMA WithShape ==
    ASSUME NEW r, Writable(r), NEW c, NEW v
    PROVE  /\ With(r, c, v).table = r.table /\ With(r, c, v).id = r.id
           /\ DOMAIN With(r, c, v).has = DOMAIN r.has \cup {c}
           /\ \A d \in DOMAIN r.has : d # c => With(r, c, v).has[d] = r.has[d]
           /\ With(r, c, v).has[c] = v
           /\ Shaped(With(r, c, v))
<1> DEFINE h == [d \in DOMAIN r.has \cup {c} |-> IF d = c THEN v ELSE r.has[d]]
<1>1. /\ DOMAIN h = DOMAIN r.has \cup {c} /\ h[c] = v
      /\ \A d \in DOMAIN r.has : d # c => h[d] = r.has[d]
      /\ h = [d \in DOMAIN h |-> h[d]]
  OBVIOUS
<1>2. With(r, c, v) = [table |-> r.table, id |-> r.id, has |-> h]
  <2>1. r = [table |-> r.table, id |-> r.id, has |-> r.has]
    BY DEF Writable
  <2> DEFINE g == h
  <2>2. With(r, c, v) = [r EXCEPT !.has = g]
    BY Zenon DEF With
  <2> HIDE DEF h
  <2> QED BY <2>1, <2>2
<1> HIDE DEF h
<1> QED BY <1>1, <1>2 DEF Shaped

LEMMA WithoutShape ==
    ASSUME NEW r, Writable(r), NEW S
    PROVE  /\ Without(r, S).table = r.table /\ Without(r, S).id = r.id
           /\ DOMAIN Without(r, S).has = DOMAIN r.has \ S
           /\ \A d \in DOMAIN r.has \ S : Without(r, S).has[d] = r.has[d]
           /\ Shaped(Without(r, S))
           /\ S \cap DOMAIN r.has = {} => Without(r, S) = r
<1> DEFINE h == [d \in DOMAIN r.has \ S |-> r.has[d]]
<1>1. /\ DOMAIN h = DOMAIN r.has \ S
      /\ \A d \in DOMAIN r.has \ S : h[d] = r.has[d]
      /\ h = [d \in DOMAIN h |-> h[d]]
  OBVIOUS
<1>2. r = [table |-> r.table, id |-> r.id, has |-> r.has]
  BY DEF Writable
<1>3. Without(r, S) = [table |-> r.table, id |-> r.id, has |-> h]
  <2> DEFINE g == h
  <2>2. Without(r, S) = [r EXCEPT !.has = g]
    BY Zenon DEF Without
  <2> HIDE DEF h
  <2> QED BY <1>2, <2>2
<1>4. S \cap DOMAIN r.has = {} => h = r.has
  <2>1. ASSUME S \cap DOMAIN r.has = {} PROVE h = [d \in DOMAIN r.has |-> r.has[d]]
    <3>1. DOMAIN r.has \ S = DOMAIN r.has
      BY <2>1
    <3> QED BY <3>1, Zenon
  <2>2. r.has = [d \in DOMAIN r.has |-> r.has[d]]
    <3> DEFINE k == [d \in DOMAIN r.has |-> r.has[d]]
    <3>1. r = [table |-> r.table, id |-> r.id, has |-> k]
      BY Zenon DEF Writable
    <3> HIDE DEF k
    <3>2. r.has = k
      BY <3>1
    <3> QED BY <3>2 DEF k
  <2> QED BY <2>1, <2>2
<1> HIDE DEF h
<1> QED BY <1>1, <1>2, <1>3, <1>4 DEF Shaped

\* No product and no setting has a later column.
LEMMA LaterElsewhere ==
    ASSUME NEW t, NEW c, <<t, c>> \in LaterColumns
    PROVE  t \in {"match_request_items", "users", "match_requests", "golden_labels"}
BY DEF LaterColumns

LEMMA GrownWritable ==
    ASSUME NEW r, NEW s, Grown(r, s) \/ Grown(s, r), Writable(r),
           Shaped(s)
    PROVE  Writable(s)
<1>1. s.table = r.table /\ s.id = r.id
  BY DEF Grown
<1>2. s.table = "catalog_products" =>
          s.id # Null /\ "created_at" \in DOMAIN s.has /\ s.has.created_at \in Int
  <2> SUFFICES ASSUME s.table = "catalog_products"
               PROVE  s.id # Null /\ "created_at" \in DOMAIN s.has /\ s.has.created_at \in Int
    OBVIOUS
  <2>1. r.id # Null /\ "created_at" \in DOMAIN r.has /\ r.has.created_at \in Int
    BY <1>1 DEF Writable
  <2>2. \A c : <<s.table, c>> \notin LaterColumns
    BY LaterElsewhere
  <2> QED BY <1>1, <2>1, <2>2 DEF Grown
<1>3. s.table = "system_settings" => s = r
  BY <1>1 DEF Grown
<1> HIDE DEF Grown
<1> QED BY <1>1, <1>2, <1>3, Zenon DEF Writable, Shaped

LEMMA GrownValue ==
    ASSUME NEW r, NEW s, Grown(r, s) \/ Grown(s, r), NEW c, <<r.table, c>> \notin LaterColumns
    PROVE  Value(s, c) = Value(r, c)
<1>1. s.table = r.table
  BY DEF Grown
<1>2. c \in DOMAIN r.has <=> c \in DOMAIN s.has
  BY <1>1 DEF Grown
<1>3. c \in DOMAIN r.has => s.has[c] = r.has[c]
  BY <1>2 DEF Grown
<1> QED BY <1>2, <1>3 DEF Value

LEMMA NearBoth ==
    ASSUME NEW way, NEW r, NEW s, Near(way, r, s)
    PROVE  /\ Grown(r, s) \/ Grown(s, r)
           /\ s.table = r.table /\ s.id = r.id
           /\ \A c \in DOMAIN r.has \cap DOMAIN s.has : s.has[c] = r.has[c]
           /\ \A c : <<r.table, c>> \notin LaterColumns => Value(s, c) = Value(r, c)
           /\ r.table = "system_settings" => s = r
<1>1. Grown(r, s) \/ Grown(s, r)
  BY DEF Near
<1>2. /\ s.table = r.table /\ s.id = r.id
      /\ \A c \in DOMAIN r.has \cap DOMAIN s.has : s.has[c] = r.has[c]
      /\ r.table = "system_settings" => s = r
  BY <1>1 DEF Grown
<1>3. \A c : <<r.table, c>> \notin LaterColumns => Value(s, c) = Value(r, c)
  BY <1>1, GrownValue
<1> QED BY <1>1, <1>2, <1>3

LEMMA NearItself == ASSUME NEW way, NEW r PROVE Near(way, r, r)
BY DEF Near, Grown

LEMMA NearTrans ==
    ASSUME NEW way, NEW r, NEW s, NEW q, Near(way, r, s), Near(way, s, q)
    PROVE  Near(way, r, q)
<1>1. ASSUME NEW a, NEW b, NEW c, Grown(a, b), Grown(b, c) PROVE Grown(a, c)
  BY <1>1 DEF Grown
<1> QED BY <1>1 DEF Near

LEMMA CarryItself == ASSUME NEW way, NEW x, NEW tables PROVE Carry(way, x, x, tables)
<1> DEFINE f == [r \in x |-> r]
<1>1. \A t \in tables : OfTable(x, t) = {f[r] : r \in OfTable(x, t)}
  BY DEF OfTable
<1>2. \A t \in tables : \A r \in OfTable(x, t) : f[r] = r /\ Near(way, r, r)
  BY NearItself DEF OfTable
<1> HIDE DEF f
<1>3. Carries(f, way, x, x, tables)
  BY <1>1, <1>2 DEF Carries
<1> QED BY <1>3, Zenon DEF Carry

LEMMA CarryTrans ==
    ASSUME NEW way, NEW x, NEW y, NEW z, NEW tables,
           Carry(way, x, y, tables), Carry(way, y, z, tables)
    PROVE  Carry(way, x, z, tables)
<1>1. PICK f : Carries(f, way, x, y, tables)
  BY Zenon DEF Carry
<1>2. PICK g : Carries(g, way, y, z, tables)
  BY Zenon DEF Carry
<1> DEFINE h == [r \in x |-> g[f[r]]]
<1>3. \A r \in x : h[r] = g[f[r]]
  OBVIOUS
<1> HIDE DEF h
<1>4. ASSUME NEW t \in tables
      PROVE  /\ OfTable(z, t) = {h[r] : r \in OfTable(x, t)}
             /\ \A r \in OfTable(x, t) : Near(way, r, h[r])
  <2>1. /\ OfTable(y, t) = {f[r] : r \in OfTable(x, t)}
        /\ \A r \in OfTable(x, t) : Near(way, r, f[r])
    BY <1>1 DEF Carries
  <2>2. /\ OfTable(z, t) = {g[r] : r \in OfTable(y, t)}
        /\ \A r \in OfTable(y, t) : Near(way, r, g[r])
    BY <1>2 DEF Carries
  <2>3. \A r \in OfTable(x, t) : r \in x /\ f[r] \in OfTable(y, t) /\ h[r] = g[f[r]]
    BY <1>3, <2>1 DEF OfTable
  <2>4. OfTable(z, t) = {h[r] : r \in OfTable(x, t)}
    BY <2>1, <2>2, <2>3
  <2>5. \A r \in OfTable(x, t) : Near(way, r, h[r])
    BY <2>1, <2>2, <2>3, NearTrans
  <2> QED BY <2>4, <2>5
<1>5. Carries(h, way, x, z, tables)
  BY <1>4, Zenon DEF Carries
<1> QED BY <1>5, Zenon DEF Carry

Image(f, x) == {f[r] : r \in x}

\* A row by row edit carries.
LEMMA CarryEach ==
    ASSUME NEW way, NEW x, NEW f, NEW tables, \A r \in x : Near(way, r, f[r])
    PROVE  Carry(way, x, Image(f, x), tables)
<1> DEFINE y == {f[r] : r \in x}
<1>1. ASSUME NEW t \in tables PROVE OfTable(y, t) = {f[r] : r \in OfTable(x, t)}
  <2>1. \A r \in x : f[r].table = r.table
    BY NearBoth
  <2> QED BY <2>1 DEF OfTable
<1>2. \A t \in tables : \A r \in OfTable(x, t) : Near(way, r, f[r])
  BY DEF OfTable
<1> HIDE DEF y
<1>3. Carries(f, way, x, y, tables)
  BY <1>1, <1>2, Zenon DEF Carries
<1>4. Carry(way, x, y, tables)
  BY <1>3, Zenon DEF Carry
<1> QED BY <1>4 DEF y, Image

LEMMA PlacedMore ==
    ASSUME NEW x, NEW c, NEW d, Placed(x, c), c \subseteq d
    PROVE  Placed(x, d)
BY DEF Placed

\* A row of the same table, in the columns that are there after an edit.
Edited(way, r, s, d) ==
    /\ Near(way, r, s)
    /\ Shaped(s)
    /\ Entire(r.table) \in d
    /\ \A e \in DOMAIN s.has : <<r.table, e>> \in LaterColumns => <<r.table, e>> \in d

\* What an edit row by row leaves to show: that its rows stand in the columns.
LEMMA PlacedEach ==
    ASSUME NEW way, NEW x, NEW c, NEW d, NEW f, Placed(x, c),
           \A r \in x : Edited(way, r, f[r], d)
    PROVE  Placed(Image(f, x), d)
<1> DEFINE y == {f[r] : r \in x}
<1>0. ASSUME NEW r \in x
      PROVE  /\ Near(way, r, f[r]) /\ Entire(r.table) \in d /\ Shaped(f[r])
             /\ \A e \in DOMAIN f[r].has : <<r.table, e>> \in LaterColumns => <<r.table, e>> \in d
  BY Zenon DEF Edited
<1>1. \A s \in y : Writable(s)
  <2> SUFFICES ASSUME NEW r \in x PROVE Writable(f[r])
    OBVIOUS
  <2>1. Writable(r)
    BY DEF Placed
  <2>2. Grown(r, f[r]) \/ Grown(f[r], r)
    BY <1>0, NearBoth, Zenon
  <2>3. Shaped(f[r])
    BY <1>0, Zenon
  <2> QED BY <2>1, <2>2, <2>3, GrownWritable, Zenon
<1>2. ASSUME NEW r \in x PROVE f[r].table = r.table /\ f[r].id = r.id
  <2>1. Near(way, r, f[r])
    BY <1>0, Zenon
  <2>2. Grown(r, f[r]) \/ Grown(f[r], r)
    BY <2>1 DEF Near
  <2> QED BY <2>2 DEF Grown
<1>3. \A s \in y : Entire(s.table) \in d
         /\ \A e \in DOMAIN s.has : <<s.table, e>> \in LaterColumns => <<s.table, e>> \in d
  <2> SUFFICES ASSUME NEW r \in x
               PROVE  /\ Entire(f[r].table) \in d
                      /\ \A e \in DOMAIN f[r].has : <<f[r].table, e>> \in LaterColumns
                             => <<f[r].table, e>> \in d
    BY Zenon DEF y
  <2>1. f[r].table = r.table
    BY <1>2
  <2>2. /\ Entire(r.table) \in d
        /\ \A e \in DOMAIN f[r].has : <<r.table, e>> \in LaterColumns => <<r.table, e>> \in d
    BY <1>0, Zenon
  <2> QED BY <2>1, <2>2, Zenon
<1>4. \A r, s \in OfTable(y, "catalog_products") : r.id = s.id => r = s
  <2> SUFFICES ASSUME NEW r \in OfTable(y, "catalog_products"),
                      NEW s \in OfTable(y, "catalog_products"), r.id = s.id
               PROVE  r = s
    OBVIOUS
  <2>1. PICK p \in x, q \in x : r = f[p] /\ s = f[q]
    BY DEF OfTable
  <2>2. p \in OfTable(x, "catalog_products") /\ q \in OfTable(x, "catalog_products") /\ p.id = q.id
    BY <1>2, <2>1 DEF OfTable
  <2> QED BY <2>1, <2>2 DEF Placed
<1> HIDE DEF y
<1>5. Placed(y, d)
  BY <1>1, <1>3, <1>4 DEF Placed
<1> QED BY <1>5 DEF y, Image

LEMMA WidenedCarries ==
    ASSUME NEW x, NEW c, Placed(x, c), NEW table, NEW column, NEW v, NEW tables,
           <<table, column>> \in LaterColumns \ c
    PROVE  /\ Placed(Widened(x, table, column, v), WithColumn(c, table, column))
           /\ Carry("up", x, Widened(x, table, column, v), tables)
<1> DEFINE f == [r \in x |-> IF r.table = table THEN With(r, column, v) ELSE r]
<1>1. Widened(x, table, column, v) = Image(f, x)
  BY DEF Widened, Image
<1>2. \A r \in x : f[r] = IF r.table = table THEN With(r, column, v) ELSE r
  OBVIOUS
<1> HIDE DEF f
<1>3. table # "system_settings"
  BY LaterElsewhere
<1>4. ASSUME NEW r \in x
      PROVE  Edited("up", r, f[r], WithColumn(c, table, column))
  <2>1. /\ Writable(r) /\ Entire(r.table) \in c
        /\ \A d \in DOMAIN r.has : <<r.table, d>> \in LaterColumns => <<r.table, d>> \in c
    BY DEF Placed
  <2>2. CASE r.table = table
    <3>1. f[r] = With(r, column, v)
      BY <1>2, <2>2
    <3>2. column \notin DOMAIN r.has
      BY <2>1, <2>2
    <3> DEFINE s == With(r, column, v)
    <3>3. /\ s.table = r.table /\ s.id = r.id
          /\ DOMAIN s.has = DOMAIN r.has \cup {column}
          /\ \A d \in DOMAIN r.has : s.has[d] = r.has[d]
          /\ Shaped(s)
      <4>1. /\ s.table = r.table /\ s.id = r.id
            /\ DOMAIN s.has = DOMAIN r.has \cup {column}
            /\ \A d \in DOMAIN r.has : d # column => s.has[d] = r.has[d]
            /\ Shaped(s)
        <5>1. s = With(r, column, v)
          OBVIOUS
        <5> HIDE DEF s
        <5> QED BY <2>1, <5>1, WithShape
      <4> HIDE DEF s
      <4> QED BY <3>2, <4>1
    <3> HIDE DEF s
    <3>4. Grown(r, s)
      BY <1>3, <2>2, <3>3 DEF Grown
    <3>5. \A e \in DOMAIN s.has : <<r.table, e>> \in LaterColumns
              => <<r.table, e>> \in WithColumn(c, table, column)
      BY <2>1, <2>2, <3>3 DEF WithColumn
    <3>6. f[r] = s
      BY <3>1 DEF s
    <3> QED BY <2>1, <3>3, <3>4, <3>5, <3>6 DEF Near, WithColumn, Edited
  <2>3. CASE r.table # table
    <3>1. f[r] = r
      BY <1>2, <2>3
    <3>2. Near("up", r, r)
      BY NearItself
    <3>3. \A e \in DOMAIN r.has : <<r.table, e>> \in LaterColumns
              => <<r.table, e>> \in WithColumn(c, table, column)
      BY <2>1 DEF WithColumn
    <3>4. Shaped(r)
      BY <2>1, Zenon DEF Writable, Shaped
    <3>5. Entire(r.table) \in WithColumn(c, table, column)
      BY <2>1 DEF WithColumn
    <3> QED BY <3>1, <3>2, <3>3, <3>4, <3>5, Zenon DEF Edited
  <2> QED BY <2>2, <2>3
<1>5. Placed(Image(f, x), WithColumn(c, table, column))
  BY <1>4, PlacedEach, Zenon
<1>6. Carry("up", x, Image(f, x), tables)
  <2>1. \A r \in x : Near("up", r, f[r])
    BY <1>4, Zenon DEF Edited
  <2> QED BY <2>1, CarryEach, Zenon
<1> QED BY <1>1, <1>5, <1>6, Zenon

LEMMA NarrowedCarries ==
    ASSUME NEW x, NEW c, Placed(x, c), NEW table, NEW column, NEW tables,
           <<table, column>> \in LaterColumns, column # ""
    PROVE  /\ Placed(Narrowed(x, table, column), WithoutColumn(c, table, column))
           /\ Carry("down", x, Narrowed(x, table, column), tables)
<1> DEFINE f == [r \in x |-> IF r.table = table THEN Without(r, {column}) ELSE r]
<1>1. Narrowed(x, table, column) = Image(f, x)
  BY DEF Narrowed, Image
<1>2. \A r \in x : f[r] = IF r.table = table THEN Without(r, {column}) ELSE r
  OBVIOUS
<1> HIDE DEF f
<1>3. table # "system_settings"
  BY LaterElsewhere
<1>4. ASSUME NEW r \in x
      PROVE  Edited("down", r, f[r], WithoutColumn(c, table, column))
  <2>1. /\ Writable(r) /\ Entire(r.table) \in c
        /\ \A d \in DOMAIN r.has : <<r.table, d>> \in LaterColumns => <<r.table, d>> \in c
    BY DEF Placed
  <2>2. Entire(r.table) \in WithoutColumn(c, table, column)
    BY <2>1 DEF WithoutColumn, Entire
  <2>3. CASE r.table = table
    <3> DEFINE s == Without(r, {column})
    <3>1. f[r] = s
      BY <1>2, <2>3
    <3>2. /\ s.table = r.table /\ s.id = r.id
          /\ DOMAIN s.has = DOMAIN r.has \ {column}
          /\ \A d \in DOMAIN r.has \ {column} : s.has[d] = r.has[d]
          /\ Shaped(s)
      <4> DEFINE e == {column}
      <4>1. s = Without(r, e)
        OBVIOUS
      <4> HIDE DEF s, e
      <4>2. /\ Without(r, e).table = r.table /\ Without(r, e).id = r.id
            /\ Shaped(Without(r, e))
            /\ DOMAIN Without(r, e).has = DOMAIN r.has \ e
            /\ \A d \in DOMAIN r.has \ e : Without(r, e).has[d] = r.has[d]
        BY <2>1, WithoutShape, Zenon
      <4> QED BY <4>1, <4>2 DEF e
    <3> HIDE DEF s
    <3>3. Grown(s, r)
      BY <1>3, <2>3, <3>2 DEF Grown
    <3>4. \A e \in DOMAIN s.has : <<r.table, e>> \in LaterColumns
              => <<r.table, e>> \in WithoutColumn(c, table, column)
      BY <2>1, <3>2 DEF WithoutColumn
    <3> QED BY <2>2, <3>1, <3>2, <3>3, <3>4 DEF Near, Edited
  <2>4. CASE r.table # table
    <3>1. f[r] = r
      BY <1>2, <2>4
    <3>2. Near("down", r, r)
      BY NearItself
    <3>3. \A e \in DOMAIN r.has : <<r.table, e>> \in LaterColumns
              => <<r.table, e>> \in WithoutColumn(c, table, column)
      BY <2>1, <2>4 DEF WithoutColumn
    <3>4. Shaped(r)
      BY <2>1, Zenon DEF Writable, Shaped
    <3> QED BY <2>2, <3>1, <3>2, <3>3, <3>4, Zenon DEF Edited
  <2> QED BY <2>3, <2>4
<1>5. Placed(Image(f, x), WithoutColumn(c, table, column))
  BY <1>4, PlacedEach, Zenon
<1>6. Carry("down", x, Image(f, x), tables)
  <2>1. \A r \in x : Near("down", r, f[r])
    BY <1>4, Zenon DEF Edited
  <2> QED BY <2>1, CarryEach, Zenon
<1> QED BY <1>1, <1>5, <1>6, Zenon

LEMMA RestCarries ==
    ASSUME NEW x, NEW c, Placed(x, c), NEW gone, NEW tables, tables \cap gone = {}
    PROVE  /\ Placed(Rest(x, gone), ColumnsOutside(c, gone))
           /\ Carry("down", x, Rest(x, gone), tables)
<1>1. Placed(Rest(x, gone), ColumnsOutside(c, gone))
  <2>1. \A r \in Rest(x, gone) : r \in x /\ r.table \notin gone
    BY DEF Rest
  <2>2. \A t, e : <<t, e>> \in ColumnsOutside(c, gone) <=> <<t, e>> \in c /\ t \notin gone
    BY DEF ColumnsOutside
  <2> QED BY <2>1, <2>2 DEF Placed, Entire, OfTable
<1>2. \A t \in tables : OfTable(Rest(x, gone), t) = OfTable(x, t)
  BY DEF OfTable, Rest
<1>3. PICK f : Carries(f, "down", x, x, tables)
  BY CarryItself, Zenon DEF Carry
<1>4. Carries(f, "down", x, Rest(x, gone), tables)
  BY <1>2, <1>3, Zenon DEF Carries
<1> QED BY <1>1, <1>4, Zenon DEF Carry

\* Rows of the same tables.
LEMMA CarryOther ==
    ASSUME NEW way, NEW x, NEW y, NEW tables, \A t \in tables : OfTable(y, t) = OfTable(x, t)
    PROVE  Carry(way, x, y, tables)
<1>1. PICK f : Carries(f, way, x, x, tables)
  BY CarryItself, Zenon DEF Carry
<1>2. Carries(f, way, x, y, tables)
  BY <1>1, Zenon DEF Carries
<1> QED BY <1>2, Zenon DEF Carry

LEMMA CarryRegistered ==
    ASSUME NEW way, NEW x, NEW y, NEW tables, "system_settings" \in tables,
           Carry(way, x, y, tables)
    PROVE  OfTable(y, "system_settings") = OfTable(x, "system_settings")
<1> DEFINE t == "system_settings"
<1>1. PICK f : Carries(f, way, x, y, tables)
  BY Zenon DEF Carry
<1>2. /\ OfTable(y, t) = {f[r] : r \in OfTable(x, t)}
      /\ \A r \in OfTable(x, t) : Near(way, r, f[r])
  BY <1>1 DEF Carries
<1>3. \A r \in OfTable(x, t) : r.table = t
  BY DEF OfTable
<1>4. \A r \in OfTable(x, t) : f[r] = r
  BY <1>2, <1>3, NearBoth
<1> QED BY <1>2, <1>4

-----------------------------------------------------------------------------
\* The keys of the providers, on their way into the registry and back.

LEMMA SettingShape ==
    ASSUME NEW key, NEW v
    PROVE  /\ Setting(key, v).table = "system_settings" /\ Setting(key, v).id = key
           /\ DOMAIN Setting(key, v).has = {"value"} /\ Setting(key, v).has.value = v
           /\ Shaped(Setting(key, v))
<1> DEFINE h == [value |-> v]
<1>1. Setting(key, v) = [table |-> "system_settings", id |-> key, has |-> h]
  BY Zenon DEF Setting
<1>2. DOMAIN h = {"value"} /\ h.value = v
  OBVIOUS
<1>3. h = [c \in DOMAIN h |-> h[c]]
  OBVIOUS
<1> HIDE DEF h
<1> QED BY <1>1, <1>2, <1>3 DEF Shaped

LEMMA SettingPlaced ==
    ASSUME NEW x, NEW c, Placed(x, c), Entire("system_settings") \in c, NEW r,
           Writable(r), r.table = "system_settings"
    PROVE  Placed(x \cup {r}, c)
<1>1. \A d \in DOMAIN r.has : <<r.table, d>> \notin LaterColumns
  BY LaterElsewhere
<1>2. OfTable(x \cup {r}, "catalog_products") = OfTable(x, "catalog_products")
  BY DEF OfTable
<1> QED BY <1>1, <1>2 DEF Placed

LEMMA KeysOld ==
    \A p \in OldProviders : KeyOf(p) \in OldKeys /\ KeyOf(p) # "providers_registry"
<1>1. \A p \in OldProviders : KeyOf(p) \in OldKeys
  BY DEF OldKeys
<1>2. \A p \in OldProviders : KeyOf(p) # "providers_registry"
  BY DEF KeyOf, OldProviders
<1> QED BY <1>1, <1>2

\* The key of a provider that some settings say.
Tells(k, p) == k[1] = p /\ k[2] = "key" /\ k[3] # ""

LEMMA KeysSame ==
    ASSUME NEW x, NEW y, NEW p,
           \A k : Tells(k, p) => (k \in SaidIn(x) <=> k \in SaidIn(y))
    PROVE  Keys(x, p) = Keys(y, p)
<1>1. \A z : Keys(z, p) = {k[3] : k \in {k \in SaidIn(z) : Tells(k, p)}}
  BY Zenon DEF Keys, Tells
<1>2. {k \in SaidIn(x) : Tells(k, p)} = {k \in SaidIn(y) : Tells(k, p)}
  OBVIOUS
<1> QED BY <1>1, <1>2

LEMMA Saying ==
    ASSUME NEW x, NEW k
    PROVE  /\ k \in SaidIn(x) <=> \E r \in OfTable(x, "system_settings") : k \in r.has.value
           /\ \A ids : k \in SaidBy(x, ids)
                  <=> \E r \in OfTable(x, "system_settings") : r.id \in ids /\ k \in r.has.value
<1>1. k \in SaidIn(x) <=> \E r \in OfTable(x, "system_settings") : k \in r.has.value
  BY DEF SaidIn, OfTable
<1>2. \A ids : k \in SaidBy(x, ids)
          <=> \E r \in OfTable(x, "system_settings") : r.id \in ids /\ k \in r.has.value
  BY DEF SaidBy
<1> QED BY <1>1, <1>2

\* The settings that a migration from m to n does not move stay, and the keys of the old
\* providers survive.
SettingsFollow(m, n, x, y) ==
    /\ \A r \in OfTable(x, "system_settings") : r \in y \/ ({m, n} = {5, 6} /\ Moves(r))
    /\ (\A p \in OldProviders : Keys(y, p) = Keys(x, p)) \/ (n = 5 /\ Unreadable(SaidIn(x)))

LEMMA RegistryNew ==
    ASSUME NEW x, NEW k, NEW p \in OldProviders, Tells(k, p)
    PROVE  k \in NewRegistry(x) <=> k \in SaidBy(x, SingleKeys)
<1> DEFINE keys == Filled(SaidBy(x, SingleKeys))
<1>1. k \in keys <=> k \in SaidBy(x, SingleKeys)
  BY DEF Filled, Tells
<1>2. NewRegistry(x) = LocalEntry \cup keys \cup {<<l[1], "url", UrlOf(l[1])>> : l \in keys}
  BY Zenon DEF NewRegistry
<1> HIDE DEF keys
<1>3. k \notin LocalEntry
  <2> DEFINE a == <<"local", "key", "none">>
             b == <<"local", "url", "http://localhost:11434/v1">>
  <2>1. LocalEntry = {a, b} /\ a[1] = "local" /\ b[1] = "local"
    BY DEF LocalEntry
  <2>2. k[1] # "local"
    BY DEF Tells, OldProviders
  <2> HIDE DEF a, b
  <2> QED BY <2>1, <2>2
<1>4. k \notin {<<l[1], "url", UrlOf(l[1])>> : l \in keys}
  <2>1. \A l : <<l[1], "url", UrlOf(l[1])>>[2] = "url"
    OBVIOUS
  <2>2. k[2] # "url"
    BY DEF Tells
  <2> QED BY <2>1, <2>2
<1> QED BY <1>1, <1>2, <1>3, <1>4

LEMMA GatewayKeeps ==
    ASSUME NEW x, NEW c, Placed(x, c), Registered(x, 5), Entire("system_settings") \in c
    PROVE  /\ Placed(GatewayRows(x), c) /\ Registered(GatewayRows(x), 6)
           /\ \A t : t # "system_settings" => OfTable(GatewayRows(x), t) = OfTable(x, t)
           /\ SettingsFollow(5, 6, x, GatewayRows(x))
<1> DEFINE t == "system_settings"
           rest == {r \in x : ~(r.table = "system_settings"
                                  /\ r.id \in OldKeys \cup {"providers_registry"})}
           s == Setting("providers_registry", NewRegistry(x))
           y == rest \cup {s}
<1>1. GatewayRows(x) = y
  BY Zenon DEF GatewayRows
<1>2. /\ s.table = t /\ s.id = "providers_registry" /\ s.has.value = NewRegistry(x)
      /\ Shaped(s)
  BY SettingShape
<1> HIDE DEF s
<1>5. Placed(rest, c)
  BY DEF Placed, OfTable
<1>6. Writable(s)
  BY <1>2 DEF Writable, Shaped
<1>7. Placed(y, c)
  <2> HIDE DEF rest
  <2> QED BY <1>2, <1>5, <1>6, SettingPlaced
<1>8. \A r \in OfTable(y, t) : r = s \/ (r \in OfTable(x, t) /\ r.id \notin OldKeys)
  BY DEF OfTable
<1>9. Registered(y, 6)
  <2>1. "providers_registry" \notin OldKeys
    BY KeysOld DEF OldKeys
  <2> HIDE DEF y
  <2> QED BY <1>2, <1>8, <2>1 DEF Registered
<1>10. \A a : a # t => OfTable(y, a) = OfTable(x, a)
  BY <1>2 DEF OfTable
<1>11. ASSUME NEW p \in OldProviders PROVE Keys(y, p) = Keys(x, p)
  <2>1. ASSUME NEW k, Tells(k, p), k \in SaidIn(x) PROVE k \in SaidIn(y)
    <3>1. PICK r \in OfTable(x, t) : k \in r.has.value
      BY <2>1, Saying
    <3>2. Writable(r) /\ r.table = t /\ r \in x
      BY DEF Placed, OfTable
    <3>3. r.id \in {"providers_registry", KeyOf(p)}
      BY <2>1, <3>1, <3>2 DEF Writable, Tells
    <3>4. r.id # "providers_registry"
      BY <3>1 DEF Registered
    <3>5. k \in SaidBy(x, SingleKeys)
      <4>1. r.id \in SingleKeys
        BY <3>3, <3>4 DEF SingleKeys
      <4> QED BY <3>1, <4>1, Saying
    <3>6. k \in NewRegistry(x)
      BY <2>1, <3>5, RegistryNew
    <3>7. s \in OfTable(y, t)
      BY <1>2 DEF OfTable
    <3> HIDE DEF y
    <3> QED BY <1>2, <3>6, <3>7, Saying
  <2>2. ASSUME NEW k, Tells(k, p), k \in SaidIn(y) PROVE k \in SaidIn(x)
    <3>1. PICK r \in OfTable(y, t) : k \in r.has.value
      <4> HIDE DEF y
      <4> QED BY <2>2, Saying
    <3>2. CASE r = s
      <4>1. k \in SaidBy(x, SingleKeys)
        BY <1>2, <2>2, <3>1, <3>2, RegistryNew
      <4> QED BY <4>1, Saying
    <3>3. CASE r \in OfTable(x, t)
      BY <3>1, <3>3, Saying
    <3> QED BY <1>8, <3>2, <3>3
  <2> HIDE DEF y
  <2> QED BY <2>1, <2>2, KeysSame
<1>12. \A r \in OfTable(x, t) : r \in y \/ Moves(r)
  BY DEF OfTable, Moves
<1> HIDE DEF y
<1>13. SettingsFollow(5, 6, x, y)
  BY <1>11, <1>12 DEF SettingsFollow
<1> QED BY <1>1, <1>7, <1>9, <1>10, <1>13

LEMMA EntryShape ==
    ASSUME NEW g, NEW p \in OldProviders
    PROVE  /\ KeyBack(g, p).table = "system_settings" /\ KeyBack(g, p).id = KeyOf(p)
           /\ \A k \in g : k[1] = p /\ k[2] = "key" => k \in KeyBack(g, p).has.value
           /\ Writable(KeyBack(g, p))
<1> DEFINE keys == {k \in g : k[1] = p /\ k[2] = "key"}
           none == <<p, "key", "">>
           v == IF keys = {} THEN {none} ELSE keys
<1>1. KeyBack(g, p) = Setting(KeyOf(p), v)
  BY Zenon DEF KeyBack
<1>2. \A k \in v : k[1] = p /\ (k \in g \/ k[3] = "")
  <2>1. none[1] = p /\ none[3] = ""
    OBVIOUS
  <2> HIDE DEF none
  <2> QED BY <2>1
<1>3. \A k \in g : k[1] = p /\ k[2] = "key" => k \in v
  OBVIOUS
<1> HIDE DEF v
<1>4. /\ Setting(KeyOf(p), v).table = "system_settings" /\ Setting(KeyOf(p), v).id = KeyOf(p)
      /\ DOMAIN Setting(KeyOf(p), v).has = {"value"} /\ Setting(KeyOf(p), v).has.value = v
      /\ Shaped(Setting(KeyOf(p), v))
  BY SettingShape
<1>5. Writable(Setting(KeyOf(p), v))
  BY <1>2, <1>4 DEF Writable, Shaped
<1> QED BY <1>1, <1>2, <1>3, <1>4, <1>5

LEMMA EntryKeys ==
    ASSUME NEW g, NEW p, NEW k \in KeyBack(g, p).has.value, k[3] # ""
    PROVE  k \in g
<1> DEFINE none == <<p, "key", "">>
           v == IF {l \in g : l[1] = p /\ l[2] = "key"} = {} THEN {none}
                ELSE {l \in g : l[1] = p /\ l[2] = "key"}
<1>1. KeyBack(g, p) = Setting(KeyOf(p), v)
  BY Zenon DEF KeyBack
<1>2. none[3] = ""
  OBVIOUS
<1> HIDE DEF none
<1>3. k \in v => k \in g
  BY <1>2
<1> HIDE DEF v
<1>4. KeyBack(g, p).has.value = v
  <2>1. Setting(KeyOf(p), v).has.value = v
    BY SettingShape
  <2> QED BY <1>1, <2>1
<1>5. k \in KeyBack(g, p).has.value
  OBVIOUS
<1> QED BY <1>3, <1>4, <1>5

LEMMA EntryDomain == ASSUME NEW g, NEW p PROVE DOMAIN KeyBack(g, p).has = {"value"}
<1> DEFINE v == IF {k \in g : k[1] = p /\ k[2] = "key"} = {} THEN {<<p, "key", "">>}
                ELSE {k \in g : k[1] = p /\ k[2] = "key"}
<1>1. KeyBack(g, p) = Setting(KeyOf(p), v)
  BY Zenon DEF KeyBack
<1> HIDE DEF v
<1> QED BY <1>1, SettingShape

LEMMA KeyRowsKeep ==
    ASSUME NEW x, NEW c, Placed(x, c), Registered(x, 6), Entire("system_settings") \in c,
           NEW read \in Readings(Registry(x))
    PROVE  /\ Placed(KeyRows(x, read), c) /\ Registered(KeyRows(x, read), 5)
           /\ \A t : t # "system_settings" => OfTable(KeyRows(x, read), t) = OfTable(x, t)
           /\ SettingsFollow(6, 5, x, KeyRows(x, read))
<1> DEFINE t == "system_settings"
           g == Registry(x)
           there == {r.id : r \in OfTable(x, "system_settings")}
           keys == {KeyBack(g, p) : p \in {p \in read : KeyOf(p) \notin there}}
           rest == {r \in x : ~(r.table = "system_settings" /\ r.id = "providers_registry")}
           y == rest \cup keys
<1>1. KeyRows(x, read) = y
  BY Zenon DEF KeyRows
<1>2. read \subseteq OldProviders /\ (~Unreadable(g) => read = Named(g))
  BY DEF Readings, Named
<1>3. \A p \in OldProviders : KeyOf(p) \notin there
  BY KeysOld DEF Registered
<1> HIDE DEF there, g
<1>4. ASSUME NEW r \in keys
      PROVE  \E p \in read : r = KeyBack(g, p)
  OBVIOUS
<1>5. \A p \in read : KeyBack(g, p) \in keys
  BY <1>2, <1>3
<1> HIDE DEF keys
<1>6. Placed(rest, c)
  BY DEF Placed, OfTable
<1>7. ASSUME NEW r \in keys PROVE Writable(r) /\ r.table = t /\ r.id # "providers_registry"
  <2>1. PICK p \in read : r = KeyBack(g, p)
    BY <1>4
  <2>2. p \in OldProviders
    BY <1>2
  <2>3. KeyBack(g, p).table = t /\ KeyBack(g, p).id = KeyOf(p) /\ Writable(KeyBack(g, p))
    BY <2>2, EntryShape, Zenon
  <2>4. KeyOf(p) # "providers_registry"
    BY <2>2, KeysOld
  <2> QED BY <2>1, <2>3, <2>4
<1>8. Placed(y, c)
  <2>1. \A r \in keys : \A d \in DOMAIN r.has : <<r.table, d>> \notin LaterColumns
    BY <1>7, LaterElsewhere
  <2>2. OfTable(y, "catalog_products") = OfTable(rest, "catalog_products")
    BY <1>7 DEF OfTable
  <2>3. \A r \in y : r \in rest \/ r \in keys
    OBVIOUS
  <2> HIDE DEF rest, y
  <2> QED BY <1>6, <1>7, <2>1, <2>2, <2>3 DEF Placed
<1>9. \A r \in OfTable(y, t) : (r \in OfTable(x, t) /\ r.id # "providers_registry") \/ r \in keys
  BY DEF OfTable
<1>10. Registered(y, 5)
  <2> HIDE DEF y
  <2> QED BY <1>7, <1>9 DEF Registered
<1>11. \A a : a # t => OfTable(y, a) = OfTable(x, a)
  BY <1>7 DEF OfTable
<1>12. ASSUME ~Unreadable(g), NEW p \in OldProviders PROVE Keys(y, p) = Keys(x, p)
  <2>1. ASSUME NEW k, Tells(k, p), k \in SaidIn(x) PROVE k \in SaidIn(y)
    <3>1. PICK r \in OfTable(x, t) : k \in r.has.value
      BY <2>1, Saying
    <3>2. CASE r.id = "providers_registry"
      <4>1. k \in g
        BY <3>1, <3>2, Saying DEF g, Registry
      <4>2. p \in read
        BY <1>2, <1>12, <2>1, <4>1 DEF Named, Tells
      <4>3. /\ KeyBack(g, p).table = t /\ k \in KeyBack(g, p).has.value
            /\ KeyBack(g, p) \in keys
        <5>1. KeyBack(g, p) \in keys
          BY <1>5, <4>2
        <5>2. k[1] = p /\ k[2] = "key"
          BY <2>1 DEF Tells
        <5>3. KeyBack(g, p).table = t /\ k \in KeyBack(g, p).has.value
          BY <1>12, <4>1, <5>2, EntryShape, Zenon
        <5> QED BY <5>1, <5>3
      <4>4. KeyBack(g, p) \in OfTable(y, t)
        BY <4>3 DEF OfTable
      <4> HIDE DEF y
      <4> QED BY <4>3, <4>4, Saying
    <3>3. CASE r.id # "providers_registry"
      <4>1. r \in OfTable(y, t)
        BY <3>1, <3>3 DEF OfTable
      <4> HIDE DEF y
      <4> QED BY <3>1, <4>1, Saying
    <3> QED BY <3>2, <3>3
  <2>2. ASSUME NEW k, Tells(k, p), k \in SaidIn(y) PROVE k \in SaidIn(x)
    <3>1. PICK r \in OfTable(y, t) : k \in r.has.value
      <4> HIDE DEF y
      <4> QED BY <2>2, Saying
    <3>2. CASE r \in keys
      <4>1. PICK q \in read : r = KeyBack(g, q)
        BY <1>4, <3>2
      <4>2. q \in OldProviders
        BY <1>2
      <4>3. k \in g
        <5>1. k \in KeyBack(g, q).has.value /\ k[3] # ""
          BY <2>2, <3>1, <4>1 DEF Tells
        <5> QED BY <4>2, <5>1, EntryKeys
      <4> QED BY <4>3, Saying DEF g, Registry
    <3>3. CASE r \in OfTable(x, t)
      BY <3>1, <3>3, Saying
    <3> QED BY <1>9, <3>2, <3>3
  <2> HIDE DEF y
  <2> QED BY <2>1, <2>2, KeysSame
<1>13. \A r \in OfTable(x, t) : r \in y \/ Moves(r)
  BY DEF OfTable, Moves
<1>14. Unreadable(g) => Unreadable(SaidIn(x))
  <2>1. \A k \in g : k \in SaidIn(x)
    BY Saying DEF g, Registry
  <2> QED BY <2>1 DEF Unreadable
<1> HIDE DEF y
<1>15. SettingsFollow(6, 5, x, y)
  BY <1>12, <1>13, <1>14 DEF SettingsFollow
<1> QED BY <1>1, <1>8, <1>10, <1>11, <1>15

-----------------------------------------------------------------------------
\* Constraints speak of first columns, and never of a setting.

Constrained(t, c) == t # "system_settings" /\ <<t, c>> \notin LaterColumns

LEMMA LaterNames ==
    ASSUME NEW t, NEW c, <<t, c>> \in LaterColumns
    PROVE  c \in {"original_row_json", "review_notes", "must_change_password", "job_name",
                  "job_payload_json", "version"} \/ (c = "is_active" /\ t = "golden_labels")
BY DEF LaterColumns

LEMMA ConstraintsOn ==
    ASSUME NEW n \in 0 .. Latest
    PROVE  /\ \A f \in ReferencesAt(n) :
                 f.from \in TablesAt(n) /\ f.to \in TablesAt(n) /\ f.to # "system_settings"
                 /\ Constrained(f.from, f.column)
           /\ \A u \in UniquesAt(n) :
                 u.table \in TablesAt(n) /\ u.table # "system_settings"
                 /\ \A c \in u.columns : Constrained(u.table, c)
           /\ \A k \in ChecksAt(n) :
                 k.table \in TablesAt(n) /\ Constrained(k.table, k.column)
<1> DEFINE Names == {"product_id", "supplier_id", "request_id", "best_product_id",
                     "final_product_id", "request_item_id", "index_version_id", "onec_ref",
                     "username", "supplier_raw_text", "source_hash", "alias_type",
                     "mapping_type", "status", "final_decision", "label_type", "role"}
<1>1. ASSUME NEW t, NEW c \in Names PROVE <<t, c>> \notin LaterColumns
  BY LaterNames
<1>2. /\ n >= 1 => FirstTables \subseteq TablesAt(n)
      /\ n >= 2 => "users" \in TablesAt(n)
      /\ n >= 7 => "token_usage_log" \in TablesAt(n)
  BY DEF TablesAt, Since
<1>3. "system_settings" \notin FirstTables \cup {"users", "token_usage_log"}
  BY DEF FirstTables
<1>4. ASSUME NEW f \in FirstReferences \cup {OfSuppliers("match_requests", "refuse"),
                                             OfSuppliers("match_requests", "null")}
      PROVE  f.from \in FirstTables /\ f.to \in FirstTables /\ f.column \in Names
  BY DEF FirstReferences, CatalogReferences, OfSuppliers, OfProducts, Reference, FirstTables
<1>5. Usage.from = "token_usage_log" /\ Usage.to \in FirstTables /\ Usage.column \in Names
  BY DEF Usage, Reference, FirstTables
<1>6. ASSUME NEW f \in ReferencesAt(n)
      PROVE  /\ f.from \in TablesAt(n) /\ f.to \in TablesAt(n) /\ f.to # "system_settings"
             /\ Constrained(f.from, f.column)
  <2>1. (n >= 1 /\ f \in FirstReferences \cup {OfSuppliers("match_requests", "refuse"),
                                              OfSuppliers("match_requests", "null")})
            \/ (n >= 7 /\ f = Usage)
    BY DEF ReferencesAt, Since, Usage
  <2> HIDE DEF Names
  <2>2. CASE n >= 7 /\ f = Usage
    <3>1. Usage.column \in Names /\ Usage.from # "system_settings" /\ Usage.to # "system_settings"
      BY <1>3, <1>5
    <3>2. Constrained(f.from, f.column)
      BY <1>1, <2>2, <3>1 DEF Constrained
    <3> QED BY <1>2, <1>5, <2>2, <3>1, <3>2
  <2>3. CASE n >= 1 /\ f \in FirstReferences \cup {OfSuppliers("match_requests", "refuse"),
                                              OfSuppliers("match_requests", "null")}
    <3>1. f.from \in FirstTables /\ f.to \in FirstTables /\ f.column \in Names
      BY <1>4, <2>3, Zenon
    <3>2. Constrained(f.from, f.column)
      BY <1>1, <1>3, <3>1 DEF Constrained
    <3> QED BY <1>2, <1>3, <2>3, <3>1, <3>2
  <2> QED BY <2>1, <2>2, <2>3
<1>7. ASSUME NEW u \in UniquesAt(n)
      PROVE  /\ u.table \in TablesAt(n) /\ u.table # "system_settings"
             /\ \A c \in u.columns : Constrained(u.table, c)
  <2> DEFINE onec == Unique("catalog_products", {"onec_ref"})
             active == Unique("index_versions", {"is_active"})
             name == Unique("users", {"username"})
             text == Unique("supplier_mappings", {"supplier_id", "supplier_raw_text"})
             hash == Unique("catalog_products", {"source_hash"})
  <2>1. (n >= 1 /\ u \in {onec, active}) \/ (n >= 2 /\ u = name) \/ (n >= 8 /\ u = text)
            \/ (n >= 9 /\ u = hash)
    BY DEF UniquesAt, Since
  <2>2. /\ onec.table \in FirstTables /\ active.table = "index_versions"
        /\ name.table = "users" /\ text.table \in FirstTables /\ hash.table \in FirstTables
        /\ "index_versions" \in FirstTables
    BY DEF Unique, FirstTables
  <2>3. /\ onec.columns \subseteq Names /\ active.columns = {"is_active"}
        /\ name.columns \subseteq Names /\ text.columns \subseteq Names
        /\ hash.columns \subseteq Names
    BY DEF Unique
  <2>4. <<"index_versions", "is_active">> \notin LaterColumns
    BY LaterNames
  <2> HIDE DEF onec, active, name, text, hash, Names
  <2>5. u.table \in FirstTables \cup {"users"} /\ u.table \in TablesAt(n)
    BY <1>2, <2>1, <2>2
  <2>6. CASE u = active
    <3>1. Constrained("index_versions", "is_active")
      BY <1>3, <2>2, <2>4 DEF Constrained
    <3> QED BY <1>3, <2>2, <2>3, <2>5, <2>6, <3>1
  <2>7. CASE u # active
    <3>1. u.columns \subseteq Names
      BY <2>1, <2>3, <2>7
    <3> QED BY <1>1, <1>3, <2>5, <3>1 DEF Constrained
  <2> QED BY <2>6, <2>7
<1>8. ASSUME NEW k \in ChecksAt(n)
      PROVE  k.table \in TablesAt(n) /\ Constrained(k.table, k.column)
  <2>1. (n >= 1 /\ k \in FirstChecks \cup {Check("match_requests", "status", AllStatuses),
                                           Check("match_requests", "status", FirstStatuses)})
            \/ (n >= 2 /\ k \in {Check("users", "role", AllRoles), Check("users", "role", FirstRoles)})
    BY DEF ChecksAt, Since
  <2>2. ASSUME NEW f \in FirstChecks \cup {Check("match_requests", "status", AllStatuses),
                                           Check("match_requests", "status", FirstStatuses)}
        PROVE  f.table \in FirstTables /\ f.column \in Names
    BY DEF FirstChecks, Check, FirstTables
  <2>3. ASSUME NEW v PROVE Check("users", "role", v).table = "users"
                           /\ Check("users", "role", v).column \in Names
    BY DEF Check
  <2> HIDE DEF Names
  <2>4. /\ k.table \in TablesAt(n) /\ k.table \in FirstTables \cup {"users"}
        /\ k.column \in Names
    BY <1>2, <2>1, <2>2, <2>3
  <2> QED BY <1>1, <1>3, <2>4 DEF Constrained
<1> QED BY <1>6, <1>7, <1>8

\* What the constraints say of rows they say of the rows that these are carried to.

LEMMA CarriedRow ==
    ASSUME NEW way, NEW x, NEW y, NEW tables, Carry(way, x, y, tables), NEW t \in tables
    PROVE  /\ \A q \in OfTable(y, t) : \E r \in OfTable(x, t) : Near(way, r, q)
           /\ \A r \in OfTable(x, t) : \E q \in OfTable(y, t) : Near(way, r, q)
<1>1. PICK f : Carries(f, way, x, y, tables)
  BY Zenon DEF Carry
<1>2. /\ OfTable(y, t) = {f[r] : r \in OfTable(x, t)}
      /\ \A r \in OfTable(x, t) : Near(way, r, f[r])
  BY <1>1 DEF Carries
<1> QED BY <1>2

\* Constraints that say of the rows of these tables what others have said of them, or of
\* no row.
ReferTo(S, R, x, tables) ==
    \A a \in S : /\ a.from \in tables /\ a.to \in tables
                 /\ Constrained(a.from, a.column)
                 /\ (\E b \in R : Like(a, b)) \/ OfTable(x, a.from) = {}

SetApart(S, R, x, tables) ==
    \A a \in S : /\ a.table \in tables
                 /\ \A c \in a.columns : Constrained(a.table, c)
                 /\ a \in R \/ OfTable(x, a.table) = {}

AskOf(S, R, x, tables) ==
    \A a \in S : /\ a.table \in tables
                 /\ Constrained(a.table, a.column)
                 /\ (\E b \in R : AsStrict(a, b)) \/ OfTable(x, a.table) = {}

LEMMA CarriedReferences ==
    ASSUME NEW way, NEW x, NEW y, NEW tables, Carry(way, x, y, tables),
           NEW R, NEW S, RefsHold(R, x),
           ReferTo(S, R, x, tables)
    PROVE  RefsHold(S, y)
<1> SUFFICES ASSUME NEW a \in S, NEW q \in OfTable(y, a.from), Value(q, a.column) # Null
             PROVE  \E s \in OfTable(y, a.to) : s.id = Value(q, a.column)
  BY DEF RefsHold
<1>1. /\ a.from \in tables /\ a.to \in tables /\ <<a.from, a.column>> \notin LaterColumns
      /\ (\E b \in R : Like(a, b)) \/ OfTable(x, a.from) = {}
  BY DEF Constrained, ReferTo
<1>2. PICK r \in OfTable(x, a.from) : Near(way, r, q)
  BY <1>1, CarriedRow
<1>3. Value(r, a.column) = Value(q, a.column)
  <2>1. r.table = a.from
    BY DEF OfTable
  <2> QED BY <1>1, <1>2, <2>1, NearBoth
<1>4. PICK b \in R : Like(a, b)
  BY <1>1, <1>2
<1>5. b.from = a.from /\ b.to = a.to /\ b.column = a.column
  BY <1>4 DEF Like
<1>6. PICK s \in OfTable(x, a.to) : s.id = Value(q, a.column)
  BY <1>3, <1>5 DEF RefsHold
<1>7. PICK p \in OfTable(y, a.to) : Near(way, s, p)
  BY <1>1, CarriedRow
<1>8. p.id = s.id
  BY <1>7, NearBoth
<1> QED BY <1>6, <1>8

LEMMA CarriedUniques ==
    ASSUME NEW way, NEW x, NEW y, NEW tables, Carry(way, x, y, tables),
           NEW R, NEW S, UniquesHold(R, x),
           SetApart(S, R, x, tables)
    PROVE  UniquesHold(S, y)
<1> SUFFICES ASSUME NEW a \in S, NEW q \in OfTable(y, a.table), NEW s \in OfTable(y, a.table),
                    SameIn(q, s, a.columns)
             PROVE  q = s
  BY DEF UniquesHold
<1>1. /\ a.table \in tables
      /\ \A c \in a.columns : <<a.table, c>> \notin LaterColumns
      /\ a \in R \/ OfTable(x, a.table) = {}
  BY DEF Constrained, SetApart
<1>2. PICK f : Carries(f, way, x, y, tables)
  BY Zenon DEF Carry
<1>3. /\ OfTable(y, a.table) = {f[r] : r \in OfTable(x, a.table)}
      /\ \A r \in OfTable(x, a.table) : Near(way, r, f[r])
  BY <1>1, <1>2 DEF Carries
<1>4. PICK r \in OfTable(x, a.table), p \in OfTable(x, a.table) : q = f[r] /\ s = f[p]
  BY <1>3
<1>5. Near(way, r, q) /\ Near(way, p, s) /\ r.table = a.table /\ p.table = a.table
  BY <1>3, <1>4 DEF OfTable
<1>6. \A c \in a.columns : Value(q, c) = Value(r, c) /\ Value(s, c) = Value(p, c)
  <2> SUFFICES ASSUME NEW c \in a.columns
               PROVE  Value(q, c) = Value(r, c) /\ Value(s, c) = Value(p, c)
    OBVIOUS
  <2>1. <<r.table, c>> \notin LaterColumns /\ <<p.table, c>> \notin LaterColumns
    BY <1>1, <1>5
  <2>2. Value(q, c) = Value(r, c)
    <3>1. Grown(r, q) \/ Grown(q, r)
      BY <1>5 DEF Near
    <3> QED BY <2>1, <3>1, GrownValue
  <2>3. Value(s, c) = Value(p, c)
    <3>1. Grown(p, s) \/ Grown(s, p)
      BY <1>5 DEF Near
    <3> QED BY <2>1, <3>1, GrownValue
  <2> QED BY <2>2, <2>3
<1>7. SameIn(r, p, a.columns)
  BY <1>6 DEF SameIn
<1>8. r = p
  BY <1>1, <1>4, <1>7 DEF UniquesHold
<1> QED BY <1>4, <1>8

LEMMA CarriedChecks ==
    ASSUME NEW way, NEW x, NEW y, NEW tables, Carry(way, x, y, tables),
           NEW R, NEW S, ChecksHold(R, x),
           AskOf(S, R, x, tables)
    PROVE  ChecksHold(S, y)
<1> SUFFICES ASSUME NEW a \in S, NEW q \in OfTable(y, a.table)
             PROVE  Value(q, a.column) \in a.values \cup {Null}
  BY DEF ChecksHold
<1>1. /\ a.table \in tables /\ <<a.table, a.column>> \notin LaterColumns
      /\ (\E b \in R : AsStrict(a, b)) \/ OfTable(x, a.table) = {}
  BY DEF Constrained, AskOf
<1>2. PICK r \in OfTable(x, a.table) : Near(way, r, q)
  BY <1>1, CarriedRow
<1>3. Value(r, a.column) = Value(q, a.column)
  <2>1. r.table = a.table
    BY DEF OfTable
  <2> QED BY <1>1, <1>2, <2>1, NearBoth
<1>4. PICK b \in R : AsStrict(a, b)
  BY <1>1, <1>2
<1>5. b.table = a.table /\ b.column = a.column /\ b.values \subseteq a.values
  BY <1>4 DEF AsStrict
<1> QED BY <1>3, <1>5 DEF ChecksHold

-----------------------------------------------------------------------------
\* The later columns are new when they come.

LEMMA LaterFresh ==
    /\ <<"match_request_items", "original_row_json">> \in LaterColumns \ ColumnsAt(3)
    /\ <<"users", "must_change_password">> \in LaterColumns \ ColumnsAt(4)
    /\ <<"match_request_items", "review_notes">> \in LaterColumns \ ColumnsAt(9)
    /\ <<"golden_labels", "version">> \in LaterColumns \ ColumnsAt(9)
    /\ <<"golden_labels", "is_active">> \in LaterColumns \ ColumnsAt(9)
    /\ <<"match_requests", "job_name">> \in LaterColumns \ ColumnsAt(10)
    /\ <<"match_requests", "job_payload_json">> \in LaterColumns \ ColumnsAt(10)
<1> DEFINE original == <<"match_request_items", "original_row_json">>
           must == <<"users", "must_change_password">>
           notes == <<"match_request_items", "review_notes">>
           version == <<"golden_labels", "version">>
           active == <<"golden_labels", "is_active">>
           name == <<"match_requests", "job_name">>
           payload == <<"match_requests", "job_payload_json">>
           later == {original, notes, must, name, payload, version, active}
<1>1. LaterColumns = later
  BY DEF LaterColumns
<1>2. /\ \A t : Entire(t) \notin later
      /\ must # original /\ notes \notin {original, must} /\ version \notin {original, must, notes}
      /\ active \notin {original, must, notes, version}
      /\ name \notin {original, must, notes, version, active}
      /\ payload \notin {original, must, notes, version, active, name}
  <2>1. /\ original[2] = "original_row_json" /\ must[2] = "must_change_password"
        /\ notes[2] = "review_notes" /\ version[2] = "version" /\ active[2] = "is_active"
        /\ name[2] = "job_name" /\ payload[2] = "job_payload_json"
    OBVIOUS
  <2>2. \A t : Entire(t)[2] = ""
    BY DEF Entire
  <2> HIDE DEF original, must, notes, version, active, name, payload
  <2> QED BY <2>1, <2>2
<1>3. /\ ColumnsAt(3) \subseteq {Entire(t) : t \in FirstTables \cup {"users", "system_settings"}}
      /\ ColumnsAt(4) = ColumnsAt(3) \cup {original}
      /\ ColumnsAt(9) = ColumnsAt(4) \cup {must} \cup {Entire("token_usage_log")}
      /\ ColumnsAt(10) = ColumnsAt(9) \cup {notes, Entire("audit_log"), version, active}
  <2>1. ColumnsAt(3) \subseteq {Entire(t) : t \in FirstTables \cup {"users", "system_settings"}}
    BY DEF ColumnsAt, Since
  <2>2. ColumnsAt(4) = ColumnsAt(3) \cup {original} /\ ColumnsAt(5) = ColumnsAt(4) \cup {must}
        /\ ColumnsAt(9) = ColumnsAt(5) \cup {Entire("token_usage_log")}
    BY ColumnsGrow
  <2>3. ColumnsAt(10) = ColumnsAt(9) \cup {notes, Entire("audit_log"), version, active}
    BY ColumnsGrow
  <2> QED BY <2>1, <2>2, <2>3
<1> HIDE DEF original, must, notes, version, active, name, payload
<1>4. /\ original \in LaterColumns \ ColumnsAt(3) /\ must \in LaterColumns \ ColumnsAt(4)
      /\ notes \in LaterColumns \ ColumnsAt(9) /\ version \in LaterColumns \ ColumnsAt(9)
      /\ active \in LaterColumns \ ColumnsAt(9)
      /\ name \in LaterColumns \ ColumnsAt(10) /\ payload \in LaterColumns \ ColumnsAt(10)
  BY <1>1, <1>2, <1>3
<1> QED BY <1>4 DEF original, must, notes, version, active, name, payload

-----------------------------------------------------------------------------
\* A column that must not be null holds none after a migration.

\* A null column of the rows was null before, in a column that was as free then.
LEMMA NullsCarried ==
    ASSUME NEW D, NEW E, NEW x, NEW y, NullsHold(D, x),
           \A q \in y : \A c \in DOMAIN q.has : q.has[c] = Null =>
               \/ Attribute(q.table, c, No) \notin E
               \/ /\ Attribute(q.table, c, No) \in E => Attribute(q.table, c, No) \in D
                  /\ \E r \in x : r.table = q.table /\ c \in DOMAIN r.has /\ r.has[c] = Null
    PROVE  NullsHold(E, y)
BY DEF NullsHold

LEMMA NullsFewer ==
    ASSUME NEW D, NEW E, NEW x, NEW y, NullsHold(D, x), E \subseteq D, y \subseteq x
    PROVE  NullsHold(E, y)
BY DEF NullsHold

LEMMA ColumnsApart ==
    ASSUME NEW t, NEW c, NEW m, NEW u, NEW d, NEW n, Attribute(t, c, m) = Attribute(u, d, n)
    PROVE  t = u /\ c = d /\ m = n
<1>1. \A a, b, e : Attribute(a, b, e).table = a /\ Attribute(a, b, e).column = b /\ Attribute(a, b, e).null = e
  BY DEF Attribute
<1> QED BY <1>1

LEMMA WidenedNulls ==
    ASSUME NEW x, NEW c, Placed(x, c), NEW D, NullsHold(D, x), NEW table, NEW column, NEW null,
           NEW v, v # Null \/ (null = Yes /\ Attribute(table, column, No) \notin D)
    PROVE  NullsHold(Defining(D, table, column, null), Widened(x, table, column, v))
<1> DEFINE E == Defining(D, table, column, null)
           y == Widened(x, table, column, v)
<1>1. \A t, d : Attribute(t, d, No) \in E =>
          Attribute(t, d, No) \in D \/ (t = table /\ d = column /\ null = No)
  BY ColumnsApart DEF Defining
<1>2. No # Yes
  BY Zenon DEF No, Yes
<1>3. \A q \in y : \E r \in x : q = IF r.table = table THEN With(r, column, v) ELSE r
  BY DEF Widened
<1> HIDE DEF E, y
<1>4. ASSUME NEW q \in y, NEW d \in DOMAIN q.has, q.has[d] = Null
      PROVE  \/ Attribute(q.table, d, No) \notin E
             \/ /\ Attribute(q.table, d, No) \in E => Attribute(q.table, d, No) \in D
                /\ \E r \in x : r.table = q.table /\ d \in DOMAIN r.has /\ r.has[d] = Null
  <2>1. PICK r \in x : q = IF r.table = table THEN With(r, column, v) ELSE r
    BY <1>3
  <2>2. CASE r.table # table
    BY <1>1, <1>4, <2>1, <2>2
  <2>3. CASE r.table = table
    <3>1. Writable(r)
      BY DEF Placed
    <3>2. q = With(r, column, v)
      BY <2>1, <2>3
    <3>3. /\ q.table = r.table /\ DOMAIN q.has = DOMAIN r.has \cup {column}
          /\ \A e \in DOMAIN r.has : e # column => q.has[e] = r.has[e]
          /\ q.has[column] = v
      BY <3>1, <3>2, WithShape
    <3>4. CASE d = column
      BY <1>1, <1>2, <1>4, <2>3, <3>3, <3>4
    <3>5. CASE d # column
      BY <1>1, <1>4, <2>3, <3>3, <3>5
    <3> QED BY <3>4, <3>5
  <2> QED BY <2>2, <2>3
<1>5. NullsHold(E, y)
  BY <1>4, NullsCarried
<1> QED BY <1>5 DEF E, y

LEMMA NarrowedNulls ==
    ASSUME NEW x, NEW c, Placed(x, c), NEW D, NullsHold(D, x), NEW table, NEW column
    PROVE  NullsHold(D, Narrowed(x, table, column))
<1> DEFINE y == Narrowed(x, table, column)
           cut == {column}
<1>1. \A q \in y : \E r \in x : q = IF r.table = table THEN Without(r, cut) ELSE r
  BY DEF Narrowed
<1> HIDE DEF y, cut
<1>2. ASSUME NEW q \in y, NEW d \in DOMAIN q.has, q.has[d] = Null
      PROVE  Attribute(q.table, d, No) \notin D
  <2>1. PICK r \in x : q = IF r.table = table THEN Without(r, cut) ELSE r
    BY <1>1
  <2>2. Writable(r)
    BY DEF Placed
  <2>3. q.table = r.table /\ d \in DOMAIN r.has /\ q.has[d] = r.has[d]
    <3>1. CASE r.table = table
      <4>1. q = Without(r, cut)
        BY <2>1, <3>1
      <4>2. /\ q.table = r.table /\ DOMAIN q.has = DOMAIN r.has \ cut
            /\ \A e \in DOMAIN r.has \ cut : q.has[e] = r.has[e]
        BY <2>2, <4>1, WithoutShape
      <4> QED BY <4>2
    <3>2. CASE r.table # table
      BY <2>1, <3>2
    <3> QED BY <3>1, <3>2
  <2> QED BY <1>2, <2>3 DEF NullsHold
<1>3. NullsHold(D, y)
  BY <1>2 DEF NullsHold
<1> QED BY <1>3 DEF y

\* The columns of a table that is new are those of no row.
LEMMA NullsBeside ==
    ASSUME NEW n \in 0 .. Latest, NEW x, Placed(x, ColumnsAt(n)), NEW D, NullsHold(D, x), NEW E,
           \A d \in E : d.table \notin TablesAt(n)
    PROVE  NullsHold(D \cup E, x)
<1>1. \A r \in x : r.table \in TablesAt(n)
  BY TablesThere DEF Placed
<1>2. \A t, c : Attribute(t, c, No).table = t
  BY DEF Attribute
<1> QED BY <1>1, <1>2 DEF NullsHold

\* A setting may be empty, and so may the product that is taken for an item.
LEMMA Nullable ==
    ASSUME NEW n \in 0 .. Latest
    PROVE  /\ \A c : Attribute("system_settings", c, No) \in DefinedAt(n) => c = "key"
           /\ Attribute("match_request_items", "best_product_id", No) \notin DefinedAt(n)
<1> DEFINE setting(c) == Attribute("system_settings", c, No)
           best == Attribute("match_request_items", "best_product_id", No)
<1>1. /\ \A c : setting(c).table = "system_settings"
      /\ best.table = "match_request_items" /\ best.column = "best_product_id"
  BY DEF Attribute
<1>2. \A c : setting(c) \in SettingColumns => c = "key"
  <2> DEFINE r == [system_settings |-> {"key"}]
             o == [system_settings |-> {"value", "updated_at"}]
  <2>1. SettingColumns = ColumnsOf(r, o)
    BY Zenon DEF SettingColumns
  <2>2. r["system_settings"] = {"key"}
    OBVIOUS
  <2> HIDE DEF r, o
  <2> QED BY <2>1, <2>2, ColumnsNamed
<1>3. best \notin FirstColumns
  <2>1. "best_product_id" \notin FirstRequired["match_request_items"]
    BY DEF FirstRequired
  <2> QED BY <2>1, ColumnsNamed DEF FirstColumns
<1>4. \A d \in {Attribute("match_request_items", "original_row_json", Yes),
                Attribute("users", "must_change_password", No),
                Attribute("match_request_items", "review_notes", Yes),
                Attribute("golden_labels", "version", Yes), Attribute("golden_labels", "is_active", No),
                Attribute("match_requests", "job_name", No),
                Attribute("match_requests", "job_payload_json", No)} :
          d.table # "system_settings" /\ d.column # "best_product_id"
  BY DEF Attribute
<1>5. \A d \in DefinedAt(n) :
          \/ d \in FirstColumns \cup UserColumns \cup SettingColumns \cup UsageColumns \cup AuditColumns
          \/ d.table # "system_settings" /\ d.column # "best_product_id"
  <2>1. \A k, S : Since(k, n, S) \subseteq S
    BY DEF Since
  <2> QED BY <1>4, <2>1 DEF DefinedAt
<1> HIDE DEF setting, best
<1>6. "system_settings" \notin FirstTables
  BY DEF FirstTables
<1>7. \A c : setting(c) \in DefinedAt(n) => c = "key"
  BY <1>1, <1>2, <1>5, <1>6, FirstNamed, OthersNamed
<1>8. best \notin DefinedAt(n)
  BY <1>1, <1>3, <1>5, OthersNamed
<1> QED BY <1>7, <1>8 DEF setting, best

LEMMA UpNulls ==
    ASSUME NEW n \in 1 .. Latest, n # 9, NEW x, Sound(x, n - 1),
           NullsHold(DefinedAt(n - 1), x), NEW y \in UpRows(n, x)
    PROVE  NullsHold(DefinedAt(n), y)
<1>1. Placed(x, ColumnsAt(n - 1)) /\ n - 1 \in 0 .. Latest
  BY DEF Sound, Latest
<1>2. \A m \in 0 .. Latest : \A t, c :
          <<t, c>> \in LaterColumns \ ColumnsAt(m) => Attribute(t, c, No) \notin DefinedAt(m)
  <2> SUFFICES ASSUME NEW m \in 0 .. Latest, NEW t, NEW c, <<t, c>> \in LaterColumns \ ColumnsAt(m)
               PROVE  Attribute(t, c, No) \notin DefinedAt(m)
    OBVIOUS
  <2>1. ~HasColumn(SchemaAt(m), t, c)
    BY ColumnDefined
  <2>2. Attribute(t, c, No).table = t /\ Attribute(t, c, No).column = c
    BY DEF Attribute
  <2> QED BY <2>1, <2>2 DEF HasColumn, SchemaAt, Scheme
<1>3. CASE n \in {1, 2, 3, 7, 8}
  <2>1. y = x
    BY <1>3 DEF UpRows
  <2>2. PICK e : DefinedAt(n) = DefinedAt(n - 1) \cup e /\ \A d \in e : d.table \notin TablesAt(n - 1)
    <3>1. CASE n = 1
      BY <3>1, DefinedGrow DEF TablesAt, Since
    <3>2. CASE n = 2
      BY <3>2, DefinedGrow, OthersNamed DEF TablesAt, Since, FirstTables
    <3>3. CASE n = 3
      BY <3>3, DefinedGrow, OthersNamed DEF TablesAt, Since, FirstTables
    <3>4. CASE n = 7
      BY <3>4, DefinedGrow, OthersNamed DEF TablesAt, Since, FirstTables
    <3>5. CASE n = 8
      <4> DEFINE none == {}
      <4>1. DefinedAt(n) = DefinedAt(n - 1) \cup none
        BY <3>5, DefinedGrow
      <4>2. \A d \in none : d.table \notin TablesAt(n - 1)
        OBVIOUS
      <4> HIDE DEF none
      <4> QED BY <4>1, <4>2, Zenon
    <3> QED BY <1>3, <3>1, <3>2, <3>3, <3>4, <3>5
  <2> QED BY <1>1, <2>1, <2>2, NullsBeside
<1>4. CASE n = 4
  <2> DEFINE t == "match_request_items"
             c == "original_row_json"
  <2>1. y = Widened(x, t, c, Null) /\ DefinedAt(4) = Defining(DefinedAt(3), t, c, Yes)
    BY <1>4, DefinedGrow DEF UpRows
  <2>2. Attribute(t, c, No) \notin DefinedAt(3)
    <3>1. <<t, c>> \in LaterColumns \ ColumnsAt(3)
      BY LaterFresh
    <3> HIDE DEF t, c
    <3> QED BY <1>1, <1>2, <1>4, <3>1
  <2> HIDE DEF t, c
  <2> QED BY <1>1, <1>4, <2>1, <2>2, WidenedNulls
<1>5. CASE n = 5
  <2> DEFINE t == "users"
             c == "must_change_password"
             v == No
  <2>1. y = Widened(x, t, c, v) /\ DefinedAt(5) = Defining(DefinedAt(4), t, c, v) /\ v # Null
    BY <1>5, DefinedGrow, NullsApart DEF UpRows
  <2> HIDE DEF t, c, v
  <2> QED BY <1>1, <1>5, <2>1, WidenedNulls
<1>6. CASE n = 6
  <2>1. y = GatewayRows(x) /\ DefinedAt(6) = DefinedAt(5)
    BY <1>6, DefinedGrow DEF UpRows
  <2> DEFINE s == Setting("providers_registry", NewRegistry(x))
  <2>2. s.table = "system_settings" /\ DOMAIN s.has = {"value"}
    BY SettingShape
  <2>3. \A q \in y : q \in x \/ q = s
    <3> HIDE DEF s
    <3>1. GatewayRows(x) = {r \in x : ~(r.table = "system_settings"
                                    /\ r.id \in OldKeys \cup {"providers_registry"})} \cup {s}
      BY Zenon DEF GatewayRows, s
    <3> QED BY <2>1, <3>1
  <2> HIDE DEF s
  <2>4. Attribute("system_settings", "value", No) \notin DefinedAt(6)
    BY Nullable DEF Latest
  <2> QED BY <1>6, <2>1, <2>2, <2>3, <2>4 DEF NullsHold
<1>7. CASE n = 10
  <2> DEFINE i == "match_request_items"
             g == "golden_labels"
             notes == "review_notes"
             version == "version"
             active == "is_active"
             v == Yes
             a == Defining(DefinedAt(9), i, notes, v)
             b == a \cup AuditColumns
             d == Defining(b, g, version, v)
             p == Widened(x, i, notes, Null)
             q == Widened(p, g, version, Null)
             cp == WithColumn(ColumnsAt(9), i, notes)
  <2>1. y = Widened(q, g, active, v) /\ v # Null
    BY <1>7, NullsApart DEF UpRows
  <2>2. DefinedAt(10) = Defining(d, g, active, No)
    BY DefinedGrow
  <2>3. Attribute(i, notes, No) \notin DefinedAt(9) /\ Attribute(g, version, No) \notin DefinedAt(9)
    <3>1. <<i, notes>> \in LaterColumns \ ColumnsAt(9) /\ <<g, version>> \in LaterColumns \ ColumnsAt(9)
      BY LaterFresh
    <3> HIDE DEF i, g, notes, version
    <3> QED BY <1>1, <1>2, <1>7, <3>1
  <2>4. Attribute(g, version, No) \notin b
    <3>1. Attribute(g, version, No) # Attribute(i, notes, v)
      <4>1. i # g
        OBVIOUS
      <4> HIDE DEF i, g, notes, version, v
      <4> QED BY <4>1, ColumnsApart
    <3>2. Attribute(g, version, No) \notin AuditColumns
      <4>1. Attribute(g, version, No).table = g
        BY DEF Attribute
      <4> QED BY <4>1, OthersNamed
    <3> HIDE DEF i, g, notes, version, v
    <3> QED BY <2>3, <3>1, <3>2 DEF Defining
  <2>5. \A e \in AuditColumns : e.table \notin TablesAt(9)
    BY OthersNamed DEF TablesAt, Since, FirstTables
  <2>6. /\ <<i, notes>> \in LaterColumns \ ColumnsAt(9)
        /\ <<g, version>> \in LaterColumns \ cp
    <3>1. <<g, version>> # <<i, notes>>
      OBVIOUS
    <3> QED BY LaterFresh, <3>1 DEF WithColumn
  <2>7. v = Yes /\ Placed(x, ColumnsAt(9)) /\ NullsHold(DefinedAt(9), x)
    BY <1>1, <1>7
  <2> HIDE DEF i, g, notes, version, active, v, a, b, d, p, q, cp
  <2>8. NullsHold(a, p) /\ Placed(p, cp)
    <3>1. NullsHold(a, p)
      BY <2>3, <2>7, WidenedNulls DEF a, p
    <3>2. Placed(p, cp)
      BY <2>6, <2>7, WidenedCarries DEF p, cp
    <3> QED BY <3>1, <3>2
  <2>9. NullsHold(b, p)
    <3>1. \A r \in p : r.table \in TablesAt(9)
      <4>1. \A r \in p : \E s \in x : r.table = s.table
        <5> SUFFICES ASSUME NEW s \in x PROVE With(s, notes, Null).table = s.table
          BY DEF p, Widened
        <5>1. Writable(s)
          BY <2>7 DEF Placed
        <5> QED BY <5>1, WithShape
      <4>2. \A s \in x : Entire(s.table) \in ColumnsAt(9)
        BY <2>7 DEF Placed
      <4> QED BY <4>1, <4>2, TablesThere DEF Latest
    <3>2. \A t, c : Attribute(t, c, No).table = t
      BY DEF Attribute
    <3> QED BY <2>5, <2>8, <3>1, <3>2 DEF NullsHold, b
  <2>10. NullsHold(d, q) /\ Placed(q, WithColumn(cp, g, version))
    <3>1. NullsHold(d, q)
      BY <2>4, <2>7, <2>8, <2>9, WidenedNulls DEF d, q
    <3>2. Placed(q, WithColumn(cp, g, version))
      BY <2>6, <2>8, WidenedCarries DEF q
    <3> QED BY <3>1, <3>2
  <2> QED BY <1>7, <2>1, <2>2, <2>10, WidenedNulls
<1>8. CASE n = 11
  <2> DEFINE r == "match_requests"
             name == "job_name"
             payload == "job_payload_json"
             v == "batch_match"
             w == EmptyJson
             a == Defining(DefinedAt(10), r, name, No)
             p == Widened(x, r, name, v)
             cp == WithColumn(ColumnsAt(10), r, name)
  <2>1. y = Widened(p, r, payload, w) /\ v # Null /\ w # Null
    BY <1>8, NullsApart DEF UpRows
  <2>2. DefinedAt(11) = Defining(a, r, payload, No)
    BY DefinedGrow
  <2>3. <<r, name>> \in LaterColumns \ ColumnsAt(10)
    BY LaterFresh
  <2>4. Placed(x, ColumnsAt(10)) /\ NullsHold(DefinedAt(10), x)
    BY <1>1, <1>8
  <2> HIDE DEF r, name, payload, v, w, a, p, cp
  <2>5. NullsHold(a, p)
    BY <2>1, <2>4, WidenedNulls DEF a, p
  <2>6. Placed(p, cp)
    BY <2>3, <2>4, WidenedCarries DEF p, cp
  <2> QED BY <1>8, <2>1, <2>2, <2>5, <2>6, WidenedNulls
<1> QED BY <1>3, <1>4, <1>5, <1>6, <1>7, <1>8 DEF Latest

LEMMA DownNulls ==
    ASSUME NEW n \in 1 .. Latest, NEW x, Sound(x, n), NullsHold(DefinedAt(n), x),
           NEW y \in DownRows(n, x)
    PROVE  NullsHold(DefinedAt(n - 1), y)
<1>1. Placed(x, ColumnsAt(n))
  BY DEF Sound
<1>2. DefinedAt(n - 1) \subseteq DefinedAt(n)
  <2>1. \A k \in Int : \A S : Since(k, n - 1, S) \subseteq Since(k, n, S)
    BY DEF Since
  <2> QED BY <2>1 DEF DefinedAt
<1>3. CASE n \in {1, 2, 3, 7, 8, 9}
  <2>1. y \subseteq x
    BY <1>3 DEF DownRows, Rest
  <2> QED BY <1>2, <2>1, NullsFewer
<1>4. SUFFICES ASSUME n \notin {1, 2, 3, 7, 8, 9} PROVE NullsHold(DefinedAt(n), y)
  <2>1. y \subseteq y
    OBVIOUS
  <2> QED BY <1>2, <1>3, <1>4, <2>1, NullsFewer
<1>5. CASE n = 4
  BY <1>1, <1>5, NarrowedNulls DEF DownRows
<1>6. CASE n = 5
  BY <1>1, <1>6, NarrowedNulls DEF DownRows
<1>7. CASE n = 6
  <2>1. PICK read \in Readings(Registry(x)) : y = KeyRows(x, read)
    BY <1>7 DEF DownRows
  <2>2. \A q \in y : q \in x \/ \E p \in read : q = KeyBack(Registry(x), p)
    BY <2>1 DEF KeyRows
  <2>3. read \subseteq OldProviders
    BY DEF Readings, Named
  <2>4. Attribute("system_settings", "value", No) \notin DefinedAt(6)
    BY Nullable DEF Latest
  <2>5. ASSUME NEW q \in y, NEW c \in DOMAIN q.has, q.has[c] = Null
        PROVE  Attribute(q.table, c, No) \notin DefinedAt(6)
    <3>1. CASE q \in x
      BY <1>7, <2>5, <3>1 DEF NullsHold
    <3>2. CASE \E p \in read : q = KeyBack(Registry(x), p)
      <4>1. PICK p \in read : q = KeyBack(Registry(x), p)
        BY <3>2
      <4>2. q.table = "system_settings"
        BY <2>3, <4>1, EntryShape
      <4>3. c = "value"
        BY <4>1, EntryDomain
      <4> QED BY <2>4, <4>2, <4>3
    <3> QED BY <2>2, <3>1, <3>2
  <2> QED BY <1>7, <2>5 DEF NullsHold
<1>8. CASE n = 10
  <2> DEFINE i == "match_request_items"
             g == "golden_labels"
             notes == "review_notes"
             version == "version"
             active == "is_active"
             gone == {"audit_log"}
             p == Narrowed(x, g, active)
             q == Narrowed(p, g, version)
             r == Rest(q, gone)
  <2>1. y = Narrowed(r, i, notes)
    BY <1>8 DEF DownRows
  <2>2. /\ <<g, active>> \in LaterColumns /\ active # "" /\ <<g, version>> \in LaterColumns /\ version # ""
    BY LaterFresh
  <2> HIDE DEF i, g, notes, version, active, gone, p, q, r
  <2>3. NullsHold(DefinedAt(10), p) /\ Placed(p, WithoutColumn(ColumnsAt(10), g, active))
    BY <1>1, <1>8, <2>2, NarrowedNulls, NarrowedCarries DEF p
  <2>4. NullsHold(DefinedAt(10), q)
        /\ \E c : Placed(q, c)
    BY <2>2, <2>3, NarrowedNulls, NarrowedCarries DEF q
  <2>5. NullsHold(DefinedAt(10), r) /\ \E c : Placed(r, c)
    <3>1. r \subseteq q
      BY DEF r, Rest
    <3>2. \E c : Placed(r, c)
      <4>1. {} \cap gone = {}
        OBVIOUS
      <4> QED BY <2>4, <4>1, RestCarries DEF r
    <3> QED BY <2>4, <3>1, <3>2, NullsFewer
  <2> QED BY <1>8, <2>1, <2>5, NarrowedNulls
<1>9. CASE n = 11
  <2> DEFINE r == "match_requests"
             name == "job_name"
             payload == "job_payload_json"
             p == Narrowed(x, r, payload)
  <2>1. y = Narrowed(p, r, name)
    BY <1>9 DEF DownRows
  <2>2. <<r, payload>> \in LaterColumns /\ payload # ""
    BY LaterFresh
  <2> HIDE DEF r, name, payload, p
  <2>3. NullsHold(DefinedAt(11), p) /\ \E c : Placed(p, c)
    BY <1>1, <1>9, <2>2, NarrowedNulls, NarrowedCarries DEF p
  <2> QED BY <1>9, <2>1, <2>3, NarrowedNulls
<1> QED BY <1>4, <1>5, <1>6, <1>7, <1>8, <1>9 DEF Latest

-----------------------------------------------------------------------------
\* Every migration but 0007 carries the rows of the tables it leaves, and keeps the keys.

\* What an upgrade by one revision is to leave, whatever its constraints.
Upgraded(n, x, y) ==
    /\ Sound(y, n)
    /\ Carry("up", x, y, TablesAt(n) \ {"system_settings"})
    /\ SettingsFollow(n - 1, n, x, y)

Everywhere(n) == TablesAt(n) \cup {"system_settings"}

LEMMA CarryFewer ==
    ASSUME NEW way, NEW x, NEW y, NEW tables, Carry(way, x, y, tables), NEW fewer \in SUBSET tables
    PROVE  Carry(way, x, y, fewer)
<1>1. PICK f : Carries(f, way, x, y, tables)
  BY Zenon DEF Carry
<1>2. Carries(f, way, x, y, fewer)
  BY <1>1 DEF Carries
<1> QED BY <1>2, Zenon DEF Carry

LEMMA SettingsKept ==
    ASSUME NEW x, NEW y, OfTable(y, "system_settings") = OfTable(x, "system_settings")
    PROVE  /\ \A m, n : SettingsFollow(m, n, x, y)
           /\ \A m, n : (m < 6 <=> n < 6) /\ Registered(x, m) => Registered(y, n)
<1>1. \A k : k \in SaidIn(y) <=> k \in SaidIn(x)
  BY Saying
<1>2. \A p : Keys(y, p) = Keys(x, p)
  BY <1>1, KeysSame
<1>3. \A r \in OfTable(x, "system_settings") : r \in y
  BY DEF OfTable
<1> QED BY <1>2, <1>3 DEF Registered, SettingsFollow

LEMMA UpgradedBy ==
    ASSUME NEW n \in 1 .. Latest, n # 6, NEW x, NEW y, Sound(x, n - 1), Placed(y, ColumnsAt(n)),
           Carry("up", x, y, Everywhere(n))
    PROVE  Upgraded(n, x, y)
<1>1. OfTable(y, "system_settings") = OfTable(x, "system_settings")
  BY CarryRegistered DEF Everywhere
<1>2. Registered(y, n)
  <2>1. (n - 1 < 6 <=> n < 6) /\ Registered(x, n - 1)
    BY DEF Sound
  <2> QED BY <1>1, <2>1, SettingsKept
<1>3. SettingsFollow(n - 1, n, x, y)
  BY <1>1, SettingsKept
<1>4. Carry("up", x, y, TablesAt(n) \ {"system_settings"})
  BY CarryFewer DEF Everywhere
<1> QED BY <1>2, <1>3, <1>4 DEF Upgraded, Sound

LEMMA UpCarries ==
    ASSUME NEW n \in 1 .. Latest, n # 9, NEW x, Sound(x, n - 1), NEW y \in UpRows(n, x)
    PROVE  Upgraded(n, x, y)
<1> DEFINE T == Everywhere(n)
<1>1. Placed(x, ColumnsAt(n - 1)) /\ Registered(x, n - 1)
  BY DEF Sound
<1>2. CASE n \in {1, 2, 3, 7, 8}
  <2>1. y = x
    BY <1>2 DEF UpRows
  <2>2. ColumnsAt(n - 1) \subseteq ColumnsAt(n)
    BY <1>2, ColumnsGrow
  <2>3. Placed(y, ColumnsAt(n))
    BY <1>1, <2>1, <2>2, PlacedMore
  <2>4. Carry("up", x, y, T)
    BY <2>1, CarryItself
  <2> QED BY <1>2, <2>3, <2>4, UpgradedBy
<1>3. CASE n = 4
  <2> DEFINE t == "match_request_items"
             c == "original_row_json"
  <2>1. y = Widened(x, t, c, Null)
    BY <1>3 DEF UpRows
  <2>2. Placed(x, ColumnsAt(3)) /\ <<t, c>> \in LaterColumns \ ColumnsAt(3)
    BY <1>1, <1>3, LaterFresh
  <2>3. ColumnsAt(4) = WithColumn(ColumnsAt(3), t, c)
    BY ColumnsGrow DEF WithColumn
  <2> HIDE DEF t, c, T
  <2>4. Placed(y, ColumnsAt(4)) /\ Carry("up", x, y, T)
    BY <2>1, <2>2, <2>3, WidenedCarries
  <2> QED BY <1>3, <2>4, UpgradedBy DEF T
<1>4. CASE n = 5
  <2> DEFINE t == "users"
             c == "must_change_password"
             v == No
  <2>1. y = Widened(x, t, c, v)
    BY <1>4 DEF UpRows
  <2>2. Placed(x, ColumnsAt(4)) /\ <<t, c>> \in LaterColumns \ ColumnsAt(4)
    BY <1>1, <1>4, LaterFresh
  <2>3. ColumnsAt(5) = WithColumn(ColumnsAt(4), t, c)
    BY ColumnsGrow DEF WithColumn
  <2> HIDE DEF t, c, T, v
  <2>4. Placed(y, ColumnsAt(5)) /\ Carry("up", x, y, T)
    BY <2>1, <2>2, <2>3, WidenedCarries
  <2> QED BY <1>4, <2>4, UpgradedBy DEF T
<1>5. CASE n = 6
  <2>1. y = GatewayRows(x)
    BY <1>5 DEF UpRows
  <2>2. ColumnsAt(6) = ColumnsAt(5) /\ Entire("system_settings") \in ColumnsAt(5)
    BY ColumnsGrow
  <2>3. /\ Placed(y, ColumnsAt(6)) /\ Registered(y, 6)
        /\ \A t : t # "system_settings" => OfTable(y, t) = OfTable(x, t)
        /\ SettingsFollow(5, 6, x, y)
    <3>1. Placed(x, ColumnsAt(5)) /\ Registered(x, 5)
      BY <1>1, <1>5
    <3> QED BY <2>1, <2>2, <3>1, GatewayKeeps
  <2>4. Carry("up", x, y, TablesAt(6) \ {"system_settings"})
    BY <2>3, CarryOther
  <2> QED BY <1>5, <2>3, <2>4 DEF Upgraded, Sound
<1>6. CASE n = 10
  <2> DEFINE i == "match_request_items"
             g == "golden_labels"
             notes == "review_notes"
             version == "version"
             active == "is_active"
             v == Yes
             a == WithColumn(ColumnsAt(9), i, notes)
             b == a \cup {Entire("audit_log")}
             d == WithColumn(b, g, version)
             p == Widened(x, i, notes, Null)
             q == Widened(p, g, version, Null)
  <2>1. y = Widened(q, g, active, v)
    BY <1>6 DEF UpRows
  <2>2. Placed(x, ColumnsAt(9)) /\ <<i, notes>> \in LaterColumns \ ColumnsAt(9)
    BY <1>1, <1>6, LaterFresh
  <2>3. /\ a = ColumnsAt(9) \cup {<<i, notes>>} /\ d = b \cup {<<g, version>>}
        /\ ColumnsAt(10) = WithColumn(d, g, active)
    BY ColumnsGrow DEF WithColumn
  <2>4. <<g, version>> \in LaterColumns \ b /\ <<g, active>> \in LaterColumns \ d
    <3>1. <<g, version>> \in LaterColumns \ ColumnsAt(9) /\ <<g, active>> \in LaterColumns \ ColumnsAt(9)
      BY LaterFresh
    <3>2. /\ <<g, version>> \notin {<<i, notes>>, Entire("audit_log")}
          /\ <<g, active>> \notin {<<i, notes>>, Entire("audit_log"), <<g, version>>}
      BY DEF Entire
    <3> HIDE DEF i, g, notes, version, active, a, d
    <3> QED BY <2>3, <3>1, <3>2
  <2> HIDE DEF i, g, notes, version, active, v, a, d, p, q, T
  <2>5. Placed(p, a) /\ Carry("up", x, p, T)
    BY <2>2, WidenedCarries DEF p, a
  <2>6. Placed(p, b)
    <3>1. a \subseteq b
      OBVIOUS
    <3> HIDE DEF b
    <3> QED BY <2>5, <3>1, PlacedMore
  <2> HIDE DEF b
  <2>7. Placed(q, d) /\ Carry("up", p, q, T)
    BY <2>4, <2>6, WidenedCarries DEF q, d
  <2>8. Placed(y, ColumnsAt(10)) /\ Carry("up", q, y, T)
    BY <2>1, <2>3, <2>4, <2>7, WidenedCarries
  <2>9. Carry("up", x, y, T)
    BY <2>5, <2>7, <2>8, CarryTrans
  <2> QED BY <1>6, <2>8, <2>9, UpgradedBy DEF T
<1>7. CASE n = 11
  <2> DEFINE r == "match_requests"
             name == "job_name"
             payload == "job_payload_json"
             a == WithColumn(ColumnsAt(10), r, name)
             v == "batch_match"
             w == EmptyJson
             p == Widened(x, r, name, v)
  <2>1. y = Widened(p, r, payload, w)
    BY <1>7 DEF UpRows
  <2>2. Placed(x, ColumnsAt(10)) /\ <<r, name>> \in LaterColumns \ ColumnsAt(10)
    BY <1>1, <1>7, LaterFresh
  <2>3. a = ColumnsAt(10) \cup {<<r, name>>} /\ ColumnsAt(11) = WithColumn(a, r, payload)
    BY ColumnsGrow DEF WithColumn
  <2>4. <<r, payload>> \in LaterColumns \ a
    <3>1. <<r, payload>> \in LaterColumns \ ColumnsAt(10)
      BY LaterFresh
    <3>2. <<r, payload>> # <<r, name>>
      OBVIOUS
    <3> HIDE DEF r, name, payload, a
    <3> QED BY <2>3, <3>1, <3>2
  <2> HIDE DEF r, name, payload, v, w, a, p, T
  <2>5. Placed(p, a) /\ Carry("up", x, p, T)
    BY <2>2, WidenedCarries DEF p, a
  <2>6. Placed(y, ColumnsAt(11)) /\ Carry("up", p, y, T)
    BY <2>1, <2>3, <2>4, <2>5, WidenedCarries
  <2>7. Carry("up", x, y, T)
    BY <2>5, <2>6, CarryTrans
  <2> QED BY <1>7, <2>6, <2>7, UpgradedBy DEF T
<1> QED BY <1>2, <1>3, <1>4, <1>5, <1>6, <1>7 DEF Latest

\* What a downgrade to revision n is to leave, whatever its constraints.
Downgraded(n, x, y) ==
    /\ Sound(y, n)
    /\ Carry("down", x, y, TablesAt(n) \ {"system_settings"})
    /\ n >= 3 => SettingsFollow(n + 1, n, x, y)

LEMMA DowngradedBy ==
    ASSUME NEW n \in 1 .. Latest, n # 6, n # 3, NEW x, NEW y, Sound(x, n), Placed(y, ColumnsAt(n - 1)),
           Carry("down", x, y, Everywhere(n - 1))
    PROVE  Downgraded(n - 1, x, y)
<1>1. OfTable(y, "system_settings") = OfTable(x, "system_settings")
  BY CarryRegistered DEF Everywhere
<1>2. Registered(y, n - 1)
  <2>1. (n < 6 <=> n - 1 < 6) /\ Registered(x, n)
    BY DEF Sound
  <2> QED BY <1>1, <2>1, SettingsKept
<1>3. SettingsFollow((n - 1) + 1, n - 1, x, y)
  BY <1>1, SettingsKept
<1>4. Carry("down", x, y, TablesAt(n - 1) \ {"system_settings"})
  BY CarryFewer DEF Everywhere
<1> QED BY <1>2, <1>3, <1>4 DEF Downgraded, Sound

LEMMA DownCarries ==
    ASSUME NEW n \in 1 .. Latest, NEW x, Sound(x, n), NEW y \in DownRows(n, x)
    PROVE  Downgraded(n - 1, x, y)
<1> DEFINE T == Everywhere(n - 1)
<1>1. Placed(x, ColumnsAt(n)) /\ Registered(x, n)
  BY DEF Sound
<1>2. CASE n = 1
  <2>1. y = Rest(x, FirstTables)
    BY <1>2 DEF DownRows
  <2>2. ColumnsOutside(ColumnsAt(1), FirstTables) = ColumnsAt(0) /\ Everywhere(0) \cap FirstTables = {}
    BY ColumnsShrink, ColumnsGrow, TablesGrowBy DEF Everywhere, FirstTables
  <2> HIDE DEF T
  <2>3. Placed(y, ColumnsAt(0)) /\ Carry("down", x, y, Everywhere(0))
    BY <1>1, <1>2, <2>1, <2>2, RestCarries
  <2> QED BY <1>2, <2>3, DowngradedBy
<1>3. CASE n = 2
  <2> DEFINE gone == {"users"}
  <2>1. y = Rest(x, gone)
    BY <1>3 DEF DownRows
  <2>2. ColumnsOutside(ColumnsAt(2), gone) = ColumnsAt(1) /\ Everywhere(1) \cap gone = {}
    BY ColumnsShrink, TablesGrowBy DEF Everywhere, FirstTables
  <2> HIDE DEF T, gone
  <2>3. Placed(y, ColumnsAt(1)) /\ Carry("down", x, y, Everywhere(1))
    BY <1>1, <1>3, <2>1, <2>2, RestCarries
  <2> QED BY <1>3, <2>3, DowngradedBy
<1>4. CASE n = 3
  <2> DEFINE gone == {"system_settings"}
             tables == TablesAt(2) \ gone
  <2>1. y = Rest(x, gone)
    BY <1>4 DEF DownRows
  <2>2. ColumnsOutside(ColumnsAt(3), gone) = ColumnsAt(2) /\ tables \cap gone = {}
    BY ColumnsShrink
  <2> HIDE DEF T, gone, tables
  <2>3. Placed(y, ColumnsAt(2)) /\ Carry("down", x, y, tables)
    BY <1>1, <1>4, <2>1, <2>2, RestCarries
  <2>4. Registered(y, 2)
    BY <2>1 DEF gone, Rest, Registered, OfTable
  <2> QED BY <1>4, <2>3, <2>4 DEF Downgraded, Sound, tables, gone
<1>5. CASE n = 4
  <2> DEFINE t == "match_request_items"
             c == "original_row_json"
  <2>1. y = Narrowed(x, t, c)
    BY <1>5 DEF DownRows
  <2>2. <<t, c>> \in LaterColumns /\ c # ""
    BY LaterFresh
  <2>3. ColumnsAt(3) = WithoutColumn(ColumnsAt(4), t, c)
    BY ColumnsShrink DEF WithoutColumn
  <2> HIDE DEF t, c, T
  <2>4. Placed(y, ColumnsAt(3)) /\ Carry("down", x, y, T)
    BY <1>1, <1>5, <2>1, <2>2, <2>3, NarrowedCarries
  <2> QED BY <1>5, <2>4, DowngradedBy DEF T
<1>6. CASE n = 5
  <2> DEFINE t == "users"
             c == "must_change_password"
  <2>1. y = Narrowed(x, t, c)
    BY <1>6 DEF DownRows
  <2>2. <<t, c>> \in LaterColumns /\ c # ""
    BY LaterFresh
  <2>3. ColumnsAt(4) = WithoutColumn(ColumnsAt(5), t, c)
    BY ColumnsShrink DEF WithoutColumn
  <2> HIDE DEF t, c, T
  <2>4. Placed(y, ColumnsAt(4)) /\ Carry("down", x, y, T)
    BY <1>1, <1>6, <2>1, <2>2, <2>3, NarrowedCarries
  <2> QED BY <1>6, <2>4, DowngradedBy DEF T
<1>7. CASE n = 6
  <2>1. PICK read \in Readings(Registry(x)) : y = KeyRows(x, read)
    BY <1>7 DEF DownRows
  <2>2. ColumnsAt(6) = ColumnsAt(5) /\ Entire("system_settings") \in ColumnsAt(6)
    BY ColumnsGrow
  <2> HIDE DEF T
  <2>3. /\ Placed(y, ColumnsAt(5)) /\ Registered(y, 5)
        /\ \A t : t # "system_settings" => OfTable(y, t) = OfTable(x, t)
        /\ SettingsFollow(6, 5, x, y)
    <3>1. Placed(x, ColumnsAt(6)) /\ Registered(x, 6)
      BY <1>1, <1>7
    <3> QED BY <2>1, <2>2, <3>1, KeyRowsKeep
  <2>4. Carry("down", x, y, TablesAt(5) \ {"system_settings"})
    BY <2>3, CarryOther
  <2> QED BY <1>7, <2>3, <2>4 DEF Downgraded, Sound
<1>8. CASE n = 7
  <2> DEFINE gone == {"token_usage_log"}
  <2>1. y = Rest(x, gone)
    BY <1>8 DEF DownRows
  <2>2. ColumnsOutside(ColumnsAt(7), gone) = ColumnsAt(6) /\ Everywhere(6) \cap gone = {}
    BY ColumnsShrink, TablesGrowBy DEF Everywhere, FirstTables
  <2> HIDE DEF T, gone
  <2>3. Placed(y, ColumnsAt(6)) /\ Carry("down", x, y, Everywhere(6))
    BY <1>1, <1>8, <2>1, <2>2, RestCarries
  <2> QED BY <1>8, <2>3, DowngradedBy
<1>9. CASE n \in {8, 9}
  <2>1. y = x
    BY <1>9 DEF DownRows
  <2>2. ColumnsAt(n - 1) = ColumnsAt(n)
    BY <1>9, ColumnsGrow
  <2>3. Placed(y, ColumnsAt(n - 1)) /\ Carry("down", x, y, T)
    BY <1>1, <2>1, <2>2, CarryItself
  <2> QED BY <1>9, <2>3, DowngradedBy
<1>10. CASE n = 10
  <2> DEFINE i == "match_request_items"
             g == "golden_labels"
             notes == "review_notes"
             version == "version"
             active == "is_active"
             gone == {"audit_log"}
             a == WithoutColumn(ColumnsAt(10), g, active)
             b == WithoutColumn(a, g, version)
             d == ColumnsOutside(b, gone)
             p == Narrowed(x, g, active)
             q == Narrowed(p, g, version)
             r == Rest(q, gone)
  <2>1. y = Narrowed(r, i, notes)
    BY <1>10 DEF DownRows
  <2>2. /\ <<g, active>> \in LaterColumns /\ active # ""
        /\ <<g, version>> \in LaterColumns /\ version # ""
        /\ <<i, notes>> \in LaterColumns /\ notes # ""
    BY LaterFresh
  <2>3. ColumnsAt(9) = WithoutColumn(d, i, notes)
    BY ColumnsShrink DEF WithoutColumn
  <2>4. Everywhere(9) \cap gone = {}
    BY TablesGrowBy DEF Everywhere, FirstTables
  <2>5. T = Everywhere(9) /\ Placed(x, ColumnsAt(10))
    BY <1>1, <1>10
  <2> HIDE DEF i, g, notes, version, active, gone, a, b, d, p, q, r, T
  <2>6. Placed(p, a) /\ Carry("down", x, p, T)
    BY <2>2, <2>5, NarrowedCarries DEF p, a
  <2>7. Placed(q, b) /\ Carry("down", p, q, T)
    BY <2>2, <2>6, NarrowedCarries DEF q, b
  <2>8. Placed(r, d) /\ Carry("down", q, r, T)
    BY <2>4, <2>5, <2>7, RestCarries DEF r, d
  <2>9. Placed(y, ColumnsAt(9)) /\ Carry("down", r, y, T)
    BY <2>1, <2>2, <2>3, <2>8, NarrowedCarries
  <2>10. Carry("down", x, y, T)
    BY <2>6, <2>7, <2>8, <2>9, CarryTrans
  <2> QED BY <1>10, <2>9, <2>10, DowngradedBy DEF T
<1>11. CASE n = 11
  <2> DEFINE r == "match_requests"
             name == "job_name"
             payload == "job_payload_json"
             a == WithoutColumn(ColumnsAt(11), r, payload)
             p == Narrowed(x, r, payload)
  <2>1. y = Narrowed(p, r, name)
    BY <1>11 DEF DownRows
  <2>2. /\ <<r, payload>> \in LaterColumns /\ payload # ""
        /\ <<r, name>> \in LaterColumns /\ name # ""
    BY LaterFresh
  <2>3. ColumnsAt(10) = WithoutColumn(a, r, name)
    BY ColumnsShrink DEF WithoutColumn
  <2>4. Placed(x, ColumnsAt(11))
    BY <1>1, <1>11
  <2> HIDE DEF r, name, payload, a, p, T
  <2>5. Placed(p, a) /\ Carry("down", x, p, T)
    BY <2>2, <2>4, NarrowedCarries DEF p, a
  <2>6. Placed(y, ColumnsAt(10)) /\ Carry("down", p, y, T)
    BY <2>1, <2>2, <2>3, <2>5, NarrowedCarries
  <2>7. Carry("down", x, y, T)
    BY <2>5, <2>6, CarryTrans
  <2> QED BY <1>11, <2>6, <2>7, DowngradedBy DEF T
<1> QED BY <1>2, <1>3, <1>4, <1>5, <1>6, <1>7, <1>8, <1>9, <1>10, <1>11 DEF Latest

-----------------------------------------------------------------------------
\* Which migrations can fail, and for what.

TextTwice(x) ==
    \E r, s \in {r \in x : r.table = "supplier_mappings"} :
        r # s /\ Value(r, "supplier_id") = Value(s, "supplier_id")
              /\ Value(r, "supplier_raw_text") = Value(s, "supplier_raw_text")
              /\ Value(r, "supplier_raw_text") # Null

NewRole(x) == ValuesIn(x, "users", "role") \ FirstRoles # {}

NewStatus(x) == "pending" \in ValuesIn(x, "match_requests", "status")

LEMMA NothingElsewhere ==
    ASSUME NEW n \in 0 .. Latest, NEW x, Placed(x, ColumnsAt(n)), NEW t, t \notin TablesAt(n)
    PROVE  OfTable(x, t) = {}
<1>1. \A r \in x : Entire(r.table) \in ColumnsAt(n)
  BY DEF Placed
<1>2. Entire(t) \notin ColumnsAt(n)
  BY TablesThere
<1> QED BY <1>1, <1>2 DEF OfTable

LEMMA UpHolds ==
    ASSUME NEW n \in 1 .. Latest, n \notin {8, 9}, NEW x, Kept(x, n - 1), NEW y, Upgraded(n, x, y),
           NullsHold(DefinedAt(n), y)
    PROVE  Holds(Db(SchemaAt(n), y))
<1> DEFINE T == TablesAt(n) \ {"system_settings"}
<1>1. n - 1 \in 0 .. Latest /\ n \in 0 .. Latest
  BY DEF Latest
<1>2. /\ Placed(x, ColumnsAt(n - 1)) /\ Carry("up", x, y, T)
      /\ RefsHold(ReferencesAt(n - 1), x) /\ UniquesHold(UniquesAt(n - 1), x)
      /\ ChecksHold(ChecksAt(n - 1), x)
  BY HoldsParts DEF Kept, Sound, Upgraded
<1>3. \A t : t \notin TablesAt(n - 1) => OfTable(x, t) = {}
  BY <1>1, <1>2, NothingElsewhere
<1>4. RefsHold(ReferencesAt(n), y)
  <2>1. ReferTo(ReferencesAt(n), ReferencesAt(n - 1), x, T)
    BY <1>1, <1>3, ConstraintsOn, ReferencesNear DEF Constrained, ReferTo
  <2> HIDE DEF T
  <2> QED BY <1>2, <2>1, CarriedReferences
<1>5. UniquesHold(UniquesAt(n), y)
  <2>1. SetApart(UniquesAt(n), UniquesAt(n - 1), x, T)
    BY <1>1, <1>3, ConstraintsOn, UniquesNear DEF SetApart
  <2> HIDE DEF T
  <2> QED BY <1>2, <2>1, CarriedUniques
<1>6. ChecksHold(ChecksAt(n), y)
  <2>1. AskOf(ChecksAt(n), ChecksAt(n - 1), x, T)
    BY <1>1, <1>3, ConstraintsOn, ChecksNear DEF Constrained, AskOf
  <2> HIDE DEF T
  <2> QED BY <1>2, <2>1, CarriedChecks
<1> QED BY <1>4, <1>5, <1>6, HoldsParts

LEMMA UpIntegrityFails ==
    ASSUME NEW x, Kept(x, 7), ~Holds(Db(SchemaAt(8), x))
    PROVE  TextTwice(x)
<1> DEFINE T == TablesAt(7) \ {"system_settings"}
           text == Unique("supplier_mappings", {"supplier_id", "supplier_raw_text"})
<1>1. /\ RefsHold(ReferencesAt(7), x) /\ UniquesHold(UniquesAt(7), x)
      /\ ChecksHold(ChecksAt(7), x)
  BY HoldsParts DEF Kept
<1>0. NullsHold(DefinedAt(8), x)
  <2>1. DefinedAt(8) = DefinedAt(7) /\ NullsHold(DefinedAt(7), x)
    BY HoldsParts, DefinedGrow DEF Kept
  <2> QED BY <2>1
<1>2. ChecksAt(8) = ChecksAt(7) /\ UniquesAt(8) = UniquesAt(7) \cup {text}
  BY ChecksGrow, UniquesGrow
<1>3. RefsHold(ReferencesAt(8), x)
  <2>1. Placed(x, ColumnsAt(7))
    BY DEF Kept, Sound
  <2>2. \A t : t \notin TablesAt(7) => OfTable(x, t) = {}
    BY <2>1, NothingElsewhere DEF Latest
  <2>3. \A a \in ReferencesAt(8) : (\E b \in ReferencesAt(7) : Like(a, b)) \/ a.from \notin TablesAt(7)
    <3>1. 8 \in 1 .. Latest /\ 8 - 1 = 7
      BY DEF Latest
    <3> QED BY <3>1, ReferencesNear
  <2> QED BY <1>1, <2>2, <2>3 DEF RefsHold, Like
<1>4. ~UniquesHold(UniquesAt(8), x)
  BY <1>0, <1>1, <1>2, <1>3, HoldsParts
<1>5. text.table = "supplier_mappings" /\ text.columns = {"supplier_id", "supplier_raw_text"}
  BY DEF Unique
<1> HIDE DEF text
<1>6. PICK q \in OfTable(x, text.table), s \in OfTable(x, text.table) :
          SameIn(q, s, text.columns) /\ q # s
  BY <1>1, <1>2, <1>4 DEF UniquesHold
<1>7. /\ Value(q, "supplier_id") = Value(s, "supplier_id")
      /\ Value(q, "supplier_raw_text") = Value(s, "supplier_raw_text")
      /\ Value(q, "supplier_raw_text") # Null
  BY <1>5, <1>6 DEF SameIn
<1> QED BY <1>5, <1>6, <1>7 DEF TextTwice, OfTable

LEMMA DownHolds ==
    ASSUME NEW n \in 1 .. Latest, NEW x, Kept(x, n), NEW y, Downgraded(n - 1, x, y),
           NullsHold(DefinedAt(n - 1), y)
    PROVE  /\ n \notin {10, 11} => Holds(Db(SchemaAt(n - 1), y))
           /\ n = 10 /\ ~Holds(Db(SchemaAt(n - 1), y)) => NewRole(x)
           /\ n = 11 /\ ~Holds(Db(SchemaAt(n - 1), y)) => NewStatus(x)
<1> DEFINE T == TablesAt(n - 1) \ {"system_settings"}
<1>1. n - 1 \in 0 .. Latest /\ n \in 0 .. Latest
  BY DEF Latest
<1>2. /\ Carry("down", x, y, T)
      /\ RefsHold(ReferencesAt(n), x) /\ UniquesHold(UniquesAt(n), x) /\ ChecksHold(ChecksAt(n), x)
  BY HoldsParts DEF Kept, Downgraded
<1>3. RefsHold(ReferencesAt(n - 1), y)
  <2>1. ReferTo(ReferencesAt(n - 1), ReferencesAt(n), x, T)
    BY <1>1, ConstraintsOn, ReferencesNear DEF Constrained, ReferTo
  <2> HIDE DEF T
  <2> QED BY <1>2, <2>1, CarriedReferences
<1>4. UniquesHold(UniquesAt(n - 1), y)
  <2>1. SetApart(UniquesAt(n - 1), UniquesAt(n), x, T)
    BY <1>1, ConstraintsOn, UniquesNear DEF SetApart
  <2> HIDE DEF T
  <2> QED BY <1>2, <2>1, CarriedUniques
<1>5. \A a \in ChecksAt(n - 1) : a.table \in T /\ Constrained(a.table, a.column)
  BY <1>1, ConstraintsOn DEF Constrained
<1>6. ASSUME NEW S, S \subseteq ChecksAt(n) \cap ChecksAt(n - 1) PROVE ChecksHold(S, y)
  <2>1. AskOf(S, ChecksAt(n), x, T)
    BY <1>5, <1>6 DEF AsStrict, AskOf
  <2> HIDE DEF T
  <2> QED BY <1>2, <2>1, CarriedChecks
<1>7. ASSUME n \notin {10, 11} PROVE Holds(Db(SchemaAt(n - 1), y))
  <2>1. ChecksAt(n - 1) \subseteq ChecksAt(n)
    BY <1>7, ChecksNear
  <2>2. ChecksHold(ChecksAt(n - 1), y)
    BY <1>6, <2>1
  <2> QED BY <1>3, <1>4, <2>2, HoldsParts
\* The check that the other revision has not, and a row that is against it.
<1>8. ASSUME NEW a \in ChecksAt(n - 1), ChecksAt(n - 1) \ {a} \subseteq ChecksAt(n),
             ~Holds(Db(SchemaAt(n - 1), y))
      PROVE  \E r \in OfTable(x, a.table) : Value(r, a.column) \notin a.values \cup {Null}
  <2>1. ~ChecksHold(ChecksAt(n - 1), y)
    BY <1>3, <1>4, <1>8, HoldsParts
  <2>2. ChecksHold(ChecksAt(n - 1) \ {a}, y)
    BY <1>6, <1>8
  <2>3. PICK q \in OfTable(y, a.table) : Value(q, a.column) \notin a.values \cup {Null}
    BY <2>1, <2>2 DEF ChecksHold
  <2>4. a.table \in T /\ <<a.table, a.column>> \notin LaterColumns
    BY <1>5 DEF Constrained
  <2>5. PICK r \in OfTable(x, a.table) : Near("down", r, q)
    <3> HIDE DEF T
    <3> QED BY <1>2, <2>4, CarriedRow
  <2>6. Value(q, a.column) = Value(r, a.column)
    <3>1. r.table = a.table
      BY DEF OfTable
    <3> QED BY <2>4, <2>5, <3>1, NearBoth
  <2> QED BY <2>3, <2>6
<1>9. ASSUME n = 10, ~Holds(Db(SchemaAt(n - 1), y)) PROVE NewRole(x)
  <2> DEFINE a == Check("users", "role", FirstRoles)
  <2>1. a.table = "users" /\ a.column = "role" /\ a.values = FirstRoles
    BY DEF Check
  <2> HIDE DEF a
  <2>2. a \in ChecksAt(9) /\ ChecksAt(9) \ {a} \subseteq ChecksAt(10)
    BY ChecksGrow, <2>1 DEF Rechecked, a
  <2>3. PICK r \in OfTable(x, "users") : Value(r, "role") \notin FirstRoles \cup {Null}
    BY <1>8, <1>9, <2>1, <2>2
  <2> QED BY <2>3 DEF NewRole, ValuesIn, OfTable
<1>10. ASSUME n = 11, ~Holds(Db(SchemaAt(n - 1), y)) PROVE NewStatus(x)
  <2> DEFINE a == Check("match_requests", "status", FirstStatuses)
             b == Check("match_requests", "status", AllStatuses)
  <2>1. /\ a.table = "match_requests" /\ a.column = "status" /\ a.values = FirstStatuses
        /\ b.table = "match_requests" /\ b.column = "status" /\ b.values = AllStatuses
    BY DEF Check
  <2> HIDE DEF a, b
  <2>2. a \in ChecksAt(10) /\ ChecksAt(10) \ {a} \subseteq ChecksAt(11) /\ b \in ChecksAt(11)
    BY ChecksGrow, <2>1 DEF Rechecked, a, b
  <2>3. PICK r \in OfTable(x, "match_requests") : Value(r, "status") \notin FirstStatuses \cup {Null}
    BY <1>8, <1>10, <2>1, <2>2
  <2>4. Value(r, "status") \in AllStatuses \cup {Null}
    BY <1>2, <1>10, <2>1, <2>2 DEF ChecksHold
  <2>5. Value(r, "status") = "pending" /\ Value(r, "status") # Null
    BY <2>3, <2>4 DEF AllStatuses
  <2> QED BY <2>5 DEF NewStatus, ValuesIn, OfTable
<1> QED BY <1>7, <1>9, <1>10

-----------------------------------------------------------------------------
\* 0007: duplicates are deleted once what names them has been pointed elsewhere.

Products(x) == OfTable(x, "catalog_products")
Hashed(x) == {r \in Products(x) : Value(r, "source_hash") # Null}
SameHash(r, s) == Value(s, "source_hash") = Value(r, "source_hash")

\* A product is at least as old as its twins.
Oldest(s, x) == \A t \in Hashed(x) : SameHash(s, t) => Value(s, "created_at") <= Value(t, "created_at")

\* What a statement that ranks the products has chosen to keep.
Chooses(keep, x) ==
    /\ DOMAIN keep = {r.id : r \in Hashed(x)}
    /\ \A r \in Hashed(x) : \E s \in Hashed(x) :
          s.id = keep[r.id] /\ SameHash(r, s) /\ Oldest(s, x)
    /\ \A r, s \in Hashed(x) : SameHash(r, s) => keep[r.id] = keep[s.id]

LEMMA KeepersChoose ==
    ASSUME NEW S, NEW x, NEW keep \in Keepers(Db(S, x))
    PROVE  Chooses(keep, x)
<1> DEFINE db == Db(S, x)
           hashed == {r \in RowsIn(db, "catalog_products") : Value(r, "source_hash") # Null}
           twins(r) == {s \in hashed : Value(s, "source_hash") = Value(r, "source_hash")}
           oldest(r) == {s.id : s \in {s \in twins(r) :
                            \A t \in twins(r) : Value(s, "created_at") <= Value(t, "created_at")}}
           ids == {r.id : r \in hashed}
<1>1. hashed = Hashed(x)
  BY DEF Db, Hashed, Products, OfTable, RowsIn
<1>2. keep \in {k \in [ids -> ids] :
                   /\ \A r \in hashed : k[r.id] \in oldest(r)
                   /\ \A r, s \in hashed : s \in twins(r) => k[r.id] = k[s.id]}
  <2>1. keep \in Keepers(db)
    OBVIOUS
  <2> QED BY <2>1, Zenon DEF Keepers
<1> HIDE DEF hashed
<1>3. /\ keep \in [ids -> ids]
      /\ \A r \in hashed : keep[r.id] \in oldest(r)
      /\ \A r, s \in hashed : s \in twins(r) => keep[r.id] = keep[s.id]
  BY <1>2
<1>4. DOMAIN keep = {r.id : r \in Hashed(x)}
  BY <1>1, <1>3
<1>5. ASSUME NEW r \in Hashed(x)
      PROVE  \E s \in Hashed(x) : s.id = keep[r.id] /\ SameHash(r, s) /\ Oldest(s, x)
  <2>1. PICK s \in twins(r) : s.id = keep[r.id]
            /\ \A t \in twins(r) : Value(s, "created_at") <= Value(t, "created_at")
    BY <1>1, <1>3
  <2>2. s \in Hashed(x) /\ SameHash(r, s)
    BY <1>1 DEF SameHash
  <2>3. Oldest(s, x)
    <3> SUFFICES ASSUME NEW t \in Hashed(x), SameHash(s, t)
                 PROVE  Value(s, "created_at") <= Value(t, "created_at")
      BY DEF Oldest
    <3>1. t \in twins(r)
      BY <1>1, <2>2 DEF SameHash
    <3> QED BY <2>1, <3>1
  <2> QED BY <2>1, <2>2, <2>3
<1>6. \A r, s \in Hashed(x) : SameHash(r, s) => keep[r.id] = keep[s.id]
  BY <1>1, <1>3 DEF SameHash
<1> QED BY <1>4, <1>5, <1>6 DEF Chooses

\* A row once its product has been exchanged, in an item and in a candidate.
Exchanged(r, table, column, keep) ==
    IF r.table = table /\ Value(r, column) \in DOMAIN keep
    THEN With(r, column, keep[r.has[column]]) ELSE r

AllExchanged(x, table, column, keep) == {Exchanged(r, table, column, keep) : r \in x}

Pointed(r, first, second) ==
    Exchanged(Exchanged(r, "match_request_items", "best_product_id", first),
              "match_candidates", "product_id", second)

Owned == {"catalog_embeddings", "catalog_aliases", "supplier_mappings", "match_candidates"}

Gone(last) == {p \in DOMAIN last : last[p] # p}

Goes(q, gone) ==
    \/ q.table = "catalog_products" /\ q.id \in gone
    \/ q.table \in Owned /\ Value(q, "product_id") \in gone

Remainder(x, first, second, last) ==
    {q \in {Pointed(r, first, second) : r \in x} : ~Goes(q, Gone(last))}

LEMMA Cascades ==
    /\ \A ref \in ReferencesAt(8) : ref.to = "catalog_products" /\ ref.rule = "cascade"
           => ref.from \in Owned /\ ref.column = "product_id"
    /\ \A t \in Owned : \E ref \in ReferencesAt(8) :
           ref.from = t /\ ref.to = "catalog_products" /\ ref.rule = "cascade" /\ ref.column = "product_id"
<1>1. ReferencesAt(8) = FirstReferences \cup {OfSuppliers("match_requests", "null")} \cup {Usage}
  BY DEF ReferencesAt, Since, Usage
<1>2. \A ref \in FirstReferences : ref.to = "catalog_products" /\ ref.rule = "cascade"
           => ref.from \in Owned /\ ref.column = "product_id"
  BY DEF FirstReferences, CatalogReferences, OfProducts, OfSuppliers, Reference, Owned
<1>3. Usage.to # "catalog_products" /\ OfSuppliers("match_requests", "null").to # "catalog_products"
  BY DEF Usage, OfSuppliers, Reference
<1>4. \A t \in Owned : OfProducts(t, "cascade") \in FirstReferences
  BY DEF FirstReferences, CatalogReferences, Owned
<1>5. \A t : LET ref == OfProducts(t, "cascade")
             IN  /\ ref.from = t /\ ref.to = "catalog_products"
                 /\ ref.rule = "cascade" /\ ref.column = "product_id"
  BY DEF OfProducts, Reference
<1> QED BY <1>1, <1>2, <1>3, <1>4, <1>5

LEMMA DeduplicatedIs ==
    ASSUME NEW x, NEW first, NEW second, NEW last
    PROVE  Deduplicated(x, first, second, last) = Remainder(x, first, second, last)
<1> DEFINE a == AllExchanged(x, "match_request_items", "best_product_id", first)
           b == AllExchanged(a, "match_candidates", "product_id", second)
           gone == Gone(last)
           s == SchemaAt(8)
<1>1. \A y, table, column, keep :
          Repoint(Db(s, y), table, column, keep) = Db(s, AllExchanged(y, table, column, keep))
  <2> SUFFICES ASSUME NEW y, NEW table, NEW column, NEW keep
               PROVE Repoint(Db(s, y), table, column, keep) = Db(s, AllExchanged(y, table, column, keep))
    OBVIOUS
  <2> DEFINE e == {Exchanged(r, table, column, keep) : r \in y}
  <2>1. e = {IF r.table = table /\ Value(r, column) \in DOMAIN keep
             THEN With(r, column, keep[r.has[column]]) ELSE r : r \in Db(s, y).rows}
    <3>1. Db(s, y).rows = y
      BY Parts
    <3> QED BY <3>1, Zenon DEF Exchanged
  <2>2. Repoint(Db(s, y), table, column, keep) = SetRows(Db(s, y), e)
    <3> HIDE DEF e
    <3> QED BY <2>1, Zenon DEF Repoint, SetRows
  <2> HIDE DEF e, s
  <2>3. Repoint(Db(s, y), table, column, keep) = Db(s, e)
    BY <2>2, RowsSet
  <2> QED BY <2>3 DEF e, AllExchanged
<1>2. Repoint(Repoint(Db(s, x), "match_request_items", "best_product_id", first),
              "match_candidates", "product_id", second) = Db(s, b)
  <2>1. Repoint(Db(s, x), "match_request_items", "best_product_id", first) = Db(s, a)
    BY <1>1, Zenon
  <2> HIDE DEF a, s
  <2>2. Repoint(Db(s, a), "match_candidates", "product_id", second) = Db(s, b)
    BY <1>1, Zenon
  <2> QED BY <2>1, <2>2, Zenon
<1>3. b = {Pointed(r, first, second) : r \in x}
  BY DEF Pointed, AllExchanged
<1>4. Deduplicated(x, first, second, last) = DeleteProducts(Db(s, b), gone).rows
  BY <1>2, Zenon DEF Deduplicated, Gone
<1> HIDE DEF a, b, gone
<1>5. DeleteProducts(Db(s, b), gone).rows = {q \in b : ~Goes(q, gone)}
  <2> DEFINE db == Db(s, b)
             c == {r \in db.rows :
                      /\ ~(r.table = "catalog_products" /\ r.id \in gone)
                      /\ ~\E ref \in db.schema.references :
                             /\ ref.from = r.table /\ ref.to = "catalog_products" /\ ref.rule = "cascade"
                             /\ Value(r, ref.column) \in gone}
  <2>1. db.rows = b /\ db.schema.references = ReferencesAt(8)
    BY DEF Db, SchemaAt, Scheme
  <2>2. DeleteProducts(db, gone) = SetRows(db, c)
    <3> HIDE DEF db
    <3> QED BY Zenon DEF DeleteProducts, SetRows
  <2>3. DeleteProducts(db, gone).rows = c
    <3>1. SetRows(db, c) = Db(s, c)
      <4> HIDE DEF c, s
      <4> QED BY RowsSet
    <3> HIDE DEF c, db
    <3> QED BY <2>2, <3>1, Parts
  <2>4. \A q : (\E ref \in ReferencesAt(8) :
                   /\ ref.from = q.table /\ ref.to = "catalog_products" /\ ref.rule = "cascade"
                   /\ Value(q, ref.column) \in gone)
               <=> q.table \in Owned /\ Value(q, "product_id") \in gone
    BY Cascades
  <2> HIDE DEF db
  <2>5. c = {q \in b : ~Goes(q, gone)}
    BY <2>1, <2>4 DEF Goes
  <2> QED BY <2>3, <2>5 DEF db
<1>6. Deduplicated(x, first, second, last) = {q \in b : ~Goes(q, Gone(last))}
  BY <1>4, <1>5, Zenon DEF gone
<1> QED BY <1>3, <1>6, Zenon DEF Remainder

Kept1(keep, v) == IF v \in DOMAIN keep THEN keep[v] ELSE v

\* A row whose product has been exchanged in one column.
ExchangedAs(q, r, t, c, keep) ==
    /\ q.table = r.table /\ q.id = r.id /\ DOMAIN q.has = DOMAIN r.has /\ Writable(q)
    /\ r.table = t => /\ \A d : d # c => Value(q, d) = Value(r, d)
                      /\ Value(q, c) = Kept1(keep, Value(r, c))
    /\ r.table # t => q = r

Plain(t) == t \notin {"catalog_products", "system_settings"}

LEMMA ExchangedRow ==
    ASSUME NEW r, Writable(r), NEW t, Plain(t), NEW c, NEW keep, Null \notin DOMAIN keep
    PROVE  ExchangedAs(Exchanged(r, t, c, keep), r, t, c, keep)
<1> DEFINE q == Exchanged(r, t, c, keep)
<1>1. CASE r.table = t /\ Value(r, c) \in DOMAIN keep
  <2> DEFINE v == keep[r.has[c]]
             s == With(r, c, v)
  <2>1. q = s
    BY <1>1, Zenon DEF Exchanged
  <2>2. c \in DOMAIN r.has
    BY <1>1 DEF Value
  <2>3. v = keep[Value(r, c)]
    BY <2>2 DEF Value
  <2> HIDE DEF v
  <2>4. /\ s.table = r.table /\ s.id = r.id
        /\ DOMAIN s.has = DOMAIN r.has \cup {c}
        /\ \A d \in DOMAIN r.has : d # c => s.has[d] = r.has[d]
        /\ s.has[c] = v /\ Shaped(s)
    BY WithShape
  <2> HIDE DEF s, q
  <2>5. DOMAIN s.has = DOMAIN r.has
    BY <2>2, <2>4
  <2>6. Writable(s)
    BY <1>1, <2>4 DEF Writable, Shaped, Plain
  <2>7. \A d : d # c => Value(s, d) = Value(r, d)
    BY <2>4, <2>5 DEF Value
  <2>8. Value(s, c) = Kept1(keep, Value(r, c))
    BY <1>1, <2>2, <2>3, <2>4, <2>5 DEF Value, Kept1
  <2> QED BY <1>1, <2>1, <2>4, <2>5, <2>6, <2>7, <2>8 DEF q, ExchangedAs
<1>2. CASE ~(r.table = t /\ Value(r, c) \in DOMAIN keep)
  <2>1. q = r
    BY <1>2, Zenon DEF Exchanged
  <2> HIDE DEF q
  <2>2. r.table = t => Value(r, c) = Kept1(keep, Value(r, c))
    BY <1>2 DEF Kept1
  <2> QED BY <2>1, <2>2 DEF q, ExchangedAs
<1> QED BY <1>1, <1>2

LEMMA ChosenProducts ==
    ASSUME NEW x, NEW c, Placed(x, c), NEW keep, Chooses(keep, x)
    PROVE  /\ Null \notin DOMAIN keep
           /\ \A p \in DOMAIN keep : \E r, s \in Hashed(x) :
                 r.id = p /\ s.id = keep[p] /\ SameHash(r, s) /\ Oldest(s, x)
           /\ \A r, s \in Hashed(x) : r.id = s.id => r = s
<1>1. \A r \in Hashed(x) : Writable(r) /\ r.table = "catalog_products" /\ r \in x
  BY DEF Hashed, Products, OfTable, Placed
<1>2. Null \notin DOMAIN keep
  BY <1>1 DEF Chooses, Writable
<1>3. \A p \in DOMAIN keep : \E r, s \in Hashed(x) :
          r.id = p /\ s.id = keep[p] /\ SameHash(r, s) /\ Oldest(s, x)
  BY DEF Chooses
<1>4. \A r, s \in Hashed(x) : r.id = s.id => r = s
  BY DEF Hashed, Products, Placed
<1> QED BY <1>2, <1>3, <1>4

LEMMA PointedRow ==
    ASSUME NEW x, NEW c, Placed(x, c), NEW first, NEW second,
           Chooses(first, x), Chooses(second, x), NEW r \in x
    PROVE  /\ Pointed(r, first, second).table = r.table /\ Pointed(r, first, second).id = r.id
           /\ DOMAIN Pointed(r, first, second).has = DOMAIN r.has
           /\ Writable(Pointed(r, first, second))
           /\ \A d : Value(Pointed(r, first, second), d)
                     = IF r.table = "match_request_items" /\ d = "best_product_id"
                       THEN Kept1(first, Value(r, d))
                       ELSE IF r.table = "match_candidates" /\ d = "product_id"
                       THEN Kept1(second, Value(r, d)) ELSE Value(r, d)
           /\ r.table \notin {"match_request_items", "match_candidates"}
                  => Pointed(r, first, second) = r
<1> DEFINE i == "match_request_items"
           k == "match_candidates"
           b == "best_product_id"
           p == "product_id"
           e == Exchanged(r, i, b, first)
           q == Exchanged(e, k, p, second)
<1>1. q = Pointed(r, first, second)
  BY DEF Pointed
<1>2. Writable(r) /\ Null \notin DOMAIN first /\ Null \notin DOMAIN second
  BY ChosenProducts DEF Placed
<1>3. i # k /\ Plain(i) /\ Plain(k)
  BY DEF Plain
<1> HIDE DEF i, k, b, p
<1>4. ExchangedAs(e, r, i, b, first)
  BY <1>2, <1>3, ExchangedRow, Zenon
<1> HIDE DEF e
<1>5. ExchangedAs(q, e, k, p, second)
  <2>1. Writable(e)
    BY <1>4 DEF ExchangedAs
  <2> QED BY <1>2, <1>3, <2>1, ExchangedRow, Zenon
<1> HIDE DEF q
<1>6. /\ q.table = r.table /\ q.id = r.id /\ DOMAIN q.has = DOMAIN r.has /\ Writable(q)
      /\ \A d : Value(q, d) = IF r.table = i /\ d = b THEN Kept1(first, Value(r, d))
                              ELSE IF r.table = k /\ d = p
                              THEN Kept1(second, Value(r, d)) ELSE Value(r, d)
      /\ r.table \notin {i, k} => q = r
  <2>1. CASE r.table = i
    BY <1>3, <1>4, <1>5, <2>1 DEF ExchangedAs
  <2>2. CASE r.table = k
    BY <1>3, <1>4, <1>5, <2>2 DEF ExchangedAs
  <2>3. CASE r.table \notin {i, k}
    BY <1>3, <1>4, <1>5, <2>3 DEF ExchangedAs
  <2> QED BY <2>1, <2>2, <2>3
<1> QED BY <1>1, <1>6 DEF i, k, b, p

LEMMA HashedTwins ==
    ASSUME NEW x, NEW r \in Hashed(x), NEW s \in Hashed(x), SameHash(r, s)
    PROVE  Twins(x, r.id, s.id)
BY DEF Twins, Hashed, Products, OfTable, SameHash

LEMMA RemainderRows ==
    ASSUME NEW x, NEW c, Placed(x, c), NEW first, NEW second, NEW last,
           Chooses(first, x), Chooses(second, x)
    PROVE  /\ \A q \in Remainder(x, first, second, last) :
                 /\ ~Goes(q, Gone(last))
                 /\ \E r \in x : q = Pointed(r, first, second)
           /\ \A r \in x : \/ Goes(Pointed(r, first, second), Gone(last))
                           \/ Pointed(r, first, second) \in Remainder(x, first, second, last)
           /\ \A t : t \notin Owned \cup {"catalog_products", "match_request_items"}
                  => OfTable(Remainder(x, first, second, last), t) = OfTable(x, t)
           /\ \A t : t \notin {"match_candidates", "match_request_items"}
                  => OfTable(Remainder(x, first, second, last), t) \subseteq OfTable(x, t)
<1> DEFINE y == Remainder(x, first, second, last)
<1>1. \A q : q \in y <=> ~Goes(q, Gone(last)) /\ \E r \in x : q = Pointed(r, first, second)
  BY DEF Remainder
<1>2. \A r \in x : Pointed(r, first, second).table = r.table
          /\ (r.table \notin {"match_request_items", "match_candidates"} => Pointed(r, first, second) = r)
  BY PointedRow
<1> HIDE DEF y
<1>3. ASSUME NEW t, t \notin Owned \cup {"catalog_products", "match_request_items"}
      PROVE  OfTable(y, t) = OfTable(x, t)
  <2>1. \A q : q.table = t => ~Goes(q, Gone(last))
    BY <1>3 DEF Goes
  <2>2. t \notin {"match_request_items", "match_candidates"}
    BY <1>3 DEF Owned
  <2> QED BY <1>1, <1>2, <2>1, <2>2 DEF OfTable
<1>4. ASSUME NEW t, t \notin {"match_candidates", "match_request_items"}
      PROVE  OfTable(y, t) \subseteq OfTable(x, t)
  BY <1>1, <1>2, <1>4 DEF OfTable
<1> USE DEF y
<1> QED BY <1>1, <1>3, <1>4

LEMMA RemainderSound ==
    ASSUME NEW x, Sound(x, 8), NEW first, NEW second, NEW last,
           Chooses(first, x), Chooses(second, x)
    PROVE  /\ Sound(Remainder(x, first, second, last), 9)
           /\ SettingsFollow(8, 9, x, Remainder(x, first, second, last))
<1> DEFINE y == Remainder(x, first, second, last)
<1>1. Placed(x, ColumnsAt(8)) /\ Registered(x, 8) /\ ColumnsAt(9) = ColumnsAt(8)
  BY ColumnsGrow DEF Sound
<1>2. /\ \A q \in y : \E r \in x : q = Pointed(r, first, second)
      /\ \A t : t \notin Owned \cup {"catalog_products", "match_request_items"}
             => OfTable(y, t) = OfTable(x, t)
      /\ \A t : t \notin {"match_candidates", "match_request_items"}
             => OfTable(y, t) \subseteq OfTable(x, t)
  BY <1>1, RemainderRows
<1> HIDE DEF y
<1>3. OfTable(y, "system_settings") = OfTable(x, "system_settings")
  BY <1>2 DEF Owned
<1>4. Registered(y, 9) /\ SettingsFollow(8, 9, x, y)
  BY <1>1, <1>3, SettingsKept
<1>5. \A q \in y : Writable(q) /\ Entire(q.table) \in ColumnsAt(9)
         /\ \A d \in DOMAIN q.has :
                           <<q.table, d>> \in LaterColumns => <<q.table, d>> \in ColumnsAt(9)
  <2> SUFFICES ASSUME NEW q \in y
               PROVE Writable(q) /\ Entire(q.table) \in ColumnsAt(9)
                     /\ \A d \in DOMAIN q.has :
                           <<q.table, d>> \in LaterColumns => <<q.table, d>> \in ColumnsAt(9)
    OBVIOUS
  <2>1. PICK r \in x : q = Pointed(r, first, second)
    BY <1>2
  <2>2. q.table = r.table /\ DOMAIN q.has = DOMAIN r.has /\ Writable(q)
    BY <1>1, <2>1, PointedRow
  <2>3. Entire(r.table) \in ColumnsAt(8)
        /\ \A d \in DOMAIN r.has : <<r.table, d>> \in LaterColumns => <<r.table, d>> \in ColumnsAt(8)
    BY <1>1 DEF Placed
  <2> QED BY <1>1, <2>2, <2>3
<1>6. \A r, s \in OfTable(y, "catalog_products") : r.id = s.id => r = s
  <2>1. OfTable(y, "catalog_products") \subseteq OfTable(x, "catalog_products")
    BY <1>2
  <2> QED BY <1>1, <2>1 DEF Placed
<1>7. Placed(y, ColumnsAt(9))
  BY <1>5, <1>6 DEF Placed
<1> QED BY <1>4, <1>7 DEF Sound, y

\* The product that is kept of the twins of one that goes.
LEMMA KeptTwin ==
    ASSUME NEW x, Sound(x, 8), NEW first, NEW second, NEW last,
           Chooses(first, x), Chooses(second, x), Chooses(last, x), NEW p \in Gone(last)
    PROVE  \E r, s \in Hashed(x) :
              /\ r.id = p /\ s.id = last[p] /\ s.id # p /\ SameHash(r, s) /\ Oldest(s, x)
              /\ s \in Remainder(x, first, second, last)
<1>1. Placed(x, ColumnsAt(8))
  BY DEF Sound
<1>2. p \in DOMAIN last /\ last[p] # p
  BY DEF Gone
<1>3. PICK r \in Hashed(x), s \in Hashed(x) :
          r.id = p /\ s.id = last[p] /\ SameHash(r, s) /\ Oldest(s, x)
  BY <1>1, <1>2, ChosenProducts
<1>4. last[s.id] = s.id
  <2>1. last[r.id] = last[s.id]
    BY <1>3 DEF Chooses
  <2> QED BY <1>3, <2>1
<1>5. s.id \notin Gone(last) /\ s.table = "catalog_products" /\ s \in x
  BY <1>4 DEF Gone, Hashed, Products, OfTable
<1>6. Pointed(s, first, second) = s
  BY <1>1, <1>5, PointedRow
<1>7. ~Goes(s, Gone(last))
  BY <1>5 DEF Goes, Owned
<1>8. s \in Remainder(x, first, second, last)
  BY <1>1, <1>5, <1>6, <1>7, RemainderRows
<1> QED BY <1>2, <1>3, <1>8

\* A twin that another statement has chosen and that goes is of one age with the one that
\* is kept.
LEMMA ChosenElsewhere ==
    ASSUME NEW x, NEW c, Placed(x, c), NEW keep, NEW last, Chooses(keep, x), Chooses(last, x),
           NEW p \in DOMAIN keep, keep[p] \in Gone(last)
    PROVE  /\ SameAge(x, p)
           /\ \E r, s \in Hashed(x) : /\ r.id = p /\ s.id # p /\ SameHash(r, s)
                                      /\ Value(s, "created_at") <= Value(r, "created_at")
<1>1. PICK r \in Hashed(x), s \in Hashed(x) :
          r.id = p /\ s.id = keep[p] /\ SameHash(r, s) /\ Oldest(s, x)
  BY ChosenProducts
<1>2. PICK t \in Hashed(x) : t.id = last[p] /\ SameHash(r, t) /\ Oldest(t, x)
  BY <1>1 DEF Chooses
<1>3. last[s.id] = last[p]
  BY <1>1 DEF Chooses
<1>4. t.id # s.id
  BY <1>1, <1>2, <1>3 DEF Gone
<1>5. \A a \in {r, s, t} : Value(a, "created_at") \in Int
  <2>1. \A a \in Hashed(x) : Writable(a) /\ a.table = "catalog_products"
    BY DEF Hashed, Products, OfTable, Placed
  <2> QED BY <2>1 DEF Writable, Value
<1>6. SameHash(s, t) /\ SameHash(t, s) /\ SameHash(s, r) /\ SameHash(t, r)
  BY <1>1, <1>2 DEF SameHash
<1>7. Value(s, "created_at") <= Value(t, "created_at") /\ Value(t, "created_at") <= Value(s, "created_at")
      /\ Value(s, "created_at") <= Value(r, "created_at") /\ Value(t, "created_at") <= Value(r, "created_at")
  BY <1>1, <1>2, <1>6 DEF Oldest
<1>8. Value(s, "created_at") = Value(t, "created_at")
  BY <1>5, <1>7
<1>9. SameAge(x, p)
  <2>1. Twins(x, p, s.id) /\ Twins(x, p, t.id)
    BY <1>1, <1>2, HashedTwins
  <2>2. /\ s # t /\ s \in {a \in x : a.table = "catalog_products"}
        /\ t \in {a \in x : a.table = "catalog_products"}
    BY <1>4 DEF Hashed, Products, OfTable
  <2> QED BY <1>8, <2>1, <2>2 DEF SameAge
<1>10. \E a, b \in Hashed(x) : /\ a.id = p /\ b.id # p /\ SameHash(a, b)
                               /\ Value(b, "created_at") <= Value(a, "created_at")
  <2>1. s.id # p \/ t.id # p
    BY <1>4
  <2> QED BY <1>1, <1>2, <1>7, <2>1
<1> QED BY <1>9, <1>10

LEMMA RemainderStays ==
    ASSUME NEW x, Sound(x, 8), NEW first, NEW second, NEW last,
           Chooses(first, x), Chooses(second, x), Chooses(last, x), NEW r \in x
    PROVE  \/ Stays(r, x, Remainder(x, first, second, last))
           \/ GoesWithTwin(r, x, Remainder(x, first, second, last))
<1> DEFINE y == Remainder(x, first, second, last)
           q == Pointed(r, first, second)
           gone == Gone(last)
<1>1. Placed(x, ColumnsAt(8))
  BY DEF Sound
<1>2. /\ q.table = r.table /\ q.id = r.id /\ DOMAIN q.has = DOMAIN r.has
      /\ \A d : Value(q, d) = IF r.table = "match_request_items" /\ d = "best_product_id"
                              THEN Kept1(first, Value(r, d))
                              ELSE IF r.table = "match_candidates" /\ d = "product_id"
                              THEN Kept1(second, Value(r, d)) ELSE Value(r, d)
      /\ r.table \notin {"match_request_items", "match_candidates"} => q = r
  BY <1>1, PointedRow
<1>3. DOMAIN second = DOMAIN last /\ gone \subseteq DOMAIN last /\ Null \notin DOMAIN last
  <2>1. Null \notin DOMAIN last
    BY <1>1, ChosenProducts
  <2>2. DOMAIN second = DOMAIN last
    BY Zenon DEF Chooses
  <2>3. gone \subseteq DOMAIN last
    BY DEF Gone
  <2> QED BY <2>1, <2>2, <2>3
<1>4. \A keep, v : Chooses(keep, x) /\ v \in DOMAIN keep => Twins(x, v, keep[v])
  BY <1>1, ChosenProducts, HashedTwins
<1>5. ASSUME NEW p \in gone
      PROVE  \E s \in y : s.table = "catalog_products" /\ s.id # p /\ Twins(x, p, s.id)
  <2>1. PICK a \in Hashed(x), s \in Hashed(x) :
            a.id = p /\ s.id # p /\ SameHash(a, s) /\ s \in y
    BY KeptTwin
  <2>2. Twins(x, p, s.id)
    BY <2>1, HashedTwins
  <2> QED BY <2>1, <2>2 DEF Hashed, Products, OfTable
<1>6. q \in y \/ Goes(q, gone)
  BY <1>1, RemainderRows
<1> HIDE DEF q, y, gone
<1>7. CASE q \in y
  <2>1. ASSUME NEW c \in DOMAIN r.has
        PROVE  \/ q.has[c] = r.has[c]
               \/ <<r.table, c>> \in {<<"match_request_items", "best_product_id">>,
                                      <<"match_candidates", "product_id">>}
                      /\ Twins(x, r.has[c], q.has[c])
    <3>1. Value(q, c) = q.has[c] /\ Value(r, c) = r.has[c]
      BY <1>2 DEF Value
    <3>2. \/ q.has[c] = r.has[c]
          \/ /\ r.table = "match_request_items" /\ c = "best_product_id"
             /\ r.has[c] \in DOMAIN first /\ q.has[c] = first[r.has[c]]
          \/ /\ r.table = "match_candidates" /\ c = "product_id"
             /\ r.has[c] \in DOMAIN second /\ q.has[c] = second[r.has[c]]
      BY <1>2, <3>1 DEF Kept1
    <3> QED BY <1>4, <3>2
  <2>2. Stays(r, x, y)
    BY <1>2, <1>7, <2>1 DEF Stays
  <2> QED BY <2>2 DEF y
<1>8. CASE Goes(q, gone)
  <2>1. CASE r.table = "catalog_products"
    <3>1. r.id \in gone
      BY <1>2, <1>8, <2>1 DEF Goes, Owned
    <3>2. GoesWithTwin(r, x, y)
      BY <1>5, <2>1, <3>1 DEF GoesWithTwin
    <3> QED BY <3>2 DEF y
  <2>2. CASE r.table \in Owned
    <3> DEFINE v == Value(r, "product_id")
    <3>1. Value(q, "product_id") \in gone
      BY <1>2, <1>8, <2>2 DEF Goes, Owned
    <3>2. CASE r.table = "match_candidates"
      <4>1. Kept1(second, v) \in gone
        BY <1>2, <3>1, <3>2
      <4>2. v \in DOMAIN second /\ second[v] \in gone
        BY <1>3, <4>1 DEF Kept1
      <4>3. SameAge(x, v)
        BY <1>1, <4>2, ChosenElsewhere DEF gone
      <4>4. r.has.product_id = v
        BY <1>3, <4>2 DEF Value
      <4>5. GoesWithTwin(r, x, y)
        BY <3>2, <4>3, <4>4 DEF GoesWithTwin
      <4> QED BY <4>5 DEF y
    <3>3. CASE r.table # "match_candidates"
      <4>1. r.table \in {"catalog_aliases", "catalog_embeddings", "supplier_mappings"}
        BY <2>2, <3>3 DEF Owned
      <4>2. v \in gone
        BY <1>2, <3>1, <3>3
      <4>3. r.has.product_id = v
        BY <1>3, <4>2 DEF Value
      <4> HIDE DEF v
      <4>4. GoesWithTwin(r, x, y)
        BY <1>5, <4>1, <4>2, <4>3 DEF GoesWithTwin
      <4> QED BY <4>4 DEF y
    <3> QED BY <3>2, <3>3
  <2> QED BY <1>2, <1>8, <2>1, <2>2 DEF Goes
<1> QED BY <1>6, <1>7, <1>8

DuplicateDecided(x) ==
    \E p, q \in {r \in x : r.table = "catalog_products"} :
        /\ p # q /\ Twins(x, p.id, q.id)
        /\ p.has.created_at >= q.has.created_at
        /\ \/ p.id \in ValuesIn(x, "match_request_items", "final_product_id")
                        \cup ValuesIn(x, "golden_labels", "product_id")
           \/ SameAge(x, p.id)
                  /\ p.id \in ValuesIn(x, "match_request_items", "best_product_id")

LEMMA ConstraintKinds ==
    /\ \A ref \in ReferencesAt(8) :
          \/ /\ ref.to = "catalog_products"
             /\ \/ ref.from \in Owned /\ ref.column = "product_id"
                \/ ref.from = "match_request_items"
                       /\ ref.column \in {"best_product_id", "final_product_id"}
                \/ ref.from = "golden_labels" /\ ref.column = "product_id"
          \/ /\ ref.to \notin Owned \cup {"catalog_products"}
             /\ ref.column \notin {"product_id", "best_product_id"}
    /\ \A u \in UniquesAt(8) : u.table \notin {"match_request_items", "match_candidates"}
    /\ \A k \in ChecksAt(8) : k.column \notin {"product_id", "best_product_id"}
<1>1. ReferencesAt(8) = FirstReferences \cup {OfSuppliers("match_requests", "null")} \cup {Usage}
  BY DEF ReferencesAt, Since, Usage
<1>2. \A ref \in FirstReferences :
          \/ /\ ref.to = "catalog_products"
             /\ \/ ref.from \in Owned /\ ref.column = "product_id"
                \/ ref.from = "match_request_items"
                       /\ ref.column \in {"best_product_id", "final_product_id"}
                \/ ref.from = "golden_labels" /\ ref.column = "product_id"
          \/ /\ ref.to \notin Owned \cup {"catalog_products"}
             /\ ref.column \notin {"product_id", "best_product_id"}
  BY DEF FirstReferences, CatalogReferences, OfProducts, OfSuppliers, Reference, Owned
<1>3. \A ref \in {OfSuppliers("match_requests", "null"), Usage} :
             /\ ref.to \notin Owned \cup {"catalog_products"}
             /\ ref.column \notin {"product_id", "best_product_id"}
  BY DEF OfSuppliers, Usage, Reference, Owned
<1>4. \A u \in UniquesAt(8) : u.table \notin {"match_request_items", "match_candidates"}
  BY DEF UniquesAt, Since, Unique
<1>5. \A k \in ChecksAt(8) : k.column \notin {"product_id", "best_product_id"}
  BY DEF ChecksAt, Since, FirstChecks, Check
<1> QED BY <1>1, <1>2, <1>3, <1>4, <1>5

LEMMA TwinDecided ==
    ASSUME NEW x, NEW c, Placed(x, c), NEW r \in Hashed(x), NEW s \in Hashed(x), s.id # r.id,
           SameHash(r, s), Value(s, "created_at") <= Value(r, "created_at"),
           \/ r.id \in ValuesIn(x, "match_request_items", "final_product_id")
                           \cup ValuesIn(x, "golden_labels", "product_id")
           \/ SameAge(x, r.id) /\ r.id \in ValuesIn(x, "match_request_items", "best_product_id")
    PROVE  DuplicateDecided(x)
<1>1. \A a \in {r, s} : /\ a \in x /\ a.table = "catalog_products"
                        /\ a.has.created_at = Value(a, "created_at") /\ a.has.created_at \in Int
  <2>1. \A a \in {r, s} : a \in x /\ a.table = "catalog_products" /\ Writable(a)
    BY DEF Hashed, Products, OfTable, Placed
  <2> QED BY <2>1 DEF Writable, Value
<1>2. Twins(x, r.id, s.id)
  BY HashedTwins
<1>3. r.has.created_at >= s.has.created_at /\ r # s
  BY <1>1
<1> QED BY <1>1, <1>2, <1>3, Zenon DEF DuplicateDecided

LEMMA RemainderHolds ==
    ASSUME NEW x, Kept(x, 8), NEW first, NEW second, NEW last,
           Chooses(first, x), Chooses(second, x), Chooses(last, x), ~DuplicateDecided(x)
    PROVE  Holds(Db(SchemaAt(9), Remainder(x, first, second, last)))
<1> DEFINE y == Remainder(x, first, second, last)
           gone == Gone(last)
<1>1. /\ Sound(x, 8) /\ Placed(x, ColumnsAt(8))
      /\ RefsHold(ReferencesAt(8), x) /\ UniquesHold(UniquesAt(8), x) /\ ChecksHold(ChecksAt(8), x)
      /\ NullsHold(DefinedAt(8), x)
  BY HoldsParts DEF Kept, Sound
<1>2. /\ \A q \in y : ~Goes(q, gone) /\ \E r \in x : q = Pointed(r, first, second)
      /\ \A r \in x : Goes(Pointed(r, first, second), gone) \/ Pointed(r, first, second) \in y
      /\ \A t : t \notin {"match_candidates", "match_request_items"}
             => OfTable(y, t) \subseteq OfTable(x, t)
  BY <1>1, RemainderRows
<1>3. /\ DOMAIN second = DOMAIN last /\ DOMAIN first = DOMAIN last
      /\ gone \subseteq DOMAIN last /\ Null \notin DOMAIN last
  <2>1. Null \notin DOMAIN last
    BY <1>1, ChosenProducts
  <2>2. DOMAIN second = DOMAIN last /\ DOMAIN first = DOMAIN last
    BY Zenon DEF Chooses
  <2>3. gone \subseteq DOMAIN last
    BY DEF Gone
  <2> QED BY <2>1, <2>2, <2>3
<1>4. ASSUME NEW r \in x
      PROVE  /\ Pointed(r, first, second).table = r.table /\ Pointed(r, first, second).id = r.id
             /\ \A d : Value(Pointed(r, first, second), d)
                       = IF r.table = "match_request_items" /\ d = "best_product_id"
                         THEN Kept1(first, Value(r, d))
                         ELSE IF r.table = "match_candidates" /\ d = "product_id"
                         THEN Kept1(second, Value(r, d)) ELSE Value(r, d)
             /\ r.table \notin {"match_request_items", "match_candidates"}
                    => Pointed(r, first, second) = r
  BY <1>1, PointedRow
\* No reviewer has decided for a product that goes.
<1>5. ASSUME NEW p \in gone
      PROVE  p \notin ValuesIn(x, "match_request_items", "final_product_id")
                          \cup ValuesIn(x, "golden_labels", "product_id")
  <2>1. PICK r \in Hashed(x), s \in Hashed(x) :
            r.id = p /\ s.id # p /\ SameHash(r, s) /\ Oldest(s, x) /\ s \in y
    BY <1>1, KeptTwin
  <2>2. Value(s, "created_at") <= Value(r, "created_at")
    BY <2>1 DEF Oldest, SameHash
  <2> QED BY <1>1, <2>1, <2>2, TwinDecided
<1>6. ASSUME NEW p \in DOMAIN first, first[p] \in gone
      PROVE  p \notin ValuesIn(x, "match_request_items", "best_product_id")
  <2>1. SameAge(x, p)
    BY <1>1, <1>6, ChosenElsewhere
  <2>2. PICK r \in Hashed(x), s \in Hashed(x) : /\ r.id = p /\ s.id # p /\ SameHash(r, s)
                                      /\ Value(s, "created_at") <= Value(r, "created_at")
    BY <1>1, <1>6, ChosenElsewhere
  <2> QED BY <1>1, <2>1, <2>2, TwinDecided
<1> HIDE DEF y, gone
<1>7. ASSUME NEW s \in Products(x), s.id \notin gone PROVE s \in OfTable(y, "catalog_products")
  <2>1. s \in x /\ s.table = "catalog_products" /\ Pointed(s, first, second) = s
    BY <1>4 DEF Products, OfTable
  <2>2. ~Goes(s, gone)
    BY <1>7, <2>1 DEF Goes, Owned
  <2> QED BY <1>2, <2>1, <2>2 DEF OfTable
<1>8. \A keep, v : (Chooses(keep, x) /\ \E s \in Products(x) : s.id = v)
                       => \E s \in Products(x) : s.id = Kept1(keep, v)
  <2> SUFFICES ASSUME NEW keep, NEW v, Chooses(keep, x), \E s \in Products(x) : s.id = v
               PROVE  \E s \in Products(x) : s.id = Kept1(keep, v)
    OBVIOUS
  <2>1. CASE v \in DOMAIN keep
    <3>1. \E s \in Hashed(x) : s.id = keep[v]
      BY <1>1, <2>1, ChosenProducts
    <3> QED BY <2>1, <3>1 DEF Kept1, Hashed
  <2>2. CASE v \notin DOMAIN keep
    BY <2>2 DEF Kept1
  <2> QED BY <2>1, <2>2
<1>9. RefsHold(ReferencesAt(9), y)
  <2>1. ReferencesAt(9) = ReferencesAt(8)
    <3>1. 8 \in 8 .. 11 /\ 9 \in 8 .. 11
      OBVIOUS
    <3> QED BY <3>1, ReferencesGrow
  <2> SUFFICES ASSUME NEW ref \in ReferencesAt(8), NEW q \in OfTable(y, ref.from),
                      Value(q, ref.column) # Null
               PROVE  \E s \in OfTable(y, ref.to) : s.id = Value(q, ref.column)
    BY <2>1 DEF RefsHold
  <2>2. PICK r \in x : q = Pointed(r, first, second) /\ ~Goes(q, gone)
    BY <1>2 DEF OfTable
  <2>3. r.table = ref.from /\ r \in OfTable(x, ref.from) /\ q.table = ref.from
    BY <1>4, <2>2 DEF OfTable
  <2> DEFINE v == Value(r, ref.column)
             w == Value(q, ref.column)
  <2>4. w = IF ref.from = "match_request_items" /\ ref.column = "best_product_id" THEN Kept1(first, v)
            ELSE IF ref.from = "match_candidates" /\ ref.column = "product_id"
            THEN Kept1(second, v) ELSE v
    BY <1>4, <2>2, <2>3
  <2>5. v # Null
    BY <1>3, <2>4 DEF Kept1
  <2>6. PICK s \in OfTable(x, ref.to) : s.id = v
    BY <1>1, <2>3, <2>5 DEF RefsHold
  <2> HIDE DEF v, w
  <2>7. CASE ref.to = "catalog_products"
    <3>1. \E p \in Products(x) : p.id = v
      BY <2>6, <2>7 DEF Products
    <3>2. \E p \in Products(x) : p.id = w
      BY <1>8, <2>4, <3>1
    <3>3. w \notin gone
      <4>1. v \in ValuesIn(x, ref.from, ref.column)
        BY <2>3, <2>5 DEF ValuesIn, OfTable, v
      <4>2. CASE ref.from \in Owned /\ ref.column = "product_id"
        BY <2>2, <2>3, <4>2 DEF Goes, w
      <4>3. CASE ref.from = "match_request_items" /\ ref.column = "best_product_id"
        <5>1. w = Kept1(first, v)
          BY <2>4, <4>3
        <5>2. CASE v \in DOMAIN first
          BY <1>6, <4>1, <4>3, <5>1, <5>2 DEF Kept1
        <5>3. CASE v \notin DOMAIN first
          BY <1>3, <5>1, <5>3 DEF Kept1
        <5> QED BY <5>2, <5>3
      <4>4. CASE ref.from = "match_request_items" /\ ref.column = "final_product_id"
        BY <1>5, <2>4, <4>1, <4>4
      <4>5. CASE ref.from = "golden_labels" /\ ref.column = "product_id"
        BY <1>5, <2>4, <4>1, <4>5
      <4> QED BY <2>7, <4>2, <4>3, <4>4, <4>5, ConstraintKinds
    <3> QED BY <1>7, <2>7, <3>2, <3>3 DEF w
  <2>8. CASE ref.to # "catalog_products"
    <3>1. /\ ref.to \notin Owned \cup {"catalog_products"}
          /\ ref.column \notin {"product_id", "best_product_id"}
      BY <2>8, ConstraintKinds
    <3>2. w = v
      BY <2>4, <3>1
    <3>3. s \in x /\ s.table = ref.to
      BY DEF OfTable
    <3>4. Pointed(s, first, second).table = ref.to /\ Pointed(s, first, second).id = v
      BY <1>4, <2>6, <3>3
    <3>5. ~Goes(Pointed(s, first, second), gone)
      BY <3>1, <3>4 DEF Goes
    <3>6. Pointed(s, first, second) \in OfTable(y, ref.to)
      BY <1>2, <3>3, <3>4, <3>5 DEF OfTable
    <3> QED BY <3>2, <3>4, <3>6 DEF w
  <2> QED BY <2>7, <2>8
<1>10. UniquesHold(UniquesAt(9), y)
  <2> DEFINE hash == Unique("catalog_products", {"source_hash"})
  <2>1. UniquesAt(9) = UniquesAt(8) \cup {hash}
    BY UniquesGrow
  <2>2. hash.table = "catalog_products" /\ hash.columns = {"source_hash"}
    BY DEF Unique
  <2> HIDE DEF hash
  <2>3. ASSUME NEW u \in UniquesAt(8), NEW q \in OfTable(y, u.table), NEW s \in OfTable(y, u.table),
               SameIn(q, s, u.columns)
        PROVE  q = s
    <3>1. q \in OfTable(x, u.table) /\ s \in OfTable(x, u.table)
      BY <1>2, ConstraintKinds
    <3> QED BY <1>1, <2>3, <3>1 DEF UniquesHold
  <2>4. ASSUME NEW q \in OfTable(y, "catalog_products"), NEW s \in OfTable(y, "catalog_products"),
               SameIn(q, s, {"source_hash"})
        PROVE  q = s
    <3>1. q \in Products(x) /\ s \in Products(x)
      BY <1>2 DEF Products
    <3>2. Value(q, "source_hash") # Null /\ Value(q, "source_hash") = Value(s, "source_hash")
      BY <2>4 DEF SameIn
    <3>3. q \in Hashed(x) /\ s \in Hashed(x) /\ SameHash(q, s)
      BY <3>1, <3>2 DEF Hashed, SameHash
    <3>4. q.id \in DOMAIN last /\ s.id \in DOMAIN last /\ last[q.id] = last[s.id]
      <4>1. DOMAIN last = {r.id : r \in Hashed(x)}
        BY DEF Chooses
      <4>2. last[q.id] = last[s.id]
        BY <3>3, Zenon DEF Chooses
      <4> QED BY <3>3, <4>1, <4>2
    <3>5. ~Goes(q, gone) /\ ~Goes(s, gone) /\ q.table = "catalog_products" /\ s.table = "catalog_products"
      BY <1>2 DEF OfTable
    <3>6. last[q.id] = q.id /\ last[s.id] = s.id
      BY <3>4, <3>5 DEF Goes, Gone, gone
    <3> QED BY <1>1, <3>3, <3>4, <3>6, ChosenProducts
  <2>5. ASSUME NEW u \in UniquesAt(9), NEW q \in OfTable(y, u.table), NEW s \in OfTable(y, u.table),
               SameIn(q, s, u.columns)
        PROVE  q = s
    <3>1. CASE u \in UniquesAt(8)
      BY <2>3, <2>5, <3>1
    <3>2. CASE u = hash
      BY <2>2, <2>4, <2>5, <3>2
    <3> QED BY <2>1, <3>1, <3>2
  <2> QED BY <2>5 DEF UniquesHold
<1>11. ChecksHold(ChecksAt(9), y)
  <2>1. ChecksAt(9) = ChecksAt(8)
    BY ChecksGrow
  <2> SUFFICES ASSUME NEW k \in ChecksAt(8), NEW q \in OfTable(y, k.table)
               PROVE  Value(q, k.column) \in k.values \cup {Null}
    BY <2>1 DEF ChecksHold
  <2>2. PICK r \in x : q = Pointed(r, first, second)
    BY <1>2 DEF OfTable
  <2>3. r \in OfTable(x, k.table)
    BY <1>4, <2>2 DEF OfTable
  <2>4. Value(q, k.column) = Value(r, k.column)
    <3>1. k.column \notin {"product_id", "best_product_id"}
      BY ConstraintKinds
    <3> QED BY <1>4, <2>2, <3>1
  <2> QED BY <1>1, <2>3, <2>4 DEF ChecksHold
<1>12. NullsHold(DefinedAt(9), y)
  <2>1. DefinedAt(9) = DefinedAt(8)
    BY DefinedGrow
  <2> SUFFICES ASSUME NEW q \in y, NEW c \in DOMAIN q.has, q.has[c] = Null
               PROVE  Attribute(q.table, c, No) \notin DefinedAt(8)
    BY <2>1 DEF NullsHold
  <2>2. PICK r \in x : q = Pointed(r, first, second)
    BY <1>2
  <2>3. /\ q.table = r.table /\ DOMAIN q.has = DOMAIN r.has
        /\ Value(q, c) = IF r.table = "match_request_items" /\ c = "best_product_id"
                         THEN Kept1(first, Value(r, c))
                         ELSE IF r.table = "match_candidates" /\ c = "product_id"
                         THEN Kept1(second, Value(r, c)) ELSE Value(r, c)
    BY <1>1, <2>2, PointedRow
  <2>4. Value(q, c) = Null /\ Value(r, c) = r.has[c]
    BY <2>3 DEF Value
  <2>5. CASE r.table = "match_request_items" /\ c = "best_product_id"
    BY <2>3, <2>5, Nullable DEF Latest
  <2>6. CASE ~(r.table = "match_request_items" /\ c = "best_product_id")
    <3>1. Value(r, c) = Null
      <4>1. \A v : Kept1(second, v) = Null => v = Null
        <5>1. \A v \in DOMAIN second : second[v] # Null
          <6>1. \A s \in Hashed(x) : s.id # Null
            BY <1>1 DEF Hashed, Products, OfTable, Placed, Writable
          <6> QED BY <1>1, <6>1, ChosenProducts
        <5> QED BY <5>1 DEF Kept1
      <4> QED BY <2>3, <2>4, <2>6, <4>1
    <3> QED BY <1>1, <2>3, <2>4, <3>1 DEF NullsHold
  <2> QED BY <2>5, <2>6
<1>13. Holds(Db(SchemaAt(9), y))
  BY <1>9, <1>10, <1>11, <1>12, HoldsParts
<1> QED BY <1>13 DEF y

-----------------------------------------------------------------------------
\* One step up, whichever it is.

LEMMA UpSourceHashRows ==
    ASSUME NEW x, NEW y \in UpRows(9, x)
    PROVE  \E first, second, last :
              /\ Chooses(first, x) /\ Chooses(second, x) /\ Chooses(last, x)
              /\ y = Remainder(x, first, second, last)
<1> DEFINE keepers == Keepers(Db(SchemaAt(8), x))
<1>1. UpRows(9, x) = {Deduplicated(x, first, second, last) :
                      first \in keepers, second \in keepers, last \in keepers}
  BY DEF UpRows
<1>0. \A keep \in keepers : Chooses(keep, x)
  BY KeepersChoose, Zenon
<1> HIDE DEF keepers
<1>2. PICK first \in keepers, second \in keepers, last \in keepers :
           y = Deduplicated(x, first, second, last)
  BY <1>1
<1>3. Chooses(first, x) /\ Chooses(second, x) /\ Chooses(last, x)
  BY <1>0
<1> QED BY <1>2, <1>3, DeduplicatedIs, Zenon

LEMMA UpKeeps ==
    ASSUME NEW n \in 1 .. Latest, NEW x, Sound(x, n - 1), NEW y \in UpRows(n, x)
    PROVE  Sound(y, n) /\ SettingsFollow(n - 1, n, x, y)
<1>1. CASE n # 9
  BY <1>1, UpCarries, Zenon DEF Upgraded
<1>2. CASE n = 9
  <2>1. Sound(x, 8)
    BY <1>2
  <2>2. PICK first, second, last :
              /\ Chooses(first, x) /\ Chooses(second, x) /\ Chooses(last, x)
              /\ y = Remainder(x, first, second, last)
    BY <1>2, UpSourceHashRows, Zenon
  <2>4. /\ Sound(Remainder(x, first, second, last), 9)
        /\ SettingsFollow(8, 9, x, Remainder(x, first, second, last))
    BY <2>1, <2>2, RemainderSound
  <2>3. Sound(y, 9) /\ SettingsFollow(8, 9, x, y)
    BY <2>2, <2>4, Zenon
  <2> QED BY <1>2, <2>3
<1> QED BY <1>1, <1>2

LEMMA UpFails ==
    ASSUME NEW n \in 1 .. Latest, NEW x, Kept(x, n - 1), NEW y \in UpRows(n, x),
           ~Holds(Db(SchemaAt(n), y))
    PROVE  (n = 8 /\ TextTwice(x)) \/ (n = 9 /\ DuplicateDecided(x))
<1>0. Sound(x, n - 1)
  BY DEF Kept
<1>1. CASE n \notin {8, 9}
  <2>1. Upgraded(n, x, y)
    BY <1>0, <1>1, UpCarries
  <2>2. NullsHold(DefinedAt(n), y)
    <3>1. NullsHold(DefinedAt(n - 1), x)
      BY HoldsParts DEF Kept
    <3> QED BY <1>0, <1>1, <3>1, UpNulls
  <2> QED BY <1>1, <2>1, <2>2, UpHolds, Zenon
<1>2. CASE n = 8
  <2>1. y = x
    BY <1>2 DEF UpRows
  <2>2. Kept(x, 7)
    BY <1>2
  <2>3. ~Holds(Db(SchemaAt(8), x))
    BY <1>2, <2>1
  <2>4. TextTwice(x)
    BY <2>2, <2>3, UpIntegrityFails, Zenon
  <2> QED BY <1>2, <2>4
<1>3. CASE n = 9
  <2>1. Kept(x, 8)
    BY <1>3
  <2>2. PICK first, second, last :
              /\ Chooses(first, x) /\ Chooses(second, x) /\ Chooses(last, x)
              /\ y = Remainder(x, first, second, last)
    BY <1>3, UpSourceHashRows, Zenon
  <2> QED BY <1>3, <2>1, <2>2, RemainderHolds, Zenon
<1> QED BY <1>1, <1>2, <1>3

LEMMA CarriedStays ==
    ASSUME NEW way, NEW x, NEW y, NEW tables, Carry(way, x, y, tables),
           NEW r \in x, r.table \in tables
    PROVE  Stays(r, x, y)
<1>1. r \in OfTable(x, r.table)
  BY DEF OfTable
<1>2. PICK q \in OfTable(y, r.table) : Near(way, r, q)
  BY <1>1, CarriedRow, Zenon
<1>3. /\ q.table = r.table /\ q.id = r.id
      /\ \A c \in DOMAIN r.has \cap DOMAIN q.has : q.has[c] = r.has[c]
  BY <1>2 DEF Near, Grown
<1>4. q \in y
  BY DEF OfTable
<1> QED BY <1>3, <1>4 DEF Stays

-----------------------------------------------------------------------------
\* On its way to the deletions a command leaves alone what they look at.

LEMMA SameRows ==
    ASSUME NEW n \in 0 .. Latest, NEW x, NEW y, NEW m, Placed(x, m), Placed(y, ColumnsAt(n)), NEW t, NEW tables,
           t \in tables, Carry("up", x, y, tables), \A c : <<t, c>> \notin LaterColumns \cap ColumnsAt(n)
    PROVE  OfTable(y, t) = OfTable(x, t)
<1>1. \A r \in OfTable(x, t), q \in OfTable(y, t) : Near("up", r, q) => q = r
  <2> SUFFICES ASSUME NEW r \in OfTable(x, t), NEW q \in OfTable(y, t), Near("up", r, q)
               PROVE  q = r
    OBVIOUS
  <2>1. Grown(r, q)
    BY DEF Near
  <2>2. /\ q.table = t /\ r.table = t /\ q.id = r.id
        /\ Shaped(r) /\ Shaped(q)
        /\ \A d \in DOMAIN q.has : <<t, d>> \in LaterColumns => <<t, d>> \in ColumnsAt(n)
    BY <2>1 DEF OfTable, Placed, Writable, Shaped, Grown
  <2>3. DOMAIN q.has = DOMAIN r.has /\ \A c \in DOMAIN r.has : q.has[c] = r.has[c]
    BY <2>1, <2>2 DEF Grown
  <2>4. [c \in DOMAIN q.has |-> q.has[c]] = [c \in DOMAIN r.has |-> r.has[c]]
    BY <2>3
  <2> QED BY <2>2, <2>4 DEF Shaped
<1>2. /\ \A q \in OfTable(y, t) : \E r \in OfTable(x, t) : Near("up", r, q)
      /\ \A r \in OfTable(x, t) : \E q \in OfTable(y, t) : Near("up", r, q)
  BY CarriedRow, Zenon
<1> QED BY <1>1, <1>2

LEMMA SameValues ==
    ASSUME NEW x, NEW y, NEW t, NEW tables, t \in tables, Carry("up", x, y, tables),
           NEW c, <<t, c>> \notin LaterColumns
    PROVE  ValuesIn(y, t, c) = ValuesIn(x, t, c)
<1>1. \A r \in OfTable(x, t), q \in OfTable(y, t) : Near("up", r, q) => Value(q, c) = Value(r, c)
  <2> SUFFICES ASSUME NEW r \in OfTable(x, t), NEW q \in OfTable(y, t), Near("up", r, q)
               PROVE  Value(q, c) = Value(r, c)
    OBVIOUS
  <2>1. <<r.table, c>> \notin LaterColumns
    BY DEF OfTable
  <2>2. Grown(r, q)
    BY DEF Near
  <2> QED BY <2>1, <2>2, GrownValue, Zenon
<1>2. /\ \A q \in OfTable(y, t) : \E r \in OfTable(x, t) : Near("up", r, q)
      /\ \A r \in OfTable(x, t) : \E q \in OfTable(y, t) : Near("up", r, q)
  BY CarriedRow, Zenon
<1>3. /\ ValuesIn(x, t, c) = {Value(r, c) : r \in OfTable(x, t)} \ {Null}
      /\ ValuesIn(y, t, c) = {Value(r, c) : r \in OfTable(y, t)} \ {Null}
  BY Zenon DEF ValuesIn, OfTable
<1>4. \A v : (\E r \in OfTable(x, t) : v = Value(r, c)) <=> (\E q \in OfTable(y, t) : v = Value(q, c))
  BY <1>1, <1>2, Zenon
<1> QED BY <1>3, <1>4

LEMMA NotYetThere ==
    ASSUME NEW n \in 1 .. 8
    PROVE  /\ {"supplier_mappings", "catalog_products", "golden_labels", "match_request_items"}
                  \subseteq TablesAt(n) \ {"system_settings"}
           /\ \A t \in {"supplier_mappings", "catalog_products", "golden_labels"} :
                 \A c : <<t, c>> \notin LaterColumns \cap ColumnsAt(n)
           /\ <<"match_request_items", "best_product_id">> \notin LaterColumns
           /\ <<"match_request_items", "final_product_id">> \notin LaterColumns
<1>1. {"supplier_mappings", "catalog_products", "golden_labels", "match_request_items"}
          \subseteq TablesAt(n) \ {"system_settings"}
  BY DEF TablesAt, Since, FirstTables
<1>2. \A c : <<"supplier_mappings", c>> \notin LaterColumns /\ <<"catalog_products", c>> \notin LaterColumns
  BY LaterElsewhere
<1>3. \A c : <<"golden_labels", c>> \in LaterColumns => c \in {"version", "is_active"}
  BY DEF LaterColumns
<1>4. <<"golden_labels", "version">> \notin ColumnsAt(n) /\ <<"golden_labels", "is_active">> \notin ColumnsAt(n)
  <2>1. ColumnsAt(n) \subseteq ColumnsAt(9)
    <3>1. n = 1 \/ n = 2 \/ n = 3 \/ n = 4 \/ n = 5 \/ n = 6 \/ n = 7 \/ n = 8
      OBVIOUS
    <3>2. ColumnsAt(1) \subseteq ColumnsAt(2) /\ ColumnsAt(2) \subseteq ColumnsAt(3)
          /\ ColumnsAt(3) \subseteq ColumnsAt(4) /\ ColumnsAt(4) \subseteq ColumnsAt(5)
          /\ ColumnsAt(5) \subseteq ColumnsAt(6) /\ ColumnsAt(6) \subseteq ColumnsAt(7)
          /\ ColumnsAt(7) \subseteq ColumnsAt(8) /\ ColumnsAt(8) \subseteq ColumnsAt(9)
      BY ColumnsGrow
    <3> QED BY <3>1, <3>2
  <2> QED BY <2>1, LaterFresh
<1>5. <<"match_request_items", "best_product_id">> \notin LaterColumns
           /\ <<"match_request_items", "final_product_id">> \notin LaterColumns
  BY DEF LaterColumns
<1>6. \A c : <<"golden_labels", c>> \notin LaterColumns \cap ColumnsAt(n)
  BY <1>3, <1>4, Zenon
<1> QED BY <1>1, <1>2, <1>5, <1>6

LEMMA AlikeUp ==
    ASSUME NEW n \in 1 .. 8, NEW x, Sound(x, n - 1), NEW y \in UpRows(n, x)
    PROVE  Alike(y, x)
<1>1. n \in 1 .. Latest /\ n # 9 /\ n \in 0 .. Latest
  BY DEF Latest
<1>2. Upgraded(n, x, y)
  BY <1>1, UpCarries, Zenon
<1> DEFINE tables == TablesAt(n) \ {"system_settings"}
<1>3. /\ Placed(x, ColumnsAt(n - 1)) /\ Placed(y, ColumnsAt(n))
      /\ Carry("up", x, y, tables)
  BY <1>2 DEF Upgraded, Sound
<1>4. /\ \A t \in {"supplier_mappings", "catalog_products", "golden_labels"} :
            t \in tables /\ \A c : <<t, c>> \notin LaterColumns \cap ColumnsAt(n)
      /\ "match_request_items" \in tables
      /\ <<"match_request_items", "best_product_id">> \notin LaterColumns
      /\ <<"match_request_items", "final_product_id">> \notin LaterColumns
  BY NotYetThere
<1> HIDE DEF tables
<1>5. \A t \in {"supplier_mappings", "catalog_products", "golden_labels"} : OfTable(y, t) = OfTable(x, t)
  BY <1>1, <1>3, <1>4, SameRows
<1>6. \A c \in {"best_product_id", "final_product_id"} :
         ValuesIn(y, "match_request_items", c) = ValuesIn(x, "match_request_items", c)
  <2>1. ValuesIn(y, "match_request_items", "best_product_id")
            = ValuesIn(x, "match_request_items", "best_product_id")
    BY <1>3, <1>4, SameValues
  <2>2. ValuesIn(y, "match_request_items", "final_product_id")
            = ValuesIn(x, "match_request_items", "final_product_id")
    BY <1>3, <1>4, SameValues
  <2> QED BY <2>1, <2>2
<1> QED BY <1>5, <1>6 DEF Alike

LEMMA AlikeTrans ==
    ASSUME NEW x, NEW y, NEW z, Alike(x, y), Alike(y, z)
    PROVE  Alike(x, z)
BY DEF Alike

LEMMA AlikeText == ASSUME NEW x, NEW y, Alike(x, y), TextTwice(x) PROVE TextTwice(y)
<1>1. {r \in x : r.table = "supplier_mappings"} = {r \in y : r.table = "supplier_mappings"}
  BY DEF Alike, OfTable
<1> QED BY <1>1 DEF TextTwice

LEMMA AlikeDecided ==
    ASSUME NEW x, NEW y, Alike(x, y), DuplicateDecided(x) PROVE DuplicateDecided(y)
<1>1. {r \in x : r.table = "catalog_products"} = {r \in y : r.table = "catalog_products"}
  BY DEF Alike, OfTable
<1>2. \A p, q : Twins(x, p, q) <=> Twins(y, p, q)
  BY <1>1, Zenon DEF Twins
<1>3. \A p : SameAge(x, p) <=> SameAge(y, p)
  BY <1>1, <1>2, Zenon DEF SameAge
<1>4. {r \in x : r.table = "golden_labels"} = {r \in y : r.table = "golden_labels"}
  BY DEF Alike, OfTable
<1>5. ValuesIn(x, "golden_labels", "product_id") = ValuesIn(y, "golden_labels", "product_id")
  BY <1>4, Zenon DEF ValuesIn
<1>6. /\ ValuesIn(x, "match_request_items", "final_product_id")
             = ValuesIn(y, "match_request_items", "final_product_id")
      /\ ValuesIn(x, "match_request_items", "best_product_id")
             = ValuesIn(y, "match_request_items", "best_product_id")
  BY DEF Alike
<1> QED BY <1>1, <1>2, <1>3, <1>5, <1>6, Zenon DEF DuplicateDecided

-----------------------------------------------------------------------------
\* The rows along the way.

\* A row that the application of this revision has written.
Cut(r) ==
    {c \in DOMAIN r.has : <<r.table, c>> \in LaterColumns /\ ~HasColumn(schema, r.table, c)}

Written(r) == Without(r, Cut(r))

LEMMA WrittenRow ==
    ASSUME SchemaInv, NEW r, Writable(r), Storable(r)
    PROVE  /\ Written(r).table = r.table /\ Written(r).id = r.id
           /\ Writable(Written(r)) /\ Entire(r.table) \in ColumnsAt(at)
           /\ \A d \in DOMAIN Written(r).has :
                 <<r.table, d>> \in LaterColumns => <<r.table, d>> \in ColumnsAt(at)
           /\ r.table \in {"catalog_products", "system_settings"} => Written(r) = r
<1>1. schema = SchemaAt(at) /\ at \in 0 .. Latest
  BY DEF SchemaInv
<1> DEFINE cut == Cut(r)
           q == Without(r, cut)
<1>2. /\ q.table = r.table /\ q.id = r.id
      /\ DOMAIN q.has = DOMAIN r.has \ cut
      /\ Shaped(q)
      /\ cut \cap DOMAIN r.has = {} => q = r
  BY WithoutShape, Zenon
<1>3. Written(r) = q
  BY DEF Written
<1>4. \A d : d \in cut <=> d \in DOMAIN r.has /\ <<r.table, d>> \in LaterColumns \ ColumnsAt(at)
  BY <1>1, ColumnDefined DEF Cut
<1>5. Entire(r.table) \in ColumnsAt(at)
  BY <1>1, TableDefined DEF Storable
<1> HIDE DEF q, cut
<1>6. \A d \in DOMAIN q.has : <<r.table, d>> \in LaterColumns => <<r.table, d>> \in ColumnsAt(at)
  BY <1>1, <1>2, <1>4
<1>7. ASSUME r.table \in {"catalog_products", "system_settings"} PROVE q = r
  <2>1. \A d : <<r.table, d>> \notin LaterColumns
    BY <1>7, LaterElsewhere
  <2>2. cut \cap DOMAIN r.has = {}
    BY <1>4, <2>1
  <2> QED BY <1>2, <2>2
<1>8. Writable(q)
  <2>1. CASE r.table \in {"catalog_products", "system_settings"}
    BY <1>7, <2>1
  <2>2. CASE r.table \notin {"catalog_products", "system_settings"}
    BY <1>2, <2>2 DEF Writable, Shaped
  <2> QED BY <2>1, <2>2
<1> QED BY <1>2, <1>3, <1>5, <1>6, <1>7, <1>8

LEMMA WorkSound ==
    ASSUME SchemaInv, Work
    PROVE  Sound(rows', at)
<1>1. PICK content \in Contents :
          rows' = {Without(r, {c \in DOMAIN r.has : <<r.table, c>> \in LaterColumns
                                                      /\ ~HasColumn(schema, r.table, c)}) :
                       r \in {r \in content : Storable(r)}}
  BY DEF Work
<1>2. rows' = {Written(r) : r \in {r \in content : Storable(r)}}
  BY <1>1, Zenon DEF Written, Cut
<1>3. /\ \A r \in content : Writable(r)
      /\ \A r, s \in content : r.table = s.table /\ r.id = s.id => r = s
  BY NullsApart
<1>4. \A q \in rows' : \E r \in content : q = Written(r) /\ Storable(r) /\ Writable(r)
  BY <1>2, <1>3
<1>5. ASSUME NEW q \in rows'
      PROVE  /\ Writable(q) /\ Entire(q.table) \in ColumnsAt(at)
             /\ \A d \in DOMAIN q.has : <<q.table, d>> \in LaterColumns => <<q.table, d>> \in ColumnsAt(at)
             /\ q.table \in {"catalog_products", "system_settings"} => q \in content /\ Storable(q)
  <2>1. PICK r \in content : q = Written(r) /\ Storable(r) /\ Writable(r)
    BY <1>4
  <2>2. /\ q.table = r.table
        /\ Writable(q) /\ Entire(r.table) \in ColumnsAt(at)
        /\ \A d \in DOMAIN q.has : <<r.table, d>> \in LaterColumns => <<r.table, d>> \in ColumnsAt(at)
        /\ r.table \in {"catalog_products", "system_settings"} => q = r
    BY <2>1, WrittenRow
  <2> QED BY <2>1, <2>2
<1>6. Placed(rows', ColumnsAt(at))
  BY <1>3, <1>5 DEF Placed, OfTable
<1>7. Registered(rows', at)
  <2> SUFFICES ASSUME NEW r \in OfTable(rows', "system_settings")
               PROVE  IF at < 6 THEN r.id # "providers_registry" ELSE r.id \notin OldKeys
    BY DEF Registered
  <2>1. r.table = "system_settings" /\ Storable(r)
    BY <1>5 DEF OfTable
  <2> QED BY <2>1, Zenon DEF Storable
<1> QED BY <1>6, <1>7 DEF Sound

LEMMA NothingKept == ASSUME NEW n PROVE Kept({}, n)
<1>1. Sound({}, n)
  BY DEF Sound, Placed, Registered, OfTable
<1>2. Holds(Db(SchemaAt(n), {}))
  BY HoldsParts DEF NullsHold, RefsHold, UniquesHold, ChecksHold, OfTable
<1> QED BY <1>1, <1>2 DEF Kept

RowsAlong == RowsInv /\ CommandInv

LEMMA RollbackRows ==
    ASSUME Course, RowsAlong, Rollback
    PROVE  RowsAlong'
<1>1. /\ at' = before.at /\ rows' = before.rows /\ goal' = before.at /\ before' = NoDatabase
      /\ before.at \in 0 .. Latest
  BY DEF Rollback, Course, SchemaInv
<1>2. Kept(rows', at')
  BY <1>1 DEF RowsAlong, RowsInv
<1>3. Kept(before'.rows, before'.at)
  BY <1>1, NothingBefore, NothingKept
<1>4. CommandInv'
  BY <1>1 DEF CommandInv, Latest
<1> QED BY <1>2, <1>3, <1>4 DEF RowsAlong, RowsInv

LEMMA RowsStart == ASSUME MigrationsInit PROVE RowsAlong
<1>1. rows = {} /\ before.rows = {} /\ goal = at /\ at \in 0 .. Latest
  BY NothingBefore DEF MigrationsInit
<1>2. RowsInv
  BY <1>1, NothingKept DEF RowsInv
<1>3. CommandInv
  BY <1>1 DEF CommandInv, Latest
<1> QED BY <1>2, <1>3 DEF RowsAlong

LEMMA RowsStep ==
    ASSUME Course, RowsAlong, [MigrationsNext]_migrationVars
    PROVE  RowsAlong'
<1> USE DEF RowsAlong
<1>0. SchemaInv /\ GoalInv /\ at \in 0 .. Latest /\ goal \in 0 .. Latest
      /\ Sound(rows, at) /\ Kept(rows, at) /\ Kept(before.rows, before.at)
  BY DEF Course, SchemaInv, GoalInv, RowsInv, Kept
<1>1. CASE Work
  <2>1. at' = at /\ goal' = goal /\ before' = before /\ goal = at /\ schema' = schema
        /\ Holds([schema |-> schema, rows |-> rows'])
    BY <1>1 DEF Work, Settled
  <2>2. Sound(rows', at)
    BY <1>0, <1>1, WorkSound
  <2>3. Holds(Db(SchemaAt(at), rows'))
    BY <1>0, <2>1 DEF SchemaInv, Db
  <2>4. RowsInv'
    BY <1>0, <2>1, <2>2, <2>3 DEF RowsInv, Kept
  <2>5. CommandInv'
    BY <1>0, <2>1 DEF CommandInv, Latest
  <2> QED BY <2>4, <2>5
<1>2. CASE Command
  <2>1. /\ at' = at /\ rows' = rows
        /\ before' = [schema |-> schema, rows |-> rows, at |-> at]
    BY <1>2 DEF Command
  <2>2. RowsInv'
    BY <1>0, <2>1 DEF RowsInv
  <2>3. CommandInv'
    BY <2>1 DEF CommandInv, Alike
  <2> QED BY <2>2, <2>3
<1>3. CASE MigrateUp
  <2>1. /\ at + 1 \in 1 .. Latest /\ at = (at + 1) - 1 /\ at < goal
    BY <1>0, <1>3, UpStep
  <2>2. PICK y \in UpRows(at + 1, rows) :
            IF Holds(Db(SchemaAt(at + 1), y))
            THEN /\ schema' = SchemaAt(at + 1) /\ rows' = y /\ at' = at + 1
                 /\ UNCHANGED <<goal, before, failed>>
            ELSE Rollback /\ failed' = at + 1
    BY <1>0, <1>3, UpStep
  <2>3. CASE Holds(Db(SchemaAt(at + 1), y))
    <3>1. rows' = y /\ at' = at + 1 /\ goal' = goal /\ before' = before
      BY <2>2, <2>3
    <3>2. Sound(y, at + 1)
      BY <1>0, <2>1, UpKeeps
    <3>3. RowsInv'
      BY <1>0, <2>3, <3>1, <3>2 DEF RowsInv, Kept
    <3>4. CommandInv'
      <4> SUFFICES ASSUME goal' > at', at' <= 8 PROVE Alike(rows', before'.rows)
        BY DEF CommandInv
      <4>1. at + 1 \in 1 .. 8 /\ at <= 8 /\ goal > at
        BY <1>0, <2>1, <3>1 DEF Latest
      <4>2. Alike(y, rows)
        BY <1>0, <2>1, <4>1, AlikeUp
      <4>3. Alike(rows, before.rows)
        BY <4>1 DEF CommandInv
      <4> QED BY <3>1, <4>2, <4>3, AlikeTrans
    <3> QED BY <3>3, <3>4
  <2>4. CASE ~Holds(Db(SchemaAt(at + 1), y))
    BY <2>2, <2>4, RollbackRows
  <2> QED BY <2>3, <2>4
<1>4. CASE MigrateDown
  <2>1. at \in 1 .. Latest /\ goal < at
    BY <1>0, <1>4, DownStep
  <2>2. PICK y \in DownRows(at, rows) :
            IF Holds(Db(SchemaAt(at - 1), y))
            THEN /\ schema' = SchemaAt(at - 1) /\ rows' = y /\ at' = at - 1
                 /\ UNCHANGED <<goal, before, failed>>
            ELSE Rollback /\ failed' = -at
    BY <1>0, <1>4, DownStep
  <2>3. CASE Holds(Db(SchemaAt(at - 1), y))
    <3>1. rows' = y /\ at' = at - 1 /\ goal' = goal /\ before' = before
      BY <2>2, <2>3
    <3>2. Sound(y, at - 1)
      BY <1>0, <2>1, DownCarries DEF Downgraded
    <3>3. RowsInv'
      BY <1>0, <2>3, <3>1, <3>2 DEF RowsInv, Kept
    <3>4. CommandInv'
      BY <1>0, <2>1, <3>1 DEF CommandInv, GoalInv, Latest
    <3> QED BY <3>3, <3>4
  <2>4. CASE ~Holds(Db(SchemaAt(at - 1), y))
    BY <2>2, <2>4, RollbackRows
  <2> QED BY <2>3, <2>4
<1>5. CASE Commit
  <2>1. at' = at /\ rows' = rows /\ goal' = goal /\ goal = at /\ before' = NoDatabase
    BY <1>5 DEF Commit
  <2>2. RowsInv'
    BY <1>0, <2>1, NothingBefore, NothingKept DEF RowsInv
  <2>3. CommandInv'
    BY <1>0, <2>1 DEF CommandInv, Latest
  <2> QED BY <2>2, <2>3
<1>6. CASE Interrupt
  BY <1>6, RollbackRows DEF Interrupt
<1>7. CASE UNCHANGED migrationVars
  <2>1. at' = at /\ rows' = rows /\ goal' = goal /\ before' = before
    BY <1>7 DEF migrationVars
  <2> QED BY <2>1 DEF RowsInv, CommandInv
<1> QED BY <1>1, <1>2, <1>3, <1>4, <1>5, <1>6, <1>7 DEF MigrationsNext

LEMMA MigrationsInvHolds == MigrationsSpec => []MigrationsInv
<1>1. MigrationsInit => RowsAlong
  BY RowsStart
<1>2. Course /\ RowsAlong /\ [MigrationsNext]_migrationVars => RowsAlong'
  BY RowsStep
<1>3. Course /\ RowsAlong => MigrationsInv
  BY DEF Course, RowsAlong, MigrationsInv
<1> QED BY <1>1, <1>2, <1>3, CourseHolds, PTL DEF MigrationsSpec

-----------------------------------------------------------------------------
\* The theorems.

\* Type correctness: alembic_version is a revision, a reference has one of three rules of
\* deletion, and no row outlives its table.
THEOREM MigrationsTypeCorrect == MigrationsSpec => []MigrationsTypeOK
<1>1. MigrationsInv => MigrationsTypeOK
  <2> SUFFICES ASSUME MigrationsInv PROVE MigrationsTypeOK
    OBVIOUS
  <2>1. /\ at \in 0 .. Latest /\ goal \in 0 .. Latest /\ failed \in -Latest .. Latest
        /\ commands \in 0 .. MaxCommands /\ schema = SchemaAt(at)
    BY DEF MigrationsInv, SchemaInv, GoalInv
  <2>2. /\ DOMAIN schema = {"columns", "references", "uniques", "checks"}
        /\ schema.references = ReferencesAt(at)
    BY <2>1 DEF SchemaAt, Scheme
  <2>3. \A r \in ReferencesAt(at) : r.rule \in Rules
    BY DEF ReferencesAt, Since, FirstReferences, CatalogReferences, OfSuppliers, OfProducts,
           Reference, Rules
  <2>4. \A r \in rows : HasTable(schema, r.table)
    <3>1. \A r \in rows : Entire(r.table) \in ColumnsAt(at)
      BY DEF MigrationsInv, RowsInv, Kept, Sound, Placed
    <3> QED BY <2>1, <3>1, TableDefined
  <2> QED BY <2>1, <2>2, <2>3, <2>4 DEF MigrationsTypeOK
<1> QED BY <1>1, MigrationsInvHolds, PTL

\* A step of a command, taken apart.
RowsCarried ==
    /\ \A r \in rows : HasTable(schema', r.table) =>
          \/ Stays(r, rows, rows')
          \/ at = 8 /\ at' = 9 /\ GoesWithTwin(r, rows, rows')
          \/ {at, at'} = {5, 6} /\ Moves(r)
    /\ HasTable(schema', "system_settings") =>
          \/ \A p \in OldProviders : Keys(rows', p) = Keys(rows, p)
          \/ at' = 5 /\ Unreadable(SaidIn(rows))

\* The settings are there since the third revision.
LEMMA SettingsSince ==
    ASSUME NEW n \in 0 .. Latest, HasTable(SchemaAt(n), "system_settings")
    PROVE  n >= 3
<1>1. "system_settings" \in TablesAt(n)
  BY TableDefined, TablesThere
<1> QED BY <1>1 DEF TablesAt, Since, FirstTables, Latest

LEMMA RowFollows ==
    ASSUME NEW n \in 0 .. Latest, NEW m, NEW way, NEW x, NEW y,
           Carry(way, x, y, TablesAt(n) \ {"system_settings"}),
           n >= 3 => SettingsFollow(m, n, x, y),
           NEW r \in x, HasTable(SchemaAt(n), r.table)
    PROVE  Stays(r, x, y) \/ ({m, n} = {5, 6} /\ Moves(r))
<1>1. CASE r.table = "system_settings"
  <2>1. r \in y \/ ({m, n} = {5, 6} /\ Moves(r))
    BY <1>1, SettingsSince DEF SettingsFollow, OfTable
  <2>2. r \in y => Stays(r, x, y)
    BY DEF Stays
  <2> QED BY <2>1, <2>2
<1>2. CASE r.table # "system_settings"
  <2>1. r.table \in TablesAt(n) \ {"system_settings"}
    BY <1>2, TableDefined, TablesThere
  <2> QED BY <2>1, CarriedStays
<1> QED BY <1>1, <1>2

LEMMA UpRowsKept ==
    ASSUME MigrationsInv, MigrateUp
    PROVE  IF failed' # 0 THEN FailureHasCause' ELSE RowsCarried
<1>0. SchemaInv /\ GoalInv /\ at \in 0 .. Latest /\ goal \in 0 .. Latest
      /\ Sound(rows, at) /\ Kept(rows, at)
  BY DEF MigrationsInv, SchemaInv, GoalInv, RowsInv, Kept
<1>1. /\ at + 1 \in 1 .. Latest /\ at = (at + 1) - 1 /\ at < goal
  BY <1>0, UpStep
<1>2. PICK y \in UpRows(at + 1, rows) :
          IF Holds(Db(SchemaAt(at + 1), y))
          THEN /\ schema' = SchemaAt(at + 1) /\ rows' = y /\ at' = at + 1
               /\ UNCHANGED <<goal, before, failed>>
          ELSE Rollback /\ failed' = at + 1
  BY <1>0, UpStep
<1>3. CASE Holds(Db(SchemaAt(at + 1), y))
  <2>1. schema' = SchemaAt(at + 1) /\ rows' = y /\ at' = at + 1 /\ failed' = failed
    BY <1>2, <1>3
  <2>2. failed = 0
    BY <1>0, <1>1 DEF GoalInv, Settled
  <2>3. SettingsFollow(at, at + 1, rows, y)
    BY <1>0, <1>1, UpKeeps
  <2>4. at + 1 \in 0 .. Latest
    BY <1>1 DEF Latest
  <2>5. ASSUME NEW r \in rows, HasTable(SchemaAt(at + 1), r.table)
        PROVE  \/ Stays(r, rows, y)
               \/ at = 8 /\ at + 1 = 9 /\ GoesWithTwin(r, rows, y)
               \/ {at, at + 1} = {5, 6} /\ Moves(r)
    <3>1. CASE at + 1 # 9
      <4>1. Carry("up", rows, y, TablesAt(at + 1) \ {"system_settings"})
        BY <1>0, <1>1, <3>1, UpCarries DEF Upgraded
      <4> QED BY <2>3, <2>4, <2>5, <4>1, RowFollows
    <3>2. CASE at + 1 = 9
      <4>1. at = 8 /\ Sound(rows, 8) /\ y \in UpRows(9, rows)
        BY <1>0, <3>2
      <4>2. PICK first, second, last :
                /\ Chooses(first, rows) /\ Chooses(second, rows) /\ Chooses(last, rows)
                /\ y = Remainder(rows, first, second, last)
        BY <4>1, UpSourceHashRows
      <4> QED BY <3>2, <4>1, <4>2, RemainderStays
    <3> QED BY <3>1, <3>2
  <2>6. RowsCarried
    <3>1. \/ \A p \in OldProviders : Keys(y, p) = Keys(rows, p)
          \/ at + 1 = 5 /\ Unreadable(SaidIn(rows))
      BY <2>3 DEF SettingsFollow
    <3> QED BY <2>1, <2>5, <3>1 DEF RowsCarried
  <2> QED BY <2>1, <2>2, <2>6
<1>4. CASE ~Holds(Db(SchemaAt(at + 1), y))
  <2>1. rows' = before.rows /\ failed' = at + 1
    BY <1>2, <1>4 DEF Rollback
  <2>2. (at + 1 = 8 /\ TextTwice(rows)) \/ (at + 1 = 9 /\ DuplicateDecided(rows))
    BY <1>0, <1>1, <1>4, UpFails
  <2>3. Alike(rows, before.rows)
    BY <1>0, <1>1, <2>2 DEF MigrationsInv, CommandInv, Latest
  <2>4. (failed' = 8 /\ TextTwice(rows')) \/ (failed' = 9 /\ DuplicateDecided(rows'))
    BY <2>1, <2>2, <2>3, AlikeText, AlikeDecided
  <2>5. FailureHasCause'
    BY <2>4, Zenon DEF FailureHasCause, TextTwice, DuplicateDecided
  <2> QED BY <1>1, <2>1, <2>5
<1> QED BY <1>3, <1>4

LEMMA DownRowsKept ==
    ASSUME MigrationsInv, MigrateDown
    PROVE  IF failed' # 0 THEN FailureHasCause' ELSE RowsCarried
<1>0. SchemaInv /\ GoalInv /\ at \in 0 .. Latest /\ goal \in 0 .. Latest
      /\ Sound(rows, at) /\ Kept(rows, at)
  BY DEF MigrationsInv, SchemaInv, GoalInv, RowsInv, Kept
<1>1. at \in 1 .. Latest /\ goal < at
  BY <1>0, DownStep
<1>2. PICK y \in DownRows(at, rows) :
          IF Holds(Db(SchemaAt(at - 1), y))
          THEN /\ schema' = SchemaAt(at - 1) /\ rows' = y /\ at' = at - 1
               /\ UNCHANGED <<goal, before, failed>>
          ELSE Rollback /\ failed' = -at
  BY <1>0, DownStep
<1>3. Downgraded(at - 1, rows, y)
  BY <1>0, <1>1, DownCarries
<1>4. CASE Holds(Db(SchemaAt(at - 1), y))
  <2>1. schema' = SchemaAt(at - 1) /\ rows' = y /\ at' = at - 1 /\ failed' = failed
    BY <1>2, <1>4
  <2>2. failed = 0
    BY <1>0, <1>1 DEF GoalInv, Settled
  <2>4. at - 1 \in 0 .. Latest
    BY <1>1 DEF Latest
  <2>3. at - 1 >= 3 => SettingsFollow(at, at - 1, rows, y)
    <3>1. at - 1 >= 3 => SettingsFollow((at - 1) + 1, at - 1, rows, y)
      BY <1>3 DEF Downgraded
    <3>2. (at - 1) + 1 = at
      BY <1>0
    <3> QED BY <3>1, <3>2
  <2>5. ASSUME NEW r \in rows, HasTable(SchemaAt(at - 1), r.table)
        PROVE  Stays(r, rows, y) \/ ({at, at - 1} = {5, 6} /\ Moves(r))
    <3>1. Carry("down", rows, y, TablesAt(at - 1) \ {"system_settings"})
      BY <1>3 DEF Downgraded
    <3> QED BY <2>3, <2>4, <2>5, <3>1, RowFollows
  <2>6. ASSUME HasTable(SchemaAt(at - 1), "system_settings")
        PROVE  \/ \A p \in OldProviders : Keys(y, p) = Keys(rows, p)
               \/ at - 1 = 5 /\ Unreadable(SaidIn(rows))
    BY <2>3, <2>4, <2>6, SettingsSince DEF SettingsFollow
  <2>7. RowsCarried
    BY <2>1, <2>5, <2>6 DEF RowsCarried
  <2> QED BY <2>1, <2>2, <2>7
<1>5. CASE ~Holds(Db(SchemaAt(at - 1), y))
  <2>1. rows' = before.rows /\ failed' = -at
    BY <1>2, <1>5 DEF Rollback
  <2>2. before.rows = rows
    BY <1>0, <1>1 DEF GoalInv, Latest
  <2>3. /\ at \notin {10, 11} => Holds(Db(SchemaAt(at - 1), y))
        /\ at = 10 /\ ~Holds(Db(SchemaAt(at - 1), y)) => NewRole(rows)
        /\ at = 11 /\ ~Holds(Db(SchemaAt(at - 1), y)) => NewStatus(rows)
    <3>1. NullsHold(DefinedAt(at - 1), y)
      <4>1. NullsHold(DefinedAt(at), rows)
        BY <1>0, HoldsParts DEF Kept
      <4> QED BY <1>0, <1>1, <4>1, DownNulls
    <3> QED BY <1>0, <1>1, <1>3, <3>1, DownHolds
  <2>4. (failed' = -10 /\ NewRole(rows')) \/ (failed' = -11 /\ NewStatus(rows'))
    BY <1>5, <2>1, <2>2, <2>3
  <2>5. FailureHasCause'
    BY <2>4, Zenon DEF FailureHasCause, NewRole, NewStatus
  <2> QED BY <1>1, <2>1, <2>5 DEF Latest
<1> QED BY <1>4, <1>5

\* Whatever an application may have left and however the database ranks products of one age,
\* no upgrade or downgrade by one revision loses a row or a value of the tables and columns
\* it leaves, but for a duplicate whose twin stays (0007) and, where the keys of the
\* providers move into a registry or back (ede63bcb39f8), the settings that hold them.  Of
\* those settings only the keys of the four old providers survive, and on the way down not
\* even these if the registry cannot be read.  What makes `alembic upgrade` or `downgrade`
\* fail is one of four things that the application has written.
THEOREM RowsKeptCorrect == MigrationsSpec => RowsKept
<1>1. MigrationsInv /\ [MigrationsNext]_migrationVars =>
          [(MigrateUp \/ MigrateDown) =>
              IF failed' # 0 THEN FailureHasCause' ELSE RowsCarried]_migrationVars
  BY UpRowsKept, DownRowsKept, Zenon
<1>2. [][(MigrateUp \/ MigrateDown) =>
              IF failed' # 0 THEN FailureHasCause' ELSE RowsCarried]_migrationVars => RowsKept
  BY DEF RowsKept, RowsCarried
<1> QED BY <1>1, <1>2, MigrationsInvHolds, PTL DEF MigrationsSpec
=============================================================================
