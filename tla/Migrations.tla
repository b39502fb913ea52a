----------------------------- MODULE Migrations -----------------------------
(***************************************************************************)
(* The schema of the database and what moves it: the chain of migrations   *)
(* (migrations/versions), run by `alembic upgrade` and, when a release is  *)
(* rolled back, `alembic downgrade -1` (docs/deploy_runbook.md), over the  *)
(* rows that the application of each revision has left.  A command is one  *)
(* transaction (migrations/env.py).                                        *)
(*                                                                         *)
(* Of a schema the columns, by name and by whether they may be null, and   *)
(* the constraints are modelled, not the types, defaults and indexes; of a *)
(* row its key and the columns that a constraint or a migration looks at.  *)
(***************************************************************************)
EXTENDS Integers, FiniteSets

CONSTANTS
    Contents,    \* what an application may leave: sets of rows [table, id, has],
                 \* `has` from columns to values
    Null,
    MaxCommands  \* bound: the commands

\* The providers whose keys had settings of their own.  The registry has others as well.
OldProviders == {"openai", "openrouter", "google", "cohere"}

KeyOf(p) == CASE p = "openai" -> "openai_api_key" [] p = "openrouter" -> "openrouter_api_key"
              [] p = "google" -> "google_api_key" [] p = "cohere" -> "cohere_api_key"

\* What an application writes: a product has a key and an age.  The value of a setting is a
\* set of what it says, each <<provider, "key" or "url", value>>, or <<.., "broken", ..>>
\* where it cannot be read; the key of an old provider stands in the setting of its own or
\* in the registry.
Writable(r) ==
    /\ r = [table |-> r.table, id |-> r.id, has |-> [c \in DOMAIN r.has |-> r.has[c]]]
    /\ r.table = "catalog_products" =>
          /\ r.id # Null
          /\ "created_at" \in DOMAIN r.has /\ r.has.created_at \in Int
    /\ r.table = "system_settings" =>
          \A k \in r.has.value : k[1] \in OldProviders /\ k[2] = "key" /\ k[3] # "" =>
              r.id \in {"providers_registry", KeyOf(k[1])}

ASSUME MigrationsAssumption ==
    /\ MaxCommands \in Nat
    /\ Null # TRUE /\ Null # FALSE /\ Null # "batch_match" /\ Null # "{}"
    /\ \A content \in Contents :
          /\ \A r \in content : Writable(r)
          /\ \A r, s \in content : r.table = s.table /\ r.id = s.id => r = s

VARIABLES
    at,         \* alembic_version: how many migrations of the chain are applied
    schema,
    rows,
    goal,       \* where the command will end; `at` if none is under way
    before,     \* what a rollback restores
    failed,     \* history: the migration that the last command failed at, negative down
    commands

migrationVars == <<at, schema, rows, goal, before, failed, commands>>

Latest == 11

-----------------------------------------------------------------------------
Attribute(table, column, null) == [table |-> table, column |-> column, null |-> null]

\* The columns of some tables, those that are NOT NULL and those that are not.
ColumnsOf(required, optional) ==
    UNION {{Attribute(t, c, FALSE) : c \in required[t]} \cup {Attribute(t, c, TRUE) : c \in optional[t]} :
               t \in DOMAIN required}

HasTable(s, table) == \E c \in s.columns : c.table = table
HasColumn(s, table, column) == \E c \in s.columns : c.table = table /\ c.column = column

Reference(from, column, to, rule) ==
    [from |-> from, column |-> column, to |-> to, rule |-> rule]

Unique(table, columns) == [table |-> table, columns |-> columns]

Check(table, column, values) == [table |-> table, column |-> column, values |-> values]

OfProducts(from, rule) == Reference(from, "product_id", "catalog_products", rule)
OfSuppliers(from, rule) == Reference(from, "supplier_id", "supplier_profiles", rule)

EmptySchema == [columns |-> {}, references |-> {}, uniques |-> {}, checks |-> {}]

Rules == {"refuse", "cascade", "null"}

MigrationsTypeOK ==
    /\ at \in 0 .. Latest /\ goal \in 0 .. Latest
    /\ DOMAIN schema = {"columns", "references", "uniques", "checks"}
    /\ \A r \in schema.references : r.rule \in Rules
    /\ \A r \in rows : HasTable(schema, r.table)
    /\ failed \in -Latest .. Latest
    /\ commands \in 0 .. MaxCommands

RowsIn(db, table) == {r \in db.rows : r.table = table}

Value(r, column) == IF column \in DOMAIN r.has THEN r.has[column] ELSE Null

\* What the database checks.
Holds(db) ==
    /\ \A r \in db.rows : \A c \in DOMAIN r.has :
          r.has[c] = Null => Attribute(r.table, c, FALSE) \notin db.schema.columns
    /\ \A ref \in db.schema.references : \A r \in RowsIn(db, ref.from) :
          Value(r, ref.column) = Null
              \/ \E s \in RowsIn(db, ref.to) : s.id = Value(r, ref.column)
    /\ \A u \in db.schema.uniques : \A r, s \in RowsIn(db, u.table) :
          (\A c \in u.columns : Value(r, c) # Null /\ Value(r, c) = Value(s, c)) => r = s
    /\ \A k \in db.schema.checks : \A r \in RowsIn(db, k.table) :
          Value(r, k.column) \in k.values \cup {Null}

\* A row set back to the columns that the schema has; a new column gets its default.
Without(r, columns) ==
    [r EXCEPT !.has = [c \in DOMAIN r.has \ columns |-> r.has[c]]]

With(r, column, value) ==
    [r EXCEPT !.has = [c \in DOMAIN r.has \cup {column} |->
                           IF c = column THEN value ELSE r.has[c]]]

AddColumn(db, table, column, null, default) ==
    [schema |-> [db.schema EXCEPT !.columns = @ \cup {Attribute(table, column, null)}],
     rows |-> {IF r.table = table THEN With(r, column, default) ELSE r : r \in db.rows}]

DropColumn(db, table, column) ==
    [schema |-> [db.schema EXCEPT !.columns = {c \in @ : ~(c.table = table /\ c.column = column)}],
     rows |-> {IF r.table = table THEN Without(r, {column}) ELSE r : r \in db.rows}]

\* The tables that these are the columns of.
CreateTables(db, columns) == [db EXCEPT !.schema.columns = @ \cup columns]

\* With their columns, constraints and rows.
DropTables(db, tables) ==
    [schema |-> [columns |-> {c \in db.schema.columns : c.table \notin tables},
                 references |-> {r \in db.schema.references : {r.from, r.to} \cap tables = {}},
                 uniques |-> {u \in db.schema.uniques : u.table \notin tables},
                 checks |-> {k \in db.schema.checks : k.table \notin tables}],
     rows |-> {r \in db.rows : r.table \notin tables}]

\* The checks of a column are found by what they say and dropped, and one takes their
\* place.
Recheck(db, table, column, values) ==
    [db EXCEPT !.schema.checks =
        {k \in @ : ~(k.table = table /\ k.column = column)} \cup {Check(table, column, values)}]

\* DELETE of products: what cascades goes with them; what refuses is left dangling, and
\* the database does not let that be.
DeleteProducts(db, ids) ==
    [db EXCEPT !.rows = {r \in @ :
        /\ ~(r.table = "catalog_products" /\ r.id \in ids)
        /\ ~\E ref \in db.schema.references :
               /\ ref.from = r.table /\ ref.to = "catalog_products" /\ ref.rule = "cascade"
               /\ Value(r, ref.column) \in ids}]

-----------------------------------------------------------------------------
\* The migrations.  Each maps a database to what it may become.

FirstTables ==
    {"supplier_profiles", "catalog_products", "catalog_embeddings", "catalog_aliases",
     "supplier_mappings", "match_requests", "match_request_items", "match_candidates",
     "golden_labels", "normalization_synonyms", "index_versions", "quality_reports"}

FirstRequired == [
    supplier_profiles |-> {"supplier_id", "supplier_name", "is_active", "strict_mode",
        "normalization_rules", "created_at", "updated_at"},
    catalog_products |-> {"product_id", "name", "normalized_name", "attributes_json",
        "search_document", "is_active", "created_at", "updated_at"},
    catalog_embeddings |-> {"product_id", "embedding_model", "embedding_version",
        "embedding_vector", "created_at"},
    catalog_aliases |-> {"alias_id", "product_id", "alias_text", "normalized_alias_text",
        "alias_type", "weight", "created_at"},
    supplier_mappings |-> {"mapping_id", "supplier_id", "product_id", "mapping_type",
        "is_active", "created_at", "updated_at"},
    match_requests |-> {"request_id", "source_type", "status", "total_items",
        "processed_items", "auto_matched_items", "review_needed_items", "no_match_items",
        "created_at"},
    match_request_items |-> {"request_item_id", "request_id", "raw_text",
        "extracted_attributes", "status", "reasons_json", "decision_trace_json",
        "created_at", "updated_at"},
    match_candidates |-> {"candidate_id", "request_item_id", "product_id", "retrieval_rank",
        "reasons_json", "created_at"},
    golden_labels |-> {"label_id", "raw_query", "normalized_query", "label_type", "source",
        "created_at"},
    normalization_synonyms |-> {"synonym_id", "domain", "source_text",
        "normalized_source_text", "target_text", "target_type", "weight", "is_active",
        "created_at"},
    index_versions |-> {"index_version_id", "embedding_model", "embedding_version",
        "lexical_version", "rules_version", "is_active", "product_count", "created_at"},
    quality_reports |-> {"report_id", "scope", "total_cases", "report_json", "created_at"}]

FirstOptional == [
    supplier_profiles |-> {"notes"},
    catalog_products |-> {"onec_ref", "code", "article", "full_name",
        "normalized_full_name", "brand", "normalized_brand", "manufacturer",
        "manufacturer_code", "category_id", "category_path", "unit", "packaging",
        "size_value", "size_unit", "weight_value", "weight_unit", "volume_value",
        "volume_unit", "search_tsv", "source_hash", "source_version"},
    catalog_embeddings |-> {},
    catalog_aliases |-> {"created_by"},
    supplier_mappings |-> {"supplier_sku", "supplier_article", "supplier_raw_text",
        "normalized_supplier_text", "confidence", "approved_by", "approved_at"},
    match_requests |-> {"supplier_id", "submitted_by", "file_name", "error_message",
        "started_at", "finished_at"},
    match_request_items |-> {"line_id", "normalized_text", "best_product_id", "confidence",
        "reviewed_by", "reviewed_at", "final_product_id", "final_decision"},
    match_candidates |-> {"lexical_score", "semantic_score", "rerank_score", "rules_score",
        "final_score"},
    golden_labels |-> {"supplier_id", "product_id", "verified_by", "verified_at"},
    normalization_synonyms |-> {"supplier_id", "category_id"},
    index_versions |-> {"created_by", "activated_at"},
    quality_reports |-> {"index_version_id", "scope_value", "top1_accuracy", "top3_recall",
        "precision_at_1", "auto_match_fp_rate", "review_acceptance_rate", "avg_latency_ms"}]

Verdicts == {"auto_match", "review_needed", "no_match"}
Decisions == {"accepted", "corrected", "rejected"}
Labels == {"positive", "negative", "ambiguous"}
Aliases == {"internal", "historical", "user_added", "supplier_derived"}
Mappings == {"exact", "approved", "manual", "learned"}
FirstRoles == {"admin", "operator", "viewer"}
FirstStatuses == {"queued", "running", "done", "failed"}

\* 3c05211437ee, up to the table of requests and from there.
InitCatalog(db) ==
    [db EXCEPT
        !.references = @ \cup {OfProducts("catalog_embeddings", "cascade"),
            OfProducts("catalog_aliases", "cascade"), OfProducts("supplier_mappings", "cascade"),
            OfSuppliers("supplier_mappings", "cascade")},
        !.uniques = @ \cup {Unique("catalog_products", {"onec_ref"})},
        !.checks = @ \cup {Check("catalog_aliases", "alias_type", Aliases),
                           Check("supplier_mappings", "mapping_type", Mappings)}]

InitMatching(db) ==
    [db EXCEPT
        !.references = @ \cup {OfSuppliers("match_requests", "refuse"),
            Reference("match_request_items", "request_id", "match_requests", "cascade"),
            Reference("match_request_items", "best_product_id", "catalog_products", "refuse"),
            Reference("match_request_items", "final_product_id", "catalog_products", "refuse"),
            Reference("match_candidates", "request_item_id", "match_request_items", "cascade"),
            OfProducts("match_candidates", "cascade"), OfProducts("golden_labels", "refuse"),
            OfSuppliers("golden_labels", "refuse"),
            OfSuppliers("normalization_synonyms", "refuse"),
            Reference("quality_reports", "index_version_id", "index_versions", "refuse")},
        !.uniques = @ \cup {Unique("index_versions", {"is_active"})},
        !.checks = @ \cup {Check("match_requests", "status", FirstStatuses),
            Check("match_request_items", "status", Verdicts),
            Check("match_request_items", "final_decision", Decisions),
            Check("golden_labels", "label_type", Labels)}]

UpInit(db) ==
    {[CreateTables(db, ColumnsOf(FirstRequired, FirstOptional))
        EXCEPT !.schema = InitMatching(InitCatalog(@))]}

DownInit(db) == {DropTables(db, FirstTables)}

UserColumns ==
    ColumnsOf([users |-> {"user_id", "username", "hashed_password", "role", "is_active",
                          "created_at", "updated_at"}],
              [users |-> {"full_name"}])

UpUsers(db) ==
    {[CreateTables(db, UserColumns) EXCEPT
        !.schema.uniques = @ \cup {Unique("users", {"username"})},
        !.schema.checks = @ \cup {Check("users", "role", FirstRoles)}]}

DownUsers(db) == {DropTables(db, {"users"})}

SettingColumns ==
    ColumnsOf([system_settings |-> {"key"}], [system_settings |-> {"value", "updated_at"}])

UpSystemSettings(db) == {CreateTables(db, SettingColumns)}
DownSystemSettings(db) == {DropTables(db, {"system_settings"})}

UpOriginalRow(db) == {AddColumn(db, "match_request_items", "original_row_json", TRUE, Null)}
DownOriginalRow(db) == {DropColumn(db, "match_request_items", "original_row_json")}

UpMustChange(db) == {AddColumn(db, "users", "must_change_password", FALSE, FALSE)}
DownMustChange(db) == {DropColumn(db, "users", "must_change_password")}

Setting(key, value) == [table |-> "system_settings", id |-> key, has |-> [value |-> value]]

OldKeys == {KeyOf(p) : p \in OldProviders} \cup {"openai_base_url", "openrouter_base_url"}

UrlOf(p) == CASE p = "openai" -> "https://api.openai.com/v1"
              [] p = "openrouter" -> "https://openrouter.ai/api/v1"
              [] p = "google" -> ""
              [] p = "cohere" -> "https://api.cohere.ai/v1"

LocalEntry == {<<"local", "key", "none">>, <<"local", "url", "http://localhost:11434/v1">>}

Said(db, ids) == UNION {r.has.value : r \in {r \in RowsIn(db, "system_settings") : r.id \in ids}}

\* The keys of the old providers move into one registry, each with the address that the
\* migration knows: an empty key is left behind, and so is an address of the settings.
UpGateway(db) ==
    LET keys == {k \in Said(db, {KeyOf(p) : p \in OldProviders}) :
                    k[1] \in OldProviders /\ k[2] = "key" /\ k[3] # ""}
        registry == LocalEntry \cup keys \cup {<<k[1], "url", UrlOf(k[1])>> : k \in keys}
    IN  {[db EXCEPT !.rows =
            {r \in @ : ~(r.table = "system_settings"
                            /\ r.id \in OldKeys \cup {"providers_registry"})}
            \cup {Setting("providers_registry", registry)}]}

Unreadable(registry) == \E k \in registry : k[2] = "broken"

\* What is written back of an entry: the key, empty if it has none.
KeyBack(registry, p) ==
    LET keys == {k \in registry : k[1] = p /\ k[2] = "key"}
    IN  Setting(KeyOf(p), IF keys = {} THEN {<<p, "key", "">>} ELSE keys)

\* Back again, for the old providers only, and where no key is there; with the registry go
\* the keys of the others and every address.  At an entry that cannot be read the reading
\* stops without an error, after some of them, and the registry goes all the same.
DownGateway(db) ==
    LET registry == Said(db, {"providers_registry"})
        there == {r.id : r \in RowsIn(db, "system_settings")}
        named == {p \in OldProviders : \E k \in registry : k[1] = p /\ k[2] # "broken"}
    IN  {[db EXCEPT !.rows =
            {r \in @ : ~(r.table = "system_settings" /\ r.id = "providers_registry")}
            \cup {KeyBack(registry, p) : p \in {p \in read : KeyOf(p) \notin there}}] :
            read \in IF Unreadable(registry) THEN SUBSET named ELSE {named}}

UsageColumns ==
    ColumnsOf([token_usage_log |-> {"id", "operation", "provider", "model", "prompt_tokens",
                                    "completion_tokens", "total_tokens", "created_at"}],
              [token_usage_log |-> {"request_id", "estimated_cost_usd"}])

UpTokenUsage(db) ==
    {[CreateTables(db, UsageColumns) EXCEPT !.schema.references =
        @ \cup {Reference("token_usage_log", "request_id", "match_requests", "null")}]}

DownTokenUsage(db) == {DropTables(db, {"token_usage_log"})}

UpIntegrity(db) ==
    {[db EXCEPT
        !.schema.uniques = @ \cup {Unique("supplier_mappings", {"supplier_id", "supplier_raw_text"})},
        !.schema.references = (@ \ {OfSuppliers("match_requests", "refuse")})
                                  \cup {OfSuppliers("match_requests", "null")}]}

\* Plausible bug: the reference keeps its new rule.
DownIntegrityHalf(db) ==
    {[db EXCEPT !.schema.uniques = @ \ {Unique("supplier_mappings", {"supplier_id", "supplier_raw_text"})}]}

DownIntegrity(db) ==
    {[db EXCEPT
        !.schema.references = (@ \ {OfSuppliers("match_requests", "null")})
                                  \cup {OfSuppliers("match_requests", "refuse")},
        !.schema.uniques = @ \ {Unique("supplier_mappings", {"supplier_id", "supplier_raw_text"})}]}

\* A statement that ranks the products of each hash by age.  Which of those of one age is
\* first is the database's choice, each time again.
Keepers(db) ==
    LET hashed == {r \in RowsIn(db, "catalog_products") : Value(r, "source_hash") # Null}
        twins(r) == {s \in hashed : Value(s, "source_hash") = Value(r, "source_hash")}
        oldest(r) == {s.id : s \in {s \in twins(r) :
                         \A t \in twins(r) : Value(s, "created_at") <= Value(t, "created_at")}}
    IN  {keep \in [{r.id : r \in hashed} -> {r.id : r \in hashed}] :
            /\ \A r \in hashed : keep[r.id] \in oldest(r)
            /\ \A r, s \in hashed : s \in twins(r) => keep[r.id] = keep[s.id]}

\* A column that names a product is set to the one that is kept of its twins.
Repoint(db, table, column, keep) ==
    [db EXCEPT !.rows = {IF r.table = table /\ Value(r, column) \in DOMAIN keep
                         THEN With(r, column, keep[r.has[column]]) ELSE r : r \in @}]

\* Plausible bug: the candidates keep pointing at the duplicates.
UpSourceHashItems(db) ==
    {[DeleteProducts(Repoint(db, "match_request_items", "best_product_id", first),
                     {p \in DOMAIN last : last[p] # p})
        EXCEPT !.schema.uniques = @ \cup {Unique("catalog_products", {"source_hash"})}] :
        first \in Keepers(db), last \in Keepers(db)}

\* Items and candidates are pointed at the product that is kept, its duplicates are
\* deleted and further ones made impossible.
UpSourceHash(db) ==
    {[DeleteProducts(Repoint(Repoint(db, "match_request_items", "best_product_id", first),
                             "match_candidates", "product_id", second),
                     {p \in DOMAIN last : last[p] # p})
        EXCEPT !.schema.uniques = @ \cup {Unique("catalog_products", {"source_hash"})}] :
        first \in Keepers(db), second \in Keepers(db), last \in Keepers(db)}

DownSourceHash(db) ==
    {[db EXCEPT !.schema.uniques = @ \ {Unique("catalog_products", {"source_hash"})}]}

AllRoles == FirstRoles \cup {"reviewer", "catalog_operator"}

AuditColumns ==
    ColumnsOf([audit_log |-> {"log_id", "action", "entity_type"}],
              [audit_log |-> {"entity_id", "user_id", "username", "details", "ip_address",
                              "created_at"}])

UpAuditRoles(db) ==
    {AddColumn(AddColumn(
        Recheck(CreateTables(AddColumn(db, "match_request_items", "review_notes", TRUE, Null),
                             AuditColumns),
                "users", "role", AllRoles),
        "golden_labels", "version", TRUE, Null), "golden_labels", "is_active", FALSE, TRUE)}

DownAuditRoles(db) ==
    {DropColumn(DropTables(
        Recheck(DropColumn(DropColumn(db, "golden_labels", "is_active"),
                           "golden_labels", "version"),
                "users", "role", FirstRoles),
        {"audit_log"}), "match_request_items", "review_notes")}

AllStatuses == FirstStatuses \cup {"pending"}

EmptyJson == "{}"

UpQueueRecovery(db) ==
    {Recheck(AddColumn(AddColumn(db, "match_requests", "job_name", FALSE, "batch_match"),
                       "match_requests", "job_payload_json", FALSE, EmptyJson),
             "match_requests", "status", AllStatuses)}

DownQueueRecovery(db) ==
    {DropColumn(DropColumn(Recheck(db, "match_requests", "status", FirstStatuses),
                           "match_requests", "job_payload_json"),
                "match_requests", "job_name")}

Up(n, db) ==
    CASE n = 1 -> UpInit(db)         [] n = 2 -> UpUsers(db)      [] n = 3 -> UpSystemSettings(db)
      [] n = 4 -> UpOriginalRow(db)  [] n = 5 -> UpMustChange(db) [] n = 6 -> UpGateway(db)
      [] n = 7 -> UpTokenUsage(db)   [] n = 8 -> UpIntegrity(db)  [] n = 9 -> UpSourceHash(db)
      [] n = 10 -> UpAuditRoles(db)  [] n = 11 -> UpQueueRecovery(db)

Down(n, db) ==
    CASE n = 1 -> DownInit(db)         [] n = 2 -> DownUsers(db)      [] n = 3 -> DownSystemSettings(db)
      [] n = 4 -> DownOriginalRow(db)  [] n = 5 -> DownMustChange(db) [] n = 6 -> DownGateway(db)
      [] n = 7 -> DownTokenUsage(db)   [] n = 8 -> DownIntegrity(db)  [] n = 9 -> DownSourceHash(db)
      [] n = 10 -> DownAuditRoles(db)  [] n = 11 -> DownQueueRecovery(db)

-----------------------------------------------------------------------------
Database == [schema |-> schema, rows |-> rows]
NoDatabase == [schema |-> EmptySchema, rows |-> {}, at |-> 0]

\* The schema after n migrations of an empty database.
Built[n \in 0 .. Latest] ==
    IF n = 0 THEN EmptySchema
    ELSE (CHOOSE db \in Up(n, [schema |-> Built[n - 1], rows |-> {}]) : TRUE).schema

\* A release of any revision was installed anew.
MigrationsInit ==
    /\ at \in 0 .. Latest /\ schema = Built[at] /\ rows = {}
    /\ goal = at /\ before = NoDatabase /\ failed = 0 /\ commands = 0

Settled == goal = at /\ before = NoDatabase

\* The columns that migrations have added to tables that were there.
LaterColumns ==
    {<<"match_request_items", "original_row_json">>, <<"match_request_items", "review_notes">>,
     <<"users", "must_change_password">>, <<"match_requests", "job_name">>,
     <<"match_requests", "job_payload_json">>, <<"golden_labels", "version">>,
     <<"golden_labels", "is_active">>}

\* The application of this revision runs for a while and leaves other rows, in the tables
\* and columns that there are: the keys of the old providers in their own settings before the
\* registry, and in it afterwards, among whatever else is set.
Storable(r) ==
    /\ HasTable(schema, r.table)
    /\ r.table = "system_settings" =>
          IF at < 6 THEN r.id # "providers_registry" ELSE r.id \notin OldKeys

Work ==
    /\ Settled /\ (commands = 0 => rows = {})
    /\ \E content \in Contents :
        rows' = {Without(r, {c \in DOMAIN r.has : <<r.table, c>> \in LaterColumns
                                                    /\ ~HasColumn(schema, r.table, c)}) :
                     r \in {r \in content : Storable(r)}}
    /\ Holds([schema |-> schema, rows |-> rows'])
    /\ failed' = 0
    /\ UNCHANGED <<at, schema, goal, before, commands>>

\* alembic upgrade head, or downgrade -1.
Command ==
    /\ Settled /\ commands < MaxCommands
    /\ goal' \in {at - 1, Latest} \cap (0 .. Latest) /\ goal' # at
    /\ before' = [schema |-> schema, rows |-> rows, at |-> at]
    /\ failed' = 0
    /\ commands' = commands + 1
    /\ UNCHANGED <<at, schema, rows>>

\* Nothing of a command is left that fails or is interrupted.
Rollback ==
    /\ at' = before.at /\ schema' = before.schema /\ rows' = before.rows
    /\ goal' = before.at /\ before' = NoDatabase

\* One migration.
Migrate(n, next, outcomes) ==
    /\ \E db \in outcomes :
        IF Holds(db)
        THEN /\ schema' = db.schema /\ rows' = db.rows /\ at' = next
             /\ UNCHANGED <<goal, before, failed>>
        ELSE Rollback /\ failed' = n
    /\ UNCHANGED commands

MigrateUp == at < goal /\ Migrate(at + 1, at + 1, Up(at + 1, Database))
MigrateDown == goal < at /\ Migrate(-at, at - 1, Down(at, Database))

Commit ==
    /\ goal = at /\ before # NoDatabase
    /\ before' = NoDatabase
    /\ UNCHANGED <<at, schema, rows, goal, failed, commands>>

Interrupt == before # NoDatabase /\ Rollback /\ UNCHANGED <<failed, commands>>

MigrationsNext == Work \/ Command \/ MigrateUp \/ MigrateDown \/ Commit \/ Interrupt

MigrationsSpec == MigrationsInit /\ [][MigrationsNext]_migrationVars

-----------------------------------------------------------------------------
\* What the models declare (db/models.py).

ModelRequired == [
    supplier_profiles |-> {"supplier_id", "supplier_name", "is_active", "strict_mode",
        "normalization_rules", "created_at", "updated_at"},
    catalog_products |-> {"product_id", "name", "normalized_name", "attributes_json",
        "search_document", "is_active", "created_at", "updated_at"},
    catalog_embeddings |-> {"product_id", "embedding_model", "embedding_version",
        "embedding_vector", "created_at"},
    catalog_aliases |-> {"alias_id", "product_id", "alias_text", "normalized_alias_text",
        "alias_type", "weight", "created_at"},
    supplier_mappings |-> {"mapping_id", "supplier_id", "product_id", "mapping_type",
        "is_active", "created_at", "updated_at"},
    match_requests |-> {"request_id", "source_type", "status", "job_name",
        "job_payload_json", "total_items", "processed_items", "auto_matched_items",
        "review_needed_items", "no_match_items", "created_at"},
    match_request_items |-> {"request_item_id", "request_id", "raw_text",
        "extracted_attributes", "status", "reasons_json", "decision_trace_json",
        "created_at", "updated_at"},
    match_candidates |-> {"candidate_id", "request_item_id", "product_id", "retrieval_rank",
        "reasons_json", "created_at"},
    golden_labels |-> {"label_id", "raw_query", "normalized_query", "label_type", "source",
        "is_active", "created_at"},
    normalization_synonyms |-> {"synonym_id", "domain", "source_text",
        "normalized_source_text", "target_text", "target_type", "weight", "is_active",
        "created_at"},
    index_versions |-> {"index_version_id", "embedding_model", "embedding_version",
        "lexical_version", "rules_version", "is_active", "product_count", "created_at"},
    quality_reports |-> {"report_id", "scope", "total_cases", "report_json", "created_at"},
    audit_log |-> {"log_id", "action", "entity_type", "details", "created_at"},
    users |-> {"user_id", "username", "hashed_password", "role", "is_active",
        "must_change_password", "created_at", "updated_at"},
    token_usage_log |-> {"id", "operation", "provider", "model", "prompt_tokens",
        "completion_tokens", "total_tokens", "created_at"}]

ModelOptional == [
    supplier_profiles |-> {"notes"},
    catalog_products |-> {"onec_ref", "code", "article", "full_name",
        "normalized_full_name", "brand", "normalized_brand", "manufacturer",
        "manufacturer_code", "category_id", "category_path", "unit", "packaging",
        "size_value", "size_unit", "weight_value", "weight_unit", "volume_value",
        "volume_unit", "search_tsv", "source_hash", "source_version"},
    catalog_embeddings |-> {},
    catalog_aliases |-> {"created_by"},
    supplier_mappings |-> {"supplier_sku", "supplier_article", "supplier_raw_text",
        "normalized_supplier_text", "confidence", "approved_by", "approved_at"},
    match_requests |-> {"supplier_id", "submitted_by", "file_name", "error_message",
        "started_at", "finished_at"},
    match_request_items |-> {"line_id", "normalized_text", "best_product_id", "confidence",
        "reviewed_by", "reviewed_at", "final_product_id", "final_decision",
        "original_row_json", "review_notes"},
    match_candidates |-> {"lexical_score", "semantic_score", "rerank_score", "rules_score",
        "final_score"},
    golden_labels |-> {"supplier_id", "product_id", "verified_by", "verified_at", "version"},
    normalization_synonyms |-> {"supplier_id", "category_id"},
    index_versions |-> {"created_by", "activated_at"},
    quality_reports |-> {"index_version_id", "scope_value", "top1_accuracy", "top3_recall",
        "precision_at_1", "auto_match_fp_rate", "review_acceptance_rate", "avg_latency_ms"},
    audit_log |-> {"entity_id", "user_id", "username", "ip_address"},
    users |-> {"full_name"},
    token_usage_log |-> {"request_id", "estimated_cost_usd"}]

CatalogReferences ==
    {OfProducts("catalog_embeddings", "cascade"), OfProducts("catalog_aliases", "cascade"),
     OfProducts("supplier_mappings", "cascade"), OfSuppliers("supplier_mappings", "cascade")}

RequestReferences ==
    {OfSuppliers("match_requests", "refuse"),
     Reference("match_request_items", "request_id", "match_requests", "cascade"),
     Reference("match_request_items", "best_product_id", "catalog_products", "refuse"),
     Reference("match_request_items", "final_product_id", "catalog_products", "refuse")}

OtherReferences ==
    {Reference("match_candidates", "request_item_id", "match_request_items", "cascade"),
     OfProducts("match_candidates", "cascade"),
     OfProducts("golden_labels", "refuse"), OfSuppliers("golden_labels", "refuse"),
     OfSuppliers("normalization_synonyms", "refuse"),
     Reference("quality_reports", "index_version_id", "index_versions", "refuse"),
     Reference("token_usage_log", "request_id", "match_requests", "null")}

ModelUniques == {Unique("catalog_products", {"onec_ref"}), Unique("users", {"username"})}

ModelChecks ==
    {Check("catalog_aliases", "alias_type", Aliases),
     Check("supplier_mappings", "mapping_type", Mappings),
     Check("match_requests", "status", {"pending", "queued", "running", "done", "failed"}),
     Check("match_request_items", "status", Verdicts),
     Check("match_request_items", "final_decision", Decisions),
     Check("golden_labels", "label_type", Labels)}

\* Of the audit log the models require two columns that the migrations leave nullable.
AuditRequired == {Attribute("audit_log", c, FALSE) : c \in {"details", "created_at"}}
AuditLeft == {Attribute("audit_log", c, TRUE) : c \in {"details", "created_at"}}

\* Whatever way of upgrades, downgrades and failures has led to a revision, its schema is
\* the one that its migrations build.  At the head it has the columns that the models
\* declare, by name and by NOT NULL, and their constraints, and no others, but for what is
\* named here: two columns of the audit log, which are nullable; the settings, which have
\* no model; the rule of the reference from a request to its supplier; three uniques and
\* the check of the roles, which no model declares.
SchemaIsDeclared ==
    /\ schema = Built[at]
    /\ at = Latest =>
        /\ schema.columns = (ColumnsOf(ModelRequired, ModelOptional) \ AuditRequired)
                                \cup AuditLeft \cup SettingColumns
        /\ schema.references \ {OfSuppliers("match_requests", "null")}
               = (CatalogReferences \cup RequestReferences \cup OtherReferences)
                     \ {OfSuppliers("match_requests", "refuse")}
        /\ schema.uniques \ ModelUniques
               = {Unique("catalog_products", {"source_hash"}),
                  Unique("supplier_mappings", {"supplier_id", "supplier_raw_text"}),
                  Unique("index_versions", {"is_active"})}
        /\ ModelUniques \subseteq schema.uniques
        /\ schema.checks \ ModelChecks = {Check("users", "role", AllRoles)}
        /\ ModelChecks \subseteq schema.checks

\* Two products that 0007 takes for one.
Twins(data, p, q) ==
    \E r, s \in {r \in data : r.table = "catalog_products"} :
        /\ r.id = p /\ s.id = q
        /\ Value(r, "source_hash") # Null /\ Value(r, "source_hash") = Value(s, "source_hash")

\* Of the products that p is taken for one with, two are of one age.
SameAge(data, p) ==
    \E r, s \in {r \in data : r.table = "catalog_products"} :
        /\ r # s /\ Twins(data, p, r.id) /\ Twins(data, p, s.id)
        /\ Value(r, "created_at") = Value(s, "created_at")

\* What one migration makes of a row: it stays, with the values that it had, but for a
\* product whose twin takes its place.
Stays(r, data, after) ==
    \E s \in after :
        /\ s.table = r.table /\ s.id = r.id
        /\ \A c \in DOMAIN r.has \cap DOMAIN s.has :
              \/ s.has[c] = r.has[c]
              \/ <<r.table, c>> \in {<<"match_request_items", "best_product_id">>,
                                    <<"match_candidates", "product_id">>}
                     /\ Twins(data, r.has[c], s.has[c])

\* A product goes if its twin stays, and takes its aliases, its embedding and its mappings
\* with it; a candidate goes only if twins of one age were told apart in two ways.
GoesWithTwin(r, data, after) ==
    LET gone(p) == \E s \in after : s.table = "catalog_products" /\ s.id # p
                                        /\ Twins(data, p, s.id)
    IN  \/ r.table = "catalog_products" /\ gone(r.id)
        \/ r.table \in {"catalog_aliases", "catalog_embeddings", "supplier_mappings"}
               /\ gone(r.has.product_id)
        \/ r.table = "match_candidates" /\ SameAge(data, r.has.product_id)

SaidIn(data) == UNION {r.has.value : r \in {r \in data : r.table = "system_settings"}}

Keys(data, p) == {k[3] : k \in {k \in SaidIn(data) : k[1] = p /\ k[2] = "key" /\ k[3] # ""}}

\* The settings that ede63bcb39f8 gives up for others.
Moves(r) == r.table = "system_settings" /\ r.id \in OldKeys \cup {"providers_registry"}

ValuesIn(data, table, column) ==
    {Value(r, column) : r \in {r \in data : r.table = table}} \ {Null}

\* A command fails at one of four migrations only, for what the application has written:
\* a text that a supplier has mapped twice, a duplicate that a reviewer has decided for (or
\* that an item names, its twin being of the same age), a role or a request of the new
\* release when the old one is to come back.
FailureHasCause ==
    failed # 0 =>
        \/ failed = 8 /\ \E r, s \in {r \in rows : r.table = "supplier_mappings"} :
               r # s /\ Value(r, "supplier_id") = Value(s, "supplier_id")
                     /\ Value(r, "supplier_raw_text") = Value(s, "supplier_raw_text")
                     /\ Value(r, "supplier_raw_text") # Null
        \/ failed = 9 /\ \E p, q \in {r \in rows : r.table = "catalog_products"} :
               /\ p # q /\ Twins(rows, p.id, q.id)
               /\ p.has.created_at >= q.has.created_at
               /\ \/ p.id \in ValuesIn(rows, "match_request_items", "final_product_id")
                               \cup ValuesIn(rows, "golden_labels", "product_id")
                  \/ SameAge(rows, p.id)
                         /\ p.id \in ValuesIn(rows, "match_request_items", "best_product_id")
        \/ failed = -10 /\ ValuesIn(rows, "users", "role") \ FirstRoles # {}
        \/ failed = -11 /\ "pending" \in ValuesIn(rows, "match_requests", "status")

\* No migration loses a row or a value of the tables and columns it leaves, the reviewers'
\* decisions and labels least of all, but in the ways named here: a duplicate goes for the
\* product that stays in its place, and the settings of the providers for the registry or
\* back.  On that way the keys of the four old providers survive, unless the registry
\* cannot be read on the way down; the addresses of the providers do not, nor, on the way
\* down, the keys of the others.  If a migration cannot keep to this, the command fails,
\* and for no other cause.
RowsKept ==
    [][(MigrateUp \/ MigrateDown) =>
        IF failed' # 0 THEN FailureHasCause'
        ELSE /\ \A r \in rows : HasTable(schema', r.table) =>
                    \/ Stays(r, rows, rows')
                    \/ at = 8 /\ at' = 9 /\ GoesWithTwin(r, rows, rows')
                    \/ {at, at'} = {5, 6} /\ Moves(r)
             /\ HasTable(schema', "system_settings") =>
                    \/ \A p \in OldProviders : Keys(rows', p) = Keys(rows, p)
                    \/ at' = 5 /\ Unreadable(SaidIn(rows))]_migrationVars
=============================================================================
