---------------------------- MODULE MCMigrations ----------------------------
(***************************************************************************)
(* The rows that an application may leave: two products that may be twins  *)
(* with what names them, mappings of one supplier, users, requests and     *)
(* settings.                                                               *)
(***************************************************************************)
EXTENDS Migrations

MCRow(table, id, has) == [table |-> table, id |-> id, has |-> has]

MCProduct(id, hash, age) ==
    MCRow("catalog_products", id, [source_hash |-> hash, created_at |-> age])

Couples ==
    {{MCProduct("p", "h", 1), MCProduct("q", "h", 1)},
     {MCProduct("p", "h", 1), MCProduct("q", "h", 2)},
     {MCProduct("p", "h", 1), MCProduct("q", Null, 1)},
     {MCProduct("p", "g", 2), MCProduct("q", "h", 1)}}

Supplier == MCRow("supplier_profiles", "s", [x \in {} |-> x])

MCRequest(status, supplier, job) ==
    MCRow("match_requests", "r", [status |-> status, supplier_id |-> supplier, job_name |-> job])

MCItem(best, final) ==
    MCRow("match_request_items", "i",
          [request_id |-> "r", best_product_id |-> best, final_product_id |-> final])

MCCandidate(p) ==
    MCRow("match_candidates", "c", [request_item_id |-> "i", product_id |-> p])

MCMapping(id, text, p) ==
    MCRow("supplier_mappings", id,
          [supplier_id |-> "s", supplier_raw_text |-> text, product_id |-> p])

Done == MCRequest("done", Null, "batch_match")

Matched ==
    {c \cup {Done, MCItem(best, final)} :
        c \in Couples, best \in {"p", "q"}, final \in {Null, "p", "q"}}
    \cup {c \cup {Done, MCItem(Null, Null), MCCandidate(p)} : c \in Couples, p \in {"p", "q"}}

\* Two twins of one age, and a younger one that a row names.
Trio == {MCProduct("p", "h", 2), MCProduct("q", "h", 1), MCProduct("o", "h", 1)}

Younger ==
    {Trio \cup {Done, MCItem("p", Null)},
     Trio \cup {Done, MCItem(Null, Null), MCCandidate("p")}}

Mentioned ==
    {c \cup {MCRow(table, "n", [product_id |-> p])} :
        c \in Couples, p \in {"p", "q"}, table \in {"golden_labels", "catalog_aliases"}}

Mapped ==
    {{MCProduct("p", "h", 1), MCProduct("q", "h", 2), Supplier,
      MCMapping("m", "a", p), MCMapping("n", text, "p")} :
        p \in {"p", "q"}, text \in {"a", "b", Null}}

Requested ==
    {{Supplier, MCRequest(status, supplier, job)} :
        status \in {"pending", "done"}, supplier \in {"s", Null},
        job \in {"batch_match", "smart_upload"}}

Staffed == {{MCRow("users", "u", [role |-> role])} : role \in {"admin", "viewer", "reviewer"}}

\* A registry with a provider of old, one without a key, and one that had no setting; it
\* may be cut short.
MCRegistry(a, b, cut) ==
    {<<"local", "key", "none">>, <<"openai", "key", a>>, <<"openai", "url", "u">>,
     <<"cohere", "key", b>>, <<"google", "url", "">>, <<"yandex", "key", "m">>}
        \cup (IF cut THEN {<<"gigachat", "broken", "">>} ELSE {})

Configured ==
    {{Setting("openai_api_key", {<<"openai", "key", a>>}),
      Setting("openai_base_url", {<<"openai", "url", "u">>}),
      Setting("cohere_api_key", {<<"cohere", "key", b>>}),
      Setting("llm_provider", {<<"openai", "llm", "">>}),
      Setting("providers_registry", MCRegistry(a, b, cut))} :
        a \in {"", "k"}, b \in {"", "l"}, cut \in BOOLEAN}

MCContents == Matched \cup Younger \cup Mentioned \cup Mapped \cup Requested \cup Staffed \cup Configured
=============================================================================
