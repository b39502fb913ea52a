---------------------------- MODULE FileAnalysis ----------------------------
(***************************************************************************)
(* Reading an uploaded workbook (ingestion/parser.py): which sheet, which  *)
(* tables lie side by side on it, where each has its header and its names, *)
(* and the lists of items that come out.  The model is asked first, the    *)
(* heuristics after it, the reading as a single table last.  An import of  *)
(* the catalog reads its file by the names of the columns instead          *)
(* (ingestion/file_adapter.py).                                            *)
(*                                                                         *)
(* A sheet is a sequence of rows of cells, rows and columns count from 1.  *)
(* A cell is what the code can tell of its text: which text it is, the     *)
(* keywords it holds, its length, the number it is, if it is one, and the  *)
(* field of a product that it is the name of, if it is one.                *)
(***************************************************************************)
EXTENDS Integers, SequencesExt, Ranks

CONSTANTS
    Files,        \* workbooks: [sheets |-> the sheets, tables |-> the tables drawn on the
                  \* last one, each [left, right, header, name, role]]
    Blank,        \* an empty cell, no unit, no number
    HeaderRows,   \* the rows that may be a header, 20 in the code
    SampleRows    \* the rows that tell a column's kind, 20 in the code

\* What stands in the cells of all files.
Cells == UNION {UNION {UNION {Range(row) : row \in Range(sheet)} : sheet \in Range(f.sheets)} :
                    f \in Files}

\* What the model or the rules say of a table, and one that is there.
TableSpec == [left : Nat, right : Nat, header : Nat, name : Nat, unit : Nat, price : Nat,
              role : {"supplier", "catalog", "metadata"}]

IsTable(sheet, t) ==
    /\ t.left \in 1 .. t.right /\ t.right \in 1 .. Len(sheet[1])
    /\ t.name \in t.left .. t.right
    /\ t.header \in DOMAIN sheet
    /\ t.role \in {"supplier", "catalog"}

\* A cell is known by its text, a sheet is a rectangle, and the tables drawn on the last
\* one go from left to right, with a column between them.
ASSUME FilesAssumption ==
    /\ HeaderRows \in Nat /\ Blank \notin TableSpec
    /\ \A cell \in Cells \ {Blank} : cell.length \in Nat
    /\ \A a, b \in Cells \ {Blank} : a.text = b.text => a = b
    /\ \A f \in Files :
          /\ f.sheets \in Seq(Seq(Seq(Cells))) /\ f.sheets # <<>>
          /\ \A sheet \in Range(f.sheets) :
                sheet # <<>> /\ \A row \in Range(sheet) : Len(row) = Len(sheet[1])
          /\ f.tables \in Seq(TableSpec)
          /\ \A t \in Range(f.tables) : IsTable(f.sheets[Len(f.sheets)], t)
          /\ \A j, k \in DOMAIN f.tables : j < k => f.tables[j].right + 1 < f.tables[k].left

VARIABLES
    file,
    available,    \* whether a model is configured
    picker,       \* use_ai_column_picker
    reading,
    answer,       \* the tables that the model has named
    lists,        \* supplier_items and catalog_items
    by            \* history: what has filled the lists

fileVars == <<file, available, picker, reading, answer, lists, by>>

NoItems == [supplier |-> <<>>, catalog |-> <<>>]

FileTypeOK ==
    /\ available \in BOOLEAN /\ picker \in BOOLEAN
    /\ reading \in {"import", "upload", "smart", "heuristic", "single", "done", "failed"}
    /\ DOMAIN lists = {"supplier", "catalog"}
    /\ by \in {"nothing", "model", "heuristic", "single", "adapter"}

FileInit ==
    /\ file \in Files /\ available \in BOOLEAN /\ picker \in BOOLEAN
    /\ reading \in {"import", "upload", "smart"} /\ (picker => reading = "upload")
    /\ answer = <<>> /\ lists = NoItems /\ by = "nothing"

-----------------------------------------------------------------------------
Columns(sheet) == 1 .. Len(sheet[1])

Filled(sheet, cells) == {rc \in cells : sheet[rc[1]][rc[2]] # Blank}

Sum(sheet, cells) == MapThenSumSet(LAMBDA rc : sheet[rc[1]][rc[2]].length, cells)

\* The keywords of a header, in the order in which they decide.
HeaderKinds == <<"name", "unit", "price", "article">>
HeaderWords == Range(HeaderKinds)

First(S) == IF S = {} THEN 0 ELSE Min(S)

\* The first one with the greatest quotient, score by of.
Above(p, q) == p.score * q.of > q.score * p.of

Highest(scores) ==
    CHOOSE r \in DOMAIN scores : \A q \in DOMAIN scores \ {r} :
        \/ Above(scores[r], scores[q])
        \/ r < q /\ ~Above(scores[q], scores[r])

\* _get_best_sheet: the first of those with the greatest number of filled cells, times rows.
BestSheet ==
    LET weight(s) == Len(s) * Cardinality(Filled(s, (DOMAIN s) \X Columns(s)))
    IN  file.sheets[Highest([k \in DOMAIN file.sheets |->
                                 [score |-> weight(file.sheets[k]), of |-> 1]])]

\* Plausible bug: one filled cell makes a column part of a table.
IsGapEmpty(sheet, c) == Filled(sheet, (DOMAIN sheet) \X {c}) = {}

\* A column is a gap if 85% of its cells are empty.
IsGap(sheet, c) ==
    20 * (Len(sheet) - Cardinality(Filled(sheet, (DOMAIN sheet) \X {c}))) >= 17 * Len(sheet)

ColumnGroups(sheet) ==
    LET gaps == {c \in Columns(sheet) : IsGap(sheet, c)}
        gap(c) == c \notin Columns(sheet) \ gaps
    IN  {g \in Columns(sheet) \X Columns(sheet) :
            /\ g[1] <= g[2] /\ \A c \in g[1] .. g[2] : ~gap(c)
            /\ gap(g[1] - 1) /\ gap(g[2] + 1)}

\* The score of a row, times 30 times its number of filled cells: keywords in short cells,
\* filled cells, different texts, and short texts.  A cell of 30 to 40 letters whose keyword
\* is three tenths of it would count too; the files have none.
RowScore(sheet, r, cells) ==
    LET n == Cardinality(cells)
        hits == {rc \in cells : LET cell == sheet[r][rc[2]] IN
                    cell.words \cap HeaderWords # {} /\ cell.length < 30}
        texts == {sheet[r][rc[2]].text : rc \in cells}
    IN  [of |-> n,
         score |-> 150 * Cardinality(hits) * n + 45 * n * n + 90 * Cardinality(texts)
                       + Max({0, 240 * n - 8 * Sum(sheet, cells)})]

\* Empty rows do not count, nor titles: rows of several cells that are all alike.
IsTitle(sheet, cells) ==
    Cardinality(cells) > 1 /\ Cardinality({sheet[rc[1]][rc[2]].text : rc \in cells}) = 1

HeaderRow(sheet, cols) ==
    LET cells(r) == Filled(sheet, {r} \X cols)
        rows == {r \in DOMAIN sheet : r <= HeaderRows /\ cells(r) # {} /\ ~IsTitle(sheet, cells(r))}
    IN  IF rows = {} THEN 1
        ELSE Highest([r \in rows |-> RowScore(sheet, r, cells(r))])

\* What the first of these cells of a column look like.
KindOf(sheet, cells) ==
    LET n == Cardinality(cells)
        cell(rc) == sheet[rc[1]][rc[2]]
        numbers == {rc \in cells : cell(rc).number # Blank}
        length == Sum(sheet, cells)
    IN  IF 5 * Cardinality(numbers) > 4 * n
        THEN IF MapThenSumSet(LAMBDA rc : cell(rc).number, numbers) > 10 * n
             THEN "price" ELSE "number"
        ELSE CASE length > 15 * n -> "name"
               [] length < 5 * n  -> IF \A rc \in cells : cell(rc).length < 8
                                     THEN "unit" ELSE "article"
               [] OTHER -> "other"

\* What the header says of a column, or else what the cells under it look like.
ColumnKind(sheet, c, header) ==
    LET head == IF sheet[header][c] = Blank THEN {} ELSE sheet[header][c].words
        under == {r \in DOMAIN sheet : r \in header + 1 .. header + SampleRows}
    IN  IF head \cap HeaderWords # {}
        THEN HeaderKinds[Min({k \in 1 .. 4 : HeaderKinds[k] \in head})]
        ELSE KindOf(sheet, Filled(sheet, under \X {c}))

\* Without a name column, the first with the longest texts; all empty, the first.
LongestColumn(sheet, cols, header) ==
    LET cells(c) == Filled(sheet, (header + 1 .. Len(sheet)) \X {c})
        some == {c \in cols : cells(c) # {}}
    IN  IF some = {} THEN Min(cols)
        ELSE Highest([c \in some |-> [score |-> Sum(sheet, cells(c)),
                                      of |-> Cardinality(cells(c))]])

\* The header and three rows above it say whose table it is, or it is a supplier's.
TableRole(sheet, cols, header) ==
    LET cells == Filled(sheet, {r \in DOMAIN sheet : r \in header - 3 .. header} \X cols)
        said == UNION {sheet[rc[1]][rc[2]].words : rc \in cells}
    IN  IF "catalog" \in said /\ "supplier" \notin said THEN "catalog" ELSE "supplier"

IsName(cell) == cell # Blank /\ cell.length > 1 /\ "total" \notin cell.words

\* _extract_region_items: the names under the header of a table, each text once.  A header
\* in row 0 is the last row for Python, with nothing under it.
RegionItems(sheet, t) ==
    LET under == IF t.header = 0 THEN {} ELSE t.header + 1 .. Len(sheet)
        within(c) == c \in Columns(sheet) /\ c \in t.left .. t.right
        names == IF within(t.name) THEN {r \in under : IsName(sheet[r][t.name])} ELSE {}
        first == {r \in names : \A q \in names :
                     sheet[q][t.name].text = sheet[r][t.name].text => r <= q}
        value(r, c) == IF within(c) THEN sheet[r][c] ELSE Blank
        item(r) == [text |-> sheet[r][t.name].text,
                    unit |-> value(r, t.unit), price |-> value(r, t.price)]
        rows == InOrder(first)
    IN  [k \in DOMAIN rows |-> item(rows[k])]

\* The tables' items, each to the list of its role; a table that is no table is skipped,
\* and so is "metadata".
ItemsOf(sheet, tables) ==
    [role \in {"supplier", "catalog"} |->
        LET items(t) == IF t # Blank /\ t.role = role THEN RegionItems(sheet, t) ELSE <<>>
            upTo[k \in 0 .. Len(tables)] ==
                IF k = 0 THEN <<>> ELSE upTo[k - 1] \o items(tables[k])
        IN  upTo[Len(tables)]]

\* A table of these columns: the first of each kind, and its names.
TableWith(sheet, cols, header) ==
    LET first(kind) == First({c \in cols : ColumnKind(sheet, c, header) = kind})
        name == first("name")
    IN  [left |-> Min(cols), right |-> Max(cols), header |-> header,
         name |-> IF name # 0 THEN name ELSE LongestColumn(sheet, cols, header),
         unit |-> first("unit"), price |-> first("price"),
         role |-> TableRole(sheet, cols, header)]

\* The tables that the heuristics see, from left to right.
TablesSeen(sheet) ==
    LET groups == ColumnGroups(sheet)
        lefts == InOrder({g[1] : g \in groups})
        group(k) == CHOOSE g \in groups : g[1] = lefts[k]
        cols(k) == group(k)[1] .. group(k)[2]
    IN  [k \in DOMAIN lefts |-> TableWith(sheet, cols(k), HeaderRow(sheet, cols(k)))]

\* The sheet that is read as one table: the first one, under the header of the best one,
\* or the best one itself if the first has no such row.
SingleReading(best, header) ==
    LET again == header <= Len(file.sheets[1])
    IN  [sheet |-> IF again THEN file.sheets[1] ELSE best, header |-> header, again |-> again]

SingleTable == SingleReading(BestSheet, HeaderRow(BestSheet, Columns(BestSheet)))

\* A column without a header that is read again is called "Unnamed".
SingleHead(one, c) ==
    LET cell == one.sheet[one.header][c]
    IN  IF cell # Blank THEN cell.words ELSE IF one.again THEN {"name"} ELSE {}

\* Without a choice of the model: the first column of the client's names, of names, or the
\* one with most text, if that is more than 1.5 letters a cell.
NamesColumn(one) ==
    LET cols == Columns(one.sheet)
        cells(c) == Filled(one.sheet, (one.header + 1 .. Len(one.sheet)) \X {c})
        text(c) == Sum(one.sheet, {rc \in cells(c) : one.sheet[rc[1]][c].number = Blank})
        clients == {c \in cols : {"name", "supplier"} \subseteq SingleHead(one, c)}
        named == {c \in cols : "name" \in SingleHead(one, c)}
        dense == {c \in cols : 2 * text(c) > 3 * Cardinality(cells(c))}
    IN  CASE clients # {} -> Min(clients)
          [] clients = {} /\ named # {} -> Min(named)
          [] clients = {} /\ named = {} /\ dense # {} ->
                 Highest([c \in dense |-> [score |-> text(c), of |-> Cardinality(cells(c))]])
          [] OTHER -> 1

SingleItems(one, column) ==
    RegionItems(one.sheet, [left |-> column, right |-> column, header |-> one.header,
                            name |-> column, unit |-> 0, price |-> 0])

\* _row_to_item: the cells of a row by the fields that the first row gives their columns,
\* the last of those that are filled; without a name it is no item.
FieldColumns(sheet, field) ==
    {c \in Columns(sheet) : sheet[1][c] # Blank /\ sheet[1][c].field = field}

AdapterItems(sheet) ==
    LET filled(r, field) == {c \in FieldColumns(sheet, field) : sheet[r][c] # Blank}
        value(r, field) == IF filled(r, field) = {} THEN Blank ELSE sheet[r][Max(filled(r, field))]
        rows == InOrder({r \in 2 .. Len(sheet) : filled(r, "name") # {}})
    IN  [k \in DOMAIN rows |-> [text |-> value(rows[k], "name").text,
                                unit |-> value(rows[k], "unit"), price |-> Blank]]

-----------------------------------------------------------------------------
\* parse_file, in the import of a catalog: the sheet that was active when the file was
\* saved, if a column of it has the name of a field.
ParseCatalogFile ==
    /\ reading = "import"
    /\ \E sheet \in Range(file.sheets) :
        IF FieldColumns(sheet, "name") \cup FieldColumns(sheet, "unit") = {}
        THEN reading' = "failed" /\ UNCHANGED <<lists, by>>
        ELSE /\ reading' = "done" /\ by' = "adapter"
             /\ lists' = [supplier |-> <<>>, catalog |-> AdapterItems(sheet)]
    /\ UNCHANGED <<file, available, picker, answer>>

\* parse_excel_upload, for /match/upload and as the last resort: a model that is asked
\* may pick any column, or none.
ParseAsOneTable(model) ==
    /\ IF model /\ ~available
       THEN reading' = "failed" /\ UNCHANGED <<lists, by>>
       ELSE /\ \E one \in {SingleTable} :
                \E column \in {NamesColumn(one)} \cup (IF model THEN Columns(one.sheet) ELSE {}) :
                    lists' = [supplier |-> SingleItems(one, column), catalog |-> <<>>]
            /\ reading' = "done" /\ by' = "single"
    /\ UNCHANGED <<file, available, picker, answer>>

ParseUpload == reading = "upload" /\ ParseAsOneTable(picker)

LastResort == reading = "single" /\ ParseAsOneTable(available)

\* The tables that a model may name: those that are there, with a header in the wrong row,
\* as metadata, or in a form that raises; or one that stands beside every table.
Answers ==
    LET drawn == Range(file.tables)
        named == drawn \cup {Blank} \cup {[t EXCEPT !.header = 0] : t \in drawn}
                       \cup {[t EXCEPT !.role = "metadata"] : t \in drawn}
    IN  {file.tables} \cup {<<t>> : t \in named} \cup {<<Blank>> \o file.tables}

AskModel ==
    /\ reading = "smart" /\ available
    /\ \E tables \in Answers :
        /\ answer' = tables
        /\ lists' = ItemsOf(BestSheet, tables)
    /\ IF lists' # NoItems THEN reading' = "done" /\ by' = "model"
       ELSE reading' = "heuristic" /\ UNCHANGED by
    /\ UNCHANGED <<file, available, picker>>

\* No model, no answer, or no JSON.
NoModel ==
    /\ reading = "smart"
    /\ reading' = "heuristic"
    /\ UNCHANGED <<file, available, picker, answer, lists, by>>

AnalyzeHeuristic ==
    /\ reading = "heuristic"
    /\ lists' = ItemsOf(BestSheet, TablesSeen(BestSheet))
    /\ IF lists' # NoItems THEN reading' = "done" /\ by' = "heuristic"
       ELSE reading' = "single" /\ UNCHANGED by
    /\ UNCHANGED <<file, available, picker, answer>>

FileNext == ParseCatalogFile \/ ParseUpload \/ LastResort \/ AskModel \/ NoModel \/ AnalyzeHeuristic

FileSpec == FileInit /\ [][FileNext]_fileVars

-----------------------------------------------------------------------------
\* What a file needs to be read without a model.  The tables stand side by side on the best
\* sheet; every column of theirs is filled in more than 15% of the sheet's rows, and no other
\* column is.  A header is among the first rows and full, each cell of it short and with a
\* keyword, and one of them speaks of names; no other cell holds a keyword of a header.  The
\* header and three rows above it do not speak of the other side.
Drawn == file.sheets[Len(file.sheets)]

Readable ==
    /\ BestSheet = Drawn
    /\ \A c \in Columns(Drawn) :
        20 * Cardinality(Filled(Drawn, (DOMAIN Drawn) \X {c})) > 3 * Len(Drawn)
            <=> \E t \in Range(file.tables) : c \in t.left .. t.right
    /\ \A t \in Range(file.tables) :
        LET cols == t.left .. t.right
            head(c) == Drawn[t.header][c]
            said == UNION {Drawn[rc[1]][rc[2]].words :
                        rc \in Filled(Drawn, {r \in DOMAIN Drawn : r \in t.header - 3 .. t.header} \X cols)}
        IN  /\ t.header <= HeaderRows
            /\ \A c \in cols :
                /\ head(c) # Blank
                /\ head(c).length <= 15 /\ head(c).words \cap HeaderWords # {}
                /\ "name" \in head(c).words <=> c = t.name
                /\ \A rc \in Filled(Drawn, (DOMAIN Drawn \ {t.header}) \X {c}) :
                       Drawn[rc[1]][c].words \cap HeaderWords = {}
            /\ said \cap {"supplier", "catalog"} \subseteq {t.role}
            /\ t.role = "catalog" => "catalog" \in said

\* The names that stand in a table, and how many tables of a role have this one.
NamesIn(t) ==
    {Drawn[r][t.name].text : r \in {r \in t.header + 1 .. Len(Drawn) : IsName(Drawn[r][t.name])}}

Standing(role, text) ==
    Cardinality({k \in DOMAIN file.tables :
                     file.tables[k].role = role /\ text \in NamesIn(file.tables[k])})

Listed(role, text) == Cardinality({n \in DOMAIN lists[role] : lists[role][n].text = text})

\* Every name of every table is an item exactly once, on the side the table stands for,
\* and nothing else is: of a file that is readable by rules, whoever reads it, and of any
\* file, by a model that names its tables, in spite of others that cannot be read.  The
\* import of a catalog takes every row with a name, whatever it says.
TablesAreRead ==
    /\ reading = "done" /\ \/ by = "heuristic" /\ Readable
                           \/ by = "model" /\ BestSheet = Drawn
                                  /\ answer \in {file.tables, <<Blank>> \o file.tables}
                           \/ by = "single" /\ ~picker /\ ~available
                                  /\ Len(file.sheets) = 1 /\ Len(file.tables) = 1
                                  /\ file.tables[1].left = 1
                                  /\ file.tables[1].right = Len(Drawn[1])
                                  /\ file.tables[1].role = "supplier" /\ Readable
       => \A role \in {"supplier", "catalog"} :
              \A text \in {lists[role][n].text : n \in DOMAIN lists[role]}
                           \cup UNION {NamesIn(t) : t \in Range(file.tables)} :
                  Listed(role, text) = Standing(role, text)
    /\ by = "adapter" /\ Len(file.sheets) = 1 /\ Cardinality(FieldColumns(Drawn, "name")) = 1
       => Len(lists.catalog)
            = Cardinality(Filled(Drawn, (2 .. Len(Drawn)) \X FieldColumns(Drawn, "name")))
=============================================================================
