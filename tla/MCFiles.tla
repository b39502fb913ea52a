------------------------------ MODULE MCFiles -------------------------------
(***************************************************************************)
(* The workbooks that TLC reads: drawn from one table, from two side by    *)
(* side, on one sheet or two.                                              *)
(***************************************************************************)
EXTENDS FileAnalysis

MCCell(text, words, length) ==
    [text |-> text, words |-> words, length |-> length, number |-> Blank,
     field |-> Blank]

NameHead == [MCCell("name", {"name"}, 12) EXCEPT !.field = "name"]
ClientHead == MCCell("client", {"name", "supplier"}, 15)
OurHead == MCCell("our", {"name", "catalog"}, 15)
CodeHead == MCCell("code", {"name", "article"}, 10)      \* the code of a "product"
UnitHead == [MCCell("unit", {"unit"}, 7) EXCEPT !.field = "unit"]
PriceHead == MCCell("price", {"price"}, 4)
RemarkHead == MCCell("remark", {}, 8)
LongHead == MCCell("long", {"name"}, 50)

Bolt == MCCell("bolt", {}, 20)
Nut == MCCell("nut", {}, 6)
Apron == MCCell("apron", {"article"}, 6)                 \* its letters hold a keyword
Total == MCCell("total", {"total"}, 5)
Dash == MCCell("dash", {}, 1)
Piece == MCCell("piece", {}, 2)
Cost == [MCCell("cost", {}, 3) EXCEPT !.number = 100]
Note == MCCell("note", {}, 9)
Theirs == MCCell("theirs", {"supplier"}, 18)
Ours == MCCell("ours", {"catalog"}, 11)

\* A block: rows over a table of these heads, and its rows; the role it stands for.
TableOf(titles, heads, rows, role) ==
    [titles |-> titles, heads |-> heads, rows |-> rows, role |-> role,
     lines |-> titles \o <<heads>> \o rows]

Under(head, name) ==
    CASE head = UnitHead -> IF name = Blank THEN Blank ELSE Piece
      [] head = PriceHead -> IF name = Blank THEN Blank ELSE Cost
      [] head = RemarkHead -> IF name = Blank THEN Blank ELSE Bolt
      [] head = CodeHead -> IF name = Blank THEN Blank ELSE Dash
      [] OTHER -> name

RowsOf(heads, names) ==
    [r \in DOMAIN names |-> [c \in DOMAIN heads |-> Under(heads[c], names[r])]]

NoTitle == <<>>
TitleOver(heads, cell, merged) ==
    <<[c \in 1 .. (IF merged THEN Len(heads) ELSE 1) |-> cell]>>

\* Blocks side by side with a column between them; a note may stand in it.
Draw(blocks, note) ==
    LET height == Max({Len(blocks[k].lines) : k \in DOMAIN blocks})
        start(k) == 1 + FoldLeft(LAMBDA a, b : a + Len(b.heads) + 1, 0, SubSeq(blocks, 1, k - 1))
        cell(k, r, c) == IF r <= Len(blocks[k].lines) /\ c <= Len(blocks[k].lines[r])
                         THEN blocks[k].lines[r][c] ELSE Blank
        row(r) == FlattenSeq([k \in DOMAIN blocks |->
                      (IF k = 1 THEN <<>> ELSE <<IF r = height THEN note ELSE Blank>>)
                      \o [c \in DOMAIN blocks[k].heads |-> cell(k, r, c)]])
        column(k, S) == LET cs == {c \in DOMAIN blocks[k].heads : blocks[k].heads[c] \in S}
                        IN  IF cs = {} THEN 0 ELSE start(k) - 1 + Min(cs)
    IN  [sheets |-> <<[r \in 1 .. height |-> row(r)]>>,
         tables |-> [k \in DOMAIN blocks |->
             [left |-> start(k), right |-> start(k) + Len(blocks[k].heads) - 1,
              header |-> Len(blocks[k].titles) + 1,
              name |-> column(k, {NameHead, ClientHead, OurHead, LongHead}),
              unit |-> column(k, {UnitHead}), price |-> column(k, {PriceHead}),
              role |-> blocks[k].role]]]

Names == {Bolt, Nut, Apron, Total, Dash, Blank}

OneBlock ==
    {TableOf(titles, heads, RowsOf(heads, names), "supplier") :
        heads \in {<<NameHead>>, <<ClientHead, UnitHead>>, <<LongHead>>,
                   <<CodeHead, NameHead>>, <<RemarkHead, NameHead>>,
                  <<PriceHead, NameHead, UnitHead>>},
        titles \in {NoTitle}, names \in [1 .. 2 -> Names]}

TitledBlocks ==
    {TableOf(TitleOver(heads, cell, merged), heads, RowsOf(heads, <<Bolt, name, Nut>>),
           IF cell = Ours THEN "catalog" ELSE "supplier") :
        heads \in {<<NameHead>>, <<UnitHead, NameHead>>},
        cell \in {Theirs, Ours, Note}, merged \in BOOLEAN, name \in {Nut, Apron, Bolt}}

\* Titles that lie about the table, are too far away, or too many.
AstrayBlocks ==
    {TableOf(titles \o fill, heads, RowsOf(heads, <<Bolt, Nut>>), role) :
        heads \in {<<NameHead>>, <<NameHead, UnitHead>>}, role \in {"supplier", "catalog"},
        titles \in {<<<<>>>>} \cup {<<<<cell>>>> : cell \in {Theirs, Ours}},
        fill \in {[k \in 1 .. n |-> <<Note>>] : n \in {0, 2, 3, 4}}}

CatalogBlocks ==
    {TableOf(NoTitle, heads, RowsOf(heads, <<name, Bolt>>), "catalog") :
        heads \in {<<OurHead>>, <<OurHead, UnitHead>>}, name \in {Nut, Blank}}

Tall(block, n) ==
    TableOf(block.titles, block.heads,
            [k \in 1 .. n |-> block.rows[1 + (k % Len(block.rows))]], block.role)

\* The list is the second sheet; the first is a cover, or another list.
OnSecondSheet(drawn, cover) == [drawn EXCEPT !.sheets = <<cover>> \o @]

EmptyFile == Draw(<<TableOf(NoTitle, <<NameHead>>, <<>>, "supplier")>>, Blank)

MCFiles ==
    LET one == {Draw(<<b>>, Blank) : b \in OneBlock \cup TitledBlocks \cup AstrayBlocks}
        two == {Draw(<<a, b>>, note) :
                    a \in {b \in TitledBlocks : b.role = "supplier"},
                    b \in CatalogBlocks \cup {b \in TitledBlocks : b.role = "catalog"},
                    note \in {Blank}}
        tall == {Draw(<<a, Tall(b, n)>>, note) :
                    a \in {b \in TitledBlocks : b.role = "supplier" /\ b.rows[2] = b.rows[3]},
                    b \in {b \in CatalogBlocks : Len(b.heads) = 2}, n \in {9, 30},
                    note \in {Blank, Note}}
        shifted == {OnSecondSheet(Draw(<<b>>, Blank), cover) :
                    b \in TitledBlocks, cover \in {<<<<Note>>>>, [r \in 1 .. 6 |-> <<Note, Nut>>]}}
    IN  one \cup two \cup tall \cup shifted
=============================================================================
