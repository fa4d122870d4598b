----------------------------- MODULE TransferProofs -----------------------------
(* Theorems about the export and import of tables, for any errands, contents of the
   database and interference. *)
EXTENDS Transfer, SequenceTheorems, FiniteSetTheorems, TLAPS

-----------------------------------------------------------------------------
(* The inductive invariant: types, the rows handed to the import, what was counted. *)

Exporting == step \in {"asked", "tables", "columns", "pages", "rows", "last_rows", "exported"}

(* How many rows were handed to the import, and how many of them it has tried. *)
Handed == IF rowsAt > Len(parsed) THEN Len(parsed) ELSE rowsAt
Tried == Handed - Len(batch)

BatchInv ==
  /\ imported <= Tried
  /\ \A i \in 1 .. Len(batch) : batch[i] = parsed[Tried + i]

(* How many rows the table had when the first row was imported. *)
Base == IF errand.truncate THEN 0 ELSE Len(oldStock[errand.subject])

CountInv ==
  /\ errand.subject \in DOMAIN oldStock
  /\ Exporting \/ step = "truncating" =>
       imported = 0 /\ rowsAt = 0 /\ batch = <<>> /\ ~errors /\ ~aborted
  /\ step \in {"batches", "committed"} /\ ~errors /\ ~(aborted /\ step = "committed") =>
       imported = Len(stock[errand.subject]) - Base
  /\ step = "rolled_back" \/ (step = "committed" /\ aborted) => stock = oldStock
  /\ step = "committed" => ~errors
  /\ step = "truncating" => errand.truncate

(* A table of which something is read exists, and the writer knows its columns. *)
TableInv ==
  /\ step \in {"columns", "pages", "rows", "last_rows"} =>
       tablesLeft # <<>> /\ Head(tablesLeft) \in DOMAIN stock
  /\ step \in {"pages", "rows", "last_rows"} => Head(tablesLeft) \in DOMAIN output.selected

TypeInv == TransferTypeOK /\ BatchInv /\ CountInv /\ TableInv

-----------------------------------------------------------------------------
(* The round trip: an errand e whose file fits its import, and the rows of the table.
   While nobody writes they are the rows of the beginning. *)

Rows == oldStock[errand.subject]
Fits(e, rows) ==
  /\ e.tables = <<e.subject>>
  /\ e.format \in {"json", "csv", "xlsx"} /\ ~(e.format = "xlsx" /\ e.subject \in LongNames)
  /\ e.format = "json" => \A i \in DOMAIN rows : rows[i]["value"] # NotANumber
  /\ e.format # "json" =>
       e.includeHeaders /\ rows # <<>> /\ {"id", "reference_id"} \subseteq Range(Cols(e))
  /\ e.format = "csv" =>
       (\A i \in DOMAIN rows : rows[i]["value"] # TitleLike) \/ Cols(e)[1] # "value"

(* The file with the first k rows; a JSON file that is complete has one token more. *)
Text(e, v) == IF e.format # "json" /\ v = NoValue THEN EmptyText ELSE v
Line(e, row) == Record("row", Cols(e), [c \in Range(Cols(e)) |-> Text(e, row[c])])
Lines(e, rows, file, n, k) == Len(file) = n + k /\ \A j \in 1 .. k : file[n + j] = Line(e, rows[j])
JSONLines(e, rows, file, k, more) ==
  /\ Len(file) = (IF k = 0 THEN 2 ELSE 2 * k + 1) + more
  /\ file[1] = Mark("object") /\ file[2] = Token("array", e.subject)
  /\ \A j \in 1 .. k : file[2 * j + 1] = Line(e, rows[j])
  /\ \A j \in 1 .. k - 1 : file[2 * j + 2] = Mark("comma")
Written(e, rows, file, k, more) ==
  /\ e.format = "json" => JSONLines(e, rows, file, k, more)
  /\ e.format = "csv" => Lines(e, rows, file, 1, k) /\ file[1] = Headers(Cols(e))
  /\ e.format = "xlsx" =>
       Lines(e, rows, file, 2, k) /\ file[1] = Token("sheet", e.subject) /\ file[2] = Headers(Cols(e))

(* What the writer is when nothing was opened, when the columns are not known yet,
   and when k rows were written. *)
Knows(e, w) ==
  e.format # "json" => e.subject \in DOMAIN w.selected /\ w.selected[e.subject] = Cols(e)
WriterAt(e, rows, w, k) == Written(e, rows, w.file, k, 0) /\ (w.isFirstRow <=> k = 0) /\ Knows(e, w)
Unopened(e, w) == w = Initialize(e.format, Selection(e), e.includeHeaders)
Opened(e, w) == w = WriteTableOf(Initialize(e.format, Selection(e), e.includeHeaders), e.subject)
PageAt(rows, p, k) == \A i \in 1 .. Len(p) : p[i] = rows[k + i]

StartInv == meddling = 0 => oldStock \in Stocks /\ (Exporting => stock = oldStock)

ExportInv ==
  /\ step = "asked" => Unopened(errand, output)
  /\ step = "tables" /\ tablesLeft # <<>> => Unopened(errand, output)
  /\ step = "tables" /\ tablesLeft = <<>> => WriterAt(errand, Rows, output, Len(Rows))
  /\ step \in {"columns", "pages", "rows", "last_rows"} \/ (step = "tables" /\ tablesLeft # <<>>) =>
       tablesLeft = errand.tables
  /\ step \in {"asked", "tables", "columns"} => offset = 0
  /\ step = "columns" => Opened(errand, output)
  /\ step = "pages" => offset <= Len(Rows) /\ WriterAt(errand, Rows, output, offset)
  /\ step = "rows" =>
       LET k == offset + errand.pageSize - Len(page)
       IN  /\ offset + errand.pageSize <= Len(Rows) /\ Len(page) <= errand.pageSize
           /\ PageAt(Rows, page, k) /\ WriterAt(errand, Rows, output, k)
  /\ step = "last_rows" =>
       LET k == Len(Rows) - Len(page)
       IN  k >= 0 /\ PageAt(Rows, page, k) /\ WriterAt(errand, Rows, output, k)
  /\ step = "exported" => Written(errand, Rows, output.file, Len(Rows), 1)
  /\ ~(step \in {"asked", "tables", "columns"}) => Knows(errand, output)

IsLine(e, p, row) == DOMAIN p = Range(Cols(e)) /\ \A c \in Range(Cols(e)) : p[c] = Text(e, row[c])
AreLines(e, ps, rows) == Len(ps) = Len(rows) /\ \A i \in 1 .. Len(rows) : IsLine(e, ps[i], rows[i])
Restored(e, rows, s, n) == Len(s) = n /\ \A i \in 1 .. n : Same(e.format, Cols(e), rows[i], s[i])

ImportInv ==
  /\ step \in {"truncating", "batches", "committed"} => AreLines(errand, parsed, Rows)
  /\ step = "batches" /\ errand.truncate /\ ~errors =>
       ~aborted /\ Restored(errand, Rows, stock[errand.subject], Tried)
  /\ step = "committed" /\ errand.truncate =>
       ~aborted /\ Restored(errand, Rows, stock[errand.subject], Len(Rows))

(* The columns that are asked for are those that are written, and what is imported is
   of a format that can be. *)
SelectInv ==
  /\ errand.columns # <<>> => output.selected = Selection(errand)
  /\ step = "columns" => errand.columns = <<>>
  /\ ~Exporting => errand.format \in {"json", "csv", "xlsx"}

Fitting == meddling = 0 /\ ~lost /\ Fits(errand, Rows)
TripInv == StartInv /\ SelectInv /\ (Fitting => ExportInv /\ ImportInv)

-----------------------------------------------------------------------------
(* Lemmas about numbers and sequences. *)

(* A set of natural numbers that is not empty has a least element. *)
LEMMA Least ==
  ASSUME NEW S, S \subseteq Nat, S # {}
  PROVE  \E m \in S : \A x \in S : m <= x
<1>1. PICK m \in S : \A x \in S : ~ (<<x, m>> \in OpToRel(<, Nat))
  BY NatLessThanWellFounded, WFMin, Zenon
<1>2. \A x \in S : x < m => <<x, m>> \in OpToRel(<, Nat)
  BY DEF OpToRel
<1>3. \A x \in S : ~(x < m)
  BY <1>1, <1>2, Zenon
<1>4. \A x \in S : x \in Nat /\ m \in Nat
  OBVIOUS
<1> QED BY <1>3, <1>4

(* The largest and the smallest of some numbers up to a limit. *)
LEMMA MaxMin ==
  ASSUME NEW n \in Nat, NEW S, S \subseteq 0 .. n, S # {}
  PROVE  /\ Max(S) \in S /\ \A x \in S : Max(S) >= x
         /\ Min(S) \in S /\ \A x \in S : Min(S) <= x
<1>1. PICK m \in S : \A x \in S : m <= x
  <2>1. S \subseteq Nat
    OBVIOUS
  <2> QED BY <2>1, Least, Zenon
<1>2. \E k \in S : \A x \in S : k >= x
  <2> DEFINE B == {b \in 0 .. n : \A x \in S : b >= x}
  <2>1. B \subseteq Nat /\ B # {}
    <3>1. n \in B
      OBVIOUS
    <3> QED BY <3>1
  <2>2. PICK b \in B : \A x \in B : b <= x
    <3> HIDE DEF B
    <3> QED BY <2>1, Least, Zenon
  <2>3. b \in S
    <3> SUFFICES ASSUME b \notin S PROVE FALSE
      OBVIOUS
    <3>1. \A x \in S : b - 1 >= x
      BY <2>2
    <3>2. b - 1 \in B
      BY <2>2, <3>1
    <3> QED BY <2>2, <3>2
  <2> QED BY <2>2, <2>3
<1> QED BY <1>1, <1>2 DEF Max, Min

(* The largest of finitely many numbers, and of 0 and such numbers. *)
LEMMA MaxOfValues ==
  ASSUME NEW n \in Nat, NEW f, \A i \in 1 .. n : f[i] \in Int
  PROVE  /\ n > 0 => Max({f[i] : i \in 1 .. n}) \in Int
         /\ Max({f[i] : i \in 1 .. n} \cup {0}) \in Int
<1> DEFINE V(k) == {f[i] : i \in 1 .. k}
<1> DEFINE Has(S) == \E x \in S : \A y \in S : x >= y
<1> DEFINE Bad == {k \in 0 .. n : ~(/\ k > 0 => Has(V(k))
                                    /\ Has(V(k) \cup {0}))}
<1>1. Bad = {}
  <2> SUFFICES ASSUME Bad # {} PROVE FALSE
    OBVIOUS
  <2>1. PICK k \in Bad : \A x \in Bad : k <= x
    <3>1. Bad \subseteq Nat
      OBVIOUS
    <3> HIDE DEF Bad
    <3> QED BY <3>1, Least, Zenon
  <2>2. k # 0
    <3>1. V(0) \cup {0} = {0}
      OBVIOUS
    <3> HIDE DEF V
    <3> QED BY <3>1
  <2>3. k - 1 \in 0 .. n /\ k - 1 \notin Bad
    <3>1. k \in 0 .. n /\ k - 1 \in 0 .. n
      BY <2>1, <2>2
    <3> HIDE DEF Bad
    <3> QED BY <2>1, <3>1
  <2>4. V(k) = V(k - 1) \cup {f[k]} /\ f[k] \in Int
    BY <2>1, <2>2
  <2>5. V(k - 1) \subseteq Int
    BY <2>1
  <2> HIDE DEF V
  <2>6. Has(V(k - 1) \cup {0}) /\ (k - 1 > 0 => Has(V(k - 1)))
    BY <2>3
  <2>7. Has(V(k) \cup {0})
    <3>1. PICK x \in V(k - 1) \cup {0} : \A y \in V(k - 1) \cup {0} : x >= y
      BY <2>6
    <3>2. CASE x >= f[k]
      BY <2>4, <3>1, <3>2
    <3>3. CASE ~(x >= f[k])
      BY <2>4, <2>5, <3>1, <3>3
    <3> QED BY <3>2, <3>3
  <2>8. Has(V(k))
    <3>1. CASE k - 1 > 0
      <4>1. PICK x \in V(k - 1) : \A y \in V(k - 1) : x >= y
        BY <2>6, <3>1
      <4>2. CASE x >= f[k]
        BY <2>4, <4>1, <4>2
      <4>3. CASE ~(x >= f[k])
        BY <2>4, <2>5, <4>1, <4>3
      <4> QED BY <4>2, <4>3
    <3>2. CASE k - 1 = 0
      <4>1. V(k - 1) = {}
        BY <3>2 DEF V
      <4> QED BY <2>4, <4>1
    <3> QED BY <2>1, <2>2, <3>1, <3>2
  <2> QED BY <2>1, <2>7, <2>8
<1>2. V(n) \subseteq Int
  OBVIOUS
<1> HIDE DEF V
<1>3. Has(V(n) \cup {0}) /\ (n > 0 => Has(V(n)))
  BY <1>1
<1> QED BY <1>2, <1>3 DEF Max, V

-----------------------------------------------------------------------------
(* Types: tokens and writers. *)

Columns == Range(AllColumns)
Formats == {"json", "csv", "xlsx", "html", "pdf"}

(* The four columns, and the rows of a table. *)
LEMMA ColumnsAre ==
  /\ Columns = {"id", "reference_id", "value", "permission"}
  /\ AllColumns \in Seq(Columns) /\ Len(AllColumns) = 4
  /\ \A row \in RowType : DOMAIN row = Columns /\ \A c \in Columns : row[c] \in Int
  /\ \A s : ToSet(s) = Range(s)
<1>1. Columns = {"id", "reference_id", "value", "permission"}
  BY DEF Columns, Range, AllColumns
<1>2. AllColumns \in Seq(Columns) /\ Len(AllColumns) = 4
  BY <1>1 DEF AllColumns
<1>3. \A row \in RowType : DOMAIN row = Columns /\ \A c \in Columns : row[c] \in Int
  BY DEF RowType, Columns
<1> QED BY <1>1, <1>2, <1>3 DEF ToSet, Range

(* Tokens without cells. *)
LEMMA TokenType ==
  ASSUME NEW tables, NEW kind \in Kinds, NEW t \in tables \cup {NoTable}
  PROVE  Token(kind, t) \in Tokens(tables) /\ Mark(kind) \in Tokens(tables)
BY DEF Token, Mark, Tokens

(* Tokens with a cell for each column. *)
LEMMA RecordType ==
  ASSUME NEW tables, NEW kind \in Kinds, NEW columns \in Seq(Columns), NEW row,
         \A c \in Range(columns) : row[c] \in Int
  PROVE  /\ Record(kind, columns, row) \in Tokens(tables)
         /\ Len(Record(kind, columns, row).cells) = Len(columns)
         /\ DOMAIN Record(kind, columns, row).cells = DOMAIN columns
         /\ \A i \in DOMAIN columns :
              Record(kind, columns, row).cells[i] = <<columns[i], row[columns[i]]>>
         /\ Record(kind, columns, row).kind = kind
<1> DEFINE cells == [i \in DOMAIN columns |-> <<columns[i], row[columns[i]]>>]
<1>1. DOMAIN columns = 1 .. Len(columns) /\ Len(columns) \in Nat
  OBVIOUS
<1>2. \A i \in DOMAIN columns : cells[i] \in Columns \X Int
  <2> SUFFICES ASSUME NEW i \in DOMAIN columns PROVE cells[i] \in Columns \X Int
    OBVIOUS
  <2>1. columns[i] \in Columns /\ columns[i] \in Range(columns)
    BY <1>1 DEF Range
  <2>2. row[columns[i]] \in Int
    BY <2>1
  <2> QED BY <2>1, <2>2
<1>3. cells \in Seq(Columns \X Int) /\ Len(cells) = Len(columns) /\ DOMAIN cells = DOMAIN columns
  BY <1>1, <1>2
<1>4. Record(kind, columns, row) = [kind |-> kind, table |-> NoTable, cells |-> cells]
  BY DEF Record
<1> HIDE DEF cells
<1>5. Record(kind, columns, row) \in Tokens(tables)
  BY <1>3, <1>4 DEF Tokens, Columns
<1>6. Record(kind, columns, row).cells = cells
  BY <1>4
<1> QED BY <1>3, <1>4, <1>5, <1>6 DEF cells

(* The parts that a writer appends are tokens. *)
LEMMA PartsType ==
  ASSUME NEW S, NEW j \in Seq(S), NEW h \in Seq(S), NEW c \in Seq(S), NEW x \in Seq(S),
         NEW p \in Seq(S), NEW f \in Formats, NEW file \in Seq(S)
  PROVE  file \o [json |-> j, html |-> h, csv |-> c, xlsx |-> x, pdf |-> p][f] \in Seq(S)
<1>1. [json |-> j, html |-> h, csv |-> c, xlsx |-> x, pdf |-> p][f] \in Seq(S)
  BY DEF Formats
<1> QED BY <1>1

(* What a writer is, field by field. *)
LEMMA WriterFields ==
  ASSUME NEW tables, NEW f \in Formats, NEW h \in BOOLEAN, NEW c \in SUBSET tables, NEW n \in Nat,
         NEW first \in BOOLEAN, NEW file \in Seq(Tokens(tables)), NEW selected,
         DOMAIN selected \subseteq tables, selected \in [DOMAIN selected -> Seq(Columns)]
  PROVE  IsWriter([format |-> f, includeHeaders |-> h, selected |-> selected, columnsWritten |-> c,
                   tableCount |-> n, isFirstRow |-> first, file |-> file], tables)
BY DEF IsWriter, Formats, Columns

(* The writers keep their type. *)
LEMMA WriteTableType ==
  ASSUME NEW tables, NEW t \in tables, NEW w, IsWriter(w, tables)
  PROVE  IsWriter(WriteTableOf(w, t), tables) /\ WriteTableOf(w, t).format = w.format
         /\ WriteTableOf(w, t).selected = w.selected
<1>1. /\ w.file \in Seq(Tokens(tables)) /\ w.format \in Formats /\ w.tableCount \in Nat
  BY DEF IsWriter, Formats
<1>2. /\ JSONTable(w, t) \in Seq(Tokens(tables)) /\ HTMLTable(w, t) \in Seq(Tokens(tables))
      /\ CSVTable(w, t) \in Seq(Tokens(tables)) /\ XLSXTable(w, t) \in Seq(Tokens(tables))
      /\ PDFTable(w, t) \in Seq(Tokens(tables))
  <2>1. /\ Mark("comma") \in Tokens(tables) /\ Token("array", t) \in Tokens(tables) /\ Mark("end_table") \in Tokens(tables)
        /\ Token("table", t) \in Tokens(tables) /\ Token("title", t) \in Tokens(tables)
        /\ Token("sheet", t) \in Tokens(tables) /\ Token("page", t) \in Tokens(tables)
    BY TokenType DEF Kinds
  <2>2. JSONTable(w, t) \in Seq(Tokens(tables)) /\ HTMLTable(w, t) \in Seq(Tokens(tables))
    <3> DEFINE x(a) == IF w.tableCount = 0 THEN <<>> ELSE <<a>>
    <3>1. x(Mark("comma")) \in Seq(Tokens(tables)) /\ x(Mark("end_table")) \in Seq(Tokens(tables))
      BY <2>1
    <3> HIDE DEF x
    <3>2. x(Mark("comma")) \o <<Token("array", t)>> \in Seq(Tokens(tables))
          /\ x(Mark("end_table")) \o <<Token("table", t)>> \in Seq(Tokens(tables))
      BY <2>1, <3>1
    <3> QED BY <3>2 DEF x, JSONTable, HTMLTable
  <2> QED BY <2>1, <2>2 DEF CSVTable, XLSXTable, PDFTable
<1> DEFINE file == w.file \o [json |-> JSONTable(w, t), html |-> HTMLTable(w, t), csv |-> CSVTable(w, t),
                           xlsx |-> XLSXTable(w, t), pdf |-> PDFTable(w, t)][w.format]
<1>3. file \in Seq(Tokens(tables))
  <2> HIDE DEF file
  <2> QED BY <1>1, <1>2, PartsType DEF file
<1>4. WriteTableOf(w, t) =
        [w EXCEPT !.tableCount = w.tableCount + 1, !.isFirstRow = TRUE, !.file = file]
  BY DEF WriteTableOf
<1> HIDE DEF file
<1> DEFINE v == WriteTableOf(w, t)
<1>5. /\ v.format = w.format /\ v.includeHeaders = w.includeHeaders /\ v.selected = w.selected
      /\ v.columnsWritten = w.columnsWritten /\ v.tableCount = w.tableCount + 1
      /\ v.isFirstRow \in BOOLEAN /\ v.file = file
  BY <1>4 DEF IsWriter
<1>6. v = [format |-> v.format, includeHeaders |-> v.includeHeaders, selected |-> v.selected,
           columnsWritten |-> v.columnsWritten, tableCount |-> v.tableCount,
           isFirstRow |-> v.isFirstRow, file |-> v.file]
  BY <1>4 DEF IsWriter
<1> HIDE DEF v
<1>7. IsWriter(v, tables)
  <2>1. /\ v.format \in Formats /\ v.tableCount \in Nat /\ v.file \in Seq(Tokens(tables))
        /\ v.isFirstRow \in BOOLEAN
    BY <1>1, <1>3, <1>5
  <2>3. /\ w.includeHeaders \in BOOLEAN /\ w.columnsWritten \in SUBSET tables
        /\ DOMAIN w.selected \subseteq tables /\ w.selected \in [DOMAIN w.selected -> Seq(Columns)]
    BY DEF IsWriter, Columns
  <2>4. /\ v.includeHeaders \in BOOLEAN /\ v.columnsWritten \in SUBSET tables
        /\ DOMAIN v.selected \subseteq tables /\ v.selected \in [DOMAIN v.selected -> Seq(Columns)]
    BY <1>5, <2>3
  <2>2. IsWriter([format |-> v.format, includeHeaders |-> v.includeHeaders, selected |-> v.selected,
                  columnsWritten |-> v.columnsWritten, tableCount |-> v.tableCount,
                  isFirstRow |-> v.isFirstRow, file |-> v.file], tables)
    BY <2>1, <2>4, WriterFields
  <2> QED BY <1>6, <2>2
<1> QED BY <1>5, <1>7 DEF v

(* The headers, of columns that exist. *)
LEMMA WriteHeadersType ==
  ASSUME NEW tables, NEW t \in tables, NEW w, IsWriter(w, tables),
         NEW columns \in Seq(Columns)
  PROVE  IsWriter(WriteHeaders(w, t, columns), tables) /\ WriteHeaders(w, t, columns).format = w.format
         /\ WriteHeaders(w, t, columns).selected = w.selected
<1>1. Headers(columns) \in Tokens(tables)
  <2>1. \A c \in Range(columns) : [d \in ToSet(columns) |-> 0][c] \in Int
    BY DEF ToSet, Range
  <2> QED BY <2>1, RecordType DEF Headers, Kinds
<1>2. Append(w.file, Headers(columns)) \in Seq(Tokens(tables))
  BY <1>1 DEF IsWriter
<1> QED BY <1>2 DEF IsWriter, WriteHeaders

(* A row that is written as text. *)
LEMMA TextRowType ==
  ASSUME NEW tables, NEW columns \in Seq(Columns), NEW row \in RowType, NEW null \in Int
  PROVE  TextRow(columns, row, null) \in Seq(Tokens(tables))
<1> DEFINE cells == [c \in ToSet(columns) |-> IF row[c] = NoValue THEN null ELSE row[c]]
<1>1. \A c \in Range(columns) : cells[c] \in Int
  <2> SUFFICES ASSUME NEW c \in Range(columns) PROVE cells[c] \in Int
    OBVIOUS
  <2>1. c \in Columns /\ c \in ToSet(columns)
    BY DEF ToSet, Range
  <2> QED BY <2>1, ColumnsAre
<1> HIDE DEF cells
<1>2. Record("row", columns, cells) \in Tokens(tables)
  BY <1>1, RecordType DEF Kinds
<1> QED BY <1>2 DEF TextRow, cells

(* A row of a table whose columns the writer knows, or any row in JSON. *)
LEMMA WriteRowType ==
  ASSUME NEW tables, NEW t \in tables, NEW w, IsWriter(w, tables), NEW row \in RowType,
         t \in DOMAIN w.selected
  PROVE  IsWriter(WriteRow(w, t, row), tables) /\ WriteRow(w, t, row).format = w.format
         /\ WriteRow(w, t, row).selected = w.selected
<1> DEFINE columns == w.selected[t]
<1>1. w.file \in Seq(Tokens(tables)) /\ w.format \in Formats /\ columns \in Seq(Columns)
  BY DEF IsWriter, Formats, Columns
<1> DEFINE file == w.file \o [json |-> JSONRow(w, row), html |-> HTMLRow(columns, row),
                           csv |-> CSVRow(columns, row), xlsx |-> XLSXRow(columns, row),
                           pdf |-> PDFRow(columns, row)][w.format]
<1>2. JSONRow(w, row) \in Seq(Tokens(tables))
  <2>1. \A c \in Range(AllColumns) : row[c] \in Int
    BY ColumnsAre DEF Columns
  <2>2. Record("row", AllColumns, row) \in Tokens(tables) /\ Mark("comma") \in Tokens(tables)
    BY <2>1, ColumnsAre, RecordType, TokenType DEF Kinds
  <2> DEFINE x == IF w.isFirstRow THEN <<>> ELSE <<Mark("comma")>>
  <2> DEFINE y == IF NotANumber \in Range(row) THEN <<>> ELSE <<Record("row", AllColumns, row)>>
  <2>3. x \in Seq(Tokens(tables)) /\ y \in Seq(Tokens(tables))
    BY <2>2
  <2> HIDE DEF x, y
  <2>4. x \o y \in Seq(Tokens(tables))
    BY <2>3
  <2> QED BY <2>4 DEF JSONRow, x, y
<1>3. /\ HTMLRow(columns, row) \in Seq(Tokens(tables)) /\ CSVRow(columns, row) \in Seq(Tokens(tables))
      /\ XLSXRow(columns, row) \in Seq(Tokens(tables)) /\ PDFRow(columns, row) \in Seq(Tokens(tables))
  <2> HIDE DEF columns
  <2>1. NoValue \in Int /\ EmptyText \in Int /\ NilText \in Int
    BY DEF NoValue, EmptyText, NilText
  <2> QED BY <1>1, <2>1, TextRowType DEF HTMLRow, CSVRow, XLSXRow, PDFRow
<1>4. file \in Seq(Tokens(tables))
  <2> HIDE DEF file, columns
  <2> QED BY <1>1, <1>2, <1>3, PartsType DEF file
<1>5. WriteRow(w, t, row) = [w EXCEPT !.isFirstRow = FALSE, !.file = file]
  BY DEF WriteRow
<1> HIDE DEF file
<1> QED BY <1>4, <1>5 DEF IsWriter

(* The end of the file. *)
LEMMA FinalizeType ==
  ASSUME NEW tables, NEW w, IsWriter(w, tables)
  PROVE  Finalize(w) \in Seq(Tokens(tables))
<1>1. Mark("end") \in Tokens(tables) /\ Mark("end_table") \in Tokens(tables) /\ Mark("foot") \in Tokens(tables)
  BY TokenType DEF Kinds
<1>2. w.file \in Seq(Tokens(tables))
  BY DEF IsWriter
<1> DEFINE y == IF w.tableCount > 0 THEN <<Mark("end_table")>> ELSE <<>>
<1>3. y \in Seq(Tokens(tables))
  BY <1>1
<1> HIDE DEF y
<1>4. w.file \o y \in Seq(Tokens(tables))
  BY <1>2, <1>3
<1>5. (w.file \o y) \o <<Mark("foot")>> \in Seq(Tokens(tables))
  BY <1>1, <1>4
<1>6. Append(w.file, Mark("end")) \in Seq(Tokens(tables))
  BY <1>1, <1>2
<1> QED BY <1>2, <1>5, <1>6 DEF Finalize, y

-----------------------------------------------------------------------------
(* Types: what the parsers give. *)

IsRow(row) == DOMAIN row \subseteq Columns /\ row \in [DOMAIN row -> Int]

(* A sequence of rows. *)
LEMMA RowsAreParsed ==
  ASSUME NEW n \in Nat, NEW f, f = [i \in 1 .. n |-> f[i]], \A i \in 1 .. n : IsRow(f[i])
  PROVE  AreParsed(f) /\ Len(f) = n /\ DOMAIN f = 1 .. n
<1>1. DOMAIN f = 1 .. n
  OBVIOUS
<1>2. \A i \in 1 .. n : f[i] \in Range(f)
  BY <1>1 DEF Range
<1>3. f \in [1 .. n -> Range(f)]
  BY <1>2
<1>4. f \in Seq(Range(f)) /\ Len(f) = n
  BY <1>3
<1>5. ASSUME NEW row \in Range(f) PROVE IsRow(row)
  BY <1>1 DEF Range
<1> QED BY <1>1, <1>4, <1>5 DEF AreParsed, IsRow, Columns

(* What AreParsed says of the elements; the rest of such a sequence; a part of it. *)
LEMMA ParsedElements ==
  ASSUME NEW s, AreParsed(s)
  PROVE  /\ Len(s) \in Nat /\ DOMAIN s = 1 .. Len(s)
         /\ \A i \in 1 .. Len(s) : IsRow(s[i])
         /\ s \in Seq(Range(s))
<1>1. s \in Seq(Range(s))
  BY DEF AreParsed
<1>2. Len(s) \in Nat /\ DOMAIN s = 1 .. Len(s)
  BY <1>1
<1>3. \A i \in 1 .. Len(s) : s[i] \in Range(s)
  BY <1>2 DEF Range
<1> QED BY <1>1, <1>2, <1>3 DEF AreParsed, IsRow, Columns

(* The cells of a token as a row. *)
LEMMA AsMapType ==
  ASSUME NEW cells \in Seq(Columns \X Int)
  PROVE  IsRow(AsMap(cells))
<1> DEFINE D == {cells[i][1] : i \in DOMAIN cells}
<1>1. \A i \in DOMAIN cells : cells[i] \in Columns \X Int
  OBVIOUS
<1>2. D \subseteq Columns
  BY <1>1
<1>3. ASSUME NEW c \in D
      PROVE  (CHOOSE cell \in ToSet(cells) : cell[1] = c)[2] \in Int
  <2>1. \E cell \in ToSet(cells) : cell[1] = c
    BY DEF ToSet
  <2>2. (CHOOSE cell \in ToSet(cells) : cell[1] = c) \in ToSet(cells)
    BY <2>1
  <2>3. \A cell \in ToSet(cells) : cell[2] \in Int
    BY <1>1 DEF ToSet
  <2> QED BY <2>2, <2>3
<1>4. AsMap(cells) = [c \in D |-> (CHOOSE cell \in ToSet(cells) : cell[1] = c)[2]]
  BY DEF AsMap
<1> HIDE DEF D
<1> QED BY <1>2, <1>3, <1>4 DEF IsRow

(* The records of a text. *)
LEMMA ParseRecordsType ==
  ASSUME NEW tables, NEW records \in Seq(Tokens(tables))
  PROVE  /\ ParseRecords(records).ok \in BOOLEAN /\ AreParsed(ParseRecords(records).rows)
<1>1. CASE records = <<>>
  <2>1. ParseRecords(records) = Failed
    BY <1>1 DEF ParseRecords
  <2>2. AreParsed(<<>>)
    BY DEF AreParsed, Range
  <2> QED BY <2>1, <2>2 DEF Failed
<1>2. CASE records # <<>>
  <2> DEFINE known == records[1].kind = "header"
  <2> DEFINE first == records[1].cells
  <2> DEFINE at(record) == {i \in DOMAIN first : i <= Len(record.cells)}
  <2> DEFINE row(record) == IF ~known THEN [c \in {} |-> 0]
                            ELSE [c \in {first[i][1] : i \in at(record)} |->
                                    record.cells[CHOOSE i \in at(record) : first[i][1] = c][2]]
  <2> DEFINE rows == [i \in 1 .. Len(records) - 1 |-> row(records[i + 1])]
  <2>1. ParseRecords(records) = Parsed(rows)
    BY <1>2 DEF ParseRecords
  <2>2. Len(records) - 1 \in Nat /\ 1 \in DOMAIN records
    BY <1>2
  <2>3. \A i \in DOMAIN records : records[i].cells \in Seq(Columns \X Int)
    <3>1. \A i \in DOMAIN records : records[i] \in Tokens(tables)
      OBVIOUS
    <3> QED BY <3>1 DEF Tokens, Columns
  <2>4. ASSUME NEW i \in 1 .. Len(records) - 1
        PROVE  IsRow(row(records[i + 1]))
    <3> DEFINE record == records[i + 1]
    <3>1. record.cells \in Seq(Columns \X Int) /\ first \in Seq(Columns \X Int)
      BY <2>2, <2>3
    <3> DEFINE D == {first[k][1] : k \in at(record)}
    <3>2. D \subseteq Columns
      BY <3>1
    <3>3. ASSUME NEW c \in D
          PROVE  record.cells[CHOOSE k \in at(record) : first[k][1] = c][2] \in Int
      <4>1. \E k \in at(record) : first[k][1] = c
        OBVIOUS
      <4> DEFINE k == CHOOSE k \in at(record) : first[k][1] = c
      <4>2. k \in at(record)
        BY <4>1
      <4> HIDE DEF k, record, first
      <4>3. k \in DOMAIN record.cells
        BY <3>1, <4>2
      <4>4. record.cells[k] \in Columns \X Int
        BY <3>1, <4>3
      <4>5. record.cells[k][2] \in Int
        BY <4>4
      <4> HIDE DEF at
      <4> QED BY <4>5 DEF k
    <3>4. row(record) = IF ~known THEN [c \in {} |-> 0]
                        ELSE [c \in D |-> record.cells[CHOOSE k \in at(record) : first[k][1] = c][2]]
      OBVIOUS
    <3> HIDE DEF D, record, first, at, known, row
    <3>5. IsRow([c \in {} |-> 0])
      BY DEF IsRow
    <3>6. IsRow([c \in D |-> record.cells[CHOOSE k \in at(record) : first[k][1] = c][2]])
      BY <3>2, <3>3 DEF IsRow
    <3>7. IsRow(row(record))
      BY <3>4, <3>5, <3>6
    <3> QED BY <3>7 DEF record
  <2> HIDE DEF row
  <2>5. AreParsed(rows)
    <3>1. rows = [i \in 1 .. Len(records) - 1 |-> rows[i]]
      OBVIOUS
    <3>2. \A i \in 1 .. Len(records) - 1 : IsRow(rows[i])
      BY <2>4
    <3> HIDE DEF rows
    <3> QED BY <2>2, <3>1, <3>2, RowsAreParsed
  <2> HIDE DEF rows
  <2> QED BY <2>1, <2>5 DEF Parsed
<1> QED BY <1>1, <1>2

(* A part of a sequence of tokens. *)
LEMMA PartOfFile ==
  ASSUME NEW tables, NEW file \in Seq(Tokens(tables)), NEW m \in Int, NEW n \in Int,
         m >= 1, n <= Len(file)
  PROVE  SubSeq(file, m, n) \in Seq(Tokens(tables))
<1>1. \A i \in m .. n : file[i] \in Tokens(tables)
  OBVIOUS
<1> QED BY <1>1, SubSeqProperties

(* The parser of each format. *)
LEMMA ParseType ==
  ASSUME NEW tables, NEW file \in Seq(Tokens(tables)), NEW subject, NEW as, NEW format
  PROVE  /\ Parse(as, format, file, subject).ok \in BOOLEAN
         /\ AreParsed(Parse(as, format, file, subject).rows)
<1> DEFINE Right(r) == r.ok \in BOOLEAN /\ AreParsed(r.rows)
<1>1. Right(Failed)
  <2>1. AreParsed(<<>>)
    BY DEF AreParsed, Range
  <2> QED BY <2>1 DEF Failed
<1>2. Right(ParseJSON(file, subject))
  <2> DEFINE inner == SubSeq(file, 3, Len(file) - 1)
  <2> DEFINE document == /\ Len(file) > 2 /\ file[2].kind = "array"
                         /\ Len(inner) > 0 => Len(inner) % 2 = 1
                         /\ \A i \in DOMAIN inner : inner[i].kind = IF i % 2 = 1 THEN "row" ELSE "comma"
  <2> DEFINE rows == [i \in 1 .. (Len(inner) + 1) \div 2 |-> AsMap(inner[2 * i - 1].cells)]
  <2>1. ParseJSON(file, subject) =
          IF ~document \/ file[2].table # subject THEN Failed ELSE Parsed(rows)
    BY DEF ParseJSON
  <2>2. inner \in Seq(Tokens(tables))
    BY PartOfFile
  <2>3. CASE document
    <3> HIDE DEF inner
    <3>0. Len(inner) \in Nat /\ (Len(inner) > 0 => Len(inner) % 2 = 1)
      BY <2>2, <2>3
    <3>1. Len(inner) = 0 \/ Len(inner) % 2 = 1
      BY <3>0
    <3> HIDE DEF document
    <3>2. /\ (Len(inner) + 1) \div 2 \in Nat
          /\ \A i \in 1 .. (Len(inner) + 1) \div 2 : 2 * i - 1 \in 1 .. Len(inner)
      <4>1. Len(inner) \in Nat
        BY <2>2
      <4> QED BY <3>1, <4>1
    <3>3. \A i \in 1 .. (Len(inner) + 1) \div 2 : inner[2 * i - 1] \in Tokens(tables)
      BY <2>2, <3>2
    <3>4. \A i \in 1 .. (Len(inner) + 1) \div 2 : inner[2 * i - 1].cells \in Seq(Columns \X Int)
      BY <3>3 DEF Tokens, Columns
    <3>5. \A i \in 1 .. (Len(inner) + 1) \div 2 : IsRow(rows[i])
      BY <3>4, AsMapType
    <3>6. rows = [i \in 1 .. (Len(inner) + 1) \div 2 |-> rows[i]]
      OBVIOUS
    <3> HIDE DEF rows
    <3>7. AreParsed(rows)
      BY <3>2, <3>5, <3>6, RowsAreParsed
    <3>8. Right(Parsed(rows))
      BY <3>7 DEF Parsed
    <3> HIDE DEF Right
    <3> QED BY <1>1, <2>1, <3>8
  <2>4. CASE ~document
    BY <1>1, <2>1, <2>4
  <2> QED BY <2>3, <2>4
<1>3. \A m, n \in Int : m >= 1 /\ n <= Len(file) => Right(ParseRecords(SubSeq(file, m, n)))
  <2> SUFFICES ASSUME NEW m \in Int, NEW n \in Int, m >= 1, n <= Len(file)
               PROVE  Right(ParseRecords(SubSeq(file, m, n)))
    OBVIOUS
  <2>1. SubSeq(file, m, n) \in Seq(Tokens(tables))
    BY PartOfFile
  <2> QED BY <2>1, ParseRecordsType
<1>4. DOMAIN file = 1 .. Len(file) /\ Len(file) \in Nat
  OBVIOUS
<1>5. Right(ParseCSV(file, subject))
  <2> DEFINE fields(r) == IF r.kind = "title" THEN 1 ELSE Len(r.cells)
  <2> DEFINE titles == {i \in DOMAIN file : file[i].kind = "title" \/ file[i].cells[1][2] = TitleLike}
  <2> DEFINE filled == DOMAIN file \ titles
  <2> DEFINE before == {0} \cup {i \in titles : i < Max(filled)}
  <2>1. CASE filled = {} \/ \E i \in DOMAIN file : fields(file[i]) # fields(file[1])
    BY <1>1, <2>1 DEF ParseCSV
  <2>2. CASE ~(filled = {} \/ \E i \in DOMAIN file : fields(file[i]) # fields(file[1]))
    <3>1. ParseCSV(file, subject) = ParseRecords(SubSeq(file, Max(before) + 1, Max(filled)))
      BY <2>2 DEF ParseCSV
    <3>2. filled \subseteq 0 .. Len(file) /\ filled # {} /\ before \subseteq 0 .. Len(file) /\ before # {}
      BY <1>4, <2>2
    <3> HIDE DEF filled, before
    <3>3. Max(filled) \in 0 .. Len(file) /\ Max(before) \in 0 .. Len(file)
      BY <1>4, <3>2, MaxMin
    <3>4. Max(before) + 1 \in Int /\ Max(before) + 1 >= 1 /\ Max(filled) \in Int /\ Max(filled) <= Len(file)
      BY <1>4, <3>3
    <3> QED BY <1>3, <3>1, <3>4
  <2> QED BY <2>1, <2>2
<1>6. Right(ParseXLSX(file, subject))
  <2> DEFINE at == {i \in DOMAIN file : file[i].kind = "sheet" /\ file[i].table = subject}
  <2> DEFINE begin == Max(at)
  <2> DEFINE ends == {i \in begin + 1 .. Len(file) + 1 : i = Len(file) + 1 \/ file[i].kind = "sheet"}
  <2>1. CASE at = {}
    BY <1>1, <2>1 DEF ParseXLSX
  <2>2. CASE at # {}
    <3>1. ParseXLSX(file, subject) = ParseRecords(SubSeq(file, begin + 1, Min(ends) - 1))
      BY <2>2 DEF ParseXLSX
    <3>2. at \subseteq 0 .. Len(file)
      BY <1>4
    <3> HIDE DEF at
    <3>3. begin \in 0 .. Len(file)
      BY <1>4, <2>2, <3>2, MaxMin
    <3> HIDE DEF begin
    <3>4. ends \subseteq 0 .. Len(file) + 1 /\ Len(file) + 1 \in ends
      BY <1>4, <3>3
    <3> HIDE DEF ends
    <3> DEFINE n == Len(file) + 1
    <3>5. Min(ends) \in 0 .. Len(file) + 1
      <4>1. n \in Nat /\ ends \subseteq 0 .. n /\ ends # {}
        BY <1>4, <3>4
      <4> HIDE DEF n
      <4>2. Min(ends) \in ends
        BY <4>1, MaxMin, Zenon
      <4> QED BY <4>1, <4>2 DEF n
    <3>6. begin + 1 \in Int /\ begin + 1 >= 1 /\ Min(ends) - 1 \in Int /\ Min(ends) - 1 <= Len(file)
      BY <1>4, <3>3, <3>5
    <3> QED BY <1>3, <3>1, <3>6
  <2> QED BY <2>1, <2>2
<1> HIDE DEF Right
<1>7. Right(Parse(as, format, file, subject))
  BY <1>1, <1>2, <1>5, <1>6 DEF Parse
<1> QED BY <1>7 DEF Right

-----------------------------------------------------------------------------
(* Types: a row that is inserted. *)

(* The row that DirectInsert makes of a parsed one, if it makes one. *)
LEMMA InsertType ==
  ASSUME NEW s \in Seq(RowType), NEW row, IsRow(row)
  PROVE  \/ DirectInsert(s, row) = s
         \/ \E r \in RowType : DirectInsert(s, row) = Append(s, r)
<1> DEFINE of(c) == IF c \in DOMAIN row THEN row[c] ELSE NoValue
<1> DEFINE keys == {s[i]["id"] : i \in DOMAIN s}
<1> DEFINE id == IF of("id") # NoValue THEN of("id") ELSE 1 + Max(keys \cup {0})
<1> DEFINE reference == IF of("reference_id") = NoValue THEN NoValue ELSE AsText(of("reference_id"))
<1> DEFINE r == [c \in ToSet(AllColumns) |->
                   IF c = "id" THEN id ELSE IF c = "reference_id" THEN reference
                   ELSE IF c = "permission" THEN DefaultPermission ELSE of(c)]
<1>1. \A c \in Columns : of(c) \in Int
  BY DEF IsRow, NoValue
<1>2. Max(keys \cup {0}) \in Int
  <2> DEFINE f == [i \in 1 .. Len(s) |-> s[i]["id"]]
  <2>1. \A i \in 1 .. Len(s) : f[i] \in Int
    BY ColumnsAre
  <2>2. keys = {f[i] : i \in 1 .. Len(s)}
    OBVIOUS
  <2>3. Len(s) \in Nat
    OBVIOUS
  <2> DEFINE n == Len(s)
  <2> HIDE DEF f, keys
  <2>4. n \in Nat /\ (\A i \in 1 .. n : f[i] \in Int) /\ keys = {f[i] : i \in 1 .. n}
    BY <2>1, <2>2, <2>3
  <2> HIDE DEF n
  <2>5. Max({f[i] : i \in 1 .. n} \cup {0}) \in Int
    BY <2>4, MaxOfValues
  <2> QED BY <2>4, <2>5
<1>3. id \in Int /\ reference \in Int
  <2> HIDE DEF keys
  <2> QED BY <1>1, <1>2, ColumnsAre DEF AsText, NoValue
<1>4. r \in RowType
  <2>1. \A c \in Columns : r[c] \in Int
    <3> HIDE DEF id, reference, of
    <3> QED BY <1>1, <1>3, ColumnsAre DEF DefaultPermission, Columns
  <2>2. r = [c \in Columns |-> r[c]]
    BY ColumnsAre DEF Columns
  <2> HIDE DEF r
  <2> QED BY <2>1, <2>2 DEF RowType, Columns
<1>5. DirectInsert(s, row) = s \/ DirectInsert(s, row) = Append(s, r)
  BY DEF DirectInsert
<1> HIDE DEF r
<1> QED BY <1>4, <1>5


-----------------------------------------------------------------------------
(* The types of the specification. *)

(* TransferTypeOK in parts. *)
OutputOK ==
  /\ tablesLeft \in Seq(ToSet(errand.tables)) /\ Len(tablesLeft) <= Len(errand.tables)
  /\ IsWriter(output, ToSet(errand.tables)) /\ output.format = errand.format
  /\ offset \in Nat /\ page \in Seq(RowType)
StockOK ==
  oldStock \in [DOMAIN oldStock -> Seq(RowType)] /\ stock \in [DOMAIN oldStock -> Seq(RowType)]
ParsedOK ==
  /\ AreParsed(parsed) /\ AreParsed(batch) /\ rowsAt \in Nat
  /\ imported + Len(batch) \in 0 .. Len(parsed) /\ imported \in Nat
Steps == {"asked", "tables", "columns", "pages", "rows", "last_rows", "exported",
          "truncating", "batches", "rolled_back", "committed"}

(* The parts are the whole. *)
LEMMA TypeParts ==
  TransferTypeOK <=>
    /\ errand \in Errands /\ step \in Steps /\ OutputOK /\ StockOK /\ ParsedOK
    /\ {errors, aborted, lost} \subseteq BOOLEAN /\ meddling \in 0 .. MaxMeddling
BY Zenon DEF TransferTypeOK, OutputOK, StockOK, ParsedOK, Steps

(* What is assumed of an errand. *)
LEMMA ErrandType ==
  ASSUME NEW e \in Errands
  PROVE  /\ e.format \in Formats /\ e.tables \in Seq(ToSet(e.tables))
         /\ e.columns \in Seq(Columns)
         /\ e.includeHeaders \in BOOLEAN /\ e.named \in BOOLEAN
         /\ e.truncate \in BOOLEAN /\ e.postgres \in BOOLEAN
         /\ e.pageSize \in Nat /\ e.pageSize > 0 /\ e.batchSize \in Nat /\ e.batchSize > 0
         /\ \A s \in Stocks : e.subject \in DOMAIN s
<1>1. ToSet(e.tables) = Range(e.tables)
  BY DEF ToSet, Range
<1> QED BY <1>1, TransferAssumption DEF TransferAssumption, Formats, Columns

(* The writer that an export begins with. *)
LEMMA InitializeType ==
  ASSUME NEW e \in Errands
  PROVE  /\ IsWriter(Initialize(e.format, Selection(e), e.includeHeaders), ToSet(e.tables))
         /\ Initialize(e.format, Selection(e), e.includeHeaders).format = e.format
<1>1. DOMAIN Selection(e) \subseteq ToSet(e.tables) /\ Selection(e) \in [DOMAIN Selection(e) -> Seq(Columns)]
  BY ErrandType DEF Selection
<1> DEFINE file == IF e.format = "json" THEN <<Mark("object")>>
                   ELSE IF e.format = "html" THEN <<Mark("head")>> ELSE <<>>
<1>2. file \in Seq(Tokens(ToSet(e.tables)))
  <2>1. Mark("object") \in Tokens(ToSet(e.tables)) /\ Mark("head") \in Tokens(ToSet(e.tables))
    BY TokenType DEF Kinds
  <2>2. \A a \in Tokens(ToSet(e.tables)) : <<a>> \in Seq(Tokens(ToSet(e.tables)))
    OBVIOUS
  <2>3. <<>> \in Seq(Tokens(ToSet(e.tables)))
    OBVIOUS
  <2> QED BY <2>1, <2>2, <2>3, Zenon
<1>3. Initialize(e.format, Selection(e), e.includeHeaders) =
        [format |-> e.format, includeHeaders |-> e.includeHeaders, selected |-> Selection(e),
         columnsWritten |-> {}, tableCount |-> 0, isFirstRow |-> TRUE, file |-> file]
  BY DEF Initialize
<1>4. e.format \in Formats /\ e.includeHeaders \in BOOLEAN /\ {} \in SUBSET ToSet(e.tables) /\ 0 \in Nat
      /\ TRUE \in BOOLEAN
  BY ErrandType
<1> HIDE DEF file
<1>5. IsWriter([format |-> e.format, includeHeaders |-> e.includeHeaders, selected |-> Selection(e),
         columnsWritten |-> {}, tableCount |-> 0, isFirstRow |-> TRUE, file |-> file], ToSet(e.tables))
  BY <1>1, <1>2, <1>4, WriterFields
<1>6. Initialize(e.format, Selection(e), e.includeHeaders).format = e.format
  BY <1>3
<1> QED BY <1>3, <1>5, <1>6, Zenon

(* The initial states. *)
LEMMA TypeInit == TransferInit => TypeInv
<1> SUFFICES ASSUME TransferInit PROVE TypeInv
  OBVIOUS
<1>1. errand \in Errands /\ stock \in Stocks /\ oldStock = stock /\ step = "asked"
  BY DEF TransferInit
<1>2. OutputOK
  BY <1>1, InitializeType DEF OutputOK, TransferInit
<1>3. StockOK
  BY <1>1, TransferAssumption DEF StockOK, TransferAssumption
<1>4. ParsedOK
  <2>1. AreParsed(<<>>)
    BY DEF AreParsed, Range
  <2> QED BY <2>1 DEF ParsedOK, TransferInit
<1>5. TransferTypeOK
  <2>1. {errors, aborted, lost} \subseteq BOOLEAN /\ meddling \in 0 .. MaxMeddling
    <3>1. MaxMeddling \in Nat
      BY TransferAssumption DEF TransferAssumption
    <3>2. errors = FALSE /\ aborted = FALSE /\ lost = FALSE /\ meddling = 0
      BY DEF TransferInit
    <3>3. {errors, aborted, lost} \subseteq BOOLEAN
      BY <3>2, Zenon
    <3>4. meddling \in 0 .. MaxMeddling
      BY <3>1, <3>2
    <3> QED BY <3>3, <3>4
  <2> QED BY <1>1, <1>2, <1>3, <1>4, <2>1, TypeParts DEF Steps
<1>6. BatchInv
  BY DEF TransferInit, BatchInv, Tried, Handed
<1>7. CountInv
  BY <1>1, ErrandType DEF TransferInit, CountInv, Exporting
<1>8. TableInv
  BY <1>1 DEF TableInv
<1> QED BY <1>5, <1>6, <1>7, <1>8 DEF TypeInv


(* The export leaves the import alone, and CountInv says little of it. *)
LEMMA ExportStep ==
  ASSUME TypeInv, UNCHANGED <<errand, stock, importVars>>, Exporting, Exporting',
         OutputOK', TableInv', {lost'} \subseteq BOOLEAN, meddling' \in 0 .. MaxMeddling
  PROVE  TypeInv'
<1>1. step' \in Steps
  BY DEF Exporting, Steps
<1>2. StockOK' /\ ParsedOK'
  BY TypeParts DEF TypeInv, StockOK, ParsedOK, importVars
<1>3. {errors', aborted', lost'} \subseteq BOOLEAN
  BY DEF TypeInv, TransferTypeOK, importVars
<1>4. TransferTypeOK'
  BY <1>1, <1>2, <1>3 DEF TypeInv, TransferTypeOK, OutputOK, StockOK, ParsedOK, Steps
<1>5. BatchInv'
  BY DEF TypeInv, BatchInv, Tried, Handed, importVars
<1>6. CountInv'
  BY DEF TypeInv, CountInv, Exporting, importVars
<1> QED BY <1>4, <1>5, <1>6 DEF TypeInv


(* On to the next table, with a writer of the right type. *)
LEMMA TableDoneStep ==
  ASSUME TypeInv, UNCHANGED <<errand, stock, importVars, meddling>>, Exporting, tablesLeft # <<>>, TableDone,
         IsWriter(output', ToSet(errand.tables)), output'.format = output.format, lost' \in BOOLEAN
  PROVE  TypeInv'
<1>1. step' = "tables" /\ Exporting'
  BY DEF TableDone, Exporting
<1>2. OutputOK'
  <2>1. tablesLeft \in Seq(ToSet(errand.tables)) /\ Len(tablesLeft) <= Len(errand.tables)
    BY DEF TypeInv, TransferTypeOK
  <2>2. Tail(tablesLeft) \in Seq(ToSet(errand.tables)) /\ Len(Tail(tablesLeft)) <= Len(errand.tables)
    BY <2>1, HeadTailProperties, ErrandType DEF TypeInv, TransferTypeOK
  <2>3. page' \in Seq(RowType) /\ offset' \in Nat
    BY DEF TableDone
  <2> QED BY <2>2, <2>3 DEF OutputOK, TableDone, TypeInv, TransferTypeOK
<1>3. TableInv'
  BY <1>1 DEF TableInv
<1>4. meddling' \in 0 .. MaxMeddling /\ {lost'} \subseteq BOOLEAN
  BY DEF TypeInv, TransferTypeOK
<1> QED BY <1>1, <1>2, <1>3, <1>4, ExportStep

(* The table that is next. *)
LEMMA NextTable ==
  ASSUME TypeInv, tablesLeft # <<>>
  PROVE  Head(tablesLeft) \in ToSet(errand.tables)
BY HeadTailProperties DEF TypeInv, TransferTypeOK

Knowing(w, t, columns) ==
  [w EXCEPT !.selected = [u \in DOMAIN w.selected \cup {t} |-> IF u = t THEN columns ELSE w.selected[u]]]

(* A writer that has come to know the columns of a table. *)
LEMMA KnowingType ==
  ASSUME NEW tables, NEW t \in tables, NEW w, IsWriter(w, tables), NEW columns \in Seq(Columns)
  PROVE  LET v == Knowing(w, t, columns)
         IN  /\ IsWriter(v, tables) /\ v.format = w.format
             /\ t \in DOMAIN v.selected /\ v.selected[t] = columns
<1> DEFINE v == Knowing(w, t, columns)
<1> DEFINE selected == [u \in DOMAIN w.selected \cup {t} |-> IF u = t THEN columns ELSE w.selected[u]]
<1>1. DOMAIN w.selected \subseteq tables /\ w.selected \in [DOMAIN w.selected -> Seq(Columns)]
  BY DEF IsWriter, Columns
<1>2. /\ DOMAIN selected \subseteq tables /\ selected \in [DOMAIN selected -> Seq(Columns)]
      /\ t \in DOMAIN selected /\ selected[t] = columns
  BY <1>1
<1>3. v = [w EXCEPT !.selected = selected]
  BY DEF Knowing
<1> HIDE DEF selected, v
<1>4. /\ v.format = w.format /\ v.includeHeaders = w.includeHeaders /\ v.selected = selected
      /\ v.columnsWritten = w.columnsWritten /\ v.tableCount = w.tableCount
      /\ v.isFirstRow = w.isFirstRow /\ v.file = w.file
  BY <1>3 DEF IsWriter
<1>5. v = [format |-> v.format, includeHeaders |-> v.includeHeaders, selected |-> v.selected,
           columnsWritten |-> v.columnsWritten, tableCount |-> v.tableCount,
           isFirstRow |-> v.isFirstRow, file |-> v.file]
  BY <1>3 DEF IsWriter
<1>6. /\ v.format \in Formats /\ v.includeHeaders \in BOOLEAN /\ v.columnsWritten \in SUBSET tables
      /\ v.tableCount \in Nat /\ v.isFirstRow \in BOOLEAN /\ v.file \in Seq(Tokens(tables))
  BY <1>4 DEF IsWriter, Formats
<1>7. DOMAIN v.selected \subseteq tables /\ v.selected \in [DOMAIN v.selected -> Seq(Columns)]
  BY <1>2, <1>4
<1>8. IsWriter([format |-> v.format, includeHeaders |-> v.includeHeaders, selected |-> v.selected,
           columnsWritten |-> v.columnsWritten, tableCount |-> v.tableCount,
           isFirstRow |-> v.isFirstRow, file |-> v.file], tables)
  BY <1>6, <1>7, WriterFields
<1>9. IsWriter(v, tables)
  BY <1>5, <1>8, Zenon
<1> QED BY <1>2, <1>4, <1>9 DEF v

(* The steps of the export. *)
LEMMA ExportTypeStep ==
  ASSUME TypeInv,
         BeginExport \/ SkipTable \/ OpenTable \/ ReadColumns \/ ReadPage \/ WriteNextRow \/ EndPage
           \/ ExportStatementFails \/ FinishExport
  PROVE  TypeInv'
<1> DEFINE tables == ToSet(errand.tables)
<1>1. /\ OutputOK /\ StockOK /\ TableInv /\ errand \in Errands /\ step \in Steps /\ meddling \in 0 .. MaxMeddling
      /\ lost \in BOOLEAN
  BY TypeParts DEF TypeInv
<1>2. /\ IsWriter(output, tables) /\ output.format = errand.format /\ offset \in Nat /\ page \in Seq(RowType)
      /\ tablesLeft \in Seq(tables)
  BY <1>1 DEF OutputOK
<1>3. \A t \in DOMAIN stock : stock[t] \in Seq(RowType)
  BY <1>1 DEF StockOK
<1>4. CASE BeginExport
  <2>1. Exporting /\ Exporting'
    BY <1>4 DEF BeginExport, Exporting
  <2>2. OutputOK'
    BY <1>1, <1>2, <1>4, ErrandType DEF BeginExport, OutputOK
  <2>3. TableInv' /\ meddling' \in 0 .. MaxMeddling /\ {lost'} \subseteq BOOLEAN
    BY <1>1, <1>4 DEF BeginExport, TableInv
  <2> QED BY <1>4, <2>1, <2>2, <2>3, ExportStep DEF BeginExport
<1>5. CASE SkipTable
  BY <1>1, <1>2, <1>5, TableDoneStep DEF SkipTable, Exporting
<1>6. CASE OpenTable
  <2> DEFINE t == Head(tablesLeft)
  <2> DEFINE opened == WriteTableOf(output, t)
  <2>1. t \in tables
    BY <1>6, NextTable DEF OpenTable
  <2>2. IsWriter(opened, tables) /\ opened.format = output.format /\ opened.selected = output.selected
    <3> HIDE DEF t, tables
    <3> QED BY <1>2, <2>1, WriteTableType
  <2>3. t \in DOMAIN stock /\ tablesLeft # <<>>
    BY <1>6 DEF OpenTable
  <2>4. Exporting /\ Exporting'
    BY <1>6 DEF OpenTable, Exporting
  <2>5. CASE t \in DOMAIN output.selected
    <3>1. step' = "pages" /\ output' = WriteHeaders(opened, t, output.selected[t])
      BY <1>6, <2>5 DEF OpenTable
    <3>2. output.selected[t] \in Seq(Columns)
      BY <1>2, <2>5 DEF IsWriter, Columns
    <3>3. IsWriter(output', tables) /\ output'.format = output.format /\ output'.selected = output.selected
      <4> HIDE DEF t, tables, opened
      <4> QED BY <2>1, <2>2, <3>1, <3>2, WriteHeadersType
    <3>4. OutputOK'
      BY <1>1, <1>2, <1>6, <3>3 DEF OutputOK, OpenTable
    <3>5. TableInv'
      BY <1>6, <2>3, <2>5, <3>3 DEF TableInv, OpenTable
    <3> QED BY <1>1, <1>6, <2>4, <3>4, <3>5, ExportStep DEF OpenTable
  <2>6. CASE t \notin DOMAIN output.selected
    <3>1. step' = "columns" /\ output' = opened
      BY <1>6, <2>6 DEF OpenTable
    <3>2. OutputOK'
      BY <1>1, <1>2, <1>6, <2>2, <3>1 DEF OutputOK, OpenTable
    <3>3. TableInv'
      BY <1>6, <2>3, <3>1 DEF TableInv, OpenTable
    <3> QED BY <1>1, <1>6, <2>4, <3>2, <3>3, ExportStep DEF OpenTable
  <2> QED BY <2>5, <2>6
<1>7. CASE ReadColumns
  <2> DEFINE t == Head(tablesLeft)
  <2> DEFINE columns == IF stock[t] = <<>> THEN <<>> ELSE AllColumns
  <2> DEFINE knowing == Knowing(output, t, columns)
  <2>1. t \in DOMAIN stock /\ tablesLeft # <<>> /\ t \in tables
    BY <1>1, <1>7, NextTable DEF ReadColumns, TableInv
  <2>2. columns \in Seq(Columns)
    BY ColumnsAre
  <2>3. IsWriter(knowing, tables) /\ knowing.format = output.format /\ t \in DOMAIN knowing.selected
        /\ knowing.selected[t] = columns
    <3> HIDE DEF t, tables, columns
    <3> QED BY <1>2, <2>1, <2>2, KnowingType
  <2>4. CASE columns # <<>>
    <3>1. output' = WriteHeaders(knowing, t, columns) /\ step' = "pages" /\ UNCHANGED <<tablesLeft, offset, page>>
      BY <1>7, <2>4 DEF ReadColumns, Knowing
    <3>2. IsWriter(output', tables) /\ output'.format = output.format /\ output'.selected = knowing.selected
      <4> HIDE DEF t, tables, columns, knowing
      <4> QED BY <2>1, <2>2, <2>3, <3>1, WriteHeadersType
    <3>3. OutputOK'
      BY <1>1, <1>2, <1>7, <3>1, <3>2 DEF OutputOK, ReadColumns
    <3>4. TableInv'
      <4> HIDE DEF columns, knowing
      <4> QED BY <1>7, <2>1, <2>3, <3>1, <3>2 DEF TableInv, ReadColumns
    <3>5. Exporting /\ Exporting'
      BY <1>7, <3>1 DEF ReadColumns, Exporting
    <3> QED BY <1>1, <1>7, <3>3, <3>4, <3>5, ExportStep DEF ReadColumns
  <2>5. CASE columns = <<>>
    <3>1. output' = knowing /\ TableDone
      BY <1>7, <2>5 DEF ReadColumns, Knowing
    <3> HIDE DEF columns, knowing
    <3>2. IsWriter(output', tables) /\ output'.format = output.format
      BY <2>3, <3>1
    <3> QED BY <1>1, <1>7, <2>1, <3>1, <3>2, TableDoneStep DEF ReadColumns, Exporting
  <2> QED BY <2>4, <2>5
<1>8. CASE ReadPage
  <2> DEFINE rows == stock[Head(tablesLeft)]
  <2> DEFINE end == offset + errand.pageSize
  <2>1. rows \in Seq(RowType)
    BY <1>1, <1>3, <1>8 DEF ReadPage, TableInv
  <2>2. errand.pageSize \in Nat
    BY <1>1, ErrandType
  <2>3. page' = SubSeq(rows, offset + 1, IF end > Len(rows) THEN Len(rows) ELSE end)
    BY <1>8 DEF ReadPage
  <2>4. page' \in Seq(RowType)
    <3> HIDE DEF rows
    <3> DEFINE last == IF end > Len(rows) THEN Len(rows) ELSE end
    <3>1. last \in Nat /\ last <= Len(rows) /\ offset + 1 \in Nat /\ offset + 1 >= 1
      BY <1>2, <2>1, <2>2
    <3> HIDE DEF last
    <3>2. \A i \in offset + 1 .. last : rows[i] \in RowType
      BY <2>1, <3>1
    <3>3. page' = SubSeq(rows, offset + 1, last)
      BY <2>3 DEF last
    <3> QED BY <1>2, <3>1, <3>2, <3>3, SubSeqProperties
  <2>5. Exporting /\ Exporting' /\ step' \in {"rows", "last_rows"}
    BY <1>8 DEF ReadPage, Exporting
  <2>6. OutputOK'
    BY <1>1, <1>2, <1>8, <2>4 DEF OutputOK, ReadPage
  <2>7. TableInv'
    BY <1>1, <1>8, <2>5 DEF TableInv, ReadPage
  <2> QED BY <1>1, <1>8, <2>5, <2>6, <2>7, ExportStep DEF ReadPage
<1>9. CASE WriteNextRow
  <2> DEFINE t == Head(tablesLeft)
  <2> DEFINE row == Head(page)
  <2>1. t \in DOMAIN output.selected /\ t \in tables /\ tablesLeft # <<>> /\ page # <<>>
    BY <1>1, <1>9, NextTable DEF WriteNextRow, TableInv
  <2>2. row \in RowType /\ Tail(page) \in Seq(RowType)
    BY <1>2, <2>1, HeadTailProperties
  <2>3. output' = WriteRow(output, t, row)
    BY <1>9 DEF WriteNextRow
  <2>4. IsWriter(output', tables) /\ output'.format = output.format /\ output'.selected = output.selected
    <3> HIDE DEF t, row, tables
    <3> QED BY <1>2, <2>1, <2>2, <2>3, WriteRowType
  <2>5. CASE WriteRowFails(output, row)
    <3>1. TableDone
      BY <1>9, <2>5 DEF WriteNextRow
    <3> QED BY <1>1, <1>9, <2>1, <2>4, <3>1, TableDoneStep DEF WriteNextRow, Exporting
  <2>6. CASE ~WriteRowFails(output, row)
    <3>1. page' = Tail(page) /\ UNCHANGED <<step, tablesLeft, offset>>
      BY <1>9, <2>6 DEF WriteNextRow
    <3>2. OutputOK'
      BY <1>1, <1>2, <1>9, <2>2, <2>4, <3>1 DEF OutputOK, WriteNextRow
    <3>3. TableInv'
      BY <1>1, <1>9, <2>4, <3>1 DEF TableInv, WriteNextRow
    <3>4. Exporting /\ Exporting'
      BY <1>9, <3>1 DEF WriteNextRow, Exporting
    <3> QED BY <1>1, <1>9, <3>2, <3>3, <3>4, ExportStep DEF WriteNextRow
  <2> QED BY <2>5, <2>6
<1>10. CASE EndPage
  <2>1. tablesLeft # <<>> /\ Exporting
    BY <1>1, <1>10 DEF EndPage, TableInv, Exporting
  <2>2. CASE step = "last_rows"
    BY <1>1, <1>2, <1>10, <2>1, <2>2, TableDoneStep DEF EndPage
  <2>3. CASE step # "last_rows"
    <3>1. step' = "pages" /\ offset' = offset + errand.pageSize /\ UNCHANGED <<tablesLeft, page, output, errand, stock>>
      BY <1>10, <2>3 DEF EndPage, NextOffset
    <3>2. OutputOK'
      BY <1>1, <1>2, <3>1, ErrandType DEF OutputOK
    <3>3. TableInv'
      BY <1>1, <1>10, <2>3, <3>1 DEF TableInv, EndPage
    <3>4. Exporting'
      BY <3>1 DEF Exporting
    <3> QED BY <1>1, <1>10, <2>1, <3>2, <3>3, <3>4, ExportStep DEF EndPage
  <2> QED BY <2>2, <2>3
<1>11. CASE ExportStatementFails
  <2>1. tablesLeft # <<>> /\ Exporting /\ lost' \in BOOLEAN
    BY <1>1, <1>11 DEF ExportStatementFails, TableInv, Exporting
  <2> QED BY <1>2, <1>11, <2>1, TableDoneStep DEF ExportStatementFails
<1>12. CASE FinishExport
  <2>1. output' = [output EXCEPT !.file = Finalize(output)] /\ step' = "exported" /\ Exporting /\ Exporting'
    BY <1>12 DEF FinishExport, Exporting
  <2>2. IsWriter(output', tables) /\ output'.format = output.format
    <3>1. Finalize(output) \in Seq(Tokens(tables))
      <4> HIDE DEF tables
      <4> QED BY <1>2, FinalizeType
    <3> QED BY <1>2, <2>1, <3>1 DEF IsWriter
  <2>3. OutputOK'
    BY <1>1, <1>2, <1>12, <2>2 DEF OutputOK, FinishExport
  <2>4. TableInv'
    BY <2>1 DEF TableInv
  <2> QED BY <1>1, <1>12, <2>1, <2>3, <2>4, ExportStep DEF FinishExport
<1> QED BY <1>4, <1>5, <1>6, <1>7, <1>8, <1>9, <1>10, <1>11, <1>12


(* A part of a sequence of rows, and the rest of one. *)
LEMMA PartOfRows ==
  ASSUME NEW s, AreParsed(s), NEW m \in Nat, NEW n \in Nat, m <= n, n <= Len(s)
  PROVE  /\ AreParsed(SubSeq(s, m + 1, n)) /\ Len(SubSeq(s, m + 1, n)) = n - m
         /\ \A i \in 1 .. n - m : SubSeq(s, m + 1, n)[i] = s[m + i]
<1>1. Len(s) \in Nat /\ s \in Seq(Range(s)) /\ \A i \in 1 .. Len(s) : IsRow(s[i])
  BY ParsedElements
<1> DEFINE p == SubSeq(s, m + 1, n)
<1>2. \A i \in m + 1 .. n : s[i] \in Range(s)
  BY <1>1 DEF Range
<1>3. p \in Seq(Range(s)) /\ Len(p) = n - m /\ \A i \in 1 .. n - m : p[i] = s[m + i]
  <2>1. m + 1 \in Int /\ n \in Int
    OBVIOUS
  <2>2. /\ p \in Seq(Range(s)) /\ Len(p) = IF m + 1 <= n THEN n - (m + 1) + 1 ELSE 0
        /\ \A i \in 1 .. n - (m + 1) + 1 : p[i] = s[(m + 1) + i - 1]
    BY <1>2, <2>1, SubSeqProperties
  <2> HIDE DEF p
  <2>3. n - (m + 1) + 1 = n - m /\ \A i \in 1 .. n - m : (m + 1) + i - 1 = m + i
    OBVIOUS
  <2> QED BY <2>2, <2>3
<1> HIDE DEF p
<1>4. \A i \in 1 .. n - m : p[i] = s[m + i] /\ IsRow(p[i])
  <2>1. \A i \in 1 .. n - m : m + i \in 1 .. Len(s)
    BY <1>1
  <2> QED BY <1>1, <1>3, <2>1
<1>5. p = [i \in 1 .. n - m |-> p[i]] /\ n - m \in Nat
  BY <1>3
<1>6. AreParsed(p) /\ Len(p) = n - m
  BY <1>4, <1>5, RowsAreParsed
<1> QED BY <1>4, <1>6 DEF p

(* The rest of a sequence of rows. *)
LEMMA RestOfRows ==
  ASSUME NEW s, AreParsed(s), s # <<>>
  PROVE  /\ AreParsed(Tail(s)) /\ Len(Tail(s)) = Len(s) - 1 /\ Len(s) > 0
         /\ \A i \in 1 .. Len(s) - 1 : Tail(s)[i] = s[1 + i]
         /\ IsRow(Head(s)) /\ Head(s) = s[1]
<1>1. Len(s) \in Nat /\ s \in Seq(Range(s)) /\ \A i \in 1 .. Len(s) : IsRow(s[i])
  BY ParsedElements
<1>2. Len(s) > 0 /\ Head(s) = s[1]
  BY <1>1
<1>3. /\ Tail(s) \in Seq(Range(s)) /\ Len(Tail(s)) = Len(s) - 1
      /\ \A i \in 1 .. Len(s) - 1 : Tail(s)[i] = s[i + 1]
  BY <1>1, HeadTailProperties
<1> DEFINE p == Tail(s)
<1> HIDE DEF p
<1>4. \A i \in 1 .. Len(s) - 1 : p[i] = s[1 + i] /\ IsRow(p[i])
  BY <1>1, <1>3 DEF p
<1>5. p = [i \in 1 .. Len(s) - 1 |-> p[i]] /\ Len(s) - 1 \in Nat
  <2>1. p \in Seq(Range(s)) /\ Len(p) = Len(s) - 1
    BY <1>3 DEF p
  <2> QED BY <1>1, <1>2, <2>1
<1>6. AreParsed(p)
  BY <1>4, <1>5, RowsAreParsed
<1> QED BY <1>1, <1>2, <1>3, <1>4, <1>6 DEF p


(* The import leaves the export alone. *)
LEMMA ImportStep ==
  ASSUME TypeInv, UNCHANGED <<errand, tablesLeft, output, offset, page, meddling, lost>>,
         ~Exporting', step' \in Steps, StockOK', ParsedOK', {errors', aborted'} \subseteq BOOLEAN,
         BatchInv', CountInv'
  PROVE  TypeInv'
<1>1. OutputOK' /\ {errors', aborted', lost'} \subseteq BOOLEAN /\ meddling' \in 0 .. MaxMeddling
  BY DEF TypeInv, TransferTypeOK, OutputOK
<1>2. TransferTypeOK'
  BY <1>1 DEF TypeInv, TransferTypeOK, OutputOK, StockOK, ParsedOK, Steps
<1>3. TableInv'
  BY DEF TableInv, Exporting
<1> QED BY <1>2, <1>3 DEF TypeInv

(* Where a batch ends: behind where it begins, and with the rows at the latest. *)
LEMMA BatchEnds ==
  ASSUME NEW from \in Nat, NEW size \in Nat, NEW n \in Nat, from < n
  PROVE  /\ BatchEnd(from, size, n) \in Nat
         /\ from <= BatchEnd(from, size, n) /\ BatchEnd(from, size, n) <= n
         /\ BatchEnd(from, size, n) = IF from + size > n THEN n ELSE from + size
BY DEF BatchEnd

(* The steps of the import, and of others during the export. *)
LEMMA ImportTypeStep ==
  ASSUME TypeInv,
         (\E t \in DOMAIN stock : Meddle(t)) \/ ParseFile \/ Truncate \/ TruncateFails \/ NextBatch
           \/ ImportRow \/ EndImport
  PROVE  TypeInv'
<1> DEFINE subject == errand.subject
<1>1. /\ OutputOK /\ StockOK /\ ParsedOK /\ TableInv /\ errand \in Errands /\ step \in Steps
      /\ meddling \in 0 .. MaxMeddling /\ lost \in BOOLEAN /\ errors \in BOOLEAN /\ aborted \in BOOLEAN
      /\ BatchInv /\ CountInv
  BY TypeParts DEF TypeInv
<1>2. subject \in DOMAIN oldStock /\ subject \in DOMAIN stock /\ stock[subject] \in Seq(RowType)
      /\ oldStock[subject] \in Seq(RowType)
  BY <1>1 DEF CountInv, StockOK
<1>3. errand.batchSize \in Nat /\ errand.batchSize > 0 /\ errand.truncate \in BOOLEAN /\ errand.postgres \in BOOLEAN
  BY <1>1, ErrandType
<1>4. /\ AreParsed(parsed) /\ AreParsed(batch) /\ rowsAt \in Nat /\ imported \in Nat
      /\ Len(parsed) \in Nat /\ Len(batch) \in Nat
  BY <1>1, ParsedElements DEF ParsedOK
<1>5. CASE \E t \in DOMAIN stock : Meddle(t)
  <2>1. PICK t \in DOMAIN stock : Meddle(t)
    BY <1>5
  <2>2. Exporting /\ Exporting' /\ UNCHANGED <<errand, step, tablesLeft, output, offset, page, importVars, lost>>
        /\ meddling' = meddling + 1 /\ meddling < MaxMeddling
    BY <2>1 DEF Meddle, Exporting
  <2>3. stock[t] \in Seq(RowType) /\ stock[t] # <<>> /\ t \in DOMAIN oldStock
    BY <1>1, <2>1 DEF StockOK, Meddle
  <2> DEFINE above(c) == 1 + Max({stock[t][i][c] : i \in DOMAIN stock[t]})
  <2> DEFINE row == [Last(stock[t]) EXCEPT !["id"] = above("id"), !["reference_id"] = above("reference_id")]
  <2>4. ASSUME NEW c \in Columns PROVE above(c) \in Int
    <3> DEFINE f == [i \in 1 .. Len(stock[t]) |-> stock[t][i][c]]
    <3> DEFINE n == Len(stock[t])
    <3>1. \A i \in 1 .. n : f[i] \in Int
      BY <2>3, ColumnsAre, SMTT(30)
    <3>2. {stock[t][i][c] : i \in DOMAIN stock[t]} = {f[i] : i \in 1 .. n}
      BY <2>3
    <3>3. n \in Nat /\ n > 0
      BY <2>3
    <3> HIDE DEF f, n
    <3>4. Max({f[i] : i \in 1 .. n}) \in Int
      BY <3>1, <3>3, MaxOfValues
    <3> QED BY <3>2, <3>4
  <2>5. row \in RowType
    <3>1. Last(stock[t]) \in RowType
      BY <2>3 DEF Last
    <3>2. "id" \in Columns /\ "reference_id" \in Columns
      BY ColumnsAre
    <3>3. above("id") \in Int /\ above("reference_id") \in Int
      BY <2>4, <3>2
    <3> HIDE DEF above
    <3> QED BY <3>1, <3>3 DEF RowType
  <2>6. stock' = [stock EXCEPT ![t] = Tail(stock[t])] \/ stock' = [stock EXCEPT ![t] = Append(stock[t], row)]
    BY <2>1 DEF Meddle
  <2>7. Tail(stock[t]) \in Seq(RowType) /\ Append(stock[t], row) \in Seq(RowType)
    <3> HIDE DEF row
    <3> QED BY <2>3, <2>5, HeadTailProperties, AppendProperties
  <2> HIDE DEF row
  <2>8. StockOK'
    BY <1>1, <2>2, <2>3, <2>6, <2>7 DEF StockOK, importVars
  <2>9. TransferTypeOK'
    <3>1. OutputOK' /\ ParsedOK'
      BY <1>1, <2>2 DEF OutputOK, ParsedOK, importVars
    <3>2. {errors', aborted', lost'} \subseteq BOOLEAN /\ errand' \in Errands /\ step' \in Steps
      BY <1>1, <2>2 DEF importVars
    <3>3. meddling' \in 0 .. MaxMeddling
      <4>1. MaxMeddling \in Nat
        BY TransferAssumption DEF TransferAssumption
      <4> QED BY <1>1, <2>2, <4>1
    <3> QED BY <2>8, <3>1, <3>2, <3>3 DEF TransferTypeOK, OutputOK, StockOK, ParsedOK, Steps
  <2>10. BatchInv'
    BY <1>1, <2>2 DEF BatchInv, Tried, Handed, importVars
  <2>11. CountInv'
    BY <1>1, <2>2 DEF CountInv, Exporting, importVars
  <2>12. TableInv'
    <3>1. DOMAIN stock' = DOMAIN stock
      BY <2>6
    <3> QED BY <1>1, <2>2, <3>1 DEF TableInv
  <2> QED BY <2>9, <2>10, <2>11, <2>12 DEF TypeInv
<1>6. CASE ParseFile
  <2>1. /\ oldStock' = stock /\ step = "exported"
        /\ UNCHANGED <<errand, stock, tablesLeft, output, offset, page, rowsAt, batch, imported, aborted, meddling, lost>>
    BY <1>6 DEF ParseFile
  <2>2. PICK as : LET result == Parse(as, errand.format, output.file, errand.subject)
                  IN  /\ parsed' = result.rows /\ errors' = ~result.ok
                      /\ step' = IF ~result.ok THEN "rolled_back"
                                 ELSE IF errand.truncate THEN "truncating" ELSE "batches"
    BY <1>6 DEF ParseFile
  <2> DEFINE result == Parse(as, errand.format, output.file, errand.subject)
  <2>3. result.ok \in BOOLEAN /\ AreParsed(result.rows)
    <3>1. output.file \in Seq(Tokens(ToSet(errand.tables)))
      BY <1>1 DEF OutputOK, IsWriter
    <3> QED BY <3>1, ParseType
  <2>4. parsed' = result.rows /\ errors' = ~result.ok
        /\ step' = IF ~result.ok THEN "rolled_back"
                   ELSE IF errand.truncate THEN "truncating" ELSE "batches"
    BY <2>2
  <2> HIDE DEF result
  <2>5. imported = 0 /\ rowsAt = 0 /\ batch = <<>> /\ ~errors /\ ~aborted
    BY <1>1, <2>1 DEF CountInv, Exporting
  <2>6. ~Exporting' /\ step' \in Steps /\ {errors', aborted'} \subseteq BOOLEAN
    BY <1>1, <2>1, <2>3, <2>4 DEF Exporting, Steps
  <2>7. StockOK'
    BY <1>1, <2>1 DEF StockOK
  <2>8. Len(parsed') \in Nat /\ AreParsed(parsed')
    BY <2>3, <2>4, ParsedElements
  <2>9. ParsedOK' /\ BatchInv'
    BY <1>4, <2>1, <2>5, <2>8 DEF ParsedOK, BatchInv, Tried, Handed
  <2>10. CountInv'
    <3>1. errand'.subject \in DOMAIN oldStock'
      BY <1>2, <2>1
    <3>2. Len(stock[subject]) \in Nat
      BY <1>2
    <3> QED BY <1>3, <2>1, <2>4, <2>5, <2>6, <3>1, <3>2 DEF CountInv, Base, Exporting
  <2> QED BY <2>1, <2>6, <2>7, <2>9, <2>10, ImportStep
<1>7. CASE Truncate
  <2>1. stock' = [stock EXCEPT ![subject] = <<>>] /\ step = "truncating" /\ step' = "batches"
        /\ UNCHANGED <<errand, tablesLeft, output, offset, page, importVars, meddling, lost>>
    BY <1>7 DEF Truncate
  <2>2. imported = 0 /\ rowsAt = 0 /\ batch = <<>> /\ ~errors /\ ~aborted
    BY <1>1, <2>1 DEF CountInv
  <2>3. StockOK' /\ ParsedOK' /\ BatchInv'
    <3>1. ParsedOK' /\ BatchInv'
      BY <1>1, <2>1 DEF ParsedOK, BatchInv, Tried, Handed, importVars
    <3>2. <<>> \in Seq(RowType)
      OBVIOUS
    <3>3. StockOK'
      BY <1>1, <1>2, <2>1, <3>2 DEF StockOK, importVars
    <3> QED BY <3>1, <3>3
  <2>4. stock'[subject] = <<>>
    BY <1>2, <2>1
  <2>5. ~Exporting' /\ step' \in Steps /\ {errors', aborted'} \subseteq BOOLEAN
    BY <1>1, <2>1 DEF Exporting, Steps, importVars
  <2>6. errand.truncate
    BY <1>1, <2>1 DEF CountInv
  <2>7. CountInv'
    BY <1>1, <2>1, <2>2, <2>4, <2>5, <2>6 DEF CountInv, Base, Exporting, importVars
  <2> QED BY <2>1, <2>3, <2>5, <2>7, ImportStep
<1>8. CASE TruncateFails
  <2>1. step = "truncating" /\ step' = "batches" /\ errors' = TRUE /\ aborted' = errand.postgres
        /\ UNCHANGED <<errand, stock, oldStock, tablesLeft, output, offset, page, parsed, rowsAt, batch,
                       imported, meddling, lost>>
    BY <1>8 DEF TruncateFails
  <2>2. StockOK' /\ ParsedOK' /\ BatchInv'
    BY <1>1, <2>1 DEF StockOK, ParsedOK, BatchInv, Tried, Handed
  <2>3. ~Exporting' /\ step' \in Steps /\ {errors', aborted'} \subseteq BOOLEAN
    BY <1>3, <2>1 DEF Exporting, Steps
  <2>4. CountInv'
    BY <1>1, <2>1, <2>3 DEF CountInv, Base
  <2> QED BY <2>1, <2>2, <2>3, <2>4, ImportStep
<1>9. CASE NextBatch
  <2> DEFINE end == BatchEnd(rowsAt, errand.batchSize, Len(parsed))
  <2>1. /\ step = "batches" /\ batch = <<>> /\ rowsAt < Len(parsed)
        /\ batch' = SubSeq(parsed, rowsAt + 1, end) /\ rowsAt' = rowsAt + errand.batchSize
        /\ UNCHANGED <<errand, stock, oldStock, step, tablesLeft, output, offset, page, parsed, imported,
                       errors, aborted, meddling, lost>>
    BY <1>9 DEF NextBatch
  <2>2. end \in Nat /\ rowsAt <= end /\ end <= Len(parsed)
        /\ end = IF rowsAt + errand.batchSize > Len(parsed) THEN Len(parsed) ELSE rowsAt + errand.batchSize
    <3>1. rowsAt \in Nat /\ errand.batchSize \in Nat /\ Len(parsed) \in Nat /\ rowsAt < Len(parsed)
      BY <1>3, <1>4, <2>1
    <3> QED BY <3>1, BatchEnds
  <2> HIDE DEF end
  <2>3. /\ AreParsed(batch') /\ Len(batch') = end - rowsAt
        /\ \A i \in 1 .. end - rowsAt : batch'[i] = parsed[rowsAt + i]
    BY <1>4, <2>1, <2>2, PartOfRows
  <2>4. Handed' = end /\ Tried' = rowsAt /\ Handed = rowsAt /\ Len(batch) = 0 /\ imported <= rowsAt
    <3>1. Handed = rowsAt /\ Len(batch) = 0 /\ Handed' = end
      BY <1>3, <1>4, <2>1, <2>2 DEF Handed
    <3>2. imported <= Tried /\ Tried = rowsAt
      BY <1>1, <1>4, <3>1 DEF BatchInv, Tried
    <3> QED BY <1>4, <2>2, <2>3, <3>1, <3>2 DEF Tried
  <2>5. BatchInv'
    BY <1>4, <2>1, <2>2, <2>3, <2>4 DEF BatchInv
  <2>6. ParsedOK'
    <3>1. rowsAt' \in Nat
      BY <1>3, <1>4, <2>1
    <3>2. Len(batch') \in Nat /\ imported' = imported /\ parsed' = parsed
      BY <1>4, <2>1, <2>2, <2>3, SMTT(30)
    <3>3. imported + Len(batch') \in 0 .. Len(parsed)
      BY <1>4, <2>2, <2>3, <2>4, <3>2
    <3> QED BY <1>4, <2>3, <3>1, <3>2, <3>3 DEF ParsedOK
  <2>7. StockOK' /\ ~Exporting' /\ step' \in Steps /\ {errors', aborted'} \subseteq BOOLEAN
    BY <1>1, <2>1 DEF StockOK, Exporting, Steps
  <2>8. CountInv'
    BY <1>1, <2>1, <2>7 DEF CountInv, Base, Exporting
  <2> QED BY <2>1, <2>5, <2>6, <2>7, <2>8, ImportStep
<1>10. CASE ImportRow
  <2> DEFINE rows == stock[subject]
  <2> DEFINE after == IF aborted THEN rows ELSE DirectInsert(rows, Head(batch))
  <2>1. /\ step = "batches" /\ batch # <<>> /\ batch' = Tail(batch)
        /\ UNCHANGED <<errand, oldStock, step, tablesLeft, output, offset, page, parsed, rowsAt, errors,
                       meddling, lost>>
    BY <1>10 DEF ImportRow
  <2>2. IF after = rows THEN aborted' = errand.postgres /\ UNCHANGED <<stock, imported>>
        ELSE /\ stock' = [stock EXCEPT ![subject] = after] /\ imported' = imported + 1
             /\ UNCHANGED aborted
    BY <1>10 DEF ImportRow
  <2>3. /\ AreParsed(Tail(batch)) /\ Len(Tail(batch)) = Len(batch) - 1 /\ Len(batch) > 0
        /\ \A i \in 1 .. Len(batch) - 1 : Tail(batch)[i] = batch[1 + i]
        /\ IsRow(Head(batch))
    BY <1>4, <2>1, RestOfRows
  <2>4. after = rows \/ \E r \in RowType : after = Append(rows, r)
    BY <1>2, <2>3, InsertType
  <2>5. Handed' = Handed /\ Tried' = Tried + 1 /\ Handed \in Nat /\ Handed <= Len(parsed)
        /\ Tried = Handed - Len(batch) /\ Tried \in Int
    <3>1. Handed' = Handed /\ Handed \in Nat /\ Handed <= Len(parsed)
      BY <1>4, <2>1 DEF Handed
    <3> QED BY <1>4, <2>1, <2>3, <3>1 DEF Tried
  <2>6. imported' = imported \/ imported' = imported + 1
    BY <2>2
  <2>7. BatchInv'
    <3>1. imported' <= Tried'
      BY <1>1, <1>4, <2>5, <2>6 DEF BatchInv
    <3>2. \A i \in 1 .. Len(batch) - 1 : Tail(batch)[i] = parsed[(Tried + 1) + i]
      <4>1. \A i \in 1 .. Len(batch) - 1 : 1 + i \in 1 .. Len(batch) /\ Tried + (1 + i) = (Tried + 1) + i
        BY <1>4, <2>5
      <4>2. \A i \in 1 .. Len(batch) : batch[i] = parsed[Tried + i]
        BY <1>1 DEF BatchInv
      <4>3. \A i \in 1 .. Len(batch) - 1 : batch[1 + i] = parsed[Tried + (1 + i)]
        BY <4>1, <4>2
      <4> QED BY <2>3, <4>1, <4>3
    <3> QED BY <2>1, <2>3, <2>5, <3>1, <3>2 DEF BatchInv
  <2>8. ParsedOK'
    <3>1. imported' \in Nat /\ imported <= Tried
      BY <1>1, <1>4, <2>6 DEF BatchInv
    <3>2. imported' + Len(batch') \in 0 .. Len(parsed)
      BY <1>4, <2>1, <2>3, <2>5, <2>6, <3>1
    <3> QED BY <1>4, <2>1, <2>3, <3>1, <3>2 DEF ParsedOK
  <2>9. CASE after = rows
    <3>1. aborted' = errand.postgres /\ UNCHANGED <<stock, imported>>
      BY <2>2, <2>9
    <3>2. StockOK' /\ ~Exporting' /\ step' \in Steps /\ {errors', aborted'} \subseteq BOOLEAN
      BY <1>1, <1>3, <2>1, <3>1 DEF StockOK, Exporting, Steps
    <3>3. CountInv'
      BY <1>1, <2>1, <3>1, <3>2 DEF CountInv, Base, Exporting
    <3> QED BY <2>1, <2>7, <2>8, <3>2, <3>3, ImportStep
  <2>10. CASE after # rows
    <3>1. PICK r \in RowType : after = Append(rows, r)
      BY <2>4, <2>10
    <3> HIDE DEF after
    <3>2. stock' = [stock EXCEPT ![subject] = Append(rows, r)] /\ imported' = imported + 1 /\ aborted' = aborted
      BY <2>2, <2>10, <3>1
    <3>3. Append(rows, r) \in Seq(RowType) /\ Len(Append(rows, r)) = Len(rows) + 1 /\ Len(rows) \in Nat
      BY <1>2, AppendProperties
    <3>4. StockOK' /\ ~Exporting' /\ step' \in Steps /\ {errors', aborted'} \subseteq BOOLEAN
      BY <1>1, <1>2, <2>1, <3>2, <3>3 DEF StockOK, Exporting, Steps
    <3>5. Len(stock'[subject]) = Len(rows) + 1
      BY <1>2, <3>2, <3>3
    <3>6. Base \in Nat /\ Base' = Base
      BY <1>2, <2>1 DEF Base
    <3>7. errors \/ imported = Len(rows) - Base
      BY <1>1, <2>1 DEF CountInv
    <3>8. errors \/ imported' = Len(stock'[subject]) - Base
      BY <1>4, <3>2, <3>3, <3>5, <3>6, <3>7
    <3>9. CountInv'
      BY <1>1, <2>1, <3>4, <3>6, <3>8 DEF CountInv, Exporting
    <3> QED BY <2>1, <2>7, <2>8, <3>4, <3>9, ImportStep
  <2> QED BY <2>9, <2>10
<1>11. CASE EndImport
  <2>1. /\ step = "batches" /\ step' = (IF errors THEN "rolled_back" ELSE "committed")
        /\ stock' = (IF errors \/ aborted THEN oldStock ELSE stock)
        /\ UNCHANGED <<errand, tablesLeft, output, offset, page, importVars, meddling, lost>>
    BY <1>11 DEF EndImport
  <2>2. StockOK' /\ ParsedOK' /\ BatchInv'
    BY <1>1, <2>1 DEF StockOK, ParsedOK, BatchInv, Tried, Handed, importVars
  <2>3. ~Exporting' /\ step' \in Steps /\ {errors', aborted'} \subseteq BOOLEAN
    BY <1>1, <2>1 DEF Exporting, Steps, importVars
  <2>4. CountInv'
    BY <1>1, <2>1, <2>3 DEF CountInv, Base, Exporting, importVars
  <2> QED BY <2>1, <2>2, <2>3, <2>4, ImportStep
<1> QED BY <1>5, <1>6, <1>7, <1>8, <1>9, <1>10, <1>11


(* Every step keeps the types. *)
LEMMA TypeStep == TypeInv /\ [TransferNext]_transferVars => TypeInv'
<1> SUFFICES ASSUME TypeInv, [TransferNext]_transferVars PROVE TypeInv'
  OBVIOUS
<1>1. CASE TransferNext
  BY <1>1, ExportTypeStep, ImportTypeStep DEF TransferNext
<1>2. CASE UNCHANGED transferVars
  <2>1. TransferTypeOK'
    BY <1>2 DEF TypeInv, TransferTypeOK, transferVars
  <2>2. BatchInv' /\ CountInv' /\ TableInv'
    BY <1>2 DEF TypeInv, BatchInv, Tried, Handed, CountInv, Exporting, Base, TableInv, transferVars
  <2> QED BY <2>1, <2>2 DEF TypeInv
<1> QED BY <1>1, <1>2

(* The invariant holds in every reachable state. *)
LEMMA TypesHold == TransferSpec => []TypeInv
BY TypeInit, TypeStep, PTL DEF TransferSpec

(* The writers, the parsers and the import keep to their types, and an import does
   not count more rows than the parser gave. *)
THEOREM TransferTypeCorrect == TransferSpec => []TransferTypeOK
<1>1. TypeInv => TransferTypeOK
  BY DEF TypeInv
<1> QED BY <1>1, TypesHold, PTL


-----------------------------------------------------------------------------
(* The round trip: the lines of a file. *)

(* The rows of a table have keys. *)
Keyed(rows) ==
  /\ rows \in Seq(RowType)
  /\ \A i \in 1 .. Len(rows) : /\ rows[i]["id"] \in Nat /\ rows[i]["reference_id"] \in Nat
                               /\ rows[i]["permission"] \in Nat
  /\ \A i, j \in 1 .. Len(rows) : i # j => /\ rows[i]["id"] # rows[j]["id"]
                                           /\ rows[i]["reference_id"] # rows[j]["reference_id"]

(* The rows of a table in a stock. *)
LEMMA StockIsKeyed ==
  ASSUME NEW s \in Stocks, NEW t \in DOMAIN s
  PROVE  Keyed(s[t])
<1>1. s[t] \in Seq(RowType)
  BY TransferAssumption DEF TransferAssumption
<1>2. DOMAIN s[t] = 1 .. Len(s[t])
  BY <1>1
<1>3. \A i \in DOMAIN s[t] : {s[t][i]["id"], s[t][i]["reference_id"], s[t][i]["permission"]} \subseteq Nat
  BY TransferAssumption DEF TransferAssumption
<1>4. \A i, j \in DOMAIN s[t] : i # j => /\ s[t][i]["id"] # s[t][j]["id"]
                                         /\ s[t][i]["reference_id"] # s[t][j]["reference_id"]
  BY TransferAssumption DEF TransferAssumption
<1> QED BY <1>1, <1>2, <1>3, <1>4 DEF Keyed

(* The columns of the file. *)
LEMMA ColsAre1 ==
  ASSUME NEW e \in Errands
  PROVE  /\ Cols(e) \in Seq(Columns) /\ Len(Cols(e)) \in Nat /\ DOMAIN Cols(e) = 1 .. Len(Cols(e))
         /\ Range(Cols(e)) \subseteq Columns
         /\ \A i \in 1 .. Len(Cols(e)) : Cols(e)[i] \in Range(Cols(e))
         /\ e.format = "json" => Cols(e) = AllColumns /\ Range(Cols(e)) = Columns
<1>1. Cols(e) \in Seq(Columns)
  BY ErrandType, ColumnsAre DEF Cols
<1>2. Len(Cols(e)) \in Nat /\ DOMAIN Cols(e) = 1 .. Len(Cols(e))
  BY <1>1
<1>3. Range(Cols(e)) \subseteq Columns /\ \A i \in 1 .. Len(Cols(e)) : Cols(e)[i] \in Range(Cols(e))
  BY <1>1, <1>2 DEF Range
<1> QED BY <1>1, <1>2, <1>3 DEF Cols, Columns

(* The columns of a file that fits: the keys are among them. *)
LEMMA ColsAre2 ==
  ASSUME NEW e \in Errands, NEW rows, Fits(e, rows)
  PROVE  "id" \in Range(Cols(e)) /\ "reference_id" \in Range(Cols(e)) /\ Len(Cols(e)) >= 2
<1>1. "id" \in Range(Cols(e)) /\ "reference_id" \in Range(Cols(e))
  BY ColsAre1, ColumnsAre DEF Fits
<1>2. PICK i \in DOMAIN Cols(e), j \in DOMAIN Cols(e) : Cols(e)[i] = "id" /\ Cols(e)[j] = "reference_id"
  BY <1>1 DEF Range
<1>3. i # j
  BY <1>2
<1> QED BY <1>1, <1>2, <1>3, ColsAre1

(* A line: its type and its cells. *)
LEMMA LineIs ==
  ASSUME NEW tables, NEW e \in Errands, NEW row \in RowType
  PROVE  /\ Line(e, row) \in Tokens(tables) /\ Line(e, row).kind = "row"
         /\ DOMAIN Line(e, row).cells = 1 .. Len(Cols(e)) /\ Len(Line(e, row).cells) = Len(Cols(e))
         /\ \A i \in 1 .. Len(Cols(e)) : Line(e, row).cells[i] = <<Cols(e)[i], Text(e, row[Cols(e)[i]])>>
         /\ \A c \in Range(Cols(e)) : Text(e, row[c]) \in Int
<1> DEFINE text == [c \in Range(Cols(e)) |-> Text(e, row[c])]
<1>1. \A c \in Range(Cols(e)) : Text(e, row[c]) \in Int
  <2> SUFFICES ASSUME NEW c \in Range(Cols(e)) PROVE Text(e, row[c]) \in Int
    OBVIOUS
  <2>1. c \in Columns
    BY ColsAre1
  <2> QED BY <2>1, ColumnsAre DEF Text, EmptyText
<1>2. \A c \in Range(Cols(e)) : text[c] = Text(e, row[c]) /\ text[c] \in Int
  BY <1>1
<1>3. Line(e, row) = Record("row", Cols(e), text)
  BY DEF Line
<1> HIDE DEF text
<1>4. /\ Record("row", Cols(e), text) \in Tokens(tables)
      /\ Len(Record("row", Cols(e), text).cells) = Len(Cols(e))
      /\ DOMAIN Record("row", Cols(e), text).cells = DOMAIN Cols(e)
      /\ \A i \in DOMAIN Cols(e) : Record("row", Cols(e), text).cells[i] = <<Cols(e)[i], text[Cols(e)[i]]>>
      /\ Record("row", Cols(e), text).kind = "row"
  <2>1. Cols(e) \in Seq(Columns) /\ "row" \in Kinds /\ \A c \in Range(Cols(e)) : text[c] \in Int
    BY <1>2, ColsAre1 DEF Kinds
  <2> QED BY <2>1, RecordType
<1> QED BY <1>1, <1>2, <1>3, <1>4, ColsAre1

(* The line of names. *)
LEMMA HeadersAre ==
  ASSUME NEW tables, NEW e \in Errands
  PROVE  /\ Headers(Cols(e)) \in Tokens(tables) /\ Headers(Cols(e)).kind = "header"
         /\ DOMAIN Headers(Cols(e)).cells = 1 .. Len(Cols(e)) /\ Len(Headers(Cols(e)).cells) = Len(Cols(e))
         /\ \A i \in 1 .. Len(Cols(e)) : Headers(Cols(e)).cells[i] = <<Cols(e)[i], 0>>
<1> DEFINE zero == [c \in ToSet(Cols(e)) |-> 0]
<1>1. \A c \in Range(Cols(e)) : zero[c] = 0 /\ zero[c] \in Int
  BY DEF Range, ToSet
<1>2. Headers(Cols(e)) = Record("header", Cols(e), zero)
  BY DEF Headers
<1> HIDE DEF zero
<1>3. /\ Record("header", Cols(e), zero) \in Tokens(tables)
      /\ Len(Record("header", Cols(e), zero).cells) = Len(Cols(e))
      /\ DOMAIN Record("header", Cols(e), zero).cells = DOMAIN Cols(e)
      /\ \A i \in DOMAIN Cols(e) : Record("header", Cols(e), zero).cells[i] = <<Cols(e)[i], zero[Cols(e)[i]]>>
      /\ Record("header", Cols(e), zero).kind = "header"
  <2>1. Cols(e) \in Seq(Columns) /\ "header" \in Kinds /\ \A c \in Range(Cols(e)) : zero[c] \in Int
    BY <1>1, ColsAre1 DEF Kinds
  <2> QED BY <2>1, RecordType
<1> QED BY <1>1, <1>2, <1>3, ColsAre1

(* What a writer writes for a row is its line. *)
LEMMA RowIsLine ==
  ASSUME NEW e \in Errands, NEW row \in RowType
  PROVE  /\ e.format = "json" => Record("row", AllColumns, row) = Line(e, row)
         /\ e.format # "json" => TextRow(Cols(e), row, EmptyText) = <<Line(e, row)>>
<1> DEFINE text == [c \in Range(Cols(e)) |-> Text(e, row[c])]
<1>1. CASE e.format = "json"
  <2>1. Cols(e) = AllColumns /\ \A i \in DOMAIN AllColumns : text[AllColumns[i]] = row[AllColumns[i]]
    <3>1. Cols(e) = AllColumns
      BY <1>1, ColsAre1
    <3>2. \A i \in DOMAIN AllColumns : AllColumns[i] \in Range(Cols(e))
      BY <3>1 DEF Range
    <3>3. \A c \in Range(Cols(e)) : text[c] = row[c]
      BY <1>1 DEF Text
    <3> QED BY <3>1, <3>2, <3>3
  <2>2. Line(e, row) = Record("row", AllColumns, text)
    BY <2>1 DEF Line
  <2> HIDE DEF text
  <2>3. Record("row", AllColumns, text) = Record("row", AllColumns, row)
    BY <2>1 DEF Record
  <2> QED BY <1>1, <2>2, <2>3
<1>2. CASE e.format # "json"
  <2> DEFINE given == [c \in ToSet(Cols(e)) |-> IF row[c] = NoValue THEN EmptyText ELSE row[c]]
  <2>1. given = text
    BY <1>2 DEF Text, ToSet, Range
  <2>2. TextRow(Cols(e), row, EmptyText) = <<Record("row", Cols(e), given)>>
    BY DEF TextRow
  <2>3. Line(e, row) = Record("row", Cols(e), text)
    BY DEF Line
  <2> HIDE DEF text, given
  <2> QED BY <1>2, <2>1, <2>2, <2>3
<1> QED BY <1>1, <1>2


(* A row more is a line more. *)
LEMMA WriteLine ==
  ASSUME NEW tables, NEW e \in Errands, NEW rows, Keyed(rows), Fits(e, rows),
         NEW w, IsWriter(w, tables), w.format = e.format,
         NEW k \in Nat, k < Len(rows), WriterAt(e, rows, w, k)
  PROVE  /\ ~WriteRowFails(w, rows[k + 1])
         /\ WriterAt(e, rows, WriteRow(w, e.subject, rows[k + 1]), k + 1)
<1> DEFINE row == rows[k + 1]
<1>1. row \in RowType /\ k + 1 \in 1 .. Len(rows) /\ Len(rows) \in Nat /\ DOMAIN rows = 1 .. Len(rows)
  BY DEF Keyed
<1>2. w.file \in Seq(Tokens(tables)) /\ Len(w.file) \in Nat
  BY DEF IsWriter
<1>3. Line(e, row) \in Tokens(tables) /\ Mark("comma") \in Tokens(tables)
  <2>1. Mark("comma") \in Tokens(tables)
    BY TokenType DEF Kinds
  <2> QED BY <1>1, <2>1, LineIs
<1>4. e.format = "json" => NotANumber \notin Range(row)
  <2> SUFFICES ASSUME e.format = "json" PROVE NotANumber \notin Range(row)
    OBVIOUS
  <2>1. row["value"] # NotANumber
    BY <1>1 DEF Fits
  <2>2. row["id"] \in Nat /\ row["reference_id"] \in Nat /\ row["permission"] \in Nat
    BY <1>1 DEF Keyed
  <2>3. \A c \in DOMAIN row : row[c] # NotANumber
    BY <1>1, <2>1, <2>2, ColumnsAre DEF NotANumber
  <2> QED BY <2>3 DEF Range
<1>5. ~WriteRowFails(w, row)
  BY <1>4 DEF WriteRowFails
<1> DEFINE v == WriteRow(w, e.subject, row)
<1>6. CASE e.format = "json"
  <2> DEFINE first == IF w.isFirstRow THEN <<>> ELSE <<Mark("comma")>>
  <2>1. v.file = w.file \o (first \o <<Line(e, row)>>) /\ v.isFirstRow = FALSE
    <3>1. JSONRow(w, row) = first \o <<Line(e, row)>>
      BY <1>1, <1>4, <1>6, RowIsLine DEF JSONRow
    <3>2. v.file = w.file \o JSONRow(w, row) /\ v.isFirstRow = FALSE
      BY <1>6 DEF WriteRow, IsWriter
    <3> QED BY <3>1, <3>2
  <2>2. JSONLines(e, rows, w.file, k, 0) /\ (w.isFirstRow <=> k = 0)
    BY <1>6 DEF WriterAt, Written
  <2>3. JSONLines(e, rows, v.file, k + 1, 0)
    <3>1. CASE k = 0
      <4>1. first \o <<Line(e, row)>> = <<Line(e, row)>>
        <5>1. first = <<>>
          BY <2>2, <3>1, Zenon
        <5>2. <<Line(e, row)>> \in Seq(Tokens(tables))
          BY <1>3
        <5> QED BY <5>1, <5>2, ConcatEmptySeq, Zenon
      <4> HIDE DEF v, first
      <4>2. v.file = w.file \o <<Line(e, row)>> /\ Len(w.file) = 2
        <5>1. Len(w.file) = 2
          BY <2>2, <3>1 DEF JSONLines
        <5> QED BY <2>1, <4>1, <5>1, Zenon
      <4>3. Len(v.file) = 3 /\ v.file[1] = w.file[1] /\ v.file[2] = w.file[2] /\ v.file[3] = Line(e, row)
        <5> DEFINE file == w.file
                   last == <<Line(e, row)>>
        <5>1. last \in Seq(Tokens(tables)) /\ Len(last) = 1 /\ last[1] = Line(e, row)
          BY <1>3
        <5>2. file \in Seq(Tokens(tables)) /\ Len(file) = 2
          BY <1>2, <4>2
        <5>3. v.file = file \o last
          BY <4>2
        <5> HIDE DEF file, last
        <5>4. /\ file \o last \in Seq(Tokens(tables)) /\ Len(file \o last) = Len(file) + Len(last)
              /\ \A i \in 1 .. Len(file) + Len(last) : (file \o last)[i] =
                    IF i <= Len(file) THEN file[i] ELSE last[i - Len(file)]
          BY <5>1, <5>2, ConcatProperties
        <5>5. /\ Len(v.file) = 3 /\ v.file[1] = file[1] /\ v.file[2] = file[2]
              /\ v.file[3] = last[1]
          BY <5>1, <5>2, <5>3, <5>4
        <5> QED BY <5>1, <5>5 DEF file
      <4>4. w.file[1] = Mark("object") /\ w.file[2] = Token("array", e.subject)
        BY <2>2 DEF JSONLines
      <4>5. \A j \in 1 .. k + 1 : v.file[2 * j + 1] = Line(e, rows[j])
        BY <3>1, <4>3
      <4>6. \A j \in 1 .. (k + 1) - 1 : v.file[2 * j + 2] = Mark("comma")
        BY <3>1
      <4>7. Len(v.file) = (IF k + 1 = 0 THEN 2 ELSE 2 * (k + 1) + 1) + 0
        BY <3>1, <4>3
      <4> QED BY <4>3, <4>4, <4>5, <4>6, <4>7 DEF JSONLines
    <3>2. CASE k # 0
      <4>1. first = <<Mark("comma")>>
        BY <2>2, <3>2
      <4> DEFINE part == first \o <<Line(e, row)>>
      <4>3. v.file = w.file \o part /\ Len(w.file) = 2 * k + 1
        <5> HIDE DEF v, first, part
        <5>1. Len(w.file) = 2 * k + 1
          BY <2>2, <3>2 DEF JSONLines
        <5> QED BY <2>1, <5>1, Zenon DEF part
      <4>4. part \in Seq(Tokens(tables)) /\ Len(part) = 2 /\ part[1] = Mark("comma") /\ part[2] = Line(e, row)
        <5> DEFINE last == <<Line(e, row)>>
        <5>1. first \in Seq(Tokens(tables)) /\ Len(first) = 1 /\ first[1] = Mark("comma")
          BY <1>3, <4>1
        <5>2. last \in Seq(Tokens(tables)) /\ Len(last) = 1 /\ last[1] = Line(e, row)
          BY <1>3
        <5> HIDE DEF first, last
        <5>3. /\ first \o last \in Seq(Tokens(tables)) /\ Len(first \o last) = Len(first) + Len(last)
              /\ \A i \in 1 .. Len(first) + Len(last) : (first \o last)[i] =
                    IF i <= Len(first) THEN first[i] ELSE last[i - Len(first)]
          BY <5>1, <5>2, ConcatProperties
        <5>4. part = first \o last
          BY DEF part, last
        <5> HIDE DEF part
        <5> QED BY <5>1, <5>2, <5>3, <5>4
      <4> HIDE DEF v, first, part
      <4>5. /\ Len(v.file) = 2 * k + 3 /\ \A i \in 1 .. 2 * k + 1 : v.file[i] = w.file[i]
            /\ v.file[2 * k + 2] = Mark("comma") /\ v.file[2 * k + 3] = Line(e, row)
        <5>1. /\ Len(v.file) = Len(w.file) + 2
              /\ \A i \in 1 .. Len(w.file) + 2 : v.file[i] = IF i <= Len(w.file) THEN w.file[i] ELSE part[i - Len(w.file)]
          <6> DEFINE file == w.file
          <6>1. file \in Seq(Tokens(tables)) /\ v.file = file \o part
            BY <1>2, <4>3
          <6> HIDE DEF file
          <6>2. /\ Len(file \o part) = Len(file) + Len(part)
                /\ \A i \in 1 .. Len(file) + Len(part) : (file \o part)[i] =
                      IF i <= Len(file) THEN file[i] ELSE part[i - Len(file)]
            BY <4>4, <6>1, ConcatProperties
          <6> QED BY <4>4, <6>1, <6>2 DEF file
        <5>2. v.file[2 * k + 2] = part[1] /\ v.file[2 * k + 3] = part[2]
          <6>1. /\ 2 * k + 2 \in 1 .. Len(w.file) + 2 /\ 2 * k + 3 \in 1 .. Len(w.file) + 2
                /\ ~(2 * k + 2 <= Len(w.file)) /\ ~(2 * k + 3 <= Len(w.file))
                /\ (2 * k + 2) - Len(w.file) = 1 /\ (2 * k + 3) - Len(w.file) = 2
            BY <4>3
          <6> QED BY <5>1, <6>1
        <5> QED BY <4>3, <4>4, <5>1, <5>2
      <4>6. v.file[1] = Mark("object") /\ v.file[2] = Token("array", e.subject)
        BY <2>2, <3>2, <4>5 DEF JSONLines
      <4>7. \A j \in 1 .. k + 1 : v.file[2 * j + 1] = Line(e, rows[j])
        <5> SUFFICES ASSUME NEW j \in 1 .. k + 1 PROVE v.file[2 * j + 1] = Line(e, rows[j])
          OBVIOUS
        <5>1. CASE j = k + 1
          BY <4>5, <5>1
        <5>2. CASE j # k + 1
          <6>1. j \in 1 .. k /\ 2 * j + 1 \in 1 .. 2 * k + 1
            BY <5>2
          <6> QED BY <2>2, <4>5, <6>1 DEF JSONLines
        <5> QED BY <5>1, <5>2
      <4>8. \A j \in 1 .. (k + 1) - 1 : v.file[2 * j + 2] = Mark("comma")
        <5> SUFFICES ASSUME NEW j \in 1 .. k PROVE v.file[2 * j + 2] = Mark("comma")
          OBVIOUS
        <5>1. CASE j = k
          BY <4>5, <5>1
        <5>2. CASE j # k
          <6>1. j \in 1 .. k - 1 /\ 2 * j + 2 \in 1 .. 2 * k + 1
            BY <5>2
          <6> QED BY <2>2, <4>5, <6>1 DEF JSONLines
        <5> QED BY <5>1, <5>2
      <4>9. Len(v.file) = (IF k + 1 = 0 THEN 2 ELSE 2 * (k + 1) + 1) + 0
        BY <4>5
      <4> QED BY <4>6, <4>7, <4>8, <4>9 DEF JSONLines
    <3> QED BY <3>1, <3>2
  <2> HIDE DEF v
  <2> QED BY <1>5, <1>6, <2>1, <2>3 DEF WriterAt, Written, Knows, v
<1>7. CASE e.format # "json"
  <2>1. e.format \in {"csv", "xlsx"} /\ w.selected[e.subject] = Cols(e) /\ e.subject \in DOMAIN w.selected
    BY <1>7 DEF Fits, WriterAt, Knows
  <2>2. CSVRow(Cols(e), row) = <<Line(e, row)>> /\ XLSXRow(Cols(e), row) = <<Line(e, row)>>
    <3>1. TextRow(Cols(e), row, EmptyText) = <<Line(e, row)>>
      BY <1>1, <1>7, RowIsLine
    <3>2. Len(Cols(e)) # 1
      BY ColsAre1, ColsAre2
    <3> QED BY <3>1, <3>2 DEF CSVRow, XLSXRow
  <2>3. v.file = w.file \o <<Line(e, row)>> /\ v.isFirstRow = FALSE /\ v.selected = w.selected
    <3> DEFINE part == [json |-> JSONRow(w, row), html |-> HTMLRow(Cols(e), row),
                        csv |-> CSVRow(Cols(e), row), xlsx |-> XLSXRow(Cols(e), row),
                        pdf |-> PDFRow(Cols(e), row)][w.format]
    <3>1. part = <<Line(e, row)>>
      <4>1. w.format = "csv" \/ w.format = "xlsx"
        BY <2>1
      <4> HIDE DEF row
      <4> QED BY <2>2, <4>1
    <3>2. v = [w EXCEPT !.isFirstRow = FALSE, !.file = w.file \o part]
      BY <2>1 DEF WriteRow
    <3> HIDE DEF part, v
    <3> QED BY <3>1, <3>2 DEF IsWriter
  <2> HIDE DEF v
  <2>4. /\ Len(v.file) = Len(w.file) + 1 /\ v.file[Len(w.file) + 1] = Line(e, row)
        /\ \A i \in 1 .. Len(w.file) : v.file[i] = w.file[i]
    BY <1>2, <1>3, <2>3
  <2>5. ASSUME NEW n \in 1 .. 2, Lines(e, rows, w.file, n, k)
        PROVE  Lines(e, rows, v.file, n, k + 1) /\ \A i \in 1 .. n : v.file[i] = w.file[i]
    <3>1. Len(w.file) = n + k /\ \A j \in 1 .. k : w.file[n + j] = Line(e, rows[j])
      BY <2>5 DEF Lines
    <3>2. Len(v.file) = n + (k + 1)
      BY <2>4, <3>1
    <3>3. \A j \in 1 .. k + 1 : v.file[n + j] = Line(e, rows[j])
      <4> SUFFICES ASSUME NEW j \in 1 .. k + 1 PROVE v.file[n + j] = Line(e, rows[j])
        OBVIOUS
      <4>1. CASE j = k + 1
        BY <2>4, <3>1, <4>1
      <4>2. CASE j # k + 1
        <5>1. j \in 1 .. k /\ n + j \in 1 .. Len(w.file)
          BY <3>1, <4>2
        <5> QED BY <2>4, <3>1, <5>1
      <4> QED BY <4>1, <4>2
    <3> QED BY <2>4, <3>1, <3>2, <3>3 DEF Lines
  <2>6. Written(e, rows, v.file, k + 1, 0)
    <3>1. Written(e, rows, w.file, k, 0)
      BY DEF WriterAt
    <3>2. CASE e.format = "csv"
      <4>1. Lines(e, rows, v.file, 1, k + 1) /\ v.file[1] = w.file[1]
        BY <2>5, <3>1, <3>2 DEF Written
      <4> QED BY <3>1, <3>2, <4>1 DEF Written
    <3>3. CASE e.format = "xlsx"
      <4>1. Lines(e, rows, v.file, 2, k + 1) /\ v.file[1] = w.file[1] /\ v.file[2] = w.file[2]
        BY <2>5, <3>1, <3>3 DEF Written
      <4> QED BY <3>1, <3>3, <4>1 DEF Written
    <3> QED BY <2>1, <3>2, <3>3
  <2> QED BY <1>5, <2>1, <2>3, <2>6 DEF WriterAt, Knows, v
<1> QED BY <1>6, <1>7


Empty(e) == Initialize(e.format, Selection(e), e.includeHeaders)

(* The file when the table was opened, before its headers. *)
Opens(e, file) ==
  /\ e.format = "json" => Len(file) = 2 /\ file[1] = Mark("object") /\ file[2] = Token("array", e.subject)
  /\ e.format = "csv" => file = <<>>
  /\ e.format = "xlsx" => Len(file) = 1 /\ file[1] = Token("sheet", e.subject)

(* The writer that has opened the only table. *)
LEMMA OpenedIs ==
  ASSUME NEW e \in Errands, NEW rows, Fits(e, rows)
  PROVE  LET w == WriteTableOf(Empty(e), e.subject)
         IN  /\ Opens(e, w.file) /\ w.format = e.format /\ w.selected = Selection(e)
             /\ w.isFirstRow = TRUE /\ w.columnsWritten = {} /\ w.includeHeaders = e.includeHeaders
             /\ IsWriter(w, ToSet(e.tables)) /\ e.subject \in ToSet(e.tables)
             /\ DOMAIN Selection(e) = (IF e.columns = <<>> THEN {} ELSE {e.subject})
             /\ e.columns # <<>> => Selection(e)[e.subject] = e.columns
<1> DEFINE w == WriteTableOf(Empty(e), e.subject)
<1>1. e.tables = <<e.subject>> /\ ToSet(e.tables) = {e.subject} /\ e.format \in {"json", "csv", "xlsx"}
  <2>1. e.tables = <<e.subject>> /\ e.format \in {"json", "csv", "xlsx"}
    BY DEF Fits
  <2>2. ToSet(<<e.subject>>) = {e.subject}
    BY DEF ToSet
  <2> QED BY <2>1, <2>2
<1>2. DOMAIN Selection(e) = (IF e.columns = <<>> THEN {} ELSE {e.subject})
      /\ (e.columns # <<>> => Selection(e)[e.subject] = e.columns)
  BY <1>1 DEF Selection
<1>3. /\ Empty(e).format = e.format /\ Empty(e).selected = Selection(e) /\ Empty(e).tableCount = 0
      /\ Empty(e).columnsWritten = {} /\ Empty(e).includeHeaders = e.includeHeaders
      /\ Empty(e).file = (IF e.format = "json" THEN <<Mark("object")>> ELSE <<>>)
  BY <1>1 DEF Empty, Initialize
<1>4. IsWriter(Empty(e), ToSet(e.tables)) /\ IsWriter(w, ToSet(e.tables)) /\ e.subject \in ToSet(e.tables)
      /\ w.format = e.format /\ w.selected = Selection(e)
  <2>1. IsWriter(Empty(e), ToSet(e.tables))
    BY InitializeType DEF Empty
  <2> QED BY <1>1, <1>3, <2>1, WriteTableType, SMTT(30)
<1> DEFINE part == [json |-> JSONTable(Empty(e), e.subject), html |-> HTMLTable(Empty(e), e.subject),
                    csv |-> CSVTable(Empty(e), e.subject), xlsx |-> XLSXTable(Empty(e), e.subject),
                    pdf |-> PDFTable(Empty(e), e.subject)][Empty(e).format]
<1>5. w = [Empty(e) EXCEPT !.tableCount = Empty(e).tableCount + 1, !.isFirstRow = TRUE,
                           !.file = Empty(e).file \o part]
  BY DEF WriteTableOf
<1>6. /\ e.format = "json" => part = JSONTable(Empty(e), e.subject)
      /\ e.format = "csv" => part = CSVTable(Empty(e), e.subject)
      /\ e.format = "xlsx" => part = XLSXTable(Empty(e), e.subject)
  BY <1>3
<1> HIDE DEF w, part
<1>7. /\ w.isFirstRow = TRUE /\ w.columnsWritten = {} /\ w.includeHeaders = e.includeHeaders
      /\ w.file = Empty(e).file \o part
  BY <1>3, <1>4, <1>5 DEF IsWriter
<1> DEFINE T == Tokens(ToSet(e.tables))
<1>8. Mark("object") \in T /\ Token("array", e.subject) \in T /\ Token("sheet", e.subject) \in T
  <2>1. "object" \in Kinds /\ "array" \in Kinds /\ "sheet" \in Kinds
    BY DEF Kinds
  <2> QED BY <1>1, <2>1, TokenType
<1>9. Opens(e, w.file)
  <2>1. CASE e.format = "json"
    <3> DEFINE a == <<Mark("object")>>
    <3> DEFINE b == <<Token("array", e.subject)>>
    <3>1. a \in Seq(T) /\ Len(a) = 1 /\ a[1] = Mark("object")
          /\ b \in Seq(T) /\ Len(b) = 1 /\ b[1] = Token("array", e.subject)
      BY <1>8
    <3>2. part = <<>> \o b /\ Empty(e).file = a
      BY <1>3, <1>6, <2>1 DEF JSONTable
    <3> HIDE DEF a, b, T
    <3>3. part = b
      BY <3>1, <3>2, ConcatEmptySeq
    <3>4. /\ Len(a \o b) = Len(a) + Len(b)
          /\ \A i \in 1 .. Len(a) + Len(b) : (a \o b)[i] = IF i <= Len(a) THEN a[i] ELSE b[i - Len(a)]
      BY <3>1, ConcatProperties
    <3>5. w.file = a \o b
      BY <1>7, <3>2, <3>3
    <3>6. Len(w.file) = 2 /\ w.file[1] = Mark("object") /\ w.file[2] = Token("array", e.subject)
      BY <3>1, <3>4, <3>5
    <3> QED BY <2>1, <3>6 DEF Opens
  <2>2. CASE e.format = "csv"
    <3>1. ~(Cardinality(DOMAIN Selection(e)) > 1)
      <4>1. Cardinality({}) = 0 /\ Cardinality({e.subject}) = 1
        BY FS_EmptySet, FS_Singleton
      <4> QED BY <1>2, <4>1
    <3>2. part = <<>>
      <4>1. CSVTable(Empty(e), e.subject) = <<>>
        BY <1>3, <3>1, Zenon DEF CSVTable
      <4> QED BY <1>6, <2>2, <4>1
    <3>3. w.file = <<>>
      <4>1. <<>> \in Seq(T)
        OBVIOUS
      <4>2. w.file = <<>> \o <<>>
        BY <1>3, <1>7, <2>2, <3>2
      <4> QED BY <4>1, <4>2, ConcatEmptySeq
    <3> QED BY <2>2, <3>3 DEF Opens
  <2>3. CASE e.format = "xlsx"
    <3> DEFINE b == <<Token("sheet", e.subject)>>
    <3>1. b \in Seq(T) /\ Len(b) = 1 /\ b[1] = Token("sheet", e.subject)
      BY <1>8
    <3>2. part = b /\ Empty(e).file = <<>>
      BY <1>3, <1>6, <2>3 DEF XLSXTable
    <3> HIDE DEF b, T
    <3>3. w.file = b
      BY <1>7, <3>1, <3>2, ConcatEmptySeq
    <3> QED BY <2>3, <3>1, <3>3 DEF Opens
  <2> QED BY <1>1, <2>1, <2>2, <2>3
<1> QED BY <1>2, <1>4, <1>7, <1>9 DEF w

(* The headers of the opened table, once the columns are known. *)
LEMMA HeadersWritten ==
  ASSUME NEW e \in Errands, NEW rows, Fits(e, rows), NEW w, IsWriter(w, ToSet(e.tables)),
         Opens(e, w.file), w.format = e.format, w.isFirstRow = TRUE, w.columnsWritten = {},
         w.includeHeaders = e.includeHeaders, NEW columns,
         e.format # "json" =>
           e.subject \in DOMAIN w.selected /\ w.selected[e.subject] = columns /\ columns = Cols(e)
  PROVE  WriterAt(e, rows, WriteHeaders(w, e.subject, columns), 0)
<1>1. CASE e.format = "json"
  <2>1. WriteHeaders(w, e.subject, columns) = w
    BY <1>1 DEF WriteHeaders
  <2>2. JSONLines(e, rows, w.file, 0, 0)
    BY <1>1 DEF JSONLines, Opens
  <2> QED BY <1>1, <2>1, <2>2 DEF WriterAt, Written, Knows
<1>2. CASE e.format # "json"
  <2>1. e.format \in {"csv", "xlsx"} /\ e.includeHeaders = TRUE /\ columns = Cols(e)
        /\ e.subject \in DOMAIN w.selected /\ w.selected[e.subject] = columns
    BY <1>2, ErrandType DEF Fits
  <2> DEFINE v == WriteHeaders(w, e.subject, columns)
  <2>2. v = [w EXCEPT !.file = Append(w.file, Headers(columns)),
                      !.columnsWritten = w.columnsWritten \cup {e.subject}]
    BY <2>1 DEF WriteHeaders
  <2> HIDE DEF v
  <2>3. v.file = Append(w.file, Headers(columns)) /\ v.selected = w.selected /\ v.isFirstRow = TRUE
    BY <2>2 DEF IsWriter
  <2>4. w.file \in Seq(Tokens(ToSet(e.tables))) /\ Headers(columns) \in Tokens(ToSet(e.tables))
    BY <2>1, HeadersAre DEF IsWriter
  <2>5. /\ Len(v.file) = Len(w.file) + 1 /\ v.file[Len(w.file) + 1] = Headers(columns)
        /\ \A i \in 1 .. Len(w.file) : v.file[i] = w.file[i]
    BY <2>3, <2>4, AppendProperties
  <2>6. Written(e, rows, v.file, 0, 0)
    <3>1. CASE e.format = "csv"
      <4>1. Len(w.file) = 0
        BY <3>1 DEF Opens
      <4> QED BY <2>1, <2>5, <3>1, <4>1 DEF Written, Lines
    <3>2. CASE e.format = "xlsx"
      <4>1. Len(w.file) = 1 /\ w.file[1] = Token("sheet", e.subject)
        BY <3>2 DEF Opens
      <4> QED BY <2>1, <2>5, <3>2, <4>1 DEF Written, Lines
    <3> QED BY <2>1, <3>1, <3>2
  <2> QED BY <2>1, <2>3, <2>6 DEF WriterAt, Knows, v
<1> QED BY <1>1, <1>2

(* The end of the file. *)
LEMMA FileFinished ==
  ASSUME NEW tables, NEW e \in Errands, NEW rows, Keyed(rows), Fits(e, rows), NEW w, IsWriter(w, tables),
         w.format = e.format, WriterAt(e, rows, w, Len(rows))
  PROVE  Written(e, rows, Finalize(w), Len(rows), 1)
<1>1. Written(e, rows, w.file, Len(rows), 0) /\ Len(rows) \in Nat
  BY DEF WriterAt, Keyed
<1>2. CASE e.format = "json"
  <2>1. Mark("end") \in Tokens(tables) /\ w.file \in Seq(Tokens(tables))
    BY TokenType DEF Kinds, IsWriter
  <2>2. Finalize(w) = Append(w.file, Mark("end"))
    BY <1>2 DEF Finalize
  <2>3. Len(Finalize(w)) = Len(w.file) + 1 /\ \A i \in 1 .. Len(w.file) : Finalize(w)[i] = w.file[i]
    BY <2>1, <2>2, AppendProperties
  <2>4. JSONLines(e, rows, w.file, Len(rows), 0)
    BY <1>1, <1>2 DEF Written
  <2>5. Len(w.file) = (IF Len(rows) = 0 THEN 2 ELSE 2 * Len(rows) + 1)
    BY <1>1, <2>4 DEF JSONLines
  <2> DEFINE n == Len(rows)
  <2> DEFINE f == Finalize(w)
  <2>6. f[1] = Mark("object") /\ f[2] = Token("array", e.subject)
    <3>1. 1 \in 1 .. Len(w.file) /\ 2 \in 1 .. Len(w.file)
      BY <1>1, <2>5
    <3> QED BY <2>3, <2>4, <3>1 DEF JSONLines
  <2>7. \A j \in 1 .. n : f[2 * j + 1] = Line(e, rows[j])
    <3>1. \A j \in 1 .. n : 2 * j + 1 \in 1 .. Len(w.file)
      BY <1>1, <2>5
    <3> QED BY <2>3, <2>4, <3>1 DEF JSONLines
  <2>8. \A j \in 1 .. n - 1 : f[2 * j + 2] = Mark("comma")
    <3>1. \A j \in 1 .. n - 1 : 2 * j + 2 \in 1 .. Len(w.file)
      BY <1>1, <2>5
    <3> QED BY <2>3, <2>4, <3>1 DEF JSONLines
  <2>9. JSONLines(e, rows, f, n, 1)
    <3> HIDE DEF f
    <3> QED BY <2>3, <2>5, <2>6, <2>7, <2>8 DEF JSONLines, f
  <2> QED BY <1>2, <2>9 DEF Written
<1>3. CASE e.format # "json"
  <2>1. Finalize(w) = w.file
    BY <1>3 DEF Finalize, Fits
  <2> QED BY <1>1, <1>3, <2>1 DEF Written
<1> QED BY <1>2, <1>3


-----------------------------------------------------------------------------
(* The round trip: what is read from the lines. *)

(* The cells of a line as a row. *)
LEMMA CellsAsMap ==
  ASSUME NEW e \in Errands, NEW row \in RowType
  PROVE  IsLine(e, AsMap(Line(e, row).cells), row)
<1> DEFINE cells == Line(e, row).cells
<1> DEFINE D == {cells[i][1] : i \in DOMAIN cells}
<1>1. /\ DOMAIN cells = 1 .. Len(Cols(e))
      /\ \A i \in 1 .. Len(Cols(e)) : cells[i] = <<Cols(e)[i], Text(e, row[Cols(e)[i]])>>
  BY LineIs
<1>2. AsMap(cells) = [c \in D |-> (CHOOSE cell \in ToSet(cells) : cell[1] = c)[2]]
  BY DEF AsMap
<1> HIDE DEF cells
<1>3. D = Range(Cols(e))
  <2>1. \A i \in 1 .. Len(Cols(e)) : cells[i][1] = Cols(e)[i]
    BY <1>1
  <2> DEFINE S == Range(Cols(e))
  <2>2. \A c : c \in S <=> \E i \in 1 .. Len(Cols(e)) : c = Cols(e)[i]
    BY ColsAre1 DEF Range
  <2>3. \A c : c \in D <=> \E i \in 1 .. Len(Cols(e)) : c = cells[i][1]
    BY <1>1
  <2> HIDE DEF S, D
  <2>4. \A c : c \in D <=> c \in S
    BY <2>1, <2>2, <2>3
  <2>5. D = S
    BY <2>4
  <2> QED BY <2>5 DEF S
<1>4. ASSUME NEW c \in D
      PROVE  (CHOOSE cell \in ToSet(cells) : cell[1] = c)[2] = Text(e, row[c])
  <2>1. \E cell \in ToSet(cells) : cell[1] = c
    BY DEF ToSet
  <2> DEFINE cell == CHOOSE cell \in ToSet(cells) : cell[1] = c
  <2>2. cell \in ToSet(cells) /\ cell[1] = c
    BY <2>1
  <2> HIDE DEF cell
  <2>3. PICK i \in 1 .. Len(Cols(e)) : cell = cells[i]
    BY <1>1, <2>2 DEF ToSet
  <2>4. cell = <<Cols(e)[i], Text(e, row[Cols(e)[i]])>>
    BY <1>1, <2>3
  <2>5. Cols(e)[i] = c /\ cell[2] = Text(e, row[Cols(e)[i]])
    BY <2>2, <2>4
  <2> QED BY <2>5 DEF cell
<1> HIDE DEF D
<1>5. DOMAIN AsMap(cells) = Range(Cols(e)) /\ \A c \in Range(Cols(e)) : AsMap(cells)[c] = Text(e, row[c])
  BY <1>2, <1>3, <1>4
<1> QED BY <1>5 DEF IsLine, cells

(* The rows of a JSON file. *)
LEMMA JSONParsed ==
  ASSUME NEW tables, NEW e \in Errands, NEW rows, Keyed(rows), e.format = "json",
         NEW file \in Seq(Tokens(tables)), Written(e, rows, file, Len(rows), 1),
         ParseJSON(file, e.subject).ok
  PROVE  AreLines(e, ParseJSON(file, e.subject).rows, rows)
<1> DEFINE n == Len(rows)
<1> DEFINE inner == SubSeq(file, 3, Len(file) - 1)
<1> DEFINE parsedRows == [i \in 1 .. (Len(inner) + 1) \div 2 |-> AsMap(inner[2 * i - 1].cells)]
<1>1. ParseJSON(file, e.subject) = Failed \/ ParseJSON(file, e.subject) = Parsed(parsedRows)
  BY DEF ParseJSON
<1>2. ParseJSON(file, e.subject).rows = parsedRows
  <2>1. CASE ParseJSON(file, e.subject) = Failed
    <3>1. Failed.ok = FALSE
      BY DEF Failed
    <3> QED BY <2>1, <3>1
  <2>2. CASE ParseJSON(file, e.subject) = Parsed(parsedRows)
    <3> HIDE DEF parsedRows
    <3> QED BY <2>2 DEF Parsed
  <2> QED BY <1>1, <2>1, <2>2
<1>3. n \in Nat /\ Len(file) = (IF n = 0 THEN 2 ELSE 2 * n + 1) + 1
      /\ \A j \in 1 .. n : file[2 * j + 1] = Line(e, rows[j])
  BY DEF Keyed, Written, JSONLines
<1>4. Len(inner) = (IF n = 0 THEN 0 ELSE 2 * n - 1) /\ \A i \in 1 .. 2 * n - 1 : inner[i] = file[i + 2]
  <2> DEFINE last == Len(file) - 1
  <2>1. last \in Int /\ last = (IF n = 0 THEN 2 ELSE 2 * n + 1) /\ last <= Len(file)
    BY <1>3
  <2>2. \A i \in 3 .. last : file[i] \in Tokens(tables)
    BY <2>1
  <2> HIDE DEF last, n
  <2>3. /\ Len(SubSeq(file, 3, last)) = (IF 3 <= last THEN last - 3 + 1 ELSE 0)
        /\ \A i \in 1 .. last - 3 + 1 : SubSeq(file, 3, last)[i] = file[3 + i - 1]
    BY <2>1, <2>2, SubSeqProperties
  <2>4. inner = SubSeq(file, 3, last)
    BY DEF last
  <2> HIDE DEF inner
  <2>5. Len(inner) = IF n = 0 THEN 0 ELSE 2 * n - 1
    BY <1>3, <2>1, <2>3, <2>4
  <2>6. \A i \in 1 .. 2 * n - 1 : i \in 1 .. last - 3 + 1 /\ 3 + i - 1 = i + 2
    BY <1>3, <2>1
  <2> QED BY <2>3, <2>4, <2>5, <2>6
<1> HIDE DEF inner, n
<1>5. (Len(inner) + 1) \div 2 = n
  <2>1. CASE n = 0
    <3>1. Len(inner) = 0
      BY <1>4, <2>1
    <3> QED BY <2>1, <3>1
  <2>2. CASE n # 0
    <3>1. Len(inner) + 1 = 2 * n
      BY <1>3, <1>4, <2>2
    <3>2. (2 * n) \div 2 = n
      BY <1>3
    <3> QED BY <3>1, <3>2
  <2> QED BY <2>1, <2>2
<1>6. parsedRows = [i \in 1 .. n |-> AsMap(inner[2 * i - 1].cells)]
  BY <1>5
<1>7. \A i \in 1 .. n : inner[2 * i - 1] = Line(e, rows[i])
  <2>1. \A i \in 1 .. n : 2 * i - 1 \in 1 .. 2 * n - 1 /\ (2 * i - 1) + 2 = 2 * i + 1
    BY <1>3
  <2> QED BY <1>3, <1>4, <2>1
<1> HIDE DEF parsedRows
<1>8. \A i \in 1 .. n : parsedRows[i] = AsMap(Line(e, rows[i]).cells)
  BY <1>6, <1>7
<1>9. Len(parsedRows) = n
  BY <1>3, <1>6
<1>10. \A i \in 1 .. n : rows[i] \in RowType
  BY DEF Keyed, n
<1>11. \A i \in 1 .. n : IsLine(e, parsedRows[i], rows[i])
  BY <1>8, <1>10, CellsAsMap
<1> QED BY <1>2, <1>9, <1>11 DEF AreLines, n

(* The rows of records under a line of names. *)
LEMMA RecordsParsed ==
  ASSUME NEW e \in Errands, NEW rows, Keyed(rows), NEW records, Len(records) = Len(rows) + 1,
         records # <<>>, records[1] = Headers(Cols(e)), \A j \in 1 .. Len(rows) : records[j + 1] = Line(e, rows[j])
  PROVE  AreLines(e, ParseRecords(records).rows, rows)
<1> DEFINE first == records[1].cells
<1> DEFINE at(record) == {i \in DOMAIN first : i <= Len(record.cells)}
<1> DEFINE row(record) == [c \in {first[i][1] : i \in at(record)} |->
                             record.cells[CHOOSE i \in at(record) : first[i][1] = c][2]]
<1> DEFINE result == [i \in 1 .. Len(records) - 1 |-> row(records[i + 1])]
<1>1. records[1].kind = "header" /\ DOMAIN first = 1 .. Len(Cols(e))
      /\ \A i \in 1 .. Len(Cols(e)) : first[i] = <<Cols(e)[i], 0>>
  BY HeadersAre
<1>2. ParseRecords(records) = Parsed(result)
  BY <1>1 DEF ParseRecords
<1>3. ParseRecords(records).rows = result
  BY <1>2 DEF Parsed
<1> HIDE DEF first
<1>4. Len(rows) \in Nat /\ Len(records) - 1 = Len(rows)
  BY DEF Keyed
<1>5. ASSUME NEW j \in 1 .. Len(rows) PROVE IsLine(e, row(records[j + 1]), rows[j])
  <2> DEFINE record == records[j + 1]
  <2>1. record = Line(e, rows[j]) /\ rows[j] \in RowType
    BY DEF Keyed
  <2>2. /\ DOMAIN record.cells = 1 .. Len(Cols(e)) /\ Len(record.cells) = Len(Cols(e))
        /\ \A i \in 1 .. Len(Cols(e)) : record.cells[i] = <<Cols(e)[i], Text(e, rows[j][Cols(e)[i]])>>
    <3> HIDE DEF record
    <3> QED BY <2>1, LineIs
  <2>3. at(record) = 1 .. Len(Cols(e))
    BY <1>1, <2>2, ColsAre1
  <2> DEFINE D == {first[i][1] : i \in at(record)}
  <2>4. D = Range(Cols(e))
    <3>1. \A i \in 1 .. Len(Cols(e)) : first[i][1] = Cols(e)[i]
      BY <1>1
    <3> HIDE DEF record, at
    <3>2. Range(Cols(e)) = {Cols(e)[i] : i \in 1 .. Len(Cols(e))}
      BY ColsAre1 DEF Range
    <3>3. D = {first[i][1] : i \in 1 .. Len(Cols(e))}
      BY <2>3
    <3> HIDE DEF D
    <3>4. D \subseteq Range(Cols(e)) /\ Range(Cols(e)) \subseteq D
      BY <3>1, <3>2, <3>3
    <3> QED BY <3>4
  <2>5. row(record) = [c \in D |-> record.cells[CHOOSE i \in at(record) : first[i][1] = c][2]]
    OBVIOUS
  <2> HIDE DEF record, row, at
  <2>6. ASSUME NEW c \in D
        PROVE  record.cells[CHOOSE i \in at(record) : first[i][1] = c][2] = Text(e, rows[j][c])
    <3>1. \E i \in at(record) : first[i][1] = c
      OBVIOUS
    <3> DEFINE i == CHOOSE i \in at(record) : first[i][1] = c
    <3>2. i \in at(record) /\ first[i][1] = c
      BY <3>1
    <3> HIDE DEF i
    <3>3. i \in 1 .. Len(Cols(e)) /\ Cols(e)[i] = c
      BY <1>1, <2>3, <3>2
    <3>4. record.cells[i] = <<Cols(e)[i], Text(e, rows[j][Cols(e)[i]])>>
      BY <2>2, <3>3
    <3>5. record.cells[i][2] = Text(e, rows[j][c])
      BY <3>3, <3>4
    <3> QED BY <3>5 DEF i
  <2> HIDE DEF D
  <2>7. DOMAIN row(record) = Range(Cols(e)) /\ \A c \in Range(Cols(e)) : row(record)[c] = Text(e, rows[j][c])
    BY <2>4, <2>5, <2>6
  <2> QED BY <2>7 DEF IsLine, record
<1> HIDE DEF row
<1>6. Len(result) = Len(rows) /\ \A j \in 1 .. Len(rows) : result[j] = row(records[j + 1])
  BY <1>4
<1> HIDE DEF result
<1> QED BY <1>3, <1>5, <1>6 DEF AreLines


(* The rows of a CSV file. *)
LEMMA CSVParsed ==
  ASSUME NEW tables, NEW e \in Errands, NEW rows, Keyed(rows), Fits(e, rows), e.format = "csv",
         NEW file \in Seq(Tokens(tables)), Written(e, rows, file, Len(rows), 1),
         ParseCSV(file, e.subject).ok
  PROVE  AreLines(e, ParseCSV(file, e.subject).rows, rows)
<1> DEFINE n == Len(rows)
<1> DEFINE fields(r) == IF r.kind = "title" THEN 1 ELSE Len(r.cells)
<1> DEFINE titles == {i \in DOMAIN file : file[i].kind = "title" \/ file[i].cells[1][2] = TitleLike}
<1> DEFINE filled == DOMAIN file \ titles
<1> DEFINE before == {0} \cup {i \in titles : i < Max(filled)}
<1>1. /\ n \in Nat /\ Len(file) = 1 + n /\ file[1] = Headers(Cols(e)) /\ DOMAIN file = 1 .. n + 1
      /\ \A j \in 1 .. n : file[1 + j] = Line(e, rows[j])
  BY DEF Keyed, Written, Lines
<1>2. 1 \in 1 .. Len(Cols(e)) /\ Cols(e)[1] \in Range(Cols(e)) /\ Cols(e)[1] \in Columns
  BY ColsAre1, ColsAre2
<1>3. ASSUME NEW i \in 1 .. n + 1 PROVE i \notin titles
  <2>1. CASE i = 1
    <3>1. file[1].kind = "header" /\ file[1].cells[1] = <<Cols(e)[1], 0>>
      BY <1>1, <1>2, HeadersAre
    <3>2. file[1].cells[1][2] = 0
      BY <3>1
    <3> QED BY <2>1, <3>1, <3>2 DEF TitleLike
  <2>2. CASE i # 1
    <3> DEFINE j == i - 1
    <3>1. j \in 1 .. n /\ i = 1 + j
      BY <1>1, <2>2
    <3> HIDE DEF j
    <3>2. file[i] = Line(e, rows[j]) /\ rows[j] \in RowType
      BY <1>1, <3>1 DEF Keyed
    <3>3. file[i].kind = "row" /\ file[i].cells[1] = <<Cols(e)[1], Text(e, rows[j][Cols(e)[1]])>>
      BY <1>2, <3>2, LineIs
    <3>4. file[i].cells[1][2] = Text(e, rows[j][Cols(e)[1]])
      BY <3>3
    <3>5. rows[j][Cols(e)[1]] # TitleLike
      <4>1. CASE Cols(e)[1] = "value"
        <5>1. j \in DOMAIN rows
          BY <3>1 DEF Keyed
        <5> QED BY <4>1, <5>1 DEF Fits
      <4>2. CASE Cols(e)[1] # "value"
        <5>1. Cols(e)[1] \in {"id", "reference_id", "permission"}
          BY <1>2, <4>2, ColumnsAre
        <5>2. rows[j]["id"] \in Nat /\ rows[j]["reference_id"] \in Nat /\ rows[j]["permission"] \in Nat
          BY <3>1 DEF Keyed
        <5> QED BY <5>1, <5>2 DEF TitleLike
      <4> QED BY <4>1, <4>2
    <3>6. Text(e, rows[j][Cols(e)[1]]) # TitleLike
      BY <3>5 DEF Text, EmptyText, TitleLike
    <3> QED BY <3>3, <3>4, <3>6
  <2> QED BY <2>1, <2>2
<1>4. titles = {} /\ filled = 1 .. n + 1
  <2>1. titles \subseteq 1 .. n + 1
    BY <1>1
  <2>2. titles = {}
    BY <1>3, <2>1
  <2> QED BY <1>1, <2>2
<1>5. before = {0}
  BY <1>4
<1>6. Max(before) = 0 /\ Max(filled) = n + 1
  <2> HIDE DEF before, filled, n
  <2>1. n + 1 \in Nat /\ n + 1 \in 1 .. n + 1 /\ (1 .. n + 1) \subseteq (0 .. n + 1) /\ (1 .. n + 1) # {}
    <3>1. n \in Nat
      BY <1>1
    <3>2. n + 1 \in Nat /\ n + 1 \in 1 .. n + 1
      BY <3>1
    <3>3. (1 .. n + 1) \subseteq (0 .. n + 1)
      BY <3>1
    <3> QED BY <3>2, <3>3
  <2>2. Max(1 .. n + 1) \in 1 .. n + 1 /\ \A x \in 1 .. n + 1 : Max(1 .. n + 1) >= x
    BY <2>1, MaxMin
  <2>3. Max({0}) \in {0}
    <3>1. {0} \subseteq 0 .. 0 /\ {0} # {} /\ 0 \in Nat
      OBVIOUS
    <3> QED BY <3>1, MaxMin
  <2> QED BY <1>1, <1>4, <1>5, <2>1, <2>2, <2>3
<1>7. \/ ParseCSV(file, e.subject) = Failed
      \/ ParseCSV(file, e.subject) = ParseRecords(SubSeq(file, Max(before) + 1, Max(filled)))
  BY DEF ParseCSV
<1> HIDE DEF before, filled
<1>8. ParseCSV(file, e.subject) = ParseRecords(SubSeq(file, 1, n + 1))
  <2>1. Failed.ok = FALSE
    BY DEF Failed
  <2>2. Max(before) + 1 = 1
    BY <1>6
  <2> QED BY <1>6, <1>7, <2>1, <2>2
<1> DEFINE records == SubSeq(file, 1, n + 1)
<1>9. Len(records) = n + 1 /\ \A i \in 1 .. n + 1 : records[i] = file[i]
  <2>1. \A i \in 1 .. n + 1 : file[i] \in Tokens(tables)
    BY <1>1
  <2> DEFINE last == n + 1
  <2>2. last \in Int /\ last >= 1 /\ \A i \in 1 .. last : file[i] \in Tokens(tables)
    BY <1>1, <2>1
  <2> HIDE DEF last
  <2>3. /\ Len(SubSeq(file, 1, last)) = (IF 1 <= last THEN last - 1 + 1 ELSE 0)
        /\ \A i \in 1 .. last - 1 + 1 : SubSeq(file, 1, last)[i] = file[1 + i - 1]
    BY <2>2, SubSeqProperties
  <2>4. Len(SubSeq(file, 1, last)) = last
    BY <2>2, <2>3
  <2>5. \A i \in 1 .. last : i \in 1 .. last - 1 + 1 /\ 1 + i - 1 = i
    BY <2>2
  <2> QED BY <2>3, <2>4, <2>5 DEF last
<1> HIDE DEF records
<1>10. records # <<>> /\ records[1] = Headers(Cols(e)) /\ \A j \in 1 .. n : records[j + 1] = Line(e, rows[j])
  <2>1. Len(records) # 0 /\ 1 \in 1 .. n + 1
    BY <1>1, <1>9
  <2>2. \A j \in 1 .. n : j + 1 \in 1 .. n + 1 /\ j + 1 = 1 + j
    BY <1>1
  <2> QED BY <1>1, <1>9, <2>1, <2>2
<1>11. AreLines(e, ParseRecords(records).rows, rows)
  BY <1>9, <1>10, RecordsParsed
<1> QED BY <1>8, <1>11 DEF records

(* The rows of a workbook. *)
LEMMA XLSXParsed ==
  ASSUME NEW tables, NEW e \in Errands, NEW rows, Keyed(rows), Fits(e, rows), e.format = "xlsx",
         NEW file \in Seq(Tokens(tables)), Written(e, rows, file, Len(rows), 1)
  PROVE  AreLines(e, ParseXLSX(file, e.subject).rows, rows)
<1> DEFINE n == Len(rows)
<1> DEFINE at == {i \in DOMAIN file : file[i].kind = "sheet" /\ file[i].table = e.subject}
<1> DEFINE begin == Max(at)
<1> DEFINE ends == {i \in begin + 1 .. Len(file) + 1 : i = Len(file) + 1 \/ file[i].kind = "sheet"}
<1>1. /\ n \in Nat /\ Len(file) = 2 + n /\ DOMAIN file = 1 .. n + 2
      /\ file[1] = Token("sheet", e.subject) /\ file[2] = Headers(Cols(e))
      /\ \A j \in 1 .. n : file[2 + j] = Line(e, rows[j])
  BY DEF Keyed, Written, Lines
<1>2. file[1].kind = "sheet" /\ file[1].table = e.subject /\ file[2].kind = "header"
  BY <1>1, HeadersAre DEF Token
<1>3. ASSUME NEW i \in 2 .. n + 2 PROVE file[i].kind # "sheet"
  <2>1. CASE i = 2
    BY <1>2, <2>1
  <2>2. CASE i # 2
    <3> DEFINE j == i - 2
    <3>1. j \in 1 .. n /\ i = 2 + j
      BY <1>1, <2>2
    <3> HIDE DEF j
    <3>2. file[i] = Line(e, rows[j]) /\ rows[j] \in RowType
      BY <1>1, <3>1 DEF Keyed
    <3>3. Line(e, rows[j]) \in Tokens(tables) /\ Line(e, rows[j]).kind = "row"
      BY <3>2, LineIs
    <3> QED BY <3>2, <3>3
  <2> QED BY <2>1, <2>2
<1>4. at = {1}
  <2>1. 1 \in at
    BY <1>1, <1>2
  <2>2. \A i \in at : i \in 1 .. n + 2 /\ file[i].kind = "sheet"
    BY <1>1
  <2> HIDE DEF at
  <2>3. \A i \in at : i = 1
    <3>1. \A i \in 1 .. n + 2 : i = 1 \/ i \in 2 .. n + 2
      BY <1>1
    <3> QED BY <1>3, <2>2, <3>1
  <2> QED BY <2>1, <2>3
<1>5. begin = 1
  <2>1. {1} \subseteq 0 .. 1 /\ {1} # {} /\ 1 \in Nat
    OBVIOUS
  <2>2. Max({1}) \in {1}
    BY <2>1, MaxMin
  <2> HIDE DEF at
  <2> QED BY <1>4, <2>2
<1>6. ParseXLSX(file, e.subject) = ParseRecords(SubSeq(file, begin + 1, Min(ends) - 1))
  BY <1>4 DEF ParseXLSX
<1> HIDE DEF at, begin
<1>7. ends = {n + 3}
  <2>1. \A i \in ends : i \in 2 .. n + 3 /\ (i = n + 3 \/ file[i].kind = "sheet")
    BY <1>1, <1>5
  <2>2. n + 3 \in ends
    BY <1>1, <1>5
  <2> HIDE DEF ends
  <2>3. \A i \in 2 .. n + 3 : i = n + 3 \/ i \in 2 .. n + 2
    BY <1>1
  <2> QED BY <1>3, <2>1, <2>2, <2>3
<1>8. Min(ends) - 1 = n + 2
  <2> DEFINE m == n + 3
  <2>1. {m} \subseteq 0 .. m /\ {m} # {} /\ m \in Nat
    BY <1>1
  <2> HIDE DEF m
  <2>2. Min({m}) \in {m}
    BY <2>1, MaxMin
  <2>3. Min(ends) = m
    BY <1>7, <2>2 DEF m
  <2> QED BY <1>1, <2>3 DEF m
<1> HIDE DEF ends
<1> DEFINE records == SubSeq(file, 2, n + 2)
<1>9. ParseXLSX(file, e.subject) = ParseRecords(records)
  <2>1. begin + 1 = 2
    BY <1>5
  <2> QED BY <1>6, <1>8, <2>1
<1>10. Len(records) = n + 1 /\ \A i \in 1 .. n + 1 : records[i] = file[i + 1]
  <2> DEFINE last == n + 2
  <2>1. last \in Int /\ last >= 2 /\ \A i \in 2 .. last : file[i] \in Tokens(tables)
    BY <1>1
  <2>2. last = n + 2
    OBVIOUS
  <2> HIDE DEF last
  <2>3. /\ Len(SubSeq(file, 2, last)) = (IF 2 <= last THEN last - 2 + 1 ELSE 0)
        /\ \A i \in 1 .. last - 2 + 1 : SubSeq(file, 2, last)[i] = file[2 + i - 1]
    BY <2>1, SubSeqProperties
  <2>4. Len(SubSeq(file, 2, last)) = n + 1
    BY <1>1, <2>1, <2>2, <2>3
  <2>5. \A i \in 1 .. n + 1 : i \in 1 .. last - 2 + 1 /\ 2 + i - 1 = i + 1
    BY <1>1, <2>2
  <2> QED BY <2>3, <2>4, <2>5 DEF last
<1> HIDE DEF records
<1>11. records # <<>> /\ records[1] = Headers(Cols(e)) /\ \A j \in 1 .. n : records[j + 1] = Line(e, rows[j])
  <2>1. Len(records) # 0 /\ records[1] = file[2]
    BY <1>1, <1>10
  <2>2. \A j \in 1 .. n : j + 1 \in 1 .. n + 1 /\ (j + 1) + 1 = 2 + j
    BY <1>1
  <2> QED BY <1>1, <1>10, <2>1, <2>2
<1>12. AreLines(e, ParseRecords(records).rows, rows)
  BY <1>10, <1>11, RecordsParsed
<1> QED BY <1>9, <1>12

(* The parser gives the lines of the rows, if it gives anything. *)
LEMMA FileParsed ==
  ASSUME NEW tables, NEW e \in Errands, NEW rows, Keyed(rows), Fits(e, rows),
         NEW file \in Seq(Tokens(tables)), Written(e, rows, file, Len(rows), 1), NEW as,
         Parse(as, e.format, file, e.subject).ok
  PROVE  AreLines(e, Parse(as, e.format, file, e.subject).rows, rows)
<1>1. as = e.format
  <2>1. Failed.ok = FALSE
    BY DEF Failed
  <2> QED BY <2>1 DEF Parse
<1>2. CASE e.format = "json"
  <2>1. Parse(as, e.format, file, e.subject) = ParseJSON(file, e.subject)
    BY <1>1, <1>2 DEF Parse
  <2> QED BY <1>2, <2>1, JSONParsed
<1>3. CASE e.format = "csv"
  <2>1. Parse(as, e.format, file, e.subject) = ParseCSV(file, e.subject)
    BY <1>1, <1>3 DEF Parse
  <2> QED BY <1>3, <2>1, CSVParsed
<1>4. CASE e.format = "xlsx"
  <2>1. Parse(as, e.format, file, e.subject) = ParseXLSX(file, e.subject)
    BY <1>1, <1>4 DEF Parse
  <2> QED BY <1>4, <2>1, XLSXParsed
<1>5. e.format \in {"json", "csv", "xlsx"}
  BY DEF Fits
<1> QED BY <1>2, <1>3, <1>4, <1>5


-----------------------------------------------------------------------------
(* The round trip: the rows that are inserted. *)

(* The line of a row makes the row again: its keys are new to the table. *)
LEMMA LineInserted ==
  ASSUME errand \in Errands, NEW rows, Keyed(rows), Fits(errand, rows), NEW s \in Seq(RowType), NEW n \in Nat,
         n < Len(rows), Restored(errand, rows, s, n), NEW row, IsLine(errand, row, rows[n + 1]), IsRow(row)
  PROVE  DirectInsert(s, row) # s /\ Restored(errand, rows, DirectInsert(s, row), n + 1)
<1> DEFINE old == rows[n + 1]
<1> DEFINE of(c) == IF c \in DOMAIN row THEN row[c] ELSE NoValue
<1> DEFINE ids == {s[i]["id"] : i \in DOMAIN s}
<1> DEFINE id == IF of("id") # NoValue THEN of("id") ELSE 1 + Max(ids \cup {0})
<1> DEFINE reference == IF of("reference_id") = NoValue THEN NoValue ELSE AsText(of("reference_id"))
<1> DEFINE new == [c \in ToSet(AllColumns) |->
             IF c = "id" THEN id ELSE IF c = "reference_id" THEN reference
             ELSE IF c = "permission" THEN DefaultPermission ELSE of(c)]
<1>1. /\ n + 1 \in 1 .. Len(rows) /\ Len(rows) \in Nat
      /\ old \in RowType /\ old["id"] \in Nat /\ old["reference_id"] \in Nat
  BY DEF Keyed
<1>2. DOMAIN row = Range(Cols(errand)) /\ \A c \in Range(Cols(errand)) : row[c] = Text(errand, old[c])
  BY DEF IsLine
<1>3. "id" \in Range(Cols(errand)) /\ "reference_id" \in Range(Cols(errand))
  BY ColsAre2
<1>4. of("id") = old["id"] /\ of("reference_id") = old["reference_id"]
  BY <1>1, <1>2, <1>3 DEF Text, NoValue
<1>5. id = old["id"] /\ reference = AsText(old["reference_id"]) /\ of("id") # NoValue
      /\ reference # NoValue
  <2> HIDE DEF ids, old, of
  <2> QED BY <1>1, <1>4 DEF NoValue, AsText
<1>6. Len(s) = n /\ DOMAIN s = 1 .. n
      /\ \A i \in 1 .. n : s[i]["id"] = rows[i]["id"] /\ s[i]["reference_id"] = AsText(rows[i]["reference_id"])
  BY DEF Restored, Same
<1>7. id \notin ids
  <2>1. ASSUME NEW i \in 1 .. n PROVE s[i]["id"] # old["id"]
    <3>1. i \in 1 .. Len(rows) /\ i # n + 1
      BY <1>1
    <3> QED BY <1>1, <1>6, <3>1 DEF Keyed
  <2> HIDE DEF id
  <2> QED BY <1>5, <1>6, <2>1
<1>8. reference \notin {NoValue} \cup {s[i]["reference_id"] : i \in DOMAIN s}
  <2>1. ASSUME NEW i \in 1 .. n PROVE s[i]["reference_id"] # AsText(old["reference_id"])
    <3>1. i \in 1 .. Len(rows) /\ i # n + 1
      BY <1>1
    <3>2. rows[i]["reference_id"] # old["reference_id"] /\ rows[i]["reference_id"] \in Nat
      BY <1>1, <3>1 DEF Keyed
    <3> QED BY <1>1, <1>6, <3>2, SMTT(30) DEF AsText
  <2> HIDE DEF reference
  <2> QED BY <1>5, <1>6, <2>1
<1>9. DirectInsert(s, row) = Append(s, new)
  <2>1. ~(\/ id \in ids \/ reference \in {NoValue} \cup {s[i]["reference_id"] : i \in DOMAIN s}
          \/ of("id") = NoValue /\ errand.postgres)
    BY <1>5, <1>7, <1>8
  <2>2. DirectInsert(s, row) =
          IF \/ id \in ids \/ reference \in {NoValue} \cup {s[i]["reference_id"] : i \in DOMAIN s}
             \/ of("id") = NoValue /\ errand.postgres
          THEN s ELSE Append(s, new)
    BY Zenon DEF DirectInsert
  <2> HIDE DEF id, ids, reference, of, new
  <2> QED BY <2>1, <2>2
<1>10. new["id"] = id /\ new["reference_id"] = reference /\ new["value"] = of("value")
  <2>1. "id" \in ToSet(AllColumns) /\ "reference_id" \in ToSet(AllColumns) /\ "value" \in ToSet(AllColumns)
    BY ColumnsAre DEF Columns
  <2> HIDE DEF id, reference, of
  <2> QED BY <2>1
<1>11. Same(errand.format, Cols(errand), old, new)
  <2>1. "value" \in ToSet(Cols(errand)) <=> "value" \in Range(Cols(errand))
    BY ColumnsAre
  <2>2. errand.format = "json" => "value" \in Range(Cols(errand))
    BY ColsAre1, ColumnsAre
  <2>3. of("value") = IF errand.format # "json" /\ "value" \notin ToSet(Cols(errand)) THEN NoValue
                      ELSE IF errand.format # "json" /\ old["value"] = NoValue THEN EmptyText ELSE old["value"]
    <3>1. CASE "value" \in Range(Cols(errand))
      BY <1>2, <2>1, <3>1 DEF Text
    <3>2. CASE "value" \notin Range(Cols(errand))
      BY <1>2, <2>1, <2>2, <3>2
    <3> QED BY <3>1, <3>2
  <2> HIDE DEF id, reference, of, new, old
  <2> QED BY <1>5, <1>10, <2>3 DEF Same
<1>12. new \in RowType
  <2>1. PICK r \in RowType : Append(s, new) = Append(s, r)
    <3>1. Append(s, new) # s
      <4>1. Len(Append(s, new)) = Len(s) + 1 /\ Len(s) \in Nat
        OBVIOUS
      <4> QED BY <4>1
    <3> HIDE DEF new
    <3> QED BY <1>9, <3>1, InsertType
  <2> HIDE DEF new
  <2>2. Append(s, new)[Len(s) + 1] = new /\ Append(s, r)[Len(s) + 1] = r
    OBVIOUS
  <2> QED BY <2>1, <2>2
<1> HIDE DEF new, old
<1>13. /\ Len(Append(s, new)) = n + 1 /\ Append(s, new)[n + 1] = new
       /\ \A i \in 1 .. n : Append(s, new)[i] = s[i]
  BY <1>6, <1>12, AppendProperties
<1>14. Restored(errand, rows, Append(s, new), n + 1)
  <2>1. ASSUME NEW i \in 1 .. n + 1
        PROVE  Same(errand.format, Cols(errand), rows[i], Append(s, new)[i])
    <3>1. CASE i = n + 1
      BY <1>11, <1>13, <3>1 DEF old
    <3>2. CASE i # n + 1
      <4>1. i \in 1 .. n
        BY <3>2
      <4>2. Same(errand.format, Cols(errand), rows[i], s[i])
        BY <4>1 DEF Restored
      <4> QED BY <1>13, <4>1, <4>2
    <3> QED BY <3>1, <3>2
  <2> QED BY <1>13, <2>1 DEF Restored
<1>15. Append(s, new) # s
  BY <1>6, <1>13
<1> QED BY <1>9, <1>14, <1>15


-----------------------------------------------------------------------------
(* The round trip: its invariant. *)

(* The rows are those of the beginning. *)
LEMMA StartStep ==
  ASSUME TypeInv, StartInv, [TransferNext]_transferVars
  PROVE  StartInv' /\ errand' = errand /\ (meddling' = 0 => meddling = 0 /\ oldStock' = oldStock) /\ (lost => lost')
<1> USE DEF StartInv, Exporting
<1>1. meddling \in Nat /\ lost \in BOOLEAN
  <2>1. MaxMeddling \in Nat
    BY TransferAssumption DEF TransferAssumption
  <2> QED BY <2>1 DEF TypeInv, TransferTypeOK
<1>2. CASE BeginExport
  BY <1>2 DEF BeginExport, importVars
<1>3. CASE SkipTable
  BY <1>3 DEF SkipTable, TableDone, importVars
<1>4. CASE OpenTable
  BY <1>4 DEF OpenTable, importVars
<1>5. CASE ReadColumns
  BY <1>5 DEF ReadColumns, TableDone, importVars
<1>6. CASE ReadPage
  BY <1>6 DEF ReadPage, importVars
<1>7. CASE WriteNextRow
  BY <1>7 DEF WriteNextRow, TableDone, importVars
<1>8. CASE EndPage
  BY <1>8 DEF EndPage, TableDone, importVars
<1>9. CASE ExportStatementFails
  BY <1>9 DEF ExportStatementFails, TableDone, importVars
<1>10. CASE FinishExport
  BY <1>10 DEF FinishExport, importVars
<1>11. CASE \E t \in DOMAIN stock : Meddle(t)
  BY <1>1, <1>11 DEF Meddle, importVars
<1>12. CASE ParseFile
  BY <1>12 DEF ParseFile
<1>13. CASE Truncate
  BY <1>13 DEF Truncate, importVars
<1>14. CASE TruncateFails
  BY <1>14 DEF TruncateFails
<1>15. CASE NextBatch
  BY <1>15 DEF NextBatch
<1>16. CASE ImportRow
  BY <1>16 DEF ImportRow
<1>17. CASE EndImport
  BY <1>17 DEF EndImport, importVars
<1>18. CASE UNCHANGED transferVars
  BY <1>18 DEF transferVars
<1> QED BY <1>2, <1>3, <1>4, <1>5, <1>6, <1>7, <1>8, <1>9, <1>10, <1>11, <1>12, <1>13, <1>14, <1>15,
           <1>16, <1>17, <1>18 DEF TransferNext

(* A writer changes what it knows of the columns only where they were not asked for. *)
LEMMA SelectStep ==
  ASSUME TypeInv, SelectInv, [TransferNext]_transferVars
  PROVE  SelectInv'
<1> USE DEF SelectInv, Exporting
<1> DEFINE tables == ToSet(errand.tables)
<1>1. OutputOK /\ IsWriter(output, tables) /\ errand \in Errands /\ TableInv
  BY TypeParts DEF TypeInv, OutputOK
<1>2. CASE BeginExport
  BY <1>2 DEF BeginExport
<1>3. CASE SkipTable
  BY <1>3 DEF SkipTable, TableDone
<1>4. CASE OpenTable
  <2> DEFINE t == Head(tablesLeft)
  <2>1. t \in tables
    BY <1>4, NextTable DEF OpenTable
  <2>2. IsWriter(WriteTableOf(output, t), tables) /\ WriteTableOf(output, t).selected = output.selected
    <3> HIDE DEF t, tables
    <3> QED BY <1>1, <2>1, WriteTableType
  <2>3. CASE t \in DOMAIN output.selected
    <3>1. output' = WriteHeaders(WriteTableOf(output, t), t, output.selected[t]) /\ step' = "pages" /\ errand' = errand
      BY <1>4, <2>3 DEF OpenTable
    <3>2. output.selected[t] \in Seq(Columns)
      BY <1>1, <2>3 DEF IsWriter, Columns
    <3>3. output'.selected = output.selected
      <4> HIDE DEF t, tables
      <4> QED BY <2>1, <2>2, <3>1, <3>2, WriteHeadersType
    <3> QED BY <3>1, <3>3
  <2>4. CASE t \notin DOMAIN output.selected
    <3>1. output' = WriteTableOf(output, t) /\ step' = "columns" /\ errand' = errand
      BY <1>4, <2>4 DEF OpenTable
    <3>2. errand.columns = <<>>
      <4> SUFFICES ASSUME errand.columns # <<>> PROVE FALSE
        OBVIOUS
      <4>1. DOMAIN output.selected = tables
        BY DEF Selection
      <4> QED BY <2>1, <2>4, <4>1
    <3> QED BY <3>1, <3>2
  <2> QED BY <2>3, <2>4
<1>5. CASE ReadColumns
  <2>1. errand.columns = <<>> /\ errand' = errand
    BY <1>5 DEF ReadColumns
  <2>2. step' \in {"pages", "tables"}
    BY <1>5 DEF ReadColumns, TableDone
  <2> QED BY <2>1, <2>2
<1>6. CASE ReadPage
  BY <1>6 DEF ReadPage
<1>7. CASE WriteNextRow
  <2>1. output'.selected = output.selected
    BY <1>1, <1>7 DEF WriteNextRow, WriteRow, IsWriter
  <2> QED BY <1>7, <2>1 DEF WriteNextRow, TableDone
<1>8. CASE EndPage
  BY <1>8 DEF EndPage, TableDone
<1>9. CASE ExportStatementFails
  BY <1>9 DEF ExportStatementFails, TableDone
<1>10. CASE FinishExport
  <2>1. output'.selected = output.selected
    BY <1>1, <1>10 DEF FinishExport, IsWriter
  <2> QED BY <1>10, <2>1 DEF FinishExport
<1>11. CASE \E t \in DOMAIN stock : Meddle(t)
  BY <1>11 DEF Meddle
<1>12. CASE ParseFile
  BY <1>12 DEF ParseFile
<1>13. CASE Truncate
  BY <1>13 DEF Truncate
<1>14. CASE TruncateFails
  BY <1>14 DEF TruncateFails
<1>15. CASE NextBatch
  BY <1>15 DEF NextBatch
<1>16. CASE ImportRow
  BY <1>16 DEF ImportRow
<1>17. CASE EndImport
  BY <1>17 DEF EndImport
<1>18. CASE UNCHANGED transferVars
  BY <1>18 DEF transferVars
<1> QED BY <1>2, <1>3, <1>4, <1>5, <1>6, <1>7, <1>8, <1>9, <1>10, <1>11, <1>12, <1>13, <1>14, <1>15,
           <1>16, <1>17, <1>18 DEF TransferNext


(* What a step of a fitting errand starts from. *)
LEMMA TripContext ==
  ASSUME TypeInv, StartInv, Fitting
  PROVE  /\ errand \in Errands /\ Fits(errand, Rows) /\ Keyed(Rows) /\ Len(Rows) \in Nat /\ Rows \in Seq(RowType)
         /\ IsWriter(output, ToSet(errand.tables)) /\ output.format = errand.format
         /\ errand.tables = <<errand.subject>> /\ Head(errand.tables) = errand.subject
         /\ Tail(errand.tables) = <<>> /\ errand.tables # <<>>
         /\ errand.subject \in DOMAIN stock /\ offset \in Nat
         /\ errand.pageSize \in Nat /\ errand.pageSize > 0
         /\ page \in Seq(RowType) /\ Len(page) \in Nat
         /\ Exporting => stock[errand.subject] = Rows
<1>1. errand \in Errands /\ Fits(errand, Rows) /\ errand.subject \in DOMAIN oldStock /\ errand.subject \in DOMAIN stock
  BY DEF Fitting, TypeInv, TransferTypeOK, CountInv
<1>2. Keyed(Rows)
  <2>1. oldStock \in Stocks
    BY DEF StartInv, Fitting
  <2> QED BY <1>1, <2>1, StockIsKeyed DEF Rows
<1>3. errand.tables = <<errand.subject>>
  BY <1>1 DEF Fits
<1>4. Exporting => stock[errand.subject] = Rows
  BY DEF StartInv, Fitting, Rows
<1>5. Len(Rows) \in Nat /\ Rows \in Seq(RowType)
  BY <1>2 DEF Keyed
<1>6. Head(errand.tables) = errand.subject /\ Tail(errand.tables) = <<>> /\ errand.tables # <<>>
  BY <1>3
<1>7. /\ IsWriter(output, ToSet(errand.tables)) /\ output.format = errand.format /\ offset \in Nat
      /\ page \in Seq(RowType) /\ Len(page) \in Nat
  BY DEF TypeInv, TransferTypeOK
<1> QED BY <1>1, <1>2, <1>3, <1>4, <1>5, <1>6, <1>7, ErrandType

(* Opening the table, and learning its columns. *)
LEMMA TripOpens ==
  ASSUME TypeInv, StartInv, SelectInv, Fitting, ExportInv, errand' = errand, oldStock' = oldStock,
         BeginExport \/ SkipTable \/ OpenTable \/ ReadColumns
  PROVE  ExportInv' /\ ImportInv'
<1> DEFINE e == errand
<1> DEFINE w == WriteTableOf(Empty(e), e.subject)
<1>1. Rows' = Rows
  BY DEF Rows
<1>2. /\ errand \in Errands /\ Fits(e, Rows) /\ Len(Rows) \in Nat /\ errand.tables # <<>>
      /\ Head(errand.tables) = errand.subject /\ Tail(errand.tables) = <<>>
      /\ errand.subject \in DOMAIN stock /\ (Exporting => stock[errand.subject] = Rows)
      /\ output.format = errand.format
  BY TripContext
<1>3. /\ Opens(e, w.file) /\ w.format = e.format /\ w.selected = Selection(e)
      /\ w.isFirstRow = TRUE /\ w.columnsWritten = {} /\ w.includeHeaders = e.includeHeaders
      /\ IsWriter(w, ToSet(e.tables)) /\ e.subject \in ToSet(e.tables)
      /\ DOMAIN Selection(e) = (IF e.columns = <<>> THEN {} ELSE {e.subject})
      /\ (e.columns # <<>> => Selection(e)[e.subject] = e.columns)
  BY <1>2, OpenedIs
<1>4. CASE BeginExport
  <2>1. step' = "tables" /\ tablesLeft' = errand.tables /\ output' = output /\ offset' = offset /\ step = "asked"
    BY <1>4 DEF BeginExport
  <2>2. Unopened(errand, output) /\ offset = 0
    BY <2>1 DEF ExportInv
  <2> QED BY <1>2, <2>1, <2>2 DEF ExportInv, ImportInv, Unopened
<1>5. CASE SkipTable
  <2>1. FALSE
    <3>1. Head(tablesLeft) = errand.subject
      BY <1>2, <1>5 DEF SkipTable, ExportInv
    <3> QED BY <1>2, <1>5, <3>1 DEF SkipTable, WriteTableFails, Fits
  <2> QED BY <2>1
<1>6. CASE OpenTable
  <2>1. /\ step = "tables" /\ tablesLeft = errand.tables /\ output = Empty(e) /\ offset = 0
        /\ tablesLeft' = tablesLeft /\ offset' = offset /\ Head(tablesLeft) = e.subject
    BY <1>2, <1>6 DEF OpenTable, ExportInv, Unopened, Empty
  <2>2. output.selected = Selection(e)
    BY <2>1 DEF Empty, Initialize
  <2> HIDE DEF w
  <2>3. CASE e.columns # <<>>
    <3>1. e.subject \in DOMAIN output.selected /\ output.selected[e.subject] = e.columns
      BY <1>3, <2>2, <2>3
    <3>2. step' = "pages" /\ output' = WriteHeaders(w, e.subject, e.columns)
      BY <1>6, <2>1, <3>1 DEF OpenTable, w
    <3>3. e.format # "json" =>
            e.subject \in DOMAIN w.selected /\ w.selected[e.subject] = e.columns /\ e.columns = Cols(e)
      BY <1>3, <2>3 DEF Cols
    <3>4. WriterAt(e, Rows, output', 0)
      <4> HIDE DEF e
      <4> QED BY <1>2, <1>3, <3>2, <3>3, HeadersWritten DEF e
    <3> QED BY <1>1, <1>2, <2>1, <3>2, <3>4 DEF ExportInv, ImportInv, WriterAt
  <2>4. CASE e.columns = <<>>
    <3>1. e.subject \notin DOMAIN output.selected
      BY <1>3, <2>2, <2>4
    <3>2. step' = "columns" /\ output' = w
      BY <1>6, <2>1, <3>1 DEF OpenTable, w
    <3>3. Opened(e, output')
      BY <3>2 DEF Opened, w, Empty
    <3> QED BY <1>1, <2>1, <3>2, <3>3 DEF ExportInv, ImportInv
  <2> QED BY <2>3, <2>4
<1>7. CASE ReadColumns
  <2>1. /\ step = "columns" /\ tablesLeft = errand.tables /\ output = w /\ offset = 0
        /\ Head(tablesLeft) = e.subject /\ errand.columns = <<>>
    BY <1>2, <1>7 DEF ReadColumns, ExportInv, Opened, SelectInv, Empty
  <2>2. stock[e.subject] = Rows
    BY <1>2, <2>1 DEF Exporting
  <2> DEFINE columns == IF Rows = <<>> THEN <<>> ELSE AllColumns
  <2> DEFINE v == Knowing(w, e.subject, columns)
  <2>3. columns \in Seq(Columns) /\ Cols(e) = AllColumns
    BY <2>1, ColumnsAre DEF Cols
  <2>4. IsWriter(v, ToSet(e.tables)) /\ v.format = w.format /\ e.subject \in DOMAIN v.selected
        /\ v.selected[e.subject] = columns
    <3> HIDE DEF w, columns, e
    <3> QED BY <1>3, <2>3, KnowingType
  <2>5. /\ v.file = w.file /\ v.isFirstRow = TRUE /\ v.columnsWritten = {}
        /\ v.includeHeaders = e.includeHeaders
    <3> HIDE DEF w
    <3> QED BY <1>3 DEF Knowing, IsWriter
  <2>6. CASE Rows # <<>>
    <3>1. columns # <<>>
      BY <2>6, ColumnsAre
    <3>2. output' = WriteHeaders(v, e.subject, columns) /\ step' = "pages" /\ UNCHANGED <<tablesLeft, offset, page>>
      BY <1>7, <2>1, <2>2, <3>1 DEF ReadColumns, Knowing
    <3>3. columns = Cols(e)
      BY <2>3, <2>6
    <3> HIDE DEF w, v, columns
    <3>4. WriterAt(e, Rows, output', 0)
      <4> HIDE DEF e
      <4>1. e \in Errands
        BY <1>2 DEF e
      <4>2. Opens(e, v.file) /\ v.format = e.format
        BY <1>3, <2>4, <2>5
      <4> QED BY <1>2, <2>4, <2>5, <3>2, <3>3, <4>1, <4>2, HeadersWritten
    <3> QED BY <1>1, <1>2, <2>1, <3>2, <3>4 DEF ExportInv, ImportInv, WriterAt
  <2>7. CASE Rows = <<>>
    <3>1. output' = v /\ TableDone
      <4>1. stock[Head(tablesLeft)] = <<>>
        BY <2>1, <2>2, <2>7
      <4>2. output' = Knowing(output, Head(tablesLeft), <<>>) /\ TableDone
        BY <1>7, <4>1, Zenon DEF ReadColumns, Knowing
      <4>3. columns = <<>>
        BY <2>7
      <4> HIDE DEF w, columns
      <4> QED BY <2>1, <4>2, <4>3
    <3>2. e.format = "json" /\ Len(Rows) = 0
      BY <1>2, <2>7 DEF Fits
    <3> HIDE DEF w, v, columns
    <3>3. JSONLines(e, Rows, output'.file, 0, 0)
      BY <1>3, <2>5, <3>1, <3>2 DEF JSONLines, Opens
    <3>4. WriterAt(e, Rows, output', Len(Rows))
      BY <2>5, <3>1, <3>2, <3>3 DEF WriterAt, Written, Knows
    <3>5. step' = "tables" /\ tablesLeft' = <<>> /\ offset' = 0
      BY <1>2, <2>1, <3>1 DEF TableDone
    <3> QED BY <1>1, <3>4, <3>5 DEF ExportInv, ImportInv
  <2> QED BY <2>6, <2>7
<1> QED BY <1>4, <1>5, <1>6, <1>7


(* Reading and writing the pages, and the end of the file. *)
LEMMA TripWrites ==
  ASSUME TypeInv, StartInv, Fitting, ExportInv, errand' = errand, oldStock' = oldStock,
         ReadPage \/ WriteNextRow \/ EndPage \/ FinishExport
  PROVE  ExportInv' /\ ImportInv'
<1> DEFINE e == errand
<1> DEFINE n == Len(Rows)
<1>1. Rows' = Rows
  BY DEF Rows
<1>2. /\ errand \in Errands /\ Fits(e, Rows) /\ Keyed(Rows) /\ n \in Nat /\ Rows \in Seq(RowType)
      /\ IsWriter(output, ToSet(errand.tables)) /\ output.format = e.format
      /\ Head(errand.tables) = errand.subject /\ Tail(errand.tables) = <<>> /\ errand.tables # <<>>
      /\ offset \in Nat /\ errand.pageSize \in Nat /\ errand.pageSize > 0
      /\ page \in Seq(RowType) /\ Len(page) \in Nat
      /\ (Exporting => stock[errand.subject] = Rows)
  BY TripContext
<1>3. CASE ReadPage
  <2>1. /\ step = "pages" /\ tablesLeft = errand.tables /\ offset <= n /\ WriterAt(e, Rows, output, offset)
        /\ tablesLeft' = tablesLeft /\ output' = output /\ offset' = offset /\ stock[Head(tablesLeft)] = Rows
    BY <1>2, <1>3 DEF ReadPage, ExportInv, Exporting
  <2> DEFINE end == offset + errand.pageSize
  <2> DEFINE last == IF end > n THEN n ELSE end
  <2>2. page' = SubSeq(Rows, offset + 1, last)
        /\ step' = (IF Len(page') < errand.pageSize THEN "last_rows" ELSE "rows")
    BY <1>3, <2>1 DEF ReadPage
  <2>3. last \in Nat /\ offset <= last /\ last <= n /\ (last = n \/ (last = end /\ end <= n)) /\ last <= end
    BY <1>2, <2>1
  <2> HIDE DEF last
  <2>4. Len(page') = last - offset /\ \A i \in 1 .. last - offset : page'[i] = Rows[offset + i]
    <3>1. \A i \in offset + 1 .. last : Rows[i] \in RowType
      BY <1>2, <2>3
    <3>2. /\ Len(SubSeq(Rows, offset + 1, last)) = (IF offset + 1 <= last THEN last - (offset + 1) + 1 ELSE 0)
          /\ \A i \in 1 .. last - (offset + 1) + 1 : SubSeq(Rows, offset + 1, last)[i] = Rows[(offset + 1) + i - 1]
      <4>1. offset + 1 \in Int /\ last \in Int
        BY <1>2, <2>3
      <4> QED BY <3>1, <4>1, SubSeqProperties
    <3>3. /\ (IF offset + 1 <= last THEN last - (offset + 1) + 1 ELSE 0) = last - offset
          /\ \A i \in 1 .. last - offset : i \in 1 .. last - (offset + 1) + 1 /\ (offset + 1) + i - 1 = offset + i
      BY <1>2, <2>3
    <3> QED BY <2>2, <3>2, <3>3
  <2>5. PageAt(Rows, page', offset)
    BY <2>4 DEF PageAt
  <2>6. CASE Len(page') < errand.pageSize
    <3>1. step' = "last_rows" /\ last = n
      BY <1>2, <2>2, <2>3, <2>4, <2>6
    <3>2. n - Len(page') = offset
      BY <1>2, <2>4, <3>1
    <3> QED BY <1>1, <1>2, <2>1, <2>5, <3>1, <3>2 DEF ExportInv, ImportInv, WriterAt
  <2>7. CASE ~(Len(page') < errand.pageSize)
    <3>1. step' = "rows" /\ last = end /\ end <= n /\ Len(page') = errand.pageSize
      <4>1. step' = "rows"
        BY <2>2, <2>7
      <4>2. last >= end
        BY <1>2, <2>1, <2>3, <2>4, <2>7
      <4>3. last = end /\ end <= n
        BY <1>2, <2>3, <4>2
      <4>4. Len(page') = errand.pageSize
        BY <1>2, <2>4, <4>3
      <4> QED BY <4>1, <4>3, <4>4
    <3>2. offset + errand.pageSize - Len(page') = offset
      BY <1>2, <3>1
    <3> QED BY <1>1, <1>2, <2>1, <2>5, <3>1, <3>2 DEF ExportInv, ImportInv, WriterAt
  <2> QED BY <2>6, <2>7
<1>4. CASE WriteNextRow
  <2> DEFINE k == IF step = "rows" THEN offset + errand.pageSize - Len(page) ELSE n - Len(page)
  <2>1. step \in {"rows", "last_rows"} /\ page # <<>> /\ tablesLeft = errand.tables
        /\ Head(tablesLeft) = e.subject
    BY <1>2, <1>4 DEF WriteNextRow, ExportInv
  <2>2. Len(page) > 0 /\ Head(page) = page[1]
    BY <1>2, <2>1
  <2>3. /\ k \in Nat /\ k + Len(page) <= n /\ PageAt(Rows, page, k) /\ WriterAt(e, Rows, output, k)
        /\ (step = "rows" => offset + errand.pageSize <= n /\ Len(page) <= errand.pageSize)
    <3>1. CASE step = "rows"
      BY <1>2, <3>1 DEF ExportInv
    <3>2. CASE step = "last_rows"
      BY <1>2, <3>2 DEF ExportInv
    <3> QED BY <2>1, <3>1, <3>2
  <2> HIDE DEF k
  <2>4. Head(page) = Rows[k + 1] /\ k < n
    BY <1>2, <2>2, <2>3 DEF PageAt
  <2>5. ~WriteRowFails(output, Head(page)) /\ WriterAt(e, Rows, WriteRow(output, e.subject, Head(page)), k + 1)
    <3> HIDE DEF e
    <3>1. e \in Errands
      BY <1>2 DEF e
    <3> QED BY <1>2, <2>3, <2>4, <3>1, WriteLine
  <2>6. output' = WriteRow(output, e.subject, Head(page)) /\ page' = Tail(page)
        /\ UNCHANGED <<step, tablesLeft, offset>>
    BY <1>4, <2>1, <2>5 DEF WriteNextRow
  <2>7. Len(page') = Len(page) - 1 /\ \A i \in 1 .. Len(page) - 1 : page'[i] = page[i + 1]
    BY <1>2, <2>1, <2>6, HeadTailProperties
  <2>8. PageAt(Rows, page', k + 1)
    <3> SUFFICES ASSUME NEW i \in 1 .. Len(page') PROVE page'[i] = Rows[(k + 1) + i]
      BY DEF PageAt
    <3>1. page'[i] = page[i + 1] /\ i + 1 \in 1 .. Len(page)
      BY <1>2, <2>7
    <3>2. k + (i + 1) = (k + 1) + i
      BY <2>3, <1>2, <2>7
    <3> QED BY <2>3, <3>1, <3>2 DEF PageAt
  <2>9. WriterAt(e, Rows, output', k + 1)
    BY <2>5, <2>6
  <2>10. CASE step = "rows"
    <3>1. offset + errand.pageSize - Len(page') = k + 1 /\ Len(page') <= errand.pageSize
      BY <1>2, <2>3, <2>7, <2>10 DEF k
    <3> QED BY <1>1, <1>2, <2>1, <2>3, <2>6, <2>8, <2>9, <2>10, <3>1 DEF ExportInv, ImportInv, WriterAt
  <2>11. CASE step = "last_rows"
    <3>1. n - Len(page') = k + 1 /\ k + 1 >= 0
      BY <1>2, <2>3, <2>7, <2>11 DEF k
    <3> QED BY <1>1, <1>2, <2>1, <2>6, <2>8, <2>9, <2>11, <3>1 DEF ExportInv, ImportInv, WriterAt
  <2> QED BY <2>1, <2>10, <2>11
<1>5. CASE EndPage
  <2>1. step \in {"rows", "last_rows"} /\ Len(page) = 0 /\ tablesLeft = errand.tables /\ output' = output
    BY <1>2, <1>5 DEF EndPage, ExportInv
  <2>2. CASE step = "rows"
    <3>1. step' = "pages" /\ offset' = offset + errand.pageSize /\ UNCHANGED <<tablesLeft, page>>
      BY <1>5, <2>2 DEF EndPage, NextOffset
    <3>2. offset + errand.pageSize - Len(page) = offset + errand.pageSize
      BY <1>2, <2>1
    <3>3. offset + errand.pageSize <= n /\ WriterAt(e, Rows, output, offset + errand.pageSize)
      BY <2>2, <3>2 DEF ExportInv
    <3> QED BY <1>1, <1>2, <2>1, <3>1, <3>3 DEF ExportInv, ImportInv, WriterAt
  <2>3. CASE step = "last_rows"
    <3>1. step' = "tables" /\ tablesLeft' = <<>> /\ offset' = 0
      BY <1>2, <1>5, <2>1, <2>3 DEF EndPage, TableDone
    <3>2. n - Len(page) = n
      BY <1>2, <2>1
    <3>3. WriterAt(e, Rows, output, n)
      BY <2>3, <3>2 DEF ExportInv
    <3> QED BY <1>1, <2>1, <3>1, <3>3 DEF ExportInv, ImportInv
  <2> QED BY <2>1, <2>2, <2>3
<1>6. CASE FinishExport
  <2>1. step' = "exported" /\ output' = [output EXCEPT !.file = Finalize(output)] /\ WriterAt(e, Rows, output, n)
    BY <1>6 DEF FinishExport, ExportInv
  <2>2. output'.file = Finalize(output) /\ output'.selected = output.selected
    BY <1>2, <2>1 DEF IsWriter
  <2>3. Written(e, Rows, output'.file, n, 1)
    <3> HIDE DEF e
    <3>1. e \in Errands
      BY <1>2 DEF e
    <3> QED BY <1>2, <2>1, <2>2, <3>1, FileFinished
  <2>4. Knows(e, output')
    BY <2>1, <2>2 DEF WriterAt, Knows
  <2> QED BY <1>1, <2>1, <2>3, <2>4 DEF ExportInv, ImportInv
<1> QED BY <1>3, <1>4, <1>5, <1>6

(* The import of the file. *)
LEMMA TripImports ==
  ASSUME TypeInv, TypeInv', StartInv, Fitting, ExportInv, ImportInv, errand' = errand, oldStock' = oldStock,
         ParseFile \/ Truncate \/ TruncateFails \/ NextBatch \/ ImportRow \/ EndImport
  PROVE  ExportInv' /\ ImportInv'
<1> DEFINE e == errand
<1> DEFINE n == Len(Rows)
<1>1. Rows' = Rows
  BY DEF Rows
<1>2. /\ errand \in Errands /\ Fits(e, Rows) /\ Keyed(Rows) /\ n \in Nat
      /\ IsWriter(output, ToSet(errand.tables)) /\ e.subject \in DOMAIN stock
  BY TripContext
<1>3. ExportInv'
  <2>1. step \in {"exported", "truncating", "batches"} /\ output' = output
        /\ step' \in {"truncating", "batches", "rolled_back", "committed"}
    BY DEF ParseFile, Truncate, TruncateFails, NextBatch, ImportRow, EndImport
  <2>2. Knows(errand, output)
    BY <2>1 DEF ExportInv
  <2> QED BY <1>1, <2>1, <2>2 DEF ExportInv, Knows
<1>4. /\ AreParsed(batch) /\ Len(batch) \in Nat /\ Len(parsed) \in Nat /\ rowsAt \in Nat
      /\ \A i \in 1 .. Len(batch) : batch[i] = parsed[Tried + i] /\ IsRow(batch[i])
      /\ stock[e.subject] \in Seq(RowType)
  <2>1. AreParsed(batch) /\ AreParsed(parsed) /\ rowsAt \in Nat
    BY DEF TypeInv, TransferTypeOK
  <2>2. stock[e.subject] \in Seq(RowType)
    BY <1>2 DEF TypeInv, TransferTypeOK
  <2> QED BY <2>1, <2>2, ParsedElements DEF TypeInv, BatchInv
<1>5. Handed \in Nat /\ Tried = Handed - Len(batch) /\ Handed <= Len(parsed)
  BY <1>4 DEF Handed, Tried
<1>6. CASE ParseFile
  <2>1. step = "exported" /\ Written(e, Rows, output.file, n, 1)
    BY <1>6 DEF ParseFile, ExportInv
  <2>2. PICK as : LET result == Parse(as, errand.format, output.file, errand.subject)
                  IN  /\ parsed' = result.rows
                      /\ step' = IF ~result.ok THEN "rolled_back"
                                 ELSE IF errand.truncate THEN "truncating" ELSE "batches"
    BY <1>6 DEF ParseFile
  <2> DEFINE result == Parse(as, errand.format, output.file, errand.subject)
  <2>3. result.ok => AreLines(e, result.rows, Rows)
    <3>1. output.file \in Seq(Tokens(ToSet(errand.tables)))
      BY <1>2 DEF IsWriter
    <3> QED BY <1>2, <2>1, <3>1, FileParsed
  <2>4. parsed' = result.rows /\ step' = IF ~result.ok THEN "rolled_back"
                                        ELSE IF errand.truncate THEN "truncating" ELSE "batches"
    BY <2>2
  <2> HIDE DEF result
  <2>5. step' \in {"rolled_back", "truncating", "batches"} /\ (step' # "rolled_back" => result.ok)
        /\ (step' = "batches" => ~errand.truncate)
    BY <2>4
  <2> QED BY <1>1, <1>3, <2>3, <2>4, <2>5 DEF ImportInv
<1>7. CASE Truncate
  <2>1. step = "truncating" /\ step' = "batches" /\ stock'[e.subject] = <<>>
        /\ UNCHANGED <<parsed, rowsAt, batch, aborted>>
    BY <1>2, <1>7 DEF Truncate, importVars
  <2>2. Len(batch) = 0 /\ rowsAt = 0 /\ ~aborted
    BY <2>1 DEF TypeInv, CountInv
  <2>3. Tried' = 0
    BY <1>4, <2>1, <2>2 DEF Tried, Handed
  <2>4. Restored(e, Rows, stock'[e.subject], 0)
    BY <2>1 DEF Restored
  <2> QED BY <1>1, <1>3, <2>1, <2>2, <2>3, <2>4 DEF ImportInv
<1>8. CASE TruncateFails
  BY <1>1, <1>3, <1>8 DEF TruncateFails, ImportInv
<1>9. CASE NextBatch
  <2>1. /\ step = "batches" /\ Len(batch) = 0 /\ rowsAt < Len(parsed) /\ step' = step /\ rowsAt' = rowsAt + errand.batchSize
        /\ batch' = SubSeq(parsed, rowsAt + 1, BatchEnd(rowsAt, errand.batchSize, Len(parsed)))
        /\ UNCHANGED <<stock, parsed, errors, aborted>>
    BY <1>9 DEF NextBatch
  <2>2. Tried' = Tried
    <3> DEFINE end == BatchEnd(rowsAt, errand.batchSize, Len(parsed))
    <3>1. errand.batchSize \in Nat /\ errand.batchSize > 0 /\ AreParsed(parsed)
      BY <1>2, ErrandType DEF TypeInv, TransferTypeOK
    <3>2. end \in Nat /\ rowsAt <= end /\ end <= Len(parsed)
          /\ end = IF rowsAt + errand.batchSize > Len(parsed) THEN Len(parsed) ELSE rowsAt + errand.batchSize
      BY <1>4, <2>1, <3>1 DEF BatchEnd
    <3> HIDE DEF end
    <3>3. batch' = SubSeq(parsed, rowsAt + 1, end)
      BY <2>1 DEF end
    <3>4. Len(batch') = end - rowsAt
      BY <1>4, <3>1, <3>2, <3>3, PartOfRows
    <3>5. Handed = rowsAt /\ Handed' = end
      BY <1>4, <2>1, <3>1, <3>2 DEF Handed
    <3>6. Tried = rowsAt
      BY <1>4, <1>5, <2>1, <3>5
    <3>7. Tried' = end - (end - rowsAt)
      BY <3>4, <3>5 DEF Tried
    <3> QED BY <1>4, <3>2, <3>6, <3>7
  <2> QED BY <1>1, <1>3, <2>1, <2>2 DEF ImportInv
<1>10. CASE ImportRow
  <2>1. /\ step = "batches" /\ batch # <<>> /\ batch' = Tail(batch) /\ step' = step
        /\ UNCHANGED <<parsed, rowsAt, errors>>
        /\ AreLines(e, parsed, Rows)
    BY <1>10 DEF ImportRow, ImportInv
  <2> DEFINE rows == stock[e.subject]
  <2>2. Len(batch) > 0 /\ Head(batch) = batch[1] /\ Len(Tail(batch)) = Len(batch) - 1 /\ IsRow(Head(batch))
    BY <1>4, <2>1, RestOfRows
  <2>3. Tried' = Tried + 1 /\ Tried + 1 \in 1 .. n /\ Tried \in Nat
    <3>1. Tried \in Nat
      <4>1. imported <= Tried /\ imported \in Nat
        BY DEF TypeInv, BatchInv, TransferTypeOK
      <4> QED BY <1>4, <1>5, <4>1
    <3>2. Len(parsed) = n
      BY <2>1 DEF AreLines
    <3>3. Handed' = Handed
      BY <2>1 DEF Handed
    <3> QED BY <1>4, <1>5, <2>1, <2>2, <3>1, <3>2, <3>3 DEF Tried
  <2>4. CASE errand.truncate /\ ~errors
    <3>1. Restored(e, Rows, rows, Tried) /\ ~aborted
      BY <2>1, <2>4 DEF ImportInv
    <3>2. IsLine(e, Head(batch), Rows[Tried + 1])
      <4>1. Head(batch) = parsed[Tried + 1]
        BY <1>4, <2>2
      <4> QED BY <2>1, <2>3, <4>1 DEF AreLines
    <3> DEFINE after == DirectInsert(rows, Head(batch))
    <3>3. after # rows /\ Restored(e, Rows, after, Tried + 1)
      <4>1. Tried < n
        BY <1>2, <2>3
      <4> QED BY <1>2, <1>4, <2>2, <2>3, <3>1, <3>2, <4>1, LineInserted
    <3>4. stock' = [stock EXCEPT ![e.subject] = after] /\ aborted' = aborted
      BY <1>10, <2>4, <3>1, <3>3 DEF ImportRow
    <3> HIDE DEF after
    <3>5. stock'[e.subject] = after
      BY <1>2, <3>4
    <3> QED BY <1>1, <1>3, <2>1, <2>3, <3>1, <3>3, <3>4, <3>5 DEF ImportInv
  <2>5. CASE ~(errand.truncate /\ ~errors)
    BY <1>1, <1>3, <2>1, <2>5 DEF ImportInv
  <2> QED BY <2>4, <2>5
<1>11. CASE EndImport
  <2>1. /\ step = "batches" /\ Len(batch) = 0 /\ rowsAt >= Len(parsed)
        /\ step' = (IF errors THEN "rolled_back" ELSE "committed")
        /\ stock' = (IF errors \/ aborted THEN oldStock ELSE stock)
        /\ UNCHANGED <<parsed, errors, aborted>> /\ AreLines(e, parsed, Rows)
    BY <1>11 DEF EndImport, ImportInv, importVars
  <2>2. Tried = n
    <3>1. Len(parsed) = n
      BY <2>1 DEF AreLines
    <3>2. Handed = Len(parsed)
      BY <1>4, <2>1 DEF Handed
    <3> QED BY <1>4, <1>5, <2>1, <3>1, <3>2
  <2> QED BY <1>1, <1>3, <2>1, <2>2 DEF ImportInv
<1> QED BY <1>3, <1>6, <1>7, <1>8, <1>9, <1>10, <1>11


(* The invariant of the round trip holds at the beginning. *)
LEMMA TripInit == TransferInit => TripInv
<1> SUFFICES ASSUME TransferInit PROVE TripInv
  OBVIOUS
<1>1. /\ stock \in Stocks /\ oldStock = stock /\ step = "asked" /\ offset = 0
      /\ output = Initialize(errand.format, Selection(errand), errand.includeHeaders)
  BY DEF TransferInit
<1>2. StartInv
  BY <1>1 DEF StartInv
<1>3. SelectInv
  BY <1>1 DEF SelectInv, Exporting, Initialize
<1>4. ExportInv
  BY <1>1 DEF ExportInv, Unopened
<1>5. ImportInv
  BY <1>1 DEF ImportInv
<1> QED BY <1>2, <1>3, <1>4, <1>5 DEF TripInv

(* Every step keeps the invariant of the round trip. *)
LEMMA TripStep == TypeInv /\ TypeInv' /\ TripInv /\ [TransferNext]_transferVars => TripInv'
<1> SUFFICES ASSUME TypeInv, TypeInv', TripInv, [TransferNext]_transferVars PROVE TripInv'
  OBVIOUS
<1>1. StartInv /\ SelectInv
  BY DEF TripInv
<1>2. StartInv' /\ errand' = errand /\ (meddling' = 0 => meddling = 0 /\ oldStock' = oldStock) /\ (lost => lost')
  BY <1>1, StartStep
<1>3. SelectInv'
  BY <1>1, SelectStep
<1>4. ASSUME Fitting' PROVE ExportInv' /\ ImportInv'
  <2>1. meddling' = 0 /\ ~lost'
    BY <1>4 DEF Fitting
  <2>2. errand' = errand /\ oldStock' = oldStock /\ Rows' = Rows
    BY <1>2, <2>1 DEF Rows
  <2>3. Fitting
    BY <1>2, <1>4, <2>1, <2>2 DEF Fitting
  <2>4. ExportInv /\ ImportInv
    BY <2>3 DEF TripInv
  <2>5. CASE BeginExport \/ SkipTable \/ OpenTable \/ ReadColumns
    BY <1>1, <2>2, <2>3, <2>4, <2>5, TripOpens
  <2>6. CASE ReadPage \/ WriteNextRow \/ EndPage \/ FinishExport
    BY <1>1, <2>2, <2>3, <2>4, <2>6, TripWrites
  <2>7. CASE ParseFile \/ Truncate \/ TruncateFails \/ NextBatch \/ ImportRow \/ EndImport
    BY <1>1, <2>2, <2>3, <2>4, <2>7, TripImports
  <2>8. CASE ExportStatementFails
    BY <2>1, <2>8 DEF ExportStatementFails
  <2>9. CASE \E t \in DOMAIN stock : Meddle(t)
    <3>1. meddling \in Nat /\ meddling' = meddling + 1
      <4>1. MaxMeddling \in Nat
        BY TransferAssumption DEF TransferAssumption
      <4> QED BY <2>9, <4>1 DEF Meddle, TypeInv, TransferTypeOK
    <3> QED BY <2>1, <3>1
  <2>10. CASE UNCHANGED transferVars
    <3>1. ExportInv'
      BY <2>2, <2>4, <2>10 DEF ExportInv, transferVars
    <3>2. ImportInv'
      BY <2>2, <2>4, <2>10 DEF ImportInv, Tried, Handed, transferVars
    <3> QED BY <3>1, <3>2
  <2> QED BY <2>5, <2>6, <2>7, <2>8, <2>9, <2>10 DEF TransferNext
<1> QED BY <1>2, <1>3, <1>4 DEF TripInv

(* The invariant gives what an import promises. *)
LEMMA TripImpliesRestores == TypeInv /\ TripInv => ImportRestores
<1> SUFFICES ASSUME TypeInv, TripInv PROVE ImportRestores
  OBVIOUS
<1>1. step = "rolled_back" \/ (aborted /\ step = "committed") => stock = oldStock
  BY DEF TypeInv, CountInv
<1>2. step = "committed" /\ ~aborted =>
        imported = Len(stock[errand.subject]) - (IF errand.truncate THEN 0 ELSE Len(oldStock[errand.subject]))
  BY DEF TypeInv, CountInv, Base
<1>3. ASSUME step = "committed", errand.truncate, meddling = 0, ~lost, Importable
      PROVE  LET old == oldStock[errand.subject]
                 new == stock[errand.subject]
             IN  /\ Len(new) = Len(old)
                 /\ \A i \in DOMAIN old : Same(errand.format, output.selected[errand.subject], old[i], new[i])
  <2> DEFINE values == {Rows[i]["value"] : i \in DOMAIN Rows}
  <2> DEFINE columns == output.selected[errand.subject]
  <2>1. /\ errand.tables = <<errand.subject>> /\ 1 \in Exported(errand, oldStock)
        /\ errand.format = "json" => NotANumber \notin values
        /\ errand.format # "json" =>
             errand.includeHeaders /\ values # {} /\ {"id", "reference_id"} \subseteq ToSet(columns)
        /\ errand.format = "csv" => TitleLike \notin values \/ columns[1] # "value"
    BY <1>3 DEF Importable, Rows
  <2>2. errand \in Errands /\ output.format = errand.format /\ errand.format \in {"json", "csv", "xlsx"}
    BY <1>3 DEF TypeInv, TransferTypeOK, TripInv, SelectInv, Exporting
  <2>3. ~(errand.format = "xlsx" /\ errand.subject \in LongNames)
    BY <2>1, <2>2 DEF Exported, WriteTableFails
  <2>4. errand.columns # <<>> => columns = errand.columns
    <3>1. errand.subject \in ToSet(errand.tables)
      BY <2>1 DEF ToSet
    <3> QED BY <3>1 DEF TripInv, SelectInv, Selection
  <2>5. errand.format # "json" => {"id", "reference_id"} \subseteq Range(Cols(errand))
    <3>1. CASE errand.columns = <<>>
      BY <3>1, ColumnsAre DEF Cols, Columns
    <3>2. CASE errand.columns # <<>>
      BY <2>1, <2>4, <3>2, ColumnsAre DEF Cols
    <3> QED BY <3>1, <3>2
  <2>6. errand.format = "csv" =>
          (\A i \in DOMAIN Rows : Rows[i]["value"] # TitleLike) \/ Cols(errand)[1] # "value"
    <3>1. CASE errand.columns = <<>>
      BY <3>1 DEF Cols, AllColumns
    <3>2. CASE errand.columns # <<>>
      BY <2>1, <2>4, <3>2 DEF Cols
    <3> QED BY <3>1, <3>2
  <2>7. errand.format = "json" => \A i \in DOMAIN Rows : Rows[i]["value"] # NotANumber
    BY <2>1
  <2>8. errand.format # "json" => Rows # <<>>
    BY <2>1
  <2>9. Fitting
    <3> HIDE DEF values, columns
    <3> QED BY <1>3, <2>1, <2>2, <2>3, <2>5, <2>6, <2>7, <2>8 DEF Fitting, Fits
  <2>10. ExportInv /\ ImportInv /\ Keyed(Rows)
    BY <2>9, TripContext DEF TripInv
  <2>11. Restored(errand, Rows, stock[errand.subject], Len(Rows))
    BY <1>3, <2>10 DEF ImportInv
  <2>12. errand.format # "json" => columns = Cols(errand)
    BY <1>3, <2>10 DEF ExportInv, Knows
  <2>13. \A old, new : Same(errand.format, Cols(errand), old, new) => Same(errand.format, columns, old, new)
    BY <2>12 DEF Same
  <2>14. DOMAIN Rows = 1 .. Len(Rows)
    BY <2>10 DEF Keyed
  <2> HIDE DEF columns
  <2>15. Len(stock[errand.subject]) = Len(Rows)
         /\ \A i \in DOMAIN Rows : Same(errand.format, columns, Rows[i], stock[errand.subject][i])
    BY <2>11, <2>13, <2>14 DEF Restored
  <2> QED BY <2>15 DEF columns, Rows
<1> QED BY <1>1, <1>2, <1>3 DEF ImportRestores

(* What an import commits is what the file holds. A file that can be imported gives
   the rows of the exported table back, in their order; a failed import leaves the
   table as it was; the rows it says it imported are there. *)
THEOREM ImportsRestore == TransferSpec => []ImportRestores
<1>1. TransferInit => TypeInv /\ TripInv
  BY TypeInit, TripInit
<1>2. (TypeInv /\ TripInv) /\ [TransferNext]_transferVars => (TypeInv /\ TripInv)'
  BY TypeStep, TripStep
<1>3. TypeInv /\ TripInv => ImportRestores
  BY TripImpliesRestores
<1> QED BY <1>1, <1>2, <1>3, PTL DEF TransferSpec

-----------------------------------------------------------------------------
(* The whole file: what is in it when rows and other tokens are added. *)

(* f is the beginning of g. *)
Begins(f, g) == Len(f) <= Len(g) /\ \A i \in 1 .. Len(f) : g[i] = f[i]

(* What is before a place of a file says under which table the place is. *)
LEMMA UnderBefore ==
  ASSUME NEW tables, NEW e, NEW f \in Seq(Tokens(tables)), NEW g \in Seq(Tokens(tables)),
         Begins(f, g), NEW n \in 0 .. Len(f), NEW m \in n .. Len(g),
         \A i \in n + 1 .. m : g[i].kind \notin Openings
  PROVE  Under(e, g, m) = Under(e, f, n)
<1> DEFINE F == {j \in 1 .. n : f[j].kind \in Openings}
<1> DEFINE G == {j \in 1 .. m : g[j].kind \in Openings}
<1>1. Len(f) \in Nat /\ Len(g) \in Nat
  OBVIOUS
<1>2. \A j : j \in F <=> j \in G
  <2> SUFFICES ASSUME NEW j PROVE j \in F <=> j \in G
    OBVIOUS
  <2>1. j \in 1 .. n => f[j] = g[j] /\ j \in 1 .. m
    BY <1>1 DEF Begins
  <2>2. j \in 1 .. m => j \in 1 .. n \/ j \in n + 1 .. m
    BY <1>1
  <2> QED BY <2>1, <2>2
<1>3. F \subseteq 0 .. n /\ \A j \in F : f[j] = g[j]
  BY <1>1 DEF Begins
<1>4. Under(e, f, n) = (IF F = {} THEN e.tables[1] ELSE f[Max(F)].table)
      /\ Under(e, g, m) = (IF G = {} THEN e.tables[1] ELSE g[Max(G)].table)
  BY DEF Under
<1> HIDE DEF F, G
<1>5. F = G
  BY <1>2
<1>6. ASSUME F # {} PROVE Max(F) \in F
  <2>1. n \in Nat /\ F \subseteq 0 .. n
    BY <1>1, <1>3
  <2> QED BY <1>6, <2>1, MaxMin, Zenon
<1>7. F # {} => g[Max(F)].table = f[Max(F)].table
  BY <1>3, <1>6
<1>8. CASE F = {}
  <2>1. G = {}
    BY <1>5, <1>8
  <2> QED BY <1>4, <1>8, <2>1
<1>9. CASE F # {}
  <2>1. G # {} /\ g[Max(G)].table = f[Max(F)].table
    BY <1>5, <1>7, <1>9, Zenon
  <2> QED BY <1>4, <1>9, <2>1
<1> QED BY <1>8, <1>9

(* After the opening of a table comes what is of this table. *)
LEMMA UnderLast ==
  ASSUME NEW e, NEW file, NEW n \in Nat, n > 0, file[n].kind \in Openings
  PROVE  Under(e, file, n) = file[n].table
<1> DEFINE F == {j \in 1 .. n : file[j].kind \in Openings}
<1>1. F \subseteq 0 .. n /\ n \in F
  OBVIOUS
<1>2. Under(e, file, n) = (IF F = {} THEN e.tables[1] ELSE file[Max(F)].table)
  BY DEF Under
<1>3. \A x \in F : x <= n
  OBVIOUS
<1> HIDE DEF F
<1>4. Max(F) \in F /\ Max(F) >= n
  <2>1. F # {}
    BY <1>1
  <2> QED BY <1>1, <2>1, MaxMin, Zenon
<1>5. Max(F) = n
  <2> DEFINE m == Max(F)
  <2>1. m \in F /\ m >= n
    BY <1>4
  <2> HIDE DEF m
  <2>2. m = n
    BY <1>1, <1>3, <2>1
  <2> QED BY <2>2 DEF m
<1> QED BY <1>1, <1>2, <1>5

(* The tokens that are no rows change nothing about the rows of a file. *)
LEMMA CarriesMore ==
  ASSUME NEW tables, NEW e, NEW s, NEW D, NEW f \in Seq(Tokens(tables)), NEW g \in Seq(Tokens(tables)),
         Begins(f, g), \A i \in Len(f) + 1 .. Len(g) : g[i].kind # "row", Carries(e, s, f, D)
  PROVE  Carries(e, s, g, D)
<1> DEFINE F == {i \in DOMAIN f : f[i].kind = "row"}
<1> DEFINE G == {i \in DOMAIN g : g[i].kind = "row"}
<1>1. Len(f) \in Nat /\ Len(g) \in Nat /\ DOMAIN f = 1 .. Len(f) /\ DOMAIN g = 1 .. Len(g)
  OBVIOUS
<1>2. PICK place \in [D -> F] :
        /\ \A i \in DOMAIN f : f[i].kind = "row" => \E d \in D : place[d] = i
        /\ \A c, d \in D : Earlier(c, d) => place[c] < place[d]
        /\ \A d \in D :
             /\ f[place[d]].cells = CellsOf(e, s[e.tables[d[1]]][d[2]])
             /\ Titled(e) => Under(e, f, place[d]) = e.tables[d[1]]
  BY DEF Carries
<1>3. \A i \in DOMAIN f : i \in DOMAIN g /\ g[i] = f[i]
  BY <1>1 DEF Begins
<1>4. F \subseteq G
  BY <1>3
<1>5. place \in [D -> G] /\ \A d \in D : place[d] \in 1 .. Len(f) /\ g[place[d]] = f[place[d]]
  BY <1>1, <1>3, <1>4
<1>6. \A i \in DOMAIN g : g[i].kind = "row" => \E d \in D : place[d] = i
  <2> SUFFICES ASSUME NEW i \in DOMAIN g, g[i].kind = "row" PROVE \E d \in D : place[d] = i
    OBVIOUS
  <2>1. i \in DOMAIN f
    BY <1>1
  <2> QED BY <1>2, <1>3, <2>1
<1> HIDE DEF F, G
<1>7. ASSUME NEW d \in D
      PROVE  /\ g[place[d]].cells = CellsOf(e, s[e.tables[d[1]]][d[2]])
             /\ Titled(e) => Under(e, g, place[d]) = e.tables[d[1]]
  <2>1. place[d] \in 0 .. Len(f) /\ place[d] \in place[d] .. Len(g)
        /\ \A i \in place[d] + 1 .. place[d] : g[i].kind \notin Openings
    BY <1>1, <1>5 DEF Begins
  <2>2. Under(e, g, place[d]) = Under(e, f, place[d])
    BY <2>1, UnderBefore
  <2> QED BY <1>2, <1>5, <2>2
<1>8. \E p \in [D -> G] :
        /\ \A i \in DOMAIN g : g[i].kind = "row" => \E d \in D : p[d] = i
        /\ \A c, d \in D : Earlier(c, d) => p[c] < p[d]
        /\ \A d \in D :
             /\ g[p[d]].cells = CellsOf(e, s[e.tables[d[1]]][d[2]])
             /\ Titled(e) => Under(e, g, p[d]) = e.tables[d[1]]
  BY <1>2, <1>5, <1>6, <1>7
<1> QED BY <1>8 DEF Carries, G

(* A row that is written after all others. *)
LEMMA CarriesRow ==
  ASSUME NEW tables, NEW e, NEW s, NEW D, NEW f \in Seq(Tokens(tables)), NEW g \in Seq(Tokens(tables)),
         Begins(f, g), Len(f) < Len(g), \A i \in Len(f) + 1 .. Len(g) - 1 : g[i].kind # "row", Carries(e, s, f, D),
         NEW new, g[Len(g)].kind = "row", \A c \in D : Earlier(c, new) /\ ~Earlier(new, c), ~Earlier(new, new),
         g[Len(g)].cells = CellsOf(e, s[e.tables[new[1]]][new[2]]),
         Titled(e) => Under(e, g, Len(g)) = e.tables[new[1]]
  PROVE  Carries(e, s, g, D \cup {new})
<1> DEFINE F == {i \in DOMAIN f : f[i].kind = "row"}
<1> DEFINE G == {i \in DOMAIN g : g[i].kind = "row"}
<1> DEFINE E == D \cup {new}
<1>1. Len(f) \in Nat /\ Len(g) \in Nat /\ DOMAIN f = 1 .. Len(f) /\ DOMAIN g = 1 .. Len(g) /\ Len(g) \in DOMAIN g
  OBVIOUS
<1>2. PICK place \in [D -> F] :
        /\ \A i \in DOMAIN f : f[i].kind = "row" => \E d \in D : place[d] = i
        /\ \A c, d \in D : Earlier(c, d) => place[c] < place[d]
        /\ \A d \in D :
             /\ f[place[d]].cells = CellsOf(e, s[e.tables[d[1]]][d[2]])
             /\ Titled(e) => Under(e, f, place[d]) = e.tables[d[1]]
  BY DEF Carries
<1>3. \A i \in DOMAIN f : i \in DOMAIN g /\ g[i] = f[i]
  BY <1>1 DEF Begins
<1>4. F \subseteq G /\ Len(g) \in G
  BY <1>1, <1>3
<1>5. \A d \in D : place[d] \in G /\ place[d] \in 1 .. Len(f) /\ g[place[d]] = f[place[d]]
  BY <1>1, <1>3, <1>4
<1> DEFINE p == [d \in E |-> IF d \in D THEN place[d] ELSE Len(g)]
<1>6. new \notin D
  OBVIOUS
<1>7. (\A d \in D : p[d] = place[d]) /\ p[new] = Len(g)
  BY <1>6
<1>8. p \in [E -> G]
  <2> HIDE DEF G
  <2> QED BY <1>4, <1>5
<1>9. \A i \in DOMAIN g : g[i].kind = "row" => \E d \in E : p[d] = i
  <2> SUFFICES ASSUME NEW i \in DOMAIN g, g[i].kind = "row" PROVE \E d \in E : p[d] = i
    OBVIOUS
  <2> HIDE DEF p
  <2>1. CASE i \in DOMAIN f
    <3>1. \E d \in D : place[d] = i
      BY <1>2, <1>3, <2>1
    <3> QED BY <1>7, <3>1
  <2>2. CASE i \notin DOMAIN f
    <3>1. i = Len(g)
      BY <1>1, <2>2
    <3> QED BY <1>7, <3>1
  <2> QED BY <2>1, <2>2
<1> HIDE DEF p, F, G
<1>10. \A c, d \in E : Earlier(c, d) => p[c] < p[d]
  <2> SUFFICES ASSUME NEW c \in E, NEW d \in E, Earlier(c, d) PROVE p[c] < p[d]
    OBVIOUS
  <2>1. c # new
    OBVIOUS
  <2>2. c \in D
    BY <2>1
  <2>3. CASE d \in D
    BY <1>2, <1>7, <2>2, <2>3
  <2>4. CASE d = new
    BY <1>1, <1>5, <1>7, <2>2, <2>4
  <2> QED BY <2>3, <2>4
<1>11. ASSUME NEW d \in E
       PROVE  /\ g[p[d]].cells = CellsOf(e, s[e.tables[d[1]]][d[2]])
              /\ Titled(e) => Under(e, g, p[d]) = e.tables[d[1]]
  <2>1. CASE d \in D
    <3>1. place[d] \in 0 .. Len(f) /\ place[d] \in place[d] .. Len(g)
          /\ \A i \in place[d] + 1 .. place[d] : g[i].kind \notin Openings
      BY <1>1, <1>5, <2>1 DEF Begins
    <3>2. Under(e, g, place[d]) = Under(e, f, place[d])
      BY <3>1, UnderBefore
    <3> QED BY <1>2, <1>5, <1>7, <2>1, <3>2
  <2>2. CASE d = new
    BY <1>7, <2>2
  <2> QED BY <2>1, <2>2
<1>12. \E q \in [E -> G] :
        /\ \A i \in DOMAIN g : g[i].kind = "row" => \E d \in E : q[d] = i
        /\ \A c, d \in E : Earlier(c, d) => q[c] < q[d]
        /\ \A d \in E :
             /\ g[q[d]].cells = CellsOf(e, s[e.tables[d[1]]][d[2]])
             /\ Titled(e) => Under(e, g, q[d]) = e.tables[d[1]]
  BY <1>8, <1>9, <1>10, <1>11
<1> QED BY <1>12 DEF Carries, G

(* The rows of the first n tables and the first k of the next, those that are owed. *)
Done(e, s, n, k) == {d \in Owed(e, s) : d[1] <= n \/ (d[1] = n + 1 /\ d[2] <= k)}

(* What is owed is a row of a table that can be opened. *)
LEMMA OwedAre ==
  ASSUME NEW e, NEW s, NEW d
  PROVE  d \in Owed(e, s) <=> \E o \in Exported(e, s) : \E j \in Due(e, s[e.tables[o]]) : d = <<o, j>>
<1> DEFINE slots(o) == {o} \X Due(e, s[e.tables[o]])
<1>1. d \in Owed(e, s) <=> \E o \in Exported(e, s) : d \in slots(o)
  BY DEF Owed
<1>2. \A o : d \in slots(o) <=> \E j \in Due(e, s[e.tables[o]]) : d = <<o, j>>
  OBVIOUS
<1> HIDE DEF slots
<1> QED BY <1>1, <1>2

(* Positions are numbers. *)
LEMMA OwedNumbers ==
  ASSUME NEW e \in Errands, NEW s, \A u \in DOMAIN s : s[u] \in Seq(RowType)
  PROVE  /\ \A o \in Exported(e, s) : o \in 1 .. Len(e.tables) /\ Due(e, s[e.tables[o]]) \subseteq Nat
         /\ Len(e.tables) \in Nat
<1>1. DOMAIN e.tables = 1 .. Len(e.tables) /\ Len(e.tables) \in Nat
  BY ErrandType
<1>2. ASSUME NEW o \in Exported(e, s)
      PROVE  o \in 1 .. Len(e.tables) /\ Due(e, s[e.tables[o]]) \subseteq Nat
  <2> DEFINE rows == s[e.tables[o]]
  <2>1. o \in DOMAIN e.tables /\ rows \in Seq(RowType)
    BY DEF Exported
  <2> HIDE DEF rows
  <2>2. DOMAIN rows \subseteq Nat
    BY <2>1
  <2>3. Due(e, rows) \subseteq DOMAIN rows
    BY DEF Due
  <2> QED BY <1>1, <2>1, <2>2, <2>3 DEF rows
<1> QED BY <1>1, <1>2

(* At the beginning nothing is done, and everything after the last table; a table
   without rows that are left is done. *)
LEMMA DoneTable ==
  ASSUME NEW e \in Errands, NEW s, \A u \in DOMAIN s : s[u] \in Seq(RowType), NEW n \in Nat, NEW k \in Nat
  PROVE  /\ Done(e, s, 0, 0) = {}
         /\ n >= Len(e.tables) => Done(e, s, n, k) = Owed(e, s)
         /\ (n + 1 \in Exported(e, s) => \A j \in Due(e, s[e.tables[n + 1]]) : j <= k) =>
              Done(e, s, n + 1, 0) = Done(e, s, n, k)
<1>1. \A o \in Exported(e, s) : o \in 1 .. Len(e.tables) /\ Due(e, s[e.tables[o]]) \subseteq Nat
  BY OwedNumbers
<1>2. Len(e.tables) \in Nat
  BY OwedNumbers
<1>3. ASSUME NEW d \in Owed(e, s)
      PROVE  /\ d[1] \in Exported(e, s) /\ d[2] \in Due(e, s[e.tables[d[1]]])
             /\ d[1] \in 1 .. Len(e.tables) /\ d[2] \in Nat
  <2>1. PICK o \in Exported(e, s) : \E j \in Due(e, s[e.tables[o]]) : d = <<o, j>>
    BY OwedAre
  <2>2. PICK j \in Due(e, s[e.tables[o]]) : d = <<o, j>>
    BY <2>1
  <2>3. d[1] = o /\ d[2] = j
    BY <2>2
  <2> QED BY <1>1, <2>2, <2>3
<1>4. \A m, i : \A d : d \in Done(e, s, m, i) <=> d \in Owed(e, s) /\ (d[1] <= m \/ (d[1] = m + 1 /\ d[2] <= i))
  BY DEF Done
<1>5. Done(e, s, 0, 0) = {}
  <2>1. \A d \in Owed(e, s) : ~(d[1] <= 0) /\ (d[1] = 0 + 1 => ~(d[2] <= 0))
    <3> SUFFICES ASSUME NEW d \in Owed(e, s) PROVE ~(d[1] <= 0) /\ (d[1] = 0 + 1 => ~(d[2] <= 0))
      OBVIOUS
    <3>1. d[1] \in Exported(e, s) /\ d[2] \in Due(e, s[e.tables[d[1]]]) /\ d[1] \in 1 .. Len(e.tables)
      BY <1>3
    <3> DEFINE rows == s[e.tables[d[1]]]
    <3>2. rows \in Seq(RowType) /\ d[2] \in DOMAIN rows
      BY <3>1 DEF Due, Exported
    <3> HIDE DEF rows
    <3>3. d[2] \in 1 .. Len(rows)
      BY <3>2
    <3> QED BY <1>2, <3>1, <3>3
  <2> QED BY <1>4, <2>1
<1>6. ASSUME n >= Len(e.tables) PROVE Done(e, s, n, k) = Owed(e, s)
  <2>1. \A d \in Owed(e, s) : d[1] <= n
    BY <1>2, <1>3, <1>6
  <2>2. \A d : d \in Done(e, s, n, k) <=> d \in Owed(e, s)
    BY <1>4, <2>1
  <2> QED BY <2>2
<1>7. ASSUME n + 1 \in Exported(e, s) => \A j \in Due(e, s[e.tables[n + 1]]) : j <= k
      PROVE  Done(e, s, n + 1, 0) = Done(e, s, n, k)
  <2>1. ASSUME NEW d \in Owed(e, s)
        PROVE  (d[1] <= n + 1 \/ (d[1] = (n + 1) + 1 /\ d[2] <= 0)) <=> (d[1] <= n \/ (d[1] = n + 1 /\ d[2] <= k))
    <3>1. d[1] \in Exported(e, s) /\ d[2] \in Due(e, s[e.tables[d[1]]]) /\ d[1] \in 1 .. Len(e.tables) /\ d[2] \in Nat
      BY <1>3
    <3>2. d[2] > 0
      <4> DEFINE rows == s[e.tables[d[1]]]
      <4>1. rows \in Seq(RowType) /\ d[2] \in DOMAIN rows
        BY <3>1 DEF Due, Exported
      <4> HIDE DEF rows
      <4> QED BY <4>1
    <3>3. d[1] = n + 1 => d[2] <= k
      BY <1>7, <3>1
    <3> QED BY <1>2, <3>1, <3>2, <3>3
  <2>2. \A d : d \in Done(e, s, n + 1, 0) <=> d \in Done(e, s, n, k)
    BY <1>4, <2>1
  <2> QED BY <2>2
<1> QED BY <1>5, <1>6, <1>7

(* A row of the table that is written: it is done next, if it is owed. *)
LEMMA DoneRow ==
  ASSUME NEW e \in Errands, NEW s, \A u \in DOMAIN s : s[u] \in Seq(RowType), NEW n \in Nat, NEW k \in Nat,
         n + 1 \in Exported(e, s)
  PROVE  LET due == k + 1 \in Due(e, s[e.tables[n + 1]])
             new == <<n + 1, k + 1>>
         IN  /\ due => /\ Done(e, s, n, k + 1) = Done(e, s, n, k) \cup {new}
                       /\ \A c \in Done(e, s, n, k) : Earlier(c, new) /\ ~Earlier(new, c)
                       /\ ~Earlier(new, new) /\ new[1] = n + 1 /\ new[2] = k + 1
             /\ ~due => Done(e, s, n, k + 1) = Done(e, s, n, k)
<1> DEFINE due == k + 1 \in Due(e, s[e.tables[n + 1]])
<1> DEFINE new == <<n + 1, k + 1>>
<1>1. \A o \in Exported(e, s) : o \in 1 .. Len(e.tables) /\ Due(e, s[e.tables[o]]) \subseteq Nat
  BY OwedNumbers
<1>2. Len(e.tables) \in Nat
  BY OwedNumbers
<1>3. ASSUME NEW d \in Owed(e, s)
      PROVE  /\ d[1] \in Nat /\ d[2] \in Nat /\ (d[1] = n + 1 /\ d[2] = k + 1 => due /\ d = new)
  <2>1. PICK o \in Exported(e, s) : \E j \in Due(e, s[e.tables[o]]) : d = <<o, j>>
    BY OwedAre
  <2>2. PICK j \in Due(e, s[e.tables[o]]) : d = <<o, j>>
    BY <2>1
  <2>3. d[1] = o /\ d[2] = j
    BY <2>2
  <2> QED BY <1>1, <1>2, <2>2, <2>3
<1>4. \A m, i : \A d : d \in Done(e, s, m, i) <=> d \in Owed(e, s) /\ (d[1] <= m \/ (d[1] = m + 1 /\ d[2] <= i))
  BY DEF Done
<1>5. due => new \in Owed(e, s)
  BY OwedAre
<1>6. new[1] = n + 1 /\ new[2] = k + 1 /\ \A d : d = new => d[1] = n + 1 /\ d[2] = k + 1
  OBVIOUS
<1> HIDE DEF due, new
<1>7. ASSUME NEW d \in Owed(e, s)
      PROVE  (d[1] <= n \/ (d[1] = n + 1 /\ d[2] <= k + 1)) <=>
               ((d[1] <= n \/ (d[1] = n + 1 /\ d[2] <= k)) \/ (due /\ d = new))
  BY <1>3, <1>6
<1>8. ASSUME due PROVE Done(e, s, n, k + 1) = Done(e, s, n, k) \cup {new}
  <2>1. \A d : d \in Done(e, s, n, k + 1) <=> d \in Done(e, s, n, k) \/ d = new
    BY <1>4, <1>5, <1>7, <1>8
  <2> DEFINE A == Done(e, s, n, k + 1)
             B == Done(e, s, n, k) \cup {new}
  <2>2. \A d : d \in A <=> d \in B
    BY <2>1
  <2> HIDE DEF A, B
  <2>3. A = B
    BY <2>2
  <2> QED BY <2>3 DEF A, B
<1>9. ASSUME ~due PROVE Done(e, s, n, k + 1) = Done(e, s, n, k)
  <2>1. \A d : d \in Done(e, s, n, k + 1) <=> d \in Done(e, s, n, k)
    BY <1>4, <1>7, <1>9
  <2> QED BY <2>1
<1>10. ASSUME NEW c \in Done(e, s, n, k) PROVE Earlier(c, new) /\ ~Earlier(new, c)
  <2>1. c \in Owed(e, s) /\ (c[1] <= n \/ (c[1] = n + 1 /\ c[2] <= k))
    BY <1>4
  <2> QED BY <1>3, <1>6, <2>1 DEF Earlier
<1>11. ~Earlier(new, new)
  BY <1>6 DEF Earlier
<1> QED BY <1>6, <1>8, <1>9, <1>10, <1>11 DEF due, new

(* How often a kind occurs in a file to which tokens were added: not at all among
   the new ones, or once. *)
LEMMA CountMore ==
  ASSUME NEW tables, NEW f \in Seq(Tokens(tables)), NEW g \in Seq(Tokens(tables)), Begins(f, g), NEW kind
  PROVE  /\ Count(f, kind) \in Nat
         /\ (\A i \in Len(f) + 1 .. Len(g) : g[i].kind # kind) => Count(g, kind) = Count(f, kind)
         /\ \A p \in Len(f) + 1 .. Len(g) :
              g[p].kind = kind /\ (\A i \in Len(f) + 1 .. Len(g) : i # p => g[i].kind # kind) =>
                Count(g, kind) = Count(f, kind) + 1
<1> DEFINE F == {i \in DOMAIN f : f[i].kind = kind}
<1> DEFINE G == {i \in DOMAIN g : g[i].kind = kind}
<1>1. Len(f) \in Nat /\ Len(g) \in Nat /\ DOMAIN f = 1 .. Len(f) /\ DOMAIN g = 1 .. Len(g)
  OBVIOUS
<1>2. \A i \in 1 .. Len(f) : g[i] = f[i] /\ i \in 1 .. Len(g)
  BY <1>1 DEF Begins
<1>3. Count(f, kind) = Cardinality(F) /\ Count(g, kind) = Cardinality(G)
  BY DEF Count
<1>4. F \subseteq 1 .. Len(f) /\ \A i : i \in G <=> i \in F \/ (i \in Len(f) + 1 .. Len(g) /\ g[i].kind = kind)
  <2>1. F \subseteq 1 .. Len(f)
    BY <1>1
  <2>2. ASSUME NEW i PROVE i \in G <=> i \in F \/ (i \in Len(f) + 1 .. Len(g) /\ g[i].kind = kind)
    <3>1. i \in 1 .. Len(g) <=> i \in 1 .. Len(f) \/ i \in Len(f) + 1 .. Len(g)
      BY <1>1 DEF Begins
    <3> QED BY <1>1, <1>2, <3>1
  <2> QED BY <2>1, <2>2
<1> HIDE DEF F, G
<1>5. IsFiniteSet(F) /\ Cardinality(F) \in Nat
  <2>1. IsFiniteSet(1 .. Len(f))
    BY <1>1, FS_Interval
  <2> QED BY <1>4, <2>1, FS_Subset, FS_CardinalityType
<1>6. ASSUME \A i \in Len(f) + 1 .. Len(g) : g[i].kind # kind PROVE G = F
  BY <1>4, <1>6
<1>7. ASSUME NEW p \in Len(f) + 1 .. Len(g), g[p].kind = kind,
             \A i \in Len(f) + 1 .. Len(g) : i # p => g[i].kind # kind
      PROVE  Cardinality(G) = Cardinality(F) + 1
  <2>1. p \notin F
    BY <1>1, <1>4
  <2>2. \A i : i \in G <=> i \in F \/ i = p
    BY <1>4, <1>7
  <2>3. G = F \cup {p}
    BY <2>2
  <2> QED BY <1>5, <2>1, <2>3, FS_AddElement
<1> QED BY <1>3, <1>5, <1>6, <1>7

(* The brackets of n tables. *)
Brackets(e, file, n) ==
  /\ Count(file, "table") = IF e.format = "html" THEN n ELSE 0
  /\ Count(file, "end_table") = IF e.format = "html" /\ n > 0 THEN n - 1 ELSE 0
  /\ e.format = "json" => Count(file, "array") = n /\ Count(file, "end") = 0

(* Other tokens change nothing about the brackets. *)
LEMMA BracketsMore ==
  ASSUME NEW tables, NEW e, NEW n, NEW f \in Seq(Tokens(tables)), NEW g \in Seq(Tokens(tables)), Begins(f, g),
         \A i \in Len(f) + 1 .. Len(g) : g[i].kind \notin {"table", "end_table", "array", "end"}, Brackets(e, f, n)
  PROVE  Brackets(e, g, n)
<1>1. \A kind \in {"table", "end_table", "array", "end"} : Count(g, kind) = Count(f, kind)
  <2> SUFFICES ASSUME NEW kind \in {"table", "end_table", "array", "end"} PROVE Count(g, kind) = Count(f, kind)
    OBVIOUS
  <2>1. \A i \in Len(f) + 1 .. Len(g) : g[i].kind # kind
    OBVIOUS
  <2> QED BY <2>1, CountMore, Zenon
<1> QED BY <1>1 DEF Brackets

(* What is appended to a file. *)
LEMMA Appended ==
  ASSUME NEW T, NEW f \in Seq(T), NEW a \in Seq(T)
  PROVE  /\ f \o a \in Seq(T) /\ Begins(f, f \o a) /\ Len(f \o a) = Len(f) + Len(a)
         /\ \A i \in Len(f) + 1 .. Len(f \o a) : i - Len(f) \in 1 .. Len(a) /\ (f \o a)[i] = a[i - Len(f)]
<1>1. Len(f) \in Nat /\ Len(a) \in Nat
  OBVIOUS
<1>2. /\ f \o a \in Seq(T) /\ Len(f \o a) = Len(f) + Len(a)
      /\ \A i \in 1 .. Len(f) + Len(a) : (f \o a)[i] = IF i <= Len(f) THEN f[i] ELSE a[i - Len(f)]
  BY ConcatProperties
<1> DEFINE g == f \o a
<1> HIDE DEF g
<1>3. Len(g) = Len(f) + Len(a) /\ \A i \in 1 .. Len(f) + Len(a) : g[i] = IF i <= Len(f) THEN f[i] ELSE a[i - Len(f)]
  BY <1>2 DEF g
<1>4. Begins(f, g)
  BY <1>1, <1>3 DEF Begins
<1>5. \A i \in Len(f) + 1 .. Len(g) : i - Len(f) \in 1 .. Len(a) /\ g[i] = a[i - Len(f)]
  BY <1>1, <1>3
<1> QED BY <1>2, <1>4, <1>5 DEF g

(* A token after those that are not always written. *)
LEMMA LastToken ==
  ASSUME NEW T, NEW a \in Seq(T), NEW y \in T
  PROVE  /\ a \o <<y>> \in Seq(T) /\ Len(a \o <<y>>) = Len(a) + 1 /\ (a \o <<y>>)[Len(a) + 1] = y
         /\ \A i \in 1 .. Len(a) : (a \o <<y>>)[i] = a[i]
<1> DEFINE v == <<y>>
<1>1. v \in Seq(T) /\ Len(v) = 1 /\ v[1] = y
  OBVIOUS
<1> HIDE DEF v
<1>2. /\ a \o v \in Seq(T) /\ Len(a \o v) = Len(a) + Len(v)
      /\ \A i \in 1 .. Len(a) + Len(v) : (a \o v)[i] = IF i <= Len(a) THEN a[i] ELSE v[i - Len(a)]
  BY <1>1, ConcatProperties
<1>3. Len(a) \in Nat
  OBVIOUS
<1>4. Len(a \o v) = Len(a) + 1 /\ (a \o v)[Len(a) + 1] = y /\ \A i \in 1 .. Len(a) : (a \o v)[i] = a[i]
  BY <1>1, <1>2, <1>3
<1> QED BY <1>2, <1>4 DEF v

(* The opening of a table. *)
LEMMA TableWritten ==
  ASSUME NEW tables, NEW t \in tables, NEW e, NEW w, IsWriter(w, tables), w.format = e.format,
         Brackets(e, w.file, w.tableCount)
  PROVE  LET v == WriteTableOf(w, t)
             titled == e.format # "csv" \/ Cardinality(DOMAIN w.selected) > 1
         IN  /\ v.file \in Seq(Tokens(tables)) /\ Begins(w.file, v.file)
             /\ \A i \in Len(w.file) + 1 .. Len(v.file) : v.file[i].kind # "row"
             /\ v.tableCount = w.tableCount + 1 /\ Brackets(e, v.file, w.tableCount + 1)
             /\ titled => Under(e, v.file, Len(v.file)) = t
             /\ ~titled => v.file = w.file
<1> DEFINE T == Tokens(tables)
<1> DEFINE v == WriteTableOf(w, t)
<1> DEFINE titled == e.format # "csv" \/ Cardinality(DOMAIN w.selected) > 1
<1> DEFINE n == w.tableCount
<1> DEFINE part == [json |-> JSONTable(w, t), html |-> HTMLTable(w, t), csv |-> CSVTable(w, t),
                    xlsx |-> XLSXTable(w, t), pdf |-> PDFTable(w, t)][w.format]
<1>1. /\ w.file \in Seq(T) /\ w.format \in Formats /\ n \in Nat /\ Len(w.file) \in Nat
  BY DEF IsWriter, Formats
<1>2. /\ Mark("comma") \in T /\ Token("array", t) \in T /\ Mark("end_table") \in T /\ Token("table", t) \in T
      /\ Token("title", t) \in T /\ Token("sheet", t) \in T /\ Token("page", t) \in T
  BY TokenType DEF Kinds
<1>3. v.file = w.file \o part /\ v.tableCount = n + 1
  BY DEF WriteTableOf, IsWriter
<1> DEFINE before(x) == IF n = 0 THEN <<>> ELSE <<x>>
<1>4. /\ e.format = "json" => part = before(Mark("comma")) \o <<Token("array", t)>>
      /\ e.format = "html" => part = before(Mark("end_table")) \o <<Token("table", t)>>
      /\ e.format = "csv" => part = CSVTable(w, t)
      /\ e.format = "xlsx" => part = <<Token("sheet", t)>>
      /\ e.format = "pdf" => part = <<Token("page", t)>>
  BY DEF JSONTable, HTMLTable, XLSXTable, PDFTable
<1> HIDE DEF T, part, v, before
<1> DEFINE more == \/ e.format \in {"json", "html"} /\ n # 0
<1>5. /\ part \in Seq(T)
      /\ titled => /\ Len(part) = (IF more THEN 2 ELSE 1) /\ part[Len(part)].kind \in Openings /\ part[Len(part)].table = t
                   /\ part[Len(part)].kind =
                        (IF e.format = "json" THEN "array" ELSE IF e.format = "html" THEN "table"
                         ELSE IF e.format = "csv" THEN "title" ELSE IF e.format = "xlsx" THEN "sheet" ELSE "page")
                   /\ more => part[1].kind = IF e.format = "json" THEN "comma" ELSE "end_table"
      /\ ~titled => part = <<>>
  <2> DEFINE p == part
  <2>1. CASE e.format = "json"
    <3> DEFINE a == before(Mark("comma"))
    <3>1. a \in Seq(T) /\ Len(a) = (IF n = 0 THEN 0 ELSE 1) /\ (n # 0 => a[1] = Mark("comma"))
      BY <1>2 DEF before
    <3>2. p = a \o <<Token("array", t)>>
      BY <1>4, <2>1
    <3> HIDE DEF a
    <3>3. /\ p \in Seq(T) /\ Len(p) = Len(a) + 1 /\ p[Len(a) + 1] = Token("array", t)
          /\ \A i \in 1 .. Len(a) : p[i] = a[i]
      BY <1>2, <3>1, <3>2, LastToken
    <3>4. /\ (n = 0 => Len(p) = 1 /\ p[1] = Token("array", t))
          /\ (n # 0 => Len(p) = 2 /\ p[1] = Mark("comma") /\ p[2] = Token("array", t))
      BY <3>1, <3>3
    <3> QED BY <2>1, <3>3, <3>4 DEF Token, Mark, Openings
  <2>2. CASE e.format = "html"
    <3> DEFINE a == before(Mark("end_table"))
    <3>1. a \in Seq(T) /\ Len(a) = (IF n = 0 THEN 0 ELSE 1) /\ (n # 0 => a[1] = Mark("end_table"))
      BY <1>2 DEF before
    <3>2. p = a \o <<Token("table", t)>>
      BY <1>4, <2>2
    <3> HIDE DEF a
    <3>3. /\ p \in Seq(T) /\ Len(p) = Len(a) + 1 /\ p[Len(a) + 1] = Token("table", t)
          /\ \A i \in 1 .. Len(a) : p[i] = a[i]
      BY <1>2, <3>1, <3>2, LastToken
    <3>4. /\ (n = 0 => Len(p) = 1 /\ p[1] = Token("table", t))
          /\ (n # 0 => Len(p) = 2 /\ p[1] = Mark("end_table") /\ p[2] = Token("table", t))
      BY <3>1, <3>3
    <3> QED BY <2>2, <3>3, <3>4 DEF Token, Mark, Openings
  <2>3. CASE e.format = "csv"
    <3>1. p = IF titled THEN <<Token("title", t)>> ELSE <<>>
      BY <1>4, <2>3 DEF CSVTable
    <3> HIDE DEF titled
    <3>2. p \in Seq(T) /\ (titled => Len(p) = 1 /\ p[1] = Token("title", t))
      BY <1>2, <3>1
    <3> QED BY <2>3, <3>1, <3>2 DEF Token, Openings
  <2>4. CASE e.format = "xlsx"
    <3>1. p = <<Token("sheet", t)>>
      BY <1>4, <2>4
    <3>2. p \in Seq(T) /\ Len(p) = 1 /\ p[1] = Token("sheet", t)
      BY <1>2, <3>1
    <3> QED BY <2>4, <3>2 DEF Token, Openings
  <2>5. CASE e.format = "pdf"
    <3>1. p = <<Token("page", t)>>
      BY <1>4, <2>5
    <3>2. p \in Seq(T) /\ Len(p) = 1 /\ p[1] = Token("page", t)
      BY <1>2, <3>1
    <3> QED BY <2>5, <3>2 DEF Token, Openings
  <2> QED BY <1>1, <2>1, <2>2, <2>3, <2>4, <2>5 DEF Formats
<1> DEFINE f == w.file
<1> DEFINE g == v.file
<1> HIDE DEF f, titled
<1>6. /\ f \o part \in Seq(T) /\ Begins(f, f \o part) /\ Len(f \o part) = Len(f) + Len(part)
      /\ \A i \in Len(f) + 1 .. Len(f \o part) : i - Len(f) \in 1 .. Len(part) /\ (f \o part)[i] = part[i - Len(f)]
  <2>1. f \in Seq(T)
    BY <1>1 DEF f
  <2> QED BY <1>5, <2>1, Appended
<1>7. /\ g \in Seq(T) /\ Begins(f, g) /\ Len(g) = Len(f) + Len(part) /\ Len(f) \in Nat
      /\ \A i \in Len(f) + 1 .. Len(g) : i - Len(f) \in 1 .. Len(part) /\ g[i] = part[i - Len(f)]
  BY <1>1, <1>3, <1>6 DEF f
<1> HIDE DEF g
<1>8. CASE ~titled
  <2>1. part = <<>> /\ e.format = "csv"
    BY <1>5, <1>8 DEF titled
  <2>2. g = f
    BY <1>1, <1>3, <2>1, ConcatEmptySeq DEF f, g
  <2>3. Brackets(e, g, n + 1)
    BY <2>1, <2>2 DEF Brackets, f
  <2> QED BY <1>1, <1>3, <1>7, <1>8, <2>2, <2>3 DEF T, f, g, v, titled, Begins
<1>9. CASE titled
  <2>1. /\ Len(part) = (IF more THEN 2 ELSE 1) /\ g[Len(g)] = part[Len(part)] /\ Len(g) \in Len(f) + 1 .. Len(g)
        /\ (more => g[Len(f) + 1] = part[1] /\ Len(f) + 1 \in Len(f) + 1 .. Len(g) /\ Len(f) + 1 # Len(g))
        /\ \A i \in Len(f) + 1 .. Len(g) : i = Len(g) \/ (more /\ i = Len(f) + 1)
    <3>1. Len(part) = IF more THEN 2 ELSE 1
      BY <1>5, <1>9, Zenon
    <3> HIDE DEF more
    <3>2. Len(g) = Len(f) + Len(part) /\ Len(f) \in Nat
      BY <1>7
    <3>3. Len(g) \in Len(f) + 1 .. Len(g) /\ Len(g) - Len(f) = Len(part)
      BY <3>1, <3>2
    <3>4. more => Len(f) + 1 \in Len(f) + 1 .. Len(g) /\ Len(f) + 1 # Len(g) /\ (Len(f) + 1) - Len(f) = 1
      BY <3>1, <3>2
    <3>5. \A i \in Len(f) + 1 .. Len(g) : i = Len(g) \/ (more /\ i = Len(f) + 1)
      BY <3>1, <3>2
    <3>6. g[Len(g)] = part[Len(part)] /\ (more => g[Len(f) + 1] = part[1])
      BY <1>7, <3>3, <3>4
    <3> QED BY <3>1, <3>3, <3>4, <3>5, <3>6
  <2>2. \A i \in Len(f) + 1 .. Len(g) : g[i].kind # "row"
    BY <1>5, <1>9, <2>1 DEF Openings
  <2>3. Under(e, g, Len(g)) = t
    <3>1. Len(g) \in Nat /\ Len(g) > 0 /\ g[Len(g)].kind \in Openings /\ g[Len(g)].table = t
      BY <1>5, <1>7, <1>9, <2>1
    <3> QED BY <3>1, UnderLast
  <2>4. Brackets(e, g, n + 1)
    <3> DEFINE last == Len(g)
    <3>0. f \in Seq(Tokens(tables)) /\ g \in Seq(Tokens(tables)) /\ Brackets(e, f, n)
      BY <1>1, <1>7 DEF T, f
    <3>1. ASSUME NEW kind PROVE
            /\ (\A i \in Len(f) + 1 .. Len(g) : g[i].kind # kind) => Count(g, kind) = Count(f, kind)
            /\ \A p \in Len(f) + 1 .. Len(g) :
                 g[p].kind = kind /\ (\A i \in Len(f) + 1 .. Len(g) : i # p => g[i].kind # kind) =>
                   Count(g, kind) = Count(f, kind) + 1
      BY <1>7, <3>0, CountMore
    <3>2. CASE e.format = "json"
      <4>1. \A i \in Len(f) + 1 .. Len(g) : g[i].kind \notin {"table", "end_table", "end"} /\ (i # last => g[i].kind # "array")
        BY <1>5, <1>9, <2>1, <3>2
      <4>2. g[last].kind = "array" /\ last \in Len(f) + 1 .. Len(g)
        BY <1>5, <1>9, <2>1, <3>2
      <4>3. /\ Count(g, "table") = Count(f, "table") /\ Count(g, "end_table") = Count(f, "end_table")
            /\ Count(g, "end") = Count(f, "end") /\ Count(g, "array") = Count(f, "array") + 1
        BY <3>1, <4>1, <4>2
      <4> QED BY <1>1, <3>0, <3>2, <4>3 DEF Brackets
    <3>3. CASE e.format = "html"
      <4>1. \A i \in Len(f) + 1 .. Len(g) : i # last => g[i].kind # "table"
        BY <1>5, <1>9, <2>1, <3>3
      <4>2. g[last].kind = "table" /\ last \in Len(f) + 1 .. Len(g)
        BY <1>5, <1>9, <2>1, <3>3
      <4>3. Count(g, "table") = Count(f, "table") + 1
        BY <3>1, <4>1, <4>2
      <4>4. CASE n = 0
        <5>1. \A i \in Len(f) + 1 .. Len(g) : g[i].kind # "end_table"
          BY <2>1, <4>2, <4>4
        <5>2. Count(g, "end_table") = Count(f, "end_table")
          BY <3>1, <5>1
        <5> QED BY <1>1, <3>0, <3>3, <4>3, <4>4, <5>2 DEF Brackets
      <4>5. CASE n # 0
        <5>1. more
          BY <3>3, <4>5
        <5>2. g[Len(f) + 1].kind = "end_table" /\ Len(f) + 1 \in Len(f) + 1 .. Len(g)
          BY <1>5, <1>9, <2>1, <3>3, <5>1
        <5>3. \A i \in Len(f) + 1 .. Len(g) : i # Len(f) + 1 => g[i].kind # "end_table"
          BY <2>1, <4>2
        <5>4. Count(g, "end_table") = Count(f, "end_table") + 1
          BY <3>1, <5>2, <5>3
        <5> QED BY <1>1, <3>0, <3>3, <4>3, <4>5, <5>4 DEF Brackets
      <4> QED BY <4>4, <4>5
    <3>4. CASE e.format \notin {"json", "html"}
      <4>1. \A i \in Len(f) + 1 .. Len(g) : g[i].kind \notin {"table", "end_table"}
        BY <1>1, <1>5, <1>9, <2>1, <3>4 DEF Formats
      <4>2. Count(g, "table") = Count(f, "table") /\ Count(g, "end_table") = Count(f, "end_table")
        BY <3>1, <4>1
      <4> QED BY <3>0, <3>4, <4>2 DEF Brackets
    <3> QED BY <3>2, <3>3, <3>4
  <2> QED BY <1>3, <1>7, <1>9, <2>2, <2>3, <2>4 DEF T, f, g, v, titled
<1> QED BY <1>8, <1>9

(* The headers of a table. *)
LEMMA NamesWritten ==
  ASSUME NEW tables, NEW t \in tables, NEW e, NEW w, IsWriter(w, tables), NEW columns \in Seq(Columns),
         Brackets(e, w.file, w.tableCount)
  PROVE  LET v == WriteHeaders(w, t, columns)
         IN  /\ v.file \in Seq(Tokens(tables)) /\ Begins(w.file, v.file)
             /\ \A i \in Len(w.file) + 1 .. Len(v.file) : v.file[i].kind = "header"
             /\ v.tableCount = w.tableCount /\ Brackets(e, v.file, w.tableCount)
<1> DEFINE v == WriteHeaders(w, t, columns)
<1>1. w.file \in Seq(Tokens(tables)) /\ Len(w.file) \in Nat
  BY DEF IsWriter
<1>2. Headers(columns) \in Tokens(tables) /\ Headers(columns).kind = "header"
  <2>1. \A c \in Range(columns) : [d \in ToSet(columns) |-> 0][c] \in Int
    BY DEF ToSet, Range
  <2> QED BY <2>1, RecordType DEF Headers, Kinds
<1>3. \/ v.file = w.file
      \/ v.file = Append(w.file, Headers(columns))
  BY DEF WriteHeaders, IsWriter
<1>4. v.tableCount = w.tableCount
  BY DEF WriteHeaders, IsWriter
<1> HIDE DEF v
<1> DEFINE f == w.file
           g == v.file
<1>5. CASE g = f
  <2>1. Begins(f, g) /\ g \in Seq(Tokens(tables)) /\ \A i \in Len(f) + 1 .. Len(g) : g[i].kind = "header"
    BY <1>1, <1>5 DEF Begins
  <2> QED BY <1>4, <1>5, <2>1 DEF v
<1>6. CASE g = Append(f, Headers(columns))
  <2> HIDE DEF f, g
  <2>1. /\ g \in Seq(Tokens(tables)) /\ Len(g) = Len(f) + 1 /\ g[Len(f) + 1] = Headers(columns)
        /\ \A i \in 1 .. Len(f) : g[i] = f[i]
    <3>1. f \in Seq(Tokens(tables))
      BY <1>1 DEF f
    <3> QED BY <1>2, <1>6, <3>1, AppendProperties
  <2>2. Begins(f, g) /\ \A i \in Len(f) + 1 .. Len(g) : g[i].kind = "header"
    <3>1. Len(f) \in Nat
      BY <1>1 DEF f
    <3> QED BY <1>2, <2>1, <3>1 DEF Begins
  <2>3. Brackets(e, g, w.tableCount)
    <3>1. \A i \in Len(f) + 1 .. Len(g) : g[i].kind \notin {"table", "end_table", "array", "end"}
      BY <2>2
    <3>2. f \in Seq(Tokens(tables)) /\ Brackets(e, f, w.tableCount)
      BY <1>1 DEF f
    <3> QED BY <2>1, <2>2, <3>1, <3>2, BracketsMore
  <2> QED BY <1>4, <2>1, <2>2, <2>3 DEF f, g, v
<1> QED BY <1>3, <1>5, <1>6 DEF f, g

(* What the file shows of a row. *)
Seen(e, row) == [c \in Range(Cols(e)) |-> IF row[c] = NoValue THEN NullText(e) ELSE row[c]]

(* A row as a line of text. *)
LEMMA SeenIs ==
  ASSUME NEW tables, NEW e \in Errands, NEW row \in RowType
  PROVE  /\ Record("row", Cols(e), Seen(e, row)) \in Tokens(tables)
         /\ Record("row", Cols(e), Seen(e, row)).kind = "row"
         /\ Record("row", Cols(e), Seen(e, row)).cells = CellsOf(e, row)
         /\ e.format = "json" => Record("row", AllColumns, row) = Record("row", Cols(e), Seen(e, row))
         /\ e.format # "json" => TextRow(Cols(e), row, NullText(e)) = <<Record("row", Cols(e), Seen(e, row))>>
<1> DEFINE seen == Seen(e, row)
<1>1. \A c \in Range(Cols(e)) : seen[c] = (IF row[c] = NoValue THEN NullText(e) ELSE row[c]) /\ seen[c] \in Int
  <2> SUFFICES ASSUME NEW c \in Range(Cols(e))
               PROVE  seen[c] = (IF row[c] = NoValue THEN NullText(e) ELSE row[c]) /\ seen[c] \in Int
    OBVIOUS
  <2>1. row[c] \in Int
    BY ColsAre1, ColumnsAre
  <2>2. NullText(e) \in Int
    BY DEF NullText, EmptyText, NilText, NoValue
  <2>3. seen[c] = IF row[c] = NoValue THEN NullText(e) ELSE row[c]
    BY DEF Seen
  <2> QED BY <2>1, <2>2, <2>3
<1>2. Cols(e) \in Seq(Columns) /\ \A i \in DOMAIN Cols(e) : Cols(e)[i] \in Range(Cols(e))
  BY ColsAre1
<1> HIDE DEF seen
<1>3. /\ Record("row", Cols(e), seen) \in Tokens(tables) /\ Record("row", Cols(e), seen).kind = "row"
      /\ DOMAIN Record("row", Cols(e), seen).cells = DOMAIN Cols(e)
      /\ \A i \in DOMAIN Cols(e) : Record("row", Cols(e), seen).cells[i] = <<Cols(e)[i], seen[Cols(e)[i]]>>
  <2>1. "row" \in Kinds
    BY DEF Kinds
  <2> QED BY <1>1, <1>2, <2>1, RecordType
<1>4. Record("row", Cols(e), seen).cells = CellsOf(e, row)
  <2>1. Record("row", Cols(e), seen).cells = [i \in DOMAIN Cols(e) |-> <<Cols(e)[i], seen[Cols(e)[i]]>>]
    BY DEF Record
  <2>2. \A i \in DOMAIN Cols(e) :
          seen[Cols(e)[i]] = IF row[Cols(e)[i]] = NoValue THEN NullText(e) ELSE row[Cols(e)[i]]
    BY <1>1, <1>2
  <2> QED BY <2>1, <2>2 DEF CellsOf
<1>5. ASSUME e.format = "json" PROVE Record("row", AllColumns, row) = Record("row", Cols(e), seen)
  <2>1. Cols(e) = AllColumns /\ NullText(e) = NoValue
    BY <1>5 DEF Cols, NullText
  <2>2. \A i \in DOMAIN AllColumns : seen[AllColumns[i]] = row[AllColumns[i]]
    BY <1>1, <1>2, <2>1
  <2> QED BY <2>1, <2>2 DEF Record
<1>6. ASSUME e.format # "json" PROVE TextRow(Cols(e), row, NullText(e)) = <<Record("row", Cols(e), seen)>>
  <2> DEFINE given == [c \in ToSet(Cols(e)) |-> IF row[c] = NoValue THEN NullText(e) ELSE row[c]]
  <2>1. given = seen
    BY DEF seen, Seen, ToSet, Range
  <2>2. TextRow(Cols(e), row, NullText(e)) = <<Record("row", Cols(e), given)>>
    BY DEF TextRow
  <2> HIDE DEF given
  <2> QED BY <2>1, <2>2
<1> QED BY <1>3, <1>4, <1>5, <1>6 DEF seen

(* Whether the writer leaves a row out. *)
Left(e, row) ==
  \/ e.format = "json" /\ NotANumber \in Range(row)
  \/ e.format = "csv" /\ Len(Cols(e)) = 1 /\ row[Cols(e)[1]] = NoValue

(* What the writer v has added to the file of the writer w for the row. *)
RowAdded(tables, e, row, w, v) ==
  LET f == w.file
      g == v.file
  IN  /\ g \in Seq(Tokens(tables)) /\ Begins(f, g)
      /\ \A i \in Len(f) + 1 .. Len(g) : g[i].kind \in {"comma", "row"}
      /\ v.tableCount = w.tableCount /\ Brackets(e, g, w.tableCount)
      /\ \A i \in Len(f) + 1 .. Len(g) : g[i].kind = "row" => i = Len(g) /\ ~Left(e, row)
      /\ ~Left(e, row) => Len(f) < Len(g) /\ g[Len(g)].kind = "row" /\ g[Len(g)].cells = CellsOf(e, row)

(* A row of a table whose columns the writer knows. *)
LEMMA RowWritten ==
  ASSUME NEW tables, NEW t, NEW e \in Errands, NEW w, IsWriter(w, tables), w.format = e.format,
         NEW row \in RowType, e.format # "json" => w.selected[t] = Cols(e), Brackets(e, w.file, w.tableCount)
  PROVE  RowAdded(tables, e, row, w, WriteRow(w, t, row))
<1> DEFINE T == Tokens(tables)
<1> DEFINE v == WriteRow(w, t, row)
<1> DEFINE columns == w.selected[t]
<1> DEFINE line == Record("row", Cols(e), Seen(e, row))
<1> DEFINE part == [json |-> JSONRow(w, row), html |-> HTMLRow(columns, row), csv |-> CSVRow(columns, row),
                    xlsx |-> XLSXRow(columns, row), pdf |-> PDFRow(columns, row)][w.format]
<1>1. w.file \in Seq(T) /\ w.format \in Formats /\ Len(w.file) \in Nat
  BY DEF IsWriter, Formats
<1>2. v.file = w.file \o part /\ v.tableCount = w.tableCount
  BY DEF WriteRow, IsWriter
<1>3. line \in T /\ line.kind = "row" /\ line.cells = CellsOf(e, row)
      /\ (e.format = "json" => Record("row", AllColumns, row) = line)
      /\ (e.format # "json" => TextRow(Cols(e), row, NullText(e)) = <<line>>)
  BY SeenIs
<1>4. /\ e.format = "json" => part = JSONRow(w, row)
      /\ e.format = "html" => part = HTMLRow(columns, row)
      /\ e.format = "csv" => part = CSVRow(columns, row)
      /\ e.format = "xlsx" => part = XLSXRow(columns, row)
      /\ e.format = "pdf" => part = PDFRow(columns, row)
  OBVIOUS
<1> HIDE DEF T, line, part, v, columns
<1>5. /\ part \in Seq(T)
      /\ \A i \in 1 .. Len(part) : /\ part[i].kind \in {"comma", "row"}
                                   /\ part[i].kind = "row" => i = Len(part) /\ ~Left(e, row)
      /\ ~Left(e, row) => Len(part) > 0 /\ part[Len(part)] = line
  <2>1. CASE e.format = "json"
    <3> DEFINE a == IF w.isFirstRow THEN <<>> ELSE <<Mark("comma")>>
    <3>1. a \in Seq(T) /\ Len(a) \in Nat /\ \A i \in 1 .. Len(a) : a[i].kind = "comma"
      <4>1. Mark("comma") \in T /\ Mark("comma").kind = "comma"
        BY TokenType DEF Kinds, T, Mark, Token
      <4> QED BY <4>1
    <3>2. CASE NotANumber \in Range(row)
      <4>1. Left(e, row) /\ part = a \o <<>>
        BY <1>4, <2>1, <3>2 DEF Left, JSONRow
      <4> HIDE DEF a
      <4>2. part = a
        BY <3>1, <4>1, ConcatEmptySeq, Zenon
      <4>3. \A i \in 1 .. Len(a) : a[i].kind \in {"comma", "row"} /\ a[i].kind # "row"
        BY <3>1
      <4> QED BY <3>1, <4>1, <4>2, <4>3
    <3>3. CASE NotANumber \notin Range(row)
      <4>1. ~Left(e, row)
        BY <2>1, <3>3 DEF Left
      <4>2. part = a \o <<line>>
        BY <1>3, <1>4, <2>1, <3>3 DEF JSONRow
      <4> HIDE DEF a
      <4>3. /\ part \in Seq(T) /\ Len(part) = Len(a) + 1 /\ part[Len(a) + 1] = line
            /\ \A i \in 1 .. Len(a) : part[i] = a[i]
        BY <1>3, <3>1, <4>2, LastToken
      <4>4. \A i \in 1 .. Len(part) : i = Len(part) \/ i \in 1 .. Len(a)
        BY <3>1, <4>3
      <4>5. part[Len(part)] = line /\ Len(part) > 0
        BY <3>1, <4>3
      <4>6. \A i \in 1 .. Len(a) : part[i].kind = "comma"
        BY <3>1, <4>3
      <4> QED BY <1>3, <4>1, <4>3, <4>4, <4>5, <4>6
    <3> QED BY <3>2, <3>3
  <2>2. CASE e.format # "json"
    <3>1. columns = Cols(e) /\ TextRow(Cols(e), row, NullText(e)) = <<line>>
      BY <1>3, <2>2 DEF columns
    <3>2. CASE Left(e, row)
      <4>1. part = <<>>
        BY <1>4, <2>2, <3>1, <3>2 DEF Left, CSVRow
      <4>2. part \in Seq(T) /\ Len(part) = 0
        BY <4>1
      <4> QED BY <3>2, <4>2
    <3>3. CASE ~Left(e, row)
      <4>1. part = <<line>>
        <5>1. CASE e.format = "csv"
          <6>1. NullText(e) = EmptyText
            BY <5>1 DEF NullText
          <6>2. ~(Len(columns) = 1 /\ row[columns[1]] = NoValue)
            BY <3>1, <3>3, <5>1 DEF Left
          <6>3. part = TextRow(columns, row, EmptyText)
            BY <1>4, <5>1, <6>2 DEF CSVRow
          <6> QED BY <3>1, <6>1, <6>3
        <5>2. CASE e.format = "xlsx"
          BY <1>4, <3>1, <5>2 DEF NullText, XLSXRow
        <5>3. CASE e.format = "pdf"
          BY <1>4, <3>1, <5>3 DEF NullText, PDFRow
        <5>4. CASE e.format = "html"
          BY <1>4, <3>1, <5>4 DEF NullText, HTMLRow
        <5> QED BY <1>1, <2>2, <5>1, <5>2, <5>3, <5>4 DEF Formats
      <4>2. part \in Seq(T) /\ Len(part) = 1 /\ part[1] = line
        BY <1>3, <4>1
      <4> QED BY <1>3, <3>3, <4>2
    <3> QED BY <3>2, <3>3
  <2> QED BY <2>1, <2>2
<1> DEFINE f == w.file
<1> DEFINE g == v.file
<1>6. /\ f \o part \in Seq(T) /\ Begins(f, f \o part) /\ Len(f \o part) = Len(f) + Len(part)
      /\ \A i \in Len(f) + 1 .. Len(f \o part) : i - Len(f) \in 1 .. Len(part) /\ (f \o part)[i] = part[i - Len(f)]
  <2>1. f \in Seq(T)
    BY <1>1
  <2> HIDE DEF f
  <2> QED BY <1>5, <2>1, Appended
<1> HIDE DEF f
<1>7. /\ g \in Seq(T) /\ Begins(f, g) /\ Len(g) = Len(f) + Len(part) /\ Len(f) \in Nat /\ Len(part) \in Nat
      /\ \A i \in Len(f) + 1 .. Len(g) : i - Len(f) \in 1 .. Len(part) /\ g[i] = part[i - Len(f)]
  <2>1. g = f \o part
    BY <1>2 DEF f
  <2>2. Len(f) \in Nat /\ Len(part) \in Nat
    BY <1>1, <1>5 DEF f
  <2> QED BY <1>6, <2>1, <2>2
<1> HIDE DEF g
<1>8. \A i \in Len(f) + 1 .. Len(g) : g[i].kind \in {"comma", "row"} /\ (g[i].kind = "row" => i = Len(g) /\ ~Left(e, row))
  <2> SUFFICES ASSUME NEW i \in Len(f) + 1 .. Len(g)
               PROVE  g[i].kind \in {"comma", "row"} /\ (g[i].kind = "row" => i = Len(g) /\ ~Left(e, row))
    OBVIOUS
  <2>1. i - Len(f) \in 1 .. Len(part) /\ g[i] = part[i - Len(f)]
    BY <1>7
  <2>2. i - Len(f) = Len(part) => i = Len(g)
    BY <1>7
  <2> QED BY <1>5, <2>1, <2>2
<1>9. ASSUME ~Left(e, row) PROVE Len(f) < Len(g) /\ g[Len(g)].kind = "row" /\ g[Len(g)].cells = CellsOf(e, row)
  <2>1. Len(part) > 0 /\ part[Len(part)] = line
    BY <1>5, <1>9
  <2>2. Len(f) < Len(g) /\ Len(g) \in Len(f) + 1 .. Len(g) /\ Len(g) - Len(f) = Len(part)
    BY <1>7, <2>1
  <2> QED BY <1>3, <1>7, <2>1, <2>2
<1>10. Brackets(e, g, w.tableCount)
  <2>1. \A i \in Len(f) + 1 .. Len(g) : g[i].kind \notin {"table", "end_table", "array", "end"}
    BY <1>8
  <2>2. f \in Seq(Tokens(tables)) /\ g \in Seq(Tokens(tables)) /\ Brackets(e, f, w.tableCount)
    BY <1>1, <1>7 DEF T, f
  <2> QED BY <1>7, <2>1, <2>2, BracketsMore
<1> QED BY <1>2, <1>7, <1>8, <1>9, <1>10 DEF RowAdded, T, f, g, v

(* The end of the file. *)
LEMMA FileClosed ==
  ASSUME NEW tables, NEW e, NEW w, IsWriter(w, tables), w.format = e.format, Brackets(e, w.file, w.tableCount)
  PROVE  LET g == Finalize(w)
         IN  /\ g \in Seq(Tokens(tables)) /\ Begins(w.file, g)
             /\ \A i \in Len(w.file) + 1 .. Len(g) : g[i].kind # "row"
             /\ Count(g, "table") = Count(g, "end_table")
             /\ e.format = "json" => Count(g, "array") = w.tableCount /\ Count(g, "end") = 1
<1> DEFINE T == Tokens(tables)
<1> DEFINE f == w.file
<1> DEFINE g == Finalize(w)
<1> DEFINE n == w.tableCount
<1>1. /\ f \in Seq(T) /\ Len(f) \in Nat /\ n \in Nat
  BY DEF IsWriter
<1>2. Mark("end") \in T /\ Mark("end_table") \in T /\ Mark("foot") \in T
      /\ Mark("end").kind = "end" /\ Mark("end_table").kind = "end_table" /\ Mark("foot").kind = "foot"
  BY TokenType DEF Kinds, Mark, Token
<1>3. Brackets(e, f, n)
  OBVIOUS
<1> HIDE DEF f, T
<1>4. ASSUME NEW h \in Seq(T), Begins(f, h), NEW kind PROVE
        /\ (\A i \in Len(f) + 1 .. Len(h) : h[i].kind # kind) => Count(h, kind) = Count(f, kind)
        /\ \A p \in Len(f) + 1 .. Len(h) :
             h[p].kind = kind /\ (\A i \in Len(f) + 1 .. Len(h) : i # p => h[i].kind # kind) =>
               Count(h, kind) = Count(f, kind) + 1
  BY <1>1, <1>4, CountMore, SMTT(30) DEF T
<1>5. CASE e.format = "json"
  <2>1. g = Append(f, Mark("end"))
    BY <1>5 DEF Finalize, f
  <2> HIDE DEF g
  <2>2. /\ g \in Seq(T) /\ Len(g) = Len(f) + 1 /\ g[Len(f) + 1] = Mark("end") /\ \A i \in 1 .. Len(f) : g[i] = f[i]
    BY <1>1, <1>2, <2>1, AppendProperties
  <2>3. Begins(f, g) /\ \A i \in Len(f) + 1 .. Len(g) : i = Len(f) + 1 /\ g[i].kind = "end"
    BY <1>1, <1>2, <2>2 DEF Begins
  <2>4. Count(g, "end") = Count(f, "end") + 1
    <3>1. Len(f) + 1 \in Len(f) + 1 .. Len(g) /\ g[Len(f) + 1].kind = "end"
      BY <1>1, <1>2, <2>2
    <3> QED BY <1>4, <2>2, <2>3, <3>1
  <2>5. /\ Count(g, "array") = Count(f, "array") /\ Count(g, "table") = Count(f, "table")
        /\ Count(g, "end_table") = Count(f, "end_table")
    BY <1>4, <2>2, <2>3
  <2> QED BY <1>3, <1>5, <2>2, <2>3, <2>4, <2>5 DEF Brackets, T, f, g
<1>6. CASE e.format = "html"
  <2> DEFINE a == IF n > 0 THEN <<Mark("end_table")>> ELSE <<>>
  <2> DEFINE m == f \o a
  <2>1. g = m \o <<Mark("foot")>>
    BY <1>6 DEF Finalize, f
  <2>2. a \in Seq(T) /\ Len(a) = (IF n > 0 THEN 1 ELSE 0) /\ (n > 0 => a[1] = Mark("end_table"))
    BY <1>1, <1>2
  <2> HIDE DEF a, g
  <2>3. /\ m \in Seq(T) /\ Begins(f, m) /\ Len(m) = Len(f) + Len(a)
        /\ \A i \in Len(f) + 1 .. Len(m) : i - Len(f) \in 1 .. Len(a) /\ m[i] = a[i - Len(f)]
    BY <1>1, <2>2, Appended
  <2> HIDE DEF m
  <2>4. /\ g \in Seq(T) /\ Len(g) = Len(m) + 1 /\ g[Len(m) + 1] = Mark("foot") /\ \A i \in 1 .. Len(m) : g[i] = m[i]
    <3>1. m \in Seq(T) /\ Mark("foot") \in T
      BY <1>2, <2>3
    <3> DEFINE l == Mark("foot")
    <3> HIDE DEF l
    <3>2. l \in T /\ g = m \o <<l>>
      BY <2>1, <3>1 DEF l
    <3>3. /\ m \o <<l>> \in Seq(T) /\ Len(m \o <<l>>) = Len(m) + 1 /\ (m \o <<l>>)[Len(m) + 1] = l
          /\ \A i \in 1 .. Len(m) : (m \o <<l>>)[i] = m[i]
      BY <3>1, <3>2, LastToken
    <3> QED BY <3>2, <3>3 DEF l
  <2>5. Begins(f, g)
    BY <1>1, <2>2, <2>3, <2>4 DEF Begins
  <2>6. CASE n > 0
    <3>1. Len(m) = Len(f) + 1 /\ m[Len(f) + 1] = Mark("end_table") /\ Len(g) = Len(f) + 2
          /\ g[Len(f) + 1].kind = "end_table" /\ g[Len(f) + 2].kind = "foot"
      <4>1. Len(m) = Len(f) + 1
        BY <2>2, <2>3, <2>6
      <4>2. Len(f) + 1 \in Len(f) + 1 .. Len(m) /\ (Len(f) + 1) - Len(f) = 1 /\ Len(f) + 1 \in 1 .. Len(m)
        BY <1>1, <4>1
      <4>3. m[Len(f) + 1] = Mark("end_table")
        BY <2>2, <2>3, <2>6, <4>2
      <4>4. Len(g) = Len(f) + 2 /\ g[Len(f) + 2] = Mark("foot")
        BY <1>1, <2>4, <4>1
      <4> QED BY <1>2, <2>4, <4>1, <4>2, <4>3, <4>4
    <3>2. \A i \in Len(f) + 1 .. Len(g) : i = Len(f) + 1 \/ i = Len(f) + 2
      BY <1>1, <3>1
    <3>3. Len(f) + 1 \in Len(f) + 1 .. Len(g)
      BY <1>1, <3>1
    <3>4. \A i \in Len(f) + 1 .. Len(g) : g[i].kind \in {"end_table", "foot"} /\ (i # Len(f) + 1 => g[i].kind = "foot")
      BY <3>1, <3>2
    <3>5. \A i \in Len(f) + 1 .. Len(g) : g[i].kind # "table" /\ g[i].kind # "row" /\ (i # Len(f) + 1 => g[i].kind # "end_table")
      BY <3>4
    <3>6. Count(g, "table") = Count(f, "table") /\ Count(g, "end_table") = Count(f, "end_table") + 1
      BY <1>4, <2>4, <2>5, <3>1, <3>3, <3>5
    <3>7. Count(g, "table") = Count(g, "end_table")
      BY <1>1, <1>3, <1>6, <2>6, <3>6 DEF Brackets
    <3> QED BY <1>6, <2>4, <2>5, <3>5, <3>7 DEF T, f, g
  <2>7. CASE ~(n > 0)
    <3>1. Len(m) = Len(f) /\ Len(g) = Len(f) + 1 /\ g[Len(f) + 1].kind = "foot"
      BY <1>1, <1>2, <2>2, <2>3, <2>4, <2>7
    <3>2. \A i \in Len(f) + 1 .. Len(g) : g[i].kind = "foot"
      BY <1>1, <3>1
    <3>3. \A i \in Len(f) + 1 .. Len(g) : g[i].kind # "table" /\ g[i].kind # "row" /\ g[i].kind # "end_table"
      BY <3>2
    <3>4. Count(g, "table") = Count(f, "table") /\ Count(g, "end_table") = Count(f, "end_table")
      BY <1>4, <2>4, <2>5, <3>3
    <3>5. Count(g, "table") = Count(g, "end_table")
      BY <1>1, <1>3, <1>6, <2>7, <3>4 DEF Brackets
    <3> QED BY <1>6, <2>4, <2>5, <3>3, <3>5 DEF T, f, g
  <2> QED BY <2>6, <2>7
<1>7. CASE e.format \notin {"json", "html"}
  <2>1. g = f
    BY <1>7 DEF Finalize, f
  <2>2. Begins(f, g) /\ \A i \in Len(f) + 1 .. Len(g) : g[i].kind # "row"
    <3> HIDE DEF g
    <3> QED BY <1>1, <2>1 DEF Begins
  <2>3. Count(g, "table") = Count(g, "end_table")
    BY <1>3, <1>7, <2>1 DEF Brackets
  <2> QED BY <1>1, <1>7, <2>1, <2>2, <2>3 DEF T, f
<1> QED BY <1>5, <1>6, <1>7

-----------------------------------------------------------------------------
(* The whole file: the invariant of the export. *)

(* A file in which m tables were opened, n of them are finished, and k rows of the
   next one were written. *)
OpenedTo(e, s, m) == {o \in Exported(e, s) : o <= m}
FileInv(e, s, file, count, m, n, k) ==
  /\ Carries(e, s, file, Done(e, s, n, k))
  /\ count = Cardinality(OpenedTo(e, s, m)) /\ Brackets(e, file, count)
  /\ m > n /\ Titled(e) => Under(e, file, Len(file)) = e.tables[m]
  /\ e.format = "csv" /\ e.columns # <<>> /\ ~(Cardinality(ToSet(e.tables)) > 1) =>
       \A i \in 1 .. Len(file) : file[i].kind \notin Openings

(* The rows of a table, each a function from the columns. *)
AreStock(s) == \A u \in DOMAIN s : s[u] \in Seq(RowType)

(* The tables that were opened. *)
LEMMA OpenedAre ==
  ASSUME NEW e \in Errands, NEW s, AreStock(s), NEW m \in Nat
  PROVE  /\ OpenedTo(e, s, 0) = {} /\ Cardinality(OpenedTo(e, s, m)) \in Nat
         /\ m + 1 \in Exported(e, s) => Cardinality(OpenedTo(e, s, m + 1)) = Cardinality(OpenedTo(e, s, m)) + 1
         /\ m + 1 \notin Exported(e, s) => OpenedTo(e, s, m + 1) = OpenedTo(e, s, m)
         /\ m >= Len(e.tables) => OpenedTo(e, s, m) = Exported(e, s)
<1>1. /\ \A o \in Exported(e, s) : o \in 1 .. Len(e.tables)
      /\ Len(e.tables) \in Nat
  BY OwedNumbers DEF AreStock
<1> DEFINE A == OpenedTo(e, s, m)
           B == OpenedTo(e, s, m + 1)
<1>2. \A i : \A o : o \in OpenedTo(e, s, i) <=> o \in Exported(e, s) /\ o <= i
  BY DEF OpenedTo
<1>3. OpenedTo(e, s, 0) = {}
  BY <1>1, <1>2
<1>4. m >= Len(e.tables) => OpenedTo(e, s, m) = Exported(e, s)
  <2> SUFFICES ASSUME m >= Len(e.tables) PROVE OpenedTo(e, s, m) = Exported(e, s)
    OBVIOUS
  <2>1. \A o : o \in OpenedTo(e, s, m) <=> o \in Exported(e, s)
    BY <1>1, <1>2
  <2> QED BY <2>1
<1>5. \A o : o \in B <=> o \in A \/ (o = m + 1 /\ o \in Exported(e, s))
  BY <1>1, <1>2
<1>6. m + 1 \notin A /\ A \subseteq 1 .. Len(e.tables)
  BY <1>1, <1>2
<1> HIDE DEF A, B
<1>7. IsFiniteSet(A) /\ Cardinality(A) \in Nat
  <2>1. IsFiniteSet(1 .. Len(e.tables))
    BY <1>1, FS_Interval
  <2> QED BY <1>6, <2>1, FS_Subset, FS_CardinalityType
<1>8. ASSUME m + 1 \in Exported(e, s) PROVE Cardinality(B) = Cardinality(A) + 1
  <2>1. \A o : o \in B <=> o \in A \/ o = m + 1
    BY <1>5, <1>8
  <2>2. B = A \cup {m + 1}
    BY <2>1
  <2> QED BY <1>6, <1>7, <2>2, FS_AddElement
<1>9. ASSUME m + 1 \notin Exported(e, s) PROVE B = A
  BY <1>5, <1>9
<1> QED BY <1>3, <1>4, <1>7, <1>8, <1>9 DEF A, B

(* The file of a writer that has written nothing. *)
LEMMA FileBegins ==
  ASSUME NEW e \in Errands, NEW s, AreStock(s)
  PROVE  FileInv(e, s, Empty(e).file, Empty(e).tableCount, 0, 0, 0)
<1> DEFINE file == Empty(e).file
<1>1. /\ file = (IF e.format = "json" THEN <<Mark("object")>> ELSE IF e.format = "html" THEN <<Mark("head")>> ELSE <<>>)
      /\ Empty(e).tableCount = 0
  BY DEF Empty, Initialize
<1> HIDE DEF file
<1>2. \A i \in DOMAIN file : file[i].kind \in {"object", "head"}
  BY <1>1 DEF Mark, Token
<1>3. DOMAIN file = 1 .. Len(file)
  <2> DEFINE x == Mark("object")
             y == Mark("head")
  <2>1. file = <<x>> \/ file = <<y>> \/ file = <<>>
    BY <1>1
  <2> HIDE DEF x, y
  <2> QED BY <2>1
<1>4. \A kind \in {"table", "end_table", "array", "end", "row"} : {i \in DOMAIN file : file[i].kind = kind} = {}
  BY <1>2
<1>5. \A kind \in {"table", "end_table", "array", "end"} : Count(file, kind) = 0
  BY <1>4, FS_EmptySet DEF Count
<1>6. Brackets(e, file, 0)
  BY <1>5 DEF Brackets
<1>7. Done(e, s, 0, 0) = {}
  BY DoneTable DEF AreStock
<1>8. Carries(e, s, file, {})
  <2> DEFINE place == [d \in {} |-> 0]
  <2>1. place \in [{} -> {i \in DOMAIN file : file[i].kind = "row"}]
    OBVIOUS
  <2>2. \A i \in DOMAIN file : file[i].kind # "row"
    BY <1>2
  <2> HIDE DEF place
  <2> QED BY <2>1, <2>2 DEF Carries
<1>9. Cardinality(OpenedTo(e, s, 0)) = 0
  BY OpenedAre, FS_EmptySet
<1>10. \A i \in 1 .. Len(file) : file[i].kind \notin Openings
  BY <1>2, <1>3 DEF Openings
<1>11. FileInv(e, s, file, 0, 0, 0, 0)
  <2>1. Carries(e, s, file, Done(e, s, 0, 0))
    BY <1>7, <1>8
  <2> QED BY <1>6, <1>9, <1>10, <2>1 DEF FileInv
<1> QED BY <1>1, <1>11 DEF file

(* A sequence has finitely many elements. *)
LEMMA TablesAreFinite ==
  ASSUME NEW e \in Errands
  PROVE  IsFiniteSet(ToSet(e.tables))
<1> DEFINE f == e.tables
           T == ToSet(e.tables)
           S == DOMAIN f
<1>1. f \in Seq(T) /\ S = 1 .. Len(f) /\ Len(f) \in Nat
  BY ErrandType
<1>2. \A t \in T : \E i \in S : f[i] = t
  BY DEF ToSet
<1>3. f \in [S -> T]
  BY <1>1
<1>4. IsFiniteSet(S)
  BY <1>1, FS_Interval
<1> HIDE DEF f, T, S
<1>5. f \in Surjection(S, T)
  BY <1>2, <1>3 DEF Surjection
<1>6. IsFiniteSet(T)
  BY <1>4, <1>5, FS_Surjection, Zenon
<1> QED BY <1>6 DEF T

(* A table that is opened. *)
LEMMA FileOpens ==
  ASSUME NEW e \in Errands, NEW s, AreStock(s), NEW n \in Nat, n + 1 \in Exported(e, s),
         NEW w, IsWriter(w, ToSet(e.tables)), w.format = e.format, e.columns # <<>> => w.selected = Selection(e),
         FileInv(e, s, w.file, w.tableCount, n, n, 0)
  PROVE  LET v == WriteTableOf(w, e.tables[n + 1])
         IN  FileInv(e, s, v.file, v.tableCount, n + 1, n, 0)
<1> DEFINE T == ToSet(e.tables)
<1> DEFINE t == e.tables[n + 1]
<1> DEFINE v == WriteTableOf(w, t)
<1> DEFINE titled == e.format # "csv" \/ Cardinality(DOMAIN w.selected) > 1
<1> DEFINE f == w.file
<1> DEFINE g == v.file
<1>1. n + 1 \in 1 .. Len(e.tables) /\ Len(e.tables) \in Nat /\ 1 \in 1 .. Len(e.tables)
  BY OwedNumbers DEF AreStock
<1>2. e.tables \in Seq(T) /\ t \in T /\ e.tables[1] \in T
  BY <1>1, ErrandType
<1>3. /\ f \in Seq(Tokens(T)) /\ Brackets(e, f, w.tableCount) /\ Carries(e, s, f, Done(e, s, n, 0))
      /\ w.tableCount = Cardinality(OpenedTo(e, s, n))
  BY DEF FileInv, IsWriter
<1> HIDE DEF T, t
<1>4. /\ g \in Seq(Tokens(T)) /\ Begins(f, g)
      /\ \A i \in Len(f) + 1 .. Len(g) : g[i].kind # "row"
      /\ v.tableCount = w.tableCount + 1 /\ Brackets(e, g, w.tableCount + 1)
      /\ titled => Under(e, g, Len(g)) = t
      /\ ~titled => g = f
  <2>1. IsWriter(w, T)
    BY DEF T
  <2> QED BY <1>2, <1>3, <2>1, TableWritten
<1>5. e.columns # <<>> => DOMAIN w.selected = T
  BY DEF Selection, T
<1> HIDE DEF f, g, v
<1>6. Carries(e, s, g, Done(e, s, n, 0))
  BY <1>3, <1>4, CarriesMore
<1>7. v.tableCount = Cardinality(OpenedTo(e, s, n + 1)) /\ Brackets(e, g, v.tableCount)
  BY <1>3, <1>4, OpenedAre
<1>8. ASSUME e.format = "csv", e.columns # <<>>, ~(Cardinality(T) > 1)
      PROVE  g = f /\ \A i \in 1 .. Len(g) : g[i].kind \notin Openings
  <2>1. ~titled
    BY <1>5, <1>8
  <2>2. g = f
    BY <1>4, <2>1
  <2>3. \A i \in 1 .. Len(f) : f[i].kind \notin Openings
    BY <1>8 DEF FileInv, f, T
  <2> QED BY <2>2, <2>3
<1>9. ASSUME Titled(e) PROVE Under(e, g, Len(g)) = t
  <2>1. CASE titled
    BY <1>4, <2>1
  <2>2. CASE ~titled
    <3>1. e.format = "csv" /\ e.columns # <<>> /\ ~(Cardinality(T) > 1)
      BY <1>5, <1>9, <2>2 DEF Titled
    <3>2. \A i \in 1 .. Len(g) : g[i].kind \notin Openings
      BY <1>8, <3>1
    <3>3. Under(e, g, Len(g)) = e.tables[1]
      <4>1. {j \in 1 .. Len(g) : g[j].kind \in Openings} = {}
        BY <3>2
      <4> QED BY <4>1 DEF Under
    <3>4. t = e.tables[1]
      <4> SUFFICES ASSUME t # e.tables[1] PROVE FALSE
        OBVIOUS
      <4> DEFINE two == {t, e.tables[1]}
      <4>1. Cardinality(two) = 2
        <5>1. Cardinality({t}) = 1 /\ IsFiniteSet({t}) /\ e.tables[1] \notin {t} /\ two = {t} \cup {e.tables[1]}
          BY FS_Singleton
        <5>2. Cardinality({t} \cup {e.tables[1]}) = Cardinality({t}) + 1
          BY <5>1, FS_AddElement
        <5> QED BY <5>1, <5>2
      <4>2. two \subseteq T /\ IsFiniteSet(T)
        <5>3. IsFiniteSet(T)
          BY TablesAreFinite DEF T
        <5> QED BY <1>2, <5>3
      <4>3. Cardinality(two) <= Cardinality(T) /\ Cardinality(T) \in Nat
        BY <4>2, FS_Subset, FS_CardinalityType
      <4> QED BY <3>1, <4>1, <4>3
    <3> QED BY <3>3, <3>4
  <2> QED BY <2>1, <2>2
<1> QED BY <1>6, <1>7, <1>8, <1>9 DEF FileInv, T, t, g, v

(* Tokens that are neither rows nor openings nor brackets. *)
LEMMA FileMore ==
  ASSUME NEW tables, NEW e, NEW s, NEW m, NEW n, NEW k, NEW count,
         NEW f \in Seq(Tokens(tables)), NEW g \in Seq(Tokens(tables)), Begins(f, g),
         \A i \in Len(f) + 1 .. Len(g) : g[i].kind \notin Openings, FileInv(e, s, f, count, m, n, k)
  PROVE  /\ m > n /\ Titled(e) => Under(e, g, Len(g)) = e.tables[m]
         /\ e.format = "csv" /\ e.columns # <<>> /\ ~(Cardinality(ToSet(e.tables)) > 1) =>
              \A i \in 1 .. Len(g) : g[i].kind \notin Openings
<1>1. Len(f) \in Nat /\ Len(g) \in Nat /\ Len(f) <= Len(g) /\ \A i \in 1 .. Len(f) : g[i] = f[i]
  BY DEF Begins
<1>2. Under(e, g, Len(g)) = Under(e, f, Len(f))
  <2>1. Len(f) \in 0 .. Len(f) /\ Len(g) \in Len(f) .. Len(g)
    BY <1>1
  <2> QED BY <2>1, UnderBefore
<1>3. ASSUME \A i \in 1 .. Len(f) : f[i].kind \notin Openings
      PROVE  \A i \in 1 .. Len(g) : g[i].kind \notin Openings
  <2> SUFFICES ASSUME NEW i \in 1 .. Len(g) PROVE g[i].kind \notin Openings
    OBVIOUS
  <2>1. i \in 1 .. Len(f) \/ i \in Len(f) + 1 .. Len(g)
    BY <1>1
  <2> QED BY <1>1, <1>3, <2>1
<1> QED BY <1>2, <1>3 DEF FileInv

(* The headers of the table. *)
LEMMA FileNames ==
  ASSUME NEW tables, NEW e, NEW s, NEW m, NEW n, NEW k, NEW t \in tables, NEW w, IsWriter(w, tables),
         NEW columns \in Seq(Columns), FileInv(e, s, w.file, w.tableCount, m, n, k)
  PROVE  LET v == WriteHeaders(w, t, columns) IN FileInv(e, s, v.file, v.tableCount, m, n, k)
<1> DEFINE f == w.file
           v == WriteHeaders(w, t, columns)
           g == v.file
<1>1. f \in Seq(Tokens(tables)) /\ Brackets(e, f, w.tableCount) /\ Carries(e, s, f, Done(e, s, n, k))
      /\ w.tableCount = Cardinality(OpenedTo(e, s, m))
  BY DEF IsWriter, FileInv
<1>2. /\ g \in Seq(Tokens(tables)) /\ Begins(f, g)
      /\ \A i \in Len(f) + 1 .. Len(g) : g[i].kind = "header"
      /\ v.tableCount = w.tableCount /\ Brackets(e, g, w.tableCount)
  BY <1>1, NamesWritten
<1>3. FileInv(e, s, f, w.tableCount, m, n, k)
  OBVIOUS
<1> HIDE DEF f, g, v
<1>4. \A i \in Len(f) + 1 .. Len(g) : g[i].kind \notin Openings /\ g[i].kind # "row"
  BY <1>2 DEF Openings
<1>5. Carries(e, s, g, Done(e, s, n, k))
  BY <1>1, <1>2, <1>4, CarriesMore
<1>6. /\ m > n /\ Titled(e) => Under(e, g, Len(g)) = e.tables[m]
      /\ e.format = "csv" /\ e.columns # <<>> /\ ~(Cardinality(ToSet(e.tables)) > 1) =>
           \A i \in 1 .. Len(g) : g[i].kind \notin Openings
  BY <1>1, <1>2, <1>3, <1>4, FileMore
<1>7. FileInv(e, s, g, v.tableCount, m, n, k)
  BY <1>1, <1>2, <1>5, <1>6 DEF FileInv
<1> QED BY <1>7 DEF g, v

(* The texts of the first k rows: JSON has one for each. *)
HaveTexts(e, rows, k) == e.format = "json" => \A i \in 1 .. k : NotANumber \notin Range(rows[i])

(* A row is owed, and written, unless the writer leaves it out. *)
LEMMA FileRow ==
  ASSUME NEW e \in Errands, NEW s, AreStock(s), NEW n \in Nat, NEW k \in Nat, n + 1 \in Exported(e, s),
         NEW w, IsWriter(w, ToSet(e.tables)), w.format = e.format, k < Len(s[e.tables[n + 1]]),
         e.format # "json" => w.selected[e.tables[n + 1]] = Cols(e), HaveTexts(e, s[e.tables[n + 1]], k),
         FileInv(e, s, w.file, w.tableCount, n + 1, n, k)
  PROVE  LET row == s[e.tables[n + 1]][k + 1]
             v == WriteRow(w, e.tables[n + 1], row)
         IN  /\ FileInv(e, s, v.file, v.tableCount, n + 1, n, k + 1)
             /\ ~WriteRowFails(w, row) => HaveTexts(e, s[e.tables[n + 1]], k + 1)
             /\ WriteRowFails(w, row) => \A j \in Due(e, s[e.tables[n + 1]]) : j <= k + 1
<1> DEFINE T == Tokens(ToSet(e.tables))
           t == e.tables[n + 1]
           rows == s[t]
           row == rows[k + 1]
           v == WriteRow(w, t, row)
           f == w.file
           g == v.file
<1>1. rows \in Seq(RowType) /\ Len(rows) \in Nat /\ k + 1 \in 1 .. Len(rows) /\ DOMAIN rows = 1 .. Len(rows)
      /\ row \in RowType
  BY DEF AreStock, Exported
<1>2. f \in Seq(T) /\ Brackets(e, f, w.tableCount) /\ Carries(e, s, f, Done(e, s, n, k))
      /\ w.tableCount = Cardinality(OpenedTo(e, s, n + 1)) /\ Len(f) \in Nat
  BY DEF IsWriter, FileInv
<1>3. FileInv(e, s, f, w.tableCount, n + 1, n, k)
  OBVIOUS
<1> HIDE DEF rows
<1>4. Due(e, rows) \subseteq 1 .. Len(rows) /\ (k + 1 \in Due(e, rows) <=> ~Left(e, row))
  <2>1. Due(e, rows) \subseteq 1 .. Len(rows)
    BY <1>1 DEF Due
  <2>2. e.format = "json" =>
          ((\A i \in 1 .. k + 1 : NotANumber \notin Range(rows[i])) <=> NotANumber \notin Range(row))
    <3>1. e.format = "json" => \A i \in 1 .. k : NotANumber \notin Range(rows[i])
      BY DEF HaveTexts, rows
    <3>2. \A i \in 1 .. k + 1 : i \in 1 .. k \/ i = k + 1
      OBVIOUS
    <3>3. k + 1 \in 1 .. k + 1
      OBVIOUS
    <3> QED BY <3>1, <3>2, <3>3
  <2> QED BY <1>1, <2>1, <2>2 DEF Due, Left
<1>5. ~WriteRowFails(w, row) => HaveTexts(e, rows, k + 1)
  <2> SUFFICES ASSUME ~WriteRowFails(w, row), e.format = "json", NEW i \in 1 .. k + 1
               PROVE  NotANumber \notin Range(rows[i])
    BY DEF HaveTexts
  <2>1. CASE i = k + 1
    BY <2>1 DEF WriteRowFails
  <2>2. CASE i # k + 1
    <3>1. i \in 1 .. k
      BY <2>2
    <3> QED BY <3>1 DEF HaveTexts, rows
  <2> QED BY <2>1, <2>2
<1>6. WriteRowFails(w, row) => \A j \in Due(e, rows) : j <= k + 1
  <2> SUFFICES ASSUME WriteRowFails(w, row), NEW j \in Due(e, rows), ~(j <= k + 1) PROVE FALSE
    OBVIOUS
  <2>1. e.format = "json" /\ NotANumber \in Range(row)
    BY DEF WriteRowFails
  <2>2. j \in 1 .. Len(rows) /\ k + 1 \in 1 .. j
    BY <1>1, <1>4
  <2> QED BY <2>1, <2>2 DEF Due
<1>7. /\ g \in Seq(T) /\ Begins(f, g)
      /\ \A i \in Len(f) + 1 .. Len(g) : g[i].kind \in {"comma", "row"}
      /\ v.tableCount = w.tableCount /\ Brackets(e, g, w.tableCount)
      /\ \A i \in Len(f) + 1 .. Len(g) : g[i].kind = "row" => i = Len(g) /\ ~Left(e, row)
      /\ ~Left(e, row) => Len(f) < Len(g) /\ g[Len(g)].kind = "row" /\ g[Len(g)].cells = CellsOf(e, row)
  <2>1. row \in RowType /\ Brackets(e, w.file, w.tableCount)
    BY <1>1, <1>2
  <2>2. e.format # "json" => w.selected[t] = Cols(e)
    OBVIOUS
  <2> HIDE DEF row, t
  <2>3. RowAdded(ToSet(e.tables), e, row, w, v)
    BY <2>1, <2>2, RowWritten
  <2> QED BY <2>3 DEF RowAdded
<1> HIDE DEF T, f, g, v
<1>8. \A i \in Len(f) + 1 .. Len(g) : g[i].kind \notin Openings
  BY <1>7 DEF Openings
<1>9. /\ n + 1 > n /\ Titled(e) => Under(e, g, Len(g)) = t
      /\ e.format = "csv" /\ e.columns # <<>> /\ ~(Cardinality(ToSet(e.tables)) > 1) =>
           \A i \in 1 .. Len(g) : g[i].kind \notin Openings
  BY <1>2, <1>3, <1>7, <1>8, FileMore DEF T
<1> DEFINE new == <<n + 1, k + 1>>
<1>10. LET due == k + 1 \in Due(e, rows)
       IN  /\ due => /\ Done(e, s, n, k + 1) = Done(e, s, n, k) \cup {new}
                     /\ \A c \in Done(e, s, n, k) : Earlier(c, new) /\ ~Earlier(new, c)
                     /\ ~Earlier(new, new) /\ new[1] = n + 1 /\ new[2] = k + 1
           /\ ~due => Done(e, s, n, k + 1) = Done(e, s, n, k)
  BY DoneRow DEF rows, AreStock
<1> HIDE DEF new
<1>11. Carries(e, s, g, Done(e, s, n, k + 1))
  <2>1. CASE Left(e, row)
    <3>1. \A i \in Len(f) + 1 .. Len(g) : g[i].kind # "row"
      BY <1>7, <2>1
    <3>2. Done(e, s, n, k + 1) = Done(e, s, n, k)
      BY <1>4, <1>10, <2>1
    <3> QED BY <1>2, <1>7, <3>1, <3>2, CarriesMore DEF T
  <2>2. CASE ~Left(e, row)
    <3>1. /\ Done(e, s, n, k + 1) = Done(e, s, n, k) \cup {new}
          /\ \A c \in Done(e, s, n, k) : Earlier(c, new) /\ ~Earlier(new, c)
          /\ ~Earlier(new, new) /\ new[1] = n + 1 /\ new[2] = k + 1
      BY <1>4, <1>10, <2>2
    <3>2. Len(f) < Len(g) /\ g[Len(g)].kind = "row" /\ \A i \in Len(f) + 1 .. Len(g) - 1 : g[i].kind # "row"
      <4>1. Len(g) \in Nat
        BY <1>7
      <4>2. \A i \in Len(f) + 1 .. Len(g) - 1 : i \in Len(f) + 1 .. Len(g) /\ i # Len(g)
        BY <1>2, <4>1
      <4> QED BY <1>7, <2>2, <4>2
    <3>3. g[Len(g)].cells = CellsOf(e, s[e.tables[new[1]]][new[2]])
      BY <1>7, <2>2, <3>1 DEF rows
    <3>4. Titled(e) => Under(e, g, Len(g)) = e.tables[new[1]]
      BY <1>9, <3>1
    <3>5. Carries(e, s, g, Done(e, s, n, k) \cup {new})
      BY <1>2, <1>7, <3>1, <3>2, <3>3, <3>4, CarriesRow DEF T
    <3> QED BY <3>1, <3>5
  <2> QED BY <2>1, <2>2
<1>12. FileInv(e, s, g, v.tableCount, n + 1, n, k + 1)
  BY <1>2, <1>7, <1>9, <1>11 DEF FileInv
<1> QED BY <1>5, <1>6, <1>12 DEF rows, g, v

(* A table is finished when no row of it is owed any more, or if it is not opened. *)
LEMMA FileNext ==
  ASSUME NEW e \in Errands, NEW s, AreStock(s), NEW n \in Nat, NEW k \in Nat, NEW file, NEW count, NEW m,
         FileInv(e, s, file, count, m, n, k),
         \/ m = n + 1 /\ n + 1 \in Exported(e, s) /\ \A j \in Due(e, s[e.tables[n + 1]]) : j <= k
         \/ m = n /\ n + 1 \notin Exported(e, s)
  PROVE  FileInv(e, s, file, count, n + 1, n + 1, 0)
<1>1. Done(e, s, n + 1, 0) = Done(e, s, n, k)
  <2>1. \A u \in DOMAIN s : s[u] \in Seq(RowType)
    BY DEF AreStock
  <2>2. n + 1 \in Exported(e, s) => \A j \in Due(e, s[e.tables[n + 1]]) : j <= k
    OBVIOUS
  <2>3. (n + 1 \in Exported(e, s) => \A j \in Due(e, s[e.tables[n + 1]]) : j <= k) =>
          Done(e, s, n + 1, 0) = Done(e, s, n, k)
    BY <2>1, DoneTable
  <2> QED BY <2>2, <2>3
<1>2. Cardinality(OpenedTo(e, s, n + 1)) = Cardinality(OpenedTo(e, s, m))
  BY OpenedAre
<1>3. ~(n + 1 > n + 1)
  OBVIOUS
<1> QED BY <1>1, <1>2, <1>3 DEF FileInv

(* The file is closed. *)
LEMMA FileEnds ==
  ASSUME NEW e \in Errands, NEW s, AreStock(s), NEW n \in Nat, n >= Len(e.tables),
         NEW w, IsWriter(w, ToSet(e.tables)), w.format = e.format, FileInv(e, s, w.file, w.tableCount, n, n, 0)
  PROVE  LET file == Finalize(w)
         IN  /\ Carries(e, s, file, Owed(e, s))
             /\ Count(file, "table") = Count(file, "end_table")
             /\ e.format = "json" =>
                  (Count(file, "array") = Count(file, "end") <=> Cardinality(Exported(e, s)) = 1)
<1> DEFINE f == w.file
           g == Finalize(w)
           T == Tokens(ToSet(e.tables))
<1>1. /\ f \in Seq(T) /\ Carries(e, s, f, Done(e, s, n, 0)) /\ Brackets(e, f, w.tableCount)
      /\ w.tableCount = Cardinality(OpenedTo(e, s, n))
  BY DEF IsWriter, FileInv
<1>2. Done(e, s, n, 0) = Owed(e, s) /\ OpenedTo(e, s, n) = Exported(e, s)
  BY DoneTable, OpenedAre DEF AreStock
<1>3. /\ g \in Seq(T) /\ Begins(f, g)
      /\ \A i \in Len(f) + 1 .. Len(g) : g[i].kind # "row"
      /\ Count(g, "table") = Count(g, "end_table")
      /\ e.format = "json" => Count(g, "array") = w.tableCount /\ Count(g, "end") = 1
  BY <1>1, FileClosed
<1> HIDE DEF f, g, T
<1>4. Carries(e, s, g, Owed(e, s))
  BY <1>1, <1>2, <1>3, CarriesMore DEF T
<1>5. e.format = "json" => (Count(g, "array") = Count(g, "end") <=> Cardinality(Exported(e, s)) = 1)
  BY <1>1, <1>2, <1>3
<1> QED BY <1>3, <1>4, <1>5 DEF g

-----------------------------------------------------------------------------
(* The whole file: the states of the export. *)

(* The tables that are finished and those that were opened, the rows of the one that
   is being written, and how many of them were. *)
Finished == IF step = "asked" THEN 0 ELSE Len(errand.tables) - Len(tablesLeft)
InTable == step \in {"columns", "pages", "rows", "last_rows"}
TablesOpened == IF InTable THEN Finished + 1 ELSE Finished
CurrentRows == stock[errand.tables[Finished + 1]]
RowsWritten ==
  IF step = "pages" THEN offset
  ELSE IF step = "rows" THEN offset + errand.pageSize - Len(page)
  ELSE IF step = "last_rows" THEN Len(CurrentRows) - Len(page) ELSE 0

QueueInv ==
  /\ step # "asked" => \A i \in 1 .. Len(tablesLeft) : tablesLeft[i] = errand.tables[Finished + i]
  /\ step = "exported" => tablesLeft = <<>>
  /\ InTable => Finished + 1 \in Exported(errand, stock) /\ HaveTexts(errand, CurrentRows, RowsWritten)
  /\ step \in {"asked", "tables", "columns"} => offset = 0
  /\ step = "pages" => offset <= Len(CurrentRows)
  /\ step = "rows" => offset + errand.pageSize <= Len(CurrentRows) /\ Len(page) <= errand.pageSize
  /\ step = "last_rows" => Len(page) <= Len(CurrentRows)
  /\ step \in {"rows", "last_rows"} => PageAt(CurrentRows, page, RowsWritten)

(* Columns that were not asked for are those of the first row. *)
ColumnInv ==
  errand.columns = <<>> =>
    \A u \in DOMAIN output.selected :
      u \in DOMAIN stock => stock[u] = <<>> \/ output.selected[u] = AllColumns

WholeInv ==
  Exporting /\ meddling = 0 /\ ~lost =>
    /\ QueueInv /\ ColumnInv
    /\ step # "exported" =>
         FileInv(errand, stock, output.file, output.tableCount, TablesOpened, Finished, RowsWritten)
    /\ step = "exported" => ExportIsWhole

(* What the types say of a state. *)
LEMMA WholeContext ==
  ASSUME TypeInv
  PROVE  /\ errand \in Errands /\ AreStock(stock)
         /\ IsWriter(output, ToSet(errand.tables)) /\ output.format = errand.format
         /\ offset \in Nat /\ errand.pageSize \in Nat /\ errand.pageSize > 0
         /\ page \in Seq(RowType) /\ Len(page) \in Nat
         /\ tablesLeft \in Seq(ToSet(errand.tables)) /\ Len(tablesLeft) \in Nat
         /\ Finished \in Nat /\ Len(errand.tables) \in Nat
         /\ step # "asked" => Finished + Len(tablesLeft) = Len(errand.tables)
<1>1. /\ errand \in Errands /\ OutputOK /\ StockOK
  BY TypeParts DEF TypeInv
<1>2. /\ IsWriter(output, ToSet(errand.tables)) /\ output.format = errand.format
      /\ offset \in Nat /\ page \in Seq(RowType) /\ Len(page) \in Nat
      /\ tablesLeft \in Seq(ToSet(errand.tables)) /\ Len(tablesLeft) \in Nat
      /\ Len(tablesLeft) <= Len(errand.tables)
  BY <1>1 DEF OutputOK
<1>3. errand.pageSize \in Nat /\ errand.pageSize > 0 /\ Len(errand.tables) \in Nat
  BY <1>1, ErrandType
<1>4. AreStock(stock)
  BY <1>1 DEF StockOK, AreStock
<1>5. Finished \in Nat /\ (step # "asked" => Finished + Len(tablesLeft) = Len(errand.tables))
  BY <1>2, <1>3 DEF Finished
<1> QED BY <1>1, <1>2, <1>3, <1>4, <1>5

(* The table that is next, and those after it. *)
LEMMA CurrentTable ==
  ASSUME TypeInv, QueueInv, step # "asked", tablesLeft # <<>>
  PROVE  /\ Finished + 1 \in 1 .. Len(errand.tables)
         /\ Head(tablesLeft) = errand.tables[Finished + 1]
         /\ Len(Tail(tablesLeft)) = Len(tablesLeft) - 1
         /\ \A i \in 1 .. Len(Tail(tablesLeft)) : Tail(tablesLeft)[i] = errand.tables[Finished + 1 + i]
<1>1. /\ tablesLeft \in Seq(ToSet(errand.tables)) /\ Len(tablesLeft) \in Nat
      /\ Finished \in Nat /\ Len(errand.tables) \in Nat
      /\ Finished + Len(tablesLeft) = Len(errand.tables)
  BY WholeContext
<1>2. \A i \in 1 .. Len(tablesLeft) : tablesLeft[i] = errand.tables[Finished + i]
  BY DEF QueueInv
<1>3. /\ Len(tablesLeft) # 0 /\ Head(tablesLeft) = tablesLeft[1]
      /\ Len(Tail(tablesLeft)) = Len(tablesLeft) - 1
      /\ \A i \in 1 .. Len(Tail(tablesLeft)) : Tail(tablesLeft)[i] = tablesLeft[i + 1]
  BY <1>1, HeadTailProperties
<1>4. \A i \in 1 .. Len(Tail(tablesLeft)) : i + 1 \in 1 .. Len(tablesLeft) /\ Finished + (i + 1) = Finished + 1 + i
  BY <1>1, <1>3
<1>5. 1 \in 1 .. Len(tablesLeft) /\ Finished + 1 \in 1 .. Len(errand.tables)
  BY <1>1, <1>3
<1> QED BY <1>2, <1>3, <1>4, <1>5

(* On to the next table. *)
LEMMA TableFinished ==
  ASSUME TypeInv, QueueInv, step # "asked", tablesLeft # <<>>, TableDone, UNCHANGED <<errand, stock>>,
         ColumnInv',
         FileInv(errand, stock, output'.file, output'.tableCount, Finished + 1, Finished + 1, 0)
  PROVE  WholeInv'
<1>1. step' = "tables" /\ tablesLeft' = Tail(tablesLeft) /\ offset' = 0
  BY DEF TableDone
<1>2. Finished' = Finished + 1
  <2>1. Finished' = Len(errand.tables) - Len(tablesLeft')
    BY <1>1 DEF Finished
  <2> QED BY <1>1, <2>1, CurrentTable, WholeContext
<1>3. ~InTable' /\ TablesOpened' = Finished + 1 /\ RowsWritten' = 0
  BY <1>1, <1>2 DEF InTable, TablesOpened, RowsWritten
<1>4. QueueInv'
  <2>1. \A i \in 1 .. Len(tablesLeft') : tablesLeft'[i] = errand'.tables[Finished' + i]
    BY <1>1, <1>2, CurrentTable
  <2> QED BY <1>1, <1>3, <2>1 DEF QueueInv
<1>5. FileInv(errand', stock', output'.file, output'.tableCount, TablesOpened', Finished', RowsWritten')
  BY <1>2, <1>3
<1> QED BY <1>1, <1>4, <1>5 DEF WholeInv

(* The initial states. *)
LEMMA WholeInit == TransferInit => WholeInv
<1> SUFFICES ASSUME TransferInit PROVE WholeInv
  OBVIOUS
<1>1. TypeInv
  BY TypeInit
<1>2. errand \in Errands /\ AreStock(stock)
  BY <1>1, WholeContext
<1>3. /\ step = "asked" /\ tablesLeft = <<>> /\ offset = 0
      /\ output = Empty(errand)
  BY DEF TransferInit, Empty
<1>4. Finished = 0 /\ ~InTable /\ TablesOpened = 0 /\ RowsWritten = 0
  BY <1>3 DEF Finished, InTable, TablesOpened, RowsWritten
<1>5. QueueInv
  BY <1>3, <1>4 DEF QueueInv
<1>6. ColumnInv
  <2>1. errand.columns = <<>> => DOMAIN output.selected = {}
    BY <1>3 DEF Empty, Initialize, Selection
  <2> QED BY <2>1 DEF ColumnInv
<1>7. FileInv(errand, stock, output.file, output.tableCount, TablesOpened, Finished, RowsWritten)
  BY <1>2, <1>3, <1>4, FileBegins
<1> QED BY <1>3, <1>5, <1>6, <1>7 DEF WholeInv

(* A table is opened, or left out, and its columns become known. *)
LEMMA WholeOpens ==
  ASSUME TypeInv, SelectInv, QueueInv, ColumnInv, UNCHANGED <<errand, stock>>,
         FileInv(errand, stock, output.file, output.tableCount, TablesOpened, Finished, RowsWritten),
         BeginExport \/ SkipTable \/ OpenTable \/ ReadColumns
  PROVE  WholeInv'
<1> DEFINE e == errand
           n == Finished
           t == Head(tablesLeft)
           tables == ToSet(errand.tables)
<1>1. /\ e \in Errands /\ AreStock(stock) /\ IsWriter(output, tables) /\ output.format = e.format
      /\ n \in Nat /\ Len(e.tables) \in Nat
  BY WholeContext
<1>2. CASE BeginExport
  <2>1. /\ step = "asked" /\ step' = "tables" /\ tablesLeft' = e.tables
        /\ output' = output /\ offset' = offset
    BY <1>2 DEF BeginExport
  <2>2. n = 0 /\ Finished' = 0
    BY <1>1, <2>1 DEF Finished
  <2>3. ~InTable /\ ~InTable' /\ TablesOpened = 0 /\ TablesOpened' = 0 /\ RowsWritten = 0 /\ RowsWritten' = 0
    BY <2>1, <2>2 DEF InTable, TablesOpened, RowsWritten
  <2>4. QueueInv'
    <3>1. \A i \in 1 .. Len(tablesLeft') : tablesLeft'[i] = errand'.tables[Finished' + i]
      BY <2>1, <2>2
    <3> QED BY <2>1, <2>3, <3>1 DEF QueueInv
  <2>5. ColumnInv'
    BY <2>1 DEF ColumnInv
  <2>6. FileInv(errand', stock', output'.file, output'.tableCount, TablesOpened', Finished', RowsWritten')
    BY <2>1, <2>2, <2>3
  <2> QED BY <2>1, <2>4, <2>5, <2>6 DEF WholeInv
<1>3. ASSUME step = "tables", tablesLeft # <<>>
      PROVE  /\ n + 1 \in 1 .. Len(e.tables) /\ t = e.tables[n + 1] /\ t \in tables
             /\ FileInv(e, stock, output.file, output.tableCount, n, n, 0)
  <2>1. n + 1 \in 1 .. Len(e.tables) /\ t = e.tables[n + 1]
    BY <1>3, CurrentTable
  <2>2. t \in tables
    BY <1>3, NextTable
  <2>3. TablesOpened = n /\ RowsWritten = 0
    BY <1>3 DEF TablesOpened, InTable, RowsWritten
  <2> QED BY <2>1, <2>2, <2>3
<1>4. CASE SkipTable
  <2>1. /\ step = "tables" /\ tablesLeft # <<>> /\ TableDone /\ output' = output
        /\ t \notin DOMAIN stock \/ WriteTableFails(output, t)
    BY <1>4 DEF SkipTable
  <2>2. n + 1 \notin Exported(e, stock)
    BY <1>1, <1>3, <2>1 DEF Exported, WriteTableFails
  <2>3. FileInv(e, stock, output.file, output.tableCount, n, n, 0)
    BY <1>3, <2>1
  <2>4. FileInv(e, stock, output'.file, output'.tableCount, n + 1, n + 1, 0)
    <3> HIDE DEF e, n
    <3> QED BY <1>1, <2>1, <2>2, <2>3, FileNext
  <2>5. ColumnInv'
    BY <2>1 DEF ColumnInv
  <2> QED BY <2>1, <2>4, <2>5, TableFinished
<1>5. CASE OpenTable
  <2> DEFINE opened == WriteTableOf(output, t)
  <2>1. /\ step = "tables" /\ tablesLeft # <<>> /\ t \in DOMAIN stock /\ ~WriteTableFails(output, t)
        /\ tablesLeft' = tablesLeft /\ offset' = offset /\ offset = 0
    BY <1>5 DEF OpenTable, QueueInv
  <2>2. /\ n + 1 \in 1 .. Len(e.tables) /\ t = e.tables[n + 1] /\ t \in tables
        /\ FileInv(e, stock, output.file, output.tableCount, n, n, 0)
    BY <1>3, <2>1
  <2>3. n + 1 \in Exported(e, stock)
    <3>1. e.tables \in Seq(tables)
      BY <1>1, ErrandType
    <3> QED BY <1>1, <2>1, <2>2, <3>1 DEF Exported, WriteTableFails
  <2>4. FileInv(e, stock, opened.file, opened.tableCount, n + 1, n, 0)
    <3>1. e.columns # <<>> => output.selected = Selection(e)
      BY DEF SelectInv
    <3> HIDE DEF e, n, t
    <3> QED BY <1>1, <2>2, <2>3, <3>1, FileOpens DEF e
  <2>5. IsWriter(opened, tables) /\ opened.selected = output.selected
    <3> HIDE DEF t, tables
    <3> QED BY <1>1, <2>2, WriteTableType
  <2>6. ASSUME step' \in {"columns", "pages"}, output'.selected = output.selected,
               FileInv(e, stock, output'.file, output'.tableCount, n + 1, n, 0)
        PROVE  WholeInv'
    <3>1. Finished' = n
      BY <2>1, <2>6 DEF Finished
    <3>2. InTable' /\ TablesOpened' = n + 1 /\ RowsWritten' = 0 /\ CurrentRows' = stock[e.tables[n + 1]]
      BY <2>1, <2>6, <3>1 DEF InTable, TablesOpened, RowsWritten, CurrentRows
    <3>3. stock[e.tables[n + 1]] \in Seq(RowType)
      BY <1>1, <2>1, <2>2 DEF AreStock
    <3>4. HaveTexts(e, stock[e.tables[n + 1]], 0)
      BY DEF HaveTexts
    <3>5. \A i \in 1 .. Len(tablesLeft') : tablesLeft'[i] = errand'.tables[Finished' + i]
      BY <2>1, <3>1 DEF QueueInv
    <3>6. QueueInv'
      <4> HIDE DEF n
      <4> QED BY <2>1, <2>3, <2>6, <3>1, <3>2, <3>3, <3>4, <3>5 DEF QueueInv
    <3>7. ColumnInv'
      BY <2>6 DEF ColumnInv
    <3>8. FileInv(errand', stock', output'.file, output'.tableCount, TablesOpened', Finished', RowsWritten')
      BY <2>6, <3>1, <3>2
    <3> QED BY <2>6, <3>6, <3>7, <3>8 DEF WholeInv
  <2>7. CASE t \in DOMAIN output.selected
    <3>1. step' = "pages" /\ output' = WriteHeaders(opened, t, output.selected[t])
      BY <1>5, <2>7 DEF OpenTable
    <3>2. output.selected[t] \in Seq(Columns)
      BY <1>1, <2>7 DEF IsWriter, Columns
    <3>3. output'.selected = output.selected
          /\ FileInv(e, stock, output'.file, output'.tableCount, n + 1, n, 0)
      <4> HIDE DEF e, n, t, tables, opened
      <4>1. output'.selected = output.selected
        BY <2>2, <2>5, <3>1, <3>2, WriteHeadersType
      <4>2. FileInv(e, stock, output'.file, output'.tableCount, n + 1, n, 0)
        BY <2>2, <2>4, <2>5, <3>1, <3>2, FileNames
      <4> QED BY <4>1, <4>2
    <3> QED BY <2>6, <3>1, <3>3
  <2>8. CASE t \notin DOMAIN output.selected
    <3>1. step' = "columns" /\ output' = opened
      BY <1>5, <2>8 DEF OpenTable
    <3> QED BY <2>4, <2>5, <2>6, <3>1
  <2> QED BY <2>7, <2>8
<1>6. CASE ReadColumns
  <2> DEFINE rows == stock[t]
             columns == IF rows = <<>> THEN <<>> ELSE AllColumns
             knowing == Knowing(output, t, columns)
  <2>1. step = "columns" /\ tablesLeft # <<>> /\ t \in DOMAIN stock /\ t \in tables /\ offset = 0
    BY <1>6, NextTable DEF ReadColumns, TypeInv, TableInv, QueueInv
  <2>2. n + 1 \in 1 .. Len(e.tables) /\ t = e.tables[n + 1]
    BY <2>1, CurrentTable
  <2>3. /\ n + 1 \in Exported(e, stock) /\ HaveTexts(e, rows, 0)
        /\ FileInv(e, stock, output.file, output.tableCount, n + 1, n, 0)
    <3>1. InTable /\ TablesOpened = n + 1 /\ RowsWritten = 0 /\ CurrentRows = rows
      BY <2>1, <2>2 DEF InTable, TablesOpened, RowsWritten, CurrentRows
    <3> QED BY <3>1 DEF QueueInv
  <2>4. columns \in Seq(Columns) /\ rows \in Seq(RowType)
    BY <1>1, <2>1, ColumnsAre DEF AreStock
  <2>5. IsWriter(knowing, tables)
    <3> HIDE DEF t, tables, columns
    <3> QED BY <1>1, <2>1, <2>4, KnowingType
  <2>6. knowing.file = output.file /\ knowing.tableCount = output.tableCount
        /\ knowing.selected = [u \in DOMAIN output.selected \cup {t} |-> IF u = t THEN columns ELSE output.selected[u]]
    <3> HIDE DEF columns, t
    <3> QED BY <1>1 DEF Knowing, IsWriter
  <2>7. ASSUME output'.selected = knowing.selected PROVE ColumnInv'
    <3> SUFFICES ASSUME e.columns = <<>>, NEW u \in DOMAIN knowing.selected, u \in DOMAIN stock
                 PROVE  stock[u] = <<>> \/ knowing.selected[u] = AllColumns
      BY <2>7 DEF ColumnInv
    <3>1. CASE u = t
      BY <2>6, <3>1
    <3>2. CASE u # t
      <4> HIDE DEF columns, knowing, t
      <4> QED BY <2>6, <3>2 DEF ColumnInv
    <3> QED BY <3>1, <3>2
  <2>8. CASE rows # <<>>
    <3>1. columns # <<>>
      BY <2>8, ColumnsAre
    <3>2. output' = WriteHeaders(knowing, t, columns) /\ step' = "pages" /\ UNCHANGED <<tablesLeft, offset, page>>
      BY <1>6, <3>1 DEF ReadColumns, Knowing
    <3>3. output'.selected = knowing.selected
          /\ FileInv(e, stock, output'.file, output'.tableCount, n + 1, n, 0)
      <4> HIDE DEF e, n, t, tables, columns, knowing
      <4>1. output'.selected = knowing.selected
        BY <2>1, <2>4, <2>5, <3>2, WriteHeadersType
      <4>2. FileInv(e, stock, knowing.file, knowing.tableCount, n + 1, n, 0)
        BY <2>3, <2>6
      <4>3. FileInv(e, stock, output'.file, output'.tableCount, n + 1, n, 0)
        BY <2>1, <2>4, <2>5, <3>2, <4>2, FileNames
      <4> QED BY <4>1, <4>3
    <3>4. Finished' = n
      BY <2>1, <3>2 DEF Finished
    <3>5. InTable' /\ TablesOpened' = n + 1 /\ RowsWritten' = 0 /\ CurrentRows' = rows
      BY <2>1, <2>2, <3>2, <3>4 DEF InTable, TablesOpened, RowsWritten, CurrentRows
    <3>6. QueueInv'
      <4>1. \A i \in 1 .. Len(tablesLeft') : tablesLeft'[i] = errand'.tables[Finished' + i]
        BY <2>1, <3>2, <3>4 DEF QueueInv
      <4> HIDE DEF n, rows
      <4> QED BY <2>1, <2>3, <2>4, <3>2, <3>4, <3>5, <4>1 DEF QueueInv
    <3>7. FileInv(errand', stock', output'.file, output'.tableCount, TablesOpened', Finished', RowsWritten')
      BY <3>3, <3>4, <3>5
    <3> QED BY <2>7, <3>2, <3>3, <3>6, <3>7 DEF WholeInv
  <2>9. CASE rows = <<>>
    <3>1. output' = knowing /\ TableDone
      BY <1>6, <2>9 DEF ReadColumns, Knowing
    <3>2. \A j \in Due(e, stock[e.tables[n + 1]]) : j <= 0
      BY <2>2, <2>9 DEF Due
    <3>3. FileInv(e, stock, output'.file, output'.tableCount, n + 1, n + 1, 0)
      <4>1. FileInv(e, stock, output'.file, output'.tableCount, n + 1, n, 0)
        BY <2>3, <2>6, <3>1
      <4> HIDE DEF e, n
      <4> QED BY <1>1, <2>3, <3>2, <4>1, FileNext
    <3>4. ColumnInv'
      BY <2>7, <3>1
    <3> QED BY <2>1, <3>1, <3>3, <3>4, TableFinished
  <2> QED BY <2>8, <2>9
<1> QED BY <1>2, <1>4, <1>5, <1>6

(* The pages are read and written, and the file is closed. *)
LEMMA WholeWrites ==
  ASSUME TypeInv, SelectInv, QueueInv, ColumnInv, UNCHANGED <<errand, stock>>,
         FileInv(errand, stock, output.file, output.tableCount, TablesOpened, Finished, RowsWritten),
         ReadPage \/ WriteNextRow \/ EndPage \/ FinishExport
  PROVE  WholeInv'
<1> DEFINE e == errand
           n == Finished
           t == Head(tablesLeft)
           rows == stock[t]
           size == e.pageSize
           m == Len(rows)
<1>1. /\ e \in Errands /\ AreStock(stock) /\ IsWriter(output, ToSet(e.tables)) /\ output.format = e.format
      /\ n \in Nat /\ Len(e.tables) \in Nat /\ offset \in Nat /\ size \in Nat /\ size > 0
      /\ page \in Seq(RowType) /\ Len(page) \in Nat
  BY WholeContext
<1>2. ASSUME step \in {"pages", "rows", "last_rows"}
      PROVE  /\ tablesLeft # <<>> /\ t \in DOMAIN stock /\ t \in DOMAIN output.selected /\ t \in ToSet(e.tables)
             /\ n + 1 \in 1 .. Len(e.tables) /\ t = e.tables[n + 1] /\ n + 1 \in Exported(e, stock)
             /\ CurrentRows = rows /\ TablesOpened = n + 1 /\ rows \in Seq(RowType) /\ m \in Nat
             /\ HaveTexts(e, rows, RowsWritten)
             /\ FileInv(e, stock, output.file, output.tableCount, n + 1, n, RowsWritten)
  <2>1. tablesLeft # <<>> /\ t \in DOMAIN stock /\ t \in DOMAIN output.selected
    BY <1>2 DEF TypeInv, TableInv
  <2>2. n + 1 \in 1 .. Len(e.tables) /\ t = e.tables[n + 1] /\ t \in ToSet(e.tables)
    BY <1>2, <2>1, CurrentTable, NextTable
  <2>3. InTable /\ TablesOpened = n + 1 /\ CurrentRows = rows
    BY <1>2, <2>2 DEF InTable, TablesOpened, CurrentRows
  <2>4. rows \in Seq(RowType) /\ m \in Nat
    BY <1>1, <2>1 DEF AreStock
  <2>5. n + 1 \in Exported(e, stock) /\ HaveTexts(e, rows, RowsWritten)
    BY <2>3 DEF QueueInv
  <2> QED BY <2>1, <2>2, <2>3, <2>4, <2>5
<1>3. ASSUME step \in {"pages", "rows", "last_rows"}, step' \in {"pages", "rows", "last_rows"},
             tablesLeft' = tablesLeft
      PROVE  /\ Finished' = n /\ InTable' /\ TablesOpened' = n + 1 /\ CurrentRows' = rows
             /\ \A i \in 1 .. Len(tablesLeft') : tablesLeft'[i] = errand'.tables[Finished' + i]
  <2>1. Finished' = n
    BY <1>3 DEF Finished
  <2>2. InTable' /\ TablesOpened' = n + 1 /\ CurrentRows' = rows
    BY <1>2, <1>3, <2>1 DEF InTable, TablesOpened, CurrentRows
  <2>3. \A i \in 1 .. Len(tablesLeft') : tablesLeft'[i] = errand'.tables[Finished' + i]
    BY <1>3, <2>1 DEF QueueInv
  <2> QED BY <2>1, <2>2, <2>3
<1>4. CASE ReadPage
  <2>1. /\ step = "pages" /\ tablesLeft' = tablesLeft /\ output' = output /\ offset' = offset
        /\ offset <= m /\ RowsWritten = offset
    <3>1. step = "pages" /\ tablesLeft' = tablesLeft /\ output' = output /\ offset' = offset
      BY <1>4 DEF ReadPage
    <3> QED BY <1>2, <3>1 DEF QueueInv, RowsWritten
  <2>2. /\ n + 1 \in Exported(e, stock) /\ rows \in Seq(RowType) /\ m \in Nat /\ HaveTexts(e, rows, offset)
        /\ FileInv(e, stock, output.file, output.tableCount, n + 1, n, offset)
    BY <1>2, <2>1
  <2> DEFINE end == offset + size
             last == IF end > m THEN m ELSE end
  <2>3. page' = SubSeq(rows, offset + 1, last)
        /\ step' = (IF Len(page') < size THEN "last_rows" ELSE "rows")
    BY <1>4 DEF ReadPage
  <2>4. last \in Nat /\ offset <= last /\ last <= m /\ (last = m \/ (last = end /\ end <= m)) /\ last <= end
    BY <1>1, <2>1, <2>2
  <2> HIDE DEF last, rows
  <2>5. Len(page') = last - offset /\ \A i \in 1 .. last - offset : page'[i] = rows[offset + i]
    <3>1. \A i \in offset + 1 .. last : rows[i] \in RowType
      BY <1>1, <2>2, <2>4
    <3>2. /\ Len(SubSeq(rows, offset + 1, last)) = (IF offset + 1 <= last THEN last - (offset + 1) + 1 ELSE 0)
          /\ \A i \in 1 .. last - (offset + 1) + 1 : SubSeq(rows, offset + 1, last)[i] = rows[(offset + 1) + i - 1]
      <4>1. offset + 1 \in Int /\ last \in Int
        BY <1>1, <2>4
      <4> QED BY <3>1, <4>1, SubSeqProperties
    <3>3. /\ (IF offset + 1 <= last THEN last - (offset + 1) + 1 ELSE 0) = last - offset
          /\ \A i \in 1 .. last - offset : i \in 1 .. last - (offset + 1) + 1 /\ (offset + 1) + i - 1 = offset + i
      BY <1>1, <2>4
    <3> QED BY <2>3, <3>2, <3>3
  <2>6. PageAt(rows, page', offset)
    BY <2>5 DEF PageAt
  <2>7. step' \in {"rows", "last_rows"}
    BY <2>3
  <2>8. RowsWritten' = offset /\ (step' = "rows" => offset + size <= m /\ Len(page') <= size)
        /\ (step' = "last_rows" => Len(page') <= m)
    <3>0. CurrentRows' = rows
      BY <1>3, <2>1, <2>7 DEF rows
    <3>1. CASE Len(page') < size
      <4>1. step' = "last_rows" /\ last = m
        BY <1>1, <2>3, <2>4, <2>5, <3>1
      <4>2. m - Len(page') = offset /\ Len(page') <= m
        BY <1>1, <2>1, <2>2, <2>5, <4>1
      <4> QED BY <3>0, <4>1, <4>2 DEF RowsWritten
    <3>2. CASE ~(Len(page') < size)
      <4>1. step' = "rows"
        BY <2>3, <3>2
      <4>2. last >= end
        BY <1>1, <2>1, <2>4, <2>5, <3>2
      <4>3. last = end /\ end <= m
        BY <1>1, <2>2, <2>4, <4>2
      <4>4. Len(page') = size
        BY <1>1, <2>5, <4>3
      <4>5. offset' + size - Len(page') = offset
        BY <1>1, <2>1, <4>4
      <4> QED BY <1>1, <4>1, <4>3, <4>4, <4>5 DEF RowsWritten
    <3> QED BY <3>1, <3>2
  <2>9. /\ Finished' = n /\ InTable' /\ TablesOpened' = n + 1 /\ CurrentRows' = rows
        /\ \A i \in 1 .. Len(tablesLeft') : tablesLeft'[i] = errand'.tables[Finished' + i]
    BY <1>3, <2>1, <2>7 DEF rows
  <2>10. QueueInv'
    <3> HIDE DEF n
    <3> QED BY <2>1, <2>2, <2>6, <2>7, <2>8, <2>9 DEF QueueInv
  <2>11. ColumnInv'
    BY <2>1 DEF ColumnInv
  <2>12. FileInv(errand', stock', output'.file, output'.tableCount, TablesOpened', Finished', RowsWritten')
    BY <2>1, <2>2, <2>8, <2>9
  <2> QED BY <2>7, <2>10, <2>11, <2>12 DEF WholeInv
<1>5. CASE WriteNextRow
  <2> DEFINE k == RowsWritten
             row == rows[k + 1]
  <2>1. step \in {"rows", "last_rows"} /\ page # <<>> /\ output' = WriteRow(output, t, Head(page))
    BY <1>5 DEF WriteNextRow
  <2>2. /\ tablesLeft # <<>> /\ t \in DOMAIN stock /\ t \in DOMAIN output.selected /\ t \in ToSet(e.tables)
        /\ t = e.tables[n + 1] /\ n + 1 \in Exported(e, stock)
        /\ CurrentRows = rows /\ rows \in Seq(RowType) /\ m \in Nat /\ HaveTexts(e, rows, k)
        /\ FileInv(e, stock, output.file, output.tableCount, n + 1, n, k)
    BY <1>2, <2>1
  <2>3. PageAt(rows, page, k) /\ Len(page) > 0
    BY <1>1, <2>1, <2>2 DEF QueueInv
  <2>4. k \in Nat /\ k + Len(page) <= m
    <3>1. CASE step = "rows"
      BY <1>1, <2>2, <3>1 DEF QueueInv, RowsWritten
    <3>2. CASE step = "last_rows"
      BY <1>1, <2>2, <3>2 DEF QueueInv, RowsWritten
    <3> QED BY <2>1, <3>1, <3>2
  <2>5. /\ Head(page) = row /\ Len(Tail(page)) = Len(page) - 1
        /\ PageAt(rows, Tail(page), k + 1)
    <3>1. /\ Head(page) = page[1] /\ Len(Tail(page)) = Len(page) - 1
          /\ \A i \in 1 .. Len(Tail(page)) : Tail(page)[i] = page[i + 1]
      BY <1>1, <2>1, HeadTailProperties
    <3>2. \A i \in 1 .. Len(page) : page[i] = rows[k + i]
      BY <2>3 DEF PageAt
    <3>3. \A i \in 1 .. Len(Tail(page)) : i + 1 \in 1 .. Len(page) /\ k + (i + 1) = (k + 1) + i
      BY <1>1, <2>4, <3>1
    <3> HIDE DEF rows, k
    <3> QED BY <1>1, <2>3, <3>1, <3>2, <3>3, SMTT(30) DEF PageAt
  <2>6. rows # <<>> /\ k < m
    BY <1>1, <2>2, <2>3, <2>4
  <2>7. e.format # "json" => output.selected[t] = Cols(e)
    <3>1. CASE e.columns # <<>>
      BY <2>2, <3>1 DEF SelectInv, Selection, Cols
    <3>2. CASE e.columns = <<>>
      BY <2>2, <2>6, <3>2 DEF ColumnInv, Cols
    <3> QED BY <3>1, <3>2
  <2>8. /\ FileInv(e, stock, output'.file, output'.tableCount, n + 1, n, k + 1)
        /\ ~WriteRowFails(output, Head(page)) => HaveTexts(e, rows, k + 1)
        /\ WriteRowFails(output, Head(page)) => \A j \in Due(e, rows) : j <= k + 1
    <3>1. /\ k < Len(stock[e.tables[n + 1]]) /\ HaveTexts(e, stock[e.tables[n + 1]], k)
          /\ e.format # "json" => output.selected[e.tables[n + 1]] = Cols(e)
          /\ FileInv(e, stock, output.file, output.tableCount, n + 1, n, k)
      BY <2>2, <2>6, <2>7
    <3>2. e \in Errands /\ AreStock(stock) /\ n \in Nat /\ k \in Nat /\ n + 1 \in Exported(e, stock)
          /\ IsWriter(output, ToSet(e.tables)) /\ output.format = e.format
      BY <1>1, <2>2, <2>4
    <3>3. LET r == stock[e.tables[n + 1]][k + 1]
              v == WriteRow(output, e.tables[n + 1], r)
          IN  /\ FileInv(e, stock, v.file, v.tableCount, n + 1, n, k + 1)
              /\ ~WriteRowFails(output, r) => HaveTexts(e, stock[e.tables[n + 1]], k + 1)
              /\ WriteRowFails(output, r) => \A j \in Due(e, stock[e.tables[n + 1]]) : j <= k + 1
      <4> HIDE DEF e, n, k
      <4> QED BY <3>1, <3>2, FileRow
    <3> QED BY <2>1, <2>2, <2>5, <3>3
  <2>9. output'.selected = output.selected
    BY <1>1, <2>1 DEF WriteRow, IsWriter
  <2>10. ColumnInv'
    BY <2>9 DEF ColumnInv
  <2>11. CASE WriteRowFails(output, Head(page))
    <3>1. TableDone
      BY <1>5, <2>11 DEF WriteNextRow
    <3>2. FileInv(e, stock, output'.file, output'.tableCount, n + 1, n + 1, 0)
      <4>1. \A j \in Due(e, stock[e.tables[n + 1]]) : j <= k + 1
        BY <2>2, <2>8, <2>11
      <4>2. k + 1 \in Nat
        BY <2>4
      <4> HIDE DEF e, n, k
      <4> QED BY <1>1, <2>2, <2>8, <4>1, <4>2, FileNext
    <3> QED BY <2>1, <2>2, <2>10, <3>1, <3>2, TableFinished
  <2>12. CASE ~WriteRowFails(output, Head(page))
    <3>1. page' = Tail(page) /\ step' = step /\ tablesLeft' = tablesLeft /\ offset' = offset
      BY <1>5, <2>12 DEF WriteNextRow
    <3>2. /\ Finished' = n /\ InTable' /\ TablesOpened' = n + 1 /\ CurrentRows' = rows
          /\ \A i \in 1 .. Len(tablesLeft') : tablesLeft'[i] = errand'.tables[Finished' + i]
      BY <1>3, <2>1, <3>1
    <3>3. RowsWritten' = k + 1
      <4>1. CASE step = "rows"
        <5>1. RowsWritten' = offset + size - Len(Tail(page)) /\ k = offset + size - Len(page)
          BY <3>1, <4>1 DEF RowsWritten
        <5> HIDE DEF k, size
        <5> QED BY <1>1, <2>5, <5>1
      <4>2. CASE step = "last_rows"
        <5>1. RowsWritten' = m - Len(Tail(page)) /\ k = m - Len(page)
          BY <2>2, <3>1, <3>2, <4>2 DEF RowsWritten
        <5>2. m \in Nat /\ Len(page) \in Nat /\ Len(Tail(page)) = Len(page) - 1
          BY <1>1, <2>2, <2>5
        <5> DEFINE left == Len(page)
                   then == Len(Tail(page))
                   next == RowsWritten'
        <5>3. next = m - then /\ k = m - left /\ m \in Nat /\ left \in Nat /\ then = left - 1
          BY <5>1, <5>2
        <5> HIDE DEF k, m, left, then, next
        <5>4. next = k + 1
          BY <5>3
        <5> QED BY <5>4 DEF next
      <4> QED BY <2>1, <4>1, <4>2
    <3>4. (step = "rows" => offset + size <= m /\ Len(page) <= size) /\ Len(page') <= Len(page) /\ Len(page) <= m
          /\ Len(page') \in Nat
      BY <1>1, <2>2, <2>3, <2>4, <2>5, <3>1 DEF QueueInv
    <3>5. QueueInv'
      <4> DEFINE next == k + 1
      <4>0. next = k + 1
        OBVIOUS
      <4> HIDE DEF n, k, rows, next
      <4>1. InTable' => Finished' + 1 \in Exported(errand', stock') /\ HaveTexts(errand', CurrentRows', RowsWritten')
        BY <2>2, <2>8, <2>12, <3>2, <3>3
      <4>2. /\ step' = "rows" => offset' + errand'.pageSize <= Len(CurrentRows') /\ Len(page') <= errand'.pageSize
            /\ step' = "last_rows" => Len(page') <= Len(CurrentRows')
        BY <1>1, <2>2, <3>1, <3>2, <3>4
      <4>3. PageAt(CurrentRows', page', RowsWritten')
        BY <2>5, <3>1, <3>2, <3>3
      <4> QED BY <2>1, <3>1, <3>2, <4>1, <4>2, <4>3 DEF QueueInv
    <3>6. FileInv(errand', stock', output'.file, output'.tableCount, TablesOpened', Finished', RowsWritten')
      BY <2>8, <3>2, <3>3
    <3> QED BY <2>1, <2>10, <3>1, <3>5, <3>6 DEF WholeInv
  <2> QED BY <2>11, <2>12
<1>6. CASE EndPage
  <2>1. step \in {"rows", "last_rows"} /\ page = <<>> /\ output' = output
    BY <1>6 DEF EndPage
  <2>2. /\ tablesLeft # <<>> /\ t = e.tables[n + 1] /\ n + 1 \in Exported(e, stock)
        /\ CurrentRows = rows /\ rows \in Seq(RowType) /\ m \in Nat /\ HaveTexts(e, rows, RowsWritten)
        /\ FileInv(e, stock, output.file, output.tableCount, n + 1, n, RowsWritten)
    BY <1>2, <2>1
  <2>3. ColumnInv'
    BY <2>1 DEF ColumnInv
  <2>4. CASE step = "last_rows"
    <3>1. TableDone
      BY <1>6, <2>4 DEF EndPage
    <3>2. RowsWritten = m
      BY <2>1, <2>2, <2>4 DEF RowsWritten
    <3>3. \A j \in Due(e, stock[e.tables[n + 1]]) : j <= m
      BY <2>2 DEF Due
    <3>4. FileInv(e, stock, output'.file, output'.tableCount, n + 1, n + 1, 0)
      <4> HIDE DEF e, n, m
      <4> QED BY <1>1, <2>1, <2>2, <3>2, <3>3, FileNext
    <3> QED BY <2>1, <2>2, <2>3, <3>1, <3>4, TableFinished
  <2>5. CASE step = "rows"
    <3>1. step' = "pages" /\ offset' = offset + size /\ tablesLeft' = tablesLeft /\ page' = page
      BY <1>6, <2>5 DEF EndPage, NextOffset
    <3>2. /\ Finished' = n /\ InTable' /\ TablesOpened' = n + 1 /\ CurrentRows' = rows
          /\ \A i \in 1 .. Len(tablesLeft') : tablesLeft'[i] = errand'.tables[Finished' + i]
      BY <1>3, <2>5, <3>1
    <3>3. RowsWritten' = RowsWritten /\ offset' <= m
      <4>1. RowsWritten = offset + size /\ offset + size <= m
        BY <1>1, <2>1, <2>2, <2>5 DEF RowsWritten, QueueInv
      <4> QED BY <3>1, <4>1 DEF RowsWritten
    <3>4. QueueInv'
      <4> HIDE DEF n, rows
      <4> QED BY <2>2, <3>1, <3>2, <3>3 DEF QueueInv
    <3>5. FileInv(errand', stock', output'.file, output'.tableCount, TablesOpened', Finished', RowsWritten')
      BY <2>1, <2>2, <3>2, <3>3
    <3> QED BY <2>3, <3>1, <3>4, <3>5 DEF WholeInv
  <2> QED BY <2>1, <2>4, <2>5
<1>7. CASE FinishExport
  <2>1. /\ step = "tables" /\ tablesLeft = <<>> /\ step' = "exported" /\ tablesLeft' = tablesLeft
        /\ output' = [output EXCEPT !.file = Finalize(output)]
    BY <1>7 DEF FinishExport
  <2>2. output'.file = Finalize(output) /\ output'.selected = output.selected
    BY <1>1, <2>1 DEF IsWriter
  <2>3. n >= Len(e.tables) /\ TablesOpened = n /\ RowsWritten = 0
    BY <1>1, <2>1, WholeContext DEF TablesOpened, InTable, RowsWritten
  <2>4. LET file == Finalize(output)
        IN  /\ Carries(e, stock, file, Owed(e, stock))
            /\ Count(file, "table") = Count(file, "end_table")
            /\ e.format = "json" =>
                 (Count(file, "array") = Count(file, "end") <=> Cardinality(Exported(e, stock)) = 1)
    <3>1. FileInv(e, stock, output.file, output.tableCount, n, n, 0)
      BY <2>3
    <3> HIDE DEF e, n
    <3> QED BY <1>1, <2>3, <3>1, FileEnds
  <2>5. ExportIsWhole'
    BY <2>2, <2>4 DEF ExportIsWhole
  <2>6. QueueInv'
    BY <2>1 DEF QueueInv, InTable
  <2>7. ColumnInv'
    BY <2>2 DEF ColumnInv
  <2> QED BY <2>1, <2>5, <2>6, <2>7 DEF WholeInv
<1> QED BY <1>4, <1>5, <1>6, <1>7

(* The steps keep the invariant. *)
LEMMA WholeStep ==
  TypeInv /\ StartInv /\ SelectInv /\ WholeInv /\ [TransferNext]_transferVars => WholeInv'
<1> SUFFICES ASSUME TypeInv, StartInv, SelectInv, WholeInv, [TransferNext]_transferVars,
                    Exporting', meddling' = 0, ~lost'
             PROVE  WholeInv'
  BY DEF WholeInv
<1>1. errand' = errand /\ meddling = 0 /\ ~lost
  BY StartStep
<1>2. CASE UNCHANGED transferVars
  BY <1>2 DEF transferVars, WholeInv, QueueInv, ColumnInv, Finished, InTable, TablesOpened, CurrentRows,
              RowsWritten, Exporting, ExportIsWhole
<1>3. CASE BeginExport \/ SkipTable \/ OpenTable \/ ReadColumns
  <2>1. step \in {"asked", "tables", "columns"} /\ stock' = stock
    BY <1>3 DEF BeginExport, SkipTable, OpenTable, ReadColumns
  <2>2. Exporting /\ step # "exported"
    BY <2>1 DEF Exporting
  <2>3. QueueInv /\ ColumnInv
        /\ FileInv(errand, stock, output.file, output.tableCount, TablesOpened, Finished, RowsWritten)
    BY <1>1, <2>2 DEF WholeInv
  <2> QED BY <1>1, <1>3, <2>1, <2>3, WholeOpens
<1>4. CASE ReadPage \/ WriteNextRow \/ EndPage \/ FinishExport
  <2>1. step \in {"pages", "rows", "last_rows", "tables"} /\ stock' = stock
    BY <1>4 DEF ReadPage, WriteNextRow, EndPage, FinishExport
  <2>2. Exporting /\ step # "exported"
    BY <2>1 DEF Exporting
  <2>3. QueueInv /\ ColumnInv
        /\ FileInv(errand, stock, output.file, output.tableCount, TablesOpened, Finished, RowsWritten)
    BY <1>1, <2>2 DEF WholeInv
  <2> QED BY <1>1, <1>4, <2>1, <2>3, WholeWrites
<1>5. CASE ExportStatementFails
  BY <1>5 DEF ExportStatementFails
<1>6. CASE \E t \in DOMAIN stock : Meddle(t)
  BY <1>1, <1>6 DEF Meddle
<1>7. CASE ParseFile \/ Truncate \/ TruncateFails \/ NextBatch \/ ImportRow \/ EndImport
  <2>1. step' \in {"rolled_back", "truncating", "batches", "committed"}
    BY <1>7 DEF ParseFile, Truncate, TruncateFails, NextBatch, ImportRow, EndImport
  <2> QED BY <2>1 DEF Exporting
<1> QED BY <1>2, <1>3, <1>4, <1>5, <1>6, <1>7 DEF TransferNext

(* An export during which nobody writes and no statement fails is complete: its file
   has every row that is owed, of every table that could be opened, once, with its
   values, in the order of the database and under its own table, and nothing else. *)
THEOREM ExportsAreWhole == TransferSpec => []ExportIsWhole
<1>1. TransferInit => TypeInv /\ TripInv /\ WholeInv
  BY TypeInit, TripInit, WholeInit
<1>2. (TypeInv /\ TripInv /\ WholeInv) /\ [TransferNext]_transferVars => (TypeInv /\ TripInv /\ WholeInv)'
  BY TypeStep, TripStep, WholeStep DEF TripInv
<1>3. WholeInv => ExportIsWhole
  BY DEF WholeInv, ExportIsWhole, Exporting
<1> QED BY <1>1, <1>2, <1>3, PTL DEF TransferSpec
=============================================================================
