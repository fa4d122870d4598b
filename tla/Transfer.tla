------------------------------- MODULE Transfer -------------------------------
(* __data_export and __data_import: the export reads a table page by page, in
   statements that see what others commit in between, and a writer appends to the
   file; the client gives the file to the import of one table, where a parser reads
   it and the rows are inserted in batches.

   A file is a sequence of tokens, whatever its format. A row of a table is a function
   from its columns to numbers: the value is one that every type of text holds. *)
EXTENDS Integers, FiniteSets, SequencesExt, FiniteSetsExt, TLC

CONSTANTS
  Errands,           \* what the clients ask for, see TransferInit
  Stocks,         \* contents of the database: functions from tables to sequences of rows
  LongNames,      \* tables whose name is too long for a sheet
  MaxMeddling     \* bound on the commits of others in a behaviour

AllColumns == <<"id", "reference_id", "value", "permission">>

NoValue == -1
EmptyText == -2      \* what is left of NULL in CSV and XLSX
NotANumber == -3     \* of a column of floats: JSON has no text for it
NilText == -5        \* what PDF prints for NULL
TitleLike == -4      \* a text that begins with "table:"
DefaultPermission == 0
AsText(ref) == ref + 100   \* the text of a reference id, stored as it is

(* Ids and reference ids are keys. The sizes of pages and batches are positive, the
   columns that are asked for exist, and so does the table of an import (another one is
   skipped, and nothing happens). *)
RowType == [Range(AllColumns) -> Int]
TransferAssumption ==
  /\ MaxMeddling \in Nat
  /\ \A e \in Errands :
       /\ e.format \in {"json", "csv", "xlsx", "html", "pdf"}
       /\ e.tables \in Seq(Range(e.tables)) /\ e.columns \in Seq(Range(AllColumns))
       /\ {e.includeHeaders, e.named, e.truncate, e.postgres} \subseteq BOOLEAN
       /\ {e.pageSize, e.batchSize} \subseteq Nat \ {0}
       /\ \A s \in Stocks : e.subject \in DOMAIN s
  /\ \A s \in Stocks : s \in [DOMAIN s -> Seq(RowType)]
  /\ \A s \in Stocks : \A t \in DOMAIN s :
       /\ \A i \in DOMAIN s[t] : {s[t][i]["id"], s[t][i]["reference_id"], s[t][i]["permission"]} \subseteq Nat
       /\ \A i, j \in DOMAIN s[t] : i # j => /\ s[t][i]["id"] # s[t][j]["id"]
                                            /\ s[t][i]["reference_id"] # s[t][j]["reference_id"]
ASSUME TransferAssumption

-----------------------------------------------------------------------------
(* The writers. w: the file so far, its format, the columns of the tables known so
   far, the tables that have headers, the number of tables, whether the next row is
   the first of its table. *)

NoTable == "none"
Token(kind, table) == [kind |-> kind, table |-> table, cells |-> <<>>]
Mark(kind) == Token(kind, NoTable)
Record(kind, columns, row) ==
  [kind |-> kind, table |-> NoTable, cells |-> [i \in DOMAIN columns |-> <<columns[i], row[columns[i]]>>]]
Headers(columns) == Record("header", columns, [c \in ToSet(columns) |-> 0])

Initialize(format, selected, includeHeaders) ==
  [format |-> format, selected |-> selected, includeHeaders |-> includeHeaders,
   columnsWritten |-> {}, tableCount |-> 0, isFirstRow |-> TRUE,
   file |-> IF format = "json" THEN <<Mark("object")>>
            ELSE IF format = "html" THEN <<Mark("head")>> ELSE <<>>]

(* What a writer begins a table with: JSON without the end of the table before, CSV
   a title only if it knows of several tables. *)
JSONTable(w, t) == (IF w.tableCount = 0 THEN <<>> ELSE <<Mark("comma")>>) \o <<Token("array", t)>>
HTMLTable(w, t) == (IF w.tableCount = 0 THEN <<>> ELSE <<Mark("end_table")>>) \o <<Token("table", t)>>
CSVTable(w, t) == IF Cardinality(DOMAIN w.selected) > 1 THEN <<Token("title", t)>> ELSE <<>>
XLSXTable(w, t) == <<Token("sheet", t)>>
PDFTable(w, t) == <<Token("page", t)>>

WriteTableOf(w, t) ==
  [w EXCEPT !.tableCount = @ + 1, !.isFirstRow = TRUE,
            !.file = @ \o [json |-> JSONTable(w, t), html |-> HTMLTable(w, t), csv |-> CSVTable(w, t),
                           xlsx |-> XLSXTable(w, t), pdf |-> PDFTable(w, t)][w.format]]
WriteTableFails(w, t) == w.format = "xlsx" /\ t \in LongNames

WriteHeaders(w, t, columns) ==
  IF w.format = "html" THEN [w EXCEPT !.file = Append(@, Headers(columns))]
  ELSE IF w.format \in {"csv", "xlsx"} /\ w.includeHeaders /\ t \notin w.columnsWritten
  THEN [w EXCEPT !.file = Append(@, Headers(columns)), !.columnsWritten = @ \cup {t}]
  ELSE w

(* JSON writes all columns of the row; the comma before it comes before the question
   whether the row has a text. The others write the known columns, NULL each in its
   way; a line of CSV that is one empty field is an empty line, which no reader sees. *)
JSONRow(w, row) ==
  (IF w.isFirstRow THEN <<>> ELSE <<Mark("comma")>>)
    \o (IF NotANumber \in Range(row) THEN <<>> ELSE <<Record("row", AllColumns, row)>>)
TextRow(columns, row, null) ==
  <<Record("row", columns, [c \in ToSet(columns) |-> IF row[c] = NoValue THEN null ELSE row[c]])>>
CSVRow(columns, row) ==
  IF Len(columns) = 1 /\ row[columns[1]] = NoValue THEN <<>> ELSE TextRow(columns, row, EmptyText)
XLSXRow(columns, row) == TextRow(columns, row, EmptyText)
PDFRow(columns, row) == TextRow(columns, row, NilText)
HTMLRow(columns, row) == TextRow(columns, row, NoValue)

WriteRow(w, t, row) ==
  LET columns == w.selected[t]
  IN  [w EXCEPT !.isFirstRow = FALSE,
                !.file = @ \o [json |-> JSONRow(w, row), html |-> HTMLRow(columns, row),
                               csv |-> CSVRow(columns, row), xlsx |-> XLSXRow(columns, row),
                               pdf |-> PDFRow(columns, row)][w.format]]

WriteRowFails(w, row) == w.format = "json" /\ NotANumber \in Range(row)

Finalize(w) ==
  IF w.format = "json" THEN Append(w.file, Mark("end"))
  ELSE IF w.format = "html"
  THEN w.file \o (IF w.tableCount > 0 THEN <<Mark("end_table")>> ELSE <<>>) \o <<Mark("foot")>>
  ELSE w.file   \* a workbook without sheets and an empty file are both nothing

-----------------------------------------------------------------------------
(* The parsers. They give the rows of the table, as far as columns are known, or
   an error. *)

Failed == [ok |-> FALSE, rows |-> <<>>]
Parsed(rows) == [ok |-> TRUE, rows |-> rows]
AsMap(cells) == [c \in {cells[i][1] : i \in DOMAIN cells} |->
                   (CHOOSE cell \in ToSet(cells) : cell[1] = c)[2]]

(* One object of one array: the brackets of more than one do not match. *)
ParseJSON(file, subject) ==
  LET inner == SubSeq(file, 3, Len(file) - 1)
      document == /\ Len(file) > 2 /\ file[2].kind = "array"
                  /\ Len(inner) > 0 => Len(inner) % 2 = 1
                  /\ \A i \in DOMAIN inner : inner[i].kind = IF i % 2 = 1 THEN "row" ELSE "comma"
  IN  IF ~document \/ file[2].table # subject THEN Failed
      ELSE Parsed([i \in 1 .. (Len(inner) + 1) \div 2 |-> AsMap(inner[2 * i - 1].cells)])

(* Records: the first names the columns. If it is a row, its values are the names. *)
ParseRecords(records) ==
  IF records = <<>> THEN Failed
  ELSE LET known == records[1].kind = "header"
           at(record) == {i \in DOMAIN records[1].cells : i <= Len(record.cells)}
           row(record) == IF ~known THEN [c \in {} |-> 0]
                          ELSE [c \in {records[1].cells[i][1] : i \in at(record)} |->
                                  record.cells[CHOOSE i \in at(record) : records[1].cells[i][1] = c][2]]
       IN  Parsed([i \in 1 .. Len(records) - 1 |-> row(records[i + 1])])

(* Every line has as many fields as the first. What begins with "table:" begins a new
   table, whose name is not looked at: it takes the place of the table before. *)
ParseCSV(lines, subject) ==
  LET fields(r) == IF r.kind = "title" THEN 1 ELSE Len(r.cells)
      titles == {i \in DOMAIN lines : lines[i].kind = "title" \/ lines[i].cells[1][2] = TitleLike}
      filled == DOMAIN lines \ titles
      begin == Max({0} \cup {i \in titles : i < Max(filled)})
  IN  IF filled = {} \/ \E i \in DOMAIN lines : fields(lines[i]) # fields(lines[1]) THEN Failed
      ELSE ParseRecords(SubSeq(lines, begin + 1, Max(filled)))

ParseXLSX(file, subject) ==
  LET at == {i \in DOMAIN file : file[i].kind = "sheet" /\ file[i].table = subject}
      begin == Max(at)
      end == Min({i \in begin + 1 .. Len(file) + 1 : i = Len(file) + 1 \/ file[i].kind = "sheet"})
  IN  IF at = {} THEN Failed ELSE ParseRecords(SubSeq(file, begin + 1, end - 1))

(* By the extension, else by the content: the bytes of a workbook may look like CSV. *)
DetectFileFormat(named, format, file) ==
  IF named THEN {format}
  ELSE IF format = "csv" /\ \E i \in DOMAIN file : Len(file[i].cells) > 1 THEN {"csv"}
  ELSE IF format = "xlsx" /\ file # <<>> THEN {"csv", "xlsx"}
  ELSE {"json"}

Parse(as, format, file, subject) ==
  IF as # format THEN Failed
  ELSE IF as = "json" THEN ParseJSON(file, subject)
  ELSE IF as = "csv" THEN ParseCSV(file, subject)
  ELSE ParseXLSX(file, subject)

-----------------------------------------------------------------------------
VARIABLES
  errand,        \* what is asked for: format, tables, columns, includeHeaders, pageSize of
              \*   the export; subject, named, truncate, batchSize of the import;
              \*   postgres, where a failed statement is the end of a transaction
  stock,      \* the rows of each table, in the order in which the database reads them
  oldStock,       \* the stock as it was committed when the import began
  step,       \* "asked", "tables", "columns", "pages", "exported", "truncating",
              \*   "batches", "rolled_back", "committed"; "rows" and "last_rows" while
              \*   a page is written
  tablesLeft, \* tablesToExport
  output, offset,   \* the state of the writer, and where the page begins
  page,       \* the rows that were read and are not written yet
  parsed,     \* the rows that the parser gave
  rowsAt,     \* how many of them were handed to the import (the last batch counts in full)
  batch,      \* those handed to it that it has not come to
  imported,   \* totalRowsImported
  errors,     \* the import has an error
  aborted,    \* a statement of the import failed, and PostgreSQL refuses the rest
  meddling,   \* commits of others so far
  lost        \* a statement of the export failed

transferVars == <<errand, stock, oldStock, step, tablesLeft, output, offset, page, parsed, rowsAt, batch,
                  imported, errors, aborted, meddling, lost>>
importVars == <<oldStock, parsed, rowsAt, batch, imported, errors, aborted>>

Selection(j) == IF j.columns = <<>> THEN [t \in {} |-> <<>>] ELSE [t \in ToSet(j.tables) |-> j.columns]

TransferInit ==
  /\ errand \in Errands /\ stock \in Stocks /\ oldStock = stock
  /\ step = "asked" /\ tablesLeft = <<>> /\ offset = 0 /\ page = <<>>
  /\ output = Initialize(errand.format, Selection(errand), errand.includeHeaders)
  /\ parsed = <<>> /\ rowsAt = 0 /\ batch = <<>> /\ imported = 0 /\ errors = FALSE /\ aborted = FALSE
  /\ meddling = 0 /\ lost = FALSE

(* On to the next table, whatever became of this one. *)
TableDone == step' = "tables" /\ tablesLeft' = Tail(tablesLeft) /\ offset' = 0 /\ page' = <<>>

BeginExport ==
  /\ step = "asked"
  /\ step' = "tables" /\ tablesLeft' = errand.tables
  /\ UNCHANGED <<errand, stock, output, offset, page, importVars, meddling, lost>>

SkipTable ==
  /\ step = "tables" /\ tablesLeft # <<>>
  /\ Head(tablesLeft) \notin DOMAIN stock \/ WriteTableFails(output, Head(tablesLeft))
  /\ TableDone
  /\ UNCHANGED <<errand, stock, output, importVars, meddling, lost>>

OpenTable ==
  /\ step = "tables" /\ tablesLeft # <<>>
  /\ LET t == Head(tablesLeft)
         opened == WriteTableOf(output, t)
     IN  /\ t \in DOMAIN stock /\ ~WriteTableFails(output, t)
         /\ IF t \in DOMAIN output.selected
            THEN step' = "pages" /\ output' = WriteHeaders(opened, t, output.selected[t])
            ELSE step' = "columns" /\ output' = opened
  /\ UNCHANGED <<errand, stock, tablesLeft, offset, page, importVars, meddling, lost>>

(* The columns of the first row, in the order of a map. *)
ReadColumns ==
  /\ step = "columns"
  /\ LET t == Head(tablesLeft)
         columns == IF stock[t] = <<>> THEN <<>> ELSE AllColumns
         knowing == [output EXCEPT !.selected =
                       [u \in DOMAIN @ \cup {t} |-> IF u = t THEN columns ELSE @[u]]]
     IN  IF columns # <<>>
         THEN /\ output' = WriteHeaders(knowing, t, columns)
              /\ step' = "pages" /\ UNCHANGED <<tablesLeft, offset, page>>
         ELSE output' = knowing /\ TableDone
  /\ UNCHANGED <<errand, stock, importVars, meddling, lost>>

(* Mutant of NextOffset: the last row of a page is also the first of the next. *)
NextOffsetWithin(from, size) == IF size = 1 THEN from + 1 ELSE from + size - 1

NextOffset(from, size) == from + size

(* GetAllRawObjectsWithPaginationAndTransaction: a page that is not full is the last. *)
ReadPage ==
  /\ step = "pages"
  /\ LET rows == stock[Head(tablesLeft)]
         end == offset + errand.pageSize
     IN  /\ page' = SubSeq(rows, offset + 1, IF end > Len(rows) THEN Len(rows) ELSE end)
         /\ step' = IF Len(page') < errand.pageSize THEN "last_rows" ELSE "rows"
  /\ UNCHANGED <<errand, stock, tablesLeft, output, offset, importVars, meddling, lost>>

(* A row without a text ends the table. *)
WriteNextRow ==
  /\ step \in {"rows", "last_rows"} /\ page # <<>>
  /\ output' = WriteRow(output, Head(tablesLeft), Head(page))
  /\ IF WriteRowFails(output, Head(page)) THEN TableDone
     ELSE page' = Tail(page) /\ UNCHANGED <<step, tablesLeft, offset>>
  /\ UNCHANGED <<errand, stock, importVars, meddling, lost>>

EndPage ==
  /\ step \in {"rows", "last_rows"} /\ page = <<>>
  /\ IF step = "last_rows" THEN TableDone
     ELSE /\ step' = "pages" /\ offset' = NextOffset(offset, errand.pageSize)
          /\ UNCHANGED <<tablesLeft, page>>
  /\ UNCHANGED <<errand, stock, output, importVars, meddling, lost>>

ExportStatementFails ==
  /\ step \in {"columns", "pages"}
  /\ TableDone /\ lost' = TRUE
  /\ UNCHANGED <<errand, stock, output, importVars, meddling>>

FinishExport ==
  /\ step = "tables" /\ tablesLeft = <<>>
  /\ step' = "exported" /\ output' = [output EXCEPT !.file = Finalize(output)]
  /\ UNCHANGED <<errand, stock, tablesLeft, offset, page, importVars, meddling, lost>>

(* Between two statements of the export others add a row or delete the first. *)
Meddle(t) ==
  /\ step \in {"columns", "pages"} /\ meddling < MaxMeddling
  /\ stock[t] # <<>>
  /\ LET next == Last(stock[t])
         above(c) == 1 + Max({stock[t][i][c] : i \in DOMAIN stock[t]})
         row == [next EXCEPT !["id"] = above("id"), !["reference_id"] = above("reference_id")]
     IN  stock' \in {[stock EXCEPT ![t] = Tail(@)], [stock EXCEPT ![t] = Append(@, row)]}
  /\ meddling' = meddling + 1
  /\ UNCHANGED <<errand, step, tablesLeft, output, offset, page, importVars, lost>>

-----------------------------------------------------------------------------
(* The import of the file into the table that is the subject. *)

ParseFile ==
  /\ step = "exported" /\ errand.format \in {"json", "csv", "xlsx"}
  /\ oldStock' = stock
  /\ \E as \in DetectFileFormat(errand.named, errand.format, output.file) :
       LET result == Parse(as, errand.format, output.file, errand.subject)
       IN  /\ parsed' = result.rows /\ errors' = ~result.ok
           /\ step' = IF ~result.ok THEN "rolled_back"
                      ELSE IF errand.truncate THEN "truncating" ELSE "batches"
  /\ UNCHANGED <<errand, stock, tablesLeft, output, offset, page, rowsAt, batch, imported, aborted, meddling, lost>>

Truncate ==
  /\ step = "truncating"
  /\ step' = "batches" /\ stock' = [stock EXCEPT ![errand.subject] = <<>>]
  /\ UNCHANGED <<errand, tablesLeft, output, offset, page, importVars, meddling, lost>>

(* Rows of other tables refer to the rows: an error, and the import goes on. *)
TruncateFails ==
  /\ step = "truncating"
  /\ step' = "batches" /\ errors' = TRUE /\ aborted' = errand.postgres
  /\ UNCHANGED <<errand, stock, oldStock, tablesLeft, output, offset, page, parsed, rowsAt, batch,
                 imported, meddling, lost>>

(* DirectInsert takes every column of the table from the row, NULL where it has none,
   but for the permission. An id that is NULL is given by SQLite and MySQL. *)
DirectInsert(s, row) ==
  LET of(c) == IF c \in DOMAIN row THEN row[c] ELSE NoValue
      ids == {s[i]["id"] : i \in DOMAIN s}
      id == IF of("id") # NoValue THEN of("id") ELSE 1 + Max(ids \cup {0})
      reference == IF of("reference_id") = NoValue THEN NoValue ELSE AsText(of("reference_id"))
  IN  IF \/ id \in ids \/ reference \in {NoValue} \cup {s[i]["reference_id"] : i \in DOMAIN s}
         \/ of("id") = NoValue /\ errand.postgres
      THEN s
      ELSE Append(s, [c \in ToSet(AllColumns) |->
             IF c = "id" THEN id ELSE IF c = "reference_id" THEN reference
             ELSE IF c = "permission" THEN DefaultPermission ELSE of(c)])

(* Mutant of BatchEnd: a batch that is cut at the end of the rows loses its last one. *)
BatchEndShort(from, size, n) == IF from + size > n THEN n - 1 ELSE from + size

BatchEnd(from, size, n) == IF from + size > n THEN n ELSE from + size

NextBatch ==
  /\ step = "batches" /\ batch = <<>> /\ rowsAt < Len(parsed)
  /\ batch' = SubSeq(parsed, rowsAt + 1, BatchEnd(rowsAt, errand.batchSize, Len(parsed)))
  /\ rowsAt' = rowsAt + errand.batchSize
  /\ UNCHANGED <<errand, stock, oldStock, step, tablesLeft, output, offset, page, parsed, imported,
                 errors, aborted, meddling, lost>>

(* A row that cannot be inserted is logged, and the next one is tried. *)
ImportRow ==
  /\ step = "batches" /\ batch # <<>>
  /\ LET rows == stock[errand.subject]
         after == IF aborted THEN rows ELSE DirectInsert(rows, Head(batch))
     IN  IF after = rows THEN aborted' = errand.postgres /\ UNCHANGED <<stock, imported>>
         ELSE /\ stock' = [stock EXCEPT ![errand.subject] = after] /\ imported' = imported + 1
              /\ UNCHANGED aborted
  /\ batch' = Tail(batch)
  /\ UNCHANGED <<errand, oldStock, step, tablesLeft, output, offset, page, parsed, rowsAt, errors,
                 meddling, lost>>

(* An error takes everything back; so does the COMMIT of an aborted transaction,
   which is answered with the number of rows that were inserted. *)
EndImport ==
  /\ step = "batches" /\ batch = <<>> /\ rowsAt >= Len(parsed)
  /\ step' = IF errors THEN "rolled_back" ELSE "committed"
  /\ stock' = IF errors \/ aborted THEN oldStock ELSE stock
  /\ UNCHANGED <<errand, tablesLeft, output, offset, page, importVars, meddling, lost>>

TransferNext ==
  \/ BeginExport \/ SkipTable \/ OpenTable \/ ReadColumns \/ ReadPage \/ WriteNextRow \/ EndPage
  \/ ExportStatementFails \/ FinishExport
  \/ \E t \in DOMAIN stock : Meddle(t)
  \/ ParseFile \/ Truncate \/ TruncateFails \/ NextBatch \/ ImportRow \/ EndImport

TransferSpec == TransferInit /\ [][TransferNext]_transferVars
-----------------------------------------------------------------------------
Kinds == {"object", "comma", "array", "end", "head", "table", "end_table", "foot", "title", "sheet", "page", "header", "row"}
Tokens(tables) ==
  [kind : Kinds, table : tables \cup {NoTable}, cells : Seq(Range(AllColumns) \X Int)]
IsWriter(w, tables) ==
  /\ w \in [format : {"json", "csv", "xlsx", "html", "pdf"}, includeHeaders : BOOLEAN,
            selected : {w.selected}, columnsWritten : SUBSET tables, tableCount : Nat,
            isFirstRow : BOOLEAN, file : Seq(Tokens(tables))]
  /\ DOMAIN w.selected \subseteq tables /\ w.selected \in [DOMAIN w.selected -> Seq(Range(AllColumns))]
AreParsed(rows) ==
  /\ rows \in Seq(Range(rows))
  /\ \A row \in Range(rows) : DOMAIN row \subseteq Range(AllColumns) /\ row \in [DOMAIN row -> Int]

TransferTypeOK ==
  /\ errand \in Errands
  /\ step \in {"asked", "tables", "columns", "pages", "rows", "last_rows", "exported",
               "truncating", "batches", "rolled_back", "committed"}
  /\ oldStock \in [DOMAIN oldStock -> Seq(RowType)] /\ stock \in [DOMAIN oldStock -> Seq(RowType)]
  /\ tablesLeft \in Seq(ToSet(errand.tables)) /\ Len(tablesLeft) <= Len(errand.tables)
  /\ IsWriter(output, ToSet(errand.tables)) /\ output.format = errand.format
  /\ offset \in Nat /\ page \in Seq(RowType)
  /\ AreParsed(parsed) /\ AreParsed(batch) /\ rowsAt \in Nat
  /\ imported + Len(batch) \in 0 .. Len(parsed) /\ imported \in Nat
  /\ {errors, aborted, lost} \subseteq BOOLEAN /\ meddling \in 0 .. MaxMeddling

(* The positions of the tables that can be opened, which depends on the format alone. *)
Exported(e, s) == {o \in DOMAIN e.tables : e.tables[o] \in DOMAIN s /\ ~WriteTableFails(e, e.tables[o])}

(* What the file shows of a row: the columns that were asked for, JSON all of them,
   and NULL as the format has it. *)
Cols(e) == IF e.columns = <<>> \/ e.format = "json" THEN AllColumns ELSE e.columns
NullText(e) == IF e.format \in {"csv", "xlsx"} THEN EmptyText ELSE IF e.format = "pdf" THEN NilText ELSE NoValue
CellsOf(e, row) ==
  [i \in DOMAIN Cols(e) |-> <<Cols(e)[i], IF row[Cols(e)[i]] = NoValue THEN NullText(e) ELSE row[Cols(e)[i]]>>]

(* The rows that an export owes: a row without a text is the end of its table in JSON,
   and in CSV a line of one empty field is no line. *)
Due(e, rows) ==
  {j \in DOMAIN rows :
     /\ e.format = "json" => \A i \in 1 .. j : NotANumber \notin Range(rows[i])
     /\ ~(e.format = "csv" /\ Len(Cols(e)) = 1 /\ rows[j][Cols(e)[1]] = NoValue)}
Owed(e, s) == UNION {{o} \X Due(e, s[e.tables[o]]) : o \in Exported(e, s)}
Earlier(c, d) == c[1] < d[1] \/ (c[1] = d[1] /\ c[2] < d[2])

(* The table whose rows follow at a place of the file. The titles of CSV are of tables
   whose columns are given, or of the later ones. *)
Openings == {"array", "table", "sheet", "page", "title"}
Under(e, file, i) ==
  LET before == {j \in 1 .. i : file[j].kind \in Openings}
  IN  IF before = {} THEN e.tables[1] ELSE file[Max(before)].table
Titled(e) == e.format # "csv" \/ e.columns # <<>>

(* The rows of the file are these rows of these tables, in this order. *)
Carries(e, s, file, owed) ==
  \E place \in [owed -> {i \in DOMAIN file : file[i].kind = "row"}] :
    /\ \A i \in DOMAIN file : file[i].kind = "row" => \E d \in owed : place[d] = i
    /\ \A c, d \in owed : Earlier(c, d) => place[c] < place[d]
    /\ \A d \in owed :
         /\ file[place[d]].cells = CellsOf(e, s[e.tables[d[1]]][d[2]])
         /\ Titled(e) => Under(e, file, place[d]) = e.tables[d[1]]

Count(file, kind) == Cardinality({i \in DOMAIN file : file[i].kind = kind})

(* An export during which nobody writes and no statement fails has every row of every
   table it could open, and no other: once, with the values of its columns, one table
   after the other and in the order of the database, and under its own table where the
   file names it. The tables of HTML are closed, and the brackets of JSON if there is
   exactly one table. *)
ExportIsWhole ==
  step = "exported" /\ meddling = 0 /\ ~lost =>
    /\ Carries(errand, stock, output.file, Owed(errand, stock))
    /\ Count(output.file, "table") = Count(output.file, "end_table")
    /\ errand.format = "json" =>
         (Count(output.file, "array") = Count(output.file, "end") <=> Cardinality(Exported(errand, stock)) = 1)

(* What can be imported: one table, whose name the file has (if it has one), with a
   line of names, with ids and references, that some row has filled, whose values have
   a text in JSON and do not begin a line of CSV with "table:". *)
Importable ==
  LET values == {oldStock[errand.subject][i]["value"] : i \in DOMAIN oldStock[errand.subject]}
      columns == output.selected[errand.subject]
  IN  /\ errand.named /\ errand.tables = <<errand.subject>> /\ 1 \in Exported(errand, oldStock)
      /\ IF errand.format = "json" THEN NotANumber \notin values
         ELSE errand.includeHeaders /\ values # {} /\ {"id", "reference_id"} \subseteq ToSet(columns)
      /\ errand.format = "csv" => TitleLike \notin values \/ columns[1] # "value"

Same(format, columns, old, new) ==
  /\ new["id"] = old["id"] /\ new["reference_id"] = AsText(old["reference_id"])
  /\ new["value"] = IF format # "json" /\ "value" \notin ToSet(columns) THEN NoValue
                    ELSE IF format # "json" /\ old["value"] = NoValue THEN EmptyText ELSE old["value"]

(* The import of such a file into the emptied table gives the rows back, in their
   order, with their reference ids as texts and with the permission of new rows, and
   NULL as an empty text where the format has no NULL. What is not committed leaves
   the table as it was, and the rows that are told to be imported are there unless
   PostgreSQL had aborted the transaction. *)
ImportRestores ==
  /\ step = "rolled_back" \/ (aborted /\ step = "committed") => stock = oldStock
  /\ step = "committed" /\ ~aborted =>
       imported = Len(stock[errand.subject]) - (IF errand.truncate THEN 0 ELSE Len(oldStock[errand.subject]))
  /\ step = "committed" /\ errand.truncate /\ meddling = 0 /\ ~lost /\ Importable =>
       LET old == oldStock[errand.subject]
           new == stock[errand.subject]
       IN  /\ Len(new) = Len(old)
           /\ \A i \in DOMAIN old : Same(errand.format, output.selected[errand.subject], old[i], new[i])
=============================================================================
