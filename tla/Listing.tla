------------------------------- MODULE Listing -------------------------------
(* GET of a table: PaginatedFindAll with its filters, relations, order, page and
   included rows, and a client that walks from page to page. Three statements run
   one after the other in a transaction that sees what others commit in between:
   the ids of the page, the rows of these ids, the total.

   A row has a key it is ordered by, a value that filters compare, a permission and
   the objects near it, over whichever relation the request names. *)
EXTENDS Access, SequencesExt, TLC

CONSTANTS
  Contents,     \* contents of the table: functions from ids to rows
  Queries,      \* what a client may ask for, see ListInit
  Hidden,       \* objects that only an administrator may read
  OtherTotals,  \* totals that a request of the same text has left in the count cache
  MaxWrites     \* bound on the transactions of others in a behaviour

ASSUME ListingAssumption ==
  /\ MaxWrites \in Nat /\ OtherTotals \subseteq Nat
  /\ \A c \in Contents :
       /\ IsFiniteSet(DOMAIN c) /\ DOMAIN c \subseteq Nat
       /\ \A i \in DOMAIN c : c[i].key \in Int
  /\ \A q \in Queries :
       /\ q.first \in Nat /\ q.size \in Nat
       /\ q.cursor \in {"none", "after", "before"}
       /\ IsFiniteSet(q.objects)
       /\ q.rel = "has_many filtered" => q.objects # {}

Null == -1     \* the values of rows are natural numbers, 0 and 1 also the Boolean ones
Other == -2
Error == [kind |-> "error"]
Panic == [kind |-> "panic"]
Is(kind, value) == [kind |-> kind, value |-> value]

-----------------------------------------------------------------------------
(* A filter of the query parameter. Where the database leaves a choice of its own
   (order of strings, wildcards in the value) the values are those it agrees on. *)

OperatorMap ==
  [op \in {"contains", "like", "ilike", "begins with", "ends with", "not contains", "not like",
           "not ilike", "is", "eq", "neq", "in", "is not", "before", "after", "more than",
           "any of", "none of", "less than", "is empty", "is true", "is false"} |->
     CASE op \in {"contains", "begins with", "ends with"} -> "like"
       [] op \in {"not contains", "not like"} -> "notLike"
       [] op = "ilike" -> "iLike" [] op = "not ilike" -> "notILike" [] op = "is not" -> "isNot"
       [] op \in {"before", "less than"} -> "lt" [] op \in {"after", "more than"} -> "gt"
       [] op = "is empty" -> "is nil" [] OTHER -> op]

(* Operators of two words, the first of which begins with "is" or "not". *)
TwoWords ==
  [op \in {"is nil", "is null", "is true", "is false", "not null", "not empty", "not true",
           "not false", "not in"} |->
     <<IF op \in {"is nil", "is null", "is true", "is false"} THEN "is" ELSE "not",
       CASE op \in {"is nil", "is null", "not null", "not empty"} -> Null
         [] op \in {"is true", "not true"} -> 1 [] op \in {"is false", "not false"} -> 0
         [] op = "not in" -> Other>>]

(* The operators that goqu knows; any other makes ToSQL fail. *)
GoquOperators == {"eq", "neq", "gt", "gte", "lt", "lte", "in", "notIn", "like", "notLike", "iLike",
                  "notILike", "is", "isNot"}

Equals(value) == IF value = Null THEN Is("isNull", Null) ELSE Is("eq", value)
Differs(value) == IF value = Null THEN Is("isNotNull", Null) ELSE Is("neq", value)

(* The condition that a filter becomes. A condition of two words that is none of
   the known ones leaves the value, which is no expression. *)
addFilter(f) ==
  LET op == IF f.op \in DOMAIN OperatorMap THEN OperatorMap[f.op] ELSE f.op
  IN  IF ~f.known THEN Error
      ELSE IF op \in DOMAIN TwoWords
      THEN LET word == TwoWords[op]
           IN  CASE word[2] = Null -> IF word[1] = "is" THEN Equals(Null) ELSE Differs(Null)
                 [] word[2] = 1 -> Is(IF word[1] = "is" THEN "isTrue" ELSE "isNotTrue", 1)
                 [] word[2] = 0 -> Is(IF word[1] = "is" THEN "isFalse" ELSE "isNotFalse", 0)
                 [] OTHER -> Panic
      ELSE IF op \in {"is", "="} THEN Equals(f.value)
      ELSE IF op = "not" THEN Differs(f.value)
      ELSE IF op \in GoquOperators THEN Is(op, f.value) ELSE Error

(* What a condition says of the value v of a row; unknown counts as no. *)
Satisfies(c, v) ==
  CASE c.kind = "isNull" -> v = Null
    [] c.kind = "isNotNull" -> v # Null
    [] c.kind = "isTrue" -> v \notin {Null, 0}
    [] c.kind = "isNotTrue" -> v \in {Null, 0}
    [] c.kind = "isFalse" -> v = 0
    [] c.kind = "isNotFalse" -> v # 0
    [] c.kind = "is" -> v = c.value
    [] c.kind = "isNot" -> v # c.value
    [] c.kind \in {"eq", "like", "iLike", "in"} -> v # Null /\ v = c.value
    [] c.kind \in {"neq", "notLike", "notILike", "notIn"} -> v # Null /\ v # c.value
    [] c.kind = "lt" -> v # Null /\ v < c.value
    [] c.kind = "gt" -> v # Null /\ v > c.value
    [] c.kind = "lte" -> v # Null /\ v <= c.value
    [] c.kind = "gte" -> v # Null /\ v >= c.value

-----------------------------------------------------------------------------
(* The same of an aggregate: a filter function(column,value), and the count. *)

(* Mutant of BuildWhereClause: "not" falls through to "=". *)
BuildWhereClauseNoNot(f) ==
  IF f.op \in {"is", "not"} /\ f.value = Null
  THEN IF f.op = "is" THEN Equals(Null) ELSE Differs(Null)
  ELSE IF f.op \in {"in", "notin", "=", "not"} THEN Equals(f.value)
  ELSE IF f.op \in GoquOperators THEN Is(f.op, f.value) ELSE Error

BuildWhereClause(f) ==
  IF f.value = Null
  THEN CASE f.op = "is" -> Equals(Null) [] f.op = "not" -> Differs(Null) [] OTHER -> Error
  ELSE IF f.op \in {"in", "notin", "="} THEN Equals(f.value)
  ELSE IF f.op = "not" THEN Differs(f.value)
  ELSE IF f.op \in GoquOperators THEN Is(f.op, f.value) ELSE Error

(* A filter that does not have this form is only logged: the count is of all rows.
   grouped: by the key, and then only the keys that occur. *)
DataStats(rows, f, grouped) ==
  LET c == IF f.known THEN BuildWhereClause(f) ELSE Error
      S == IF f.known THEN {i \in DOMAIN rows : Satisfies(c, rows[i].value)} ELSE DOMAIN rows
      of(k) == [key |-> k, count |-> Cardinality({i \in S : rows[i].key = k})]
  IN  IF f.known /\ c = Error THEN Error
      ELSE IF grouped THEN {of(rows[i].key) : i \in S}
      ELSE {[key |-> Null, count |-> Cardinality(S)]}

-----------------------------------------------------------------------------
(* The three statements. A query has: session; usergroup, whether the table is that
   one; sort, whether the order names a column; first, the page it begins with, and
   size; cursor "none", "after" or "before", and if it exists; filters; rel, the
   relation it goes over and the objects it names, of which "unknown" is none;
   include, the relation whose rows are to be included; nested, in the transaction
   of the caller. *)

SqlReads(q, row) ==
  \/ InAdminGroup(q.session) \/ q.usergroup
  \/ <<"Guest", "Read">> \in row.permission.bits
  \/ <<"Group", "Read">> \in row.permission.bits
       /\ \E i \in DOMAIN q.session.groups : \E j \in DOMAIN row.permission.groups :
            q.session.groups[i].group = row.permission.groups[j].group
  \/ row.permission.owner = q.session.user /\ <<"User", "Read">> \in row.permission.bits

(* "has_many filtered": every object comes with a filter on the join table, and
   each has a join of its own. *)
Related(q, row) ==
  CASE q.rel = "none" -> TRUE
    [] q.rel = "has_many filtered" -> q.objects \subseteq row.near
    [] OTHER -> q.objects \cap row.near # {}

(* The rows of the join are not made distinct when the rows are read by their ids. *)
Times(q, row) ==
  IF q.rel \in {"none", "has_one", "belongs_to"} THEN 1 ELSE Cardinality(q.objects \cap row.near)

Conditions(q) == {addFilter(f) : f \in q.filters}

Selected(q, rows) ==
  {i \in DOMAIN rows : /\ SqlReads(q, rows[i]) /\ Related(q, rows[i])
                       /\ \A c \in Conditions(q) : Satisfies(c, rows[i].value)}

(* ORDER BY leaves the order of equal keys to the database, in each statement. *)
Ordered(q, rows, S) ==
  {s \in SetToSeqs(S) :
     q.sort => \A i, j \in DOMAIN s : i < j => rows[s[i][1]].key <= rows[s[j][1]].key}

(* Mutant of Offset: page[number] is taken as it comes. *)
OffsetUncounted(number, size) == number * size

(* page[number] is made one less as uint64 and multiplied: of 0 and of what is not a
   number it makes 2^64 - size, which reaches the database as -size. *)
Offset(number, size) == (number - 1) * size

PageOf(q, number, s) ==
  LET size == IF q.size = 0 THEN 1 ELSE q.size
      from == IF Offset(number, size) < 0 THEN 0 ELSE Offset(number, size)
      to == IF from + size > Len(s) THEN Len(s) ELSE from + size
  IN  CASE q.cursor = "none" -> SubSeq(s, from + 1, to)
        [] q.cursor # "none" /\ q.cursorExists -> s
        [] q.cursor = "after" /\ ~q.cursorExists -> SubSeq(s, 1, IF size > Len(s) THEN Len(s) ELSE size)
        [] q.cursor = "before" /\ ~q.cursorExists -> <<>>

LastPage(q, total) == 1 + total \div (IF q.size = 0 THEN 1 ELSE q.size)

Shown(q, objects) == IF InAdminGroup(q.session) THEN objects ELSE objects \ Hidden

(* Mutant of ResultToArrayOfMap: the list is not begun anew for each row. *)
ResultToArrayOfMapGrows(q, results) ==
  [i \in DOMAIN results |->
     IF q.include = "none" THEN {} ELSE UNION {results[j].near : j \in 1 .. i}]

(* One list of included rows for each row. *)
ResultToArrayOfMap(q, results) ==
  [i \in DOMAIN results |-> IF q.include = "none" THEN {} ELSE results[i].near]

(* A row that a row of this table is has_one or belongs_to of: its reference id is
   taken as a string, which it is not. *)
IncludePanics(q, results) ==
  q.include = "reverse one" /\ \E i \in DOMAIN results : results[i].near # {}

-----------------------------------------------------------------------------
VARIABLES
  content,   \* the table as it is committed
  writes,    \* transactions of others so far
  query,     \* what the client asks for, the same for every page
  walk,      \* its walk: number of the page, whether it ends at the last page as
             \*   told or at an empty one, the rows it got, whether a write
             \*   disturbed it, a total misled it or a swallowed error cut it
  phase,     \* "asking", "before", "ids", "rows", "count", "after", "answered",
             \*   "failed", "panicked", "done"
  ids, results, includes, total,   \* the variables of PaginatedFindAllWithoutFilters
  answer,    \* the page: rows and what is included with each
  counts     \* the entry of the count cache for the text of this query

listVars == <<content, writes, query, walk, phase, ids, results, includes, total, answer, counts>>

NoCount == [count |-> 0, left |-> 0]
LocalsReset == ids' = <<>> /\ results' = <<>> /\ includes' = <<>> /\ total' = 0

ListInit ==
  /\ content \in Contents /\ writes = 0
  /\ query \in Queries
  /\ walk \in [number : {query.first}, toLast : BOOLEAN, visited : {<<>>},
               disturbed : {FALSE}, misled : {FALSE}, cut : {FALSE}]
  /\ phase = "asking"
  /\ ids = <<>> /\ results = <<>> /\ includes = <<>> /\ total = 0 /\ answer = <<>>
  /\ counts \in {NoCount} \cup {[count |-> n, left |-> 1] : n \in OtherTotals}

Ask ==
  /\ phase = "asking"
  /\ phase' = "before" /\ answer' = <<>> /\ LocalsReset
  /\ UNCHANGED <<content, writes, query, walk, counts>>

(* A statement that fails, or an interceptor that refuses: rolled back and answered
   with the error. In the transaction of the caller the error of the statements is
   overwritten and the answer is an empty page. *)
ListFail ==
  /\ phase \in {"before", "ids", "rows", "count", "after"}
  /\ LET swallowed == query.nested /\ phase \in {"ids", "rows", "count"}
     IN  /\ phase' = IF swallowed THEN "after" ELSE "failed"
         /\ walk' = [walk EXCEPT !.cut = @ \/ swallowed]
  /\ LocalsReset
  /\ UNCHANGED <<content, writes, query, answer, counts>>

ListPanic ==
  /\ \/ phase = "ids" /\ Panic \in Conditions(query)
     \/ phase = "rows" /\ IncludePanics(query, [i \in DOMAIN ids |-> [near |->
                         IF ids[i] \in DOMAIN content THEN content[ids[i]].near ELSE {}]])
  /\ phase' = "panicked"
  /\ UNCHANGED <<content, writes, query, walk, ids, results, includes, total, answer, counts>>

BeforeList ==
  /\ phase = "before"
  /\ phase' = "ids"
  /\ UNCHANGED <<content, writes, query, walk, ids, results, includes, total, answer, counts>>

(* A negative offset is an error of some databases (ListFail), no offset for SQLite. *)
ReadIds ==
  /\ phase = "ids"
  /\ Conditions(query) \cap {Error, Panic} = {}
  /\ query.rel # "none" => query.objects # {"unknown"}
  /\ LET S == Selected(query, content)
     IN  \E s \in Ordered(query, content, {<<i, 1>> : i \in S}) :
           ids' = [i \in DOMAIN PageOf(query, walk.number, s) |->
                     PageOf(query, walk.number, s)[i][1]]
  /\ phase' = "rows"
  /\ UNCHANGED <<content, writes, query, walk, results, includes, total, answer, counts>>

(* The rows that are still there, each as often as the join has it, and what is to
   be included with each. *)
ReadRows ==
  /\ phase = "rows"
  /\ LET S == {c \in (ToSet(ids) \cap DOMAIN content) \X (1 .. Cardinality(query.objects) + 1) :
                 c[2] <= Times(query, content[c[1]])}
     IN  \E s \in Ordered(query, content, S) :
           results' = [i \in DOMAIN s |-> [id |-> s[i][1], near |-> content[s[i][1]].near]]
  /\ ~IncludePanics(query, results')
  /\ includes' = ResultToArrayOfMap(query, results')
  /\ phase' = "count"
  /\ UNCHANGED <<content, writes, query, walk, ids, total, answer, counts>>

(* The key of the cache is the text of the statement, without its arguments. *)
GetTotalCount ==
  /\ phase = "count"
  /\ total' = IF counts.left > 0 THEN counts.count ELSE Cardinality(Selected(query, content))
  /\ counts' = IF counts.left > 0 THEN counts ELSE [count |-> total', left |-> 1]
  /\ walk' = [walk EXCEPT !.misled = @ \/ total' # Cardinality(Selected(query, content))]
  /\ phase' = "after"
  /\ UNCHANGED <<content, writes, query, ids, results, includes, answer>>

Keeps(q, row) == InAdminGroup(q.session) \/ CanRead(row.permission, q.session)

(* The places of the rows that are kept, and the n-th of them. *)
KeptPlaces(q, rows, table) ==
  {i \in DOMAIN rows : rows[i].id \in DOMAIN table /\ Keeps(q, table[rows[i].id])}
Nth(S, n) == CHOOSE x \in S : Cardinality({y \in S : y <= x}) = n
Kept(q, rows, table) ==
  LET S == KeptPlaces(q, rows, table) IN [i \in 1 .. Cardinality(S) |-> rows[Nth(S, i)]]

(* The After interceptors drop rows, and included rows of each list; then the rows
   that are left take the lists in turn. *)
AnswerList ==
  /\ phase = "after"
  /\ LET kept == Kept(query, results, content)
     IN  answer' = [i \in DOMAIN kept |-> [id |-> kept[i].id, near |-> kept[i].near,
                                           includes |-> Shown(query, includes[i]),
                                           moved |-> SubSeq(results, 1, i) # SubSeq(kept, 1, i)]]
  /\ walk' = [walk EXCEPT !.visited = @ \o [i \in DOMAIN answer' |-> answer'[i].id]]
  /\ phase' = "answered"
  /\ UNCHANGED <<content, writes, query, ids, results, includes, total, counts>>

-----------------------------------------------------------------------------
(* The client, the others and the clock. *)

NextPage ==
  /\ phase = "answered"
  /\ LET over == \/ walk.number = 0 \/ query.cursor # "none"
                 \/ IF walk.toLast THEN walk.number >= LastPage(query, total) ELSE answer = <<>>
     IN  /\ phase' = IF over THEN "done" ELSE "asking"
         /\ walk' = IF over THEN walk ELSE [walk EXCEPT !.number = @ + 1]
  /\ UNCHANGED <<content, writes, query, ids, results, includes, total, answer, counts>>

(* A commit of others before the first statement or between two. *)
WriteTable(c) ==
  /\ phase \in {"ids", "rows", "count", "after"} /\ writes < MaxWrites
  /\ c # content
  /\ content' = c /\ writes' = writes + 1
  /\ walk' = [walk EXCEPT !.disturbed = TRUE]
  /\ UNCHANGED <<query, phase, ids, results, includes, total, answer, counts>>

(* Some time before the total is looked for. *)
CountExpires ==
  /\ phase = "count" /\ counts.left > 0
  /\ counts' = NoCount
  /\ UNCHANGED <<content, writes, query, walk, phase, ids, results, includes, total, answer>>

ListNext ==
  \/ Ask \/ BeforeList \/ ReadIds \/ ReadRows \/ GetTotalCount \/ AnswerList \/ NextPage
  \/ ListFail \/ ListPanic \/ CountExpires
  \/ \E c \in Contents : WriteTable(c)

ListSpec == ListInit /\ [][ListNext]_listVars
-----------------------------------------------------------------------------
Phases == {"asking", "before", "ids", "rows", "count", "after", "answered", "failed", "panicked",
           "done"}
Nears == UNION {{c[i].near : i \in DOMAIN c} : c \in Contents}

ListTypeOK ==
  /\ content \in Contents /\ query \in Queries /\ writes \in 0 .. MaxWrites
  /\ walk \in [number : Nat, toLast : BOOLEAN, visited : Seq(Nat), disturbed : BOOLEAN,
               misled : BOOLEAN, cut : BOOLEAN]
  /\ phase \in Phases
  /\ ids \in Seq(Nat) /\ results \in Seq([id : Nat, near : Nears])
  /\ includes \in Seq(SUBSET UNION Nears) /\ Len(includes) = Len(results)
  /\ total \in Nat /\ counts \in [count : Nat, left : 0 .. 1]
  /\ answer \in Seq([id : Nat, near : Nears, includes : SUBSET UNION Nears, moved : BOOLEAN])

(* What crud.md says that a filter selects. The last two operators, "none of" and the
   spellings "less then" and "more then" make every query fail. *)
DocumentedOperators == {"is", "before", "after", "is empty", "any of", "is not empty"}
Documented(f, v) ==
  CASE f.op \in {"is", "any of"} -> v = f.value
    [] f.op = "before" -> v # Null /\ v < f.value
    [] f.op = "after" -> v # Null /\ v > f.value
    [] f.op = "is empty" -> v = Null
    [] f.op = "is not empty" -> v # Null

Wanted == {i \in DOMAIN content : /\ Keeps(query, content[i]) /\ SqlReads(query, content[i])
                                  /\ Related(query, content[i])
                                  /\ \A f \in query.filters : Documented(f, content[i].value)}

KeysDiffer == query.sort /\ \A i, j \in DOMAIN content : content[i].key = content[j].key => i = j

(* A client that walks from the first page over a table that nobody writes, in an order that says which
   of two rows comes first, gets the rows it may read and asked for, in this order,
   each as often as the join has it. Going by the last page it gets all of them,
   unless a total of another request was answered; going by an empty page it stops
   early only where permissions emptied a page. *)
WalkSeesAll ==
  LET seen == walk.visited
      over == /\ phase = "done" /\ query.first = 1 /\ query.cursor = "none"
              /\ \A f \in query.filters : f.op \in DocumentedOperators
              /\ ~walk.disturbed /\ ~walk.cut /\ KeysDiffer
      dropped == \E i \in Selected(query, content) : ~Keeps(query, content[i])
  IN  over =>
        /\ ToSet(seen) \subseteq Wanted
        /\ \A i, j \in DOMAIN seen : i < j => content[seen[i]].key <= content[seen[j]].key
        /\ \A n \in ToSet(seen) :
             Cardinality({i \in DOMAIN seen : seen[i] = n}) = Times(query, content[n])
        /\ (IF walk.toLast THEN ~walk.misled ELSE ~dropped) => ToSet(seen) = Wanted

(* What is included with a row is near it, but for the rows behind one that the
   permissions took out of the page. *)
IncludesBelong ==
  \A i \in DOMAIN answer : answer[i].moved \/ answer[i].includes \subseteq answer[i].near

(* For the filters that both know in the same meaning, an aggregate counts what an
   administrator's list finds, and each row of it in one of the groups. *)
AggregateAgrees ==
  \A f \in query.filters :
    f.op \notin {"in", "notin", "is"} /\ addFilter(f) # Error /\ BuildWhereClause(f) # Error =>
      LET found == {i \in DOMAIN content : Satisfies(addFilter(f), content[i].value)}
          groups == DataStats(content, f, TRUE)
      IN  /\ DataStats(content, f, FALSE) = {[key |-> Null, count |-> Cardinality(found)]}
          /\ \E group \in [found -> groups] :
               \A g \in groups : Cardinality({i \in found : group[i] = g}) = g.count
=============================================================================
