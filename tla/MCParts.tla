------------------------------- MODULE MCParts -------------------------------
(* Components that share no variable with each other: what a request reads before it
   is served (ReadCaches), who may do what (Access), the performers of the actions
   (Performers), the data that the built-in actions hand to them (BuiltInActions),
   the lists (Listing) and the export and import of tables (Transfer). A behaviour
   follows one of them: the others stay in one of their initial states. *)
EXTENDS ReadCaches, Listing, Performers, BuiltInActions, Transfer

CONSTANTS alice, guest, admins, team, d1, d2

VARIABLE part   \* the component that is followed

MCTicks(s) == IF s = 0 THEN 0 ELSE IF s <= 600 THEN 1 ELSE 2
\* With and without an inner key, with and without entries for missing rows.
MCLookups == {SessionOfUser, RowPermission, TablePermission}

MCOperations == {[method |-> m, relationship |-> FALSE] : m \in {"GET", "POST", "PATCH", "DELETE"}}
                  \cup {[method |-> "PATCH", relationship |-> TRUE]}
Member(g, bits) == [group |-> g, object |-> d1, relation |-> d2, bits |-> bits]
MCSessions == {[id |-> 0, user |-> guest, groups |-> <<>>],
               [id |-> 1, user |-> alice, groups |-> <<Member(team, {})>>],
               [id |-> 1, user |-> alice, groups |-> <<Member(team, {}), Member(admins, {})>>]}
UserBits == {"User"} \X Rights
TeamReads == <<Member(admins, {}), Member(team, {<<"Group", "Read">>, <<"Group", "Peek">>})>>
MCTables == {Permission(alice, UserBits, <<>>),
             Permission(guest, {<<"Guest", "Peek">>}, TeamReads)}
MCRows == [{d1, d2} -> {Permission(alice, UserBits, <<>>), Permission(guest, {}, TeamReads),
                        Permission(alice, {<<"Guest", "Peek">>}, <<>>)}]
MCRowLists == {<<>>} \cup {<<[type |-> "row", ref |-> d1]>>} \cup
  {<<a, [type |-> t, ref |-> d2], b>> : a, b \in [type : {"row"}, ref : {d1, d2}],
                                        t \in {"row", "file", "nil", "join"}}

Row(key, value, permission, near) ==
  [key |-> key, value |-> value, permission |-> permission, near |-> near]
OpenRow == Permission(guest, {<<"Guest", "Read">>}, <<>>)
OwnRow == Permission(alice, {<<"User", "Read">>}, <<>>)
TeamRow == Permission(guest, {<<"Group", "Read">>}, <<Member(team, {<<"Group", "Read">>})>>)
\* The row says that groups may read it, its relation to the group does not.
SplitRow == Permission(guest, {<<"Group", "Read">>}, <<Member(team, {})>>)
MCContents ==
  {<<Row(1, 0, OpenRow, {d1}), Row(2, 1, OwnRow, {}), Row(3, Null, TeamRow, {d1, d2})>>,
   <<Row(2, 1, SplitRow, {d1}), Row(1, 0, OpenRow, {d2}), Row(2, 1, OwnRow, {d2})>>,
   <<Row(1, 1, SplitRow, {d1}), Row(2, 0, OpenRow, {d2}), Row(3, 1, OpenRow, {d1, d2})>>,
   (2 :> Row(1, 0, OpenRow, {d1}))}

GuestSession == [id |-> 0, user |-> guest, groups |-> <<>>]
TeamSession == [id |-> 1, user |-> alice, groups |-> <<Member(team, {})>>]
AdminSession == [id |-> 1, user |-> alice, groups |-> <<Member(admins, {})>>]
Plain == [session |-> TeamSession, usergroup |-> FALSE, sort |-> TRUE, first |-> 1, size |-> 2,
          cursor |-> "none", cursorExists |-> TRUE, filters |-> {}, rel |-> "none",
          objects |-> {}, include |-> "none", nested |-> FALSE]
Filter(op, value) == [op |-> op, value |-> value, known |-> TRUE]
MCFilters == {Filter("is", 1), Filter("before", 1), Filter("is empty", Null), Filter("is not empty", Null),
              Filter("any of", 1), Filter("not in", 1), Filter("not", 1), Filter("not", Null), Filter("lt", 1),
              [Filter("is", 1) EXCEPT !.known = FALSE]}
Over2(q, rel) == {[q EXCEPT !.rel = rel, !.objects = o] : o \in {{d1, d2}, {d1, "unknown"}}}
MCQueries ==
  {[Plain EXCEPT !.session = s, !.size = n] : s \in {GuestSession, TeamSession, AdminSession}, n \in {0, 1, 2}}
  \cup {[Plain EXCEPT !.filters = {f}] : f \in MCFilters}
  \cup {[Plain EXCEPT !.filters = {Filter("is", 1), Filter("after", 0)}, !.size = 1],
        [Plain EXCEPT !.filters = {Filter("not empty", Null)}]}
  \cup UNION {Over2(Plain, rel) : rel \in {"has_one", "has_many", "has_many filtered", "reverse"}}
  \cup {[Plain EXCEPT !.rel = "has_one", !.objects = {"unknown"}]}
  \cup {[Plain EXCEPT !.include = i] : i \in {"own", "reverse one"}}
  \cup {[Plain EXCEPT !.cursor = c, !.cursorExists = e] : c \in {"after", "before"}, e \in BOOLEAN}
  \cup {[Plain EXCEPT !.first = 0], [Plain EXCEPT !.sort = FALSE], [Plain EXCEPT !.usergroup = TRUE],
        [Plain EXCEPT !.nested = TRUE]}

StockRow(id, value) ==
  [c \in ToSet(AllColumns) |-> CASE c = "id" -> id [] c = "reference_id" -> id + 10
                                 [] c = "value" -> value [] c = "permission" -> 7]
MCStocks ==
  {[t \in {"a", "b"} |-> IF t = "a" THEN s ELSE <<StockRow(1, 5)>>] :
     s \in {<<>>, <<StockRow(2, 1), StockRow(1, NoValue), StockRow(4, 3)>>,
            <<StockRow(1, NotANumber), StockRow(2, 1)>>,
            <<StockRow(1, 1), StockRow(2, TitleLike), StockRow(3, 1), StockRow(4, 2)>>}}
PlainErrand == [format |-> "json", tables |-> <<"a">>, columns |-> <<>>, includeHeaders |-> TRUE, pageSize |-> 2,
             subject |-> "a", named |-> TRUE, truncate |-> TRUE, batchSize |-> 2, postgres |-> FALSE]
Partial == <<"reference_id", "value">>
ErrandsOf(f) ==
  LET p == [PlainErrand EXCEPT !.format = f]
  IN  {p, [p EXCEPT !.pageSize = 1], [p EXCEPT !.pageSize = 1000, !.batchSize = 100],
       [p EXCEPT !.tables = <<"a", "b">>], [p EXCEPT !.tables = <<"b">>, !.subject = "b"],
       [p EXCEPT !.tables = <<"ghost">>], [p EXCEPT !.columns = <<"value">>, !.postgres = TRUE],
       [p EXCEPT !.columns = <<"value", "id", "reference_id">>],
       [p EXCEPT !.columns = <<"value">>, !.tables = <<"b", "a">>], [p EXCEPT !.includeHeaders = FALSE],
       [p EXCEPT !.columns = Partial], [p EXCEPT !.columns = Partial, !.postgres = TRUE]}
      \cup (IF f \in {"json", "csv", "xlsx"}
            THEN {[p EXCEPT !.named = FALSE], [p EXCEPT !.truncate = FALSE],
                  [p EXCEPT !.postgres = TRUE, !.batchSize = 1],
                  [p EXCEPT !.truncate = FALSE, !.postgres = TRUE],
                  [p EXCEPT !.subject = "b", !.truncate = FALSE]} ELSE {})
MCErrands == UNION {ErrandsOf(f) : f \in {"json", "csv", "xlsx", "html", "pdf"}}

partVars == <<part, cacheVars, accessVars, listVars, performerVars, dataVars, transferVars>>

(* The initial states of a part that is not followed. *)
CachesRest == lookup = RowPermission /\ current = 0 /\ CacheInit
AccessRest == asked = (CHOOSE a \in Asked : TRUE) /\ AccessInit
ListRest ==
  /\ query = Plain /\ content = (CHOOSE c \in Contents : TRUE) /\ counts = NoCount
  /\ ListInit /\ ~walk.toLast
PerformersRest == performer = "__restart" /\ aborts = FALSE /\ spare = 0 /\ PerformerInit
BuiltInsRest == builtIn = signin /\ env = signin.in /\ DataInit
TransferRest == errand = PlainErrand /\ stock = (CHOOSE s \in Stocks : TRUE) /\ TransferInit

Init ==
  \/ /\ part = "caches"
     /\ AccessRest /\ ListRest /\ PerformersRest /\ BuiltInsRest /\ TransferRest
     /\ CacheInit /\ (lookup = RowPermission \/ current = 1)
  \/ /\ part = "access"
     /\ CachesRest /\ ListRest /\ PerformersRest /\ BuiltInsRest /\ TransferRest /\ AccessInit
  \/ /\ part = "list"
     /\ CachesRest /\ AccessRest /\ PerformersRest /\ BuiltInsRest /\ TransferRest /\ ListInit
  \/ /\ part = "performers"
     /\ CachesRest /\ AccessRest /\ ListRest /\ BuiltInsRest /\ TransferRest /\ PerformerInit
  \/ /\ part = "built-ins"
     /\ CachesRest /\ AccessRest /\ ListRest /\ PerformersRest /\ TransferRest /\ DataInit
  \/ /\ part = "transfer"
     /\ CachesRest /\ AccessRest /\ ListRest /\ PerformersRest /\ BuiltInsRest /\ TransferInit

Next ==
  \/ /\ part = "caches" /\ CacheNext
     /\ UNCHANGED <<part, accessVars, listVars, performerVars, dataVars, transferVars>>
  \/ /\ part = "access" /\ AccessNext
     /\ UNCHANGED <<part, cacheVars, listVars, performerVars, dataVars, transferVars>>
  \/ /\ part = "list" /\ ListNext
     /\ UNCHANGED <<part, cacheVars, accessVars, performerVars, dataVars, transferVars>>
  \/ /\ part = "performers" /\ PerformerNext
     /\ UNCHANGED <<part, cacheVars, accessVars, listVars, dataVars, transferVars>>
  \/ /\ part = "built-ins" /\ DataNext
     /\ UNCHANGED <<part, cacheVars, accessVars, listVars, performerVars, transferVars>>
  \/ /\ part = "transfer" /\ TransferNext
     /\ UNCHANGED <<part, cacheVars, accessVars, listVars, performerVars, dataVars>>

Spec == /\ Init /\ [][Next]_partVars
        /\ part = "caches" => CacheFairness
        /\ part = "performers" => PerformerFairness

PartsTypeOK == CacheTypeOK /\ ListTypeOK /\ PerformerTypeOK /\ DataTypeOK /\ TransferTypeOK

(* AnswersEventually of the part that is followed: the performer at rest never runs. *)
PerformersAnswer == part = "performers" => AnswersEventually
=============================================================================
