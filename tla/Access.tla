-------------------------------- MODULE Access --------------------------------
(* Who may do what: the permission of a table and of a row, and the two
   interceptors of every operation, TableAccessPermissionChecker and
   ObjectAccessPermissionChecker, around the handler. A request asks for one
   operation; the rows that concern it are filtered one by one, with the two maps
   in which the loops remember the reference ids they have decided about.

   A permission is a set of bits <<class, right>>. On its way through the cache a
   permission, or a session, is a sequence of words of 8 bytes. *)
EXTENDS Integers, Sequences, FiniteSets

CONSTANTS Ids,            \* reference ids: of users, groups, rows and relations
          References,     \* the ones of rows
          Guest,          \* NullReferenceId, the user of a request without a session
          AdminGroup,     \* AdministratorGroupId
          Operations,     \* the operations asked for: [method, relationship]
          Sessions,       \* sessions: [user, groups]
          TablePermissions,  \* permissions of the table
          RowPermissions,    \* functions from References to permissions
          RowLists        \* lists of rows: [type, ref], type "row", "file", "join" or "nil"

Rights == {"Peek", "Read", "Create", "Update", "Delete", "Execute", "Refer"}
Bits == {"Guest", "User", "Group"} \X Rights
Permission(owner, bits, groups) == [owner |-> owner, bits |-> bits, groups |-> groups]

Methods == {"GET", "POST", "PUT", "PATCH", "DELETE"}
GroupPermissions == [group : Ids, object : Ids, relation : Ids, bits : SUBSET Bits]
PermissionInstances == [owner : Ids, bits : SUBSET Bits, groups : Seq(GroupPermissions)]
SessionUsers == [id : Nat, user : Ids, groups : Seq(GroupPermissions)]
Rows == [type : {"row", "file", "join", "nil"}, ref : References]

ASSUME AccessAssumption ==
  /\ References \subseteq Ids
  /\ Operations \subseteq [method : Methods, relationship : BOOLEAN]
  /\ Sessions \subseteq SessionUsers
  /\ TablePermissions \subseteq PermissionInstances
  /\ RowPermissions \subseteq [References -> PermissionInstances]
  /\ RowLists \subseteq Seq(Rows)

(* The one shape of CanExecute, CanCreate, ...: the owner, everybody, or a group of
   the session, which is the administrators' or is on the object with that bit. *)
Can(right, p, s) ==
  \/ p.owner = s.user /\ <<"User", right>> \in p.bits
  \/ <<"Guest", right>> \in p.bits
  \/ \E i \in DOMAIN s.groups :
       \/ s.groups[i].group = AdminGroup
       \/ \E j \in DOMAIN p.groups : /\ p.groups[j].group = s.groups[i].group
                                     /\ <<"Group", right>> \in p.groups[j].bits

CanExecute(p, s) == Can("Execute", p, s)
CanCreate(p, s) == Can("Create", p, s)
CanUpdate(p, s) == Can("Update", p, s)
CanDelete(p, s) == Can("Delete", p, s)
CanRefer(p, s) == Can("Refer", p, s)
CanRead(p, s) == Can("Read", p, s)
CanPeek(p, s) == Can("Peek", p, s)

IsUserActionAllowed(table, action, s) == CanExecute(table, s) /\ CanExecute(action, s)

(* IsAdminWithTransaction, without its caches (module ReadCaches). *)
InAdminGroup(s) == \E i \in DOMAIN s.groups : s.groups[i].group = AdminGroup

-----------------------------------------------------------------------------
(* The words of a cached permission: 2 for an id, 1 for bits, 7 for a group. *)

IdWords(id) == <<<<id, 1>>, <<id, 2>>>>
GroupWords(g) == IdWords(g.group) \o IdWords(g.object) \o IdWords(g.relation) \o <<g.bits>>
WordsPerGroup == 7

GroupOf(w) == [group |-> w[1][1], object |-> w[3][1], relation |-> w[5][1], bits |-> w[7]]

(* One block for each group, one after the other. *)
GroupListWords(groups) ==
  [k \in 1 .. WordsPerGroup * Len(groups) |->
     GroupWords(groups[(k - 1) \div WordsPerGroup + 1])[((k - 1) % WordsPerGroup) + 1]]

Marshal(p) == IdWords(p.owner) \o <<p.bits>> \o GroupListWords(p.groups)

(* Mutant of Unmarshal: the last group is lost. *)
UnmarshalShort(w) ==
  LET rest == SubSeq(w, 4, Len(w))
  IN  Permission(w[1][1], w[3],
        [i \in 1 .. (Len(rest) - 1) \div WordsPerGroup |->
           GroupOf(SubSeq(rest, (i - 1) * WordsPerGroup + 1, i * WordsPerGroup))])

Unmarshal(w) ==
  LET rest == SubSeq(w, 4, Len(w))
  IN  Permission(w[1][1], w[3],
        [i \in 1 .. Len(rest) \div WordsPerGroup |->
           GroupOf(SubSeq(rest, (i - 1) * WordsPerGroup + 1, i * WordsPerGroup))])

MarshalSession(s) == <<s.id>> \o IdWords(s.user) \o GroupListWords(s.groups)

UnmarshalSession(w) ==
  [id |-> w[1], user |-> w[2][1],
   groups |-> LET blocks == (Len(w) - 3) \div WordsPerGroup
              IN  [i \in 1 .. blocks |->
                     GroupOf(SubSeq(w, 4 + (i - 1) * WordsPerGroup, 3 + i * WordsPerGroup))]]

Cached(p) == Unmarshal(Marshal(p))

-----------------------------------------------------------------------------
(* What each interceptor asks for. *)

Writing == {"POST", "PUT", "PATCH", "DELETE"}

RightOf(method) == CASE method = "POST" -> "Create" [] method = "DELETE" -> "Delete"
                     [] OTHER -> "Update"

TableAllows(op, p, s) ==
  \/ op.method = "GET" /\ CanPeek(p, s)
  \/ /\ op.method \in Writing
     /\ IF op.relationship THEN CanRefer(p, s) /\ CanPeek(p, s)
                           ELSE Can(RightOf(op.method), p, s)

(* Before the handler, for the rows it is asked to work on. POST is not looked at. *)
ObjectAllowsBefore(op, p, s) ==
  \/ op.method = "GET" /\ CanPeek(p, s)
  \/ /\ op.method \in {"PUT", "PATCH", "DELETE"}
     /\ IF op.relationship THEN CanPeek(p, s) ELSE Can(RightOf(op.method), p, s)

(* After it, for the rows it answers with. *)
ObjectAllowsAfter(op, p, s) == IF op.method = "GET" THEN CanRead(p, s) ELSE CanPeek(p, s)

-----------------------------------------------------------------------------
VARIABLES
  asked,     \* the request: op, session, table, permissions of the rows, before and
             \*   after: the rows before and after the handler. Constant in a behaviour.
  stage,     \* "table", "object", "handler", "tableAfter", "objectAfter", "answered",
             \*   "forbidden"
  next,      \* index of the loop over the rows
  included, notIncluded,   \* the maps of the loop
  returnMap  \* the rows it keeps

accessVars == <<asked, stage, next, included, notIncluded, returnMap>>

NoLoop == next = 1 /\ included = {} /\ notIncluded = {} /\ returnMap = <<>>

LoopStarts == /\ next' = 1 /\ included' = {} /\ notIncluded' = {} /\ returnMap' = <<>>

Asked == [op : Operations, session : Sessions, table : TablePermissions,
          rows : RowPermissions, before : {l \in RowLists : Len(l) <= 1},
          after : RowLists]

AccessInit ==
  /\ asked \in Asked
  /\ stage = "table"
  /\ NoLoop

Session == UnmarshalSession(MarshalSession(asked.session))

Table ==
  /\ stage = "table"
  /\ stage' = IF InAdminGroup(Session) \/ TableAllows(asked.op, Cached(asked.table), Session)
              THEN "object" ELSE "forbidden"
  /\ LoopStarts
  /\ UNCHANGED asked

(* Mutant of Turn: a row that was refused is looked up in the wrong map. *)
TurnRemembersWrong(row, passes, allowed) ==
  /\ next' = next + 1
  /\ IF row.type = "nil" THEN UNCHANGED <<included, notIncluded, returnMap>>
     ELSE IF row.type = passes \/ row.ref \in notIncluded \/ allowed
     THEN /\ returnMap' = Append(returnMap, row)
          /\ included' = IF row.type = passes THEN included ELSE included \cup {row.ref}
          /\ UNCHANGED notIncluded
     ELSE /\ notIncluded' = notIncluded \cup {row.ref}
          /\ UNCHANGED <<included, returnMap>>

(* One turn of either loop for row: keep it, drop it, or do as was done for its
   reference id; passes says which types of rows are not asked about. *)
Turn(row, passes, allowed) ==
  /\ next' = next + 1
  /\ IF row.type = "nil" THEN UNCHANGED <<included, notIncluded, returnMap>>
     ELSE IF row.type = passes \/ row.ref \in included \/ (row.ref \notin notIncluded /\ allowed)
     THEN /\ returnMap' = Append(returnMap, row)
          /\ included' = IF row.type = passes THEN included ELSE included \cup {row.ref}
          /\ UNCHANGED notIncluded
     ELSE /\ notIncluded' = notIncluded \cup {row.ref}
          /\ UNCHANGED <<included, returnMap>>

PermissionOf(row) == Cached(asked.rows[row.ref])

ObjectSkipped == InAdminGroup(Session) \/ asked.op.method = "POST"

ObjectRow ==
  /\ stage = "object" /\ ~ObjectSkipped /\ next <= Len(asked.before)
  /\ LET row == asked.before[next]
     IN  Turn(row, "join", ObjectAllowsBefore(asked.op, PermissionOf(row), Session))
  /\ UNCHANGED <<asked, stage>>

ObjectEnds ==
  /\ stage = "object" /\ (ObjectSkipped \/ next > Len(asked.before))
  /\ stage' = IF ~ObjectSkipped /\ asked.before # <<>> /\ returnMap = <<>>
              THEN "forbidden" ELSE "handler"
  /\ LoopStarts
  /\ UNCHANGED asked

(* The handler; its own refusals and failures are in RowTransactions. *)
Handle ==
  /\ stage = "handler"
  /\ stage' = "tableAfter"
  /\ UNCHANGED <<asked, next, included, notIncluded, returnMap>>

TableAfter ==
  /\ stage = "tableAfter"
  /\ stage' = IF asked.after = <<>> \/ InAdminGroup(Session)
                   \/ CanPeek(Cached(asked.table), Session)
              THEN "objectAfter" ELSE "forbidden"
  /\ UNCHANGED <<asked, next, included, notIncluded, returnMap>>

AfterSkipped == InAdminGroup(Session) \/ asked.op.method = "DELETE"

ObjectAfterRow ==
  /\ stage = "objectAfter" /\ ~AfterSkipped /\ next <= Len(asked.after)
  /\ LET row == asked.after[next]
     IN  Turn(row, "file", ObjectAllowsAfter(asked.op, PermissionOf(row), Session))
  /\ UNCHANGED <<asked, stage>>

ObjectAfterEnds ==
  /\ stage = "objectAfter" /\ (AfterSkipped \/ next > Len(asked.after))
  /\ stage' = "answered"
  /\ returnMap' = IF AfterSkipped THEN asked.after ELSE returnMap
  /\ UNCHANGED <<asked, next, included, notIncluded>>

AccessNext == Table \/ ObjectRow \/ ObjectEnds \/ Handle \/ TableAfter \/ ObjectAfterRow
                \/ ObjectAfterEnds

AccessSpec == AccessInit /\ [][AccessNext]_accessVars
-----------------------------------------------------------------------------
(* What the answer has to be, without loops, maps and caches: of the rows the
   handler found, in their order, those that are file contents or that the session
   may read (after a write: may peek at), each as often as it was found. *)
Answerable(request, row) ==
  /\ row.type # "nil"
  /\ \/ row.type = "file"
     \/ Can(IF request.op.method = "GET" THEN "Read" ELSE "Peek",
            request.rows[row.ref], request.session)

(* rows are the answerable ones of the first n that the handler found: at says where
   each of them was. *)
FilteredTo(rows, request, n) ==
  \E at \in [DOMAIN rows -> 1 .. n] :
    /\ \A i, j \in DOMAIN rows : i < j => at[i] < at[j]
    /\ \A k \in 1 .. n : Answerable(request, request.after[k]) <=> \E i \in DOMAIN rows : at[i] = k
    /\ \A i \in DOMAIN rows : rows[i] = request.after[at[i]]

AnswerIsFiltered ==
  stage = "answered" =>
    IF InAdminGroup(asked.session) \/ asked.op.method = "DELETE"
    THEN returnMap = asked.after
    ELSE FilteredTo(returnMap, asked, Len(asked.after))
=============================================================================
