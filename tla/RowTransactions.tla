-------------------------- MODULE RowTransactions --------------------------
(* Concurrent POST, PATCH and DELETE requests of the JSON:API on the rows of
   one table: the handlers Create, Update and Delete of DbResource, the FindOne
   that the API library calls before Update, the interceptors around them, the
   audit rows they add, the row of another object they rewrite (a relation) and
   the goroutines that publish an event.

   Each handler runs in a database transaction at the driver's default
   isolation. The database is external and is modelled as READ COMMITTED with
   row locks: a statement sees committed rows and its own; an UPDATE or DELETE
   whose WHERE clause matches waits for the transaction that holds the row; a
   cycle of waiting transactions loses one of them. *)
EXTENDS Integers, FiniteSets

CONSTANTS Rows,            \* reference ids
          NoRow,           \* a request that names no related object
          Requests,        \* HTTP requests, each served once
          Nobody,          \* no request
          Plans,           \* what the requests of an instance may ask for
          IsAuditEnabled   \* TableInfo.IsAuditEnabled

Plan == [op : {"patch", "post", "delete"},
         row : Rows,
         related : Rows \cup {NoRow},   \* a patch that also rewrites this row
         changes : BOOLEAN]             \* len(data.GetChanges()) > 0

ASSUME ConstantsAssumption ==
  /\ NoRow \notin Rows
  /\ Nobody \notin Requests
  /\ IsAuditEnabled \in BOOLEAN
  /\ Plans \subseteq Plan
  /\ \A p \in Plans : p.related # p.row

VARIABLES
  plan,       \* plan[q]: what request q asks for
  pc,         \* pc[q]: where the handler of q is
  at,         \* at[q]: the row q's handler is working on, its own or the related
  base,       \* base[q][r]: the version in q's copy of row r, 0 when it has none
  table,      \* table[r]: committed row
  lock,       \* lock[r]: the transaction that holds r's write lock
  work,       \* work[r]: the uncommitted row, while r is locked
  audit,      \* committed audit records
  trail,      \* trail[q]: uncommitted audit records
  spawned,    \* goroutines about to publish an event: <<request, row>>
  published,  \* events the topic has delivered
  reply       \* reply[q]: "none", "ok" (2xx) or "error"

vars == <<plan, pc, at, base, table, lock, work, audit, trail,
          spawned, published, reply>>

dbVars == <<table, lock, work, audit, trail>>

RowState == [version : Nat, by : Requests \cup {Nobody}]

AuditRecord == [row : Rows, version : Nat, by : Requests]

Exists(r) == table[r].version > 0

TypeOK ==
  /\ plan \in [Requests -> Plans]
  /\ pc \in [Requests -> {"find", "before", "read", "write", "audit",
                          "after", "commit", "done"}]
  /\ at \in [Requests -> Rows]
  /\ base \in [Requests -> [Rows -> Nat]]
  /\ table \in [Rows -> RowState]
  /\ lock \in [Rows -> Requests \cup {Nobody}]
  /\ work \in [Rows -> RowState]
  /\ audit \subseteq AuditRecord
  /\ trail \in [Requests -> SUBSET AuditRecord]
  /\ spawned \subseteq Requests \X Rows
  /\ published \subseteq Requests \X Rows
  /\ reply \in [Requests -> {"none", "ok", "error"}]

(* A POST makes its row under a fresh UUID: no other POST has it, and it does
   not exist yet; every other row is stored, at version 1. *)
Init ==
  /\ plan \in [Requests -> Plans]
  /\ \A p, q \in Requests :
       p # q /\ plan[p].op = "post" /\ plan[q].op = "post"
         => plan[p].row # plan[q].row
  /\ pc = [q \in Requests |-> IF plan[q].op = "patch" THEN "find" ELSE "before"]
  /\ at = [q \in Requests |-> plan[q].row]
  /\ base = [q \in Requests |-> [r \in Rows |-> 0]]
  /\ table = [r \in Rows |->
       [version |-> IF \E q \in Requests : plan[q].op = "post" /\ plan[q].row = r
                    THEN 0 ELSE 1,
        by |-> Nobody]]
  /\ lock = [r \in Rows |-> Nobody]
  /\ work = table
  /\ audit = {}
  /\ trail = [q \in Requests |-> {}]
  /\ spawned = {}
  /\ published = {}
  /\ reply = [q \in Requests |-> "none"]

Goto(q, label) == pc' = [pc EXCEPT ![q] = label]

(* Mutant of Rollback: the error path commits what is there (a deferred Commit). *)
RollbackCommits(q) ==
  /\ table' = [r \in Rows |-> IF lock[r] = q THEN work[r] ELSE table[r]]
  /\ lock' = [r \in Rows |-> IF lock[r] = q THEN Nobody ELSE lock[r]]
  /\ audit' = audit \cup trail[q]
  /\ trail' = [trail EXCEPT ![q] = {}]
  /\ reply' = [reply EXCEPT ![q] = "error"]
  /\ Goto(q, "done")
  /\ UNCHANGED <<plan, at, base, work, published>>

(* Mutant of Rollback: an early return that leaves the transaction open. *)
RollbackForgotten(q) ==
  /\ reply' = [reply EXCEPT ![q] = "error"]
  /\ Goto(q, "done")
  /\ UNCHANGED <<plan, at, base, dbVars, published>>

(* Only q's uncommitted rows, audit rows and locks go. *)
Rollback(q) ==
  /\ lock' = [r \in Rows |-> IF lock[r] = q THEN Nobody ELSE lock[r]]
  /\ trail' = [trail EXCEPT ![q] = {}]
  /\ reply' = [reply EXCEPT ![q] = "error"]
  /\ Goto(q, "done")
  /\ UNCHANGED <<plan, at, base, table, work, audit, published>>

-----------------------------------------------------------------------------
(* FindOne, in a transaction of its own, that ends before Update begins. *)
FindOne(q) ==
  /\ pc[q] = "find"
  /\ Exists(plan[q].row)
  /\ base' = [base EXCEPT ![q][plan[q].row] = table[plan[q].row].version]
  /\ Goto(q, "before")
  /\ UNCHANGED <<plan, at, dbVars, spawned, published, reply>>

(* Beginx and the Before interceptors: permission of the table and of the row,
   validation, exchange. They write nothing. *)
InterceptBefore(q) ==
  /\ pc[q] = "before"
  /\ Goto(q, IF plan[q].op = "delete" THEN "audit" ELSE "write")
  /\ UNCHANGED <<plan, at, base, dbVars, spawned, published, reply>>

(* The write of row r to state s by q, once no other transaction holds r. *)
Stage(q, r, s) ==
  /\ lock[r] = Nobody
  /\ lock' = [lock EXCEPT ![r] = q]
  /\ work' = [work EXCEPT ![r] = s]
  /\ UNCHANGED <<table, audit, trail>>

(* Mutant of Matches: the WHERE clause without the version. *)
MatchesAnyVersion(q, r) == Exists(r)

(* UPDATE ... WHERE reference_id = r AND version = GetCurrentVersion(). *)
Matches(q, r) == Exists(r) /\ table[r].version = base[q][r]

UpdateRow(q) ==
  LET r == at[q] IN
  /\ pc[q] = "write" /\ plan[q].op = "patch"
  /\ \/ /\ r = plan[q].row /\ ~plan[q].changes   \* nothing to update, nothing to audit
        /\ Goto(q, IF plan[q].related = NoRow THEN "after" ELSE "read")
        /\ at' = [at EXCEPT ![q] = IF plan[q].related = NoRow THEN r ELSE plan[q].related]
        /\ UNCHANGED dbVars
     \/ /\ r # plan[q].row \/ plan[q].changes
        /\ IF Matches(q, r)
           THEN Stage(q, r, [version |-> base[q][r] + 1, by |-> q])
           ELSE UNCHANGED dbVars                 \* no row affected, no error
        /\ Goto(q, "audit")
        /\ UNCHANGED at
  /\ UNCHANGED <<plan, base, spawned, published, reply>>

InsertRow(q) ==
  /\ pc[q] = "write" /\ plan[q].op = "post"
  /\ Stage(q, at[q], [version |-> 1, by |-> q])
  /\ Goto(q, "after")
  /\ UNCHANGED <<plan, at, base, spawned, published, reply>>

DeleteRow(q) ==
  /\ pc[q] = "write" /\ plan[q].op = "delete"
  /\ IF Exists(at[q]) THEN Stage(q, at[q], [version |-> 0, by |-> q])
                      ELSE UNCHANGED dbVars
  /\ Goto(q, "after")
  /\ UNCHANGED <<plan, at, base, spawned, published, reply>>

(* Mutant of AddToTrail: the rewrite of a related row is not audited. *)
AddOwnRowToTrail(q, version) ==
  trail' = IF IsAuditEnabled /\ at[q] = plan[q].row
           THEN [trail EXCEPT ![q] =
                   @ \cup {[row |-> at[q], version |-> version, by |-> q]}]
           ELSE trail

(* Mutant of AddToTrail: it records the version the update makes. *)
AddNextToTrail(q, version) ==
  trail' = IF IsAuditEnabled
           THEN [trail EXCEPT ![q] =
                   @ \cup {[row |-> at[q], version |-> version + 1, by |-> q]}]
           ELSE trail

AddToTrail(q, version) ==
  trail' = IF IsAuditEnabled
           THEN [trail EXCEPT ![q] =
                   @ \cup {[row |-> at[q], version |-> version, by |-> q]}]
           ELSE trail

(* Mutant of AuditUpdate: it goes on to the related row even without one. *)
AuditUpdateReadsOn(q) ==
  LET own == at[q] = plan[q].row IN
  /\ pc[q] = "audit" /\ plan[q].op = "patch"
  /\ AddToTrail(q, base[q][at[q]])
  /\ IF own
     THEN Goto(q, "read") /\ at' = [at EXCEPT ![q] = plan[q].related]
     ELSE Goto(q, "after") /\ at' = [at EXCEPT ![q] = plan[q].row]
  /\ spawned' = IF own THEN spawned ELSE spawned \cup {<<q, at[q]>>}
  /\ UNCHANGED <<plan, base, table, lock, work, audit, published, reply>>

(* The audit row of an update. The related row's UpdateWithTransaction is over
   with it: its After interceptors start a publishing goroutine of their own. *)
AuditUpdate(q) ==
  LET own == at[q] = plan[q].row IN
  /\ pc[q] = "audit" /\ plan[q].op = "patch"
  /\ AddToTrail(q, base[q][at[q]])
  /\ IF own /\ plan[q].related # NoRow
     THEN Goto(q, "read") /\ at' = [at EXCEPT ![q] = plan[q].related]
     ELSE Goto(q, "after") /\ at' = [at EXCEPT ![q] = plan[q].row]
  /\ spawned' = IF own THEN spawned ELSE spawned \cup {<<q, at[q]>>}
  /\ UNCHANGED <<plan, base, table, lock, work, audit, published, reply>>

(* The audit row of a delete comes first, from the row as it is then; when it
   cannot be made the error is only logged. *)
AuditDelete(q) ==
  /\ pc[q] = "audit" /\ plan[q].op = "delete"
  /\ Exists(at[q])
  /\ \/ AddToTrail(q, table[at[q]].version)
     \/ UNCHANGED trail
  /\ Goto(q, "write")
  /\ UNCHANGED <<plan, at, base, table, lock, work, audit, spawned, published, reply>>

(* The related row is read again inside the transaction, so its model carries
   the version of that moment; when it is not there it is left alone. *)
ReadRelated(q) ==
  /\ pc[q] = "read"
  /\ IF Exists(at[q])
     THEN /\ base' = [base EXCEPT ![q][at[q]] = table[at[q]].version]
          /\ Goto(q, "write")
          /\ UNCHANGED at
     ELSE /\ Goto(q, "after")
          /\ at' = [at EXCEPT ![q] = plan[q].row]
          /\ UNCHANGED base
  /\ UNCHANGED <<plan, dbVars, spawned, published, reply>>

(* Mutant of EventOf: the switch on the method loses its "delete" case. *)
EventOfUpsert(q) == IF plan[q].op = "delete" THEN {} ELSE {<<q, plan[q].row>>}

(* "create", "update" or "delete", by the method. *)
EventOf(q) == {<<q, plan[q].row>>}

(* The After interceptors: the event handler starts the goroutine that
   publishes, then the exchange runs, which may still fail the request. *)
InterceptAfter(q) ==
  /\ pc[q] = "after"
  /\ spawned' = spawned \cup EventOf(q)
  /\ \/ /\ Goto(q, "commit")
        /\ UNCHANGED <<plan, at, base, dbVars, published, reply>>
     \/ Rollback(q)

Commit(q) ==
  /\ pc[q] = "commit"
  /\ table' = [r \in Rows |-> IF lock[r] = q THEN work[r] ELSE table[r]]
  /\ lock' = [r \in Rows |-> IF lock[r] = q THEN Nobody ELSE lock[r]]
  /\ audit' = audit \cup trail[q]
  /\ trail' = [trail EXCEPT ![q] = {}]
  /\ reply' = [reply EXCEPT ![q] = "ok"]
  /\ Goto(q, "done")
  /\ UNCHANGED <<plan, at, base, work, spawned, published>>

(* A denial, an invalid value, a failed statement or a failed commit: the
   handler returns the error and the transaction is rolled back. *)
Fail(q) ==
  /\ pc[q] # "done"
  /\ Rollback(q)
  /\ UNCHANGED spawned

(* A FindOne or a DELETE that does not find its row. *)
NotFound(q) ==
  /\ \/ pc[q] = "find"
     \/ pc[q] = "audit" /\ plan[q].op = "delete"
  /\ ~Exists(at[q])
  /\ Rollback(q)
  /\ UNCHANGED spawned

(* q's next statement needs a row that p holds. *)
WaitsFor(q, p) ==
  /\ pc[q] = "write"
  /\ lock[at[q]] = p /\ p # q
  /\ CASE plan[q].op = "patch" -> Matches(q, at[q])
       [] plan[q].op = "delete" -> Exists(at[q])
       [] OTHER -> FALSE

Deadlocked(q) ==
  \E S \in SUBSET Requests :
    q \in S /\ \A p \in S : \E o \in S : WaitsFor(p, o)

(* The database ends a deadlock by failing a statement of one transaction. *)
DeadlockVictim(q) ==
  /\ Deadlocked(q)
  /\ Rollback(q)
  /\ UNCHANGED spawned

(* The goroutine gets to publish. *)
Publish(q, r) ==
  /\ <<q, r>> \in spawned
  /\ spawned' = spawned \ {<<q, r>>}
  /\ published' = published \cup {<<q, r>>}
  /\ UNCHANGED <<plan, pc, at, base, dbVars, reply>>

Serve(q) ==
  \/ FindOne(q) \/ InterceptBefore(q)
  \/ UpdateRow(q) \/ InsertRow(q) \/ DeleteRow(q)
  \/ AuditUpdate(q) \/ AuditDelete(q) \/ ReadRelated(q)
  \/ InterceptAfter(q) \/ Commit(q) \/ NotFound(q)

Next == \/ \E q \in Requests : Serve(q) \/ Fail(q) \/ DeadlockVictim(q)
        \/ \E q \in Requests, r \in Rows : Publish(q, r)

Spec == Init /\ [][Next]_vars

(* A handler and a goroutine that can run, run; the database resolves every
   deadlock. Nothing is assumed of failures. *)
FairSpec ==
  /\ Spec
  /\ \A q \in Requests : WF_vars(Serve(q)) /\ WF_vars(DeadlockVictim(q))
  /\ \A q \in Requests, r \in Rows : WF_vars(Publish(q, r))

-----------------------------------------------------------------------------
(* Where a handler may stand while it holds the lock of row r: its own row from
   the UPDATE on, the related row from the second UPDATE on. *)
HoldsRightly(q, r) ==
  \/ r = plan[q].row /\ \/ pc[q] \in {"after", "commit"}
                        \/ pc[q] \in {"read", "audit"} /\ plan[q].op = "patch"
                        \/ pc[q] = "write" /\ at[q] = plan[q].related
  \/ r = plan[q].related /\ \/ pc[q] = "audit" /\ at[q] = r
                            \/ pc[q] \in {"after", "commit"}

(* While a transaction holds a row, nobody else commits to it: what it is about
   to commit is the version after the one that is stored, and, unless it is a
   delete, the stored version is the one its copy was read at. A handler that
   has answered holds nothing. *)
LockedRow(r) ==
  lock[r] # Nobody =>
    /\ HoldsRightly(lock[r], r)
    /\ work[r].by = lock[r]
    /\ \/ work[r].version = 0
       \/ /\ work[r].version = table[r].version + 1
          /\ base[lock[r]][r] = table[r].version

LockProtocol == \A r \in Rows : LockedRow(r)

(* The optimistic version check loses no update: the request that moves a row
   to a new version had read exactly the version it replaces, whatever other
   requests committed between its FindOne and its commit. *)
NoLostUpdate ==
  [][\A r \in Rows :
       table'[r] # table[r] /\ table'[r].version # 0
         => /\ table'[r].version = table[r].version + 1
            /\ base[table'[r].by][r] = table[r].version]_vars

(* With auditing on, every version a stored row went through has its audit
   record, whichever request, nested or not, replaced it. *)
EveryVersionAudited ==
  IsAuditEnabled =>
    \A r \in Rows : \A v \in 1 .. (table[r].version - 1) :
         \E q \in Requests : [row |-> r, version |-> v, by |-> q] \in audit

(* A request that was answered with an error left nothing behind: no row, own
   or related, and no audit record of it was committed. *)
FailureLeavesNoTrace ==
  \A q \in Requests : reply[q] = "error" =>
    /\ \A r \in Rows : table[r].by # q
    /\ \A a \in audit : a.by # q

(* The server implements the table of VersionedRows. *)
Promise == INSTANCE VersionedRows WITH table <- table, audit <- audit

ImplementsVersionedRows == Promise!Spec

(* Every request is answered, though requests wait for each other's rows. *)
EveryRequestAnswered == \A q \in Requests : <>(reply[q] # "none")

(* Every committed change of a row, own or related, is announced on the topic. *)
ChangeIsAnnounced ==
  \A q \in Requests, r \in Rows :
    (table[r].by = q) ~> (<<q, r>> \in published)

(* What the comment on Update and the description of the version column say:
   a successful PATCH with changes has made a version of its row. *)
AcknowledgedUpdateIsStored ==
  [][\A q \in Requests :
       /\ reply'[q] = "ok" /\ reply[q] = "none"
       /\ plan[q].op = "patch" /\ plan[q].changes
       => table'[plan[q].row].by = q]_vars
=============================================================================
