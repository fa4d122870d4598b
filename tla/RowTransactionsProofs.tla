----------------------- MODULE RowTransactionsProofs -----------------------
(* Theorems about RowTransactions, for any rows, requests and plans. *)
EXTENDS RowTransactions, TLAPS

(* What the row a handler works on may be at each of its steps. *)
HandlerAt(q) ==
  /\ at[q] \in {plan[q].row, plan[q].related}
  /\ pc[q] \in {"find", "before"} => at[q] = plan[q].row
  /\ pc[q] = "read" => at[q] = plan[q].related
  /\ plan[q].op # "patch" => at[q] = plan[q].row
  /\ pc[q] \in {"find", "read"} => plan[q].op = "patch"
  /\ pc[q] = "done" <=> reply[q] # "none"

HandlerInv == \A q \in Requests : HandlerAt(q)

(* The row a POST will make is its own: nobody stores or locks it before. *)
FreshRow(q) ==
  plan[q].op = "post" =>
    /\ \A p \in Requests : p # q /\ plan[p].op = "post" => plan[p].row # plan[q].row
    /\ pc[q] # "done" => /\ table[plan[q].row].version = 0
                         /\ lock[plan[q].row] \in {Nobody, q}
                         /\ base[q][plan[q].row] = 0

FreshInv == \A q \in Requests : FreshRow(q)

(* Committed rows and audit records were written by requests answered "ok",
   and the uncommitted audit records of a request are its own. *)
AuthorInv ==
  /\ \A r \in Rows : table[r].by # Nobody => reply[table[r].by] = "ok"
  /\ \A x \in audit : reply[x.by] = "ok"
  /\ \A q \in Requests : \A x \in trail[q] : x.by = q

(* A staged new version is audited in the same transaction, once the handler
   is past its audit step. *)
AuditedLock(r) ==
  (/\ IsAuditEnabled
   /\ lock[r] # Nobody
   /\ work[r].version >= 2
   /\ ~(pc[lock[r]] = "audit" /\ at[lock[r]] = r))
  => [row |-> r, version |-> table[r].version, by |-> lock[r]] \in trail[lock[r]]

TrailInv == \A r \in Rows : AuditedLock(r)

IInv == /\ TypeOK
        /\ HandlerInv
        /\ FreshInv
        /\ LockProtocol
        /\ AuthorInv
        /\ TrailInv
        /\ EveryVersionAudited

-----------------------------------------------------------------------------
LEMMA InitTypeOK == Init => TypeOK
<1>1. SUFFICES ASSUME Init PROVE TypeOK
  OBVIOUS
<1>2. plan \in [Requests -> Plans]
  BY <1>1 DEF Init
<1>3. at \in [Requests -> Rows]
  BY <1>1, <1>2, ConstantsAssumption DEF Init, Plan
<1>4. table \in [Rows -> RowState]
  BY <1>1 DEF Init, RowState
<1>5. QED
  BY <1>1, <1>2, <1>3, <1>4 DEF Init, TypeOK, AuditRecord

LEMMA PlanType ==
  ASSUME TypeOK, NEW q \in Requests
  PROVE  /\ plan[q].row \in Rows
         /\ plan[q].related # NoRow => plan[q].related \in Rows
         /\ plan[q].related # plan[q].row
         /\ plan[q].op \in {"patch", "post", "delete"}
         /\ at[q] \in Rows
  BY ConstantsAssumption DEF TypeOK, Plan

LEMMA RollbackTypeOK ==
  ASSUME TypeOK, NEW q \in Requests, Rollback(q), spawned' \subseteq Requests \X Rows
  PROVE  TypeOK'
  BY DEF TypeOK, Rollback, Goto

LEMMA NextTypeOK == TypeOK /\ [Next]_vars => TypeOK'
<1> SUFFICES ASSUME TypeOK, [Next]_vars PROVE TypeOK'
  OBVIOUS
<1> USE DEF TypeOK, Goto, dbVars
<1>1. ASSUME NEW q \in Requests, FindOne(q) PROVE TypeOK'
  <2>1. table[plan[q].row].version \in Nat
    BY ConstantsAssumption DEF Plan, RowState
  <2>2. base' \in [Requests -> [Rows -> Nat]]
    BY <1>1, <2>1 DEF FindOne
  <2>3. QED BY <1>1, <2>2 DEF FindOne
<1>2. ASSUME NEW q \in Requests, InterceptBefore(q) PROVE TypeOK'
  BY <1>2 DEF InterceptBefore
<1>3. ASSUME NEW q \in Requests, NEW r \in Rows, NEW s \in RowState, Stage(q, r, s)
      PROVE  /\ lock' \in [Rows -> Requests \cup {Nobody}]
             /\ work' \in [Rows -> RowState]
             /\ table' = table /\ audit' = audit /\ trail' = trail
  BY <1>3 DEF Stage
<1>4. ASSUME NEW q \in Requests, UpdateRow(q) PROVE TypeOK'
  <2>1. at' \in [Requests -> Rows]
    <3>1. \E x \in {at[q], plan[q].related} :
            at' = [at EXCEPT ![q] = x] /\ x # NoRow
      <4>1. at[q] # NoRow /\ at = [at EXCEPT ![q] = at[q]]
        BY ConstantsAssumption
      <4>2. CASE at' = at
        BY <4>1, <4>2
      <4>3. CASE plan[q].related = NoRow /\ at' = [at EXCEPT ![q] = at[q]]
        BY <4>1, <4>3
      <4>4. CASE plan[q].related # NoRow /\ at' = [at EXCEPT ![q] = plan[q].related]
        BY <4>4
      <4>5. QED BY <1>4, <4>2, <4>3, <4>4 DEF UpdateRow
    <3>2. QED BY <3>1, PlanType
  <2>2. [version |-> base[q][at[q]] + 1, by |-> q] \in RowState
    BY DEF RowState
  <2>3. QED BY <1>4, <1>3, <2>1, <2>2 DEF UpdateRow
<1>5. ASSUME NEW q \in Requests, InsertRow(q) PROVE TypeOK'
  <2>1. [version |-> 1, by |-> q] \in RowState
    BY DEF RowState
  <2>2. QED BY <1>5, <1>3, <2>1 DEF InsertRow
<1>6. ASSUME NEW q \in Requests, DeleteRow(q) PROVE TypeOK'
  <2>1. [version |-> 0, by |-> q] \in RowState
    BY DEF RowState
  <2>2. QED BY <1>6, <1>3, <2>1 DEF DeleteRow
<1>7. ASSUME NEW q \in Requests, NEW v \in Nat, AddToTrail(q, v)
      PROVE trail' \in [Requests -> SUBSET AuditRecord]
  BY <1>7 DEF AddToTrail, AuditRecord
<1>8. ASSUME NEW q \in Requests, AuditUpdate(q) PROVE TypeOK'
  <2>1. at' \in [Requests -> Rows]
    <3>1. CASE at' = [at EXCEPT ![q] = plan[q].row]
      BY <3>1, PlanType
    <3>2. CASE plan[q].related # NoRow /\ at' = [at EXCEPT ![q] = plan[q].related]
      BY <3>2, PlanType
    <3>3. QED BY <1>8, <3>1, <3>2 DEF AuditUpdate
  <2>2. trail' \in [Requests -> SUBSET AuditRecord]
    BY <1>8, <1>7 DEF AuditUpdate
  <2>3. pc' \in [Requests -> {"find", "before", "read", "write", "audit",
                              "after", "commit", "done"}]
    BY <1>8 DEF AuditUpdate
  <2>4. spawned' \subseteq Requests \X Rows
    BY <1>8 DEF AuditUpdate
  <2>5. QED BY <1>8, <2>1, <2>2, <2>3, <2>4 DEF AuditUpdate
<1>9. ASSUME NEW q \in Requests, AuditDelete(q) PROVE TypeOK'
  <2>1. table[at[q]].version \in Nat
    BY DEF RowState
  <2>2. trail' \in [Requests -> SUBSET AuditRecord]
    BY <1>9, <1>7, <2>1 DEF AuditDelete
  <2>3. QED BY <1>9, <2>2 DEF AuditDelete
<1>10. ASSUME NEW q \in Requests, ReadRelated(q) PROVE TypeOK'
  <2>1. table[at[q]].version \in Nat
    BY DEF RowState
  <2>2. base' \in [Requests -> [Rows -> Nat]]
    <3>1. CASE base' = base
      BY <3>1
    <3>2. CASE base' = [base EXCEPT ![q][at[q]] = table[at[q]].version]
      BY <3>2, <2>1
    <3>3. QED BY <1>10, <3>1, <3>2 DEF ReadRelated
  <2>3. at' \in [Requests -> Rows]
    <3>1. CASE at' = at
      BY <3>1
    <3>2. CASE at' = [at EXCEPT ![q] = plan[q].row]
      BY <3>2, PlanType
    <3>3. QED BY <1>10, <3>1, <3>2 DEF ReadRelated
  <2>4. QED BY <1>10, <2>2, <2>3 DEF ReadRelated
<1>11. ASSUME NEW q \in Requests, InterceptAfter(q) PROVE TypeOK'
  <2>1. plan[q].row \in Rows
    BY ConstantsAssumption DEF Plan
  <2>2. spawned' \subseteq Requests \X Rows
    BY <1>11, <2>1 DEF InterceptAfter, EventOf
  <2>3. CASE Rollback(q)
    BY <2>2, <2>3, RollbackTypeOK
  <2>4. CASE ~Rollback(q)
    BY <1>11, <2>2, <2>4 DEF InterceptAfter
  <2>5. QED BY <2>3, <2>4
<1>12. ASSUME NEW q \in Requests, Commit(q) PROVE TypeOK'
  BY <1>12 DEF Commit
<1>13. ASSUME NEW q \in Requests, Fail(q) \/ NotFound(q) \/ DeadlockVictim(q)
       PROVE TypeOK'
  BY <1>13, RollbackTypeOK DEF Fail, NotFound, DeadlockVictim
<1>14. ASSUME NEW q \in Requests, NEW r \in Rows, Publish(q, r) PROVE TypeOK'
  BY <1>14 DEF Publish
<1>15. CASE UNCHANGED vars
  BY <1>15 DEF vars
<1>16. QED
  BY <1>1, <1>2, <1>4, <1>5, <1>6, <1>8, <1>9, <1>10, <1>11, <1>12, <1>13,
     <1>14, <1>15 DEF Next, Serve

(* Every variable keeps its type. *)
THEOREM TypeCorrect == Spec => []TypeOK
  BY InitTypeOK, NextTypeOK, PTL DEF Spec

-----------------------------------------------------------------------------
(* What a request whose transaction was rolled back leaves of the state. *)
LEMMA RollbackEffect ==
  ASSUME TypeOK, NEW q \in Requests, InterceptAfter(q) \/ Fail(q) \/ NotFound(q) \/ DeadlockVictim(q),
         Rollback(q)
  PROVE  /\ pc[q] # "done"
         /\ pc' = [pc EXCEPT ![q] = "done"]
         /\ reply' = [reply EXCEPT ![q] = "error"]
         /\ trail' = [trail EXCEPT ![q] = {}]
         /\ lock' = [r \in Rows |-> IF lock[r] = q THEN Nobody ELSE lock[r]]
         /\ UNCHANGED <<plan, at, base, table, work, audit>>
<1>1. pc[q] # "done"
  <2>1. CASE DeadlockVictim(q)
    BY <2>1 DEF DeadlockVictim, Deadlocked, WaitsFor
  <2>2. QED BY <2>1 DEF InterceptAfter, Fail, NotFound
<1>2. QED BY <1>1 DEF Rollback, Goto

(* The steps of a request, the four ways to be rolled back taken together. *)
LEMMA StepCases ==
  ASSUME [Next]_vars
  PROVE  \/ \E q \in Requests :
              \/ FindOne(q) \/ InterceptBefore(q)
              \/ UpdateRow(q) \/ InsertRow(q) \/ DeleteRow(q)
              \/ AuditUpdate(q) \/ AuditDelete(q) \/ ReadRelated(q)
              \/ InterceptAfter(q) /\ Goto(q, "commit")
                   /\ UNCHANGED <<plan, at, base, dbVars, published, reply>>
              \/ Commit(q)
              \/ /\ InterceptAfter(q) \/ Fail(q) \/ NotFound(q) \/ DeadlockVictim(q)
                 /\ Rollback(q)
         \/ \E q \in Requests, r \in Rows : Publish(q, r)
         \/ UNCHANGED vars
  BY DEF Next, Serve, InterceptAfter, Fail, NotFound, DeadlockVictim

LEMMA NextHandlerInv == TypeOK /\ HandlerInv /\ [Next]_vars => HandlerInv'
<1> SUFFICES ASSUME TypeOK, HandlerInv, [Next]_vars, NEW p \in Requests
             PROVE  HandlerAt(p)'
  BY DEF HandlerInv
<1>0. HandlerAt(p)
  BY DEF HandlerInv
<1> USE PlanType DEF TypeOK, HandlerAt, Goto, dbVars
<1>1. ASSUME NEW q \in Requests, FindOne(q) PROVE HandlerAt(p)'
  BY <1>0, <1>1 DEF FindOne
<1>2. ASSUME NEW q \in Requests, InterceptBefore(q) PROVE HandlerAt(p)'
  BY <1>0, <1>2 DEF InterceptBefore
<1>3. ASSUME NEW q \in Requests, UpdateRow(q) PROVE HandlerAt(p)'
  BY <1>0, <1>3 DEF UpdateRow
<1>4. ASSUME NEW q \in Requests, InsertRow(q) \/ DeleteRow(q) PROVE HandlerAt(p)'
  BY <1>0, <1>4 DEF InsertRow, DeleteRow
<1>5. ASSUME NEW q \in Requests, AuditUpdate(q) PROVE HandlerAt(p)'
  BY <1>0, <1>5 DEF AuditUpdate
<1>6. ASSUME NEW q \in Requests, AuditDelete(q) PROVE HandlerAt(p)'
  BY <1>0, <1>6 DEF AuditDelete
<1>7. ASSUME NEW q \in Requests, ReadRelated(q) PROVE HandlerAt(p)'
  BY <1>0, <1>7 DEF ReadRelated
<1>8. ASSUME NEW q \in Requests, InterceptAfter(q), Goto(q, "commit"),
             UNCHANGED <<plan, at, reply>>
      PROVE HandlerAt(p)'
  BY <1>0, <1>8 DEF InterceptAfter
<1>9. ASSUME NEW q \in Requests, Commit(q) PROVE HandlerAt(p)'
  BY <1>0, <1>9 DEF Commit
<1>10. ASSUME NEW q \in Requests, Rollback(q),
              InterceptAfter(q) \/ Fail(q) \/ NotFound(q) \/ DeadlockVictim(q)
       PROVE HandlerAt(p)'
  BY <1>0, <1>10, RollbackEffect
<1>11. ASSUME NEW q \in Requests, NEW r \in Rows, Publish(q, r) PROVE HandlerAt(p)'
  BY <1>0, <1>11 DEF Publish
<1>12. CASE UNCHANGED vars
  BY <1>0, <1>12 DEF vars
<1>13. QED
  BY <1>1, <1>2, <1>3, <1>4, <1>5, <1>6, <1>7, <1>8, <1>9, <1>10, <1>11, <1>12,
     StepCases

-----------------------------------------------------------------------------
(* A handler about to write a row does not hold it yet. *)
LEMMA WritesFreeRow ==
  ASSUME TypeOK, HandlerInv, LockProtocol, NEW q \in Requests,
         pc[q] \in {"find", "before", "read", "write", "done"}
  PROVE  /\ lock[at[q]] # q
         /\ pc[q] \in {"find", "before", "done"} => \A r \in Rows : lock[r] # q
<1> USE PlanType, ConstantsAssumption
<1>1. \A r \in Rows : lock[r] = q => HoldsRightly(q, r)
  BY DEF LockProtocol, LockedRow
<1>2. HandlerAt(q)
  BY DEF HandlerInv
<1>3. pc[q] \in {"find", "before", "done"} => \A r \in Rows : lock[r] # q
  BY <1>1 DEF HoldsRightly
<1>4. ~HoldsRightly(q, at[q])
  BY <1>2 DEF HoldsRightly, HandlerAt
<1>5. QED BY <1>1, <1>3, <1>4

(* One row of LockProtocol is kept by a step of q that writes row x, if any. *)
LEMMA StageKeepsLockedRow ==
  ASSUME TypeOK, HandlerInv, LockProtocol, NEW q \in Requests, NEW r \in Rows,
         pc[q] = "write",
         NEW s \in RowState, Stage(q, at[q], s), s.by = q,
         \/ s.version = 0
         \/ /\ s.version = table[at[q]].version + 1
            /\ base[q][at[q]] = table[at[q]].version,
         \/ pc' = [pc EXCEPT ![q] = "audit"] /\ plan[q].op = "patch"
         \/ pc' = [pc EXCEPT ![q] = "after"],
         UNCHANGED <<plan, at, base>>
  PROVE  LockedRow(r)'
<1> USE PlanType, ConstantsAssumption DEF TypeOK, RowState
<1>1. LockedRow(r) /\ HandlerAt(q)
  BY DEF LockProtocol, HandlerInv
<1>2. CASE r = at[q]
  BY <1>1, <1>2 DEF Stage, LockedRow, HoldsRightly, HandlerAt
<1>3. CASE r # at[q]
  BY <1>1, <1>3 DEF Stage, LockedRow, HoldsRightly, HandlerAt
<1>4. QED BY <1>2, <1>3

LEMMA NextFreshInv ==
  TypeOK /\ HandlerInv /\ FreshInv /\ LockProtocol /\ [Next]_vars => FreshInv'
<1> SUFFICES ASSUME TypeOK, HandlerInv, FreshInv, LockProtocol, [Next]_vars,
                    NEW p \in Requests
             PROVE  FreshRow(p)'
  BY DEF FreshInv
<1>0. FreshRow(p)
  BY DEF FreshInv
<1>h. ASSUME NEW q \in Requests PROVE HandlerAt(q) /\ FreshRow(q)
  BY DEF HandlerInv, FreshInv
<1> USE PlanType, ConstantsAssumption DEF TypeOK, Goto, dbVars, FreshRow
<1>1. ASSUME NEW q \in Requests, FindOne(q) PROVE FreshRow(p)'
  BY <1>0, <1>1, <1>h DEF FindOne, HandlerAt
<1>2. ASSUME NEW q \in Requests, InterceptBefore(q) PROVE FreshRow(p)'
  BY <1>0, <1>2 DEF InterceptBefore
<1>3. ASSUME NEW q \in Requests, UpdateRow(q) PROVE FreshRow(p)'
  <2>1. CASE Matches(q, at[q]) /\ Stage(q, at[q], [version |-> base[q][at[q]] + 1, by |-> q])
    BY <1>0, <1>3, <2>1 DEF UpdateRow, Matches, Exists, Stage
  <2>2. CASE UNCHANGED dbVars
    BY <1>0, <1>3, <2>2 DEF UpdateRow
  <2>3. QED BY <1>3, <2>1, <2>2 DEF UpdateRow
<1>4. ASSUME NEW q \in Requests, InsertRow(q) PROVE FreshRow(p)'
  BY <1>0, <1>4, <1>h DEF InsertRow, Stage, HandlerAt
<1>5. ASSUME NEW q \in Requests, DeleteRow(q) PROVE FreshRow(p)'
  BY <1>0, <1>5 DEF DeleteRow, Stage, Exists
<1>6. ASSUME NEW q \in Requests, AuditUpdate(q) \/ AuditDelete(q) PROVE FreshRow(p)'
  BY <1>0, <1>6 DEF AuditUpdate, AuditDelete
<1>7. ASSUME NEW q \in Requests, ReadRelated(q) PROVE FreshRow(p)'
  BY <1>0, <1>7, <1>h DEF ReadRelated, HandlerAt
<1>8. ASSUME NEW q \in Requests, InterceptAfter(q), Goto(q, "commit"),
             UNCHANGED <<plan, at, base, dbVars, published, reply>>
      PROVE FreshRow(p)'
  BY <1>0, <1>8 DEF InterceptAfter
<1>9. ASSUME NEW q \in Requests, Commit(q) PROVE FreshRow(p)'
  BY <1>0, <1>9 DEF Commit
<1>10. ASSUME NEW q \in Requests, Rollback(q),
              InterceptAfter(q) \/ Fail(q) \/ NotFound(q) \/ DeadlockVictim(q)
       PROVE FreshRow(p)'
  BY <1>0, <1>10, RollbackEffect
<1>11. ASSUME NEW q \in Requests, NEW x \in Rows, Publish(q, x) PROVE FreshRow(p)'
  BY <1>0, <1>11 DEF Publish
<1>12. CASE UNCHANGED vars
  BY <1>0, <1>12 DEF vars
<1>13. QED
  BY <1>1, <1>2, <1>3, <1>4, <1>5, <1>6, <1>7, <1>8, <1>9, <1>10, <1>11, <1>12,
     StepCases

LEMMA NextLockProtocol ==
  TypeOK /\ HandlerInv /\ FreshInv /\ LockProtocol /\ [Next]_vars => LockProtocol'
<1> SUFFICES ASSUME TypeOK, HandlerInv, FreshInv, LockProtocol, [Next]_vars, NEW r \in Rows
             PROVE  LockedRow(r)'
  BY DEF LockProtocol
<1>0. LockedRow(r)
  BY DEF LockProtocol
<1>h. ASSUME NEW q \in Requests PROVE HandlerAt(q)
  BY DEF HandlerInv
<1> USE PlanType, ConstantsAssumption DEF TypeOK, Goto, dbVars
<1>1. ASSUME NEW q \in Requests, FindOne(q) PROVE LockedRow(r)'
  BY <1>0, <1>1, WritesFreeRow DEF FindOne, LockedRow, HoldsRightly
<1>2. ASSUME NEW q \in Requests, InterceptBefore(q) PROVE LockedRow(r)'
  BY <1>0, <1>2, WritesFreeRow DEF InterceptBefore, LockedRow, HoldsRightly
<1>3. ASSUME NEW q \in Requests, UpdateRow(q) PROVE LockedRow(r)'
  <2>1. CASE Matches(q, at[q]) /\ Stage(q, at[q], [version |-> base[q][at[q]] + 1, by |-> q])
             /\ Goto(q, "audit") /\ UNCHANGED at
    <3>1. [version |-> base[q][at[q]] + 1, by |-> q] \in RowState
      BY DEF RowState
    <3>2. QED
      BY <1>3, <2>1, <3>1, StageKeepsLockedRow DEF UpdateRow, Matches
  <2>2. CASE UNCHANGED dbVars
    BY <1>0, <1>3, <1>h, <2>2, WritesFreeRow
       DEF UpdateRow, LockedRow, HoldsRightly, HandlerAt
  <2>3. QED BY <1>3, <2>1, <2>2 DEF UpdateRow
<1>4. ASSUME NEW q \in Requests, InsertRow(q) PROVE LockedRow(r)'
  <2>1. [version |-> 1, by |-> q] \in RowState
    BY DEF RowState
  <2>2. at[q] = plan[q].row /\ table[at[q]].version = 0 /\ base[q][at[q]] = 0
    BY <1>4, <1>h DEF InsertRow, HandlerAt, FreshInv, FreshRow
  <2>3. pc[q] = "write" /\ pc' = [pc EXCEPT ![q] = "after"] /\ UNCHANGED <<plan, at, base>>
    BY <1>4 DEF InsertRow
  <2>4. DEFINE s == [version |-> 1, by |-> q]
  <2>5. Stage(q, at[q], s) /\ s.by = q /\ s.version = table[at[q]].version + 1
        /\ s \in RowState
    BY <1>4, <2>1, <2>2 DEF InsertRow
  <2> HIDE DEF s
  <2>6. QED
    BY <2>2, <2>3, <2>5, StageKeepsLockedRow
<1>5. ASSUME NEW q \in Requests, DeleteRow(q) PROVE LockedRow(r)'
  <2>1. CASE Stage(q, at[q], [version |-> 0, by |-> q])
    <3>1. [version |-> 0, by |-> q] \in RowState
      BY DEF RowState
    <3>2. pc[q] = "write" /\ pc' = [pc EXCEPT ![q] = "after"] /\ UNCHANGED <<plan, at, base>>
      BY <1>5 DEF DeleteRow
    <3>3. DEFINE s == [version |-> 0, by |-> q]
    <3>4. Stage(q, at[q], s) /\ s.by = q /\ s.version = 0 /\ s \in RowState
      BY <2>1, <3>1
    <3> HIDE DEF s
    <3>5. QED BY <3>2, <3>4, StageKeepsLockedRow
  <2>2. CASE UNCHANGED dbVars
    BY <1>0, <1>5, <1>h, <2>2, WritesFreeRow
       DEF DeleteRow, LockedRow, HoldsRightly, HandlerAt
  <2>3. QED BY <1>5, <2>1, <2>2 DEF DeleteRow
<1>6. ASSUME NEW q \in Requests, AuditUpdate(q) PROVE LockedRow(r)'
  BY <1>0, <1>6, <1>h DEF AuditUpdate, LockedRow, HoldsRightly, HandlerAt
<1>7. ASSUME NEW q \in Requests, AuditDelete(q) PROVE LockedRow(r)'
  BY <1>0, <1>7, <1>h DEF AuditDelete, LockedRow, HoldsRightly, HandlerAt
<1>8. ASSUME NEW q \in Requests, ReadRelated(q) PROVE LockedRow(r)'
  BY <1>0, <1>8, <1>h, WritesFreeRow DEF ReadRelated, LockedRow, HoldsRightly, HandlerAt
<1>9. ASSUME NEW q \in Requests, InterceptAfter(q), Goto(q, "commit"),
             UNCHANGED <<plan, at, base, dbVars, published, reply>>
      PROVE LockedRow(r)'
  BY <1>0, <1>9 DEF InterceptAfter, LockedRow, HoldsRightly
<1>10. ASSUME NEW q \in Requests, Commit(q) PROVE LockedRow(r)'
  BY <1>0, <1>10 DEF Commit, LockedRow, HoldsRightly
<1>11. ASSUME NEW q \in Requests, Rollback(q),
              InterceptAfter(q) \/ Fail(q) \/ NotFound(q) \/ DeadlockVictim(q)
       PROVE LockedRow(r)'
  BY <1>0, <1>11, RollbackEffect DEF LockedRow, HoldsRightly
<1>12. ASSUME NEW q \in Requests, NEW x \in Rows, Publish(q, x) PROVE LockedRow(r)'
  BY <1>0, <1>12 DEF Publish, LockedRow, HoldsRightly
<1>13. CASE UNCHANGED vars
  BY <1>0, <1>13 DEF vars, LockedRow, HoldsRightly
<1>14. QED
  BY <1>1, <1>2, <1>3, <1>4, <1>5, <1>6, <1>7, <1>8, <1>9, <1>10, <1>11, <1>12,
     <1>13, StepCases

-----------------------------------------------------------------------------
LEMMA NextAuthorInv ==
  TypeOK /\ HandlerInv /\ LockProtocol /\ AuthorInv /\ [Next]_vars => AuthorInv'
<1> SUFFICES ASSUME TypeOK, HandlerInv, LockProtocol, AuthorInv, [Next]_vars
             PROVE  AuthorInv'
  OBVIOUS
<1>h. ASSUME NEW q \in Requests PROVE HandlerAt(q)
  BY DEF HandlerInv
<1> USE ConstantsAssumption DEF TypeOK, Goto, dbVars, AuthorInv, RowState, AuditRecord
<1>1. ASSUME UNCHANGED <<table, audit, reply, trail>> PROVE AuthorInv'
  BY <1>1
<1>2. ASSUME NEW q \in Requests, NEW v \in Nat, AddToTrail(q, v),
             UNCHANGED <<table, audit, reply>>
      PROVE  AuthorInv'
  BY <1>2 DEF AddToTrail
<1>3. ASSUME NEW q \in Requests, AuditUpdate(q) PROVE AuthorInv'
  <2>1. at[q] \in Rows
    OBVIOUS
  <2>2. base[q][at[q]] \in Nat
    BY <2>1
  <2>3. QED BY <1>2, <1>3, <2>2 DEF AuditUpdate
<1>4. ASSUME NEW q \in Requests, AuditDelete(q) PROVE AuthorInv'
  <2>1. table[at[q]].version \in Nat
    OBVIOUS
  <2>2. QED BY <1>1, <1>2, <1>4, <2>1 DEF AuditDelete
<1>5. ASSUME NEW q \in Requests, Commit(q) PROVE AuthorInv'
  <2>1. reply' = [reply EXCEPT ![q] = "ok"]
    BY <1>5 DEF Commit
  <2>2. \A p \in Requests : reply[p] = "ok" => reply'[p] = "ok"
    BY <2>1
  <2>3. ASSUME NEW r \in Rows, table'[r].by # Nobody PROVE reply'[table'[r].by] = "ok"
    <3>1. CASE lock[r] = q
      BY <1>5, <2>1, <3>1 DEF Commit, LockProtocol, LockedRow
    <3>2. CASE lock[r] # q
      BY <1>5, <2>2, <2>3, <3>2 DEF Commit
    <3>3. QED BY <3>1, <3>2
  <2>4. ASSUME NEW x \in audit' PROVE reply'[x.by] = "ok"
    <3>1. x \in audit \/ x \in trail[q]
      BY <1>5 DEF Commit
    <3>2. x.by \in Requests
      BY <3>1
    <3>3. QED BY <2>1, <2>2, <3>1, <3>2
  <2>5. \A p \in Requests : \A x \in trail'[p] : x.by = p
    BY <1>5 DEF Commit
  <2>6. QED BY <2>3, <2>4, <2>5
<1>6. ASSUME NEW q \in Requests, Rollback(q),
             InterceptAfter(q) \/ Fail(q) \/ NotFound(q) \/ DeadlockVictim(q)
      PROVE AuthorInv'
  <2>1. reply[q] = "none"
    BY <1>6, <1>h, RollbackEffect DEF HandlerAt
  <2>2. \A p \in Requests : reply[p] = "ok" => reply'[p] = "ok"
    BY <1>6, <2>1, RollbackEffect
  <2>3. UNCHANGED <<table, audit>> /\ trail' = [trail EXCEPT ![q] = {}]
    BY <1>6, RollbackEffect
  <2>4. \A p \in Requests : \A x \in trail'[p] : x.by = p
    BY <2>3
  <2>5. QED BY <2>2, <2>3, <2>4
<1>7. ASSUME NEW q \in Requests,
             \/ FindOne(q) \/ InterceptBefore(q) \/ ReadRelated(q)
             \/ UpdateRow(q) \/ InsertRow(q) \/ DeleteRow(q)
      PROVE UNCHANGED <<table, audit, reply, trail>>
  BY <1>7 DEF FindOne, InterceptBefore, ReadRelated, UpdateRow, InsertRow, DeleteRow, Stage
<1>8. ASSUME NEW q \in Requests, NEW r \in Rows, Publish(q, r)
      PROVE UNCHANGED <<table, audit, reply, trail>>
  BY <1>8 DEF Publish
<1>9. UNCHANGED vars => UNCHANGED <<table, audit, reply, trail>>
  BY DEF vars
<1>10. QED
  BY <1>1, <1>3, <1>4, <1>5, <1>6, <1>7, <1>8, <1>9, StepCases

LEMMA NextTrailInv ==
  TypeOK /\ HandlerInv /\ FreshInv /\ LockProtocol /\ TrailInv /\ [Next]_vars
    => TrailInv'
<1> SUFFICES ASSUME TypeOK, HandlerInv, FreshInv, LockProtocol, TrailInv, [Next]_vars,
                    NEW r \in Rows
             PROVE  AuditedLock(r)'
  BY DEF TrailInv
<1>0. AuditedLock(r) /\ LockedRow(r)
  BY DEF TrailInv, LockProtocol
<1>h. ASSUME NEW q \in Requests PROVE HandlerAt(q)
  BY DEF HandlerInv
<1> USE PlanType, ConstantsAssumption DEF TypeOK, Goto, dbVars, RowState
<1>1. ASSUME NEW q \in Requests, FindOne(q) \/ InterceptBefore(q) PROVE AuditedLock(r)'
  BY <1>0, <1>1, WritesFreeRow DEF FindOne, InterceptBefore, AuditedLock
<1>2. ASSUME NEW q \in Requests, UpdateRow(q) PROVE AuditedLock(r)'
  <2>1. CASE Stage(q, at[q], [version |-> base[q][at[q]] + 1, by |-> q])
             /\ Goto(q, "audit") /\ UNCHANGED at
    BY <1>0, <1>2, <2>1 DEF UpdateRow, Stage, AuditedLock
  <2>2. CASE UNCHANGED dbVars
    BY <1>0, <1>2, <2>2, WritesFreeRow DEF UpdateRow, AuditedLock
  <2>3. QED BY <1>2, <2>1, <2>2 DEF UpdateRow
<1>3. ASSUME NEW q \in Requests, InsertRow(q) \/ DeleteRow(q) PROVE AuditedLock(r)'
  BY <1>0, <1>3 DEF InsertRow, DeleteRow, Stage, AuditedLock
<1>4. ASSUME NEW q \in Requests, AuditUpdate(q) PROVE AuditedLock(r)'
  <2>1. UNCHANGED <<table, lock, work>>
    BY <1>4 DEF AuditUpdate
  <2>2. trail[q] \subseteq trail'[q] /\ \A p \in Requests : p # q => trail'[p] = trail[p]
    BY <1>4 DEF AuditUpdate, AddToTrail
  <2>3. CASE lock[r] = q /\ r = at[q] /\ work[r].version >= 2 /\ IsAuditEnabled
    <3>1. base[q][r] = table[r].version
      BY <1>0, <2>3 DEF LockedRow
    <3>2. [row |-> r, version |-> table[r].version, by |-> q] \in trail'[q]
      BY <1>4, <2>3, <3>1 DEF AuditUpdate, AddToTrail
    <3>3. QED BY <2>1, <2>3, <3>2 DEF AuditedLock
  <2>4. CASE lock[r] = q /\ r # at[q]
    BY <1>0, <2>1, <2>2, <2>4 DEF AuditedLock
  <2>5. CASE lock[r] # q
    BY <1>0, <1>4, <2>1, <2>2, <2>5 DEF AuditedLock, AuditUpdate
  <2>6. CASE lock[r] = q /\ r = at[q] /\ ~(work[r].version >= 2 /\ IsAuditEnabled)
    BY <2>1, <2>6 DEF AuditedLock
  <2>7. QED BY <2>3, <2>4, <2>5, <2>6
<1>5. ASSUME NEW q \in Requests, AuditDelete(q) PROVE AuditedLock(r)'
  <2>1. lock[r] # q
    BY <1>0, <1>5, <1>h DEF AuditDelete, LockedRow, HoldsRightly, HandlerAt
  <2>2. \A p \in Requests : p # q => trail'[p] = trail[p]
    BY <1>5 DEF AuditDelete, AddToTrail
  <2>3. QED BY <1>0, <1>5, <2>1, <2>2 DEF AuditDelete, AuditedLock
<1>6. ASSUME NEW q \in Requests, ReadRelated(q) PROVE AuditedLock(r)'
  BY <1>0, <1>6 DEF ReadRelated, AuditedLock
<1>7. ASSUME NEW q \in Requests, InterceptAfter(q), Goto(q, "commit"),
             UNCHANGED <<plan, at, base, dbVars, published, reply>>
      PROVE AuditedLock(r)'
  BY <1>0, <1>7 DEF InterceptAfter, AuditedLock
<1>8. ASSUME NEW q \in Requests, Commit(q) PROVE AuditedLock(r)'
  BY <1>0, <1>8 DEF Commit, AuditedLock
<1>9. ASSUME NEW q \in Requests, Rollback(q),
              InterceptAfter(q) \/ Fail(q) \/ NotFound(q) \/ DeadlockVictim(q)
      PROVE AuditedLock(r)'
  BY <1>0, <1>9, RollbackEffect DEF AuditedLock
<1>10. ASSUME NEW q \in Requests, NEW x \in Rows, Publish(q, x) PROVE AuditedLock(r)'
  BY <1>0, <1>10 DEF Publish, AuditedLock
<1>11. CASE UNCHANGED vars
  BY <1>0, <1>11 DEF vars, AuditedLock
<1>12. QED
  BY <1>1, <1>2, <1>3, <1>4, <1>5, <1>6, <1>7, <1>8, <1>9, <1>10, <1>11, StepCases

(* The committed audit records only grow, and rows change by commits only. *)
LEMMA OnlyCommitChangesRows ==
  ASSUME TypeOK, [Next]_vars
  PROVE  \/ UNCHANGED <<table, audit>>
         \/ \E q \in Requests : Commit(q)
<1>1. ASSUME NEW q \in Requests,
             \/ FindOne(q) \/ InterceptBefore(q) \/ ReadRelated(q)
             \/ UpdateRow(q) \/ InsertRow(q) \/ DeleteRow(q)
             \/ AuditUpdate(q) \/ AuditDelete(q)
      PROVE UNCHANGED <<table, audit>>
  BY <1>1 DEF FindOne, InterceptBefore, ReadRelated, UpdateRow, InsertRow, DeleteRow,
              AuditUpdate, AuditDelete, Stage, dbVars
<1>2. ASSUME NEW q \in Requests, InterceptAfter(q) \/ Rollback(q)
      PROVE UNCHANGED <<table, audit>>
  BY <1>2 DEF InterceptAfter, Rollback, dbVars
<1>3. ASSUME NEW q \in Requests, NEW r \in Rows, Publish(q, r)
      PROVE UNCHANGED <<table, audit>>
  BY <1>3 DEF Publish, dbVars
<1>4. UNCHANGED vars => UNCHANGED <<table, audit>>
  BY DEF vars
<1>5. QED
  BY <1>1, <1>2, <1>3, <1>4, StepCases

(* What q commits: each row it holds follows the stored one, and an update's
   record is in the trail. *)
LEMMA CommitEffect ==
  ASSUME IInv, NEW q \in Requests, Commit(q), NEW r \in Rows
  PROVE  /\ lock[r] # q => table'[r] = table[r]
         /\ lock[r] = q =>
              /\ table'[r].by = q
              /\ \/ table'[r].version = 0
                 \/ /\ table'[r].version = table[r].version + 1
                    /\ base[q][r] = table[r].version
              /\ IsAuditEnabled /\ table'[r].version >= 2
                   => [row |-> r, version |-> table[r].version, by |-> q] \in trail[q]
<1> USE ConstantsAssumption DEF IInv, TypeOK
<1>1. LockedRow(r) /\ AuditedLock(r)
  BY DEF LockProtocol, TrailInv
<1>2. QED
  BY <1>1 DEF Commit, LockedRow, AuditedLock

LEMMA NextEveryVersionAudited ==
  IInv /\ [Next]_vars => EveryVersionAudited'
<1> SUFFICES ASSUME IInv, [Next]_vars, IsAuditEnabled,
                    NEW r \in Rows, NEW v \in 1 .. (table'[r].version - 1)
             PROVE  \E p \in Requests :
                      [row |-> r, version |-> v, by |-> p] \in audit'
  BY DEF EveryVersionAudited
<1>1. v \in 1 .. (table[r].version - 1)
        => \E p \in Requests : [row |-> r, version |-> v, by |-> p] \in audit
  BY DEF IInv, EveryVersionAudited
<1>2. CASE UNCHANGED <<table, audit>>
  BY <1>1, <1>2
<1>3. ASSUME NEW q \in Requests, Commit(q)
      PROVE \E p \in Requests : [row |-> r, version |-> v, by |-> p] \in audit'
  <2>1. audit' = audit \cup trail[q]
    BY <1>3 DEF Commit
  <2>2. CASE lock[r] # q
    BY <1>1, <1>3, <2>1, <2>2, CommitEffect
  <2>3. CASE lock[r] = q
    <3>1. table[r].version \in Nat
      BY DEF IInv, TypeOK, RowState
    <3>2. table'[r].version = table[r].version + 1
      <4>1. table'[r].version # 0
        <5>1. ASSUME table'[r].version = 0 PROVE v \in 1 .. (0 - 1)
          BY <5>1
        <5>2. QED BY <5>1
      <4>2. QED BY <1>3, <2>3, <4>1, CommitEffect
    <3>3. CASE v = table[r].version
      BY <1>3, <2>1, <2>3, <3>1, <3>2, <3>3, CommitEffect
    <3>4. CASE v # table[r].version
      BY <1>1, <2>1, <3>1, <3>2, <3>4
    <3>5. QED BY <3>3, <3>4
  <2>4. QED BY <2>2, <2>3
<1>4. QED BY <1>2, <1>3, OnlyCommitChangesRows DEF IInv

LEMMA InitIInv == Init => IInv
<1> SUFFICES ASSUME Init PROVE IInv
  OBVIOUS
<1>1. TypeOK
  BY InitTypeOK
<1>2. HandlerInv
  BY <1>1, PlanType DEF Init, HandlerInv, HandlerAt
<1>3. FreshInv
  BY <1>1, PlanType DEF Init, FreshInv, FreshRow
<1>4. LockProtocol /\ TrailInv
  BY DEF Init, LockProtocol, LockedRow, TrailInv, AuditedLock
<1>5. AuthorInv
  BY DEF Init, AuthorInv
<1>6. EveryVersionAudited
  <2>1. \A r \in Rows : table[r].version \in {0, 1}
    BY DEF Init
  <2>2. \A r \in Rows : 1 .. (table[r].version - 1) = {}
    BY <2>1
  <2>3. QED BY <2>2 DEF EveryVersionAudited
<1>7. QED
  BY <1>1, <1>2, <1>3, <1>4, <1>5, <1>6 DEF IInv

LEMMA Invariance == Spec => []IInv
<1>1. IInv /\ [Next]_vars => IInv'
  BY NextTypeOK, NextHandlerInv, NextFreshInv, NextLockProtocol, NextAuthorInv,
     NextTrailInv, NextEveryVersionAudited DEF IInv
<1>2. QED BY InitIInv, <1>1, PTL DEF Spec

-----------------------------------------------------------------------------
(* While a transaction holds a row nobody else moves it, and what it will
   commit is the version that follows. *)
THEOREM LocksProtectRows == Spec => []LockProtocol
<1>1. IInv => LockProtocol
  BY DEF IInv
<1>2. QED BY <1>1, Invariance, PTL

(* Every version a stored row went through is in the audit table. *)
THEOREM VersionsAreAudited == Spec => []EveryVersionAudited
<1>1. IInv => EveryVersionAudited
  BY DEF IInv
<1>2. QED BY <1>1, Invariance, PTL

(* A request answered with an error has committed nothing. *)
THEOREM FailuresLeaveNoTrace == Spec => []FailureLeavesNoTrace
<1>1. ASSUME IInv, NEW q \in Requests, reply[q] = "error"
      PROVE  /\ \A r \in Rows : table[r].by # q
             /\ \A x \in audit : x.by # q
  BY <1>1, ConstantsAssumption DEF IInv, AuthorInv
<1>2. IInv => FailureLeavesNoTrace
  BY <1>1 DEF FailureLeavesNoTrace
<1>3. QED BY <1>2, Invariance, PTL

(* No committed update was made from another version than the one it replaces. *)
THEOREM NoUpdateIsLost == Spec => NoLostUpdate
<1>1. ASSUME IInv, [Next]_vars
      PROVE  [\A r \in Rows :
                table'[r] # table[r] /\ table'[r].version # 0
                  => /\ table'[r].version = table[r].version + 1
                     /\ base[table'[r].by][r] = table[r].version]_vars
  <2>1. CASE UNCHANGED <<table, audit>>
    BY <2>1
  <2>2. ASSUME NEW q \in Requests, Commit(q)
        PROVE \A r \in Rows :
                table'[r] # table[r] /\ table'[r].version # 0
                  => /\ table'[r].version = table[r].version + 1
                     /\ base[table'[r].by][r] = table[r].version
    BY <1>1, <2>2, CommitEffect
  <2>3. QED BY <1>1, <2>1, <2>2, OnlyCommitChangesRows DEF IInv
<1>2. QED BY <1>1, Invariance, PTL DEF Spec, NoLostUpdate

(* The server implements the table of whole, versioned, audited requests. *)
THEOREM Implementation == Spec => ImplementsVersionedRows
<1>1. Init => Promise!Init
  <2> SUFFICES ASSUME Init PROVE Promise!Init
    OBVIOUS
  <2>1. table \in [Rows -> [version : {0, 1}, by : {Nobody}]]
    BY DEF Init
  <2>2. QED BY <2>1 DEF Init, Promise!Init
<1>2. ASSUME IInv, IInv', [Next]_vars PROVE [Promise!Next]_(Promise!vars)
  <2>1. CASE UNCHANGED <<table, audit>>
    BY <2>1 DEF Promise!vars
  <2>2. ASSUME NEW q \in Requests, Commit(q) PROVE Promise!Next
    <3> DEFINE S == {r \in Rows : lock[r] = q}
               A == audit' \ audit
    <3>1. audit' = audit \cup trail[q]
      BY <2>2 DEF Commit
    <3>2. trail[q] \cap audit = {}
      <4>1. reply[q] # "ok"
        BY <1>2, <2>2 DEF Commit, IInv, HandlerInv, HandlerAt
      <4>2. QED BY <1>2, <4>1 DEF IInv, AuthorInv
    <3>3. A = trail[q]
      BY <3>1, <3>2
    <3>4. A \subseteq [row : Rows, version : Nat, by : {q}]
      BY <1>2, <3>3 DEF IInv, TypeOK, AuthorInv, AuditRecord
    <3>5. table' \in [Rows -> Promise!RowState]
      BY <1>2 DEF IInv, TypeOK, RowState, Promise!RowState
    <3>6. \A r \in Rows \ S : table'[r] = table[r]
      BY <1>2, <2>2, CommitEffect
    <3>7. \A r \in S : /\ table'[r].by = q
                      /\ table'[r].version \in {0, table[r].version + 1}
      BY <1>2, <2>2, CommitEffect
    <3>8. \A r \in S : table'[r].version \in Nat
      BY <1>2 DEF IInv, TypeOK, RowState
    <3>9. ASSUME NEW r \in S
          PROVE  \/ ~IsAuditEnabled
                 \/ table'[r].version < 2
                 \/ [row |-> r, version |-> table[r].version, by |-> q] \in A
      BY <1>2, <2>2, <3>3, <3>8, CommitEffect
    <3>10. Promise!Apply(q, S, A)
      BY <3>1, <3>4, <3>5, <3>6, <3>7, <3>9 DEF Promise!Apply
    <3>11. S \in SUBSET Rows
      OBVIOUS
    <3>12. QED BY <3>10, <3>11 DEF Promise!Next
  <2>3. QED BY <1>2, <2>1, <2>2, OnlyCommitChangesRows DEF IInv
<1>3. QED
  BY <1>1, <1>2, Invariance, PTL DEF Spec, Promise!Spec, ImplementsVersionedRows
=============================================================================
