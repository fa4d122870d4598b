--------------------------- MODULE VersionedRows ---------------------------
(* What the JSON:API promises of the rows of a table, whatever happens inside
   a request: the table moves only by whole requests. One request replaces a
   set of rows in one step; every row it replaces goes to the version that
   follows the one it had (a new row starts at version 1), or is deleted; and
   the version an update replaces is in the audit table from the same step on.
   RowTransactions is the server that implements this. *)
EXTENDS Naturals

CONSTANTS Rows, Requests, Nobody, IsAuditEnabled

VARIABLES table,   \* committed rows: version (0: no such row), last writer
          audit    \* committed audit records

vars == <<table, audit>>

RowState == [version : Nat, by : Requests \cup {Nobody}]

AuditRecord == [row : Rows, version : Nat, by : Requests]

Init == /\ table \in [Rows -> [version : {0, 1}, by : {Nobody}]]
        /\ audit = {}

(* Request q replaces the rows S and adds the audit records A, all at once. *)
Apply(q, S, A) ==
  /\ \A r \in Rows \ S : table'[r] = table[r]
  /\ \A r \in S : /\ table'[r].by = q
                  /\ table'[r].version \in {0, table[r].version + 1}
  /\ \A r \in S : \/ ~IsAuditEnabled
                  \/ table'[r].version < 2
                  \/ [row |-> r, version |-> table[r].version, by |-> q] \in A
  /\ A \subseteq [row : Rows, version : Nat, by : {q}]
  /\ table' \in [Rows -> RowState]
  /\ audit' = audit \cup A

Next == \E q \in Requests, S \in SUBSET Rows :
          Apply(q, S, audit' \ audit)

Spec == Init /\ [][Next]_vars
=============================================================================
