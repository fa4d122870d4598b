------------------------- MODULE MCRowTransactions -------------------------
(* Three requests on three rows: any mix of plain PATCHes, PATCHes that rewrite
   each other's row (they deadlock), DELETEs of a row under update and a POST. *)
EXTENDS RowTransactions

CONSTANTS a, b, n

MCPlans ==
  {[op |-> "patch", row |-> a, related |-> NoRow, changes |-> TRUE],
   [op |-> "patch", row |-> a, related |-> b, changes |-> TRUE],
   [op |-> "patch", row |-> b, related |-> a, changes |-> TRUE],
   [op |-> "patch", row |-> b, related |-> n, changes |-> FALSE],
   [op |-> "delete", row |-> a, related |-> NoRow, changes |-> TRUE],
   [op |-> "post", row |-> n, related |-> NoRow, changes |-> TRUE]}
=============================================================================
