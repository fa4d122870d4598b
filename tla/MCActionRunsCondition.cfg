SPECIFICATION Spec
CONSTANTS
  Runs = {r1, r2}
  Plans <- MCPlans
  MaxOpenConns = 2
INVARIANT UnevaluatedIsFalse
CHECK_DEADLOCK FALSE
