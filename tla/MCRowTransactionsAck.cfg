SPECIFICATION Spec
CONSTANTS
  a = a
  b = b
  n = n
  Rows = {a, b, n}
  NoRow = NoRow
  Requests = {q1, q2}
  Nobody = Nobody
  Plans <- MCPlans
  IsAuditEnabled = TRUE
PROPERTIES AcknowledgedUpdateIsStored
CHECK_DEADLOCK FALSE
