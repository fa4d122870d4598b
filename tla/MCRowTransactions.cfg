SPECIFICATION FairSpec
CONSTANTS
  a = a
  b = b
  n = n
  Rows = {a, b, n}
  NoRow = NoRow
  Requests = {q1, q2}
  Nobody = Nobody
  Plans <- MCPlans
  IsAuditEnabled = TRUE
INVARIANTS TypeOK LockProtocol EveryVersionAudited FailureLeavesNoTrace
PROPERTIES NoLostUpdate ImplementsVersionedRows EveryRequestAnswered ChangeIsAnnounced
CHECK_DEADLOCK FALSE
