SPECIFICATION FairSpec
CONSTANTS
  Runs = {r1, r2}
  Plans <- MCPlans
  MaxOpenConns = 2
INVARIANTS TypeOK   SwitchIsObeyed FailuresAreNamed
 
CHECK_DEADLOCK FALSE
