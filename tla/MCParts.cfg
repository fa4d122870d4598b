SPECIFICATION Spec
CONSTANTS
  r1 = r1
  r2 = r2
  Requests = {r1, r2}
  Lookups <- MCLookups
  Ticks <- MCTicks
  OpenFor = 1
  MaxVersions = 2
  alice = alice
  guest = guest
  admins = admins
  team = team
  d1 = d1
  d2 = d2
  Ids = {alice, guest, admins, team, d1, d2}
  References = {d1, d2}
  Guest = guest
  AdminGroup = admins
  Operations <- MCOperations
  Sessions <- MCSessions
  TablePermissions <- MCTables
  RowPermissions <- MCRows
  RowLists <- MCRowLists
  Contents <- MCContents
  Queries <- MCQueries
  Hidden = {d2}
  OtherTotals = {1}
  MaxWrites = 1
  Errands <- MCErrands
  Stocks <- MCStocks
  LongNames = {"b"}
  MaxMeddling = 1
INVARIANTS
  PartsTypeOK AnswerWithinWindow AnswerIsFiltered
    AggregateAgrees
  ExportIsWhole ImportRestores
   
  PanicsAreKnown NothingDependsOnSkipped EveryOutcomeIsPerformed DataFitsTables
PROPERTIES ChangeTakesEffect PerformersAnswer
CHECK_DEADLOCK FALSE
