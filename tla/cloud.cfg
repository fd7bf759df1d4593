\* Two requests of one browser, cleanups and migrations, with a failing database call.
SPECIFICATION Spec
CONSTANTS
  Devices = {browser}
  Sessions <- Three
  Contents = {one, other}
  MaxActive = 2
  Retention = 2
  FactRetention = 2
  Day = 2
  BatchSize = 1
  Flows = {f1, f2}
  Crons = {c1, c2}
  PageSize = 1
  CronTick = 1
  MaxBatches = 2
  StaleAfter = 1
  MaxTime = 3
  MigrationTime = 1
  RequestTime = 1
  MaxFaults = 1
  MaxAsks = 2
  OldSummaries <- AllButNewest
SYMMETRY Interchangeable
CHECK_DEADLOCK FALSE
INVARIANTS StoreIsLawful OperatorIsTold ListIsComplete
PROPERTIES SavedIsStored NothingEndsEarly
