\* Two lifetimes of a room, with late requests, evictions, idle expiry and deleted receipts.
SPECIFICATION Spec
CONSTANTS
  Capacity = 2
  DeadLetterCapacity = 1
  PurgeBatch = 1
  OutboxDeadline = 3
  DeadLetterRetention = 2
  MaxAttempts = 2
  RetryDelays <- GrowingDelay
  DropCountMax = 1
  ReceiptRetention = 5
  RoomIdleTTL = 14
  AlarmMinDelay = 1
  Watchdog = 2
  DeleteRetry = 1
  FactKeyConfigured = TRUE
  MaxFlight = 2
  AlarmLag = 1
  CorruptRows <- NoEvents
  ForeignReceipts <- NoEvents
  SaveKinds <- AllSaves
  MaxEvents = 3
  MaxLifetimes = 2
  MaxCrashes = 1
  WriteTimes <- BothLives
  MaxClock = 19
INVARIANTS QueueIsSteady FactIsLatestApplied AlarmCoversWork
PROPERTIES ImplementsDelivery
\* The clock has a horizon, where every behaviour ends.
CHECK_DEADLOCK FALSE
