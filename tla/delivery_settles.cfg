\* Writes that end: rows, receipts and requests of every kind are settled in time.
SPECIFICATION FairSpec
CONSTANTS
  Capacity = 2
  DeadLetterCapacity = 2
  PurgeBatch = 1
  OutboxDeadline = 3
  DeadLetterRetention = 3
  MaxAttempts = 2
  RetryDelays <- JitteredDelay
  DropCountMax = 1
  ReceiptRetention = 5
  RoomIdleTTL = 14
  AlarmMinDelay = 1
  Watchdog = 2
  DeleteRetry = 1
  FactKeyConfigured = TRUE
  MaxFlight = 1
  AlarmLag = 1
  CorruptRows <- SecondEvent
  ForeignReceipts <- ThirdEvent
  SaveKinds <- TouchingSaves
  MaxEvents = 3
  MaxLifetimes = 1
  MaxCrashes = 1
  WriteTimes <- FirstTicks
  MaxClock = 18
INVARIANTS DeadlinesHold
PROPERTIES QueuedEventSettles
\* The clock has a horizon, where every behaviour ends.
CHECK_DEADLOCK FALSE
