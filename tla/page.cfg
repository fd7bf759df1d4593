\* Two attempts on changing pages, a loop and its history, a database from version 2.
SPECIFICATION Spec
CONSTANTS
  Retention = 2
  Limit = 2
  MaxAttempts = 2
  Scopes <- AllScopes
  Sizes <- Bytes
  OldDbs <- SomeOldDbs
CHECK_DEADLOCK FALSE
INVARIANTS NothingUnasked LoopsAreTold
PROPERTIES StoreIsInOrder AttemptsEnd
