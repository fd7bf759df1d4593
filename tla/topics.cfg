\* Two requests of two browsers over midnight, one call a day, one fault.
SPECIFICATION Spec
CONSTANTS
  Browsers = {ann, bob}
  Flows = {f1, f2}
  DailyLimit = 1
  Tokens = {1}
  MaxDay = 2
  MaxAsks = 2
  MaxEdits = 1
  MaxFaults = 1
CHECK_DEADLOCK FALSE
INVARIANTS BudgetIsKept
PROPERTIES HostDecides EveryRequestEnds
