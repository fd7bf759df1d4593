\* A driver's page with late microphones, failing requests, other tabs and devices.
SPECIFICATION Spec
CONSTANTS
  MaxTurns = 2
  MaxCalls = 2
  Devices = {"desk", "head"}
  Scopes <- AllScopes
INVARIANTS MicrophoneIsRight
PROPERTIES PageKeepsUp
\* The room and the browser may come to rest.
CHECK_DEADLOCK FALSE
