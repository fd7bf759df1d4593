\* A play page of the Go edition with live updates, late microphones and lost requests.
SPECIFICATION Spec
CONSTANTS
  MaxTurns = 2
  MaxStreams = 3
  Scopes <- AllScopes
PROPERTIES ListensAsChosen RefreshesAreRight
\* The room and the browser may come to rest.
CHECK_DEADLOCK FALSE
