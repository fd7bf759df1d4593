SPECIFICATION Spec
CONSTANTS
  Uploads <- ThreeUploads
  MaxDeployments = 3
  MaxIncidents = 1
  MaxRetries = 2
  MaxDocs = 4
  MaxPhases = 2
INVARIANTS PreparedRowIsPending VerifiedMeansDrained
\* The operator may start no further phase, and nobody else need act.
CHECK_DEADLOCK FALSE

