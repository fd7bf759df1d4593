\* A game with verdicts, late pages, streams, hosts and restarts, one concern at a time.
SPECIFICATION Spec
CONSTANTS
  Tokens = {host, guest, other}
  Creator = host
  MaxSeat = 3
  MaxPlayers = 3
  MaxTurnID = 3
  Duration = 2
  CompletionBonus = 5
  CompletionGrace = 1
  Rounds = {1, 2}
  MaxSubscribers = 3
  MaxSubscribersPerToken = 2
  ClaimGrace = 1
  IdleTTL = 2
  Bonuses = {0, 3}
  Scopes <- AllScopes
INVARIANTS ScoresAddUp TurnsAreInOrder PresenceAgrees
PROPERTIES LateComersMiss VerdictsComeInTheEnd
\* A room expires, and an exhausted one stops.
CHECK_DEADLOCK FALSE
