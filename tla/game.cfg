\* Seats, rounds, late requests, claims, decks, drafts and corrections, over several games.
SPECIFICATION Spec
CONSTANTS
  TopicLists <- TwoLists
  DefaultTopics <- TeaRain
  Tokens = {creator, guest}
  Creator = creator
  PlayerIds <- TwoPlayers
  MaxPlayers = 2
  MaxTurnId = 4
  CompletionBonus = 5
  ObservationTolerance = 1
  CompletionGrace = 1
  HistoryCapacity = 1
  RoundChoices = {1, 2}
  DurationChoices = {2}
  Claims = {2}
  Deltas <- OneDelta
  StoredCounters <- LaggingCounter
  MaxGeneration = 3
  MaxCorrections = 1
CONSTRAINT EditsOrTurns
INVARIANTS TurnsAreFair RecordsAreTrue ScoresAddUp
PROPERTIES TurnIdsAreFresh DeckIsLawful
\* A room whose turn ids are exhausted accepts no further turn.
CHECK_DEADLOCK FALSE
