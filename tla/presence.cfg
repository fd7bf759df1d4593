\* Three browsers, several sockets each, close events that come late; and two rooms under
\* one code with all their milestones while the mode of delivery changes.
SPECIFICATION RoutingSpec
CONSTANTS
  Tokens = {creator, guest, other}
  Creator = creator
  ClaimGrace = 2
  Bucket = 2
  MaxRoomSockets = 3
  MaxSocketsPerToken = 2
  MaxClosing = 2
  MaxClock = 4
  IdleTTL = 3
  MaxVersion = 3
  MaxLives = 2
  MaxEvents = 4
  Followed = {guest}
  Follow = {"sockets", "milestones"}
INVARIANTS HostIsKnown OnePlace
PROPERTIES HostKeepsItsGrace FactsFollowTheRoom
