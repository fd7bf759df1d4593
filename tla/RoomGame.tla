------------------------------ MODULE RoomGame ------------------------------
(***************************************************************************)
(* The rules of one room: cloudflare/game.ts, every branch of applyAction  *)
(* and joinRoom, on the stored RoomState.  Each handler loads the room,    *)
(* changes it and saves it without a wait in between (worker.ts), and a    *)
(* branch that throws saves nothing, so a request is one step or none.     *)
(* Requests are prepared from views the client may have held for long, and *)
(* may be sent again: the ids and generations they name are those of any   *)
(* earlier state.  Names, wording and clamps of the inputs are left out.   *)
(***************************************************************************)
EXTENDS TopicDeck

CONSTANTS
  Tokens,                \* the browsers that talk to the room
  Creator,               \* the one that created it
  PlayerIds,             \* bound: the ids of players, 1 .. n
  MaxPlayers,            \* MAX_PLAYERS
  MaxTurnId,             \* MAX_TURN_ID_NUMBER
  CompletionBonus,       \* COMPLETION_BONUS
  ObservationTolerance,  \* REMOTE_CLAIM_OBSERVATION_TOLERANCE_SECONDS
  CompletionGrace,       \* REMOTE_COMPLETION_GRACE_SECONDS
  HistoryCapacity,       \* the games kept in room.history
  RoundChoices, DurationChoices,   \* inputs of settings
  Claims, Deltas,        \* inputs of submit-turn and score
  StoredCounters,        \* nextTurn of rooms stored by earlier versions
  MaxGeneration,         \* bound: topic generations
  MaxCorrections         \* bound: score corrections

NoPlayer == 0
NotBegun == -1
NoTurn == [id |-> 0, player |-> NoPlayer, round |-> 0, duration |-> 0, elapsed |-> NotBegun]

ASSUME GameAssumption ==
  /\ Creator \in Tokens
  /\ PlayerIds \subseteq Nat \ {NoPlayer} /\ {1, 2} \subseteq PlayerIds
  /\ MaxPlayers \in Nat /\ MaxPlayers >= 2
  /\ MaxTurnId \in Nat /\ MaxTurnId >= 2
  /\ CompletionBonus \in Nat \ {0}
  /\ ObservationTolerance \in Nat /\ CompletionGrace \in Nat
  /\ ObservationTolerance <= CompletionGrace
  /\ HistoryCapacity \in Nat \ {0}
  /\ RoundChoices \subseteq Nat \ {0} /\ 1 \in RoundChoices
  /\ DurationChoices \subseteq Nat \ {0} /\ DurationChoices # {}
  /\ Claims \subseteq Nat /\ Deltas \subseteq Int
  /\ StoredCounters \subseteq 1 .. MaxTurnId + 1
  /\ MaxGeneration \in Nat /\ MaxCorrections \in Nat

VARIABLES
  host,            \* room.hostToken
  members,         \* room.members: the player of a token, or NoPlayer
  players,         \* room.players: the ids in seating order
  score,           \* the score of each player, 0 of an unseated one
  nextPlayer,      \* room.nextPlayer
  nextTurn,        \* room.nextTurn; MaxTurnId + 1 when ids are exhausted
  rounds,          \* room.settings.rounds
  duration,        \* room.settings.duration
  phase,           \* room.phase
  currentPlayer,   \* room.currentPlayer, counted from 1
  currentRound,    \* room.currentRound
  activeTurn,      \* room.activeTurn, begunAt as the seconds gone since
  completedTurns,  \* room.completedTurns
  archived,        \* the length of room.history
  lastIssued,      \* history: the greatest turn id ever given out
  asked,           \* history: afterTurnId of the turns of this game
  witnessed,       \* history: was the last submit remote, and the seconds seen
  corrections,     \* history: net effect of score corrections, by player
  corrected,       \* history: corrections made in all
  finished         \* history: games that have been played to the end

seatVars == <<host, members, players, nextPlayer>>
settingVars == <<rounds, duration>>
turnVars == <<phase, currentPlayer, currentRound, activeTurn, completedTurns,
              nextTurn, lastIssued, asked, witnessed, finished>>
scoreVars == <<score, corrections, corrected, archived>>
vars == <<topicVars, seatVars, settingVars, turnVars, scoreVars>>

Turn == [id : Nat, player : PlayerIds, round : Nat, duration : DurationChoices,
         elapsed : {NotBegun} \cup Nat]
ScoredTurn == [id : Nat, player : PlayerIds, round : Nat, duration : DurationChoices,
               spoken : Nat, completed : BOOLEAN, score : Nat]
NoWitness == [remote |-> FALSE, elapsed |-> NotBegun]

Seated == {players[i] : i \in DOMAIN players}

SeatsTypeOK ==
  /\ host \in Tokens
  /\ members \in [Tokens -> PlayerIds \cup {NoPlayer}]
  /\ players \in Seq(PlayerIds)
  /\ Len(players) <= MaxPlayers
  /\ nextPlayer \in Nat \ {0}
  /\ rounds \in RoundChoices /\ duration \in DurationChoices

TurnsTypeOK ==
  /\ phase \in {"setup", "playing", "finished"}
  /\ currentPlayer \in Nat \ {0} /\ currentRound \in Nat \ {0}
  /\ activeTurn \in Turn \cup {NoTurn}
  /\ completedTurns \in Seq(ScoredTurn)
  /\ nextTurn \in 1 .. MaxTurnId + 1
  /\ lastIssued \in 0 .. MaxTurnId
  /\ asked \in Seq(0 .. MaxTurnId)
  /\ witnessed \in [remote : BOOLEAN, elapsed : {NotBegun} \cup Nat]
  /\ finished \in Nat

ScoresTypeOK ==
  /\ score \in [PlayerIds -> Nat]
  /\ corrections \in [PlayerIds -> Int]
  /\ corrected \in Nat
  /\ archived \in 0 .. HistoryCapacity

TypeOK == TopicsTypeOK /\ SeatsTypeOK /\ TurnsTypeOK /\ ScoresTypeOK

-----------------------------------------------------------------------------
(* Seats: all of it only before a game                                     *)

IsHost(token) == host = token
InSetup == phase = "setup"

\* addPlayer: the next id takes the last seat, for one device or for none.
NewSeat(devices) ==
  /\ Len(players) < MaxPlayers
  /\ nextPlayer \in PlayerIds
  /\ players' = Append(players, nextPlayer)
  /\ members' = [token \in Tokens |-> IF token \in devices THEN nextPlayer ELSE members[token]]
  /\ nextPlayer' = nextPlayer + 1
  /\ UNCHANGED <<host, topicVars, settingVars, turnVars, scoreVars>>

\* joinRoom: a new member takes a seat.  For a member, and for a host without
\* a name, it changes nothing.
JoinRoom(token) ==
  /\ members[token] = NoPlayer
  /\ InSetup
  /\ NewSeat({token})

\* add-player: a seat for somebody without a device of their own.
AddPlayer(token) ==
  /\ IsHost(token) /\ InSetup
  /\ NewSeat({})

MovePlayer(token, id, offset) ==
  /\ IsHost(token) /\ InSetup
  /\ \E from \in DOMAIN players :
       /\ players[from] = id
       /\ from + offset \in DOMAIN players
       /\ players' = [players EXCEPT ![from] = players[from + offset],
                                     ![from + offset] = id]
  /\ UNCHANGED <<host, members, nextPlayer, topicVars, settingVars, turnVars, scoreVars>>

\* removePlayer: the seat, and the membership of every device in it.
RemoveSeat(id) ==
  /\ \E from \in DOMAIN players :
       /\ players[from] = id
       /\ players' = [seat \in 1 .. Len(players) - 1 |->
                        IF seat < from THEN players[seat] ELSE players[seat + 1]]
  /\ members' = [token \in Tokens |-> IF members[token] = id THEN NoPlayer ELSE members[token]]
  /\ score' = [score EXCEPT ![id] = 0]
  /\ corrections' = [corrections EXCEPT ![id] = 0]
  /\ UNCHANGED <<host, nextPlayer, corrected, archived, topicVars, settingVars, turnVars>>

RemovePlayer(token, id) ==
  /\ IsHost(token) /\ InSetup
  /\ RemoveSeat(id)

Leave(token) ==
  /\ members[token] # NoPlayer
  /\ InSetup
  /\ RemoveSeat(members[token])

\* transfer-host and claim-host; RoomPresence says when they are accepted.
TransferHost(token, target) ==
  /\ IsHost(token)
  /\ members[target] # NoPlayer
  /\ host' = target
  /\ UNCHANGED <<members, players, nextPlayer, topicVars, settingVars, turnVars, scoreVars>>

ClaimHost(token) ==
  /\ members[token] # NoPlayer
  /\ host' = token
  /\ UNCHANGED <<members, players, nextPlayer, topicVars, settingVars, turnVars, scoreVars>>

-----------------------------------------------------------------------------
(* Settings and topics                                                     *)

\* Slip: settings can be changed while a game runs.
ChangeSettings_AnyTime(token, newRounds, newDuration, pack) ==
  /\ IsHost(token)
  /\ rounds' = newRounds /\ duration' = newDuration
  /\ IF pack = <<>> THEN UNCHANGED topicVars
     ELSE /\ topicGeneration < MaxGeneration
          /\ ReplaceTopics(pack)
          /\ UNCHANGED lastTopicIndex
  /\ UNCHANGED <<seatVars, turnVars, scoreVars>>

\* settings; pack is <<>> when the request names none.
ChangeSettings(token, newRounds, newDuration, pack) ==
  /\ IsHost(token) /\ InSetup
  /\ rounds' = newRounds /\ duration' = newDuration
  /\ IF pack = <<>> THEN UNCHANGED topicVars
     ELSE /\ topicGeneration < MaxGeneration
          /\ ReplaceTopics(pack)
          /\ UNCHANGED lastTopicIndex
  /\ UNCHANGED <<seatVars, turnVars, scoreVars>>

\* apply-setup-kit, which alone forgets the last index.
ApplySetupKit(token, newRounds, newDuration, list) ==
  /\ IsHost(token) /\ InSetup
  /\ topicGeneration < MaxGeneration
  /\ rounds' = newRounds /\ duration' = newDuration
  /\ ReplaceTopics(list)
  /\ lastTopicIndex' = NoIndex
  /\ UNCHANGED <<seatVars, turnVars, scoreVars>>

\* Slip: only a number that was never handed out is refused.
DraftIsCurrent_Reserved(draft) == draft <= topicGeneration
\* custom-topics: does the request carry the current generation, or none?
DraftIsCurrent(draft) == draft \in {0, topicGeneration}

CustomTopics(token, list, draft) ==
  /\ IsHost(token) /\ InSetup
  /\ DraftIsCurrent(draft)
  /\ topicGeneration < MaxGeneration
  /\ ReplaceTopics(list)
  /\ UNCHANGED lastTopicIndex
  /\ UNCHANGED <<seatVars, settingVars, turnVars, scoreVars>>

BeginTopicGeneration(token) ==
  /\ IsHost(token) /\ InSetup
  /\ topicGeneration < MaxGeneration
  /\ ReserveDraft
  /\ UNCHANGED <<seatVars, settingVars, turnVars, scoreVars>>

-----------------------------------------------------------------------------
(* Turn ids                                                                *)

UsedIds == {activeTurn.id} \cup {completedTurns[i].id : i \in DOMAIN completedTurns}
MaxUsedId == CHOOSE id \in UsedIds : \A other \in UsedIds : other <= id

\* Slip: only the stored counter is looked at.
RepairedNextTurn_Unrepaired == nextTurn
\* repairNextTurn: its guard, and the counter it leaves.
TurnIdsLeft == nextTurn <= MaxTurnId /\ MaxUsedId < MaxTurnId
RepairedNextTurn == IF nextTurn > MaxUsedId THEN nextTurn ELSE MaxUsedId + 1

\* nextTurnId, after repairNextTurn.
TakeTurnId ==
  /\ nextTurn' = RepairedNextTurn + 1
  /\ lastIssued' = IF RepairedNextTurn > lastIssued THEN RepairedNextTurn ELSE lastIssued

-----------------------------------------------------------------------------
(* The course of a game                                                    *)

\* archiveFinishedGame
ArchiveFinishedGame ==
  archived' = IF phase = "finished" /\ completedTurns # <<>>
                THEN IF archived < HistoryCapacity THEN archived + 1 ELSE archived
                ELSE archived

\* Slip: scores are carried into the next game.
ClearTable_KeepsScores ==
  /\ TurnIdsLeft
  /\ nextTurn' = RepairedNextTurn
  /\ ArchiveFinishedGame
  /\ currentPlayer' = 1 /\ currentRound' = 1
  /\ activeTurn' = NoTurn
  /\ completedTurns' = <<>>
  /\ asked' = <<>>
  /\ witnessed' = NoWitness
  /\ UNCHANGED <<topics, lastTopicIndex, previous, draftVars>>
  /\ ResetDeck
  /\ score' = score
  /\ corrections' = [id \in PlayerIds |-> 0]
  /\ UNCHANGED <<seatVars, settingVars, lastIssued, corrected, finished>>
\* What start-game and reset have in common: repair the counter before the
\* turns that show the ids in use are cleared, then clear the table.
ClearTable ==
  /\ TurnIdsLeft
  /\ nextTurn' = RepairedNextTurn
  /\ ArchiveFinishedGame
  /\ currentPlayer' = 1 /\ currentRound' = 1
  /\ activeTurn' = NoTurn
  /\ completedTurns' = <<>>
  /\ asked' = <<>>
  /\ witnessed' = NoWitness
  /\ UNCHANGED <<topics, lastTopicIndex, previous, draftVars>>
  /\ ResetDeck
  /\ score' = [id \in PlayerIds |-> 0]
  /\ corrections' = [id \in PlayerIds |-> 0]
  /\ UNCHANGED <<seatVars, settingVars, lastIssued, corrected, finished>>

\* start-game: while a game runs it changes nothing.
StartGame(token) ==
  /\ IsHost(token) /\ InSetup
  /\ Len(players) >= 2
  /\ ClearTable
  /\ phase' = "playing"

ResetGame(token) ==
  /\ IsHost(token)
  /\ phase # "playing"
  /\ ClearTable
  /\ phase' = "setup"

MayDrive(token, player) == IsHost(token) \/ members[token] = player
LastTurnId == IF completedTurns = <<>> THEN 0 ELSE completedTurns[Len(completedTurns)].id

FollowsLastTurn(after) == after = LastTurnId

\* start-turn, on a view whose last completed turn was after (0: none); while
\* a turn is active it changes nothing.
StartTurn(token, after) ==
  /\ phase = "playing"
  /\ FollowsLastTurn(after)
  /\ currentPlayer \in DOMAIN players
  /\ MayDrive(token, players[currentPlayer])
  /\ activeTurn = NoTurn
  /\ TurnIdsLeft
  /\ DrawTopic
  /\ TakeTurnId
  /\ activeTurn' = [id |-> RepairedNextTurn, player |-> players[currentPlayer],
                    round |-> currentRound, duration |-> duration, elapsed |-> NotBegun]
  /\ asked' = Append(asked, after)
  /\ witnessed' = NoWitness
  /\ UNCHANGED <<topics, draftVars, seatVars, settingVars, scoreVars, phase,
                 currentPlayer, currentRound, completedTurns, finished>>

\* requireTurn and requireTurnDriver
DrivesTurn(token, turnId) ==
  /\ phase = "playing"
  /\ activeTurn # NoTurn
  /\ activeTurn.id = turnId
  /\ MayDrive(token, activeTurn.player)

\* begin-turn: the first one starts the clock of the turn.
BeginTurn(token, turnId) ==
  /\ DrivesTurn(token, turnId)
  /\ activeTurn.elapsed = NotBegun
  /\ activeTurn' = [activeTurn EXCEPT !.elapsed = 0]
  /\ UNCHANGED <<topicVars, seatVars, settingVars, scoreVars, phase, currentPlayer,
                 currentRound, completedTurns, nextTurn, lastIssued, asked, witnessed, finished>>

\* redraw-turn: only before the clock runs; the turn gets a new id.
RedrawTurn(token, turnId) ==
  /\ DrivesTurn(token, turnId)
  /\ activeTurn.elapsed = NotBegun
  /\ TurnIdsLeft
  /\ DrawTopic
  /\ TakeTurnId
  /\ activeTurn' = [activeTurn EXCEPT !.id = RepairedNextTurn]
  /\ UNCHANGED <<topics, draftVars, seatVars, settingVars, scoreVars, phase,
                 currentPlayer, currentRound, completedTurns, asked, witnessed, finished>>

\* Slip: a turn that was never begun counts in full.
SpokenSeconds_Unbegun(remote, claim, completed) ==
  IF ~ remote \/ activeTurn.elapsed = NotBegun THEN claim
  ELSE IF completed /\ activeTurn.elapsed + CompletionGrace >= activeTurn.duration
         THEN activeTurn.duration
  ELSE IF claim < activeTurn.elapsed + ObservationTolerance THEN claim
  ELSE activeTurn.elapsed + ObservationTolerance
\* The seconds of a remote speaker: what the server saw since begin-turn.
SpokenSeconds(remote, claim, completed) ==
  IF ~ remote THEN claim
  ELSE IF activeTurn.elapsed = NotBegun THEN 0
  ELSE IF completed /\ activeTurn.elapsed + CompletionGrace >= activeTurn.duration
         THEN activeTurn.duration
  ELSE IF claim < activeTurn.elapsed + ObservationTolerance THEN claim
  ELSE activeTurn.elapsed + ObservationTolerance

\* advance
Advance ==
  LET wraps == currentPlayer >= Len(players) IN
  /\ currentPlayer' = IF wraps THEN 1 ELSE currentPlayer + 1
  /\ currentRound' = IF wraps THEN currentRound + 1 ELSE currentRound
  /\ phase' = IF currentRound' > rounds THEN "finished" ELSE phase
  /\ finished' = IF phase' = "finished" THEN finished + 1 ELSE finished

\* submit-turn: claim is already clamped to the duration, and requested is
\* "completed and not eliminated".
SubmitTurn(token, turnId, claim, requested) ==
  /\ DrivesTurn(token, turnId)
  /\ claim \in 0 .. activeTurn.duration
  /\ LET remote == ~ IsHost(token)
         spoken == SpokenSeconds(remote, claim, requested)
         completed == requested /\ spoken >= activeTurn.duration
         gained == spoken + (IF completed THEN CompletionBonus ELSE 0)
     IN  /\ completedTurns' = Append(completedTurns,
              [id |-> activeTurn.id, player |-> activeTurn.player,
               round |-> activeTurn.round, duration |-> activeTurn.duration,
               spoken |-> spoken, completed |-> completed, score |-> gained])
         /\ witnessed' = [remote |-> remote, elapsed |-> activeTurn.elapsed]
         /\ score' = [score EXCEPT ![activeTurn.player] = @ + gained]
  /\ activeTurn' = NoTurn
  /\ Advance
  /\ UNCHANGED <<topicVars, seatVars, settingVars, nextTurn, lastIssued, asked,
                 corrections, corrected, archived>>

\* score: a correction by the host, at any time, never below zero.
CorrectScore(token, id, delta) ==
  /\ IsHost(token)
  /\ id \in Seated
  /\ corrected < MaxCorrections
  /\ score' = [score EXCEPT ![id] = IF @ + delta > 0 THEN @ + delta ELSE 0]
  /\ corrections' = [corrections EXCEPT ![id] = @ + score'[id] - score[id]]
  /\ corrected' = corrected + 1
  /\ UNCHANGED <<archived, topicVars, seatVars, settingVars, turnVars>>

\* A second of speaking; beyond the duration more time makes no difference.
Tick ==
  /\ activeTurn.elapsed \in 0 .. activeTurn.duration - 1
  /\ activeTurn' = [activeTurn EXCEPT !.elapsed = @ + 1]
  /\ UNCHANGED <<topicVars, seatVars, settingVars, scoreVars, phase, currentPlayer,
                 currentRound, completedTurns, nextTurn, lastIssued, asked, witnessed, finished>>

-----------------------------------------------------------------------------
\* createRoomState: the host takes a seat if it gave a name.
NewRoom ==
  /\ host = Creator
  /\ \/ /\ players = <<>> /\ nextPlayer = 1
        /\ members = [token \in Tokens |-> NoPlayer]
     \/ /\ players = <<1>> /\ nextPlayer = 2
        /\ members = [token \in Tokens |-> IF token = Creator THEN 1 ELSE NoPlayer]
  /\ nextTurn = 1
  /\ phase = "setup"
  /\ completedTurns = <<>> /\ lastIssued = 0 /\ asked = <<>> /\ finished = 0

\* A room stored by an earlier version: a finished game of two, and a counter
\* that may lag behind the ids in use.
StoredRoom ==
  /\ host = Creator
  /\ players = <<1, 2>> /\ nextPlayer = 3
  /\ members = [token \in Tokens |-> IF token = Creator THEN 1 ELSE NoPlayer]
  /\ nextTurn \in StoredCounters
  /\ phase = "finished"
  /\ completedTurns = [id \in 1 .. 2 |->
       [id |-> id, player |-> id, round |-> 1, duration |-> duration,
        spoken |-> 0, completed |-> FALSE, score |-> 0]]
  /\ lastIssued = 2 /\ asked = <<0, 1>> /\ finished = 1

Init ==
  /\ TopicsInit
  /\ rounds = 1
  /\ duration \in DurationChoices
  /\ NewRoom \/ StoredRoom
  /\ currentPlayer = 1
  /\ currentRound = IF phase = "finished" THEN 2 ELSE 1
  /\ activeTurn = NoTurn
  /\ score = [id \in PlayerIds |-> 0]
  /\ corrections = [id \in PlayerIds |-> 0] /\ corrected = 0
  /\ archived = 0
  /\ witnessed = NoWitness

Next ==
  \/ \E token \in Tokens :
       \/ JoinRoom(token) \/ AddPlayer(token) \/ Leave(token)
       \/ \E id \in PlayerIds :
            \/ \E offset \in {-1, 1} : MovePlayer(token, id, offset)
            \/ RemovePlayer(token, id)
            \/ \E delta \in Deltas : CorrectScore(token, id, delta)
       \/ \E target \in Tokens : TransferHost(token, target)
       \/ ClaimHost(token)
       \/ \E newRounds \in RoundChoices, newDuration \in DurationChoices :
            \/ \E pack \in TopicLists \cup {<<>>} :
                 ChangeSettings(token, newRounds, newDuration, pack)
            \/ \E list \in TopicLists : ApplySetupKit(token, newRounds, newDuration, list)
       \/ \E list \in TopicLists, draft \in drafts \cup {0} : CustomTopics(token, list, draft)
       \/ BeginTopicGeneration(token)
       \/ StartGame(token) \/ ResetGame(token)
       \/ \E turnId \in 0 .. lastIssued :
            \/ StartTurn(token, turnId)
            \/ BeginTurn(token, turnId)
            \/ RedrawTurn(token, turnId)
            \/ \E claim \in Claims, requested \in BOOLEAN :
                 SubmitTurn(token, turnId, claim, requested)
  \/ Tick

Spec == Init /\ [][Next]_vars

=============================================================================
