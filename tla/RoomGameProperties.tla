------------------------- MODULE RoomGameProperties -------------------------
(***************************************************************************)
(* What the players of a room may rely on, whichever requests are late,    *)
(* repeated or prepared from an old view, and whoever is host.             *)
(***************************************************************************)
EXTENDS RoomGame, RunningTotals, SequencesExt

(* Every device sits on a seat that exists, and no seat is there twice:    *)
(* removing, leaving and joining again never leave a device with the id of *)
(* a player who is gone or who is somebody else (removePlayer, addPlayer). *)
SeatsAreKept ==
  /\ \A token \in Tokens : members[token] \in Seated \cup {NoPlayer}
  /\ IsInjective(players)

\* The seat and the round after a turn.
FollowsInOrder(turn, player, round) ==
  \E seat \in DOMAIN players :
    /\ players[seat] = turn.player
    /\ IF seat = Len(players)
         THEN player = players[1] /\ round = turn.round + 1
         ELSE player = players[seat + 1] /\ round = turn.round

(* The turns of a running game go round the table in seating order, one    *)
(* each per round, and the seat that is due now is the next one: no late   *)
(* or repeated request skips a player, adds a turn or moves a round        *)
(* (start-turn, submit-turn, advance).                                     *)
TurnOrder ==
  phase = "playing" =>
    LET due == players[currentPlayer]
        turns == Len(completedTurns)
    IN  /\ currentPlayer \in DOMAIN players
        /\ activeTurn # NoTurn => activeTurn.player = due /\ activeTurn.round = currentRound
        /\ IF turns = 0 THEN currentPlayer = 1 /\ currentRound = 1
           ELSE /\ completedTurns[1].player = players[1] /\ completedTurns[1].round = 1
                /\ \A k \in 1 .. turns - 1 :
                     FollowsInOrder(completedTurns[k], completedTurns[k + 1].player,
                                    completedTurns[k + 1].round)
                /\ FollowsInOrder(completedTurns[turns], due, currentRound)

(* When a game is finished every player has had as many turns as the       *)
(* settings say, although the game began under a host and a roster that    *)
(* may have changed their mind before (requireSetup in settings, leave).   *)
EveryoneSpokeAsOften ==
  phase = "finished" =>
    \A id \in PlayerIds :
      LET turns == {k \in DOMAIN completedTurns : completedTurns[k].player = id}
      IN  Cardinality(turns) = (IF id \in Seated THEN rounds ELSE 0)

(* One request to go on starts one turn of a game: a repeated or delayed   *)
(* start-turn never starts another (afterTurnId).                          *)
OneTurnPerRequest == IsInjective(asked)

(* Turns go round the table, a request to go on starts one of them, and in *)
(* the end nobody had more than another (start-turn, submit-turn).         *)
TurnsAreFair == TurnOrder /\ OneTurnPerRequest /\ EveryoneSpokeAsOften

(* A finished game enters the history once, when it is cleared away, and   *)
(* nothing else does (archiveFinishedGame, called by start-game and reset).*)
FinishedGamesArchived ==
  LET left == IF phase = "finished" THEN finished - 1 ELSE finished
  IN  archived = (IF left < HistoryCapacity THEN left ELSE HistoryCapacity)

(* A turn id is never used again in the life of the room: not by a redraw, *)
(* not in a later game whose predecessor's turns are cleared, not when the *)
(* stored counter lags behind or the ids are exhausted (repairNextTurn).   *)
(* A request about an old turn can therefore never hit a new one.          *)
TurnIdsAreFresh ==
  [][activeTurn'.id # activeTurn.id => activeTurn' = NoTurn \/ activeTurn'.id > lastIssued]_vars

\* What each turn on the table gave to a player.
Gains(id) ==
  [k \in DOMAIN completedTurns |->
     IF completedTurns[k].player = id THEN completedTurns[k].score ELSE 0]

(* The score of a player is what the turns on the table and the host's     *)
(* corrections add up to: no turn counts twice, for nobody or for another  *)
(* player, and nothing is carried into the next game (submit-turn).        *)
ScoresAddUp ==
  \A id \in PlayerIds : score[id] = corrections[id] + Total(Gains(id), Len(completedTurns))

(* A remote speaker is credited no more time than the server has seen pass *)
(* since the turn began, but for the grace of a completion, and a bonus    *)
(* only with the full duration: claiming, beginning, redrawing and handing *)
(* over the host role in any order yield no more (submit-turn).            *)
RemoteTimeIsWitnessed ==
  witnessed.remote =>
    LET turn == completedTurns[Len(completedTurns)]
        seconds == IF witnessed.elapsed = NotBegun THEN 0 ELSE witnessed.elapsed
        begun == IF witnessed.elapsed = NotBegun THEN 0 ELSE 1
    IN  /\ turn.spoken <= seconds + begun * CompletionGrace
        /\ turn.score > turn.spoken => turn.spoken = turn.duration

(* What the room keeps is true: who sits where, what was played and for    *)
(* how long a remote speaker spoke.                                        *)
RecordsAreTrue == SeatsAreKept /\ FinishedGamesArchived /\ RemoteTimeIsWitnessed

(* Every topic is drawn once before one is drawn again, by turns and       *)
(* redraws alike, and the seam between two decks, of one game or of two,   *)
(* repeats none (drawTopic, shuffleDeck, resetDeck).                       *)
TopicsRotate ==
  [][lastIssued' > lastIssued =>
       /\ topics[lastTopicIndex'] \notin seen
       /\ Len(topics) > 1 => topics[lastTopicIndex'] # previous]_vars

(* A generated draft replaces the topics only if nobody has edited them or *)
(* asked for another draft since its number was reserved, however late it  *)
(* arrives and however often it is sent (custom-topics).                   *)
DraftsAreCurrent ==
  [][\A token \in Tokens, list \in TopicLists, draft \in drafts :
       CustomTopics(token, list, draft) => draft \notin superseded]_vars

(* The deck is drawn from in rounds, and is the one its room wants now.    *)
DeckIsLawful == TopicsRotate /\ DraftsAreCurrent

=============================================================================
