--------------------------- MODULE RoomGameProofs ---------------------------
(***************************************************************************)
(* The rules of a room, for any number of players, topics, rounds and      *)
(* turns: its state stays well formed, seats and turns stay in order, ids  *)
(* are never used again, stale drafts are refused and topics rotate.       *)
(***************************************************************************)
EXTENDS RoomGameProperties, SequenceTheorems, FiniteSetTheorems, TLAPS

-----------------------------------------------------------------------------
(* Topics and deck *)

(* The topics of a room are a non-empty list without repetition.           *)
LEMMA TopicsShape ==
  ASSUME TopicsTypeOK
  PROVE  /\ topics \in Seq(STRING \ {NoTopic})
         /\ Len(topics) \in Nat \ {0}
         /\ DOMAIN topics = 1 .. Len(topics)
         /\ \A i \in DOMAIN topics : topics[i] # NoTopic
         /\ \A i, j \in DOMAIN topics : topics[i] = topics[j] => i = j
<1>1. topics \in TopicLists /\ topics # <<>>
  BY TopicListAssumption DEF TopicsTypeOK
<1>2. topics \in Seq(STRING \ {NoTopic})
  BY <1>1, TopicListAssumption
<1>3. /\ Len(topics) \in Nat \ {0} /\ DOMAIN topics = 1 .. Len(topics)
      /\ topics \in [1 .. Len(topics) -> STRING \ {NoTopic}]
  BY <1>1, <1>2, EmptySeq, LenProperties
<1>4. QED
  BY <1>1, <1>2, <1>3, TopicListAssumption

(* An order is a sequence of its length.                                   *)
LEMMA OrderShape ==
  ASSUME NEW n \in Nat, NEW order \in Orders(n)
  PROVE  /\ order \in [1 .. n -> 1 .. n]
         /\ Len(order) = n
         /\ DOMAIN order = 1 .. n
         /\ \A i, j \in 1 .. n : order[i] = order[j] => i = j
<1>1. order \in [1 .. n -> 1 .. n] /\ \A i, j \in 1 .. n : order[i] = order[j] => i = j
  BY DEF Orders
<1>2. order \in Seq(1 .. n)
  BY <1>1
<1>3. DOMAIN order = 1 .. n /\ DOMAIN order = 1 .. Len(order) /\ Len(order) \in Nat
  BY <1>1, <1>2, LenProperties
<1>4. Len(order) = n
  BY <1>3
<1>5. QED
  BY <1>1, <1>3, <1>4

(* A shuffled deck is an order, and does not start with the last topic.    *)
LEMMA ShuffleIsOrder ==
  ASSUME NEW n \in Nat, NEW last, NEW order \in Shuffles(n, last)
  PROVE  order \in Orders(n) /\ (n > 1 => order[1] # last)
<1>1. PICK first \in Orders(n) :
        order \in IF n > 1 /\ first[1] = last
                    THEN {[first EXCEPT ![1] = first[k], ![k] = first[1]] : k \in 2 .. n}
                    ELSE {first}
  BY DEF Shuffles
<1>2. CASE ~ (n > 1 /\ first[1] = last)
  BY <1>1, <1>2
<1>3. CASE n > 1 /\ first[1] = last
  <2>1. PICK k \in 2 .. n : order = [first EXCEPT ![1] = first[k], ![k] = first[1]]
    BY <1>1, <1>3
  <2>2. first \in [1 .. n -> 1 .. n] /\ \A i, j \in 1 .. n : first[i] = first[j] => i = j
    BY DEF Orders
  <2>3. 1 \in 1 .. n /\ k \in 1 .. n /\ k # 1
    BY <1>3
  <2>4. \A i \in 1 .. n : order[i] = IF i = 1 THEN first[k] ELSE IF i = k THEN first[1] ELSE first[i]
    BY <2>1, <2>2, <2>3
  <2>5. order \in [1 .. n -> 1 .. n]
    BY <2>1, <2>2, <2>3
  <2>6. ASSUME NEW i \in 1 .. n, NEW j \in 1 .. n, order[i] = order[j] PROVE i = j
    <3>1. order[i] = IF i = 1 THEN first[k] ELSE IF i = k THEN first[1] ELSE first[i]
      BY <2>4
    <3>2. order[j] = IF j = 1 THEN first[k] ELSE IF j = k THEN first[1] ELSE first[j]
      BY <2>4
    <3>3. \A a, b \in 1 .. n : a # b => first[a] # first[b]
      BY <2>2
    <3>4. CASE i = 1
      BY <2>3, <2>6, <3>1, <3>2, <3>3, <3>4
    <3>5. CASE i = k
      BY <2>3, <2>6, <3>1, <3>2, <3>3, <3>5
    <3>6. CASE i # 1 /\ i # k
      BY <2>3, <2>6, <3>1, <3>2, <3>3, <3>6
    <3>7. QED
      BY <3>4, <3>5, <3>6
  <2>7. order[1] # last
    BY <1>3, <2>2, <2>3, <2>4
  <2>8. QED
    BY <2>5, <2>6, <2>7 DEF Orders
<1>4. QED
  BY <1>2, <1>3

(* What follows speaks of the deck after a draw.                           *)
LEMMA DrawnDeck ==
  ASSUME TopicsTypeOK, DrawTopic
  PROVE  /\ deck' \in Orders(Len(topics))
         /\ Len(deck') = Len(topics)
         /\ deckCursor' \in 1 .. Len(topics)
         /\ lastTopicIndex' = deck'[deckCursor']
         /\ lastTopicIndex' \in DOMAIN topics
         /\ previous' = topics[lastTopicIndex']
<1>1. Len(topics) \in Nat \ {0} /\ DOMAIN topics = 1 .. Len(topics)
  BY TopicsShape
<1>2. CASE DeckIsValid /\ deckCursor < Len(deck)
  <2>1. deck' = deck /\ deckCursor' = deckCursor + 1
    BY <1>2 DEF DrawTopic
  <2>2. Len(deck) = Len(topics)
    BY <1>2 DEF DeckIsValid
  <2>3. deck # <<>>
    BY <1>1, <2>2
  <2>4. deck \in Orders(Len(topics)) /\ deckCursor \in 0 .. Len(topics) - 1
    BY <1>1, <1>2, <2>2, <2>3 DEF TopicsTypeOK
  <2>5. QED
    BY <1>1, <2>1, <2>2, <2>4, OrderShape DEF DrawTopic
<1>3. CASE ~ (DeckIsValid /\ deckCursor < Len(deck))
  <2>1. deck' \in Shuffles(Len(topics), lastTopicIndex) /\ deckCursor' = 1
    BY <1>3 DEF DrawTopic
  <2>2. deck' \in Orders(Len(topics))
    BY <1>1, <2>1, ShuffleIsOrder
  <2>3. QED
    BY <1>1, <2>1, <2>2, OrderShape DEF DrawTopic
<1>4. QED
  BY <1>2, <1>3

LEMMA DrawType ==
  ASSUME TopicsTypeOK, DrawTopic, UNCHANGED <<topics, draftVars>>
  PROVE  TopicsTypeOK'
<1>1. /\ deck' \in Orders(Len(topics)) /\ Len(deck') = Len(topics)
      /\ deckCursor' \in 1 .. Len(topics)
      /\ lastTopicIndex' \in DOMAIN topics
      /\ previous' = topics[lastTopicIndex']
  BY DrawnDeck
<1>2. Len(topics) \in Nat \ {0} /\ DOMAIN topics = 1 .. Len(topics)
  BY TopicsShape
<1>3. deckCursor' \in 0 .. Len(deck') /\ lastTopicIndex' \in Nat
  BY <1>1, <1>2
<1>4. seen' \subseteq seen \cup {previous'}
  BY DEF DrawTopic
<1>5. \A topic \in seen' \cup ({previous'} \ {NoTopic}) :
        \E i \in DOMAIN topics : topics[i] = topic
  BY <1>1, <1>4 DEF TopicsTypeOK
<1>6. QED
  BY <1>1, <1>3, <1>5 DEF TopicsTypeOK, draftVars

LEMMA ReplaceType ==
  ASSUME TopicsTypeOK, NEW list \in TopicLists, ReplaceTopics(list), lastTopicIndex' \in Nat
  PROVE  TopicsTypeOK'
BY EmptySeq DEF TopicsTypeOK, ReplaceTopics, NextGeneration, ResetDeck, NoTopic

LEMMA ReserveType == ASSUME TopicsTypeOK, ReserveDraft PROVE TopicsTypeOK'
BY DEF TopicsTypeOK, ReserveDraft, NextGeneration, deckVars

LEMMA ResetType ==
  ASSUME TopicsTypeOK, ResetDeck, UNCHANGED <<topics, lastTopicIndex, previous, draftVars>>
  PROVE  TopicsTypeOK'
BY EmptySeq DEF TopicsTypeOK, ResetDeck, draftVars

LEMMA SameTopicsType == ASSUME TopicsTypeOK, UNCHANGED topicVars PROVE TopicsTypeOK'
BY DEF TopicsTypeOK, topicVars, deckVars, draftVars

-----------------------------------------------------------------------------
(* Seats *)

LEMMA SameSeatsType ==
  ASSUME SeatsTypeOK, UNCHANGED <<seatVars, settingVars>> PROVE SeatsTypeOK'
BY DEF SeatsTypeOK, seatVars, settingVars

LEMMA SameTurnsType == ASSUME TurnsTypeOK, UNCHANGED turnVars PROVE TurnsTypeOK'
BY DEF TurnsTypeOK, turnVars

LEMMA SameScoresType == ASSUME ScoresTypeOK, UNCHANGED scoreVars PROVE ScoresTypeOK'
BY DEF ScoresTypeOK, scoreVars

LEMMA NewSeatType ==
  ASSUME TypeOK, NEW devices, NewSeat(devices)
  PROVE  TypeOK'
<1>1. SeatsTypeOK'
  BY AppendProperties, LenProperties, GameAssumption
     DEF TypeOK, SeatsTypeOK, NewSeat, settingVars
<1>2. QED
  BY <1>1, SameTopicsType, SameTurnsType, SameScoresType DEF TypeOK, NewSeat

LEMMA MovePlayerType ==
  ASSUME TypeOK, NEW token, NEW id \in PlayerIds, NEW offset, MovePlayer(token, id, offset)
  PROVE  TypeOK'
<1>1. PICK from \in DOMAIN players :
        /\ from + offset \in DOMAIN players
        /\ players' = [players EXCEPT ![from] = players[from + offset], ![from + offset] = id]
  BY DEF MovePlayer
<1>2. players \in Seq(PlayerIds) /\ DOMAIN players = 1 .. Len(players)
  BY LenProperties DEF TypeOK, SeatsTypeOK
<1>3. players[from + offset] \in PlayerIds
  BY <1>1, <1>2, ElementOfSeq
<1>4. players' \in Seq(PlayerIds) /\ Len(players') = Len(players)
  BY <1>1, <1>2, <1>3, ExceptSeq
<1>5. SeatsTypeOK'
  BY <1>4 DEF TypeOK, SeatsTypeOK, MovePlayer, settingVars
<1>6. QED
  BY <1>5, SameTopicsType, SameTurnsType, SameScoresType DEF TypeOK, MovePlayer

(* The seats after one of them is taken away.                              *)
LEMMA SeatsLeft ==
  ASSUME TypeOK, NEW id, RemoveSeat(id)
  PROVE  \E from \in 1 .. Len(players) :
           /\ players[from] = id
           /\ players' \in Seq(PlayerIds)
           /\ Len(players') = Len(players) - 1
           /\ DOMAIN players' = 1 .. Len(players) - 1
           /\ \A seat \in 1 .. Len(players) - 1 :
                players'[seat] = IF seat < from THEN players[seat] ELSE players[seat + 1]
<1>1. /\ players \in Seq(PlayerIds) /\ DOMAIN players = 1 .. Len(players)
      /\ Len(players) \in Nat
  BY LenProperties DEF TypeOK, SeatsTypeOK
<1>2. PICK from \in 1 .. Len(players) :
        /\ players[from] = id
        /\ players' = [seat \in 1 .. Len(players) - 1 |->
                         IF seat < from THEN players[seat] ELSE players[seat + 1]]
  BY <1>1 DEF RemoveSeat
<1>3. \A seat \in 1 .. Len(players) : players[seat] \in PlayerIds
  BY <1>1, ElementOfSeq
<1>4. players' \in [1 .. Len(players) - 1 -> PlayerIds]
  BY <1>1, <1>2, <1>3
<1>5. Len(players) - 1 \in Nat
  BY <1>1
<1>6. players' \in Seq(PlayerIds)
  BY <1>4, <1>5
<1>7. DOMAIN players' = 1 .. Len(players) - 1 /\ Len(players') = Len(players) - 1
  BY <1>4, <1>5, <1>6, LenProperties
<1>8. QED
  BY <1>2, <1>6, <1>7

LEMMA RemoveSeatType ==
  ASSUME TypeOK, NEW id, RemoveSeat(id), UNCHANGED settingVars
  PROVE  TypeOK'
<1>1. players' \in Seq(PlayerIds) /\ Len(players') <= MaxPlayers
  BY SeatsLeft, LenProperties, GameAssumption DEF TypeOK, SeatsTypeOK
<1>2. members' \in [Tokens -> PlayerIds \cup {NoPlayer}]
  BY DEF RemoveSeat, TypeOK, SeatsTypeOK
<1>3. SeatsTypeOK'
  BY <1>1, <1>2 DEF TypeOK, SeatsTypeOK, RemoveSeat, settingVars
<1>4. ScoresTypeOK'
  <2>1. score' = [score EXCEPT ![id] = 0] /\ corrections' = [corrections EXCEPT ![id] = 0]
    BY DEF RemoveSeat
  <2>2. corrected' = corrected /\ archived' = archived
    BY DEF RemoveSeat
  <2>3. score' \in [PlayerIds -> Nat]
    <3>1. score \in [PlayerIds -> Nat] /\ 0 \in Nat
      BY DEF TypeOK, ScoresTypeOK
    <3>2. QED
      BY <2>1, <3>1
  <2>4. corrections' \in [PlayerIds -> Int]
    <3>1. corrections \in [PlayerIds -> Int] /\ 0 \in Int
      BY DEF TypeOK, ScoresTypeOK
    <3>2. QED
      BY <2>1, <3>1
  <2>5. QED
    BY <2>2, <2>3, <2>4 DEF TypeOK, ScoresTypeOK
<1>5. QED
  BY <1>3, <1>4, SameTopicsType, SameTurnsType DEF TypeOK, RemoveSeat

LEMMA HostType ==
  ASSUME TypeOK, NEW token \in Tokens, NEW target \in Tokens,
         TransferHost(token, target) \/ ClaimHost(token)
  PROVE  TypeOK'
<1>1. SeatsTypeOK'
  BY DEF TypeOK, SeatsTypeOK, TransferHost, ClaimHost, settingVars
<1>2. QED
  BY <1>1, SameTopicsType, SameTurnsType, SameScoresType DEF TypeOK, TransferHost, ClaimHost

-----------------------------------------------------------------------------
(* Settings and topics *)

LEMMA SettingsType ==
  ASSUME SeatsTypeOK, UNCHANGED seatVars,
         NEW newRounds \in RoundChoices, NEW newDuration \in DurationChoices,
         rounds' = newRounds, duration' = newDuration
  PROVE  SeatsTypeOK'
BY DEF SeatsTypeOK, seatVars

LEMMA ChangeSettingsType ==
  ASSUME TypeOK, NEW token, NEW newRounds \in RoundChoices,
         NEW newDuration \in DurationChoices, NEW pack \in TopicLists \cup {<<>>},
         ChangeSettings(token, newRounds, newDuration, pack)
  PROVE  TypeOK'
<1>1. SeatsTypeOK' /\ TurnsTypeOK' /\ ScoresTypeOK'
  BY SettingsType, SameTurnsType, SameScoresType DEF TypeOK, ChangeSettings
<1>2. CASE pack = <<>>
  BY <1>1, <1>2, SameTopicsType DEF TypeOK, ChangeSettings
<1>3. CASE pack # <<>>
  <2>1. pack \in TopicLists /\ ReplaceTopics(pack) /\ lastTopicIndex' = lastTopicIndex
    BY <1>3 DEF ChangeSettings
  <2>2. TopicsTypeOK'
    BY <2>1, ReplaceType DEF TypeOK, TopicsTypeOK
  <2>3. QED
    BY <1>1, <2>2 DEF TypeOK
<1>4. QED
  BY <1>2, <1>3

LEMMA ApplySetupKitType ==
  ASSUME TypeOK, NEW token, NEW newRounds \in RoundChoices,
         NEW newDuration \in DurationChoices, NEW list \in TopicLists,
         ApplySetupKit(token, newRounds, newDuration, list)
  PROVE  TypeOK'
<1>1. SeatsTypeOK' /\ TurnsTypeOK' /\ ScoresTypeOK'
  BY SettingsType, SameTurnsType, SameScoresType DEF TypeOK, ApplySetupKit
<1>2. ReplaceTopics(list) /\ lastTopicIndex' \in Nat
  BY DEF ApplySetupKit, NoIndex
<1>3. QED
  BY <1>1, <1>2, ReplaceType DEF TypeOK

LEMMA CustomTopicsType ==
  ASSUME TypeOK, NEW token, NEW list \in TopicLists, NEW draft,
         CustomTopics(token, list, draft)
  PROVE  TypeOK'
<1>1. SeatsTypeOK' /\ TurnsTypeOK' /\ ScoresTypeOK'
  BY SameSeatsType, SameTurnsType, SameScoresType DEF TypeOK, CustomTopics
<1>2. ReplaceTopics(list) /\ lastTopicIndex' \in Nat
  BY DEF CustomTopics, TypeOK, TopicsTypeOK
<1>3. QED
  BY <1>1, <1>2, ReplaceType DEF TypeOK

LEMMA BeginTopicGenerationType ==
  ASSUME TypeOK, NEW token, BeginTopicGeneration(token)
  PROVE  TypeOK'
BY ReserveType, SameSeatsType, SameTurnsType, SameScoresType DEF TypeOK, BeginTopicGeneration

-----------------------------------------------------------------------------
(* Turn ids *)

(* The ids on the table have a greatest one, and the counter is past every *)
(* id ever given out, unless the last of them is still on the table.       *)
TurnIdsInv ==
  /\ \E id \in UsedIds : \A other \in UsedIds : other <= id
  /\ lastIssued < nextTurn \/ lastIssued \in UsedIds

LEMMA ActiveTurnShape ==
  ASSUME TurnsTypeOK
  PROVE  /\ activeTurn.id \in Nat
         /\ activeTurn # NoTurn => activeTurn \in Turn
         /\ activeTurn.elapsed # NotBegun => activeTurn \in Turn
BY DEF TurnsTypeOK, Turn, NoTurn

LEMMA CompletedTurnsShape ==
  ASSUME TurnsTypeOK
  PROVE  /\ DOMAIN completedTurns = 1 .. Len(completedTurns)
         /\ Len(completedTurns) \in Nat
         /\ \A i \in DOMAIN completedTurns : completedTurns[i] \in ScoredTurn
BY LenProperties, ElementOfSeq DEF TurnsTypeOK

LEMMA UsedIdsShape == ASSUME TurnsTypeOK PROVE UsedIds \subseteq Nat
<1>1. \A i \in DOMAIN completedTurns : completedTurns[i].id \in Nat
  BY CompletedTurnsShape DEF ScoredTurn
<1>2. QED
  BY <1>1, ActiveTurnShape DEF UsedIds

(* The next id is a legal one, and greater than all that are in use or     *)
(* were ever given out.                                                    *)
LEMMA NextIdIsFresh ==
  ASSUME TurnsTypeOK, TurnIdsInv, TurnIdsLeft
  PROVE  /\ RepairedNextTurn \in 1 .. MaxTurnId
         /\ nextTurn <= RepairedNextTurn
         /\ lastIssued < RepairedNextTurn
         /\ \A other \in UsedIds : other < RepairedNextTurn
<1>1. MaxUsedId \in UsedIds /\ \A other \in UsedIds : other <= MaxUsedId
  BY DEF TurnIdsInv, MaxUsedId
<1>2. UsedIds \subseteq Nat /\ MaxUsedId \in Nat
  BY <1>1, UsedIdsShape
<1>3. /\ nextTurn \in 1 .. MaxTurnId + 1 /\ lastIssued \in 0 .. MaxTurnId
      /\ nextTurn <= MaxTurnId /\ MaxUsedId < MaxTurnId /\ MaxTurnId \in Nat
  BY GameAssumption DEF TurnsTypeOK, TurnIdsLeft
<1>4. RepairedNextTurn \in 1 .. MaxTurnId /\ nextTurn <= RepairedNextTurn
  BY <1>2, <1>3 DEF RepairedNextTurn
<1>5. MaxUsedId < RepairedNextTurn
  BY <1>2, <1>3 DEF RepairedNextTurn
<1>6. \A other \in UsedIds : other < RepairedNextTurn
  <2>1. SUFFICES ASSUME NEW other \in UsedIds PROVE other < RepairedNextTurn
    OBVIOUS
  <2>2. other \in Nat /\ other <= MaxUsedId
    BY <1>1, <1>2
  <2>3. QED
    BY <1>2, <1>4, <1>5, <2>2
<1>7. lastIssued < RepairedNextTurn
  BY <1>3, <1>4, <1>6 DEF TurnIdsInv
<1>8. QED
  BY <1>4, <1>6, <1>7

LEMMA TakeTurnIdType ==
  ASSUME TurnsTypeOK, TurnIdsInv, TurnIdsLeft, TakeTurnId
  PROVE  /\ nextTurn' = RepairedNextTurn + 1
         /\ nextTurn' \in 1 .. MaxTurnId + 1
         /\ lastIssued' = RepairedNextTurn
         /\ lastIssued' \in 0 .. MaxTurnId
<1>1. RepairedNextTurn \in 1 .. MaxTurnId /\ lastIssued < RepairedNextTurn
  BY NextIdIsFresh
<1>2. MaxTurnId \in Nat
  BY GameAssumption
<1>3. QED
  BY <1>1, <1>2 DEF TakeTurnId, TurnsTypeOK

-----------------------------------------------------------------------------
(* The course of a game *)

LEMMA ClearTableType ==
  ASSUME TypeOK, TurnIdsInv, ClearTable, phase' \in {"setup", "playing", "finished"}
  PROVE  TypeOK' /\ TurnIdsInv'
<1>1. TopicsTypeOK' /\ SeatsTypeOK'
  BY ResetType, SameSeatsType DEF TypeOK, ClearTable
<1>2. ScoresTypeOK'
  <2>1. archived' \in 0 .. HistoryCapacity
    BY GameAssumption DEF TypeOK, ScoresTypeOK, ClearTable, ArchiveFinishedGame
  <2>2. score' \in [PlayerIds -> Nat] /\ corrections' \in [PlayerIds -> Int]
    BY DEF ClearTable
  <2>3. corrected' = corrected
    BY DEF ClearTable
  <2>4. QED
    BY <2>1, <2>2, <2>3 DEF TypeOK, ScoresTypeOK
<1>3. /\ RepairedNextTurn \in 1 .. MaxTurnId /\ lastIssued < RepairedNextTurn
      /\ MaxTurnId \in Nat
  BY NextIdIsFresh, GameAssumption DEF TypeOK, ClearTable
<1>4. nextTurn' = RepairedNextTurn /\ lastIssued' = lastIssued
  BY DEF ClearTable
<1>5. TurnsTypeOK'
  <2>1. /\ currentPlayer' = 1 /\ currentRound' = 1 /\ activeTurn' = NoTurn
        /\ completedTurns' = <<>> /\ asked' = <<>> /\ witnessed' = NoWitness
        /\ finished' = finished
    BY DEF ClearTable
  <2>2. completedTurns' \in Seq(ScoredTurn) /\ asked' \in Seq(0 .. MaxTurnId)
    BY <2>1, EmptySeq
  <2>3. witnessed' \in [remote : BOOLEAN, elapsed : {NotBegun} \cup Nat]
    BY <2>1 DEF NoWitness
  <2>4. nextTurn' \in 1 .. MaxTurnId + 1
    BY <1>3, <1>4
  <2>5. lastIssued' \in 0 .. MaxTurnId /\ finished' \in Nat
    BY <1>4, <2>1 DEF TypeOK, TurnsTypeOK
  <2>6. QED
    BY <2>1, <2>2, <2>3, <2>4, <2>5 DEF TurnsTypeOK
<1>6. TurnIdsInv'
  <2>1. UsedIds' = {0}
    BY DEF ClearTable, UsedIds, NoTurn
  <2>2. QED
    BY <1>3, <1>4, <2>1 DEF TurnIdsInv
<1>7. QED
  BY <1>1, <1>2, <1>5, <1>6 DEF TypeOK

LEMMA DrawnTurnType ==
  ASSUME TypeOK, TurnIdsInv, TurnIdsLeft, DrawTopic, TakeTurnId,
         activeTurn' \in Turn, activeTurn'.id = RepairedNextTurn,
         asked' \in Seq(0 .. MaxTurnId),
         witnessed' \in {witnessed, NoWitness},
         UNCHANGED <<topics, draftVars, seatVars, settingVars, scoreVars, phase,
                     currentPlayer, currentRound, completedTurns, finished>>
  PROVE  TypeOK' /\ TurnIdsInv'
<1>1. TopicsTypeOK' /\ SeatsTypeOK' /\ ScoresTypeOK'
  BY DrawType, SameSeatsType, SameScoresType DEF TypeOK
<1>2. /\ nextTurn' = RepairedNextTurn + 1 /\ nextTurn' \in 1 .. MaxTurnId + 1
      /\ lastIssued' = RepairedNextTurn /\ lastIssued' \in 0 .. MaxTurnId
      /\ RepairedNextTurn \in 1 .. MaxTurnId
      /\ \A other \in UsedIds : other < RepairedNextTurn
  BY TakeTurnIdType, NextIdIsFresh DEF TypeOK
<1>3. witnessed' \in [remote : BOOLEAN, elapsed : {NotBegun} \cup Nat]
  <2>1. NoWitness \in [remote : BOOLEAN, elapsed : {NotBegun} \cup Nat]
    BY DEF NoWitness
  <2>2. witnessed \in [remote : BOOLEAN, elapsed : {NotBegun} \cup Nat]
    BY DEF TypeOK, TurnsTypeOK
  <2>3. QED
    BY <2>1, <2>2
<1>4. TurnsTypeOK'
  BY <1>2, <1>3 DEF TypeOK, TurnsTypeOK
<1>5. TurnIdsInv'
  <2>1. \A other \in UsedIds' : other \in UsedIds \/ other = RepairedNextTurn
    BY DEF UsedIds
  <2>2. RepairedNextTurn \in UsedIds'
    BY DEF UsedIds
  <2>3. UsedIds \subseteq Nat
    BY UsedIdsShape DEF TypeOK
  <2>4. ASSUME NEW other \in UsedIds' PROVE other <= RepairedNextTurn
    <3>1. CASE other \in UsedIds
      <4>1. other \in Nat /\ other < RepairedNextTurn
        BY <1>2, <2>3, <3>1
      <4>2. QED
        BY <1>2, <4>1
    <3>2. CASE other = RepairedNextTurn
      BY <1>2, <3>2
    <3>3. QED
      BY <2>1, <3>1, <3>2
  <2>5. QED
    BY <1>2, <2>2, <2>4 DEF TurnIdsInv
<1>6. QED
  BY <1>1, <1>4, <1>5 DEF TypeOK

LEMMA StartTurnType ==
  ASSUME TypeOK, TurnIdsInv, NEW token, NEW after \in 0 .. lastIssued, StartTurn(token, after)
  PROVE  TypeOK' /\ TurnIdsInv'
<1>1. /\ activeTurn' = [id |-> RepairedNextTurn, player |-> players[currentPlayer],
                        round |-> currentRound, duration |-> duration, elapsed |-> NotBegun]
      /\ TurnIdsLeft /\ DrawTopic /\ TakeTurnId
      /\ currentPlayer \in DOMAIN players
      /\ asked' = Append(asked, after) /\ witnessed' = NoWitness
  BY DEF StartTurn
<1>2. RepairedNextTurn \in Nat
  BY <1>1, NextIdIsFresh DEF TypeOK
<1>3. players[currentPlayer] \in PlayerIds
  BY <1>1, ElementOfSeq, LenProperties DEF TypeOK, SeatsTypeOK
<1>4. currentRound \in Nat /\ duration \in DurationChoices
  BY DEF TypeOK, SeatsTypeOK, TurnsTypeOK
<1>5. activeTurn' \in Turn /\ activeTurn'.id = RepairedNextTurn
  BY <1>1, <1>2, <1>3, <1>4 DEF Turn
<1>6. after \in 0 .. MaxTurnId
  BY GameAssumption DEF TypeOK, TurnsTypeOK
<1>7. asked' \in Seq(0 .. MaxTurnId)
  BY <1>1, <1>6, AppendProperties DEF TypeOK, TurnsTypeOK
<1>8. UNCHANGED <<topics, draftVars, seatVars, settingVars, scoreVars, phase,
                  currentPlayer, currentRound, completedTurns, finished>>
  BY DEF StartTurn
<1>9. QED
  BY <1>1, <1>5, <1>7, <1>8, DrawnTurnType

LEMMA RedrawTurnType ==
  ASSUME TypeOK, TurnIdsInv, NEW token, NEW turnId, RedrawTurn(token, turnId)
  PROVE  TypeOK' /\ TurnIdsInv'
<1>1. /\ activeTurn' = [activeTurn EXCEPT !.id = RepairedNextTurn]
      /\ TurnIdsLeft /\ DrawTopic /\ TakeTurnId
      /\ activeTurn # NoTurn
      /\ asked' = asked /\ witnessed' = witnessed
  BY DEF RedrawTurn, DrivesTurn
<1>2. RepairedNextTurn \in Nat
  BY <1>1, NextIdIsFresh DEF TypeOK
<1>3. activeTurn \in Turn
  BY <1>1, ActiveTurnShape DEF TypeOK
<1>4. activeTurn' \in Turn /\ activeTurn'.id = RepairedNextTurn
  BY <1>1, <1>2, <1>3 DEF Turn
<1>5. asked' \in Seq(0 .. MaxTurnId)
  BY <1>1 DEF TypeOK, TurnsTypeOK
<1>6. UNCHANGED <<topics, draftVars, seatVars, settingVars, scoreVars, phase,
                  currentPlayer, currentRound, completedTurns, finished>>
  BY DEF RedrawTurn
<1>7. QED
  BY <1>1, <1>4, <1>5, <1>6, DrawnTurnType

(* The clock of a turn: its first request, and time that passes.           *)
LEMMA ClockType ==
  ASSUME TypeOK, TurnIdsInv,
         (\E token, turnId : BeginTurn(token, turnId)) \/ Tick
  PROVE  TypeOK' /\ TurnIdsInv'
<1>1. \E seconds \in Nat : activeTurn' = [activeTurn EXCEPT !.elapsed = seconds]
  BY DEF BeginTurn, Tick
<1>2. activeTurn \in Turn
  BY ActiveTurnShape DEF TypeOK, BeginTurn, DrivesTurn, Tick, NotBegun
<1>3. activeTurn' \in Turn /\ activeTurn'.id = activeTurn.id
  BY <1>1, <1>2 DEF Turn
<1>4. UNCHANGED <<topicVars, seatVars, settingVars, scoreVars, phase, currentPlayer,
                  currentRound, completedTurns, nextTurn, lastIssued, asked, witnessed, finished>>
  BY DEF BeginTurn, Tick
<1>5. TurnsTypeOK'
  BY <1>3, <1>4 DEF TypeOK, TurnsTypeOK
<1>6. UsedIds' = UsedIds
  BY <1>3, <1>4 DEF UsedIds
<1>7. TurnIdsInv'
  BY <1>4, <1>6 DEF TurnIdsInv
<1>8. QED
  BY <1>4, <1>5, <1>7, SameTopicsType, SameSeatsType, SameScoresType DEF TypeOK

LEMMA SpokenType ==
  ASSUME TypeOK, activeTurn \in Turn, NEW remote \in BOOLEAN,
         NEW claim \in 0 .. activeTurn.duration, NEW requested \in BOOLEAN
  PROVE  SpokenSeconds(remote, claim, requested) \in Nat
<1>1. /\ activeTurn.duration \in Nat
      /\ activeTurn.elapsed # NotBegun => activeTurn.elapsed \in Nat
      /\ CompletionGrace \in Nat /\ ObservationTolerance \in Nat
      /\ claim \in Nat
  <2>1. /\ activeTurn.duration \in DurationChoices
        /\ activeTurn.elapsed \in {NotBegun} \cup Nat
    BY DEF Turn
  <2>2. activeTurn.duration \in Nat
    BY <2>1, GameAssumption
  <2>3. QED
    BY <2>1, <2>2, GameAssumption
<1>2. QED
  BY <1>1 DEF SpokenSeconds

LEMMA SubmitTurnType ==
  ASSUME TypeOK, TurnIdsInv, NEW token, NEW turnId, NEW claim, NEW requested \in BOOLEAN,
         SubmitTurn(token, turnId, claim, requested)
  PROVE  TypeOK' /\ TurnIdsInv'
<1> DEFINE remote == ~ IsHost(token)
           spoken == SpokenSeconds(remote, claim, requested)
           completed == requested /\ spoken >= activeTurn.duration
           gained == spoken + (IF completed THEN CompletionBonus ELSE 0)
           turn == [id |-> activeTurn.id, player |-> activeTurn.player,
                    round |-> activeTurn.round, duration |-> activeTurn.duration,
                    spoken |-> spoken, completed |-> completed, score |-> gained]
<1>1. activeTurn \in Turn /\ claim \in 0 .. activeTurn.duration
  BY ActiveTurnShape DEF TypeOK, SubmitTurn, DrivesTurn
<1>2. remote \in BOOLEAN
  BY DEF IsHost
<1>3. spoken \in Nat
  BY <1>1, <1>2, SpokenType
<1>4. completed \in BOOLEAN
  OBVIOUS
<1>5. gained \in Nat
  <2> HIDE DEF spoken, completed
  <2> QED BY <1>3, <1>4, GameAssumption
<1>6. turn \in ScoredTurn
  <2> HIDE DEF spoken, completed, gained
  <2> QED BY <1>1, <1>3, <1>4, <1>5 DEF Turn, ScoredTurn
<1>7. /\ completedTurns' = Append(completedTurns, turn)
      /\ witnessed' = [remote |-> remote, elapsed |-> activeTurn.elapsed]
      /\ score' = [score EXCEPT ![activeTurn.player] = @ + gained]
      /\ activeTurn' = NoTurn
  BY DEF SubmitTurn
<1> HIDE DEF remote, gained, turn
<1>8. completedTurns' \in Seq(ScoredTurn)
  BY <1>6, <1>7, AppendProperties DEF TypeOK, TurnsTypeOK
<1>9. witnessed' \in [remote : BOOLEAN, elapsed : {NotBegun} \cup Nat]
  BY <1>1, <1>2, <1>7 DEF Turn
<1>10. score' \in [PlayerIds -> Nat]
  <2>1. score \in [PlayerIds -> Nat]
    BY DEF TypeOK, ScoresTypeOK
  <2>2. activeTurn.player \in PlayerIds
    BY <1>1 DEF Turn
  <2>3. score[activeTurn.player] + gained \in Nat
    BY <1>5, <2>1, <2>2
  <2>4. QED
    BY <1>7, <2>1, <2>2, <2>3
<1>11. /\ currentPlayer' \in Nat \ {0} /\ currentRound' \in Nat \ {0}
       /\ phase' \in {"setup", "playing", "finished"} /\ finished' \in Nat
  BY DEF TypeOK, TurnsTypeOK, SubmitTurn, Advance
<1>12. UNCHANGED <<topicVars, seatVars, settingVars, nextTurn, lastIssued, asked,
                   corrections, corrected, archived>>
  BY DEF SubmitTurn
<1>13. TurnsTypeOK'
  BY <1>7, <1>8, <1>9, <1>11, <1>12 DEF TypeOK, TurnsTypeOK
<1>14. ScoresTypeOK'
  BY <1>10, <1>12 DEF TypeOK, ScoresTypeOK
<1>15. TurnIdsInv'
  <2>1. turn.id = activeTurn.id
    BY DEF turn
  <2>2. completedTurns \in Seq(ScoredTurn)
    BY DEF TypeOK, TurnsTypeOK
  <2>3. UsedIds' = UsedIds \cup {0}
    BY <1>6, <1>7, <2>1, <2>2, AppendProperties, CompletedTurnsShape DEF UsedIds, NoTurn
  <2>4. UsedIds \subseteq Nat
    BY UsedIdsShape DEF TypeOK
  <2>5. PICK id \in UsedIds : \A other \in UsedIds : other <= id
    BY DEF TurnIdsInv
  <2>6. \A other \in UsedIds \cup {0} : other <= id
    BY <2>4, <2>5
  <2>7. QED
    BY <1>12, <2>3, <2>5, <2>6 DEF TurnIdsInv
<1>16. QED
  BY <1>12, <1>13, <1>14, <1>15, SameTopicsType, SameSeatsType DEF TypeOK

LEMMA CorrectScoreType ==
  ASSUME TypeOK, NEW token, NEW id \in PlayerIds, NEW delta \in Deltas,
         CorrectScore(token, id, delta)
  PROVE  TypeOK'
<1>1. score \in [PlayerIds -> Nat] /\ corrections \in [PlayerIds -> Int] /\ delta \in Int
  BY GameAssumption DEF TypeOK, ScoresTypeOK
<1>2. /\ score' = [score EXCEPT ![id] = IF @ + delta > 0 THEN @ + delta ELSE 0]
      /\ corrections' = [corrections EXCEPT ![id] = @ + score'[id] - score[id]]
      /\ corrected' = corrected + 1 /\ archived' = archived
  BY DEF CorrectScore
<1>3. (IF score[id] + delta > 0 THEN score[id] + delta ELSE 0) \in Nat
  BY <1>1
<1>4. score' \in [PlayerIds -> Nat]
  BY <1>1, <1>2, <1>3
<1>5. corrections[id] + score'[id] - score[id] \in Int
  BY <1>1, <1>4
<1>6. corrections' \in [PlayerIds -> Int]
  BY <1>1, <1>2, <1>5
<1>7. ScoresTypeOK'
  BY <1>2, <1>4, <1>6 DEF TypeOK, ScoresTypeOK
<1>8. QED
  BY <1>7, SameTopicsType, SameSeatsType, SameTurnsType DEF TypeOK, CorrectScore

(* What leaves the turns alone leaves the ids alone.                       *)
LEMMA SameTurnIds == ASSUME TurnIdsInv, UNCHANGED turnVars PROVE TurnIdsInv'
BY DEF TurnIdsInv, UsedIds, turnVars

-----------------------------------------------------------------------------
(* The specification *)

LEMMA InitType == ASSUME Init PROVE TypeOK /\ TurnIdsInv
<1>1. TopicsTypeOK
  BY TopicListAssumption, EmptySeq DEF Init, TopicsInit, TopicsTypeOK, NoIndex
<1>2. SeatsTypeOK
  <2>1. /\ 1 \in PlayerIds /\ 2 \in PlayerIds /\ Creator \in Tokens /\ 1 \in RoundChoices
        /\ MaxPlayers \in Nat /\ MaxPlayers >= 2
    BY GameAssumption
  <2>2. /\ rounds = 1 /\ duration \in DurationChoices /\ host = Creator
    BY DEF Init, NewRoom, StoredRoom
  <2>3. members \in [Tokens -> PlayerIds \cup {NoPlayer}] /\ nextPlayer \in Nat \ {0}
    BY <2>1 DEF Init, NewRoom, StoredRoom
  <2>4. players = <<>> \/ players = <<1>> \/ players = <<1, 2>>
    BY DEF Init, NewRoom, StoredRoom
  <2>5. players \in Seq(PlayerIds) /\ Len(players) <= MaxPlayers
    <3>1. CASE players = <<>>
      BY <2>1, <3>1, EmptySeq
    <3>2. CASE players = <<1>>
      BY <2>1, <3>2
    <3>3. CASE players = <<1, 2>>
      BY <2>1, <3>3
    <3>4. QED
      BY <2>4, <3>1, <3>2, <3>3
  <2>6. QED
    BY <2>1, <2>2, <2>3, <2>5 DEF SeatsTypeOK
<1>3. ScoresTypeOK
  BY GameAssumption DEF Init, ScoresTypeOK
<1>4. /\ completedTurns \in Seq(ScoredTurn)
      /\ TurnIdsInv
  <2>1. CASE NewRoom
    <3>1. UsedIds = {0}
      BY <2>1 DEF Init, NewRoom, UsedIds, NoTurn
    <3>2. QED
      BY <2>1, <3>1, EmptySeq DEF NewRoom, TurnIdsInv
  <2>2. CASE StoredRoom
    <3>1. completedTurns = [id \in 1 .. 2 |->
            [id |-> id, player |-> id, round |-> 1, duration |-> duration,
             spoken |-> 0, completed |-> FALSE, score |-> 0]]
      BY <2>2 DEF StoredRoom
    <3>2. completedTurns \in [1 .. 2 -> ScoredTurn]
      BY <3>1, GameAssumption DEF Init, ScoredTurn
    <3>3. UsedIds = {0, 1, 2}
      BY <3>1 DEF Init, UsedIds, NoTurn
    <3>4. lastIssued = 2
      BY <2>2 DEF StoredRoom
    <3>5. completedTurns \in Seq(ScoredTurn)
      BY <3>2, SeqDef
    <3>6. TurnIdsInv
      <4>1. 2 \in UsedIds /\ \A other \in UsedIds : other <= 2
        BY <3>3
      <4>2. QED
        BY <3>4, <4>1 DEF TurnIdsInv
    <3>7. QED
      BY <3>5, <3>6
  <2>3. QED
    BY <2>1, <2>2 DEF Init
<1>5. asked \in Seq(0 .. MaxTurnId) /\ lastIssued \in 0 .. MaxTurnId
  <2>1. MaxTurnId \in Nat /\ MaxTurnId >= 2
    BY GameAssumption
  <2>2. (asked = <<>> /\ lastIssued = 0) \/ (asked = <<0, 1>> /\ lastIssued = 2)
    BY DEF Init, NewRoom, StoredRoom
  <2>3. 0 \in 0 .. MaxTurnId /\ 1 \in 0 .. MaxTurnId /\ 2 \in 0 .. MaxTurnId
    BY <2>1
  <2>4. <<>> \in Seq(0 .. MaxTurnId)
    BY EmptySeq
  <2>5. <<0, 1>> \in Seq(0 .. MaxTurnId)
    BY <2>3
  <2>6. QED
    BY <2>2, <2>3, <2>4, <2>5
<1>6. nextTurn \in 1 .. MaxTurnId + 1
  <2>1. MaxTurnId \in Nat /\ MaxTurnId >= 2 /\ StoredCounters \subseteq 1 .. MaxTurnId + 1
    BY GameAssumption
  <2>2. nextTurn = 1 \/ nextTurn \in StoredCounters
    BY DEF Init, NewRoom, StoredRoom
  <2>3. 1 \in 1 .. MaxTurnId + 1
    BY <2>1
  <2>4. QED
    BY <2>1, <2>2, <2>3
<1>7. TurnsTypeOK
  BY <1>4, <1>5, <1>6 DEF Init, NewRoom, StoredRoom, TurnsTypeOK, NoWitness
<1>8. QED
  BY <1>1, <1>2, <1>3, <1>4, <1>7 DEF TypeOK

LEMMA NextType == ASSUME TypeOK, TurnIdsInv, [Next]_vars PROVE TypeOK' /\ TurnIdsInv'
<1>1. CASE UNCHANGED vars
  BY <1>1, SameTopicsType, SameSeatsType, SameTurnsType, SameScoresType, SameTurnIds
     DEF TypeOK, vars
<1>2. ASSUME NEW token \in Tokens, JoinRoom(token) \/ AddPlayer(token)
      PROVE TypeOK' /\ TurnIdsInv'
  <2>1. \E devices : NewSeat(devices)
    BY <1>2 DEF JoinRoom, AddPlayer
  <2>2. QED
    BY <2>1, NewSeatType, SameTurnIds DEF NewSeat
<1>3. ASSUME NEW token \in Tokens, NEW id \in PlayerIds, NEW offset \in {-1, 1},
             MovePlayer(token, id, offset)
      PROVE TypeOK' /\ TurnIdsInv'
  BY <1>3, MovePlayerType, SameTurnIds DEF MovePlayer
<1>4. ASSUME NEW token \in Tokens, Leave(token) \/ \E id \in PlayerIds : RemovePlayer(token, id)
      PROVE TypeOK' /\ TurnIdsInv'
  <2>1. PICK id : RemoveSeat(id)
    BY <1>4 DEF Leave, RemovePlayer
  <2>2. UNCHANGED settingVars /\ UNCHANGED turnVars
    BY <2>1 DEF RemoveSeat
  <2>3. QED
    BY <2>1, <2>2, RemoveSeatType, SameTurnIds
<1>5. ASSUME NEW token \in Tokens, NEW target \in Tokens,
             TransferHost(token, target) \/ ClaimHost(token)
      PROVE TypeOK' /\ TurnIdsInv'
  BY <1>5, HostType, SameTurnIds DEF TransferHost, ClaimHost
<1>6. ASSUME NEW token \in Tokens, NEW newRounds \in RoundChoices,
             NEW newDuration \in DurationChoices, NEW pack \in TopicLists \cup {<<>>},
             ChangeSettings(token, newRounds, newDuration, pack)
      PROVE TypeOK' /\ TurnIdsInv'
  BY <1>6, ChangeSettingsType, SameTurnIds DEF ChangeSettings
<1>7. ASSUME NEW token \in Tokens, NEW newRounds \in RoundChoices,
             NEW newDuration \in DurationChoices, NEW list \in TopicLists,
             ApplySetupKit(token, newRounds, newDuration, list)
      PROVE TypeOK' /\ TurnIdsInv'
  BY <1>7, ApplySetupKitType, SameTurnIds DEF ApplySetupKit
<1>8. ASSUME NEW token \in Tokens, NEW list \in TopicLists, NEW draft,
             CustomTopics(token, list, draft)
      PROVE TypeOK' /\ TurnIdsInv'
  BY <1>8, CustomTopicsType, SameTurnIds DEF CustomTopics
<1>9. ASSUME NEW token \in Tokens, BeginTopicGeneration(token) PROVE TypeOK' /\ TurnIdsInv'
  BY <1>9, BeginTopicGenerationType, SameTurnIds DEF BeginTopicGeneration
<1>10. ASSUME NEW token \in Tokens, StartGame(token) \/ ResetGame(token)
       PROVE TypeOK' /\ TurnIdsInv'
  BY <1>10, ClearTableType DEF StartGame, ResetGame
<1>11. ASSUME NEW token \in Tokens, NEW turnId \in 0 .. lastIssued, StartTurn(token, turnId)
       PROVE TypeOK' /\ TurnIdsInv'
  BY <1>11, StartTurnType
<1>12. ASSUME NEW token \in Tokens, NEW turnId, RedrawTurn(token, turnId)
       PROVE TypeOK' /\ TurnIdsInv'
  BY <1>12, RedrawTurnType
<1>13. CASE (\E token, turnId : BeginTurn(token, turnId)) \/ Tick
  BY <1>13, ClockType
<1>14. ASSUME NEW token \in Tokens, NEW turnId, NEW claim, NEW requested \in BOOLEAN,
              SubmitTurn(token, turnId, claim, requested)
       PROVE TypeOK' /\ TurnIdsInv'
  BY <1>14, SubmitTurnType
<1>15. ASSUME NEW token \in Tokens, NEW id \in PlayerIds, NEW delta \in Deltas,
              CorrectScore(token, id, delta)
       PROVE TypeOK' /\ TurnIdsInv'
  BY <1>15, CorrectScoreType, SameTurnIds DEF CorrectScore
<1>16. QED
  BY <1>1, <1>2, <1>3, <1>4, <1>5, <1>6, <1>7, <1>8, <1>9, <1>10, <1>11, <1>12, <1>13,
     <1>14, <1>15 DEF Next

(* The room keeps the shape the code expects of it, and its turn ids in    *)
(* order, whatever is asked of it (applyAction, joinRoom).                 *)
THEOREM TypeCorrect == Spec => []TypeOK
<1>1. Init => TypeOK /\ TurnIdsInv
  BY InitType
<1>2. TypeOK /\ TurnIdsInv /\ [Next]_vars => TypeOK' /\ TurnIdsInv'
  BY NextType
<1>3. QED
  BY <1>1, <1>2, PTL DEF Spec
-----------------------------------------------------------------------------
(* What the steps of a room have in common *)

SeatStep ==
  /\ InSetup
  /\ \/ \E devices : NewSeat(devices)
     \/ \E token : \E id \in PlayerIds, offset \in {-1, 1} : MovePlayer(token, id, offset)
     \/ \E id : RemoveSeat(id)

\* Scores are corrected, topics edited, the host replaced, or nothing.
TalkStep ==
  /\ UNCHANGED <<players, members, nextPlayer, turnVars, archived>>
  /\ \/ UNCHANGED scoreVars
     \/ \E token, id : \E delta \in Deltas : CorrectScore(token, id, delta)
  /\ \/ UNCHANGED topicVars
     \/ ReserveDraft
     \/ \E list \in TopicLists :
          /\ ReplaceTopics(list)
          /\ lastTopicIndex' \in {lastTopicIndex, NoIndex}

ClearStep ==
  /\ ClearTable
  /\ \/ phase = "setup" /\ phase' = "playing" /\ Len(players) >= 2
     \/ phase \in {"setup", "finished"} /\ phase' = "setup"

ClockStep == (\E token, turnId : BeginTurn(token, turnId)) \/ Tick

LEMMA Steps ==
  ASSUME TypeOK, [Next]_vars
  PROVE  \/ SeatStep \/ TalkStep \/ ClearStep \/ ClockStep
         \/ \E token \in Tokens, turnId \in 0 .. lastIssued :
              \/ StartTurn(token, turnId)
              \/ RedrawTurn(token, turnId)
              \/ \E claim \in Claims, requested \in BOOLEAN :
                   SubmitTurn(token, turnId, claim, requested)
<1>1. CASE UNCHANGED vars
  BY <1>1 DEF TalkStep, vars, seatVars, scoreVars
<1>2. ASSUME NEW token \in Tokens, JoinRoom(token) \/ AddPlayer(token) PROVE SeatStep
  BY <1>2 DEF JoinRoom, AddPlayer, SeatStep
<1>3. ASSUME NEW token \in Tokens, NEW id \in PlayerIds, NEW offset \in {-1, 1},
             MovePlayer(token, id, offset)
      PROVE SeatStep
  BY <1>3 DEF SeatStep, MovePlayer
<1>4. ASSUME NEW token \in Tokens, Leave(token) \/ \E id \in PlayerIds : RemovePlayer(token, id)
      PROVE SeatStep
  BY <1>4 DEF SeatStep, Leave, RemovePlayer
<1>5. ASSUME NEW token \in Tokens, NEW target \in Tokens,
             TransferHost(token, target) \/ ClaimHost(token)
      PROVE TalkStep
  BY <1>5 DEF TalkStep, TransferHost, ClaimHost, scoreVars
<1>6. ASSUME NEW token \in Tokens, NEW newRounds, NEW newDuration,
             NEW pack \in TopicLists \cup {<<>>}, ChangeSettings(token, newRounds, newDuration, pack)
      PROVE TalkStep
  <2>1. UNCHANGED <<players, members, nextPlayer, turnVars, archived, scoreVars>>
    BY <1>6 DEF ChangeSettings, seatVars, scoreVars
  <2>2. UNCHANGED topicVars \/ (pack \in TopicLists /\ ReplaceTopics(pack) /\ lastTopicIndex' = lastTopicIndex)
    BY <1>6 DEF ChangeSettings
  <2>3. QED
    BY <2>1, <2>2 DEF TalkStep
<1>7. ASSUME NEW token \in Tokens, NEW newRounds, NEW newDuration, NEW list \in TopicLists,
             ApplySetupKit(token, newRounds, newDuration, list)
      PROVE TalkStep
  BY <1>7 DEF TalkStep, ApplySetupKit, seatVars, scoreVars
<1>8. ASSUME NEW token \in Tokens, NEW list \in TopicLists, NEW draft,
             CustomTopics(token, list, draft)
      PROVE TalkStep
  BY <1>8 DEF TalkStep, CustomTopics, seatVars, scoreVars
<1>9. ASSUME NEW token \in Tokens, BeginTopicGeneration(token) PROVE TalkStep
  BY <1>9 DEF TalkStep, BeginTopicGeneration, seatVars, scoreVars
<1>10. ASSUME NEW token \in Tokens, StartGame(token) \/ ResetGame(token) PROVE ClearStep
  BY <1>10 DEF StartGame, ResetGame, ClearStep, InSetup, TypeOK, TurnsTypeOK
<1>11. ASSUME NEW token \in Tokens, NEW id, NEW delta \in Deltas,
              CorrectScore(token, id, delta)
       PROVE TalkStep
  BY <1>11 DEF TalkStep, CorrectScore, seatVars
<1>12. ASSUME NEW token \in Tokens, NEW turnId, BeginTurn(token, turnId) PROVE ClockStep
  BY <1>12 DEF ClockStep
<1>13. CASE Tick
  BY <1>13 DEF ClockStep
<1>14. QED
  BY <1>1, <1>2, <1>3, <1>4, <1>5, <1>6, <1>7, <1>8, <1>9, <1>10, <1>11, <1>12, <1>13 DEF Next

-----------------------------------------------------------------------------
(* Turn ids are never used again *)

(* No request gives a turn an id that was ever given out (repairNextTurn,  *)
(* nextTurnId).                                                            *)
THEOREM TurnIdsFresh == Spec => TurnIdsAreFresh
<1>1. Init => TypeOK /\ TurnIdsInv
  BY InitType
<1>2. TypeOK /\ TurnIdsInv /\ [Next]_vars => TypeOK' /\ TurnIdsInv'
  BY NextType
<1>3. TypeOK /\ TurnIdsInv /\ [Next]_vars =>
        [activeTurn'.id # activeTurn.id => activeTurn' = NoTurn \/ activeTurn'.id > lastIssued]_vars
  <2>1. SUFFICES ASSUME TypeOK, TurnIdsInv, [Next]_vars, activeTurn'.id # activeTurn.id,
                        activeTurn' # NoTurn
                 PROVE  activeTurn'.id > lastIssued
    OBVIOUS
  <2>2. CASE SeatStep \/ TalkStep
    BY <2>1, <2>2 DEF SeatStep, TalkStep, NewSeat, MovePlayer, RemoveSeat, turnVars
  <2>3. CASE ClearStep
    BY <2>1, <2>3 DEF ClearStep, ClearTable
  <2>4. CASE ClockStep
    <3>1. activeTurn \in Turn
      BY <2>1, <2>4, ActiveTurnShape DEF TypeOK, ClockStep, BeginTurn, DrivesTurn, Tick, NotBegun
    <3>2. QED
      BY <2>1, <2>4, <3>1 DEF ClockStep, BeginTurn, Tick, Turn
  <2>5. ASSUME NEW token \in Tokens, NEW turnId, StartTurn(token, turnId) \/ RedrawTurn(token, turnId)
        PROVE activeTurn'.id > lastIssued
    <3>1. TurnIdsLeft /\ TurnsTypeOK /\ TurnIdsInv
      BY <2>1, <2>5 DEF StartTurn, RedrawTurn, TypeOK
    <3>2. lastIssued < RepairedNextTurn /\ lastIssued \in Nat /\ RepairedNextTurn \in Nat
      BY <3>1, NextIdIsFresh DEF TurnsTypeOK
    <3>3. activeTurn'.id = RepairedNextTurn
      <4>1. CASE StartTurn(token, turnId)
        BY <4>1 DEF StartTurn
      <4>2. CASE RedrawTurn(token, turnId)
        <5>1. activeTurn \in Turn
          BY <2>1, <4>2, ActiveTurnShape DEF TypeOK, RedrawTurn, DrivesTurn
        <5>2. QED
          BY <4>2, <5>1 DEF RedrawTurn, Turn
      <4>3. QED
        BY <2>5, <4>1, <4>2
    <3>4. QED
      BY <3>2, <3>3
  <2>6. ASSUME NEW token \in Tokens, NEW turnId, NEW claim, NEW requested,
               SubmitTurn(token, turnId, claim, requested)
        PROVE activeTurn'.id > lastIssued
    BY <2>1, <2>6 DEF SubmitTurn
  <2>7. QED
    BY <2>1, <2>2, <2>3, <2>4, <2>5, <2>6, Steps
<1>4. QED
  BY <1>1, <1>2, <1>3, PTL DEF Spec, TurnIdsAreFresh

-----------------------------------------------------------------------------
(* Generated drafts *)

\* A draft that was made stale is older than the current generation.
DraftsInv == \A draft \in superseded : draft < topicGeneration

LEMMA DraftsStep == ASSUME TypeOK, DraftsInv, [Next]_vars PROVE DraftsInv'
<1>1. /\ superseded \subseteq drafts /\ drafts \subseteq 1 .. topicGeneration
      /\ topicGeneration \in Nat
  BY DEF TypeOK, TopicsTypeOK
<1>2. CASE UNCHANGED draftVars
  BY <1>2 DEF DraftsInv, draftVars
<1>3. CASE NextGeneration
  BY <1>1, <1>3 DEF DraftsInv, NextGeneration
<1>4. CASE SeatStep
  BY <1>2, <1>4 DEF SeatStep, NewSeat, MovePlayer, RemoveSeat, topicVars
<1>5. CASE TalkStep
  BY <1>2, <1>3, <1>5 DEF TalkStep, ReserveDraft, ReplaceTopics, topicVars
<1>6. CASE ClearStep
  BY <1>2, <1>6 DEF ClearStep, ClearTable
<1>7. CASE ClockStep
  BY <1>2, <1>7 DEF ClockStep, BeginTurn, Tick, topicVars
<1>8. ASSUME NEW token, NEW turnId, NEW claim, NEW requested,
             StartTurn(token, turnId) \/ RedrawTurn(token, turnId)
               \/ SubmitTurn(token, turnId, claim, requested)
      PROVE DraftsInv'
  BY <1>2, <1>8 DEF StartTurn, RedrawTurn, SubmitTurn, topicVars
<1>9. QED
  BY <1>4, <1>5, <1>6, <1>7, <1>8, Steps

(* A draft that a later edit or request made stale is never accepted       *)
(* (custom-topics).                                                        *)
THEOREM DraftsCurrent == Spec => DraftsAreCurrent
<1>1. Init => TypeOK /\ TurnIdsInv /\ DraftsInv
  BY InitType DEF Init, TopicsInit, DraftsInv
<1>2. TypeOK /\ TurnIdsInv /\ DraftsInv /\ [Next]_vars => TypeOK' /\ TurnIdsInv' /\ DraftsInv'
  BY NextType, DraftsStep
<1>3. TypeOK /\ DraftsInv =>
        [\A token \in Tokens, list \in TopicLists, draft \in drafts :
           CustomTopics(token, list, draft) => draft \notin superseded]_vars
  BY DEF TypeOK, TopicsTypeOK, DraftsInv, CustomTopics, DraftIsCurrent
<1>4. QED
  BY <1>1, <1>2, <1>3, PTL DEF Spec, DraftsAreCurrent
-----------------------------------------------------------------------------
(* Seats *)

\* A seat never gets the id of an earlier one.
SeatsInv == SeatsAreKept /\ \A seat \in DOMAIN players : players[seat] < nextPlayer

LEMMA PlayersShape ==
  ASSUME TypeOK
  PROVE  /\ DOMAIN players = 1 .. Len(players) /\ Len(players) \in Nat
         /\ \A seat \in DOMAIN players : players[seat] \in PlayerIds /\ players[seat] \in Nat
         /\ nextPlayer \in Nat
<1>1. players \in Seq(PlayerIds) /\ nextPlayer \in Nat
  BY DEF TypeOK, SeatsTypeOK
<1>2. PlayerIds \subseteq Nat
  BY GameAssumption
<1>3. QED
  BY <1>1, <1>2, LenProperties, ElementOfSeq

LEMMA NewSeatKeepsSeats ==
  ASSUME TypeOK, SeatsInv, NEW devices, NewSeat(devices)
  PROVE  SeatsInv'
<1>1. /\ players' = Append(players, nextPlayer) /\ nextPlayer' = nextPlayer + 1
      /\ nextPlayer \in PlayerIds
      /\ members' = [token \in Tokens |-> IF token \in devices THEN nextPlayer ELSE members[token]]
  BY DEF NewSeat
<1>2. /\ players' \in Seq(PlayerIds) /\ Len(players') = Len(players) + 1
      /\ \A seat \in 1 .. Len(players) : players'[seat] = players[seat]
      /\ players'[Len(players) + 1] = nextPlayer
  BY <1>1, AppendProperties DEF TypeOK, SeatsTypeOK
<1>3. DOMAIN players' = 1 .. Len(players) + 1
  BY <1>2, LenProperties
<1>4. \A seat \in DOMAIN players' :
        \/ seat \in DOMAIN players /\ players'[seat] = players[seat] /\ players[seat] < nextPlayer
        \/ seat = Len(players) + 1 /\ players'[seat] = nextPlayer
  BY <1>2, <1>3, PlayersShape DEF SeatsInv
<1>5. \A seat \in DOMAIN players' : players'[seat] < nextPlayer'
  BY <1>1, <1>4, PlayersShape
<1>6. IsInjective(players')
  BY <1>4, PlayersShape DEF SeatsInv, SeatsAreKept, IsInjective
<1>7. Seated \cup {nextPlayer} \subseteq Seated'
  <2>1. ASSUME NEW seat \in DOMAIN players PROVE players[seat] \in Seated'
    BY <1>2, <1>3, PlayersShape DEF Seated
  <2>2. nextPlayer \in Seated'
    BY <1>2, <1>3, PlayersShape DEF Seated
  <2>3. QED
    BY <2>1, <2>2 DEF Seated
<1>8. \A token \in Tokens : members'[token] \in Seated' \cup {NoPlayer}
  BY <1>1, <1>7 DEF SeatsInv, SeatsAreKept
<1>9. QED
  BY <1>5, <1>6, <1>8 DEF SeatsInv, SeatsAreKept

LEMMA MovePlayerKeepsSeats ==
  ASSUME TypeOK, SeatsInv, NEW token, NEW id \in PlayerIds, NEW offset \in {-1, 1},
         MovePlayer(token, id, offset)
  PROVE  SeatsInv'
<1>1. PICK from \in DOMAIN players :
        /\ players[from] = id
        /\ from + offset \in DOMAIN players
        /\ players' = [players EXCEPT ![from] = players[from + offset], ![from + offset] = id]
  BY DEF MovePlayer
<1> DEFINE to == from + offset
<1>2. to \in DOMAIN players /\ to # from /\ DOMAIN players' = DOMAIN players
  BY <1>1, PlayersShape
<1>3. \A seat \in DOMAIN players :
        players'[seat] = IF seat = from THEN players[to]
                         ELSE IF seat = to THEN players[from] ELSE players[seat]
  BY <1>1, <1>2
<1> HIDE DEF to
<1>4. IsInjective(players')
  <2>1. SUFFICES ASSUME NEW a \in DOMAIN players, NEW b \in DOMAIN players,
                        players'[a] = players'[b]
                 PROVE  a = b
    BY <1>2 DEF IsInjective
  <2>2. \A c, d \in DOMAIN players : players[c] = players[d] => c = d
    BY DEF SeatsInv, SeatsAreKept, IsInjective
  <2>3. QED
    BY <1>2, <1>3, <2>1, <2>2
<1>5. \A seat \in DOMAIN players' : players'[seat] < nextPlayer
  BY <1>2, <1>3 DEF SeatsInv
<1>6. Seated \subseteq Seated'
  <2>1. SUFFICES ASSUME NEW seat \in DOMAIN players PROVE players[seat] \in Seated'
    BY DEF Seated
  <2>2. players[seat] = players'[IF seat = from THEN to ELSE IF seat = to THEN from ELSE seat]
    BY <1>2, <1>3
  <2>3. QED
    BY <1>2, <2>2 DEF Seated
<1>7. members' = members /\ nextPlayer' = nextPlayer
  BY DEF MovePlayer
<1>8. QED
  BY <1>4, <1>5, <1>6, <1>7 DEF SeatsInv, SeatsAreKept

LEMMA RemoveSeatKeepsSeats ==
  ASSUME TypeOK, SeatsInv, NEW id, RemoveSeat(id)
  PROVE  SeatsInv'
<1>1. PICK from \in 1 .. Len(players) :
        /\ players[from] = id
        /\ DOMAIN players' = 1 .. Len(players) - 1
        /\ \A seat \in 1 .. Len(players) - 1 :
             players'[seat] = IF seat < from THEN players[seat] ELSE players[seat + 1]
  BY SeatsLeft
<1>2. /\ members' = [token \in Tokens |-> IF members[token] = id THEN NoPlayer ELSE members[token]]
      /\ nextPlayer' = nextPlayer
  BY DEF RemoveSeat
<1>3. DOMAIN players = 1 .. Len(players) /\ Len(players) \in Nat
  BY PlayersShape
<1>4. IsInjective(players')
  <2>1. SUFFICES ASSUME NEW a \in 1 .. Len(players) - 1, NEW b \in 1 .. Len(players) - 1,
                        players'[a] = players'[b]
                 PROVE  a = b
    BY <1>1 DEF IsInjective
  <2>2. \A c, d \in 1 .. Len(players) : players[c] = players[d] => c = d
    BY <1>3 DEF SeatsInv, SeatsAreKept, IsInjective
  <2>3. (IF a < from THEN a ELSE a + 1) = (IF b < from THEN b ELSE b + 1)
    BY <1>1, <1>3, <2>1, <2>2
  <2>4. QED
    BY <1>3, <2>3
<1>5. \A seat \in DOMAIN players' : players'[seat] < nextPlayer'
  <2>1. SUFFICES ASSUME NEW seat \in 1 .. Len(players) - 1
                 PROVE  players'[seat] < nextPlayer
    BY <1>1, <1>2
  <2>2. \A other \in 1 .. Len(players) : players[other] < nextPlayer
    BY <1>3 DEF SeatsInv
  <2>3. seat \in 1 .. Len(players) /\ seat + 1 \in 1 .. Len(players)
    BY <1>3
  <2>4. QED
    BY <1>1, <2>2, <2>3
<1>6. Seated \ {id} \subseteq Seated'
  <2>1. SUFFICES ASSUME NEW seat \in 1 .. Len(players), players[seat] # id
                 PROVE  players[seat] \in Seated'
    BY <1>3 DEF Seated
  <2>2. players[seat] = players'[IF seat < from THEN seat ELSE seat - 1]
    BY <1>1, <1>3, <2>1
  <2>3. (IF seat < from THEN seat ELSE seat - 1) \in DOMAIN players'
    BY <1>1, <1>3, <2>1
  <2>4. QED
    BY <2>2, <2>3 DEF Seated
<1>7. \A token \in Tokens : members'[token] \in Seated' \cup {NoPlayer}
  BY <1>2, <1>6 DEF SeatsInv, SeatsAreKept
<1>8. QED
  BY <1>4, <1>5, <1>7 DEF SeatsInv, SeatsAreKept

LEMMA SeatsStep == ASSUME TypeOK, SeatsInv, [Next]_vars PROVE SeatsInv'
<1>1. CASE UNCHANGED <<players, members, nextPlayer>>
  BY <1>1 DEF SeatsInv, SeatsAreKept, Seated
<1>2. CASE SeatStep
  BY <1>2, NewSeatKeepsSeats, MovePlayerKeepsSeats, RemoveSeatKeepsSeats DEF SeatStep
<1>3. CASE TalkStep
  BY <1>1, <1>3 DEF TalkStep
<1>4. CASE ClearStep
  BY <1>1, <1>4 DEF ClearStep, ClearTable, seatVars
<1>5. CASE ClockStep
  BY <1>1, <1>5 DEF ClockStep, BeginTurn, Tick, seatVars
<1>6. ASSUME NEW token, NEW turnId, NEW claim, NEW requested,
             StartTurn(token, turnId) \/ RedrawTurn(token, turnId)
               \/ SubmitTurn(token, turnId, claim, requested)
      PROVE SeatsInv'
  BY <1>1, <1>6 DEF StartTurn, RedrawTurn, SubmitTurn, seatVars
<1>7. QED
  BY <1>2, <1>3, <1>4, <1>5, <1>6, Steps

LEMMA SeatsInit == ASSUME Init PROVE SeatsInv
<1>1. CASE NewRoom
  BY <1>1, EmptySeq DEF NewRoom, SeatsInv, SeatsAreKept, Seated, IsInjective
<1>2. CASE StoredRoom
  BY <1>2 DEF StoredRoom, SeatsInv, SeatsAreKept, Seated, IsInjective
<1>3. QED
  BY <1>1, <1>2 DEF Init

(* Every device sits on a seat of its own that exists (joinRoom, addPlayer, *)
(* removePlayer).                                                          *)
THEOREM SeatsKept == Spec => []SeatsAreKept
<1>1. Init => TypeOK /\ TurnIdsInv /\ SeatsInv
  BY InitType, SeatsInit
<1>2. TypeOK /\ TurnIdsInv /\ SeatsInv /\ [Next]_vars => TypeOK' /\ TurnIdsInv' /\ SeatsInv'
  BY NextType, SeatsStep
<1>3. SeatsInv => SeatsAreKept
  BY DEF SeatsInv
<1>4. QED
  BY <1>1, <1>2, <1>3, PTL DEF Spec
-----------------------------------------------------------------------------
(* The deck *)

\* The topics seen are those drawn from the deck on the table.
DeckInv ==
  /\ deck # <<>> => deckCursor \in 1 .. Len(deck) /\ lastTopicIndex = deck[deckCursor]
  /\ seen = IF deckCursor = Len(topics) THEN {} ELSE {topics[deck[i]] : i \in 1 .. deckCursor}
  /\ previous # NoTopic => lastTopicIndex \in DOMAIN topics /\ previous = topics[lastTopicIndex]

(* A full deck holds every topic.                                          *)
LEMMA OrderCovers ==
  ASSUME NEW n \in Nat, NEW order \in Orders(n), NEW k \in 1 .. n
  PROVE  \E i \in 1 .. n : order[i] = k
<1>1. SUFFICES ASSUME \A i \in 1 .. n : order[i] # k PROVE FALSE
  OBVIOUS
<1>2. order \in [1 .. n -> (1 .. n) \ {k}] /\ \A i, j \in 1 .. n : order[i] = order[j] => i = j
  BY <1>1 DEF Orders
<1>3. IsFiniteSet(1 .. n) /\ Cardinality(1 .. n) = n
  BY FS_Interval
<1>4. IsFiniteSet((1 .. n) \ {k}) /\ Cardinality((1 .. n) \ {k}) = n - 1
  BY <1>3, FS_RemoveElement
<1>5. Cardinality((1 .. n) \ {k}) < Cardinality(1 .. n)
  BY <1>3, <1>4
<1>6. \E i, j \in 1 .. n : i # j /\ order[i] = order[j]
  <2> DEFINE S == 1 .. n
             T == (1 .. n) \ {k}
  <2>1. IsFiniteSet(S) /\ IsFiniteSet(T) /\ Cardinality(T) < Cardinality(S) /\ order \in [S -> T]
    BY <1>2, <1>3, <1>4, <1>5
  <2> HIDE DEF S, T
  <2>2. \E i, j \in S : i # j /\ order[i] = order[j]
    BY <2>1, FS_PigeonHole
  <2> QED BY <2>2 DEF S
<1>7. QED
  BY <1>2, <1>6

(* The positions of a deck up to its cursor.                               *)
LEMMA UpToCursor ==
  \A n, cursor \in Int :
    1 <= cursor /\ cursor <= n =>
      /\ cursor \in 1 .. cursor
      /\ \A i \in 1 .. cursor - 1 : i \in 1 .. cursor /\ i \in 1 .. n /\ i # cursor
      /\ \A i \in 1 .. cursor : i \in 1 .. cursor - 1 \/ i = cursor
OBVIOUS

LEMMA DrawKeepsDeck ==
  ASSUME TypeOK, DeckInv, DrawTopic, topics' = topics
  PROVE  /\ DeckInv'
         /\ topics[lastTopicIndex'] \notin seen
         /\ Len(topics) > 1 => topics[lastTopicIndex'] # previous
<1> DEFINE n == Len(topics)
<1>1. /\ n \in Nat \ {0} /\ DOMAIN topics = 1 .. n
      /\ \A i \in 1 .. n : topics[i] # NoTopic
      /\ \A i, j \in 1 .. n : topics[i] = topics[j] => i = j
  BY TopicsShape DEF TypeOK
<1>2. /\ deck' \in Orders(n) /\ deckCursor' \in 1 .. n
      /\ Len(deck') = n
      /\ lastTopicIndex' = deck'[deckCursor'] /\ lastTopicIndex' \in 1 .. n
      /\ previous' = topics[lastTopicIndex']
  BY <1>1, DrawnDeck DEF TypeOK
<1> HIDE DEF n
<1>3. /\ deck' \in [1 .. n -> 1 .. n]
      /\ \A i, j \in 1 .. n : deck'[i] = deck'[j] => i = j
  BY <1>1, <1>2, OrderShape
<1>4. \A i, j \in 1 .. n : topics[deck'[i]] = topics[deck'[j]] => i = j
  BY <1>1, <1>3
<1>5. /\ seen = {topics[deck'[i]] : i \in 1 .. deckCursor' - 1}
      /\ n > 1 => topics[lastTopicIndex'] # previous
  <2>1. CASE deck # <<>> /\ deckCursor < n
    <3>1. deck \in Orders(n) /\ Len(deck) = n /\ DOMAIN deck = 1 .. n
          /\ deck \in [1 .. n -> 1 .. n]
          /\ \A i, j \in 1 .. n : deck[i] = deck[j] => i = j
      BY <1>1, <2>1, OrderShape DEF TypeOK, TopicsTypeOK, n
    <3>2. deckCursor \in 1 .. n /\ lastTopicIndex = deck[deckCursor]
      BY <2>1, <3>1 DEF DeckInv
    <3>3. DeckIsValid /\ deckCursor < Len(deck)
      BY <1>1, <2>1, <3>1, <3>2 DEF DeckIsValid, n
    <3>4. deck' = deck /\ deckCursor' = deckCursor + 1
      BY <3>3 DEF DrawTopic
    <3>5. seen = {topics[deck[i]] : i \in 1 .. deckCursor}
      BY <1>1, <2>1, <3>2 DEF DeckInv, n
    <3>6. deckCursor' - 1 = deckCursor
      BY <3>2, <3>4
    <3>7. topics[lastTopicIndex'] # previous
      <4>1. previous # NoTopic => previous = topics[deck[deckCursor]]
        BY <3>2 DEF DeckInv
      <4>2. lastTopicIndex' = deck[deckCursor + 1] /\ deckCursor + 1 \in 1 .. n
        BY <1>2, <3>4
      <4>3. topics[deck[deckCursor + 1]] # topics[deck[deckCursor]]
        BY <1>4, <3>2, <3>4, <4>2
      <4>4. topics[lastTopicIndex'] # NoTopic
        BY <1>1, <1>2
      <4>5. QED
        BY <4>1, <4>2, <4>3, <4>4
    <3>8. QED
      BY <3>4, <3>5, <3>6, <3>7
  <2>2. CASE ~ (deck # <<>> /\ deckCursor < n)
    <3>1. ~ (DeckIsValid /\ deckCursor < Len(deck))
      BY <1>1, <2>2, EmptySeq DEF DeckIsValid, n
    <3>2. deck' \in Shuffles(n, lastTopicIndex) /\ deckCursor' = 1
      BY <3>1 DEF DrawTopic, n
    <3>3. n > 1 => deck'[1] # lastTopicIndex
      BY <1>1, <3>2, ShuffleIsOrder
    <3>4. seen = {}
      <4>1. CASE deck = <<>>
        <5>1. deckCursor = 0
          BY <4>1, EmptySeq DEF TypeOK, TopicsTypeOK
        <5>2. QED
          BY <5>1 DEF DeckInv
      <4>2. CASE deck # <<>> /\ deckCursor >= n
        <5>1. deckCursor = n
          <6>1. deck \in Orders(n) /\ deckCursor \in 0 .. Len(deck)
            BY <4>2 DEF TypeOK, TopicsTypeOK, n
          <6>2. Len(deck) = n
            BY <1>1, <6>1, OrderShape
          <6>3. QED
            BY <1>1, <4>2, <6>1, <6>2
        <5>2. QED
          BY <5>1 DEF DeckInv, n
      <4>3. QED
        BY <1>1, <2>2, <4>1, <4>2 DEF TypeOK, TopicsTypeOK
    <3>5. {topics[deck'[i]] : i \in 1 .. deckCursor' - 1} = {}
      BY <3>2
    <3>6. n > 1 => topics[lastTopicIndex'] # previous
      <4>1. previous # NoTopic => lastTopicIndex \in 1 .. n /\ previous = topics[lastTopicIndex]
        BY <1>1 DEF DeckInv
      <4>2. lastTopicIndex' = deck'[1]
        BY <1>2, <3>2
      <4>3. QED
        BY <1>1, <1>2, <3>3, <4>1, <4>2
    <3>7. QED
      BY <3>4, <3>5, <3>6
  <2>3. QED
    BY <2>1, <2>2
<1>6. topics[lastTopicIndex'] \notin seen
  <2>1. SUFFICES ASSUME NEW i \in 1 .. deckCursor' - 1, topics[deck'[i]] = topics[deck'[deckCursor']]
                 PROVE  FALSE
    BY <1>2, <1>5
  <2>2. n \in Int /\ deckCursor' \in Int /\ 1 <= deckCursor' /\ deckCursor' <= n
    BY <1>1, <1>2
  <2>3. i \in 1 .. n /\ i # deckCursor'
    BY <2>2, UpToCursor
  <2>4. QED
    BY <1>4, <2>1, <2>2, <2>3
<1> DEFINE all == seen \cup {previous'}
<1>7. all = {topics[deck'[i]] : i \in 1 .. deckCursor'}
  <2>1. previous' = topics[deck'[deckCursor']]
    BY <1>2
  <2>2. n \in Int /\ deckCursor' \in Int /\ 1 <= deckCursor' /\ deckCursor' <= n
    BY <1>1, <1>2
  <2>3. \A i \in 1 .. deckCursor' : i \in 1 .. deckCursor' - 1 \/ i = deckCursor'
    BY <2>2, UpToCursor
  <2>4. deckCursor' \in 1 .. deckCursor' /\ \A i \in 1 .. deckCursor' - 1 : i \in 1 .. deckCursor'
    BY <2>2, UpToCursor
  <2>5. QED
    BY <1>5, <2>1, <2>3, <2>4
<1>8. seen' = IF \A i \in 1 .. n : topics[i] \in all THEN {} ELSE all
  BY <1>1 DEF DrawTopic
<1> HIDE DEF all
<1>9. (\A i \in 1 .. n : topics[i] \in all) <=> deckCursor' = n
  <2>1. ASSUME deckCursor' = n, NEW k \in 1 .. n PROVE topics[k] \in all
    <3>1. PICK i \in 1 .. n : deck'[i] = k
      BY <1>1, <1>2, OrderCovers
    <3>2. QED
      BY <1>7, <2>1, <3>1
  <2>2. ASSUME deckCursor' # n, topics[deck'[n]] \in all PROVE FALSE
    <3>1. PICK i \in 1 .. deckCursor' : topics[deck'[i]] = topics[deck'[n]]
      BY <1>7, <2>2
    <3>2. i \in 1 .. n /\ n \in 1 .. n /\ i # n
      BY <1>1, <1>2, <2>2
    <3>3. QED
      BY <1>4, <3>1, <3>2
  <2>3. deck'[n] \in 1 .. n
    BY <1>1, <1>3
  <2>4. QED
    BY <2>1, <2>2, <2>3
<1>10. DeckInv'
  <2>1. seen' = IF deckCursor' = n THEN {} ELSE {topics[deck'[i]] : i \in 1 .. deckCursor'}
    BY <1>7, <1>8, <1>9
  <2>2. Len(topics)' = n
    BY DEF n
  <2>3. QED
    BY <1>1, <1>2, <2>1, <2>2 DEF DeckInv
<1>11. QED
  BY <1>5, <1>6, <1>10 DEF n

LEMMA DeckStep ==
  ASSUME TypeOK, DeckInv, [Next]_vars
  PROVE  /\ DeckInv'
         /\ lastIssued' > lastIssued =>
              /\ topics[lastTopicIndex'] \notin seen
              /\ Len(topics) > 1 => topics[lastTopicIndex'] # previous
<1> DEFINE Goal ==
             /\ DeckInv'
             /\ lastIssued' > lastIssued =>
                  /\ topics[lastTopicIndex'] \notin seen
                  /\ Len(topics) > 1 => topics[lastTopicIndex'] # previous
<1>1. lastIssued \in Int
  BY DEF TypeOK, TurnsTypeOK
<1>2. ASSUME UNCHANGED <<topicVars, lastIssued>> PROVE Goal
  BY <1>1, <1>2 DEF DeckInv, topicVars, deckVars
<1>3. ASSUME UNCHANGED <<topics, lastTopicIndex, previous, lastIssued>>, ResetDeck
      PROVE Goal
  <2>1. deck' = <<>> /\ deckCursor' = 0 /\ seen' = {}
    BY <1>3 DEF ResetDeck
  <2>2. {topics'[deck'[i]] : i \in 1 .. 0} = {}
    OBVIOUS
  <2>3. DeckInv'
    BY <1>3, <2>1, <2>2 DEF DeckInv
  <2>4. QED
    BY <1>1, <1>3, <2>3
<1>4. ASSUME \E list : ReplaceTopics(list), lastIssued' = lastIssued
      PROVE Goal
  <2>1. deck' = <<>> /\ deckCursor' = 0 /\ seen' = {} /\ previous' = NoTopic
    BY <1>4 DEF ReplaceTopics, ResetDeck
  <2>2. {topics'[deck'[i]] : i \in 1 .. 0} = {}
    OBVIOUS
  <2>3. DeckInv'
    BY <2>1, <2>2 DEF DeckInv
  <2>4. QED
    BY <1>1, <1>4, <2>3
<1>5. ASSUME NEW token, NEW turnId, StartTurn(token, turnId) \/ RedrawTurn(token, turnId)
      PROVE Goal
  <2>1. DrawTopic /\ topics' = topics
    BY <1>5 DEF StartTurn, RedrawTurn
  <2>2. QED
    BY <2>1, DrawKeepsDeck
<1>6. ASSUME ReserveDraft, lastIssued' = lastIssued PROVE Goal
  BY <1>1, <1>6 DEF ReserveDraft, deckVars, DeckInv
<1> HIDE DEF Goal
<1>7. ASSUME SeatStep PROVE Goal
  <2>1. UNCHANGED <<topicVars, lastIssued>>
    BY <1>7 DEF SeatStep, NewSeat, MovePlayer, RemoveSeat, turnVars
  <2>2. QED
    BY <1>2, <2>1
<1>8. ASSUME TalkStep PROVE Goal
  <2>1. lastIssued' = lastIssued
    BY <1>8 DEF TalkStep, turnVars
  <2>2. UNCHANGED topicVars \/ ReserveDraft \/ \E list : ReplaceTopics(list)
    BY <1>8 DEF TalkStep
  <2>3. QED
    BY <1>2, <1>4, <1>6, <2>1, <2>2
<1>9. ASSUME ClearStep PROVE Goal
  <2>1. UNCHANGED <<topics, lastTopicIndex, previous, lastIssued>> /\ ResetDeck
    BY <1>9 DEF ClearStep, ClearTable
  <2>2. QED
    BY <1>3, <2>1
<1>10. ASSUME ClockStep PROVE Goal
  <2>1. UNCHANGED <<topicVars, lastIssued>>
    BY <1>10 DEF ClockStep, BeginTurn, Tick
  <2>2. QED
    BY <1>2, <2>1
<1>11. ASSUME NEW token, NEW turnId, NEW claim, NEW requested,
              SubmitTurn(token, turnId, claim, requested)
       PROVE Goal
  <2>1. UNCHANGED <<topicVars, lastIssued>>
    BY <1>11 DEF SubmitTurn
  <2>2. QED
    BY <1>2, <2>1
<1>12. Goal
  BY <1>5, <1>7, <1>8, <1>9, <1>10, <1>11, Steps
<1>13. QED
  BY <1>12 DEF Goal

(* No topic comes back before all were drawn, nor twice in a row, whatever *)
(* list, game or redraw the draws belong to (drawTopic, shuffleDeck).      *)
THEOREM TopicsRotateAlways == Spec => TopicsRotate
<1>1. Init => TypeOK /\ TurnIdsInv /\ DeckInv
  <2>1. {topics[deck[i]] : i \in 1 .. 0} = {}
    OBVIOUS
  <2>2. Init => DeckInv
    BY <2>1 DEF Init, TopicsInit, DeckInv
  <2>3. QED
    BY <2>2, InitType
<1>2. TypeOK /\ TurnIdsInv /\ DeckInv /\ [Next]_vars => TypeOK' /\ TurnIdsInv' /\ DeckInv'
  BY NextType, DeckStep
<1>3. TypeOK /\ DeckInv /\ [Next]_vars =>
        [lastIssued' > lastIssued =>
           /\ topics[lastTopicIndex'] \notin seen
           /\ Len(topics) > 1 => topics[lastTopicIndex'] # previous]_vars
  BY DeckStep
<1>4. QED
  BY <1>1, <1>2, <1>3, PTL DEF Spec, TopicsRotate
-----------------------------------------------------------------------------
(* Turns that are over *)

(* What submit-turn adds to the turns on the table.                        *)
LEMMA SubmittedTurn ==
  ASSUME TypeOK, NEW token, NEW turnId, NEW claim, NEW requested \in BOOLEAN,
         SubmitTurn(token, turnId, claim, requested)
  PROVE  /\ activeTurn \in Turn
         /\ Len(completedTurns') = Len(completedTurns) + 1
         /\ DOMAIN completedTurns' = 1 .. Len(completedTurns) + 1
         /\ \A i \in 1 .. Len(completedTurns) : completedTurns'[i] = completedTurns[i]
         /\ LET last == completedTurns'[Len(completedTurns) + 1] IN
              /\ last.id = activeTurn.id /\ last.player = activeTurn.player
              /\ last.round = activeTurn.round /\ last.duration = activeTurn.duration
              /\ last.spoken \in Nat
              /\ last.spoken = SpokenSeconds(~ IsHost(token), claim, requested)
              /\ last.score = last.spoken + (IF requested /\ last.spoken >= activeTurn.duration
                                               THEN CompletionBonus ELSE 0)
<1> DEFINE spoken == SpokenSeconds(~ IsHost(token), claim, requested)
           completed == requested /\ spoken >= activeTurn.duration
           gained == spoken + (IF completed THEN CompletionBonus ELSE 0)
           turn == [id |-> activeTurn.id, player |-> activeTurn.player,
                    round |-> activeTurn.round, duration |-> activeTurn.duration,
                    spoken |-> spoken, completed |-> completed, score |-> gained]
<1>1. activeTurn \in Turn /\ claim \in 0 .. activeTurn.duration
  BY ActiveTurnShape DEF TypeOK, SubmitTurn, DrivesTurn
<1>2. spoken \in Nat
  BY <1>1, SpokenType DEF IsHost
<1>3. gained \in Nat
  <2> HIDE DEF spoken, completed
  <2> QED BY <1>2, GameAssumption
<1>4. turn \in ScoredTurn
  <2>1. completed \in BOOLEAN
    OBVIOUS
  <2> HIDE DEF spoken, completed, gained
  <2> QED BY <1>1, <1>2, <1>3, <2>1 DEF Turn, ScoredTurn
<1>5. completedTurns' = Append(completedTurns, turn)
  BY DEF SubmitTurn
<1>6. completedTurns \in Seq(ScoredTurn) /\ Len(completedTurns) \in Nat
  BY CompletedTurnsShape DEF TypeOK, TurnsTypeOK
<1> HIDE DEF turn
<1>7. /\ completedTurns' \in Seq(ScoredTurn)
      /\ Len(completedTurns') = Len(completedTurns) + 1
      /\ \A i \in 1 .. Len(completedTurns) : completedTurns'[i] = completedTurns[i]
      /\ completedTurns'[Len(completedTurns) + 1] = turn
  BY <1>4, <1>5, <1>6, AppendProperties
<1>8. DOMAIN completedTurns' = 1 .. Len(completedTurns) + 1
  BY <1>7, LenProperties
<1>9. QED
  BY <1>1, <1>2, <1>3, <1>7, <1>8 DEF turn

\* The turn that a remote speaker submitted is the last one.
WitnessInv == RemoteTimeIsWitnessed /\ (witnessed.remote => completedTurns # <<>>)

LEMMA SubmitKeepsWitness ==
  ASSUME TypeOK, NEW token, NEW turnId, NEW claim, NEW requested \in BOOLEAN,
         SubmitTurn(token, turnId, claim, requested)
  PROVE  WitnessInv'
<1>1. witnessed' = [remote |-> ~ IsHost(token), elapsed |-> activeTurn.elapsed]
  BY DEF SubmitTurn
<1>2. SUFFICES ASSUME ~ IsHost(token) PROVE WitnessInv'
  BY <1>1 DEF WitnessInv, RemoteTimeIsWitnessed
<1> DEFINE last == completedTurns'[Len(completedTurns) + 1]
           spoken == last.spoken
           gained == last.score
<1>3. /\ activeTurn \in Turn
      /\ Len(completedTurns') = Len(completedTurns) + 1
      /\ last.duration = activeTurn.duration
      /\ spoken \in Nat
      /\ spoken = SpokenSeconds(~ IsHost(token), claim, requested)
      /\ gained = spoken + (IF requested /\ spoken >= activeTurn.duration
                              THEN CompletionBonus ELSE 0)
  BY SubmittedTurn
<1> HIDE DEF spoken, gained
<1>4. /\ activeTurn.duration \in Nat \ {0} /\ claim \in 0 .. activeTurn.duration
      /\ activeTurn.elapsed # NotBegun => activeTurn.elapsed \in Nat
      /\ CompletionGrace \in Nat /\ ObservationTolerance \in Nat
      /\ ObservationTolerance <= CompletionGrace /\ CompletionBonus \in Nat \ {0}
  <2>1. activeTurn.duration \in DurationChoices /\ activeTurn.elapsed \in {NotBegun} \cup Nat
    BY <1>3 DEF Turn
  <2>2. claim \in 0 .. activeTurn.duration
    BY DEF SubmitTurn
  <2>3. QED
    BY <2>1, <2>2, GameAssumption
<1>5. /\ activeTurn.elapsed = NotBegun => spoken = 0
      /\ activeTurn.elapsed # NotBegun => spoken <= activeTurn.elapsed + CompletionGrace
      /\ spoken <= activeTurn.duration
  BY <1>2, <1>3, <1>4 DEF SpokenSeconds
<1>6. gained > spoken => spoken = activeTurn.duration
  BY <1>3, <1>4, <1>5
<1>7. /\ completedTurns'[Len(completedTurns')].spoken = spoken
      /\ completedTurns'[Len(completedTurns')].score = gained
      /\ completedTurns'[Len(completedTurns')].duration = activeTurn.duration
  BY <1>3 DEF spoken, gained
<1>8. witnessed'.remote = TRUE /\ witnessed'.elapsed = activeTurn.elapsed
  BY <1>1, <1>2
<1>9. completedTurns' # <<>>
  BY <1>3, CompletedTurnsShape, EmptySeq DEF TypeOK
<1>10. spoken <= (IF witnessed'.elapsed = NotBegun THEN 0 ELSE witnessed'.elapsed)
                  + (IF witnessed'.elapsed = NotBegun THEN 0 ELSE 1) * CompletionGrace
  <2>1. CASE activeTurn.elapsed = NotBegun
    BY <1>4, <1>5, <1>8, <2>1
  <2>2. CASE activeTurn.elapsed # NotBegun
    <3>1. 1 * CompletionGrace = CompletionGrace
      BY <1>4
    <3>2. QED
      BY <1>5, <1>8, <2>2, <3>1
  <2>3. QED
    BY <2>1, <2>2
<1>11. RemoteTimeIsWitnessed'
  BY <1>6, <1>7, <1>10 DEF RemoteTimeIsWitnessed
<1>12. QED
  BY <1>9, <1>11 DEF WitnessInv

LEMMA WitnessStep == ASSUME TypeOK, WitnessInv, [Next]_vars PROVE WitnessInv'
<1>1. ASSUME UNCHANGED <<witnessed, completedTurns>> PROVE WitnessInv'
  BY <1>1 DEF WitnessInv, RemoteTimeIsWitnessed
<1>2. ASSUME witnessed' = NoWitness PROVE WitnessInv'
  BY <1>2 DEF WitnessInv, RemoteTimeIsWitnessed, NoWitness
<1>3. CASE SeatStep
  BY <1>1, <1>3 DEF SeatStep, NewSeat, MovePlayer, RemoveSeat, turnVars
<1>4. CASE TalkStep
  BY <1>1, <1>4 DEF TalkStep, turnVars
<1>5. CASE ClearStep
  BY <1>2, <1>5 DEF ClearStep, ClearTable
<1>6. CASE ClockStep
  BY <1>1, <1>6 DEF ClockStep, BeginTurn, Tick
<1>7. ASSUME NEW token, NEW turnId, StartTurn(token, turnId) PROVE WitnessInv'
  BY <1>2, <1>7 DEF StartTurn
<1>8. ASSUME NEW token, NEW turnId, RedrawTurn(token, turnId) PROVE WitnessInv'
  BY <1>1, <1>8 DEF RedrawTurn
<1>9. QED
  BY <1>3, <1>4, <1>5, <1>6, <1>7, <1>8, Steps, SubmitKeepsWitness

(* A remote speaker is credited only time the server saw pass (submit-turn). *)
THEOREM RemoteTimeWitnessed == Spec => []RemoteTimeIsWitnessed
<1>1. Init => TypeOK /\ TurnIdsInv /\ WitnessInv
  BY InitType DEF Init, WitnessInv, RemoteTimeIsWitnessed, NoWitness
<1>2. TypeOK /\ TurnIdsInv /\ WitnessInv /\ [Next]_vars => TypeOK' /\ TurnIdsInv' /\ WitnessInv'
  BY NextType, WitnessStep
<1>3. WitnessInv => RemoteTimeIsWitnessed
  BY DEF WitnessInv
<1>4. QED
  BY <1>1, <1>2, <1>3, PTL DEF Spec

\* A finished game has turns, and is counted.
ArchiveInv ==
  /\ FinishedGamesArchived
  /\ phase = "finished" => finished \in Nat \ {0} /\ completedTurns # <<>>

LEMMA ArchiveStep == ASSUME TypeOK, ArchiveInv, [Next]_vars PROVE ArchiveInv'
<1>1. /\ HistoryCapacity \in Nat \ {0} /\ finished \in Nat /\ archived \in Nat
      /\ phase \in {"setup", "playing", "finished"}
  BY GameAssumption DEF TypeOK, TurnsTypeOK, ScoresTypeOK
<1>2. ASSUME UNCHANGED <<phase, finished, completedTurns, archived>> PROVE ArchiveInv'
  BY <1>2 DEF ArchiveInv, FinishedGamesArchived
<1>3. CASE SeatStep
  BY <1>2, <1>3 DEF SeatStep, NewSeat, MovePlayer, RemoveSeat, turnVars, scoreVars
<1>4. CASE TalkStep
  BY <1>2, <1>4 DEF TalkStep, turnVars
<1>5. CASE ClearStep
  <2>1. /\ finished' = finished /\ phase # "playing" /\ phase' # "finished"
        /\ archived' = IF phase = "finished" /\ completedTurns # <<>>
                         THEN IF archived < HistoryCapacity THEN archived + 1 ELSE archived
                         ELSE archived
    BY <1>5 DEF ClearStep, ClearTable, ArchiveFinishedGame
  <2>2. QED
    BY <1>1, <2>1 DEF ArchiveInv, FinishedGamesArchived
<1>6. CASE ClockStep
  BY <1>2, <1>6 DEF ClockStep, BeginTurn, Tick, scoreVars
<1>7. ASSUME NEW token, NEW turnId, StartTurn(token, turnId) \/ RedrawTurn(token, turnId)
      PROVE ArchiveInv'
  BY <1>2, <1>7 DEF StartTurn, RedrawTurn, scoreVars
<1>8. ASSUME NEW token, NEW turnId, NEW claim, NEW requested \in BOOLEAN,
             SubmitTurn(token, turnId, claim, requested)
      PROVE ArchiveInv'
  <2>1. /\ phase = "playing" /\ archived' = archived
        /\ phase' \in {"playing", "finished"}
        /\ finished' = IF phase' = "finished" THEN finished + 1 ELSE finished
    BY <1>8 DEF SubmitTurn, DrivesTurn, Advance
  <2>2. completedTurns' # <<>>
    BY <1>8, SubmittedTurn, CompletedTurnsShape, EmptySeq DEF TypeOK
  <2>3. QED
    BY <1>1, <2>1, <2>2 DEF ArchiveInv, FinishedGamesArchived
<1>9. QED
  BY <1>3, <1>4, <1>5, <1>6, <1>7, <1>8, Steps

(* A finished game enters the history once (archiveFinishedGame).          *)
THEOREM GamesArchived == Spec => []FinishedGamesArchived
<1>1. Init => TypeOK /\ TurnIdsInv /\ ArchiveInv
  <2>1. Init => ArchiveInv
    BY GameAssumption DEF Init, NewRoom, StoredRoom, ArchiveInv, FinishedGamesArchived
  <2>2. QED
    BY <2>1, InitType
<1>2. TypeOK /\ TurnIdsInv /\ ArchiveInv /\ [Next]_vars => TypeOK' /\ TurnIdsInv' /\ ArchiveInv'
  BY NextType, ArchiveStep
<1>3. ArchiveInv => FinishedGamesArchived
  BY DEF ArchiveInv
<1>4. QED
  BY <1>1, <1>2, <1>3, PTL DEF Spec
-----------------------------------------------------------------------------
(* Requests to go on *)

\* The turns of a game were asked for in the order of their ids: the first
\* one after none, each other one after the turn before it.
AskedInv ==
  /\ Len(asked) = Len(completedTurns) + (IF activeTurn = NoTurn THEN 0 ELSE 1)
  /\ \A k \in DOMAIN asked : asked[k] = IF k = 1 THEN 0 ELSE completedTurns[k - 1].id
  /\ \A j, k \in DOMAIN completedTurns : j < k => completedTurns[j].id < completedTurns[k].id
  /\ \A k \in DOMAIN completedTurns :
       /\ completedTurns[k].id > 0
       /\ activeTurn # NoTurn => completedTurns[k].id < activeTurn.id
  /\ activeTurn # NoTurn => activeTurn.id > 0

LEMMA AskedShape ==
  ASSUME TypeOK
  PROVE  /\ DOMAIN asked = 1 .. Len(asked) /\ Len(asked) \in Nat
         /\ DOMAIN completedTurns = 1 .. Len(completedTurns) /\ Len(completedTurns) \in Nat
         /\ \A k \in DOMAIN completedTurns : completedTurns[k].id \in Nat
         /\ activeTurn.id \in Nat
BY LenProperties, CompletedTurnsShape, ActiveTurnShape DEF TypeOK, TurnsTypeOK, ScoredTurn

LEMMA AskedOnce == ASSUME TypeOK, AskedInv PROVE OneTurnPerRequest
<1>1. SUFFICES ASSUME NEW j \in DOMAIN asked, NEW k \in DOMAIN asked, j < k
               PROVE  asked[j] # asked[k]
  BY AskedShape DEF OneTurnPerRequest, IsInjective
<1>2. /\ DOMAIN asked = 1 .. Len(asked) /\ Len(asked) \in Nat
      /\ DOMAIN completedTurns = 1 .. Len(completedTurns) /\ Len(completedTurns) \in Nat
      /\ Len(asked) <= Len(completedTurns) + 1
      /\ \A i \in 1 .. Len(completedTurns) : completedTurns[i].id \in Nat
  BY AskedShape DEF AskedInv
<1>3. k - 1 \in 1 .. Len(completedTurns) /\ k # 1
  BY <1>1, <1>2
<1>4. asked[k] = completedTurns[k - 1].id /\ completedTurns[k - 1].id > 0
  BY <1>2, <1>3 DEF AskedInv
<1>5. CASE j = 1
  BY <1>2, <1>3, <1>4, <1>5 DEF AskedInv
<1>6. CASE j # 1
  <2>1. j - 1 \in 1 .. Len(completedTurns) /\ j - 1 < k - 1
    BY <1>1, <1>2, <1>6
  <2>2. asked[j] = completedTurns[j - 1].id
    BY <1>6 DEF AskedInv
  <2>3. completedTurns[j - 1].id < completedTurns[k - 1].id
    BY <1>2, <1>3, <2>1 DEF AskedInv
  <2>4. completedTurns[j - 1].id \in Nat /\ completedTurns[k - 1].id \in Nat
    BY <1>2, <1>3, <2>1
  <2>5. QED
    BY <1>4, <2>2, <2>3, <2>4
<1>7. QED
  BY <1>5, <1>6

LEMMA StartTurnKeepsAsked ==
  ASSUME TypeOK, TurnIdsInv, AskedInv, NEW token, NEW after \in 0 .. lastIssued,
         StartTurn(token, after)
  PROVE  AskedInv'
<1>1. /\ asked' = Append(asked, after) /\ completedTurns' = completedTurns
      /\ activeTurn = NoTurn /\ after = LastTurnId
      /\ activeTurn'.id = RepairedNextTurn /\ activeTurn'.elapsed = NotBegun
      /\ TurnIdsLeft
  BY DEF StartTurn, FollowsLastTurn
<1>2. /\ RepairedNextTurn \in 1 .. MaxTurnId
      /\ \A other \in UsedIds : other < RepairedNextTurn
  BY <1>1, NextIdIsFresh DEF TypeOK
<1>3. activeTurn' # NoTurn
  BY <1>1, <1>2 DEF NoTurn
<1>4. asked \in Seq(0 .. MaxTurnId) /\ after \in 0 .. MaxTurnId
  BY GameAssumption DEF TypeOK, TurnsTypeOK
<1>5. /\ asked' \in Seq(0 .. MaxTurnId) /\ Len(asked') = Len(asked) + 1
      /\ \A i \in 1 .. Len(asked) : asked'[i] = asked[i]
      /\ asked'[Len(asked) + 1] = after
  BY <1>1, <1>4, AppendProperties
<1>6. DOMAIN asked' = 1 .. Len(asked) + 1
  BY <1>5, LenProperties
<1>7. Len(asked) = Len(completedTurns) /\ Len(asked) \in Nat
  BY <1>1, AskedShape DEF AskedInv
<1>8. after = IF Len(asked) = 0 THEN 0 ELSE completedTurns[Len(asked)].id
  BY <1>1, <1>7, AskedShape, EmptySeq, CompletedTurnsShape DEF LastTurnId, TypeOK, TurnsTypeOK
<1>9. ASSUME NEW k \in DOMAIN asked'
      PROVE asked'[k] = IF k = 1 THEN 0 ELSE completedTurns[k - 1].id
  <2>1. CASE k \in 1 .. Len(asked)
    BY <1>5, <2>1, AskedShape DEF AskedInv
  <2>2. CASE k = Len(asked) + 1
    BY <1>5, <1>7, <1>8, <2>2
  <2>3. QED
    BY <1>6, <1>7, <1>9, <2>1, <2>2
<1>10. \A k \in DOMAIN completedTurns : completedTurns[k].id < RepairedNextTurn
  BY <1>2 DEF UsedIds
<1>11. Len(asked') = Len(completedTurns') + 1
  BY <1>1, <1>5, <1>7
<1>12. QED
  BY <1>1, <1>2, <1>3, <1>9, <1>10, <1>11 DEF AskedInv

LEMMA RedrawTurnKeepsAsked ==
  ASSUME TypeOK, TurnIdsInv, AskedInv, NEW token, NEW turnId, RedrawTurn(token, turnId)
  PROVE  AskedInv'
<1>1. /\ asked' = asked /\ completedTurns' = completedTurns /\ activeTurn # NoTurn
      /\ activeTurn' = [activeTurn EXCEPT !.id = RepairedNextTurn] /\ TurnIdsLeft
  BY DEF RedrawTurn, DrivesTurn
<1>2. activeTurn \in Turn
  BY <1>1, ActiveTurnShape DEF TypeOK
<1>3. /\ RepairedNextTurn \in 1 .. MaxTurnId
      /\ \A other \in UsedIds : other < RepairedNextTurn
  BY <1>1, NextIdIsFresh DEF TypeOK
<1>4. activeTurn'.id = RepairedNextTurn
  BY <1>1, <1>2 DEF Turn
<1>5. activeTurn' # NoTurn
  BY <1>3, <1>4 DEF NoTurn
<1>6. \A k \in DOMAIN completedTurns : completedTurns[k].id < RepairedNextTurn
  BY <1>3 DEF UsedIds
<1>7. QED
  BY <1>1, <1>3, <1>4, <1>5, <1>6 DEF AskedInv

LEMMA ClockKeepsAsked == ASSUME TypeOK, AskedInv, ClockStep PROVE AskedInv'
<1>1. activeTurn \in Turn /\ activeTurn # NoTurn
  BY ActiveTurnShape DEF TypeOK, ClockStep, BeginTurn, DrivesTurn, Tick, NotBegun, NoTurn
<1>2. \E seconds \in Nat : activeTurn' = [activeTurn EXCEPT !.elapsed = seconds]
  BY DEF ClockStep, BeginTurn, Tick
<1>3. activeTurn'.id = activeTurn.id /\ activeTurn' # NoTurn
  BY <1>1, <1>2 DEF Turn, NoTurn, NotBegun
<1>4. UNCHANGED <<asked, completedTurns>>
  BY DEF ClockStep, BeginTurn, Tick
<1>5. QED
  BY <1>1, <1>3, <1>4 DEF AskedInv

LEMMA SubmitTurnKeepsAsked ==
  ASSUME TypeOK, AskedInv, NEW token, NEW turnId, NEW claim, NEW requested \in BOOLEAN,
         SubmitTurn(token, turnId, claim, requested)
  PROVE  AskedInv'
<1> DEFINE n == Len(completedTurns)
<1>1. /\ asked' = asked /\ activeTurn # NoTurn /\ activeTurn' = NoTurn
  BY DEF SubmitTurn, DrivesTurn
<1>2. /\ Len(completedTurns') = n + 1 /\ DOMAIN completedTurns' = 1 .. n + 1
      /\ \A i \in 1 .. n : completedTurns'[i] = completedTurns[i]
      /\ completedTurns'[n + 1].id = activeTurn.id
  BY SubmittedTurn
<1>3. /\ n \in Nat /\ DOMAIN completedTurns = 1 .. n
      /\ Len(asked) = n + 1 /\ DOMAIN asked = 1 .. n + 1
  BY <1>1, AskedShape DEF AskedInv
<1> HIDE DEF n
<1>4. \A k \in 1 .. n :
        /\ completedTurns'[k].id = completedTurns[k].id
        /\ completedTurns[k].id > 0 /\ completedTurns[k].id < activeTurn.id
  BY <1>1, <1>2, <1>3 DEF AskedInv
<1>5. ASSUME NEW k \in DOMAIN asked
      PROVE asked[k] = IF k = 1 THEN 0 ELSE completedTurns'[k - 1].id
  <2>1. k = 1 \/ k - 1 \in 1 .. n
    BY <1>3
  <2>2. QED
    BY <1>4, <2>1 DEF AskedInv
<1>6. ASSUME NEW j \in 1 .. n + 1, NEW k \in 1 .. n + 1, j < k
      PROVE completedTurns'[j].id < completedTurns'[k].id
  <2>1. j \in 1 .. n /\ (k \in 1 .. n \/ k = n + 1)
    BY <1>3, <1>6
  <2>2. QED
    BY <1>2, <1>3, <1>4, <1>6, <2>1 DEF AskedInv
<1>7. ASSUME NEW k \in 1 .. n + 1 PROVE completedTurns'[k].id > 0
  <2>1. k \in 1 .. n \/ k = n + 1
    BY <1>3
  <2>2. activeTurn.id > 0
    BY <1>1 DEF AskedInv
  <2>3. QED
    BY <1>2, <1>4, <2>1, <2>2
<1>8. QED
  BY <1>1, <1>2, <1>3, <1>5, <1>6, <1>7 DEF AskedInv

LEMMA AskedStep == ASSUME TypeOK, TurnIdsInv, AskedInv, [Next]_vars PROVE AskedInv'
<1>1. ASSUME UNCHANGED <<asked, completedTurns, activeTurn>> PROVE AskedInv'
  BY <1>1 DEF AskedInv
<1>2. CASE SeatStep
  BY <1>1, <1>2 DEF SeatStep, NewSeat, MovePlayer, RemoveSeat, turnVars
<1>3. CASE TalkStep
  BY <1>1, <1>3 DEF TalkStep, turnVars
<1>4. CASE ClearStep
  <2>1. asked' = <<>> /\ completedTurns' = <<>> /\ activeTurn' = NoTurn
    BY <1>4 DEF ClearStep, ClearTable
  <2>2. Len(asked') = 0 /\ Len(completedTurns') = 0
        /\ DOMAIN asked' = {} /\ DOMAIN completedTurns' = {}
    BY <2>1
  <2>3. QED
    BY <2>1, <2>2 DEF AskedInv
<1>5. QED
  BY <1>2, <1>3, <1>4, Steps, StartTurnKeepsAsked, RedrawTurnKeepsAsked, ClockKeepsAsked,
     SubmitTurnKeepsAsked

LEMMA AskedInit == ASSUME Init PROVE AskedInv
<1>1. CASE NewRoom
  <2>1. asked = <<>> /\ completedTurns = <<>> /\ activeTurn = NoTurn
    BY <1>1 DEF Init, NewRoom
  <2>2. Len(asked) = 0 /\ Len(completedTurns) = 0 /\ DOMAIN asked = {} /\ DOMAIN completedTurns = {}
    BY <2>1
  <2>3. QED
    BY <2>1, <2>2 DEF AskedInv
<1>2. CASE StoredRoom
  <2>1. /\ asked = <<0, 1>> /\ activeTurn = NoTurn
        /\ completedTurns = [id \in 1 .. 2 |->
             [id |-> id, player |-> id, round |-> 1, duration |-> duration,
              spoken |-> 0, completed |-> FALSE, score |-> 0]]
    BY <1>2 DEF Init, StoredRoom
  <2>2. DOMAIN completedTurns = 1 .. 2 /\ completedTurns[1].id = 1 /\ completedTurns[2].id = 2
    BY <2>1
  <2>3. Len(completedTurns) = 2
    <3>1. TypeOK
      BY InitType
    <3>2. QED
      BY <2>2, <3>1, CompletedTurnsShape DEF TypeOK
  <2>4. Len(asked) = 2 /\ DOMAIN asked = 1 .. 2 /\ asked[1] = 0 /\ asked[2] = 1
    BY <2>1
  <2>5. \A k \in 1 .. 2 : k = 1 \/ k = 2
    OBVIOUS
  <2>6. QED
    BY <2>1, <2>2, <2>3, <2>4, <2>5 DEF AskedInv
<1>3. QED
  BY <1>1, <1>2 DEF Init

(* A request to go on starts at most one turn (start-turn, afterTurnId).   *)
THEOREM OneTurnEach == Spec => []OneTurnPerRequest
<1>1. Init => TypeOK /\ TurnIdsInv /\ AskedInv
  BY InitType, AskedInit
<1>2. TypeOK /\ TurnIdsInv /\ AskedInv /\ [Next]_vars => TypeOK' /\ TurnIdsInv' /\ AskedInv'
  BY NextType, AskedStep
<1>3. TypeOK /\ AskedInv => OneTurnPerRequest
  BY AskedOnce
<1>4. QED
  BY <1>1, <1>2, <1>3, PTL DEF Spec

-----------------------------------------------------------------------------
(* The order of turns *)

LEMMA SubmitTurnKeepsOrder ==
  ASSUME TypeOK, TurnOrder, NEW token, NEW turnId, NEW claim, NEW requested \in BOOLEAN,
         SubmitTurn(token, turnId, claim, requested)
  PROVE  TurnOrder'
<1> DEFINE n == Len(completedTurns)
           due == players[currentPlayer]
           last == completedTurns'[n + 1]
<1>1. /\ activeTurn # NoTurn /\ activeTurn' = NoTurn /\ phase = "playing" /\ Advance
      /\ players' = players
  BY DEF SubmitTurn, DrivesTurn, seatVars
<1>2. /\ Len(completedTurns') = n + 1
      /\ \A i \in 1 .. n : completedTurns'[i] = completedTurns[i]
      /\ last.player = activeTurn.player /\ last.round = activeTurn.round
  BY SubmittedTurn
<1>3. n \in Nat /\ Len(players) \in Nat /\ DOMAIN players = 1 .. Len(players)
  BY AskedShape, PlayersShape
<1>4. /\ currentPlayer \in DOMAIN players /\ currentRound \in Nat
      /\ activeTurn.player = due /\ activeTurn.round = currentRound
  BY <1>1 DEF TurnOrder, TypeOK, TurnsTypeOK
<1>5. FollowsInOrder(last, players[currentPlayer'], currentRound')
  <2>1. CASE currentPlayer = Len(players)
    <3>1. currentPlayer' = 1 /\ currentRound' = currentRound + 1
      BY <1>1, <1>3, <2>1 DEF Advance
    <3>2. QED
      BY <1>2, <1>4, <2>1, <3>1 DEF FollowsInOrder
  <2>2. CASE currentPlayer # Len(players)
    <3>1. currentPlayer' = currentPlayer + 1 /\ currentRound' = currentRound
      BY <1>1, <1>3, <1>4, <2>2 DEF Advance
    <3>2. QED
      BY <1>2, <1>4, <2>2, <3>1 DEF FollowsInOrder
  <2>3. QED
    BY <2>1, <2>2
<1>6. currentPlayer' \in DOMAIN players
  BY <1>1, <1>3, <1>4 DEF Advance
<1>7. IF n = 0 THEN due = players[1] /\ currentRound = 1
      ELSE /\ completedTurns[1].player = players[1] /\ completedTurns[1].round = 1
           /\ \A k \in 1 .. n - 1 :
                FollowsInOrder(completedTurns[k], completedTurns[k + 1].player,
                               completedTurns[k + 1].round)
           /\ FollowsInOrder(completedTurns[n], due, currentRound)
  BY <1>1 DEF TurnOrder
<1> HIDE DEF n, due, last
<1>8. completedTurns'[1].player = players[1] /\ completedTurns'[1].round = 1
  <2>1. CASE n = 0
    BY <1>2, <1>4, <1>7, <2>1 DEF last
  <2>2. CASE n # 0
    BY <1>2, <1>3, <1>7, <2>2
  <2>3. QED
    BY <2>1, <2>2
<1>9. ASSUME NEW k \in 1 .. n
      PROVE FollowsInOrder(completedTurns'[k], completedTurns'[k + 1].player,
                           completedTurns'[k + 1].round)
  <2>1. CASE k = n
    BY <1>2, <1>3, <1>4, <1>7, <2>1 DEF last
  <2>2. CASE k # n
    <3>1. k \in 1 .. n - 1 /\ k + 1 \in 1 .. n /\ n # 0
      BY <1>3, <2>2
    <3>2. QED
      BY <1>2, <1>7, <3>1
  <2>3. QED
    BY <2>1, <2>2
<1>10. FollowsInOrder(completedTurns'[n + 1], players[currentPlayer'], currentRound')
  BY <1>5 DEF last
<1>11. n + 1 # 0 /\ (n + 1) - 1 = n
  BY <1>3
<1>12. QED
  BY <1>1, <1>2, <1>6, <1>8, <1>9, <1>10, <1>11 DEF TurnOrder, FollowsInOrder

LEMMA OrderStep == ASSUME TypeOK, TurnOrder, [Next]_vars PROVE TurnOrder'
<1>1. ASSUME phase' # "playing" PROVE TurnOrder'
  BY <1>1 DEF TurnOrder
<1>2. ASSUME UNCHANGED <<phase, players, currentPlayer, currentRound, completedTurns>>,
             \/ activeTurn' = activeTurn
             \/ activeTurn # NoTurn /\ activeTurn'.player = activeTurn.player
                                  /\ activeTurn'.round = activeTurn.round
             \/ /\ currentPlayer \in DOMAIN players
                /\ activeTurn'.player = players[currentPlayer]
                /\ activeTurn'.round = currentRound
      PROVE TurnOrder'
  BY <1>2 DEF TurnOrder, FollowsInOrder
<1>3. CASE SeatStep
  BY <1>1, <1>3 DEF SeatStep, InSetup, NewSeat, MovePlayer, RemoveSeat, turnVars
<1>4. CASE TalkStep
  BY <1>2, <1>4 DEF TalkStep, turnVars
<1>5. CASE ClearStep
  <2>1. CASE phase' = "setup"
    BY <1>1, <2>1
  <2>2. CASE phase' = "playing"
    <3>1. /\ Len(players) >= 2 /\ players' = players /\ activeTurn' = NoTurn
          /\ completedTurns' = <<>> /\ currentPlayer' = 1 /\ currentRound' = 1
      BY <1>5, <2>2 DEF ClearStep, ClearTable, seatVars
    <3>2. 1 \in DOMAIN players'
      BY <3>1, PlayersShape
    <3>3. Len(completedTurns') = 0
      BY <3>1, EmptySeq
    <3>4. QED
      BY <3>1, <3>2, <3>3 DEF TurnOrder
  <2>3. QED
    BY <1>5, <2>1, <2>2 DEF ClearStep
<1>6. CASE ClockStep
  <2>1. activeTurn \in Turn /\ activeTurn # NoTurn
    BY <1>6, ActiveTurnShape DEF TypeOK, ClockStep, BeginTurn, DrivesTurn, Tick, NotBegun, NoTurn
  <2>2. activeTurn'.player = activeTurn.player /\ activeTurn'.round = activeTurn.round
    BY <1>6, <2>1 DEF ClockStep, BeginTurn, Tick, Turn
  <2>3. UNCHANGED <<phase, players, currentPlayer, currentRound, completedTurns>>
    BY <1>6 DEF ClockStep, BeginTurn, Tick, seatVars
  <2>4. QED
    BY <1>2, <2>1, <2>2, <2>3
<1>7. ASSUME NEW token, NEW turnId, StartTurn(token, turnId) PROVE TurnOrder'
  <2>1. /\ currentPlayer \in DOMAIN players /\ activeTurn'.player = players[currentPlayer]
        /\ activeTurn'.round = currentRound
        /\ UNCHANGED <<phase, players, currentPlayer, currentRound, completedTurns>>
    BY <1>7 DEF StartTurn, seatVars
  <2>2. QED
    BY <1>2, <2>1
<1>8. ASSUME NEW token, NEW turnId, RedrawTurn(token, turnId) PROVE TurnOrder'
  <2>1. activeTurn \in Turn /\ activeTurn # NoTurn
    BY <1>8, ActiveTurnShape DEF TypeOK, RedrawTurn, DrivesTurn
  <2>2. /\ activeTurn'.player = activeTurn.player /\ activeTurn'.round = activeTurn.round
        /\ UNCHANGED <<phase, players, currentPlayer, currentRound, completedTurns>>
    BY <1>8, <2>1 DEF RedrawTurn, Turn, seatVars
  <2>3. QED
    BY <1>2, <2>1, <2>2
<1>9. QED
  BY <1>3, <1>4, <1>5, <1>6, <1>7, <1>8, Steps, SubmitTurnKeepsOrder

(* The turns of a game go round the table in seating order (start-turn,    *)
(* submit-turn, advance).                                                  *)
THEOREM TurnsInOrder == Spec => []TurnOrder
<1>1. Init => TypeOK /\ TurnIdsInv /\ TurnOrder
  BY InitType DEF Init, NewRoom, StoredRoom, TurnOrder
<1>2. TypeOK /\ TurnIdsInv /\ TurnOrder /\ [Next]_vars => TypeOK' /\ TurnIdsInv' /\ TurnOrder'
  BY NextType, OrderStep
<1>3. QED
  BY <1>1, <1>2, PTL DEF Spec

-----------------------------------------------------------------------------
(* As many turns for everyone *)

\* What each seat has had of a game, and what it still may get.
TurnsOf(id) == {k \in DOMAIN completedTurns : completedTurns[k].player = id}
Share(seat) == IF seat < currentPlayer THEN currentRound ELSE currentRound - 1

SharesInv ==
  /\ phase # "setup" =>
       /\ \A seat \in DOMAIN players : Cardinality(TurnsOf(players[seat])) = Share(seat)
       /\ \A k \in DOMAIN completedTurns : completedTurns[k].player \in Seated
  /\ phase = "playing" => currentRound <= rounds
  /\ phase = "finished" => currentPlayer = 1 /\ currentRound = rounds + 1

FairInv == SeatsInv /\ TurnOrder /\ SharesInv

LEMMA TurnsOfFinite == ASSUME TypeOK, NEW id PROVE IsFiniteSet(TurnsOf(id))
<1>1. IsFiniteSet(1 .. Len(completedTurns)) /\ DOMAIN completedTurns = 1 .. Len(completedTurns)
  BY FS_Interval, CompletedTurnsShape DEF TypeOK
<1>2. TurnsOf(id) \in SUBSET (1 .. Len(completedTurns))
  BY <1>1 DEF TurnsOf
<1>3. QED
  BY <1>1, <1>2, FS_Subset

\* The arithmetic of a turn that is over.
LEMMA NextShare ==
  \A seat, current, round, seats \in Int :
    1 <= seat /\ seat <= seats /\ 1 <= current /\ current <= seats =>
      LET wraps == current >= seats
          next == IF wraps THEN 1 ELSE current + 1
          now == IF wraps THEN round + 1 ELSE round
      IN  (IF seat < next THEN now ELSE now - 1)
            = (IF seat < current THEN round ELSE round - 1) + (IF seat = current THEN 1 ELSE 0)
OBVIOUS

LEMMA SubmitTurnKeepsShares ==
  ASSUME TypeOK, FairInv, NEW token, NEW turnId, NEW claim, NEW requested \in BOOLEAN,
         SubmitTurn(token, turnId, claim, requested)
  PROVE  SharesInv'
<1> DEFINE n == Len(completedTurns)
<1>1. /\ phase = "playing" /\ activeTurn # NoTurn /\ Advance
      /\ players' = players /\ rounds' = rounds
  BY DEF SubmitTurn, DrivesTurn, seatVars, settingVars
<1>2. /\ n \in Nat /\ DOMAIN completedTurns = 1 .. n /\ DOMAIN completedTurns' = 1 .. n + 1
      /\ \A i \in 1 .. n : completedTurns'[i] = completedTurns[i]
      /\ completedTurns'[n + 1].player = activeTurn.player
  BY SubmittedTurn, AskedShape
<1>3. /\ DOMAIN players = 1 .. Len(players) /\ Len(players) \in Nat
      /\ currentPlayer \in 1 .. Len(players) /\ currentRound \in Nat \ {0}
      /\ activeTurn.player = players[currentPlayer]
      /\ rounds \in Nat
  BY <1>1, PlayersShape, GameAssumption DEF TypeOK, FairInv, TurnOrder, TurnsTypeOK, SeatsTypeOK
<1>4. /\ currentPlayer' = IF currentPlayer >= Len(players) THEN 1 ELSE currentPlayer + 1
      /\ currentRound' = IF currentPlayer >= Len(players) THEN currentRound + 1 ELSE currentRound
      /\ phase' = IF currentRound' > rounds THEN "finished" ELSE phase
  BY <1>1 DEF Advance
<1> HIDE DEF n
<1>5. ASSUME NEW seat \in DOMAIN players
      PROVE  Cardinality(TurnsOf(players[seat])') = Share(seat)'
  <2> DEFINE old == TurnsOf(players[seat])
  <2>1. IsFiniteSet(old) /\ Cardinality(old) \in Nat /\ n + 1 \notin old
    <3>1. IsFiniteSet(old)
      BY TurnsOfFinite
    <3>2. n + 1 \notin old
      BY <1>2 DEF TurnsOf
    <3>3. QED
      BY <3>1, <3>2, FS_CardinalityType
  <2>2. Cardinality(old) = Share(seat)
    BY <1>1 DEF FairInv, SharesInv
  <2>3. Share(seat)' = Share(seat) + (IF seat = currentPlayer THEN 1 ELSE 0)
    BY <1>3, <1>4, NextShare DEF Share
  <2>4. CASE seat = currentPlayer
    <3>1. TurnsOf(players[seat])' = old \cup {n + 1}
      BY <1>1, <1>2, <1>3, <2>4 DEF TurnsOf
    <3>2. Cardinality(old \cup {n + 1}) = Cardinality(old) + 1
      BY <2>1, FS_AddElement
    <3>3. QED
      BY <2>2, <2>3, <2>4, <3>1, <3>2
  <2>5. CASE seat # currentPlayer
    <3>1. players[seat] # players[currentPlayer]
      BY <1>3, <2>5 DEF FairInv, SeatsInv, SeatsAreKept, IsInjective
    <3>2. TurnsOf(players[seat])' = old
      BY <1>1, <1>2, <1>3, <3>1 DEF TurnsOf
    <3>3. Share(seat) \in Int
      BY <1>3 DEF Share
    <3>4. QED
      BY <2>2, <2>3, <2>5, <3>2, <3>3
  <2>6. QED
    BY <2>4, <2>5
<1>6. ASSUME NEW k \in 1 .. n + 1 PROVE completedTurns'[k].player \in Seated
  <2>1. k \in 1 .. n \/ k = n + 1
    BY <1>2
  <2>2. QED
    BY <1>1, <1>2, <1>3, <2>1 DEF FairInv, SharesInv, Seated
<1>7. currentRound <= rounds
  BY <1>1 DEF FairInv, SharesInv
<1>8. /\ phase' = "playing" => currentRound' <= rounds
      /\ phase' = "finished" => currentPlayer' = 1 /\ currentRound' = rounds + 1
  <2>1. CASE currentPlayer >= Len(players)
    BY <1>1, <1>3, <1>4, <1>7, <2>1
  <2>2. CASE ~ currentPlayer >= Len(players)
    BY <1>1, <1>3, <1>4, <1>7, <2>2
  <2>3. QED
    BY <2>1, <2>2
<1>9. Seated' = Seated
  BY <1>1 DEF Seated
<1>10. QED
  BY <1>1, <1>2, <1>5, <1>6, <1>8, <1>9 DEF SharesInv

\* The settings of a game that has begun stay.
LEMMA RoundsStay == ASSUME [Next]_vars, phase # "setup" PROVE rounds' = rounds
<1>1. CASE UNCHANGED vars
  BY <1>1 DEF vars, settingVars
<1>2. ASSUME NEW token, NEW id, NEW offset, NEW delta, NEW target,
             \/ JoinRoom(token) \/ AddPlayer(token) \/ Leave(token)
             \/ MovePlayer(token, id, offset) \/ RemovePlayer(token, id)
             \/ CorrectScore(token, id, delta)
             \/ TransferHost(token, target) \/ ClaimHost(token)
      PROVE  rounds' = rounds
  BY <1>2 DEF settingVars, JoinRoom, AddPlayer, Leave, NewSeat, MovePlayer, RemovePlayer,
              RemoveSeat, CorrectScore, TransferHost, ClaimHost
<1>3. ASSUME NEW token, NEW newRounds, NEW newDuration, NEW pack, NEW draft,
             \/ ChangeSettings(token, newRounds, newDuration, pack)
             \/ ApplySetupKit(token, newRounds, newDuration, pack)
             \/ CustomTopics(token, pack, draft) \/ BeginTopicGeneration(token)
      PROVE  FALSE
  BY <1>3 DEF InSetup, ChangeSettings, ApplySetupKit, CustomTopics, BeginTopicGeneration
<1>4. ASSUME NEW token, NEW turnId, NEW claim, NEW requested,
             \/ StartGame(token) \/ ResetGame(token)
             \/ StartTurn(token, turnId) \/ BeginTurn(token, turnId)
             \/ RedrawTurn(token, turnId) \/ SubmitTurn(token, turnId, claim, requested)
             \/ Tick
      PROVE  rounds' = rounds
  BY <1>4 DEF settingVars, StartGame, ResetGame, ClearTable, StartTurn, BeginTurn, RedrawTurn,
              SubmitTurn, Tick
<1>5. QED
  BY <1>1, <1>2, <1>3, <1>4 DEF Next

LEMMA ClearKeepsShares == ASSUME TypeOK, ClearStep PROVE SharesInv'
<1>1. /\ completedTurns' = <<>> /\ currentPlayer' = 1 /\ currentRound' = 1 /\ rounds' = rounds
      /\ players' = players /\ phase' \in {"setup", "playing"}
  BY DEF ClearStep, ClearTable, seatVars, settingVars
<1>2. DOMAIN completedTurns' = {}
  BY <1>1
<1>3. \A seat \in DOMAIN players : TurnsOf(players[seat])' = {}
  BY <1>1, <1>2 DEF TurnsOf
<1>4. \A seat \in DOMAIN players : Share(seat)' = 0
  BY <1>1, PlayersShape DEF Share
<1>5. 1 <= rounds
  BY GameAssumption DEF TypeOK, SeatsTypeOK
<1>6. QED
  BY <1>1, <1>2, <1>3, <1>4, <1>5, FS_EmptySet DEF SharesInv

LEMMA SharesStep == ASSUME TypeOK, FairInv, [Next]_vars PROVE SharesInv'
<1>1. ASSUME UNCHANGED <<phase, players, completedTurns, currentPlayer, currentRound>>
      PROVE  SharesInv'
  <2>1. phase # "setup" => rounds' = rounds
    BY RoundsStay
  <2>2. QED
    BY <1>1, <2>1 DEF FairInv, SharesInv, TurnsOf, Share, Seated
<1>2. CASE SeatStep
  BY <1>2 DEF SeatStep, InSetup, NewSeat, MovePlayer, RemoveSeat, turnVars, SharesInv
<1>3. CASE TalkStep
  BY <1>1, <1>3 DEF TalkStep, turnVars
<1>4. CASE ClearStep
  BY <1>4, ClearKeepsShares
<1>5. CASE ClockStep
  BY <1>1, <1>5 DEF ClockStep, BeginTurn, Tick, seatVars
<1>6. ASSUME NEW token, NEW turnId, StartTurn(token, turnId) \/ RedrawTurn(token, turnId)
      PROVE  SharesInv'
  BY <1>1, <1>6 DEF StartTurn, RedrawTurn, seatVars
<1>7. QED
  BY <1>2, <1>3, <1>4, <1>5, <1>6, Steps, SubmitTurnKeepsShares

LEMMA SharesInit == ASSUME Init PROVE SharesInv
<1>1. CASE NewRoom
  BY <1>1 DEF NewRoom, SharesInv
<1>2. CASE StoredRoom
  <2>1. /\ phase = "finished" /\ players = <<1, 2>> /\ currentPlayer = 1 /\ currentRound = 2
        /\ rounds = 1
    BY <1>2 DEF Init, StoredRoom
  <2>2. DOMAIN completedTurns = 1 .. 2 /\ \A k \in 1 .. 2 : completedTurns[k].player = k
    BY <1>2 DEF StoredRoom
  <2>3. TurnsOf(1) = {1} /\ TurnsOf(2) = {2}
    BY <2>2 DEF TurnsOf
  <2>4. DOMAIN players = 1 .. 2 /\ players[1] = 1 /\ players[2] = 2
    BY <2>1
  <2>5. \A seat \in 1 .. 2 : Cardinality(TurnsOf(players[seat])) = 1
    BY <2>3, <2>4, FS_Singleton
  <2>6. \A seat \in 1 .. 2 : Share(seat) = 1
    BY <2>1 DEF Share
  <2>7. \A k \in 1 .. 2 : k \in Seated
    BY <2>4 DEF Seated
  <2>8. QED
    BY <2>1, <2>2, <2>4, <2>5, <2>6, <2>7 DEF SharesInv
<1>3. QED
  BY <1>1, <1>2 DEF Init

LEMMA SharesAreFair == ASSUME TypeOK, FairInv PROVE EveryoneSpokeAsOften
<1>1. SUFFICES ASSUME phase = "finished", NEW id \in PlayerIds
               PROVE  Cardinality(TurnsOf(id)) = IF id \in Seated THEN rounds ELSE 0
  BY DEF FairInv, EveryoneSpokeAsOften, TurnsOf
<1>2. CASE id \in Seated
  <2>1. PICK seat \in DOMAIN players : players[seat] = id
    BY <1>2 DEF Seated
  <2>2. Share(seat) = rounds
    BY <1>1, PlayersShape, GameAssumption DEF FairInv, SharesInv, Share, TypeOK, SeatsTypeOK
  <2>3. QED
    BY <1>1, <1>2, <2>1, <2>2 DEF FairInv, SharesInv
<1>3. CASE id \notin Seated
  <2>1. TurnsOf(id) = {}
    BY <1>1, <1>3 DEF FairInv, SharesInv, TurnsOf
  <2>2. QED
    BY <1>3, <2>1, FS_EmptySet
<1>4. QED
  BY <1>2, <1>3

(* When a game is over every player has had as many turns as the settings  *)
(* say (submit-turn, advance).                                             *)
THEOREM EveryoneSpoke == Spec => []EveryoneSpokeAsOften
<1>1. Init => TypeOK /\ TurnIdsInv /\ FairInv
  BY InitType, SeatsInit, SharesInit DEF Init, NewRoom, StoredRoom, TurnOrder, FairInv
<1>2. TypeOK /\ TurnIdsInv /\ FairInv /\ [Next]_vars => TypeOK' /\ TurnIdsInv' /\ FairInv'
  BY NextType, SeatsStep, OrderStep, SharesStep DEF FairInv
<1>3. TypeOK /\ FairInv => EveryoneSpokeAsOften
  BY SharesAreFair
<1>4. QED
  BY <1>1, <1>2, <1>3, PTL DEF Spec

-----------------------------------------------------------------------------
(* Scores                                                                  *)

\* All totals of the terms there are, and there are some, end in the sum.
EndIn(term, n, sum) ==
  /\ \E total : AreTotals(total, term, n)
  /\ \A total : AreTotals(total, term, n) => total[n] = sum

LEMMA TotalIs ==
  ASSUME NEW term, NEW n, NEW sum, EndIn(term, n, sum)
  PROVE  Total(term, n) = sum
<1> DEFINE t == CHOOSE total : AreTotals(total, term, n)
<1>1. AreTotals(t, term, n)
  BY DEF EndIn
<1>2. Total(term, n) = t[n]
  BY DEF Total, AreTotals
<1> QED
  BY <1>1, <1>2 DEF EndIn

LEMMA NoTerms ==
  ASSUME NEW term
  PROVE  EndIn(term, 0, 0)
<1>1. AreTotals([k \in 0 .. 0 |-> 0], term, 0)
  BY DEF AreTotals
<1>2. ASSUME NEW total, AreTotals(total, term, 0) PROVE total[0] = 0
  BY <1>2 DEF AreTotals
<1> QED
  BY <1>1, <1>2 DEF EndIn

LEMMA OneMoreTerm ==
  ASSUME NEW n \in Nat, NEW term, NEW more, NEW sum \in Int, EndIn(term, n, sum),
         \A k \in 1 .. n : more[k] = term[k], more[n + 1] \in Int
  PROVE  EndIn(more, n + 1, sum + more[n + 1])
<1>1. \E total : AreTotals(total, more, n + 1)
  <2>1. PICK total : AreTotals(total, term, n)
    BY DEF EndIn
  <2> DEFINE next == [k \in 0 .. n + 1 |-> IF k = n + 1 THEN total[n] + more[k] ELSE total[k]]
  <2>2. \A k \in 0 .. n : total[k] = IF k = 0 THEN 0 ELSE total[k - 1] + term[k]
    BY <2>1 DEF AreTotals
  <2>3. ASSUME NEW k \in 0 .. n + 1
        PROVE  next[k] = IF k = 0 THEN 0 ELSE next[k - 1] + more[k]
    <3>1. CASE k = 0
      BY <2>2, <3>1
    <3>2. CASE k \in 1 .. n
      BY <2>2, <3>2
    <3>3. CASE k = n + 1
      BY <3>3
    <3> QED
      BY <3>1, <3>2, <3>3
  <2>4. AreTotals(next, more, n + 1)
    <3>1. next = [k \in 0 .. n + 1 |-> next[k]]
      OBVIOUS
    <3> HIDE DEF next
    <3> QED
      BY <2>3, <3>1 DEF AreTotals
  <2> QED
    BY <2>4
<1>2. ASSUME NEW total, AreTotals(total, more, n + 1)
      PROVE  total[n + 1] = sum + more[n + 1]
  <2> DEFINE before == [k \in 0 .. n |-> total[k]]
  <2>1. \A k \in 0 .. n + 1 : total[k] = IF k = 0 THEN 0 ELSE total[k - 1] + more[k]
    BY <1>2 DEF AreTotals
  <2>2. ASSUME NEW k \in 0 .. n
        PROVE  before[k] = IF k = 0 THEN 0 ELSE before[k - 1] + term[k]
    <3>1. CASE k = 0
      BY <2>1, <3>1
    <3>2. CASE k \in 1 .. n
      BY <2>1, <3>2
    <3> QED
      BY <3>1, <3>2
  <2>3. AreTotals(before, term, n)
    <3>1. before = [k \in 0 .. n |-> before[k]]
      OBVIOUS
    <3> HIDE DEF before
    <3> QED
      BY <2>2, <3>1 DEF AreTotals
  <2>4. total[n] = sum
    BY <2>3 DEF EndIn
  <2> QED
    BY <2>1, <2>4
<1> QED
  BY <1>1, <1>2 DEF EndIn

\* The score without the corrections is the total of the turns.
Sums == \A id \in PlayerIds : EndIn(Gains(id), Len(completedTurns), score[id] - corrections[id])
ScoresInv == Sums /\ (phase = "setup" => completedTurns = <<>>)

LEMMA SameTable ==
  ASSUME TypeOK, Sums, UNCHANGED completedTurns,
         \A id \in PlayerIds : score'[id] - corrections'[id] = score[id] - corrections[id]
  PROVE  Sums'
<1>1. \A id : Gains(id)' = Gains(id)
  BY DEF Gains
<1> QED
  BY <1>1 DEF Sums

LEMMA NoTurnsNoScores ==
  ASSUME completedTurns' = <<>>,
         \A id \in PlayerIds : score'[id] = 0 /\ corrections'[id] = 0
  PROVE  Sums'
  BY NoTerms DEF Sums

LEMMA CorrectionKeepsSums ==
  ASSUME TypeOK, Sums, NEW token, NEW id \in PlayerIds, NEW delta \in Deltas,
         CorrectScore(token, id, delta)
  PROVE  Sums'
<1> DEFINE raised == IF score[id] + delta > 0 THEN score[id] + delta ELSE 0
           net == corrections[id] + score'[id] - score[id]
<1>1. /\ score \in [PlayerIds -> Nat] /\ corrections \in [PlayerIds -> Int] /\ delta \in Int
  BY GameAssumption DEF TypeOK, ScoresTypeOK
<1>2. /\ score' = [score EXCEPT ![id] = raised]
      /\ corrections' = [corrections EXCEPT ![id] = net]
  BY <1>1 DEF CorrectScore
<1>3. score'[id] = raised /\ raised \in Nat /\ net = corrections[id] + raised - score[id]
  BY <1>1, <1>2
<1> HIDE DEF raised, net
<1>4. \A other \in PlayerIds : score'[other] - corrections'[other] = score[other] - corrections[other]
  BY <1>1, <1>2, <1>3
<1> QED
  BY <1>4, SameTable DEF CorrectScore, turnVars

LEMMA SubmitTurnKeepsSums ==
  ASSUME TypeOK, Sums, NEW token, NEW turnId, NEW claim, NEW requested \in BOOLEAN,
         SubmitTurn(token, turnId, claim, requested)
  PROVE  Sums'
<1> DEFINE n == Len(completedTurns)
           last == completedTurns'[n + 1]
<1>1. /\ activeTurn \in Turn /\ Len(completedTurns') = n + 1
      /\ DOMAIN completedTurns' = 1 .. n + 1
      /\ \A k \in 1 .. n : completedTurns'[k] = completedTurns[k]
      /\ last.player = activeTurn.player
      /\ last.spoken \in Nat
      /\ last.score = last.spoken + (IF requested /\ last.spoken >= activeTurn.duration
                                       THEN CompletionBonus ELSE 0)
  BY SubmittedTurn
<1>2. n \in Nat /\ DOMAIN completedTurns = 1 .. n
  BY CompletedTurnsShape DEF TypeOK
<1>3. last.score \in Nat
  BY <1>1, GameAssumption
<1>4. /\ score' = [score EXCEPT ![activeTurn.player] = score[activeTurn.player] + last.score]
      /\ corrections' = corrections
  <2>1. last.spoken = SpokenSeconds(~ IsHost(token), claim, requested)
    BY SubmittedTurn
  <2>2. /\ score \in [PlayerIds -> Nat] /\ activeTurn.player \in PlayerIds
    BY <1>1 DEF TypeOK, ScoresTypeOK, Turn
  <2> HIDE DEF last
  <2> QED
    BY <1>1, <2>1, <2>2 DEF SubmitTurn
<1>5. score \in [PlayerIds -> Nat] /\ corrections \in [PlayerIds -> Int]
  BY DEF TypeOK, ScoresTypeOK
<1> SUFFICES ASSUME NEW id \in PlayerIds
             PROVE  EndIn(Gains(id)', n + 1, score'[id] - corrections'[id])
  BY <1>1 DEF Sums
<1> DEFINE gained == IF last.player = id THEN last.score ELSE 0
<1>6. /\ \A k \in 1 .. n : Gains(id)'[k] = Gains(id)[k]
      /\ Gains(id)'[n + 1] = gained
  BY <1>1, <1>2 DEF Gains
<1>7. gained \in Int
  BY <1>3
<1>8. score'[id] - corrections'[id] = (score[id] - corrections[id]) + gained
  <2> HIDE DEF last
  <2>1. CASE activeTurn.player = id
    BY <1>1, <1>3, <1>4, <1>5, <2>1
  <2>2. CASE activeTurn.player # id
    BY <1>1, <1>3, <1>4, <1>5, <2>2
  <2> QED
    BY <2>1, <2>2
<1>9. EndIn(Gains(id), n, score[id] - corrections[id])
  BY DEF Sums
<1>10. score[id] - corrections[id] \in Int
  BY <1>5
<1> HIDE DEF n, last, gained
<1>11. EndIn(Gains(id)', n + 1, (score[id] - corrections[id]) + gained)
  BY <1>2, <1>6, <1>7, <1>9, <1>10, OneMoreTerm
<1> QED
  BY <1>8, <1>11

LEMMA ScoresStep == ASSUME TypeOK, ScoresInv, [Next]_vars PROVE ScoresInv'
<1>1. CASE SeatStep
  <2>1. UNCHANGED <<phase, completedTurns>> /\ completedTurns = <<>>
    BY <1>1 DEF SeatStep, InSetup, NewSeat, MovePlayer, RemoveSeat, turnVars, ScoresInv
  <2>2. ASSUME UNCHANGED scoreVars PROVE Sums'
    BY <2>1, <2>2, SameTable DEF scoreVars, ScoresInv
  <2>3. ASSUME NEW id, RemoveSeat(id) PROVE Sums'
    <3>1. /\ score' = [score EXCEPT ![id] = 0]
          /\ corrections' = [corrections EXCEPT ![id] = 0]
      BY <2>3 DEF RemoveSeat
    <3>2. score \in [PlayerIds -> Nat] /\ corrections \in [PlayerIds -> Int]
      BY DEF TypeOK, ScoresTypeOK
    <3>3. ASSUME NEW other \in PlayerIds
          PROVE  EndIn(Gains(other)', 0, score'[other] - corrections'[other])
      <4>1. CASE other = id
        BY <3>1, <3>2, <4>1, NoTerms
      <4>2. CASE other # id
        <5>1. Gains(other)' = Gains(other)
          BY <2>1 DEF Gains
        <5>2. score'[other] = score[other] /\ corrections'[other] = corrections[other]
          BY <3>1, <3>2, <4>2
        <5>3. EndIn(Gains(other), Len(completedTurns), score[other] - corrections[other])
          BY DEF ScoresInv, Sums
        <5> QED
          BY <2>1, <5>1, <5>2, <5>3
      <4> QED
        BY <4>1, <4>2
    <3> QED
      BY <2>1, <3>3 DEF Sums
  <2> QED
    BY <1>1, <2>1, <2>2, <2>3 DEF SeatStep, NewSeat, MovePlayer, ScoresInv
<1>2. CASE ClearStep
  <2>1. /\ completedTurns' = <<>>
        /\ \A id \in PlayerIds : score'[id] = 0 /\ corrections'[id] = 0
    BY <1>2 DEF ClearStep, ClearTable
  <2> QED
    BY <2>1, NoTurnsNoScores DEF ScoresInv
<1>3. CASE ClockStep
  <2>1. UNCHANGED <<phase, completedTurns, scoreVars>>
    BY <1>3 DEF ClockStep, BeginTurn, Tick
  <2> QED
    BY <2>1, SameTable DEF scoreVars, ScoresInv
<1>4. ASSUME NEW token, NEW turnId, StartTurn(token, turnId) \/ RedrawTurn(token, turnId)
      PROVE  ScoresInv'
  <2>1. UNCHANGED <<phase, completedTurns, scoreVars>>
    BY <1>4 DEF StartTurn, RedrawTurn
  <2> QED
    BY <2>1, SameTable DEF scoreVars, ScoresInv
<1>5. ASSUME NEW token, NEW turnId, NEW claim, NEW requested \in BOOLEAN,
             SubmitTurn(token, turnId, claim, requested)
      PROVE  ScoresInv'
  <2>1. phase = "playing" /\ phase' # "setup"
    BY <1>5 DEF SubmitTurn, DrivesTurn, Advance
  <2> QED
    BY <1>5, <2>1, SubmitTurnKeepsSums DEF ScoresInv
<1>6. CASE TalkStep
  <2>1. UNCHANGED <<phase, completedTurns>>
    BY <1>6 DEF TalkStep, turnVars
  <2>2. ASSUME UNCHANGED scoreVars PROVE ScoresInv'
    BY <2>1, <2>2, SameTable DEF scoreVars, ScoresInv
  <2>3. ASSUME NEW token, NEW id, NEW delta \in Deltas, CorrectScore(token, id, delta)
        PROVE  ScoresInv'
    <3>1. id \in PlayerIds
      BY <2>3 DEF CorrectScore, Seated, TypeOK, SeatsTypeOK
    <3> QED
      BY <2>1, <2>3, <3>1, CorrectionKeepsSums DEF ScoresInv
  <2> QED
    BY <1>6, <2>2, <2>3 DEF TalkStep
<1> QED
  BY <1>1, <1>2, <1>3, <1>4, <1>5, <1>6, Steps

LEMMA ScoresInit == ASSUME Init PROVE ScoresInv
<1>1. \A id \in PlayerIds : score[id] - corrections[id] = 0
  BY DEF Init
<1>2. CASE NewRoom
  BY <1>1, <1>2, NoTerms DEF NewRoom, ScoresInv, Sums
<1>3. CASE StoredRoom
  <2>1. /\ phase = "finished" /\ Len(completedTurns) = 2 /\ DOMAIN completedTurns = 1 .. 2
        /\ \A k \in 1 .. 2 : completedTurns[k].score = 0
    BY <1>3 DEF StoredRoom
  <2>2. ASSUME NEW id \in PlayerIds PROVE EndIn(Gains(id), 2, 0)
    <3> DEFINE gains == Gains(id)
    <3>1. gains[1] = 0 /\ gains[2] = 0
      BY <2>1 DEF Gains
    <3> HIDE DEF gains
    <3>2. EndIn(gains, 0 + 1, 0 + gains[0 + 1])
      BY <3>1, NoTerms, OneMoreTerm
    <3>3. EndIn(gains, 1 + 1, 0 + gains[1 + 1])
      BY <3>1, <3>2, OneMoreTerm
    <3> QED
      BY <3>1, <3>3 DEF gains
  <2> QED
    BY <1>1, <2>1, <2>2 DEF ScoresInv, Sums
<1> QED
  BY <1>2, <1>3 DEF Init

(* The scores are what the turns on the table and the corrections of the   *)
(* host add up to, for any number of turns, games and requests that come   *)
(* late or twice (submit-turn, score, removePlayer, start-game, reset).    *)
THEOREM ScoresSum == Spec => []ScoresAddUp
<1>1. Init => TypeOK /\ TurnIdsInv /\ ScoresInv
  BY InitType, ScoresInit
<1>2. TypeOK /\ TurnIdsInv /\ ScoresInv /\ [Next]_vars => TypeOK' /\ TurnIdsInv' /\ ScoresInv'
  BY NextType, ScoresStep
<1>3. TypeOK /\ ScoresInv => ScoresAddUp
  <2> SUFFICES ASSUME TypeOK, ScoresInv, NEW id \in PlayerIds
               PROVE  score[id] = corrections[id] + Total(Gains(id), Len(completedTurns))
    BY DEF ScoresAddUp
  <2>1. Total(Gains(id), Len(completedTurns)) = score[id] - corrections[id]
    BY TotalIs DEF ScoresInv, Sums
  <2> QED
    BY <2>1 DEF TypeOK, ScoresTypeOK
<1> QED
  BY <1>1, <1>2, <1>3, PTL DEF Spec

(* Turns go round the table, a request to go on starts one of them, and in *)
(* the end nobody had more than another (start-turn, submit-turn).         *)
THEOREM TurnsFair == Spec => []TurnsAreFair
BY TurnsInOrder, OneTurnEach, EveryoneSpoke, PTL DEF TurnsAreFair

(* The deck is drawn from in rounds, and no draft it replaces has become   *)
(* stale (drawTopic, custom-topics).                                       *)
THEOREM DeckLawful == Spec => DeckIsLawful
BY TopicsRotateAlways, DraftsCurrent DEF DeckIsLawful

(* What the room keeps of seats, games and remote speakers is true         *)
(* (removePlayer, archiveFinishedGame, submit-turn).                       *)
THEOREM RecordsTrue == Spec => []RecordsAreTrue
BY SeatsKept, GamesArchived, RemoteTimeWitnessed, PTL DEF RecordsAreTrue
=============================================================================
