------------------------------ MODULE TopicDeck ------------------------------
(***************************************************************************)
(* The topics of a room and the shuffled deck they are drawn from          *)
(* (drawTopic, shuffleDeck and resetDeck of cloudflare/game.ts), with the  *)
(* generation number that tells a current generated draft from a stale     *)
(* one.  Indexes count from 1.                                             *)
(***************************************************************************)
EXTENDS Integers, Sequences

CONSTANTS
  TopicLists,      \* the built-in packs and the lists a host may type in
  DefaultTopics    \* the pack of a new room

NoIndex == 0
NoTopic == "none"

ASSUME TopicListAssumption ==
  /\ DefaultTopics \in TopicLists
  /\ \A list \in TopicLists :
       /\ list \in Seq(STRING \ {NoTopic})
       /\ list # <<>>
       /\ \A i, j \in DOMAIN list : list[i] = list[j] => i = j

VARIABLES
  topics,           \* room.topics
  deck,             \* room.deck: the indexes of topics, shuffled
  deckCursor,       \* room.deckCursor: how many of the deck are drawn
  lastTopicIndex,   \* room.lastTopicIndex
  topicGeneration,  \* room.topicGeneration
  drafts,           \* history: generations reserved for a generated draft
  superseded,       \* history: drafts made stale by a later edit or request
  seen,             \* history: topics drawn since the deck was last full
  previous          \* history: the topic drawn last from this list

deckVars == <<deck, deckCursor, lastTopicIndex, seen, previous>>
draftVars == <<topicGeneration, drafts, superseded>>
topicVars == <<topics, deckVars, draftVars>>

Orders(n) ==
  {order \in [1 .. n -> 1 .. n] :
     \A i, j \in 1 .. n : order[i] = order[j] => i = j}

\* shuffleDeck: any order; if it starts with the last topic drawn, that one
\* changes places with another.
Shuffles(n, last) ==
  UNION {IF n > 1 /\ order[1] = last
           THEN {[order EXCEPT ![1] = order[k], ![k] = order[1]] : k \in 2 .. n}
           ELSE {order} : order \in Orders(n)}

\* validDeck
DeckIsValid ==
  /\ Len(deck) = Len(topics)
  /\ deckCursor \in 0 .. Len(deck)
  /\ \A i \in DOMAIN deck : deck[i] \in DOMAIN topics
  /\ \A i, j \in DOMAIN deck : deck[i] = deck[j] => i = j

\* drawTopic
DrawTopic ==
  /\ IF DeckIsValid /\ deckCursor < Len(deck)
       THEN deck' = deck /\ deckCursor' = deckCursor + 1
       ELSE deck' \in Shuffles(Len(topics), lastTopicIndex) /\ deckCursor' = 1
  /\ lastTopicIndex' = deck'[deckCursor']
  /\ previous' = topics[lastTopicIndex']
  /\ seen' = LET all == seen \cup {previous'}
             IN  IF \A i \in DOMAIN topics : topics[i] \in all THEN {} ELSE all

\* resetDeck, which leaves lastTopicIndex alone.
ResetDeck ==
  /\ deck' = <<>>
  /\ deckCursor' = 0
  /\ seen' = {}

\* room.topicGeneration + 1: no draft reserved so far is current any more.
NextGeneration ==
  /\ topicGeneration' = topicGeneration + 1
  /\ superseded' = drafts

\* What settings, apply-setup-kit and custom-topics have in common.
ReplaceTopics(list) ==
  /\ topics' = list
  /\ NextGeneration
  /\ ResetDeck
  /\ previous' = NoTopic
  /\ UNCHANGED drafts

\* beginTopicGeneration: reserve a number for a draft to come.
ReserveDraft ==
  /\ NextGeneration
  /\ drafts' = drafts \cup {topicGeneration'}
  /\ UNCHANGED <<topics, deckVars>>

TopicsTypeOK ==
  /\ topics \in TopicLists
  /\ deck \in {<<>>} \cup Orders(Len(topics))
  /\ deckCursor \in 0 .. Len(deck)
  /\ lastTopicIndex \in Nat
  /\ topicGeneration \in Nat
  /\ superseded \subseteq drafts /\ drafts \subseteq 1 .. topicGeneration
  /\ \A topic \in seen \cup ({previous} \ {NoTopic}) : \E i \in DOMAIN topics : topics[i] = topic

TopicsInit ==
  /\ topics = DefaultTopics
  /\ deck = <<>> /\ deckCursor = 0 /\ lastTopicIndex = NoIndex
  /\ topicGeneration = 0 /\ drafts = {} /\ superseded = {}
  /\ seen = {} /\ previous = NoTopic

=============================================================================
