-------------------------- MODULE RoomRoutingProofs --------------------------
(***************************************************************************)
(* The rules of host presence, of the one way every milestone has into the *)
(* database, and of the facts about the rooms: for any number of browsers, *)
(* sockets, rooms, requests and events.  The inductive invariant           *)
(* RoutingInv is a conjunction of one part for each:                       *)
(*   HostInv    the recorded absence of the host against its sockets and   *)
(*              its last proof of presence;                                *)
(*   PlacesInv  the queue, the tasks, the counts and the events given up   *)
(*              partition the events, and no two tasks are of one request; *)
(*   FactsInv   the stamps of requests (life, version, time), wherever     *)
(*              they are on their way, are ordered as the requests were.   *)
(***************************************************************************)
EXTENDS RoomRouting, SequenceTheorems, FiniteSetTheorems, TLAPS

-----------------------------------------------------------------------------
(* The host                                                                *)

(* The inductive invariant.  Beside the two invariants that relate the     *)
(* recorded time to the sockets, the recorded time is never earlier than   *)
(* the last proof of presence: that is what the grace is counted from.     *)
NotBeforeProof == hostDisconnectedAt # Here => hostDisconnectedAt >= lastProof

SignsInThePast == lastProof <= clock /\ lastSign <= clock

PresenceInv ==
  /\ TypeOK
  /\ AbsentHostIsNoted
  /\ OnlineHostIsPresent
  /\ NotBeforeProof
  /\ SignsInThePast
  /\ TakeoverIsNotDelayed

(* Rounding up to a bucket adds at least something and at most a bucket.   *)
LEMMA BucketBounds ==
  ASSUME NEW now \in Nat, NEW size \in Nat \ {0}
  PROVE  LET end == (now \div size + 1) * size
         IN  end \in Nat /\ now < end /\ end <= now + size
<1> DEFINE q == now \div size
<1>1. q \in Nat /\ q * size <= now /\ now < q * size + size
  OBVIOUS
<1>2. (q + 1) * size = q * size + size /\ q * size \in Nat
  BY <1>1
<1> QED
  BY <1>1, <1>2

LEMMA LeaseBounds ==
  ASSUME clock \in Nat
  PROVE  Lease \in Nat /\ clock < Lease /\ Lease <= clock + Bucket
BY BucketBounds, PresenceAssumption DEF Lease

LEMMA InitHolds == Init => PresenceInv
BY PresenceAssumption
   DEF Init, PresenceInv, TypeOK, AbsentHostIsNoted, OnlineHostIsPresent, NotBeforeProof,
       SignsInThePast, TakeoverIsNotDelayed, Online, Here

LEMMA JoinKeeps ==
  ASSUME PresenceInv, NEW token \in Tokens, Join(token)
  PROVE  PresenceInv'
BY DEF Join, PresenceInv, TypeOK, AbsentHostIsNoted, OnlineHostIsPresent, NotBeforeProof,
       SignsInThePast, TakeoverIsNotDelayed, Online, Here

LEMMA ActKeeps ==
  ASSUME PresenceInv, NEW token \in Tokens, NEW gone, Act(token, gone)
  PROVE  PresenceInv'
BY PresenceAssumption
   DEF Act, NoteHTTPHost, HostIsSeen, PresenceInv, TypeOK, AbsentHostIsNoted,
       OnlineHostIsPresent, NotBeforeProof, SignsInThePast, TakeoverIsNotDelayed, Online, Here

LEMMA OpenSocketKeeps ==
  ASSUME PresenceInv, NEW token \in Tokens, OpenSocket(token)
  PROVE  PresenceInv'
BY PresenceAssumption
   DEF OpenSocket, HostIsSeen, PresenceInv, TypeOK, AbsentHostIsNoted,
       OnlineHostIsPresent, NotBeforeProof, SignsInThePast, TakeoverIsNotDelayed, Online, Here

LEMMA LoseSocketKeeps ==
  ASSUME PresenceInv, NEW token \in Tokens, LoseSocket(token)
  PROVE  PresenceInv'
BY PresenceAssumption
   DEF LoseSocket, HostIsSeen, PresenceInv, TypeOK, AbsentHostIsNoted,
       OnlineHostIsPresent, NotBeforeProof, SignsInThePast, TakeoverIsNotDelayed, Online, Here

LEMMA CloseEventKeeps ==
  ASSUME PresenceInv, NEW token \in Tokens, CloseEvent(token)
  PROVE  PresenceInv'
BY PresenceAssumption
   DEF CloseEvent, RecordDisconnect, HostLeft, PresenceInv, TypeOK, AbsentHostIsNoted,
       OnlineHostIsPresent, NotBeforeProof, SignsInThePast, TakeoverIsNotDelayed, Online, Here

LEMMA ReadStateKeeps ==
  ASSUME PresenceInv, NEW token \in Tokens, ReadState(token)
  PROVE  PresenceInv'
<1>1. clock \in Nat /\ Lease \in Nat /\ clock < Lease /\ Lease <= clock + Bucket
  BY LeaseBounds DEF PresenceInv, TypeOK
<1> QED
  BY <1>1, PresenceAssumption
     DEF ReadState, HostIsSeen, PresenceInv, TypeOK, AbsentHostIsNoted,
         OnlineHostIsPresent, NotBeforeProof, SignsInThePast, TakeoverIsNotDelayed, Online, Here

LEMMA TransferHostKeeps ==
  ASSUME PresenceInv, NEW token \in Tokens, NEW target \in Tokens, TransferHost(token, target)
  PROVE  PresenceInv'
BY PresenceAssumption
   DEF TransferHost, HostIsSeen, PresenceInv, TypeOK, AbsentHostIsNoted,
       OnlineHostIsPresent, NotBeforeProof, SignsInThePast, TakeoverIsNotDelayed, Online, Here

LEMMA ClaimHostKeeps ==
  ASSUME PresenceInv, NEW token \in Tokens, ClaimHost(token)
  PROVE  PresenceInv'
BY PresenceAssumption
   DEF ClaimHost, HostIsSeen, PresenceInv, TypeOK, AbsentHostIsNoted,
       OnlineHostIsPresent, NotBeforeProof, SignsInThePast, TakeoverIsNotDelayed, Online, Here

LEMMA NextKeeps == PresenceInv /\ [Next]_vars => PresenceInv'
<1> SUFFICES ASSUME PresenceInv, [Next]_vars
             PROVE  PresenceInv'
  OBVIOUS
<1>1. ASSUME NEW token \in Tokens, Join(token) PROVE PresenceInv'
  BY <1>1, JoinKeeps
<1>2. ASSUME NEW token \in Tokens, NEW gone, Act(token, gone) PROVE PresenceInv'
  BY <1>2, ActKeeps
<1>3. ASSUME NEW token \in Tokens,
             OpenSocket(token) \/ LoseSocket(token) \/ CloseEvent(token)
      PROVE  PresenceInv'
  BY <1>3, OpenSocketKeeps, LoseSocketKeeps, CloseEventKeeps
<1>4. ASSUME NEW token \in Tokens, ReadState(token) PROVE PresenceInv'
  BY <1>4, ReadStateKeeps
<1>5. ASSUME NEW token \in Tokens, NEW target \in Tokens, TransferHost(token, target)
      PROVE  PresenceInv'
  BY <1>5, TransferHostKeeps
<1>6. ASSUME NEW token \in Tokens, ClaimHost(token) PROVE PresenceInv'
  BY <1>6, ClaimHostKeeps
<1>7. CASE Tick
  BY <1>7 DEF Tick, PresenceInv, TypeOK, AbsentHostIsNoted, OnlineHostIsPresent,
              NotBeforeProof, SignsInThePast, TakeoverIsNotDelayed, Online, Here
<1>8. CASE UNCHANGED vars
  BY <1>8 DEF vars, PresenceInv, TypeOK, AbsentHostIsNoted, OnlineHostIsPresent,
              NotBeforeProof, SignsInThePast, TakeoverIsNotDelayed, Online, Here
<1> QED
  BY <1>1, <1>2, <1>3, <1>4, <1>5, <1>6, <1>7, <1>8 DEF Next

(* The sockets, the seats and the host role alone: the inductive invariant *)
(* holds in every reachable state of a room.                               *)
THEOREM PresenceInvariant == Spec => []PresenceInv
BY InitHolds, NextKeeps, PTL DEF Spec

-----------------------------------------------------------------------------
(* Where milestones are, and what they are made of                        *)

Kinds == {"created", "joined", "game-started", "turn-completed", "game-finished", "reset"}
Events == [life : Nat, version : Nat, kind : Kinds]
Rows == [life : Nat, version : Nat, kind : Kinds, at : Nat]

\* The milestones of one request, and those a task still has to write.
LastTurn == <<"turn-completed", "game-finished">>
Rests == {<<kind>> : kind \in Kinds} \cup {LastTurn}

Deliveries == [life : Nat, version : Nat, at : Nat, rest : Rests,
               step : {"answer", "fact", "count"}]

RoutingTypeOK ==
  /\ room \in [life : Nat, version : Nat, phase : {"setup", "playing", "finished"},
               updatedAt : Nat]
  /\ mode \in {"best-effort", "outbox"}
  /\ queue \in Seq(Rows)
  /\ deliveries \subseteq Deliveries
  /\ facts \in [0 .. MaxLives -> Rows \cup {NoFact}]
  /\ counts \in [DOMAIN counts -> Nat] /\ DOMAIN counts \subseteq Events
  /\ lost \subseteq Events /\ happened \subseteq Events
  /\ known \subseteq Nat

LEMMA RestShape ==
  ASSUME NEW rest \in Rests
  PROVE  /\ rest # <<>> /\ Head(rest) \in Kinds /\ rest[1] = Head(rest)
         /\ DOMAIN rest = IF Tail(rest) = <<>> THEN {1} ELSE {1, 2}
         /\ Tail(rest) # <<>> =>
              /\ Tail(rest) \in Rests /\ DOMAIN Tail(rest) = {1} /\ Tail(rest)[1] = rest[2]
              /\ rest[2] \in Kinds /\ rest[1] # rest[2]
<1>1. CASE rest = LastTurn
  <2>1. /\ rest # <<>> /\ Head(rest) = "turn-completed" /\ rest[1] = "turn-completed"
        /\ rest[2] = "game-finished" /\ Tail(rest) = <<"game-finished">> /\ DOMAIN rest = {1, 2}
    BY <1>1 DEF LastTurn
  <2>2. DOMAIN <<"game-finished">> = {1} /\ <<"game-finished">>[1] = "game-finished"
        /\ <<"game-finished">> # <<>> /\ "game-finished" \in Kinds /\ "turn-completed" \in Kinds
    BY DEF Kinds
  <2>3. <<"game-finished">> \in Rests
    BY <2>2 DEF Rests
  <2>4. QED
    BY <2>1, <2>2, <2>3
<1>2. CASE rest # LastTurn
  <2>1. PICK kind \in Kinds : rest = <<kind>>
    BY <1>2 DEF Rests
  <2>2. rest # <<>> /\ Head(rest) = kind /\ rest[1] = kind /\ Tail(rest) = <<>> /\ DOMAIN rest = {1}
    BY <2>1
  <2>3. QED
    BY <2>1, <2>2
<1>3. QED
  BY <1>1, <1>2

-----------------------------------------------------------------------------
(* What the steps have in common *)

\* A request: the first of a room, or another one.
Requested(life, version, phase, kinds) ==
  /\ Handled(life, version, phase, kinds)
  /\ phase \in {"setup", "playing", "finished"}
  /\ \/ /\ ~ Exists /\ room.life < MaxLives
        /\ life = room.life + 1 /\ version = 1 /\ kinds = <<"created">>
     \/ /\ Exists /\ life = room.life /\ version = room.version + 1
        /\ kinds = <<>> \/ kinds \in Rests \ {<<"created">>}

RequestStep == \E life, version, phase, kinds : Requested(life, version, phase, kinds)

TaskStep ==
  \E d \in deliveries, succeeds \in BOOLEAN :
    AnswerArrives(d) \/ DeliveryDies(d) \/ WriteFact(d, succeeds) \/ CountEvent(d, succeeds)

AlarmStep == \E succeeds \in BOOLEAN : DeliverHead(succeeds)

LEMMA ActRequests ==
  ASSUME RoutingTypeOK, NEW token, ActInRoom(token) PROVE RequestStep
<1>1. PICK outcome \in Outcomes : Handled(room.life, NextVersion, outcome.phase, outcome.kinds)
  BY DEF ActInRoom
<1>2. /\ outcome.phase \in {"setup", "playing", "finished"}
      /\ \/ outcome.kinds = <<>> \/ outcome.kinds = LastTurn
         \/ outcome.kinds = <<"turn-completed">> \/ outcome.kinds = <<"reset">>
         \/ outcome.kinds = <<"game-started">>
  <2>1. CASE room.phase = "playing"
    BY <1>1, <2>1 DEF Outcomes, LastTurn
  <2>2. CASE room.phase = "finished"
    BY <1>1, <2>2 DEF Outcomes
  <2>3. CASE room.phase = "setup"
    BY <1>1, <2>3 DEF Outcomes
  <2>4. QED
    BY <2>1, <2>2, <2>3 DEF RoutingTypeOK
<1>3. /\ <<"turn-completed">> # <<"created">> /\ <<"reset">> # <<"created">>
      /\ <<"game-started">> # <<"created">> /\ LastTurn # <<"created">>
  <2>1. <<"turn-completed">>[1] # <<"created">>[1] /\ <<"reset">>[1] # <<"created">>[1]
        /\ <<"game-started">>[1] # <<"created">>[1]
    OBVIOUS
  <2>2. LastTurn[1] # <<"created">>[1]
    BY DEF LastTurn
  <2>3. QED
    BY <2>1, <2>2
<1>4. <<"turn-completed">> \in Rests /\ <<"reset">> \in Rests /\ <<"game-started">> \in Rests
      /\ LastTurn \in Rests
  BY DEF Rests, Kinds
<1>5. outcome.kinds = <<>> \/ outcome.kinds \in Rests \ {<<"created">>}
  BY <1>2, <1>3, <1>4
<1>6. Requested(room.life, NextVersion, outcome.phase, outcome.kinds)
  BY <1>1, <1>2, <1>5 DEF Requested, ActInRoom, NextVersion
<1>7. QED
  BY <1>6 DEF RequestStep

LEMMA RoutingSteps ==
  ASSUME RoutingTypeOK, [RoutingNext]_allVars
  PROVE  /\ scope' = scope
         /\ \/ [Next]_vars /\ UNCHANGED routing /\ scope # "milestones"
            \/ (Tick \/ UNCHANGED vars) /\ UNCHANGED routing
            \/ RequestStep
            \/ ExpireRoom \/ Deploy \/ TaskStep \/ AlarmStep
<1>1. CASE UNCHANGED allVars
  BY <1>1 DEF allVars
<1>2. ASSUME CreateRoom PROVE RequestStep
  <2>1. Requested(room.life + 1, 1, "setup", <<"created">>)
    BY <1>2 DEF CreateRoom, Requested
  <2>2. QED
    BY <2>1 DEF RequestStep
<1>3. ASSUME NEW token, JoinRoom(token) PROVE RequestStep
  <2> DEFINE kinds == IF token \in members THEN <<>> ELSE <<"joined">>
  <2>1. <<"joined">> \in Rests
    BY DEF Rests, Kinds
  <2>2. <<"joined">> # <<"created">>
    <3>1. <<"joined">>[1] # <<"created">>[1]
      OBVIOUS
    <3>2. QED
      BY <3>1
  <2>3. Requested(room.life, NextVersion, room.phase, kinds)
    BY <1>3, <2>1, <2>2 DEF JoinRoom, Requested, NextVersion, RoutingTypeOK
  <2>4. QED
    BY <2>3 DEF RequestStep
<1>4. ASSUME NEW token, ActInRoom(token) PROVE RequestStep
  BY <1>4, ActRequests
<1>5. ASSUME scope = "sockets" PROVE scope # "milestones"
  BY <1>5
<1>6. CASE RoutingNext
  BY <1>2, <1>3, <1>4, <1>5, <1>6 DEF RoutingNext, TaskStep, AlarmStep
<1>7. QED
  BY <1>1, <1>6

-----------------------------------------------------------------------------
(* Types                                                                   *)

RoomClockOK == clock \in Nat

LEMMA HandledType ==
  ASSUME RoutingTypeOK, RoomClockOK, NEW life, NEW version, NEW phase, NEW kinds,
         Requested(life, version, phase, kinds)
  PROVE  RoutingTypeOK'
<1> DEFINE events == {Event(life, version, kinds[i]) : i \in DOMAIN kinds}
           rows == [i \in DOMAIN kinds |-> Row(Event(life, version, kinds[i]), clock)]
           answer == [life |-> life, version |-> version, at |-> clock, rest |-> Told(kinds),
                      step |-> "answer"]
<1>1. life \in Nat /\ version \in Nat /\ (kinds = <<>> \/ kinds \in Rests)
  <2>1. <<"created">> \in Rests
    BY DEF Rests, Kinds
  <2>2. QED
    BY <2>1 DEF Requested, RoutingTypeOK
<1>2. \A i \in DOMAIN kinds : kinds[i] \in Kinds
  <2>1. CASE kinds = <<>>
    BY <2>1
  <2>2. CASE kinds \in Rests
    BY <2>2, RestShape
  <2>3. QED
    BY <1>1, <2>1, <2>2
<1>3. events \subseteq Events
  BY <1>1, <1>2 DEF Event, Events
<1>4. rows \in Seq(Rows)
  <2>1. \A i \in DOMAIN kinds : Row(Event(life, version, kinds[i]), clock) \in Rows
    BY <1>1, <1>2 DEF Row, Event, Rows, RoomClockOK
  <2>2. \E n \in Nat : DOMAIN kinds = 1 .. n
    <3>1. DOMAIN <<>> = 1 .. 0 /\ {1} = 1 .. 1 /\ {1, 2} = 1 .. 2
      OBVIOUS
    <3>2. QED
      BY <1>1, <3>1, RestShape
  <2>3. QED
    BY <2>1, <2>2, SeqDef
<1>5. answer.rest # <<>> => answer \in Deliveries
  BY <1>1 DEF Told, Deliveries, RoomClockOK
<1>6. /\ room' = [life |-> life, version |-> version, phase |-> phase, updatedAt |-> clock]
      /\ queue' \in {queue, queue \o rows}
      /\ lost' \in {lost, lost \cup events}
      /\ deliveries' = deliveries \cup (IF answer.rest = <<>> THEN {} ELSE {answer})
      /\ happened' = happened \cup events
      /\ UNCHANGED <<mode, facts, counts, known>>
  BY DEF Requested, Handled
<1>7. room' \in [life : Nat, version : Nat, phase : {"setup", "playing", "finished"},
                 updatedAt : Nat]
  BY <1>1, <1>6 DEF Requested, RoomClockOK
<1> HIDE DEF events, rows, answer
<1>8. queue' \in Seq(Rows)
  <2>1. queue \in Seq(Rows)
    BY DEF RoutingTypeOK
  <2>2. queue \o rows \in Seq(Rows)
    BY <1>4, <2>1, ConcatProperties
  <2>3. QED
    BY <1>6, <2>1, <2>2
<1>9. QED
  BY <1>3, <1>5, <1>6, <1>7, <1>8 DEF RoutingTypeOK

LEMMA CurrentType ==
  ASSUME NEW d \in Deliveries
  PROVE  Current(d) \in Events /\ FactOf(d) \in Rows
BY RestShape DEF Deliveries, Current, Event, Events, FactOf, Row, Rows

LEMMA CountedType ==
  ASSUME RoutingTypeOK, NEW event \in Events, Counted(event)
  PROVE  counts' \in [DOMAIN counts' -> Nat] /\ DOMAIN counts' \subseteq Events
BY DEF RoutingTypeOK, Counted

LEMMA UpsertedType ==
  ASSUME RoutingTypeOK, NEW key, NEW new \in Rows
  PROVE  Upserted(key, new) \in [0 .. MaxLives -> Rows \cup {NoFact}]
BY DEF RoutingTypeOK, Upserted

LEMMA RestType ==
  ASSUME RoutingTypeOK, NEW d \in deliveries, WithoutHead(d) PROVE deliveries' \subseteq Deliveries
<1>1. d \in Deliveries
  BY DEF RoutingTypeOK
<1>2. Tail(d.rest) # <<>> => [d EXCEPT !.rest = Tail(@), !.step = "fact"] \in Deliveries
  <2>1. Tail(d.rest) # <<>> => Tail(d.rest) \in Rests
    BY <1>1, RestShape DEF Deliveries
  <2>2. QED
    BY <1>1, <2>1 DEF Deliveries
<1>3. QED
  BY <1>2 DEF WithoutHead, RoutingTypeOK

LEMMA TaskType == ASSUME RoutingTypeOK, TaskStep PROVE RoutingTypeOK'
<1> PICK d \in deliveries, succeeds \in BOOLEAN :
      AnswerArrives(d) \/ DeliveryDies(d) \/ WriteFact(d, succeeds) \/ CountEvent(d, succeeds)
  BY DEF TaskStep
<1>1. d \in Deliveries /\ Current(d) \in Events /\ FactOf(d) \in Rows
  BY CurrentType DEF RoutingTypeOK
<1>2. \A step \in {"fact", "count"} : [d EXCEPT !.step = step] \in Deliveries
  BY <1>1 DEF Deliveries
<1>3. CASE AnswerArrives(d)
  BY <1>2, <1>3 DEF AnswerArrives, RoutingTypeOK
<1>4. CASE DeliveryDies(d)
  <2>1. {Event(d.life, d.version, d.rest[i]) : i \in DOMAIN d.rest} \subseteq Events
    BY <1>1, RestShape DEF Deliveries, Event, Events
  <2>2. QED
    BY <1>4, <2>1 DEF DeliveryDies, RoutingTypeOK
<1>5. CASE WriteFact(d, succeeds)
  <2>1. facts' \in [0 .. MaxLives -> Rows \cup {NoFact}] /\ known' \subseteq Nat
    BY <1>1, <1>5, UpsertedType DEF WriteFact, RoutingTypeOK, Deliveries
  <2>2. /\ deliveries' \subseteq Deliveries
        /\ counts' \in [DOMAIN counts' -> Nat] /\ DOMAIN counts' \subseteq Events
    BY <1>1, <1>2, <1>5, RestType, CountedType DEF WriteFact, RoutingTypeOK
  <2>3. QED
    BY <1>5, <2>1, <2>2 DEF WriteFact, RoutingTypeOK
<1>6. CASE CountEvent(d, succeeds)
  <2>1. /\ deliveries' \subseteq Deliveries /\ lost' \subseteq Events
        /\ counts' \in [DOMAIN counts' -> Nat] /\ DOMAIN counts' \subseteq Events
    BY <1>1, <1>6, RestType, CountedType DEF CountEvent, RoutingTypeOK
  <2>2. QED
    BY <1>6, <2>1 DEF CountEvent, RoutingTypeOK
<1>7. QED
  BY <1>3, <1>4, <1>5, <1>6

LEMMA QueueShape ==
  ASSUME RoutingTypeOK
  PROVE  /\ Len(queue) \in Nat /\ DOMAIN queue = 1 .. Len(queue)
         /\ \A i \in DOMAIN queue : queue[i] \in Rows /\ EventOf(queue[i]) \in Events
         /\ queue # <<>> =>
              /\ Head(queue) = queue[1] /\ 1 \in DOMAIN queue
              /\ Tail(queue) \in Seq(Rows) /\ Len(Tail(queue)) = Len(queue) - 1
              /\ DOMAIN Tail(queue) = 1 .. Len(queue) - 1
              /\ \A i \in 1 .. Len(queue) - 1 : Tail(queue)[i] = queue[i + 1]
<1>1. queue \in Seq(Rows)
  BY DEF RoutingTypeOK
<1>2. /\ Len(queue) \in Nat /\ DOMAIN queue = 1 .. Len(queue)
      /\ \A i \in DOMAIN queue : queue[i] \in Rows
  BY <1>1, LenProperties, ElementOfSeq
<1>3. \A row \in Rows : EventOf(row) \in Events
  BY DEF Rows, EventOf, Event, Events
<1>4. ASSUME queue # <<>>
      PROVE  /\ Head(queue) = queue[1] /\ Len(queue) > 0
             /\ Tail(queue) \in Seq(Rows) /\ Len(Tail(queue)) = Len(queue) - 1
             /\ \A i \in 1 .. Len(queue) - 1 : Tail(queue)[i] = queue[i + 1]
  BY <1>1, <1>4, HeadTailProperties, EmptySeq, LenProperties
<1>5. QED
  BY <1>2, <1>3, <1>4, LenProperties

LEMMA AlarmType == ASSUME RoutingTypeOK, AlarmStep PROVE RoutingTypeOK'
<1> PICK succeeds \in BOOLEAN : DeliverHead(succeeds)
  BY DEF AlarmStep
<1>1. /\ queue # <<>> /\ Head(queue) \in Rows /\ EventOf(Head(queue)) \in Events
      /\ Tail(queue) \in Seq(Rows)
  BY QueueShape DEF DeliverHead
<1>2. /\ facts' \in [0 .. MaxLives -> Rows \cup {NoFact}] /\ lost' \subseteq Events
      /\ counts' \in [DOMAIN counts' -> Nat] /\ DOMAIN counts' \subseteq Events
  BY <1>1, UpsertedType, CountedType DEF DeliverHead, RoutingTypeOK
<1>3. QED
  BY <1>1, <1>2 DEF DeliverHead, RoutingTypeOK

LEMMA RoutingType ==
  ASSUME RoutingTypeOK, RoomClockOK, [RoutingNext]_allVars PROVE RoutingTypeOK'
<1>1. CASE UNCHANGED routing
  BY <1>1 DEF routing, RoutingTypeOK
<1>2. CASE RequestStep
  BY <1>2, HandledType DEF RequestStep
<1>3. CASE ExpireRoom
  <2>1. {EventOf(queue[i]) : i \in DOMAIN queue} \subseteq Events
    BY QueueShape
  <2>2. <<>> \in Seq(Rows)
    OBVIOUS
  <2>3. QED
    BY <1>3, <2>1, <2>2 DEF ExpireRoom, RoutingTypeOK
<1>4. CASE Deploy
  BY <1>4 DEF Deploy, RoutingTypeOK
<1>5. QED
  BY <1>1, <1>2, <1>3, <1>4, TaskType, AlarmType, RoutingSteps

-----------------------------------------------------------------------------
(* Every milestone in one place                                            *)

Queued == {EventOf(queue[i]) : i \in DOMAIN queue}
EventsOf(d) == {Event(d.life, d.version, d.rest[i]) : i \in DOMAIN d.rest}
Tasked == UNION {EventsOf(d) : d \in deliveries}

Apart(queued, tasked, counted, given) ==
  /\ queued \cap (tasked \cup counted \cup given) = {}
  /\ tasked \cap (counted \cup given) = {}
  /\ counted \cap given = {}

\* No event came from a later request than the last one.
PastEvents ==
  \A event \in happened :
    /\ event.life <= room.life
    /\ Exists /\ event.life = room.life => event.version <= room.version

PlacesInv ==
  /\ \A i, j \in DOMAIN queue : EventOf(queue[i]) = EventOf(queue[j]) => i = j
  /\ \A c, d \in deliveries : c.life = d.life /\ c.version = d.version => c = d
  /\ happened = Queued \cup Tasked \cup DOMAIN counts \cup lost
  /\ Apart(Queued, Tasked, DOMAIN counts, lost)
  /\ \A event \in DOMAIN counts : counts[event] = 1
  /\ PastEvents

LEMMA EventsOfRest ==
  ASSUME NEW d \in Deliveries
  PROVE  /\ Current(d) \in EventsOf(d)
         /\ Tail(d.rest) = <<>> => EventsOf(d) = {Current(d)}
         /\ Tail(d.rest) # <<>> =>
              LET next == [d EXCEPT !.rest = Tail(@), !.step = "fact"] IN
              /\ EventsOf(d) = {Current(d)} \cup EventsOf(next)
              /\ Current(d) \notin EventsOf(next)
              /\ next.life = d.life /\ next.version = d.version
<1>1. /\ d.rest \in Rests /\ Head(d.rest) = d.rest[1]
      /\ DOMAIN d.rest = IF Tail(d.rest) = <<>> THEN {1} ELSE {1, 2}
  BY RestShape DEF Deliveries
<1>2. CASE Tail(d.rest) = <<>>
  BY <1>1, <1>2 DEF EventsOf, Current
<1>3. CASE Tail(d.rest) # <<>>
  <2> DEFINE next == [d EXCEPT !.rest = Tail(@), !.step = "fact"]
  <2>1. next.rest = Tail(d.rest) /\ next.life = d.life /\ next.version = d.version
    BY DEF Deliveries
  <2>2. DOMAIN Tail(d.rest) = {1} /\ Tail(d.rest)[1] = d.rest[2] /\ d.rest[1] # d.rest[2]
    BY <1>1, <1>3, RestShape
  <2>3. EventsOf(next) = {Event(d.life, d.version, d.rest[2])}
    BY <2>1, <2>2 DEF EventsOf
  <2>4. EventsOf(d) = {Event(d.life, d.version, d.rest[1]), Event(d.life, d.version, d.rest[2])}
    BY <1>1, <1>3 DEF EventsOf
  <2>5. Event(d.life, d.version, d.rest[1]) # Event(d.life, d.version, d.rest[2])
    BY <2>2 DEF Event
  <2>6. QED
    BY <1>1, <1>3, <2>1, <2>3, <2>4, <2>5 DEF Current
<1>4. QED
  BY <1>2, <1>3

\* Two tasks have no event in common.
LEMMA TasksApart ==
  ASSUME RoutingTypeOK, PlacesInv, NEW c \in deliveries, NEW d \in deliveries, c # d
  PROVE  EventsOf(c) \cap EventsOf(d) = {}
BY DEF PlacesInv, EventsOf, Event

LEMMA HeadIsWritten ==
  ASSUME RoutingTypeOK, PlacesInv, NEW d \in deliveries, WithoutHead(d)
  PROVE  /\ Tasked' = Tasked \ {Current(d)} /\ Current(d) \in Tasked
         /\ \A b, c \in deliveries' : b.life = c.life /\ b.version = c.version => b = c
<1> DEFINE next == [d EXCEPT !.rest = Tail(@), !.step = "fact"]
           others == UNION {EventsOf(c) : c \in deliveries \ {d}}
<1>1. d \in Deliveries
  BY DEF RoutingTypeOK
<1>2. Tasked = others \cup EventsOf(d) /\ others \cap EventsOf(d) = {}
  BY TasksApart DEF Tasked
<1>3. CASE Tail(d.rest) = <<>>
  <2>1. deliveries' = deliveries \ {d}
    BY <1>3 DEF WithoutHead
  <2>2. Tasked' = others
    BY <2>1 DEF Tasked
  <2>3. EventsOf(d) = {Current(d)}
    BY <1>1, <1>3, EventsOfRest
  <2>4. QED
    BY <1>2, <2>1, <2>2, <2>3 DEF PlacesInv
<1>4. CASE Tail(d.rest) # <<>>
  <2>1. deliveries' = (deliveries \ {d}) \cup {next}
    BY <1>4 DEF WithoutHead
  <2>2. /\ EventsOf(d) = {Current(d)} \cup EventsOf(next) /\ Current(d) \notin EventsOf(next)
        /\ next.life = d.life /\ next.version = d.version
    BY <1>1, <1>4, EventsOfRest
  <2> HIDE DEF next
  <2>3. Tasked' = others \cup EventsOf(next)
    BY <2>1 DEF Tasked
  <2>4. \A b, c \in deliveries' : b.life = c.life /\ b.version = c.version => b = c
    BY <2>1, <2>2 DEF PlacesInv
  <2>5. QED
    BY <1>2, <2>2, <2>3, <2>4
<1>5. QED
  BY <1>3, <1>4

LEMMA CountedOnce ==
  ASSUME RoutingTypeOK, PlacesInv, NEW event, event \notin DOMAIN counts, Counted(event)
  PROVE  DOMAIN counts' = DOMAIN counts \cup {event} /\ \A other \in DOMAIN counts' : counts'[other] = 1
BY DEF Counted, PlacesInv

LEMMA TaskKeepsPlaces == ASSUME RoutingTypeOK, PlacesInv, TaskStep PROVE PlacesInv'
<1> PICK d \in deliveries, succeeds \in BOOLEAN :
      AnswerArrives(d) \/ DeliveryDies(d) \/ WriteFact(d, succeeds) \/ CountEvent(d, succeeds)
  BY DEF TaskStep
<1>1. d \in Deliveries /\ EventsOf(d) \subseteq Tasked
  BY DEF RoutingTypeOK, Tasked
<1>2. /\ Queued' = Queued /\ PastEvents' /\ UNCHANGED <<queue, happened>>
  BY DEF AnswerArrives, DeliveryDies, WriteFact, CountEvent, Queued, PastEvents, Exists, PlacesInv
<1>3. ASSUME NEW step \in {"fact", "count"},
             deliveries' = (deliveries \ {d}) \cup {[d EXCEPT !.step = step]},
             UNCHANGED <<counts, lost>>
      PROVE  PlacesInv'
  <2> DEFINE next == [d EXCEPT !.step = step]
  <2>1. next.life = d.life /\ next.version = d.version /\ next.rest = d.rest
    BY <1>1 DEF Deliveries
  <2>2. EventsOf(next) = EventsOf(d)
    BY <2>1 DEF EventsOf
  <2> HIDE DEF next
  <2>3. Tasked' = Tasked
    BY <1>3, <2>2 DEF Tasked, next
  <2>4. \A b, c \in deliveries' : b.life = c.life /\ b.version = c.version => b = c
    <3>1. deliveries' = (deliveries \ {d}) \cup {next}
      BY <1>3 DEF next
    <3>2. QED
      BY <2>1, <3>1 DEF PlacesInv
  <2>5. QED
    BY <1>2, <1>3, <2>3, <2>4 DEF PlacesInv, Apart
<1>4. ASSUME WithoutHead(d), \/ Counted(Current(d)) /\ UNCHANGED lost
                             \/ UNCHANGED counts /\ lost' = lost \cup {Current(d)}
      PROVE  PlacesInv'
  <2>1. /\ Tasked' = Tasked \ {Current(d)} /\ Current(d) \in Tasked
        /\ \A b, c \in deliveries' : b.life = c.life /\ b.version = c.version => b = c
    BY <1>4, HeadIsWritten
  <2>2. Current(d) \notin DOMAIN counts /\ Current(d) \notin lost /\ Current(d) \notin Queued
    BY <2>1 DEF PlacesInv, Apart
  <2>3. CASE Counted(Current(d)) /\ UNCHANGED lost
    <3>1. /\ DOMAIN counts' = DOMAIN counts \cup {Current(d)}
          /\ \A other \in DOMAIN counts' : counts'[other] = 1
      BY <2>2, <2>3, CountedOnce
    <3>2. QED
      BY <1>2, <2>1, <2>2, <2>3, <3>1 DEF PlacesInv, Apart
  <2>4. CASE UNCHANGED counts /\ lost' = lost \cup {Current(d)}
    BY <1>2, <2>1, <2>2, <2>4 DEF PlacesInv, Apart
  <2>5. QED
    BY <1>4, <2>3, <2>4
<1>5. CASE AnswerArrives(d)
  BY <1>3, <1>5 DEF AnswerArrives
<1>6. CASE DeliveryDies(d)
  <2>1. /\ deliveries' = deliveries \ {d} /\ lost' = lost \cup EventsOf(d) /\ counts' = counts
    BY <1>6 DEF DeliveryDies, EventsOf
  <2>2. Tasked' = Tasked \ EventsOf(d)
    BY <2>1, TasksApart DEF Tasked
  <2>3. QED
    BY <1>1, <1>2, <2>1, <2>2 DEF PlacesInv, Apart
<1>7. CASE WriteFact(d, succeeds)
  BY <1>3, <1>4, <1>7 DEF WriteFact
<1>8. CASE CountEvent(d, succeeds)
  BY <1>4, <1>8 DEF CountEvent
<1>9. QED
  BY <1>5, <1>6, <1>7, <1>8

LEMMA AlarmKeepsPlaces == ASSUME RoutingTypeOK, PlacesInv, AlarmStep PROVE PlacesInv'
<1> PICK succeeds \in BOOLEAN : DeliverHead(succeeds)
  BY DEF AlarmStep
<1> DEFINE event == EventOf(queue[1])
           n == Len(queue)
<1>1. /\ queue' = Tail(queue) /\ UNCHANGED <<room, deliveries, happened>>
      /\ \/ Counted(event) /\ UNCHANGED lost
         \/ UNCHANGED counts /\ lost' = lost \cup {event}
  BY QueueShape DEF DeliverHead
<1>2. /\ n \in Nat /\ DOMAIN queue = 1 .. n /\ 1 \in DOMAIN queue
      /\ DOMAIN queue' = 1 .. n - 1
      /\ \A i \in 1 .. n - 1 : queue'[i] = queue[i + 1]
  BY <1>1, QueueShape DEF DeliverHead
<1> HIDE DEF n
<1>3. \A i \in 1 .. n - 1 : i + 1 \in 1 .. n /\ i + 1 # 1
  BY <1>2
<1>4. \A i \in 1 .. n : i = 1 \/ (i - 1 \in 1 .. n - 1 /\ (i - 1) + 1 = i)
  BY <1>2
<1>5. Queued' = Queued \ {event} /\ event \in Queued
  <2>1. ASSUME NEW other \in Queued' PROVE other \in Queued \ {event}
    BY <1>2, <1>3, <2>1 DEF Queued, PlacesInv
  <2>2. ASSUME NEW other \in Queued, other # event PROVE other \in Queued'
    <3>1. PICK i \in 1 .. n : other = EventOf(queue[i])
      BY <1>2, <2>2 DEF Queued
    <3>2. i - 1 \in 1 .. n - 1 /\ queue'[i - 1] = queue[i]
      BY <1>2, <1>4, <2>2, <3>1
    <3>3. QED
      BY <1>2, <3>1, <3>2 DEF Queued
  <2>3. event \in Queued
    BY <1>2 DEF Queued
  <2>4. QED
    BY <2>1, <2>2, <2>3
<1>6. ASSUME NEW i \in 1 .. n - 1, NEW j \in 1 .. n - 1, EventOf(queue'[i]) = EventOf(queue'[j])
      PROVE  i = j
  <2>1. i + 1 = j + 1
    BY <1>2, <1>3, <1>6 DEF PlacesInv
  <2>2. QED
    BY <1>2, <2>1
<1>7. Tasked' = Tasked /\ PastEvents'
  BY <1>1 DEF Tasked, PlacesInv, PastEvents, Exists
<1>8. event \notin DOMAIN counts /\ event \notin lost /\ event \notin Tasked
  BY <1>5 DEF PlacesInv, Apart
<1> HIDE DEF event
<1>9. CASE Counted(event) /\ UNCHANGED lost
  <2>1. /\ DOMAIN counts' = DOMAIN counts \cup {event}
        /\ \A other \in DOMAIN counts' : counts'[other] = 1
    BY <1>8, <1>9, CountedOnce
  <2>2. QED
    BY <1>1, <1>2, <1>5, <1>6, <1>7, <1>8, <1>9, <2>1 DEF PlacesInv, Apart
<1>10. CASE UNCHANGED counts /\ lost' = lost \cup {event}
  BY <1>1, <1>2, <1>5, <1>6, <1>7, <1>8, <1>10 DEF PlacesInv, Apart
<1>11. QED
  BY <1>1, <1>9, <1>10

EventsIn(rows) == {EventOf(rows[i]) : i \in DOMAIN rows}
Distinct(rows) == \A i, j \in DOMAIN rows : EventOf(rows[i]) = EventOf(rows[j]) => i = j

LEMMA Appended ==
  ASSUME NEW s \in Seq(Rows), NEW t \in Seq(Rows)
  PROVE  /\ EventsIn(s \o t) = EventsIn(s) \cup EventsIn(t)
         /\ Distinct(s) /\ Distinct(t) /\ EventsIn(s) \cap EventsIn(t) = {} => Distinct(s \o t)
<1> DEFINE m == Len(s)
           n == Len(t)
           u == s \o t
<1>1. /\ m \in Nat /\ n \in Nat /\ DOMAIN s = 1 .. m /\ DOMAIN t = 1 .. n
      /\ DOMAIN u = 1 .. m + n
      /\ \A i \in 1 .. m + n : u[i] = IF i <= m THEN s[i] ELSE t[i - m]
  <2>1. /\ u \in Seq(Rows) /\ Len(u) = m + n
        /\ \A i \in 1 .. m + n : u[i] = IF i <= m THEN s[i] ELSE t[i - m]
    BY ConcatProperties
  <2>2. QED
    BY <2>1, LenProperties
<1> HIDE DEF m, n, u
<1>2. \A i \in 1 .. m : u[i] = s[i] /\ i \in 1 .. m + n
  BY <1>1
<1>3. \A j \in 1 .. n : u[m + j] = t[j] /\ m + j \in 1 .. m + n
  BY <1>1
<1>4. \A i \in 1 .. m + n : i \in 1 .. m \/ \E j \in 1 .. n : i = m + j
  <2>1. ASSUME NEW i \in 1 .. m + n, i \notin 1 .. m PROVE i - m \in 1 .. n /\ i = m + (i - m)
    BY <1>1, <2>1
  <2>2. QED
    BY <2>1
<1>5. EventsIn(u) = EventsIn(s) \cup EventsIn(t)
  <2>1. EventsIn(u) \subseteq EventsIn(s) \cup EventsIn(t)
    BY <1>1, <1>2, <1>3, <1>4 DEF EventsIn
  <2>2. EventsIn(s) \subseteq EventsIn(u)
    BY <1>1, <1>2 DEF EventsIn
  <2>3. EventsIn(t) \subseteq EventsIn(u)
    BY <1>1, <1>3 DEF EventsIn
  <2>4. QED
    BY <2>1, <2>2, <2>3
<1>6. ASSUME Distinct(s), Distinct(t), EventsIn(s) \cap EventsIn(t) = {} PROVE Distinct(u)
  <2>1. SUFFICES ASSUME NEW i \in 1 .. m + n, NEW j \in 1 .. m + n, EventOf(u[i]) = EventOf(u[j])
                 PROVE  i = j
    BY <1>1 DEF Distinct
  <2>2. CASE i \in 1 .. m /\ j \in 1 .. m
    BY <1>1, <1>2, <1>6, <2>1, <2>2 DEF Distinct
  <2>3. ASSUME NEW k \in 1 .. m, NEW l \in 1 .. n PROVE EventOf(s[k]) # EventOf(t[l])
    BY <1>1, <1>6 DEF EventsIn
  <2>4. CASE i \notin 1 .. m /\ j \notin 1 .. m
    <3>1. PICK k \in 1 .. n : i = m + k
      BY <1>4, <2>4
    <3>2. PICK l \in 1 .. n : j = m + l
      BY <1>4, <2>4
    <3>3. EventOf(t[k]) = EventOf(t[l])
      BY <1>3, <2>1, <3>1, <3>2
    <3>4. k = l
      BY <1>1, <1>6, <3>3 DEF Distinct
    <3>5. QED
      BY <3>1, <3>2, <3>4
  <2>5. QED
    BY <1>2, <1>3, <1>4, <2>1, <2>2, <2>3, <2>4
<1>7. QED
  BY <1>5, <1>6 DEF u

\* The milestones of a request are new.
LEMMA NewEvents ==
  ASSUME RoutingTypeOK, PastEvents, NEW life, NEW version, NEW phase, NEW kinds,
         Requested(life, version, phase, kinds)
  PROVE  /\ \A event \in happened : ~ (event.life = life /\ event.version = version)
         /\ PastEvents'
<1> DEFINE events == {Event(life, version, kinds[i]) : i \in DOMAIN kinds}
<1>1. /\ room'.life = life /\ room'.version = version /\ happened' = happened \cup events
      /\ life \in Nat /\ version \in Nat /\ version > 0
      /\ \/ ~ Exists /\ life = room.life + 1
         \/ Exists /\ life = room.life /\ version = room.version + 1
  BY DEF Requested, Handled, RoutingTypeOK
<1>2. \A event \in events : event.life = life /\ event.version = version
  BY DEF Event
<1>3. \A event \in happened : event.life \in Nat /\ event.version \in Nat
  BY DEF RoutingTypeOK, Events
<1> HIDE DEF events
<1>4. ASSUME NEW event \in happened
      PROVE  /\ ~ (event.life = life /\ event.version = version) /\ event.life <= life
             /\ event.life = life => event.version <= version
  <2>1. event.life <= room.life /\ (Exists /\ event.life = room.life => event.version <= room.version)
    BY DEF PastEvents
  <2>2. CASE ~ Exists /\ life = room.life + 1
    BY <1>3, <2>1, <2>2 DEF RoutingTypeOK
  <2>3. CASE Exists /\ life = room.life /\ version = room.version + 1
    BY <1>3, <2>1, <2>3 DEF RoutingTypeOK
  <2>4. QED
    BY <1>1, <2>2, <2>3
<1>5. ASSUME NEW event \in happened'
      PROVE  event.life <= life /\ (event.life = life => event.version <= version)
  <2>1. CASE event \in happened
    BY <1>4, <2>1
  <2>2. CASE event \in events
    BY <1>1, <1>2, <2>2
  <2>3. QED
    BY <1>1, <2>1, <2>2
<1>6. PastEvents'
  BY <1>1, <1>5 DEF PastEvents
<1>7. QED
  BY <1>4, <1>6

LEMMA RequestKeepsPlaces ==
  ASSUME RoutingTypeOK, RoomClockOK, PlacesInv, NEW life, NEW version, NEW phase, NEW kinds,
         Requested(life, version, phase, kinds)
  PROVE  PlacesInv'
<1> DEFINE events == {Event(life, version, kinds[i]) : i \in DOMAIN kinds}
           rows == [i \in DOMAIN kinds |-> Row(Event(life, version, kinds[i]), clock)]
           answer == [life |-> life, version |-> version, at |-> clock, rest |-> Told(kinds),
                      step |-> "answer"]
<1>1. /\ \/ mode = "outbox" /\ queue' = queue \o rows /\ UNCHANGED lost
         \/ mode = "outbox" /\ lost' = lost \cup events /\ UNCHANGED queue
         \/ mode = "best-effort" /\ UNCHANGED <<queue, lost>>
      /\ deliveries' = deliveries \cup (IF answer.rest = <<>> THEN {} ELSE {answer})
      /\ happened' = happened \cup events
      /\ UNCHANGED <<mode, facts, counts, known>>
  BY DEF Requested, Handled
<1>2. life \in Nat /\ version \in Nat /\ (kinds = <<>> \/ kinds \in Rests)
  <2>1. <<"created">> \in Rests
    BY DEF Rests, Kinds
  <2>2. QED
    BY <2>1 DEF Requested, RoutingTypeOK
<1>3. /\ \A i \in DOMAIN kinds : kinds[i] \in Kinds
      /\ \A i, j \in DOMAIN kinds : kinds[i] = kinds[j] => i = j
      /\ \E n \in Nat : DOMAIN kinds = 1 .. n
  <2>1. CASE kinds = <<>>
    <3>1. DOMAIN kinds = {} /\ {} = 1 .. 0
      BY <2>1
    <3>2. QED
      BY <3>1
  <2>2. CASE kinds \in Rests
    <3>1. {1} = 1 .. 1 /\ {1, 2} = 1 .. 2
      OBVIOUS
    <3>2. QED
      BY <2>2, <3>1, RestShape
  <2>3. QED
    BY <1>2, <2>1, <2>2
<1>4. rows \in Seq(Rows) /\ EventsIn(rows) = events /\ Distinct(rows)
  <2>1. \A i \in DOMAIN kinds : rows[i] \in Rows /\ EventOf(rows[i]) = Event(life, version, kinds[i])
    BY <1>2, <1>3 DEF Row, Event, EventOf, Rows, RoomClockOK
  <2>2. rows \in Seq(Rows)
    BY <1>3, <2>1, SeqDef
  <2>3. DOMAIN rows = DOMAIN kinds
    OBVIOUS
  <2>4. \A i, j \in DOMAIN kinds :
          Event(life, version, kinds[i]) = Event(life, version, kinds[j]) => i = j
    BY <1>3 DEF Event
  <2> HIDE DEF rows
  <2>5. EventsIn(rows) = events /\ Distinct(rows)
    BY <2>1, <2>3, <2>4 DEF EventsIn, Distinct
  <2>6. QED
    BY <2>2, <2>5
<1>5. (\A event \in happened : ~ (event.life = life /\ event.version = version)) /\ PastEvents'
  BY NewEvents DEF PlacesInv
<1>6. \A event \in events : event.life = life /\ event.version = version
  BY DEF Event
<1>7. events \cap happened = {}
  BY <1>5, <1>6
<1>8. answer.rest # <<>> => mode # "outbox" /\ EventsOf(answer) = events
  BY DEF Told, EventsOf
<1>9. answer.rest = <<>> /\ mode # "outbox" => events = {}
  BY DEF Told
<1>10. answer.life = life /\ answer.version = version
  OBVIOUS
<1> HIDE DEF events, rows, answer
<1>11. queue \in Seq(Rows) /\ Queued = EventsIn(queue) /\ Queued' = EventsIn(queue') /\ Distinct(queue)
       /\ events \cap (Queued \cup Tasked \cup DOMAIN counts \cup lost) = {}
       /\ happened' = Queued \cup Tasked \cup DOMAIN counts \cup lost \cup events
  BY <1>1, <1>7 DEF RoutingTypeOK, Queued, EventsIn, PlacesInv, Distinct
<1>12. ASSUME mode = "outbox" PROVE Tasked' = Tasked /\ deliveries' = deliveries
  BY <1>1, <1>8, <1>12 DEF Tasked
<1>13. CASE mode = "outbox" /\ queue' = queue \o rows /\ UNCHANGED lost
  <2>1. Queued' = Queued \cup events /\ Distinct(queue')
    <3>1. /\ EventsIn(queue \o rows) = EventsIn(queue) \cup EventsIn(rows)
          /\ Distinct(queue \o rows)
      BY <1>4, <1>11, Appended
    <3>2. QED
      BY <1>4, <1>11, <1>13, <3>1
  <2>2. Apart(Queued', Tasked', DOMAIN counts', lost')
    BY <1>1, <1>11, <1>12, <1>13, <2>1 DEF PlacesInv, Apart
  <2>3. happened' = Queued' \cup Tasked' \cup DOMAIN counts' \cup lost'
    BY <1>1, <1>11, <1>12, <1>13, <2>1
  <2>4. QED
    BY <1>1, <1>5, <1>12, <1>13, <2>1, <2>2, <2>3 DEF PlacesInv, Distinct
<1>14. CASE mode = "outbox" /\ lost' = lost \cup events /\ UNCHANGED queue
  <2>1. Queued' = Queued
    BY <1>14 DEF Queued
  <2>2. Apart(Queued', Tasked', DOMAIN counts', lost')
    BY <1>1, <1>11, <1>12, <1>14, <2>1 DEF PlacesInv, Apart
  <2>3. happened' = Queued' \cup Tasked' \cup DOMAIN counts' \cup lost'
    BY <1>1, <1>11, <1>12, <1>14, <2>1
  <2>4. QED
    BY <1>1, <1>5, <1>12, <1>14, <2>2, <2>3 DEF PlacesInv
<1>15. CASE mode = "best-effort" /\ UNCHANGED <<queue, lost>>
  <2>1. Queued' = Queued
    BY <1>15 DEF Queued
  <2>2. Tasked' = Tasked \cup events
    BY <1>1, <1>8, <1>9, <1>15 DEF Tasked
  <2>3. ASSUME NEW d \in deliveries PROVE ~ (d.life = life /\ d.version = version)
    <3>1. Current(d) \in happened
      <4>1. d \in Deliveries
        BY DEF RoutingTypeOK
      <4>2. Current(d) \in EventsOf(d)
        BY <4>1, EventsOfRest
      <4>3. Current(d) \in Tasked
        BY <4>2 DEF Tasked
      <4>4. QED
        BY <4>3 DEF PlacesInv
    <3>2. Current(d).life = d.life /\ Current(d).version = d.version
      BY DEF Current, Event
    <3>3. QED
      BY <1>5, <3>1, <3>2
  <2>4. \A b, c \in deliveries' : b.life = c.life /\ b.version = c.version => b = c
    BY <1>1, <1>10, <2>3 DEF PlacesInv
  <2>5. Apart(Queued', Tasked', DOMAIN counts', lost')
    BY <1>1, <1>11, <1>15, <2>1, <2>2 DEF PlacesInv, Apart
  <2>6. happened' = Queued' \cup Tasked' \cup DOMAIN counts' \cup lost'
    BY <1>1, <1>11, <1>15, <2>1, <2>2
  <2>7. QED
    BY <1>1, <1>5, <1>15, <2>4, <2>5, <2>6 DEF PlacesInv
<1>16. QED
  BY <1>1, <1>13, <1>14, <1>15

LEMMA PlacesKept ==
  ASSUME RoutingTypeOK, RoomClockOK, PlacesInv, [RoutingNext]_allVars PROVE PlacesInv'
<1>1. CASE UNCHANGED routing
  <2>1. Queued' = Queued /\ Tasked' = Tasked /\ PastEvents' /\ UNCHANGED <<queue, deliveries, counts, lost, happened>>
    BY <1>1 DEF routing, Queued, Tasked, PlacesInv, PastEvents, Exists
  <2>2. QED
    BY <2>1 DEF PlacesInv
<1>2. CASE RequestStep
  BY <1>2, RequestKeepsPlaces DEF RequestStep
<1>3. CASE ExpireRoom
  <2>1. /\ room'.life = room.life /\ room'.version = 0 /\ queue' = <<>> /\ lost' = lost \cup Queued
        /\ UNCHANGED <<deliveries, counts, happened>>
    BY <1>3 DEF ExpireRoom, Queued, RoutingTypeOK
  <2>2. Queued' = {} /\ DOMAIN queue' = {} /\ Tasked' = Tasked
    BY <2>1 DEF Queued, Tasked
  <2>3. PastEvents'
    BY <2>1 DEF PlacesInv, PastEvents, Exists
  <2>4. QED
    BY <2>1, <2>2, <2>3 DEF PlacesInv, Apart
<1>4. CASE Deploy
  <2>1. Queued' = Queued /\ Tasked' = Tasked /\ PastEvents' /\ UNCHANGED <<queue, deliveries, counts, lost, happened>>
    BY <1>4 DEF Deploy, Queued, Tasked, PlacesInv, PastEvents, Exists
  <2>2. QED
    BY <2>1 DEF PlacesInv
<1>5. QED
  BY <1>1, <1>2, <1>3, <1>4, TaskKeepsPlaces, AlarmKeepsPlaces, RoutingSteps

LEMMA PlacesAreOne == ASSUME RoutingTypeOK, PlacesInv PROVE OnePlace
<1> SUFFICES ASSUME NEW event \in happened
             PROVE  Cardinality({i \in DOMAIN queue : EventOf(queue[i]) = event})
                      + Cardinality({d \in deliveries :
                          \E i \in DOMAIN d.rest : Event(d.life, d.version, d.rest[i]) = event})
                      + (IF event \in DOMAIN counts THEN counts[event] ELSE 0)
                      + (IF event \in lost THEN 1 ELSE 0) = 1
  BY DEF OnePlace
<1> DEFINE rows == {i \in DOMAIN queue : EventOf(queue[i]) = event}
           tasks == {d \in deliveries : \E i \in DOMAIN d.rest : Event(d.life, d.version, d.rest[i]) = event}
<1>1. /\ event \in Queued => \E i \in rows : rows = {i}
      /\ event \notin Queued => rows = {}
  BY DEF Queued, PlacesInv
<1>2. \A d \in deliveries : event \in EventsOf(d) <=> d \in tasks
  BY DEF EventsOf
<1>3. /\ event \in Tasked => \E d \in tasks : tasks = {d}
      /\ event \notin Tasked => tasks = {}
  <2>1. ASSUME event \in Tasked PROVE \E d \in tasks : tasks = {d}
    <3>1. PICK d \in deliveries : event \in EventsOf(d)
      BY <2>1 DEF Tasked
    <3>2. \A c \in tasks : c = d
      BY <1>2, <3>1, TasksApart
    <3>3. QED
      BY <1>2, <3>1, <3>2
  <2>2. ASSUME event \notin Tasked PROVE tasks = {}
    BY <1>2, <2>2 DEF Tasked
  <2>3. QED
    BY <2>1, <2>2
<1> HIDE DEF rows, tasks
<1>4. /\ Cardinality(rows) = IF event \in Queued THEN 1 ELSE 0
      /\ Cardinality(tasks) = IF event \in Tasked THEN 1 ELSE 0
  BY <1>1, <1>3, FS_EmptySet, FS_Singleton
<1>5. (IF event \in DOMAIN counts THEN counts[event] ELSE 0) = IF event \in DOMAIN counts THEN 1 ELSE 0
  BY DEF PlacesInv
<1>6. /\ event \in Queued \cup Tasked \cup DOMAIN counts \cup lost
      /\ Apart(Queued, Tasked, DOMAIN counts, lost)
  BY DEF PlacesInv
<1>7. Cardinality(rows) + Cardinality(tasks)
        + (IF event \in DOMAIN counts THEN counts[event] ELSE 0)
        + (IF event \in lost THEN 1 ELSE 0) = 1
  BY <1>4, <1>5, <1>6 DEF Apart
<1>8. QED
  BY <1>7 DEF rows, tasks

-----------------------------------------------------------------------------
(* The shared facts                                                        *)

\* A stamp tells from which request a milestone is.
Stamp(row) == [life |-> row.life, version |-> row.version, at |-> row.at]
FactStamps(rows) == {Stamp(rows[key]) : key \in {k \in DOMAIN rows : rows[k] # NoFact}}
Stamps == FactStamps(facts) \cup {Stamp(queue[i]) : i \in DOMAIN queue}
                            \cup {Stamp(d) : d \in deliveries}

\* Later requests of a room have later times, and the time of a room is all after that of
\* the room before.
InTime(s, t) ==
  /\ s.life = t.life /\ s.version <= t.version => s.at <= t.at
  /\ s.life < t.life => s.at < t.at

Past(s) ==
  /\ s.life \in 1 .. room.life /\ s.version \in Nat \ {0} /\ s.at \in Nat
  /\ s.at <= room.updatedAt
  /\ Exists /\ s.life < room.life => s.at < room.updatedAt
  /\ Exists /\ s.life = room.life => s.version <= room.version

RoomTimes ==
  /\ room.updatedAt <= clock
  /\ IF Exists THEN room.life > 0
               ELSE room.life > 0 => clock >= room.updatedAt + IdleTTL

FactsInv ==
  /\ RoomTimes
  /\ \A s \in Stamps : Past(s)
  /\ \A s, t \in Stamps : InTime(s, t)
  /\ \A event \in happened : event.kind = "created" => event.version = 1
  /\ \A key \in DOMAIN facts \ {0} : facts[key] # NoFact => facts[key].life = key
  /\ \A life \in known : life <= room.life
  /\ FactIsOfPresentRoom

GoesOn(new, old) ==
  \/ new = old
  \/ new.life > old.life
  \/ new.life = old.life /\ new.version >= old.version /\ new.at >= old.at

LEMMA FactWritten ==
  ASSUME RoutingTypeOK, FactsInv, NEW key, NEW new \in Rows, Stamp(new) \in Stamps,
         EventOf(new) \in happened, key = 0 \/ key = new.life,
         NEW written, written = Upserted(key, new)
  PROVE  /\ DOMAIN written = DOMAIN facts
         /\ \A k \in DOMAIN facts : GoesOn(written[k], facts[k])
         /\ FactStamps(written) \subseteq Stamps
         /\ \A k \in DOMAIN facts \ {0} : written[k] # NoFact => written[k].life = k
         /\ 0 \in DOMAIN facts /\ (key = 0 /\ new.kind = "created" => written[0].life >= new.life)
<1>1. /\ new.kind = "created" => new.version = 1
      /\ new.life \in 1 .. room.life /\ new.version \in Nat \ {0} /\ new.at \in Nat
  BY DEF FactsInv, EventOf, Event, Stamp, Past
<1>2. 0 \in DOMAIN facts /\ facts \in [0 .. MaxLives -> Rows \cup {NoFact}]
  BY RoutingAssumption DEF RoutingTypeOK
<1>3. ASSUME NEW k \in DOMAIN facts, facts[k] # NoFact
      PROVE  /\ facts[k].life \in Nat /\ facts[k].version \in Nat \ {0} /\ facts[k].at \in Nat
             /\ InTime(Stamp(new), Stamp(facts[k])) /\ InTime(Stamp(facts[k]), Stamp(new))
  <2>1. Stamp(facts[k]) \in Stamps
    BY <1>3 DEF Stamps, FactStamps
  <2>2. QED
    BY <1>2, <1>3, <2>1 DEF FactsInv, Past, Stamp
<1>4. ASSUME NEW k \in DOMAIN facts, facts[k] = NoFact \/ Supersedes(new, facts[k])
      PROVE  GoesOn(new, facts[k])
  <2>1. CASE facts[k] = NoFact
    BY <1>1, <2>1 DEF GoesOn, NoFact, RoutingTypeOK
  <2>2. CASE facts[k] # NoFact /\ Supersedes(new, facts[k])
    <3> DEFINE old == facts[k]
    <3>1. /\ old.life \in Nat /\ old.version \in Nat \ {0} /\ old.at \in Nat
          /\ new.life = old.life /\ new.version <= old.version => new.at <= old.at
          /\ new.life < old.life => new.at < old.at
          /\ old.life = new.life /\ old.version <= new.version => old.at <= new.at
          /\ old.life < new.life => old.at < new.at
      BY <1>3, <2>2 DEF InTime, Stamp
    <3>2. \/ new.at > old.at /\ (new.version = 1 \/ new.version >= old.version)
          \/ new.at = old.at /\ new.version >= old.version
      BY <1>1, <2>2 DEF Supersedes
    <3> HIDE DEF old
    <3>3. new.life \in Nat /\ new.version \in Nat \ {0} /\ new.at \in Nat
      BY <1>1 DEF RoutingTypeOK
    <3>4. new.life > old.life \/ (new.life = old.life /\ new.version >= old.version /\ new.at >= old.at)
      BY <3>1, <3>2, <3>3
    <3>5. QED
      BY <3>4 DEF old, GoesOn
  <2>3. QED
    BY <1>4, <2>1, <2>2
<1>5. CASE facts[key] = NoFact \/ Supersedes(new, facts[key])
  <2>1. written = [facts EXCEPT ![key] = new]
    BY <1>5 DEF Upserted
  <2>2. \A k \in DOMAIN facts : written[k] = IF k = key THEN new ELSE facts[k]
    BY <1>2, <2>1
  <2>3. DOMAIN written = DOMAIN facts
    BY <2>1
  <2>4. FactStamps(written) \subseteq Stamps
    BY <2>2, <2>3 DEF FactStamps, Stamps
  <2>5. \A k \in DOMAIN facts : GoesOn(written[k], facts[k])
    <3>1. \A k \in DOMAIN facts : k # key => GoesOn(written[k], facts[k])
      BY <2>2 DEF GoesOn
    <3>2. \A k \in DOMAIN facts : k = key => GoesOn(written[k], facts[k])
      BY <1>4, <1>5, <2>2
    <3>3. QED
      BY <3>1, <3>2
  <2>6. \A k \in DOMAIN facts \ {0} : written[k] # NoFact => written[k].life = k
    BY <2>2 DEF FactsInv
  <2>7. key = 0 => written[0].life >= new.life
    BY <1>1, <1>2, <2>2 DEF RoutingTypeOK
  <2>8. QED
    BY <1>2, <2>3, <2>4, <2>5, <2>6, <2>7
<1>6. CASE facts[key] # NoFact /\ ~ Supersedes(new, facts[key])
  <2>1. written = facts
    BY <1>6 DEF Upserted
  <2>2. key = 0 /\ new.kind = "created" => facts[0].life >= new.life
    <3>1. SUFFICES ASSUME key = 0, new.kind = "created", facts[0].life < new.life PROVE FALSE
      <4>1. facts[0].life \in Nat \/ key # 0
        BY <1>2, <1>3, <1>6
      <4>2. QED
        BY <1>1, <4>1
    <3>2. facts[0].at < new.at /\ facts[0].at \in Nat
      BY <1>2, <1>3, <1>6, <3>1 DEF InTime, Stamp
    <3>3. QED
      BY <1>1, <1>6, <3>1, <3>2 DEF Supersedes
  <2>3. QED
    BY <1>2, <2>1, <2>2 DEF FactsInv, GoesOn, FactStamps, Stamps
<1>7. QED
  BY <1>5, <1>6

LEMMA TaskRow ==
  ASSUME RoutingTypeOK, PlacesInv, NEW d \in deliveries
  PROVE  /\ FactOf(d) \in Rows /\ Stamp(FactOf(d)) \in Stamps /\ EventOf(FactOf(d)) \in happened
         /\ FactOf(d).kind = Head(d.rest) /\ FactOf(d).life = d.life
<1>1. d \in Deliveries
  BY DEF RoutingTypeOK
<1>2. Current(d) \in EventsOf(d)
  BY <1>1, EventsOfRest
<1>3. Current(d) \in happened
  <2>1. Current(d) \in Tasked
    BY <1>2 DEF Tasked
  <2>2. QED
    BY <2>1 DEF PlacesInv
<1>4. EventOf(FactOf(d)) = Current(d) /\ Stamp(FactOf(d)) = Stamp(d)
  BY DEF EventOf, FactOf, Row, Current, Event, Stamp
<1>5. FactOf(d).kind = Head(d.rest) /\ FactOf(d).life = d.life
  BY DEF FactOf, Row, Current, Event
<1>6. Stamp(d) \in Stamps
  BY DEF Stamps
<1>7. QED
  BY <1>1, <1>3, <1>4, <1>5, <1>6, CurrentType

\* A task that goes on keeps the stamp of its request.
LEMMA TaskStamps ==
  ASSUME RoutingTypeOK, TaskStep PROVE {Stamp(d) : d \in deliveries'} \subseteq {Stamp(d) : d \in deliveries}
<1> PICK d \in deliveries, succeeds \in BOOLEAN :
      AnswerArrives(d) \/ DeliveryDies(d) \/ WriteFact(d, succeeds) \/ CountEvent(d, succeeds)
  BY DEF TaskStep
<1>1. d \in Deliveries
  BY DEF RoutingTypeOK
<1>2. \A step \in {"fact", "count"} : Stamp([d EXCEPT !.step = step]) = Stamp(d)
  BY <1>1 DEF Deliveries, Stamp
<1>3. Stamp([d EXCEPT !.rest = Tail(@), !.step = "fact"]) = Stamp(d)
  BY <1>1 DEF Deliveries, Stamp
<1>4. \E next : Stamp(next) = Stamp(d) /\ deliveries' \subseteq deliveries \cup {next}
  <2>1. CASE AnswerArrives(d)
    BY <1>2, <2>1 DEF AnswerArrives
  <2>2. CASE DeliveryDies(d)
    BY <2>2 DEF DeliveryDies
  <2>3. CASE WriteFact(d, succeeds)
    BY <1>2, <1>3, <2>3 DEF WriteFact, WithoutHead
  <2>4. CASE CountEvent(d, succeeds)
    BY <1>3, <2>4 DEF CountEvent, WithoutHead
  <2>5. QED
    BY <2>1, <2>2, <2>3, <2>4
<1>5. QED
  BY <1>4

LEMMA InOrder == ASSUME NEW a \in Nat, NEW b \in Nat, NEW c \in Nat, a <= b, b <= c PROVE a <= c
OBVIOUS

\* A step that is not a request: nothing gets a new stamp.
LEMMA QuietStep ==
  ASSUME RoutingTypeOK, FactsInv, RoomClockOK, room' = room, clock' \in Nat, clock <= clock',
         happened' = happened, Stamps' \subseteq Stamps,
         \A key \in DOMAIN facts' \ {0} : facts'[key] # NoFact => facts'[key].life = key,
         \A life \in known' : life <= room.life,
         FactIsOfPresentRoom'
  PROVE  FactsInv'
<1>1. RoomTimes'
  <2>1. room.updatedAt \in Nat /\ room.updatedAt + IdleTTL \in Nat /\ clock \in Nat
    BY RoutingAssumption DEF RoutingTypeOK, RoomClockOK
  <2>2. room.updatedAt <= clock'
    BY <2>1, InOrder DEF FactsInv, RoomTimes
  <2>3. ~ Exists /\ room.life > 0 => room.updatedAt + IdleTTL <= clock'
    <3>1. ASSUME ~ Exists, room.life > 0 PROVE room.updatedAt + IdleTTL <= clock'
      <4>1. room.updatedAt + IdleTTL <= clock
        BY <2>1, <3>1 DEF FactsInv, RoomTimes
      <4>2. QED
        BY <2>1, <4>1, InOrder
    <3>2. QED
      BY <3>1
  <2>4. room.updatedAt <= clock' /\ (~ Exists /\ room.life > 0 => clock' >= room.updatedAt + IdleTTL)
    BY <2>1, <2>2, <2>3
  <2>5. Exists' = Exists
    BY DEF Exists
  <2>6. QED
    BY <2>4, <2>5 DEF FactsInv, RoomTimes
<1>2. \A s \in Stamps' : Past(s)'
  <2>1. \A s : Past(s) => Past(s)'
    BY DEF Past, Exists
  <2>2. QED
    BY <2>1 DEF FactsInv
<1>3. \A s, t \in Stamps' : InTime(s, t)
  BY DEF FactsInv
<1>4. QED
  BY <1>1, <1>2, <1>3 DEF FactsInv, InTime

FactsGoOn == DOMAIN facts' = DOMAIN facts /\ \A key \in DOMAIN facts : GoesOn(facts'[key], facts[key])

\* A newer fact under the code stays one of the present room.
LEMMA StaysPresent ==
  ASSUME RoutingTypeOK, FactsInv, room' = room, FactsGoOn, Stamps' \subseteq Stamps,
         room.life \in known' => room.life \in known \/ facts'[0].life >= room.life,
         facts' \in [0 .. MaxLives -> Rows \cup {NoFact}]
  PROVE  FactIsOfPresentRoom'
<1>1. 0 \in DOMAIN facts /\ 0 \in 0 .. MaxLives
  BY RoutingAssumption DEF RoutingTypeOK
<1>2. facts[0].life \in Nat /\ facts'[0].life \in Nat /\ room.life \in Nat
  <2>1. \A row \in Rows \cup {NoFact} : row.life \in Nat
    BY DEF Rows, NoFact
  <2>2. QED
    BY <1>1, <2>1 DEF RoutingTypeOK
<1>3. facts'[0].life <= room.life
  <2>1. CASE facts'[0] = NoFact
    BY <1>2, <2>1 DEF NoFact
  <2>2. CASE facts'[0] # NoFact
    <3>1. Stamp(facts'[0]) \in Stamps'
      BY <1>1, <2>2 DEF FactsGoOn, Stamps, FactStamps
    <3>2. Past(Stamp(facts'[0]))
      BY <3>1 DEF FactsInv
    <3>3. QED
      BY <1>2, <3>2 DEF Past, Stamp
  <2>3. QED
    BY <2>1, <2>2
<1>4. \A a, b, c \in Nat : a <= c /\ ((b = c /\ (a = b \/ a > b)) \/ a >= c) => a = c
  OBVIOUS
<1>5. facts'[0].life = facts[0].life \/ facts'[0].life > facts[0].life
  BY <1>1 DEF FactsGoOn, GoesOn
<1>6. ASSUME room.life \in known' PROVE facts'[0].life = room.life
  <2>1. CASE facts'[0].life >= room.life
    BY <1>2, <1>3, <1>4, <2>1
  <2>2. CASE room.life \in known
    <3>1. facts[0].life = room.life
      BY <2>2 DEF FactsInv, FactIsOfPresentRoom
    <3>2. QED
      BY <1>2, <1>3, <1>4, <1>5, <3>1
  <2>3. QED
    BY <1>6, <2>1, <2>2
<1>7. QED
  BY <1>6 DEF FactIsOfPresentRoom

LEMMA TaskKeepsFacts ==
  ASSUME RoutingTypeOK, RoomClockOK, PlacesInv, FactsInv, TaskStep
  PROVE  FactsInv' /\ FactsGoOn
<1> PICK d \in deliveries, succeeds \in BOOLEAN :
      AnswerArrives(d) \/ DeliveryDies(d) \/ WriteFact(d, succeeds) \/ CountEvent(d, succeeds)
  BY DEF TaskStep
<1> DEFINE new == FactOf(d)
<1>1. /\ new \in Rows /\ Stamp(new) \in Stamps /\ EventOf(new) \in happened
      /\ new.kind = Head(d.rest) /\ new.life = d.life
  BY TaskRow
<1>2. UNCHANGED <<vars, room, queue, happened>>
  BY DEF AnswerArrives, DeliveryDies, WriteFact, CountEvent
<1>3. \/ facts' = facts /\ known' = known
      \/ /\ facts' = Upserted(0, new)
         /\ known' = IF new.kind = "created" THEN known \cup {new.life} ELSE known
  BY <1>1 DEF AnswerArrives, DeliveryDies, WriteFact, CountEvent
<1> HIDE DEF new
<1>4. /\ FactsGoOn /\ FactStamps(facts') \subseteq Stamps
      /\ \A key \in DOMAIN facts' \ {0} : facts'[key] # NoFact => facts'[key].life = key
      /\ facts' # facts /\ new.kind = "created" => facts'[0].life >= new.life
  <2>1. CASE facts' = facts /\ known' = known
    BY <2>1 DEF FactsGoOn, GoesOn, FactsInv, Stamps
  <2>2. CASE facts' = Upserted(0, new)
    BY <1>1, <2>2, FactWritten DEF FactsGoOn
  <2>3. QED
    BY <1>3, <2>1, <2>2
<1>5. Stamps' \subseteq Stamps
  <2>1. {Stamp(c) : c \in deliveries'} \subseteq {Stamp(c) : c \in deliveries}
    BY TaskStamps
  <2>2. QED
    BY <1>2, <1>4, <2>1 DEF Stamps
<1>6. Past(Stamp(new)) /\ new.life <= room.life
  BY <1>1 DEF FactsInv, Past, Stamp
<1>7. \A life \in known' : life <= room.life
  BY <1>3, <1>6 DEF FactsInv
<1>8. room.life \in known' => room.life \in known \/ facts'[0].life >= room.life
  <2>1. CASE facts' = Upserted(0, new) /\ new.kind = "created"
    <3>1. facts'[0].life >= new.life
      BY <1>1, <2>1, FactWritten
    <3>2. QED
      BY <1>3, <2>1, <3>1
  <2>2. CASE ~ (facts' = Upserted(0, new) /\ new.kind = "created")
    BY <1>3, <2>2
  <2>3. QED
    BY <2>1, <2>2
<1>9. facts' \in [0 .. MaxLives -> Rows \cup {NoFact}]
  BY TaskType DEF RoutingTypeOK
<1>10. FactIsOfPresentRoom'
  BY <1>2, <1>4, <1>5, <1>8, <1>9, StaysPresent
<1>11. clock' \in Nat /\ clock <= clock'
  BY <1>2 DEF vars, RoomClockOK
<1>12. QED
  BY <1>2, <1>4, <1>5, <1>7, <1>10, <1>11, QuietStep

LEMMA AlarmKeepsFacts ==
  ASSUME RoutingTypeOK, RoomClockOK, PlacesInv, FactsInv, AlarmStep
  PROVE  FactsInv' /\ FactsGoOn
<1> PICK succeeds \in BOOLEAN : DeliverHead(succeeds)
  BY DEF AlarmStep
<1> DEFINE new == queue[1]
<1>1. /\ queue # <<>> /\ Head(queue) = new /\ 1 \in DOMAIN queue
      /\ \A i \in DOMAIN Tail(queue) : i + 1 \in DOMAIN queue /\ Tail(queue)[i] = queue[i + 1]
  <2>1. queue # <<>>
    BY DEF DeliverHead
  <2>2. \A n \in Nat : \A i \in 1 .. n - 1 : i + 1 \in 1 .. n
    OBVIOUS
  <2>3. QED
    BY <2>1, <2>2, QueueShape
<1>2. new \in Rows /\ EventOf(new) \in happened
  <2>1. EventOf(new) \in Queued
    BY <1>1 DEF Queued
  <2>2. QED
    BY <1>1, <2>1, QueueShape DEF PlacesInv
<1>3. Stamp(new) \in Stamps
  BY <1>1 DEF Stamps
<1>4. /\ UNCHANGED <<vars, room, deliveries, happened, known>> /\ queue' = Tail(queue)
      /\ facts' = facts \/ facts' = Upserted(new.life, new)
  BY <1>1 DEF DeliverHead
<1> HIDE DEF new
<1>5. /\ FactsGoOn /\ FactStamps(facts') \subseteq Stamps
      /\ \A key \in DOMAIN facts' \ {0} : facts'[key] # NoFact => facts'[key].life = key
  <2>1. CASE facts' = facts
    BY <2>1 DEF FactsGoOn, GoesOn, FactsInv, Stamps
  <2>2. CASE facts' = Upserted(new.life, new)
    BY <1>2, <1>3, <2>2, FactWritten DEF FactsGoOn
  <2>3. QED
    BY <1>4, <2>1, <2>2
<1>6. Stamps' \subseteq Stamps
  <2>1. {Stamp(queue'[i]) : i \in DOMAIN queue'} \subseteq {Stamp(queue[i]) : i \in DOMAIN queue}
    BY <1>1, <1>4
  <2>2. QED
    BY <1>4, <1>5, <2>1 DEF Stamps
<1>7. \A life \in known' : life <= room.life
  BY <1>4 DEF FactsInv
<1>8. facts' \in [0 .. MaxLives -> Rows \cup {NoFact}]
  BY AlarmType DEF RoutingTypeOK
<1>9. FactIsOfPresentRoom'
  BY <1>4, <1>5, <1>6, <1>8, StaysPresent
<1>10. clock' \in Nat /\ clock <= clock'
  BY <1>4 DEF vars, RoomClockOK
<1>11. QED
  BY <1>4, <1>5, <1>6, <1>7, <1>9, <1>10, QuietStep

\* The clock goes on, or the facts and all else stay.
LEMMA StillKeepsFacts ==
  ASSUME RoutingTypeOK, RoomClockOK, FactsInv, UNCHANGED <<room, queue, deliveries, facts, happened, known>>,
         clock' \in Nat, clock <= clock'
  PROVE  FactsInv' /\ FactsGoOn
<1>1. FactsGoOn
  BY DEF FactsGoOn, GoesOn
<1>2. Stamps' \subseteq Stamps
  BY DEF Stamps
<1>3. FactIsOfPresentRoom'
  BY DEF FactsInv, FactIsOfPresentRoom
<1>4. QED
  BY <1>1, <1>2, <1>3, QuietStep DEF FactsInv

LEMMA ExpireKeepsFacts ==
  ASSUME RoutingTypeOK, RoomClockOK, FactsInv, ExpireRoom PROVE FactsInv' /\ FactsGoOn
<1>1. /\ room'.life = room.life /\ room'.version = 0 /\ room'.updatedAt = room.updatedAt
      /\ queue' = <<>> /\ UNCHANGED <<clock, deliveries, facts, happened, known>>
      /\ clock >= room.updatedAt + IdleTTL
  BY DEF ExpireRoom, RoutingTypeOK, vars
<1>2. Stamps' \subseteq Stamps
  <2>1. {Stamp(queue'[i]) : i \in DOMAIN queue'} = {}
    BY <1>1
  <2>2. QED
    BY <1>1, <2>1 DEF Stamps
<1>3. ~ Exists'
  BY <1>1 DEF Exists
<1>4. RoomTimes'
  BY <1>1, <1>3 DEF RoomTimes, FactsInv
<1>5. \A s \in Stamps' : Past(s)'
  <2>1. \A s : Past(s) => Past(s)'
    BY <1>1, <1>3 DEF Past
  <2>2. QED
    BY <1>2, <2>1 DEF FactsInv
<1>6. \A s, t \in Stamps' : InTime(s, t)
  BY <1>2 DEF FactsInv
<1>7. FactIsOfPresentRoom'
  BY <1>1 DEF FactsInv, FactIsOfPresentRoom
<1>8. FactsGoOn
  BY <1>1 DEF FactsGoOn, GoesOn
<1>9. QED
  BY <1>1, <1>4, <1>5, <1>6, <1>7, <1>8 DEF FactsInv, InTime

\* Only the first request of a room creates it.
LEMMA OnlyFirstCreates ==
  ASSUME NEW kinds, kinds = <<>> \/ kinds \in Rests \ {<<"created">>}, NEW i \in DOMAIN kinds
  PROVE  kinds[i] # "created"
<1>1. CASE kinds = <<>>
  BY <1>1
<1>2. CASE kinds = LastTurn
  BY <1>2 DEF LastTurn
<1>3. CASE kinds # <<>> /\ kinds # LastTurn
  <2>1. PICK kind \in Kinds : kinds = <<kind>>
    BY <1>3 DEF Rests
  <2>2. i = 1 /\ kinds[1] = kind
    BY <2>1
  <2>3. kind # "created"
    BY <2>1
  <2>4. QED
    BY <2>2, <2>3
<1>4. QED
  BY <1>1, <1>2, <1>3

LEMMA RequestStamps ==
  ASSUME RoutingTypeOK, RoomClockOK, FactsInv, NEW life, NEW version, NEW phase, NEW kinds,
         Requested(life, version, phase, kinds),
         NEW new, new = [life |-> life, version |-> version, at |-> clock]
  PROVE  /\ Past(new)' /\ \A s \in Stamps : Past(s)' /\ InTime(s, new) /\ InTime(new, s)
         /\ Stamps' \subseteq Stamps \cup {new}
         /\ \A event \in happened' : event.kind = "created" => event.version = 1
<1> DEFINE events == {Event(life, version, kinds[i]) : i \in DOMAIN kinds}
           rows == [i \in DOMAIN kinds |-> Row(Event(life, version, kinds[i]), clock)]
           answer == [life |-> life, version |-> version, at |-> clock, rest |-> Told(kinds),
                      step |-> "answer"]
<1>1. /\ queue' \in {queue, queue \o rows}
      /\ deliveries' = deliveries \cup (IF answer.rest = <<>> THEN {} ELSE {answer})
      /\ happened' = happened \cup events /\ facts' = facts
      /\ room'.life = life /\ room'.version = version /\ room'.updatedAt = clock
  BY DEF Requested, Handled
<1>2. /\ life \in Nat \ {0} /\ version \in Nat \ {0} /\ room.life \in Nat
      /\ room.updatedAt \in Nat /\ clock \in Nat /\ room.version \in Nat
      /\ room.updatedAt <= clock /\ (~ Exists /\ room.life > 0 => clock >= room.updatedAt + IdleTTL)
      /\ \/ ~ Exists /\ life = room.life + 1 /\ version = 1
         \/ Exists /\ life = room.life /\ version = room.version + 1
  <2>1. /\ room.life \in Nat /\ room.updatedAt \in Nat /\ room.version \in Nat /\ clock \in Nat
        /\ room.updatedAt <= clock /\ (~ Exists /\ room.life > 0 => clock >= room.updatedAt + IdleTTL)
    BY DEF RoutingTypeOK, FactsInv, RoomTimes, RoomClockOK
  <2>2. \/ ~ Exists /\ life = room.life + 1 /\ version = 1
        \/ Exists /\ life = room.life /\ version = room.version + 1
    BY DEF Requested
  <2>3. Exists => room.life > 0
    BY DEF FactsInv, RoomTimes
  <2>4. QED
    BY <2>1, <2>2, <2>3
<1>3. IdleTTL \in Nat /\ IdleTTL > 0
  BY RoutingAssumption, PresenceAssumption
<1>4. ASSUME NEW s \in Stamps
      PROVE  /\ s.life \in 1 .. life /\ s.version \in Nat \ {0} /\ s.at \in Nat /\ s.at <= clock
             /\ s.life < life => s.at < clock
             /\ s.life = life => s.version < version
  <2>1. Past(s)
    BY DEF FactsInv
  <2>2. CASE ~ Exists /\ life = room.life + 1
    BY <1>2, <1>3, <2>1, <2>2 DEF Past
  <2>3. CASE Exists /\ life = room.life /\ version = room.version + 1
    BY <1>2, <2>1, <2>3 DEF Past
  <2>4. QED
    BY <1>2, <2>2, <2>3
<1>5. new.life = life /\ new.version = version /\ new.at = clock
  OBVIOUS
<1>6. Past(new)'
  <2>1. /\ life \in 1 .. life /\ version \in Nat \ {0} /\ clock \in Nat /\ clock <= clock
        /\ ~ (life < life) /\ version <= version
    BY <1>2
  <2>2. QED
    BY <1>1, <1>5, <2>1 DEF Past
<1>7. ASSUME NEW s \in Stamps PROVE Past(s)' /\ InTime(s, new) /\ InTime(new, s)
  <2>1. s.life \in Nat /\ (s.life = life => s.version <= version)
    BY <1>2, <1>4
  <2>2. Past(s)'
    BY <1>1, <1>4, <2>1 DEF Past
  <2>3. InTime(s, new)
    BY <1>4, <1>5 DEF InTime
  <2>4. InTime(new, s)
    <3>1. ~ (life = s.life /\ version <= s.version) /\ ~ (life < s.life)
      BY <1>2, <1>4
    <3>2. QED
      BY <1>5, <3>1 DEF InTime
  <2>5. QED
    BY <2>2, <2>3, <2>4
<1>8. Stamps' \subseteq Stamps \cup {new}
  <2>1. Stamp(answer) = new /\ \A i \in DOMAIN rows : Stamp(rows[i]) = new
    BY DEF Stamp, Row, Event
  <2>2. queue \in Seq(Rows)
    BY DEF RoutingTypeOK
  <2>3. rows \in Seq({rows[i] : i \in DOMAIN rows})
    <3>1. \E n \in Nat : DOMAIN kinds = 1 .. n
      <4>1. DOMAIN <<>> = 1 .. 0 /\ {1} = 1 .. 1 /\ {1, 2} = 1 .. 2 /\ DOMAIN <<"created">> = {1}
        OBVIOUS
      <4>2. CASE kinds = <<>> \/ kinds = <<"created">>
        BY <4>1, <4>2
      <4>3. CASE kinds \in Rests
        BY <4>1, <4>3, RestShape
      <4>4. QED
        BY <4>2, <4>3 DEF Requested
    <3>2. DOMAIN rows = DOMAIN kinds /\ rows = [i \in DOMAIN rows |-> rows[i]]
      OBVIOUS
    <3> HIDE DEF rows
    <3>3. \E n \in Nat : rows \in [1 .. n -> {rows[i] : i \in DOMAIN rows}]
      BY <3>1, <3>2
    <3>4. QED
      BY <3>3, SeqDef
  <2> HIDE DEF rows, answer
  <2>4. \A i \in DOMAIN (queue \o rows) : Stamp((queue \o rows)[i]) = new \/ \E j \in DOMAIN queue : (queue \o rows)[i] = queue[j]
    <3> DEFINE all == Rows \cup {rows[i] : i \in DOMAIN rows}
    <3>1. queue \in Seq(all) /\ rows \in Seq(all)
      BY <2>2, <2>3, SeqDef
    <3>2. /\ Len(queue) \in Nat /\ DOMAIN queue = 1 .. Len(queue)
          /\ Len(rows) \in Nat /\ DOMAIN rows = 1 .. Len(rows)
          /\ DOMAIN (queue \o rows) = 1 .. Len(queue) + Len(rows)
          /\ \A i \in 1 .. Len(queue) + Len(rows) :
               (queue \o rows)[i] = IF i <= Len(queue) THEN queue[i] ELSE rows[i - Len(queue)]
      <4>1. /\ queue \o rows \in Seq(all) /\ Len(queue \o rows) = Len(queue) + Len(rows)
            /\ \A i \in 1 .. Len(queue) + Len(rows) :
                 (queue \o rows)[i] = IF i <= Len(queue) THEN queue[i] ELSE rows[i - Len(queue)]
        BY <3>1, ConcatProperties
      <4>2. QED
        BY <3>1, <4>1, LenProperties
    <3>3. ASSUME NEW i \in 1 .. Len(queue) + Len(rows)
          PROVE  i \in 1 .. Len(queue) \/ (~ (i <= Len(queue)) /\ i - Len(queue) \in 1 .. Len(rows))
      BY <3>2
    <3>4. QED
      BY <2>1, <3>2, <3>3
  <2>5. {Stamp(queue'[i]) : i \in DOMAIN queue'} \subseteq {Stamp(queue[i]) : i \in DOMAIN queue} \cup {new}
    <3>1. CASE queue' = queue
      BY <3>1
    <3>2. CASE queue' = queue \o rows
      BY <2>4, <3>2
    <3>3. QED
      BY <1>1, <3>1, <3>2
  <2>6. {Stamp(d) : d \in deliveries'} \subseteq {Stamp(d) : d \in deliveries} \cup {new}
    BY <1>1, <2>1
  <2>7. QED
    BY <1>1, <2>5, <2>6 DEF Stamps
<1>9. \A event \in happened' : event.kind = "created" => event.version = 1
  <2>1. \A event \in events : event.version = version /\ \E i \in DOMAIN kinds : event.kind = kinds[i]
    BY DEF Event
  <2>2. ASSUME version # 1, NEW i \in DOMAIN kinds PROVE kinds[i] # "created"
    BY <1>2, <2>2, OnlyFirstCreates DEF Requested
  <2> HIDE DEF events
  <2>3. QED
    BY <1>1, <2>1, <2>2 DEF FactsInv
<1>10. QED
  BY <1>6, <1>7, <1>8, <1>9

LEMMA RequestKeepsFacts ==
  ASSUME RoutingTypeOK, RoomClockOK, FactsInv, NEW life, NEW version, NEW phase, NEW kinds,
         Requested(life, version, phase, kinds), clock' \in Nat, clock <= clock'
  PROVE  FactsInv' /\ FactsGoOn
<1> PICK new : new = [life |-> life, version |-> version, at |-> clock]
  OBVIOUS
<1>1. /\ room'.life = life /\ room'.version = version /\ room'.updatedAt = clock
      /\ UNCHANGED <<facts, known>>
  BY DEF Requested, Handled
<1>2. /\ life \in Nat /\ version \in Nat /\ version > 0 /\ room.life <= life
      /\ life = room.life \/ life = room.life + 1
  BY DEF Requested, RoutingTypeOK
<1>3. Past(new)' /\ \A s \in Stamps : Past(s)' /\ InTime(s, new) /\ InTime(new, s)
  BY RequestStamps
<1>4. Stamps' \subseteq Stamps \cup {new}
  BY RequestStamps
<1>5. \A event \in happened' : event.kind = "created" => event.version = 1
  BY RequestStamps
<1>6. InTime(new, new)
  <2>1. clock <= clock /\ ~ (life < life)
    BY <1>2 DEF RoomClockOK
  <2>2. QED
    BY <2>1 DEF InTime
<1>7. Exists'
  BY <1>1, <1>2 DEF Exists
<1>8. RoomTimes'
  <2>1. room'.updatedAt <= clock'
    BY <1>1
  <2>2. life > 0
    BY DEF Requested, FactsInv, RoomTimes, RoutingTypeOK
  <2>3. QED
    BY <1>1, <1>7, <2>1, <2>2 DEF RoomTimes
<1>9. \A s \in Stamps' : Past(s)'
  BY <1>3, <1>4
<1>10. \A s, t \in Stamps' : InTime(s, t)
  BY <1>3, <1>4, <1>6 DEF FactsInv
<1>11. \A other \in known' : other <= life
  <2>1. \A other \in known : other \in Nat /\ other <= room.life
    BY DEF FactsInv, RoutingTypeOK
  <2>2. QED
    BY <1>1, <1>2, <2>1 DEF RoutingTypeOK
<1>12. FactIsOfPresentRoom'
  <2>1. CASE life = room.life
    BY <1>1, <2>1 DEF FactsInv, FactIsOfPresentRoom
  <2>2. CASE life = room.life + 1
    <3>1. life \notin known
      BY <2>2 DEF FactsInv, RoutingTypeOK
    <3>2. QED
      BY <1>1, <3>1 DEF FactIsOfPresentRoom
  <2>3. QED
    BY <1>2, <2>1, <2>2
<1>13. FactsGoOn
  BY <1>1 DEF FactsGoOn, GoesOn
<1>14. QED
  BY <1>1, <1>5, <1>8, <1>9, <1>10, <1>11, <1>12, <1>13 DEF FactsInv, InTime

-----------------------------------------------------------------------------
(* The host, with all that goes on around the room                         *)

\* Where milestones are followed there are no sockets.
NoSockets == /\ open = [token \in Tokens |-> 0]
             /\ closing = [token \in Tokens |-> 0]

HostInv == PresenceInv /\ (scope = "milestones" => NoSockets)

LEMMA CreationKeeps ==
  ASSUME PresenceInv, NoSockets, CreateRoom PROVE PresenceInv'
<1>1. /\ hostToken' = Creator /\ hostDisconnectedAt' = clock /\ members' = {}
      /\ lastProof' = clock /\ lastSign' = clock
      /\ UNCHANGED <<clock, open, closing>>
  BY DEF CreateRoom
<1>2. /\ TypeOK' /\ clock \in Nat /\ clock # Here
  BY <1>1, PresenceAssumption DEF PresenceInv, TypeOK, Here
<1>3. open[Creator] = 0
  BY PresenceAssumption DEF NoSockets
<1>4. AbsentHostIsNoted' /\ OnlineHostIsPresent'
  BY <1>1, <1>2, <1>3 DEF AbsentHostIsNoted, OnlineHostIsPresent, Online, Here
<1>5. NotBeforeProof' /\ SignsInThePast' /\ TakeoverIsNotDelayed'
  BY <1>1, <1>2, PresenceAssumption
     DEF NotBeforeProof, SignsInThePast, TakeoverIsNotDelayed, Here
<1>6. QED
  BY <1>2, <1>4, <1>5 DEF PresenceInv

LEMMA HostKept ==
  ASSUME HostInv, [RoutingNext]_allVars PROVE HostInv' /\ RoomClockOK' /\ clock <= clock'
<1>1. ASSUME [Next]_vars
      PROVE  PresenceInv' /\ clock <= clock'
  <2>1. clock' = clock \/ clock' = clock + 1
    BY <1>1 DEF Next, vars, Join, Act, OpenSocket, LoseSocket, CloseEvent, ReadState,
                TransferHost, ClaimHost, Tick
  <2>2. QED
    BY <1>1, <2>1, NextKeeps DEF HostInv, PresenceInv, TypeOK
<1>2. CASE UNCHANGED allVars
  BY <1>1, <1>2 DEF allVars, vars, HostInv, NoSockets, PresenceInv, TypeOK, RoomClockOK
<1>3. CASE scope = "sockets" /\ UNCHANGED scope /\ Next
  BY <1>1, <1>3 DEF HostInv, PresenceInv, TypeOK, RoomClockOK
<1>4. ASSUME scope = "milestones", UNCHANGED scope,
             CreateRoom \/ (\E token \in Followed : JoinRoom(token) \/ ActInRoom(token))
             \/ Tick \/ UNCHANGED vars
      PROVE  HostInv' /\ RoomClockOK' /\ clock <= clock'
  <2>1. NoSockets' /\ (clock' = clock \/ Tick)
    BY <1>4 DEF HostInv, NoSockets, CreateRoom, JoinRoom, ActInRoom, Join, Act, Tick, vars
  <2>2. PresenceInv'
    <3>1. CASE CreateRoom
      BY <1>4, <3>1, CreationKeeps DEF HostInv
    <3>2. ASSUME NEW token \in Followed, JoinRoom(token) PROVE PresenceInv'
      BY <3>2, JoinKeeps, RoutingAssumption DEF JoinRoom, HostInv
    <3>3. ASSUME NEW token \in Followed, ActInRoom(token) PROVE PresenceInv'
      BY <3>3, ActKeeps, RoutingAssumption DEF ActInRoom, HostInv
    <3>4. CASE Tick \/ UNCHANGED vars
      BY <3>4, <1>1 DEF Next
    <3>5. QED
      BY <1>4, <3>1, <3>2, <3>3, <3>4
  <2>3. clock <= clock'
    BY <2>1 DEF Tick, HostInv, PresenceInv, TypeOK
  <2>4. QED
    BY <2>1, <2>2, <2>3 DEF HostInv, PresenceInv, TypeOK, RoomClockOK
<1>5. ASSUME ExpireRoom \/ Deploy \/ (\E d \in deliveries : AnswerArrives(d) \/ DeliveryDies(d))
             \/ (\E d \in deliveries, succeeds \in BOOLEAN :
                   WriteFact(d, succeeds) \/ CountEvent(d, succeeds))
             \/ (\E succeeds \in BOOLEAN : DeliverHead(succeeds))
      PROVE  UNCHANGED vars
  BY <1>5 DEF ExpireRoom, Deploy, AnswerArrives, DeliveryDies, WriteFact, CountEvent, DeliverHead
<1>6. QED
  BY <1>2, <1>3, <1>4, <1>5 DEF RoutingNext

-----------------------------------------------------------------------------
(* Together                                                                *)

RoutingInv == HostInv /\ RoutingTypeOK /\ PlacesInv /\ FactsInv

LEMMA RoutingInitHolds == RoutingInit => RoutingInv
<1> SUFFICES ASSUME RoutingInit PROVE RoutingInv
  OBVIOUS
<1>1. HostInv
  BY InitHolds DEF RoutingInit, HostInv, NoSockets, Init
<1>2. DOMAIN queue = {} /\ DOMAIN counts = {} /\ counts = <<>> /\ queue = <<>>
  BY DEF RoutingInit
<1>3. RoutingTypeOK
  <2>1. counts \in [DOMAIN counts -> Nat]
    BY <1>2
  <2>2. queue \in Seq(Rows)
    BY <1>2
  <2>3. facts \in [0 .. MaxLives -> Rows \cup {NoFact}]
    BY DEF RoutingInit
  <2>4. QED
    BY <1>2, <2>1, <2>2, <2>3 DEF RoutingInit, RoutingTypeOK
<1>4. Queued = {} /\ Tasked = {}
  BY <1>2 DEF RoutingInit, Queued, Tasked
<1>5. PlacesInv
  BY <1>2, <1>4 DEF RoutingInit, PlacesInv, Apart, PastEvents
<1>6. \A key \in DOMAIN facts : facts[key] = NoFact
  BY DEF RoutingInit
<1>7. Stamps = {}
  BY <1>2, <1>6 DEF RoutingInit, Stamps, FactStamps
<1>8. FactsInv
  BY <1>6, <1>7 DEF RoutingInit, Init, FactsInv, RoomTimes, Exists, FactIsOfPresentRoom
<1>9. QED
  BY <1>1, <1>3, <1>5, <1>8 DEF RoutingInv

LEMMA FactsKept ==
  ASSUME RoutingInv, [RoutingNext]_allVars PROVE FactsInv' /\ FactsGoOn
<1>1. /\ RoutingTypeOK /\ PlacesInv /\ FactsInv /\ RoomClockOK /\ clock' \in Nat /\ clock <= clock'
  BY HostKept DEF RoutingInv, HostInv, PresenceInv, TypeOK, RoomClockOK
<1>2. CASE UNCHANGED routing
  BY <1>1, <1>2, StillKeepsFacts DEF routing
<1>3. CASE RequestStep
  BY <1>1, <1>3, RequestKeepsFacts DEF RequestStep
<1>4. CASE ExpireRoom
  BY <1>1, <1>4, ExpireKeepsFacts
<1>5. CASE Deploy
  BY <1>1, <1>5, StillKeepsFacts DEF Deploy
<1>6. CASE TaskStep
  BY <1>1, <1>6, TaskKeepsFacts
<1>7. CASE AlarmStep
  BY <1>1, <1>7, AlarmKeepsFacts
<1>8. QED
  BY <1>1, <1>2, <1>3, <1>4, <1>5, <1>6, <1>7, RoutingSteps

LEMMA RoutingKept == RoutingInv /\ [RoutingNext]_allVars => RoutingInv'
<1> SUFFICES ASSUME RoutingInv, [RoutingNext]_allVars PROVE RoutingInv'
  OBVIOUS
<1>1. RoomClockOK
  BY DEF RoutingInv, HostInv, PresenceInv, TypeOK, RoomClockOK
<1>2. HostInv' /\ FactsInv'
  BY HostKept, FactsKept DEF RoutingInv
<1>3. RoutingTypeOK' /\ PlacesInv'
  BY <1>1, RoutingType, PlacesKept DEF RoutingInv
<1>4. QED
  BY <1>2, <1>3 DEF RoutingInv

THEOREM RoutingInvariant == RoutingSpec => []RoutingInv
BY RoutingInitHolds, RoutingKept, PTL DEF RoutingSpec

(* What the room records about its host agrees with the host's sockets,    *)
(* also where rooms are created and expire around it (recordDisconnect,    *)
(* refreshHTTPHostPresence, transfer-host, claim-host).                    *)
THEOREM HostKnown == RoutingSpec => []HostIsKnown
<1>1. RoutingInv => HostIsKnown
  BY DEF RoutingInv, HostInv, PresenceInv, HostIsKnown
<1>2. QED
  BY <1>1, RoutingInvariant, PTL

(* Nobody else becomes host before the host has been silent for the whole  *)
(* grace (claim-host).                                                     *)
THEOREM GraceIsKept == RoutingSpec => HostKeepsItsGrace
<1>1. RoutingInv =>
        [\A token \in Tokens \ {hostToken} :
           ClaimHost(token) => ~ Online(hostToken) /\ clock - lastProof >= ClaimGrace]_vars
  BY PresenceAssumption
     DEF RoutingInv, HostInv, PresenceInv, TypeOK, OnlineHostIsPresent, NotBeforeProof, ClaimHost, Here
<1>2. QED
  BY <1>1, RoutingInvariant, PTL DEF HostKeepsItsGrace

(* A milestone is queued, or with a task, or counted once, or given up:    *)
(* however often the mode of delivery changes, and for any number of rooms *)
(* and requests, it is never two of these (withRoomMilestoneOutboxOwnership,*)
(* scheduleRoomMilestones).                                                *)
THEOREM OnePlaceEach == RoutingSpec => []OnePlace
<1>1. RoutingInv => OnePlace
  BY PlacesAreOne DEF RoutingInv
<1>2. QED
  BY <1>1, RoutingInvariant, PTL

(* In whatever order the tasks and the queue write, a fact is never        *)
(* replaced by an older one, and once the creation of a room is a fact,    *)
(* the code has no fact of an earlier room (UPSERT_ROOM_FACT_SQL).         *)
THEOREM FactsFollow == RoutingSpec => FactsFollowTheRoom
<1>1. RoutingInv => FactIsOfPresentRoom
  BY DEF RoutingInv, FactsInv
<1>2. RoutingInv /\ [RoutingNext]_allVars =>
        [\A key \in DOMAIN facts :
           \/ facts[key]' = facts[key]
           \/ facts[key]'.life > facts[key].life
           \/ /\ facts[key]'.life = facts[key].life
              /\ facts[key]'.version >= facts[key].version /\ facts[key]'.at >= facts[key].at]_allVars
  BY FactsKept DEF FactsGoOn, GoesOn
<1>3. QED
  BY <1>1, <1>2, RoutingInvariant, PTL DEF RoutingSpec, FactsFollowTheRoom, FactsNeverGoBack
=============================================================================
