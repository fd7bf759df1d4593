----------------------------- MODULE RoomRouting -----------------------------
(***************************************************************************)
(* What the requests to a room have for consequences outside of it.  The   *)
(* room object (cloudflare/worker.ts) puts its milestones into its own     *)
(* outbox, or, when the mode of delivery is best-effort, leaves them to    *)
(* the outer Worker with its answer.  The Worker then writes them into the *)
(* shared database in a task of its own (recordRoomMilestone of            *)
(* cloudflare/platform-routes.ts), one write after the other, and nothing  *)
(* is tried again.  The mode changes with a deployment while answers,      *)
(* tasks and queued events are under way, and the code of an expired room  *)
(* may be given to another.  The queue is the one of RoomMilestoneDelivery *)
(* with everything that can happen to a delivery left out but its outcome. *)
(***************************************************************************)
EXTENDS RoomPresence, Sequences

CONSTANTS
  IdleTTL,     \* ROOM_IDLE_TTL_MS
  MaxVersion,  \* bound: version of a room
  MaxLives,    \* bound: rooms that get the code
  MaxEvents,   \* bound: milestones of all of them
  Followed,    \* bound: browsers whose requests are followed outside of the room
  Follow       \* bound: whether sockets are followed, or milestones

ASSUME RoutingAssumption ==
  /\ IdleTTL \in Nat /\ IdleTTL > ClaimGrace
  /\ {MaxVersion, MaxLives, MaxEvents} \subseteq Nat /\ Followed \subseteq Tokens
  /\ Follow \subseteq {"sockets", "milestones"}

VARIABLES
  scope,       \* what is followed
  room,        \* life, version, phase and updatedAt; version 0 is no room
  mode,        \* ROOM_MILESTONE_DELIVERY_MODE of the object's version
  queue,       \* room_milestone_outbox
  deliveries,  \* answers with milestones on their way, and the tasks made of them
  facts,       \* room_facts: by the code (0), and by lifetime
  counts,      \* history: how often an event was counted or, without a count, written
  lost,        \* history: events given up
  happened,    \* history: all events
  known        \* history: lifetimes whose creation is a fact under the code

routing == <<room, mode, queue, deliveries, facts, counts, lost, happened, known>>
allVars == <<vars, scope, routing>>

NoFact == [life |-> 0, version |-> 0, at |-> 0, kind |-> "none"]

RoutingInit ==
  /\ Init
  /\ scope \in Follow /\ (scope = "milestones" => members = {})
  /\ room = [life |-> 0, version |-> 0, phase |-> "setup", updatedAt |-> 0]
  /\ mode \in {"best-effort", "outbox"}
  /\ queue = <<>> /\ deliveries = {}
  /\ facts = [key \in 0 .. MaxLives |-> NoFact]
  /\ counts = <<>> /\ lost = {} /\ happened = {} /\ known = {}

Event(life, version, kind) == [life |-> life, version |-> version, kind |-> kind]
\* What becomes the fact about the room: an event, and the updatedAt of the room then.
Row(event, at) ==
  [life |-> event.life, version |-> event.version, kind |-> event.kind, at |-> at]
EventOf(row) == Event(row.life, row.version, row.kind)

-----------------------------------------------------------------------------
(* The room object                                                         *)

\* Slip: a room with an outbox tells its milestones to the Worker too.
Told_Always(kinds) == kinds
\* The header of the answer: an outbox shows itself by an empty list.
Told(kinds) == IF mode = "outbox" THEN <<>> ELSE kinds

\* A request has changed the room, and these milestones came of it.  An outbox takes all of
\* them or, when it is full, none.
Handled(life, version, phase, kinds) ==
  LET events == {Event(life, version, kinds[i]) : i \in DOMAIN kinds}
      rows == [i \in DOMAIN kinds |-> Row(Event(life, version, kinds[i]), clock)]
      answer == [life |-> life, version |-> version, at |-> clock, rest |-> Told(kinds),
                 step |-> "answer"]
  IN  /\ Cardinality(happened) + Len(kinds) <= MaxEvents
      /\ room' = [life |-> life, version |-> version, phase |-> phase, updatedAt |-> clock]
      /\ \/ mode = "outbox" /\ queue' = queue \o rows /\ UNCHANGED lost
         \/ mode = "outbox" /\ lost' = lost \cup events /\ UNCHANGED queue
         \/ mode = "best-effort" /\ UNCHANGED <<queue, lost>>
      /\ deliveries' = deliveries \cup (IF answer.rest = <<>> THEN {} ELSE {answer})
      /\ happened' = happened \cup events
      /\ UNCHANGED <<mode, facts, counts, known>>

Exists == room.version > 0
NextVersion == room.version + 1

\* POST /create, by the Worker with a code that is free; the creator takes no seat.
CreateRoom ==
  /\ ~ Exists /\ room.life < MaxLives
  /\ Handled(room.life + 1, 1, "setup", <<"created">>)
  /\ hostToken' = Creator /\ hostDisconnectedAt' = clock /\ members' = {}
  /\ lastProof' = clock /\ lastSign' = clock
  /\ UNCHANGED <<clock, open, closing>>

\* POST /join: a second request of the same browser is no milestone.
JoinRoom(token) ==
  /\ Exists /\ room.version < MaxVersion
  /\ Join(token)
  /\ Handled(room.life, NextVersion, room.phase, IF token \in members THEN <<>> ELSE <<"joined">>)

\* POST /action: what an action does to the phase, and the milestones it is.
Outcomes ==
  CASE room.phase = "playing" -> {[phase |-> "playing", kinds |-> <<>>],
                                  [phase |-> "playing", kinds |-> <<"turn-completed">>],
                                  [phase |-> "finished",
                                   kinds |-> <<"turn-completed", "game-finished">>],
                                  [phase |-> "setup", kinds |-> <<"reset">>]}
    [] room.phase = "finished" -> {[phase |-> "playing", kinds |-> <<"game-started">>],
                                   [phase |-> "setup", kinds |-> <<"reset">>]}
    [] OTHER -> {[phase |-> "playing", kinds |-> <<"game-started">>]}

ActInRoom(token) ==
  /\ Exists /\ room.version < MaxVersion
  /\ Act(token, {})
  /\ \E outcome \in Outcomes : Handled(room.life, NextVersion, outcome.phase, outcome.kinds)

\* expireRoom: the room is deleted with its queue; no request takes as long as that.
ExpireRoom ==
  /\ Exists /\ clock >= room.updatedAt + IdleTTL
  /\ \A d \in deliveries : d.life # room.life
  /\ room' = [room EXCEPT !.version = 0, !.phase = "setup"]
  /\ queue' = <<>>
  /\ lost' = lost \cup {EventOf(queue[i]) : i \in DOMAIN queue}
  /\ UNCHANGED <<vars, mode, deliveries, facts, counts, happened, known>>

\* Another version of the object, or another policy.
Deploy ==
  /\ mode' = IF mode = "outbox" THEN "best-effort" ELSE "outbox"
  /\ UNCHANGED <<vars, room, queue, deliveries, facts, counts, lost, happened, known>>

-----------------------------------------------------------------------------
(* The database                                                            *)

\* Slip: what comes last is the fact.
Supersedes_Always(new, old) == TRUE
\* The WHERE of UPSERT_ROOM_FACT_SQL: creation may lower the version.
Supersedes(new, old) ==
  \/ new.at > old.at /\ (new.kind = "created" \/ new.version >= old.version)
  \/ new.at = old.at /\ new.version >= old.version

Upserted(key, new) ==
  IF facts[key] = NoFact \/ Supersedes(new, facts[key])
  THEN [facts EXCEPT ![key] = new] ELSE facts

Counted(event) ==
  counts' = [other \in DOMAIN counts \cup {event} |->
               IF other \notin DOMAIN counts THEN 1
               ELSE IF other = event THEN counts[other] + 1 ELSE counts[other]]

-----------------------------------------------------------------------------
(* The task of the Worker                                                  *)

Current(d) == Event(d.life, d.version, Head(d.rest))
\* mapPublicRoomStateToFact, of the answer and the time of the room it carries
FactOf(d) == Row(Current(d), d.at)
\* analyticsEventFromRoomMilestone
IsCounted(kind) == kind # "reset"

\* scheduleRoomMilestones
AnswerArrives(d) ==
  /\ d.step = "answer"
  /\ deliveries' = (deliveries \ {d}) \cup {[d EXCEPT !.step = "fact"]}
  /\ UNCHANGED <<vars, room, mode, queue, facts, counts, lost, happened, known>>

\* The answer is lost, or the task ends with the invocation.
DeliveryDies(d) ==
  /\ deliveries' = deliveries \ {d}
  /\ lost' = lost \cup {Event(d.life, d.version, d.rest[i]) : i \in DOMAIN d.rest}
  /\ UNCHANGED <<vars, room, mode, queue, facts, counts, happened, known>>

\* The next milestone, if there is one.
WithoutHead(d) ==
  deliveries' = (deliveries \ {d}) \cup
    (IF Tail(d.rest) = <<>> THEN {} ELSE {[d EXCEPT !.rest = Tail(@), !.step = "fact"]})

\* recordRoomMilestone: a fact that cannot be written is forgotten.
WriteFact(d, succeeds) ==
  /\ d.step = "fact"
  /\ facts' = IF succeeds THEN Upserted(0, FactOf(d)) ELSE facts
  /\ known' = IF succeeds /\ Head(d.rest) = "created" THEN known \cup {d.life} ELSE known
  /\ IF IsCounted(Head(d.rest))
       THEN /\ deliveries' = (deliveries \ {d}) \cup {[d EXCEPT !.step = "count"]}
            /\ UNCHANGED counts
       ELSE WithoutHead(d) /\ Counted(Current(d))
  /\ UNCHANGED <<vars, room, mode, queue, lost, happened>>

\* recordProductEvent
CountEvent(d, succeeds) ==
  /\ d.step = "count"
  /\ WithoutHead(d)
  /\ IF succeeds THEN Counted(Current(d)) /\ UNCHANGED lost
     ELSE lost' = lost \cup {Current(d)} /\ UNCHANGED counts
  /\ UNCHANGED <<vars, room, mode, queue, facts, happened, known>>

-----------------------------------------------------------------------------
(* The alarm of the room, whatever the mode is by then                     *)

\* A delivery of the outbox, in one transaction of the database, or a dead letter.
DeliverHead(succeeds) ==
  /\ Exists /\ queue # <<>>
  /\ queue' = Tail(queue)
  /\ LET head == Head(queue)
         event == EventOf(head)
     IN  IF succeeds
           THEN Counted(event) /\ facts' = Upserted(head.life, head) /\ UNCHANGED lost
           ELSE lost' = lost \cup {event} /\ UNCHANGED <<counts, facts>>
  /\ UNCHANGED <<vars, room, mode, deliveries, happened, known>>

-----------------------------------------------------------------------------
RoutingNext ==
  /\ UNCHANGED scope
  /\ \/ /\ scope = "sockets"
        /\ Next /\ UNCHANGED routing
     \/ /\ scope = "milestones"
        /\ \/ CreateRoom \/ ExpireRoom \/ Deploy
           \/ (\E token \in Followed : JoinRoom(token) \/ ActInRoom(token))
           \/ Tick /\ UNCHANGED routing
           \/ (\E d \in deliveries : AnswerArrives(d) \/ DeliveryDies(d))
           \/ (\E d \in deliveries, succeeds \in BOOLEAN :
                 WriteFact(d, succeeds) \/ CountEvent(d, succeeds))
           \/ (\E succeeds \in BOOLEAN : DeliverHead(succeeds))

RoutingSpec == RoutingInit /\ [][RoutingNext]_allVars

-----------------------------------------------------------------------------
(* Properties                                                              *)

(* Whatever the mode was and becomes, every milestone has one way into the *)
(* database: it is queued, or with a task, or counted once, or given up,   *)
(* and never two of these (withRoomMilestoneOutboxOwnership,               *)
(* scheduleRoomMilestones).                                                *)
OnePlace ==
  \A event \in happened :
    Cardinality({i \in DOMAIN queue : EventOf(queue[i]) = event})
      + Cardinality({d \in deliveries :
                       \E i \in DOMAIN d.rest : Event(d.life, d.version, d.rest[i]) = event})
      + (IF event \in DOMAIN counts THEN counts[event] ELSE 0)
      + (IF event \in lost THEN 1 ELSE 0) = 1

(* Tasks overtake each other, but a fact is never replaced by an older one *)
(* of its room or by one of an earlier room (UPSERT_ROOM_FACT_SQL).        *)
FactsNeverGoBack ==
  [][\A key \in DOMAIN facts :
       \/ facts[key]' = facts[key]
       \/ facts[key]'.life > facts[key].life
       \/ /\ facts[key]'.life = facts[key].life
          /\ facts[key]'.version >= facts[key].version /\ facts[key]'.at >= facts[key].at]_allVars

(* Once the creation of a room has been written, the fact under its code   *)
(* is about this room, whatever an earlier room left there and in whatever *)
(* order its own milestones came (UPSERT_ROOM_FACT_SQL).                   *)
FactIsOfPresentRoom == room.life \in known => facts[0].life = room.life

(* The shared facts keep up with the rooms, and never fall behind again.   *)
FactsFollowTheRoom == []FactIsOfPresentRoom /\ FactsNeverGoBack

=============================================================================
