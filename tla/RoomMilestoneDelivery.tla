------------------------ MODULE RoomMilestoneDelivery ------------------------
(***************************************************************************)
(* How the milestones of one room reach the shared database: the Durable   *)
(* Object of cloudflare/worker.ts (its room, its two local tables, its one *)
(* alarm and the alarm() invocation that drains the queue), the D1         *)
(* database behind room-milestone-receiver.ts, and the requests between    *)
(* them, which may be lost, answered too late or executed after the object *)
(* has crashed.                                                            *)
(*                                                                         *)
(* Time is counted in abstract ticks.  The object's input gate lets other  *)
(* events in only where the handler waits for D1, so everything else the   *)
(* handler does up to one storage transaction is one step.                 *)
(***************************************************************************)
EXTENDS RoomMilestoneOutbox, RoomMilestoneReceiver

CONSTANTS
  RoomIdleTTL,         \* ROOM_IDLE_TTL_MS
  AlarmMinDelay,       \* ROOM_MILESTONE_ALARM_MIN_DELAY_MS
  Watchdog,            \* ROOM_MILESTONE_WATCHDOG_MS
  DeleteRetry,         \* ROOM_DELETE_RETRY_MS
  FactKeyConfigured,   \* is ROOM_FACT_HASH_KEY set?
  MaxFlight,           \* longest time a request can be under way in D1
  AlarmLag,            \* longest delay of a due alarm by the platform
  CorruptRows,         \* events whose stored payload no longer decodes
  ForeignReceipts,     \* event ids another payload already has a receipt for
  SaveKinds,           \* the saves requests make: does one touch updatedAt?
  MaxEvents,           \* bound: events enqueued
  MaxLifetimes,        \* bound: times the room is created
  MaxCrashes,          \* bound: evictions of the object
  WriteTimes,          \* bound: the times at which requests write the room
  MaxClock             \* bound: horizon of the clock

EventIds == 1 .. MaxEvents
Lifetimes == 1 .. MaxLifetimes
NoAlarm == -1

ASSUME DeliveryAssumption ==
  /\ RoomIdleTTL \in Nat /\ RoomIdleTTL > OutboxDeadline
  /\ AlarmMinDelay \in Nat \ {0}
  /\ Watchdog \in Nat \ {0}
  /\ DeleteRetry \in Nat \ {0}
  /\ FactKeyConfigured \in BOOLEAN
  /\ MaxFlight \in Nat \ {0}
  /\ AlarmLag \in Nat \ {0}
  /\ SaveKinds \subseteq BOOLEAN
  /\ MaxEvents \in Nat /\ MaxLifetimes \in Nat
  /\ MaxCrashes \in Nat /\ WriteTimes \subseteq Nat /\ MaxClock \in Nat
  /\ CorruptRows \subseteq EventIds /\ ForeignReceipts \subseteq EventIds

\* 7 days plus any time on the wire is less than 90 days.
ASSUME RetentionAssumption == OutboxDeadline + MaxFlight <= ReceiptRetention

VARIABLES
  clock,       \* Date.now(), the same for the object and for D1
  room,        \* the room_state row: does it exist, and its updatedAt
  awake,       \* is the object in memory, its constructor done?
  outbox,      \* table room_milestone_outbox
  letters,     \* table room_milestone_dead_letters
  drops,       \* dropped_total of room_milestone_meta
  alarm,       \* the object's alarm, NoAlarm when none is set
  pc,          \* where the alarm() invocation is
  now,         \* the Date.now() alarm() read when it started
  held,        \* the queue head alarm() has sent and waits for
  answer,      \* what receiveRoomMilestone returned, or "error" if it threw
  requests,    \* deliveries under way to D1
  receipts,    \* table room_milestone_receipts
  effects,     \* times each event was added to analytics_daily
  facts,       \* table room_facts, by lifetime of the room
  lifetime,    \* lifetimes started (roomInstanceId)
  nextId,      \* history: the id the next event gets
  event,       \* history: the payload each event was enqueued with
  settled,     \* history: what became of each event
  crashes      \* evictions so far

roomVars == <<room, outbox, letters, drops>>
handlerVars == <<pc, now, held, answer>>
databaseVars == <<requests, receipts, effects, facts>>
historyVars == <<lifetime, nextId, event, settled>>
vars == <<clock, roomVars, awake, alarm, handlerVars, databaseVars,
          historyVars, crashes>>

NoPayload == [created |-> 0, version |-> 0, lifetime |-> 0]
NoRow == [id |-> 0, payload |-> NoPayload, attempts |-> 0, next |-> 0]

HandlerStates == {"idle", "started", "reconciled", "awaiting", "answered"}
Answers == {"none", "applied", "duplicate", "conflict", "invariant", "error"}
Settlements == {"none", "queued", "acknowledged", "dead-lettered", "discarded"}
Request == [id : EventIds, payload : Payload, at : Nat]

TypeOK ==
  /\ clock \in Nat
  /\ room \in [exists : BOOLEAN, updatedAt : Nat]
  /\ awake \in BOOLEAN
  /\ outbox \subseteq [id : EventIds, payload : Payload,
                      attempts : 0 .. MaxAttempts - 1, next : Nat]
  /\ letters \subseteq [id : EventIds, reason : DeadLetterReason, failedAt : Nat]
  /\ drops \in 0 .. DropCountMax
  /\ alarm \in Nat \cup {NoAlarm}
  /\ pc \in HandlerStates
  /\ now \in Nat
  /\ held \in Row
  /\ answer \in Answers
  /\ requests \subseteq Request
  /\ receipts \subseteq [id : EventIds, own : BOOLEAN, receivedAt : Nat]
  /\ effects \in [EventIds -> Nat]
  /\ facts \in [Lifetimes -> Fact]
  /\ lifetime \in Nat
  /\ nextId \in Nat \ {0}
  /\ event \in [EventIds -> Payload]
  /\ settled \in [EventIds -> Settlements]
  /\ crashes \in Nat

Init ==
  /\ clock = 0
  /\ room = [exists |-> FALSE, updatedAt |-> 0]
  /\ awake = TRUE
  /\ outbox = {} /\ letters = {} /\ drops = 0
  /\ alarm = NoAlarm
  /\ pc = "idle" /\ now = 0 /\ held = NoRow /\ answer = "none"
  /\ requests = {}
  /\ receipts = {[id |-> i, own |-> FALSE, receivedAt |-> 0] : i \in ForeignReceipts}
  /\ effects = [i \in EventIds |-> 0]
  /\ facts = [l \in Lifetimes |-> NoFact]
  /\ lifetime = 0 /\ nextId = 1
  /\ event = [i \in EventIds |-> NoPayload]
  /\ settled = [i \in EventIds |-> "none"]
  /\ crashes = 0

-----------------------------------------------------------------------------
(* The alarm, shared by the queue and the room's idle expiry               *)

ExpiresAt == room.updatedAt + RoomIdleTTL
\* Slip: only the room's expiry sets the alarm.
WakeTimes_ExpiryOnly == {ExpiresAt}
WakeTimes == DueTimes(outbox, letters) \cup {ExpiresAt}

\* reconcileRoomAlarm: the earliest wake time of the tables just written, but
\* never closer than AlarmMinDelay.
ReconcileAlarm ==
  \E due \in WakeTimes' :
    /\ \A other \in WakeTimes' : due <= other
    /\ alarm' = Greater(clock + AlarmMinDelay, due)

HandlerIdle ==
  pc' = "idle" /\ now' = 0 /\ held' = NoRow /\ answer' = "none"

-----------------------------------------------------------------------------
(* Requests that write the room                                            *)

\* fetch() runs only while alarm() is idle or waits for D1.
GateOpen == awake /\ pc \in {"idle", "awaiting"} /\ clock \in WriteTimes

FreshIds(count) == nextId .. nextId + count - 1

\* saveWithRoomMilestones, the group is queued: one transaction writes the
\* room, its events and the alarm.
QueueGroup(count, life) ==
  LET payload == [created |-> clock, version |-> nextId, lifetime |-> life]
      ids == FreshIds(count)
  IN  /\ ids \subseteq EventIds
      /\ Fits(outbox, count)
      /\ room' = [exists |-> TRUE, updatedAt |-> clock]
      /\ outbox' = outbox \cup NewRows(ids, payload)
      /\ nextId' = nextId + count
      /\ event' = [i \in EventIds |-> IF i \in ids THEN payload ELSE event[i]]
      /\ settled' = [i \in EventIds |-> IF i \in ids THEN "queued" ELSE settled[i]]
      /\ UNCHANGED letters
      /\ ReconcileAlarm

\* POST /create on a code that has no room.
CreateRoom ==
  /\ GateOpen
  /\ ~ room.exists
  /\ lifetime < MaxLifetimes
  /\ lifetime' = lifetime + 1
  /\ drops' = 0
  /\ QueueGroup(1, lifetime + 1)
  /\ UNCHANGED <<clock, awake, handlerVars, databaseVars, crashes>>

\* A join or an action that reaches one milestone, or the two of a last turn.
QueueMilestones(count) ==
  /\ GateOpen
  /\ room.exists
  /\ QueueGroup(count, lifetime)
  /\ UNCHANGED <<clock, awake, drops, handlerVars, databaseVars, lifetime, crashes>>

\* Slip: a full queue makes room by forgetting its head.
DropMilestones_MakesRoom(count, canonical) ==
  /\ GateOpen
  /\ room.exists
  /\ canonical => ~ Fits(outbox, count)
  /\ room' = [room EXCEPT !.updatedAt = clock]
  /\ drops' = CountDrops(drops, count)
  /\ outbox' = {row \in outbox : ~ IsHead(row, outbox)}
  /\ UNCHANGED letters
  /\ ReconcileAlarm
  /\ UNCHANGED <<clock, awake, handlerVars, databaseVars, historyVars, crashes>>

\* The same when the queue is full, or a fact cannot be put in canonical form:
\* the room is saved and the whole group is only counted.
DropMilestones(count, canonical) ==
  /\ GateOpen
  /\ room.exists
  /\ canonical => ~ Fits(outbox, count)
  /\ room' = [room EXCEPT !.updatedAt = clock]
  /\ drops' = CountDrops(drops, count)
  /\ UNCHANGED <<outbox, letters>>
  /\ ReconcileAlarm
  /\ UNCHANGED <<clock, awake, handlerVars, databaseVars, historyVars, crashes>>

\* save(): a write without milestones; a join of a member does not touch
\* updatedAt.
SaveRoom(touched) ==
  /\ GateOpen
  /\ room.exists
  /\ room' = [room EXCEPT !.updatedAt = IF touched THEN clock ELSE @]
  /\ UNCHANGED <<outbox, letters>>
  /\ ReconcileAlarm
  /\ UNCHANGED <<clock, awake, drops, handlerVars, databaseVars, historyVars, crashes>>

-----------------------------------------------------------------------------
(* The constructor, and what ends an object                                *)

\* Slip: a new instance trusts the alarm it finds.
Wake_NoReconcile ==
  /\ ~ awake
  /\ awake' = TRUE
  /\ UNCHANGED <<clock, roomVars, alarm, handlerVars, databaseVars, historyVars, crashes>>
\* The constructor, before any request is handled.
Wake ==
  /\ ~ awake
  /\ awake' = TRUE
  /\ UNCHANGED roomVars
  /\ IF room.exists THEN ReconcileAlarm ELSE UNCHANGED alarm
  /\ UNCHANGED <<clock, handlerVars, databaseVars, historyVars, crashes>>

\* Hibernation, a deployment or a failure: memory is lost, storage is not,
\* and an alarm that was taken without being set again is delivered again.
Evict ==
  /\ awake
  /\ crashes < MaxCrashes
  /\ crashes' = crashes + 1
  /\ awake' = FALSE
  /\ alarm' = IF pc = "started" /\ alarm = NoAlarm THEN clock ELSE alarm
  /\ HandlerIdle
  /\ UNCHANGED <<clock, roomVars, databaseVars, historyVars>>

-----------------------------------------------------------------------------
(* alarm(): one invocation at a time                                       *)

\* The platform takes the alarm and calls the handler, after the constructor
\* if the object was not in memory.
AlarmFire ==
  /\ pc = "idle"
  /\ alarm # NoAlarm
  /\ alarm <= clock
  /\ pc' = "started"
  /\ now' = clock
  /\ awake' = TRUE
  /\ UNCHANGED roomVars
  /\ IF ~ awake /\ room.exists THEN ReconcileAlarm ELSE alarm' = NoAlarm
  /\ UNCHANGED <<clock, held, answer, databaseVars, historyVars, crashes>>

\* No room, or a room idle for RoomIdleTTL: delete everything, the alarm too.
AlarmDeleteRoom ==
  /\ pc = "started"
  /\ room.exists => now >= ExpiresAt
  /\ room' = [room EXCEPT !.exists = FALSE]
  /\ outbox' = {}
  /\ letters' = {}
  /\ drops' = 0
  /\ alarm' = NoAlarm
  /\ settled' = [i \in EventIds |->
                   IF settled[i] = "queued" THEN "discarded" ELSE settled[i]]
  /\ HandlerIdle
  /\ UNCHANGED <<clock, awake, databaseVars, lifetime, nextId, event, crashes>>

\* deleteAll fails: the data stays, try again later.
AlarmDeleteFails ==
  /\ pc = "started"
  /\ room.exists => now >= ExpiresAt
  /\ alarm' = clock + DeleteRetry
  /\ HandlerIdle
  /\ UNCHANGED <<clock, roomVars, awake, databaseVars, historyVars, crashes>>

\* The first transaction: purge dead letters, set the next alarm.
AlarmReconcile ==
  /\ pc = "started"
  /\ room.exists
  /\ now < ExpiresAt
  /\ letters' = Purged(letters, now)
  /\ UNCHANGED <<room, outbox, drops>>
  /\ ReconcileAlarm
  /\ pc' = "reconciled"
  /\ UNCHANGED <<clock, awake, now, held, answer, databaseVars, historyVars, crashes>>

\* The queue is empty, or its head is waiting for a later attempt.
AlarmNothingDue ==
  /\ pc = "reconciled"
  /\ \A row \in outbox : IsHead(row, outbox) => row.next > now
  /\ HandlerIdle
  /\ UNCHANGED <<clock, roomVars, awake, alarm, databaseVars, historyVars, crashes>>

\* A terminal transaction: the row leaves the queue for the dead letters.
\* Every finalizer compares the row it holds with the stored one, and sets
\* the alarm for whatever the queue then holds.
DeadLetterRow(row, why) ==
  /\ outbox' = outbox \ {row}
  /\ letters' = IF row \in outbox THEN WithDeadLetter(letters, row, why, clock)
                                  ELSE letters
  /\ settled' = IF row \in outbox THEN [settled EXCEPT ![row.id] = "dead-lettered"]
                                  ELSE settled
  /\ UNCHANGED <<room, drops>>
  /\ ReconcileAlarm
  /\ HandlerIdle
  /\ UNCHANGED <<clock, awake, databaseVars, lifetime, nextId, event, crashes>>

\* The head is past its deadline, or its payload no longer decodes.
AlarmDeadLetterHead ==
  /\ pc = "reconciled"
  /\ \E row \in outbox :
       /\ IsHead(row, outbox)
       /\ row.next <= now
       /\ Deadline(row) <= now \/ row.id \in CorruptRows
       /\ DeadLetterRow(row, IF Deadline(row) <= now THEN "deadline-exceeded"
                                                    ELSE "invalid-payload")

\* The watchdog alarm is set, then the head is sent to D1.
AlarmDispatch ==
  /\ pc = "reconciled"
  /\ \E row \in outbox :
       /\ IsHead(row, outbox)
       /\ row.next <= now
       /\ now < Deadline(row)
       /\ row.id \notin CorruptRows
       /\ alarm' = Lesser(now + Watchdog, Lesser(Deadline(row), ExpiresAt))
       /\ held' = row
       /\ requests' = requests \cup {[id |-> row.id, payload |-> row.payload, at |-> now]}
  /\ pc' = "awaiting"
  /\ UNCHANGED <<clock, roomVars, awake, now, answer, receipts, effects, facts,
                 historyVars, crashes>>

\* finalizeMilestoneAcknowledgement.
AlarmAcknowledge ==
  /\ pc = "answered"
  /\ answer \in {"applied", "duplicate"}
  /\ outbox' = outbox \ {held}
  /\ settled' = IF held \in outbox THEN [settled EXCEPT ![held.id] = "acknowledged"]
                                   ELSE settled
  /\ UNCHANGED <<room, letters, drops>>
  /\ ReconcileAlarm
  /\ HandlerIdle
  /\ UNCHANGED <<clock, awake, databaseVars, lifetime, nextId, event, crashes>>

\* finalizeMilestoneConflict, and finalizeMilestoneRetry when the deadline has
\* passed or the attempts are used up.
AlarmGiveUp ==
  /\ pc = "answered"
  /\ answer \in {"conflict", "invariant", "error"}
  /\ \/ answer = "conflict"
     \/ clock >= Deadline(held)
     \/ held.attempts + 1 >= MaxAttempts
  /\ DeadLetterRow(held, IF answer = "conflict" THEN "conflict"
                         ELSE IF clock >= Deadline(held) THEN "deadline-exceeded"
                         ELSE "attempts-exhausted")

\* finalizeMilestoneRetry: one of the jittered delays of this attempt.
AlarmRetry ==
  /\ pc = "answered"
  /\ answer \in {"invariant", "error"}
  /\ clock < Deadline(held)
  /\ held.attempts + 1 < MaxAttempts
  /\ \E delay \in RetryDelays[held.attempts + 1] :
       outbox' = IF held \in outbox
                 THEN (outbox \ {held}) \cup {Rescheduled(held, clock, delay)}
                 ELSE outbox
  /\ UNCHANGED <<room, letters, drops>>
  /\ ReconcileAlarm
  /\ HandlerIdle
  /\ UNCHANGED <<clock, awake, databaseVars, historyVars, crashes>>

-----------------------------------------------------------------------------
(* D1 and the way to it                                                    *)

\* Is the handler still waiting for this request, or has it crashed since?
IsCurrent(request) ==
  pc = "awaiting" /\ held.id = request.id /\ now = request.at

Reply(request, result, delivered) ==
  IF delivered /\ IsCurrent(request)
  THEN pc' = "answered" /\ answer' = result
  ELSE UNCHANGED <<pc, answer>>

\* The batch commits; its answer may be lost on the way back.
DatabaseExecute(request, delivered) ==
  LET result == Classify(receipts, request.id)
  IN  /\ requests' = requests \ {request}
      /\ IF result = "applied"
         THEN /\ receipts' = receipts \cup
                   {[id |-> request.id, own |-> TRUE, receivedAt |-> request.at]}
              /\ effects' = [effects EXCEPT ![request.id] = @ + 1]
              /\ facts' = IF FactKeyConfigured THEN Upsert(facts, request.payload)
                                               ELSE facts
         ELSE UNCHANGED <<receipts, effects, facts>>
      /\ Reply(request, result, delivered)
      /\ UNCHANGED <<clock, roomVars, awake, alarm, now, held, historyVars, crashes>>

\* The request has no effect: it is lost, or the schema marker is not 6.
DatabaseRefuse(request, delivered) ==
  /\ requests' = requests \ {request}
  /\ Reply(request, "invariant", delivered)
  /\ UNCHANGED <<clock, roomVars, awake, alarm, now, held, receipts, effects,
                 facts, historyVars, crashes>>

\* receiveRoomMilestone throws, whether or not the request still executes.
DatabaseError ==
  /\ pc = "awaiting"
  /\ pc' = "answered"
  /\ answer' = "error"
  /\ UNCHANGED <<clock, roomVars, awake, alarm, now, held, databaseVars,
                 historyVars, crashes>>

\* The scheduled cleanup removes a receipt past its 90 days.
DeleteExpiredReceipt(receipt) ==
  /\ Expired(receipt, clock)
  /\ receipts' = receipts \ {receipt}
  /\ UNCHANGED <<clock, roomVars, awake, alarm, handlerVars, requests, effects,
                 facts, historyVars, crashes>>

-----------------------------------------------------------------------------
(* Local steps take no time, an alarm is at most AlarmLag late, a request   *)
(* is under way for at most MaxFlight.                                      *)
Tick ==
  /\ clock < MaxClock
  /\ pc \in {"idle", "awaiting"}
  /\ pc = "awaiting" => clock < now + MaxFlight
  /\ pc = "idle" /\ alarm # NoAlarm => clock < alarm + AlarmLag
  /\ \A request \in requests : clock < request.at + MaxFlight
  /\ clock' = clock + 1
  /\ UNCHANGED <<roomVars, awake, alarm, handlerVars, databaseVars, historyVars,
                 crashes>>

AlarmStep ==
  \/ AlarmFire
  \/ AlarmDeleteRoom
  \/ AlarmReconcile
  \/ AlarmNothingDue
  \/ AlarmDeadLetterHead
  \/ AlarmDispatch
  \/ AlarmAcknowledge
  \/ AlarmGiveUp
  \/ AlarmRetry

Next ==
  \/ CreateRoom
  \/ \E count \in 1 .. 2 : QueueMilestones(count)
  \/ \E count \in 1 .. 2, canonical \in BOOLEAN : DropMilestones(count, canonical)
  \/ \E touched \in SaveKinds : SaveRoom(touched)
  \/ Wake
  \/ Evict
  \/ AlarmStep
  \/ AlarmDeleteFails
  \/ \E request \in requests, delivered \in BOOLEAN :
       \/ DatabaseExecute(request, delivered)
       \/ DatabaseRefuse(request, delivered)
  \/ DatabaseError
  \/ \E receipt \in receipts : DeleteExpiredReceipt(receipt)
  \/ Tick

Spec == Init /\ [][Next]_vars

\* The platform delivers alarms at least once and runs the handler to its end
\* unless it evicts the object; a request to D1 ends; time passes.
Fairness ==
  /\ WF_vars(AlarmStep)
  /\ WF_vars(DatabaseError)
  /\ WF_vars(\E request \in requests, delivered \in BOOLEAN :
               DatabaseExecute(request, delivered) \/ DatabaseRefuse(request, delivered))
  /\ WF_vars(Tick)

FairSpec == Spec /\ Fairness

=============================================================================
