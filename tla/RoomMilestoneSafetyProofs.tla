---------------------- MODULE RoomMilestoneSafetyProofs ----------------------
(***************************************************************************)
(* Milestone delivery, for every value of the constants: its types, its    *)
(* inductive invariant, and that it implements the abstract specification. *)
(***************************************************************************)
EXTENDS RoomMilestoneProperties, FiniteSetTheorems, TLAPS

-----------------------------------------------------------------------------
(* The inductive invariant of milestone delivery: what relates the queue,  *)
(* the handler, the requests under way and the database, from which its    *)
(* safety follows.                                                         *)

Created(i) == event[i].created

\* The queue holds exactly the events that are queued, one row each.
QueueIsExact ==
  /\ \A row \in outbox :
       /\ row.payload = event[row.id]
       /\ settled[row.id] = "queued"
  /\ \A row, other \in outbox : row.id = other.id => row = other
  /\ \A i \in EventIds :
       settled[i] = "queued" => \E row \in outbox : row.id = i

\* The events so far are those below nextId.
EventsAreNumbered ==
  \A i \in EventIds :
    /\ i < nextId <=> settled[i] # "none"
    /\ i < nextId => Created(i) <= clock
    /\ effects[i] > 0 => i < nextId

\* The handler reads the time when it starts and no time passes before it
\* waits; its row stays the head of the queue.
HandlerIsCurrent ==
  /\ pc \in {"started", "reconciled"} => now = clock
  /\ HeldRowIsHead
  /\ pc = "answered" /\ answer \in {"applied", "duplicate"} => effects[held.id] = 1

\* A request was sent within its event's deadline, ends within MaxFlight, and
\* the events before it have left the queue.
RequestsAreTimely ==
  \A request \in requests :
    /\ request.id < nextId
    /\ Created(request.id) <= request.at
    /\ request.at < Created(request.id) + OutboxDeadline
    /\ request.at <= clock
    /\ clock <= request.at + MaxFlight
    /\ \A i \in EventIds : i < request.id => settled[i] # "queued"

\* An applied event keeps its receipt for ReceiptRetention, longer than any
\* request of that event can be under way.
ReceiptsOutliveRequests ==
  /\ AppliedAtMostOnce
  /\ \A i \in EventIds :
       effects[i] = 1 => \/ \E receipt \in receipts : receipt.id = i /\ receipt.own
                         \/ Created(i) + ReceiptRetention <= clock
  /\ \A receipt \in receipts :
       receipt.own => /\ Created(receipt.id) <= receipt.receivedAt
                      /\ effects[receipt.id] = 1

DeliveryInv ==
  /\ QueueIsExact
  /\ EventsAreNumbered
  /\ HandlerIsCurrent
  /\ RequestsAreTimely
  /\ ReceiptsOutliveRequests
  /\ AcknowledgedIsApplied
  /\ NoOvertaking

-----------------------------------------------------------------------------
(* The rows of the tables *)

QueueRow ==
  [id : EventIds, payload : Payload, attempts : 0 .. MaxAttempts - 1, next : Nat]
Letter == [id : EventIds, reason : DeadLetterReason, failedAt : Nat]

-----------------------------------------------------------------------------
(* Types *)

LEMMA LesserType == ASSUME NEW a \in Nat, NEW b \in Nat PROVE Lesser(a, b) \in Nat
  BY DEF Lesser

LEMMA GreaterType == ASSUME NEW a \in Nat, NEW b \in Nat PROVE Greater(a, b) \in Nat
  BY DEF Greater

LEMMA DeadlineType ==
  ASSUME NEW row, row.payload \in Payload PROVE Deadline(row) \in Nat
  BY OutboxAssumption DEF Deadline, Payload

(* The wake times of typed tables are times.                               *)
LEMMA DueTimesType ==
  ASSUME NEW queue \in SUBSET QueueRow, NEW some \in SUBSET Letter
  PROVE  DueTimes(queue, some) \subseteq Nat
<1>1. ASSUME NEW row \in queue PROVE Lesser(row.next, Deadline(row)) \in Nat
  <2>1. row.next \in Nat /\ row.payload \in Payload
    BY DEF QueueRow
  <2>2. QED
    BY <2>1, DeadlineType, LesserType
<1>2. ASSUME NEW d \in some PROVE PurgeAt(d) \in Nat
  BY OutboxAssumption DEF PurgeAt, Letter
<1>3. QED
  BY <1>1, <1>2 DEF DueTimes

(* Setting the alarm leaves a time in it, if the tables are typed.         *)
LEMMA ReconcileType ==
  ASSUME ReconcileAlarm, clock \in Nat, outbox' \subseteq QueueRow,
         letters' \subseteq Letter, room'.updatedAt \in Nat
  PROVE  alarm' \in Nat
<1>1. DueTimes(outbox, letters)' \subseteq Nat
  <2>1. DueTimes(outbox', letters') \subseteq Nat
    BY DueTimesType
  <2>2. DueTimes(outbox, letters)' = DueTimes(outbox', letters')
    BY DEF DueTimes, Lesser, IsHead, Deadline, PurgeAt
  <2>3. QED BY <2>1, <2>2
<1>2. ExpiresAt' \in Nat
  BY DeliveryAssumption DEF ExpiresAt
<1>3. PICK due \in WakeTimes' : alarm' = Greater(clock + AlarmMinDelay, due)
  BY DEF ReconcileAlarm
<1>4. due \in Nat
  BY <1>1, <1>2, <1>3 DEF WakeTimes
<1>5. clock + AlarmMinDelay \in Nat
  BY DeliveryAssumption
<1>6. QED
  BY <1>3, <1>4, <1>5, GreaterType

LEMMA HeadType ==
  ASSUME TypeOK, NEW row \in outbox
  PROVE  /\ row \in Row /\ row.id \in EventIds /\ row.payload \in Payload
         /\ Deadline(row) \in Nat
<1>1. row \in QueueRow
  BY DEF TypeOK, QueueRow
<1>2. 0 .. MaxAttempts - 1 \subseteq Nat
  BY OutboxAssumption
<1>3. row.id \in Nat
  BY <1>1 DEF QueueRow, EventIds
<1>4. row.payload \in Payload
  BY <1>1 DEF QueueRow
<1>5. row \in Row
  BY <1>1, <1>2, <1>3 DEF QueueRow, Row
<1>6. QED
  BY <1>1, <1>4, <1>5, DeadlineType DEF QueueRow

(* The rows that take part in no table and no request.                     *)
LEMMA NoRowType == NoRow \in Row /\ NoPayload \in Payload
  BY DEF NoRow, NoPayload, Row, Payload

LEMMA NewestType == ASSUME NEW some PROVE Newest(some) \subseteq some
  BY DEF Newest

LEMMA InitType == Init => TypeOK
<1>1. SUFFICES ASSUME Init PROVE TypeOK
  OBVIOUS
<1>2. receipts \subseteq [id : EventIds, own : BOOLEAN, receivedAt : Nat]
  <2>1. receipts = {[id |-> i, own |-> FALSE, receivedAt |-> 0] : i \in ForeignReceipts}
    BY <1>1 DEF Init
  <2>2. ForeignReceipts \subseteq EventIds
    BY DeliveryAssumption
  <2>3. SUFFICES ASSUME NEW i \in ForeignReceipts
                 PROVE  [id |-> i, own |-> FALSE, receivedAt |-> 0]
                          \in [id : EventIds, own : BOOLEAN, receivedAt : Nat]
    BY <2>1
  <2>4. QED
    BY <2>2
<1>3. facts \in [Lifetimes -> Fact] /\ event \in [EventIds -> Payload]
  BY <1>1, NoRowType DEF Init, Fact, NoFact
<1>4. drops \in 0 .. DropCountMax /\ alarm \in Nat \cup {NoAlarm} /\ clock \in Nat
  BY <1>1, OutboxAssumption DEF Init
<1>5. outbox = {} /\ letters = {} /\ requests = {} /\ held \in Row
  BY <1>1, NoRowType DEF Init
<1>6. /\ effects \in [EventIds -> Nat]
      /\ settled \in [EventIds -> Settlements]
  BY <1>1 DEF Init, Settlements
<1>7. /\ room \in [exists : BOOLEAN, updatedAt : Nat]
      /\ awake \in BOOLEAN /\ now \in Nat /\ lifetime \in Nat
      /\ nextId \in Nat \ {0} /\ crashes \in Nat
  BY <1>1 DEF Init
<1>8. pc \in HandlerStates /\ answer \in Answers
  BY <1>1 DEF Init, HandlerStates, Answers
<1>9. QED
  BY <1>2, <1>3, <1>4, <1>5, <1>6, <1>7, <1>8 DEF TypeOK

(* A group of events enters the queue.                                     *)
LEMMA QueueGroupType ==
  ASSUME TypeOK, NEW count \in 1 .. 2, NEW life \in Nat, QueueGroup(count, life)
  PROVE  /\ room' \in [exists : BOOLEAN, updatedAt : Nat]
         /\ outbox' \subseteq QueueRow
         /\ letters' \subseteq Letter
         /\ alarm' \in Nat
         /\ nextId' \in Nat \ {0}
         /\ event' \in [EventIds -> Payload]
         /\ settled' \in [EventIds -> Settlements]
<1> DEFINE payload == [created |-> clock, version |-> nextId, lifetime |-> life]
           ids == FreshIds(count)
<1>1. payload \in Payload
  BY DEF TypeOK, Payload
<1>2. ids \subseteq EventIds
  BY DEF QueueGroup
<1>3. outbox' = outbox \cup NewRows(ids, payload)
  BY DEF QueueGroup
<1>4. NewRows(ids, payload) \subseteq QueueRow
  <2>1. SUFFICES ASSUME NEW i \in ids
                 PROVE  [id |-> i, payload |-> payload, attempts |-> 0,
                         next |-> payload.created] \in QueueRow
    BY DEF NewRows
  <2>2. 0 \in 0 .. MaxAttempts - 1
    BY OutboxAssumption
  <2>3. payload.created \in Nat
    BY DEF TypeOK
  <2>4. QED
    BY <1>1, <1>2, <2>2, <2>3 DEF QueueRow
<1>5. outbox' \subseteq QueueRow
  BY <1>3, <1>4 DEF TypeOK, QueueRow
<1>6. letters' \subseteq Letter
  BY DEF QueueGroup, TypeOK, Letter
<1>7. room' \in [exists : BOOLEAN, updatedAt : Nat]
  BY DEF QueueGroup, TypeOK
<1>8. ReconcileAlarm
  BY DEF QueueGroup
<1>9. alarm' \in Nat
  BY <1>5, <1>6, <1>7, <1>8, ReconcileType DEF TypeOK
<1>10. nextId' \in Nat \ {0}
  BY DEF QueueGroup, TypeOK
<1>11. event' \in [EventIds -> Payload]
  <2>1. event' = [i \in EventIds |-> IF i \in ids THEN payload ELSE event[i]]
    BY DEF QueueGroup
  <2>2. QED
    BY <1>1, <2>1 DEF TypeOK
<1>12. settled' \in [EventIds -> Settlements]
  <2>1. settled' = [i \in EventIds |-> IF i \in ids THEN "queued" ELSE settled[i]]
    BY DEF QueueGroup
  <2>2. QED
    BY <2>1 DEF TypeOK, Settlements
<1>13. QED
  BY <1>5, <1>6, <1>7, <1>9, <1>10, <1>11, <1>12

(* A row that leaves the queue for the dead letters.                       *)
LEMMA DeadLetterRowType ==
  ASSUME TypeOK, NEW row \in Row, NEW why \in DeadLetterReason,
         DeadLetterRow(row, why)
  PROVE  TypeOK'
<1>1. outbox' \subseteq QueueRow
  BY DEF DeadLetterRow, TypeOK, QueueRow
<1>2. letters' \subseteq Letter
  <2>1. letters \subseteq Letter
    BY DEF TypeOK, Letter
  <2>2. CASE row \notin outbox
    BY <2>1, <2>2 DEF DeadLetterRow
  <2>3. CASE row \in outbox
    <3>1. [id |-> row.id, reason |-> why, failedAt |-> clock] \in Letter
      BY <2>3, HeadType DEF TypeOK, Letter
    <3>2. letters' = WithDeadLetter(letters, row, why, clock)
      BY <2>3 DEF DeadLetterRow
    <3>3. QED
      BY <2>1, <3>1, <3>2, NewestType DEF WithDeadLetter
  <2>4. QED
    BY <2>2, <2>3
<1>3. room' \in [exists : BOOLEAN, updatedAt : Nat]
  BY DEF DeadLetterRow, TypeOK
<1>4. alarm' \in Nat
  BY <1>1, <1>2, <1>3, ReconcileType DEF DeadLetterRow, TypeOK
<1>5. settled' \in [EventIds -> Settlements]
  BY HeadType DEF DeadLetterRow, TypeOK, Settlements
<1>6. pc' \in HandlerStates /\ now' \in Nat /\ held' \in Row /\ answer' \in Answers
  BY NoRowType DEF DeadLetterRow, HandlerIdle, HandlerStates, Answers
<1>7. QED
  BY <1>1, <1>2, <1>3, <1>4, <1>5, <1>6
  DEF DeadLetterRow, TypeOK, QueueRow, Letter, databaseVars

(* A request under way ends: the handler, if it still waits, has an answer. *)
LEMMA ReplyType ==
  ASSUME TypeOK, NEW request, NEW result \in Answers, NEW delivered,
         Reply(request, result, delivered)
  PROVE  pc' \in HandlerStates /\ answer' \in Answers
BY DEF Reply, TypeOK, HandlerStates

LEMMA TypeNext == TypeOK /\ [Next]_vars => TypeOK'
<1> SUFFICES ASSUME TypeOK, [Next]_vars PROVE TypeOK'
  OBVIOUS
<1> USE DEF QueueRow, Letter
<1>1. CASE CreateRoom
  <2>1. QueueGroup(1, lifetime + 1) /\ lifetime + 1 \in Nat
    BY <1>1 DEF CreateRoom, TypeOK
  <2>2. drops' \in 0 .. DropCountMax
    BY <1>1, OutboxAssumption DEF CreateRoom
  <2>3. QED
    BY <1>1, <2>1, <2>2, QueueGroupType
    DEF CreateRoom, TypeOK, handlerVars, databaseVars
<1>2. ASSUME NEW count \in 1 .. 2, QueueMilestones(count) PROVE TypeOK'
  <2>1. QueueGroup(count, lifetime) /\ lifetime \in Nat
    BY <1>2 DEF QueueMilestones, TypeOK
  <2>2. QED
    BY <1>2, <2>1, QueueGroupType
    DEF QueueMilestones, TypeOK, handlerVars, databaseVars
<1>3. ASSUME NEW count \in 1 .. 2, NEW canonical \in BOOLEAN,
             DropMilestones(count, canonical)
      PROVE  TypeOK'
  <2>1. drops' \in 0 .. DropCountMax
    BY <1>3, OutboxAssumption DEF DropMilestones, TypeOK, CountDrops, Lesser
  <2>2. room' \in [exists : BOOLEAN, updatedAt : Nat]
    BY <1>3 DEF DropMilestones, TypeOK
  <2>3. alarm' \in Nat
    BY <1>3, <2>2, ReconcileType DEF DropMilestones, TypeOK
  <2>4. QED
    BY <1>3, <2>1, <2>2, <2>3
    DEF DropMilestones, TypeOK, handlerVars, databaseVars, historyVars
<1>4. ASSUME NEW touched \in SaveKinds, SaveRoom(touched) PROVE TypeOK'
  <2>1. room' \in [exists : BOOLEAN, updatedAt : Nat]
    BY <1>4 DEF SaveRoom, TypeOK
  <2>2. alarm' \in Nat
    BY <1>4, <2>1, ReconcileType DEF SaveRoom, TypeOK
  <2>3. QED
    BY <1>4, <2>1, <2>2
    DEF SaveRoom, TypeOK, handlerVars, databaseVars, historyVars
<1>5. CASE Wake
  <2>1. alarm' \in Nat \cup {NoAlarm}
    BY <1>5, ReconcileType DEF Wake, TypeOK, roomVars
  <2>2. QED
    BY <1>5, <2>1
    DEF Wake, TypeOK, roomVars, handlerVars, databaseVars, historyVars
<1>6. CASE Evict
  <2>1. alarm' \in Nat \cup {NoAlarm}
    BY <1>6 DEF Evict, TypeOK
  <2>2. pc' \in HandlerStates /\ now' \in Nat /\ held' \in Row /\ answer' \in Answers
    BY <1>6, NoRowType DEF Evict, HandlerIdle, HandlerStates, Answers
  <2>3. awake' \in BOOLEAN
    BY <1>6 DEF Evict
  <2>4. crashes \in Nat /\ crashes' = crashes + 1
    BY <1>6 DEF Evict, TypeOK
  <2>5. QED
    BY <1>6, <2>1, <2>2, <2>3, <2>4 DEF Evict, TypeOK, roomVars, databaseVars, historyVars
<1>7. CASE AlarmFire
  <2>1. alarm' \in Nat \cup {NoAlarm}
    BY <1>7, ReconcileType DEF AlarmFire, TypeOK, roomVars
  <2>2. QED
    BY <1>7, <2>1
    DEF AlarmFire, HandlerStates, TypeOK, roomVars, databaseVars, historyVars
<1>8. CASE AlarmDeleteRoom
  <2>1. settled' \in [EventIds -> Settlements]
    BY <1>8 DEF AlarmDeleteRoom, TypeOK, Settlements
  <2>2. room' \in [exists : BOOLEAN, updatedAt : Nat]
    BY <1>8 DEF AlarmDeleteRoom, TypeOK
  <2>3. drops' \in 0 .. DropCountMax
    BY <1>8, OutboxAssumption DEF AlarmDeleteRoom
  <2>4. QED
    BY <1>8, <2>1, <2>2, <2>3, NoRowType
    DEF AlarmDeleteRoom, HandlerIdle, HandlerStates, Answers, TypeOK, databaseVars
<1>9. CASE AlarmDeleteFails
  <2>1. alarm' \in Nat
    BY <1>9, DeliveryAssumption DEF AlarmDeleteFails, TypeOK
  <2>2. QED
    BY <1>9, <2>1, NoRowType
    DEF AlarmDeleteFails, HandlerIdle, HandlerStates, Answers, TypeOK, roomVars,
        databaseVars, historyVars
<1>10. CASE AlarmReconcile
  <2>1. letters' \subseteq Letter
    BY <1>10 DEF AlarmReconcile, Purged, TypeOK
  <2>2. alarm' \in Nat
    BY <1>10, <2>1, ReconcileType DEF AlarmReconcile, TypeOK
  <2>3. QED
    BY <1>10, <2>1, <2>2
    DEF AlarmReconcile, HandlerStates, TypeOK, databaseVars, historyVars
<1>11. CASE AlarmNothingDue
  BY <1>11, NoRowType
  DEF AlarmNothingDue, HandlerIdle, HandlerStates, Answers, TypeOK, roomVars,
      databaseVars, historyVars
<1>12. CASE AlarmDeadLetterHead
  <2>1. PICK row \in outbox :
          DeadLetterRow(row, IF Deadline(row) <= now THEN "deadline-exceeded"
                                                     ELSE "invalid-payload")
    BY <1>12 DEF AlarmDeadLetterHead
  <2>2. row \in Row
    BY HeadType
  <2>3. QED
    BY <2>1, <2>2, DeadLetterRowType DEF DeadLetterReason
<1>13. CASE AlarmDispatch
  <2>1. PICK row \in outbox :
          /\ alarm' = Lesser(now + Watchdog, Lesser(Deadline(row), ExpiresAt))
          /\ held' = row
          /\ requests' = requests \cup
                {[id |-> row.id, payload |-> row.payload, at |-> now]}
    BY <1>13 DEF AlarmDispatch
  <2>2. row \in Row /\ row.id \in EventIds /\ row.payload \in Payload
        /\ Deadline(row) \in Nat
    BY HeadType
  <2>3. ExpiresAt \in Nat /\ now + Watchdog \in Nat
    BY DeliveryAssumption DEF ExpiresAt, TypeOK
  <2>4. alarm' \in Nat
    BY <2>1, <2>2, <2>3, LesserType
  <2>5. requests' \subseteq Request
    BY <2>1, <2>2 DEF TypeOK, Request
  <2>6. QED
    BY <1>13, <2>1, <2>2, <2>4, <2>5
    DEF AlarmDispatch, HandlerStates, TypeOK, roomVars, historyVars
<1>14. CASE AlarmAcknowledge
  <2>1. settled' \in [EventIds -> Settlements]
    BY <1>14 DEF AlarmAcknowledge, TypeOK, Settlements
  <2>2. outbox' \subseteq QueueRow /\ room' \in [exists : BOOLEAN, updatedAt : Nat]
    BY <1>14 DEF AlarmAcknowledge, TypeOK
  <2>3. alarm' \in Nat
    BY <1>14, <2>2, ReconcileType DEF AlarmAcknowledge, TypeOK
  <2>4. QED
    BY <1>14, <2>1, <2>2, <2>3, NoRowType
    DEF AlarmAcknowledge, HandlerIdle, HandlerStates, Answers, TypeOK, databaseVars
<1>15. CASE AlarmGiveUp
  <2>1. DeadLetterRow(held, IF answer = "conflict" THEN "conflict"
                            ELSE IF clock >= Deadline(held) THEN "deadline-exceeded"
                            ELSE "attempts-exhausted")
    BY <1>15 DEF AlarmGiveUp
  <2>2. QED
    BY <2>1, DeadLetterRowType DEF DeadLetterReason, TypeOK
<1>16. CASE AlarmRetry
  <2>1. PICK delay \in RetryDelays[held.attempts + 1] :
          outbox' = IF held \in outbox
                    THEN (outbox \ {held}) \cup {Rescheduled(held, clock, delay)}
                    ELSE outbox
    BY <1>16 DEF AlarmRetry
  <2>2. outbox' \subseteq QueueRow
    <3>1. CASE held \notin outbox
      BY <2>1, <3>1 DEF TypeOK
    <3>2. CASE held \in outbox
      <4>1. held \in QueueRow
        BY <3>2 DEF TypeOK
      <4>2. held.attempts + 1 \in 0 .. MaxAttempts - 1
        BY <1>16, <4>1, OutboxAssumption DEF AlarmRetry
      <4>3. delay \in Nat
        BY <4>1, <4>2, OutboxAssumption
      <4>4. Lesser(Deadline(held), clock + delay) \in Nat
        <5>1. clock + delay \in Nat /\ Deadline(held) \in Nat
          BY <3>2, <4>3, HeadType DEF TypeOK
        <5>2. QED
          BY <5>1, LesserType
      <4>5. Rescheduled(held, clock, delay) \in QueueRow
        BY <4>1, <4>2, <4>4 DEF Rescheduled
      <4>6. QED
        BY <2>1, <3>2, <4>5 DEF TypeOK
    <3>3. QED
      BY <3>1, <3>2
  <2>3. room' \in [exists : BOOLEAN, updatedAt : Nat]
    BY <1>16 DEF AlarmRetry, TypeOK
  <2>4. alarm' \in Nat
    BY <1>16, <2>2, <2>3, ReconcileType DEF AlarmRetry, TypeOK
  <2>5. QED
    BY <1>16, <2>2, <2>3, <2>4, NoRowType
    DEF AlarmRetry, HandlerIdle, HandlerStates, Answers, TypeOK, databaseVars,
        historyVars
<1>17. ASSUME NEW request \in requests, NEW delivered \in BOOLEAN,
              DatabaseExecute(request, delivered)
       PROVE  TypeOK'
  <2> DEFINE result == Classify(receipts, request.id)
  <2>1. request \in Request /\ request.id \in EventIds /\ request.at \in Nat
        /\ request.payload \in Payload
    BY DEF TypeOK, Request
  <2>2. result \in Answers
    BY DEF Classify, Answers
  <2>3. pc' \in HandlerStates /\ answer' \in Answers
    BY <1>17, <2>2, ReplyType DEF DatabaseExecute
  <2>4. receipts' \subseteq [id : EventIds, own : BOOLEAN, receivedAt : Nat]
    <3>1. [id |-> request.id, own |-> TRUE, receivedAt |-> request.at]
            \in [id : EventIds, own : BOOLEAN, receivedAt : Nat]
      BY <2>1
    <3>2. receipts \subseteq [id : EventIds, own : BOOLEAN, receivedAt : Nat]
      BY DEF TypeOK
    <3>3. QED
      BY <1>17, <3>1, <3>2 DEF DatabaseExecute
  <2>5. effects' \in [EventIds -> Nat]
    BY <1>17, <2>1 DEF DatabaseExecute, TypeOK
  <2>6. facts' \in [Lifetimes -> Fact]
    BY <1>17, <2>1 DEF DatabaseExecute, TypeOK, Upsert, FactOf, Payload, Fact
  <2>7. requests' \subseteq Request
    BY <1>17 DEF DatabaseExecute, TypeOK
  <2>8. QED
    BY <1>17, <2>3, <2>4, <2>5, <2>6, <2>7
    DEF DatabaseExecute, TypeOK, roomVars, historyVars
<1>18. ASSUME NEW request \in requests, NEW delivered \in BOOLEAN,
              DatabaseRefuse(request, delivered)
       PROVE  TypeOK'
  <2>1. pc' \in HandlerStates /\ answer' \in Answers
    BY <1>18, ReplyType DEF DatabaseRefuse, Answers
  <2>2. QED
    BY <1>18, <2>1 DEF DatabaseRefuse, TypeOK, roomVars, historyVars
<1>19. CASE DatabaseError
  BY <1>19
  DEF DatabaseError, HandlerStates, Answers, TypeOK, roomVars, databaseVars,
      historyVars
<1>20. ASSUME NEW receipt \in receipts, DeleteExpiredReceipt(receipt) PROVE TypeOK'
  BY <1>20 DEF DeleteExpiredReceipt, TypeOK, roomVars, handlerVars, historyVars
<1>21. CASE Tick
  BY <1>21 DEF Tick, TypeOK, roomVars, handlerVars, databaseVars, historyVars
<1>22. CASE UNCHANGED vars
  BY <1>22 DEF TypeOK, vars, roomVars, handlerVars, databaseVars, historyVars
<1>23. QED
  BY <1>1, <1>2, <1>3, <1>4, <1>5, <1>6, <1>7, <1>8, <1>9, <1>10, <1>11, <1>12,
     <1>13, <1>14, <1>15, <1>16, <1>17, <1>18, <1>19, <1>20, <1>21, <1>22
  DEF Next, AlarmStep

(* Every variable of the room, its handler and the database keeps its type, *)
(* whatever the capacities, deadlines and bounds: no retry counts past the  *)
(* attempts, no drop past its counter.                                     *)
THEOREM TypeCorrect == Spec => []TypeOK
<1>1. QED
  BY InitType, TypeNext, PTL DEF Spec

-----------------------------------------------------------------------------
(* The inductive invariant                                                 *)

queueVars == <<outbox, event, settled, nextId>>

LEMMA InitInv == Init => DeliveryInv
<1> SUFFICES ASSUME Init PROVE DeliveryInv
  OBVIOUS
<1>1. QueueIsExact
  BY DEF Init, QueueIsExact
<1>2. EventsAreNumbered
  <2>1. \A i \in EventIds : i \in Nat /\ i >= 1
    BY DEF EventIds
  <2>2. QED
    BY <2>1 DEF Init, EventsAreNumbered
<1>3. HandlerIsCurrent
  BY DEF Init, HandlerIsCurrent, HeldRowIsHead
<1>4. RequestsAreTimely
  BY DEF Init, RequestsAreTimely
<1>5. ReceiptsOutliveRequests
  <2>1. \A i \in EventIds : effects[i] = 0
    BY DEF Init
  <2>2. \A receipt \in receipts : ~ receipt.own
    BY DEF Init
  <2>3. QED
    BY <2>1, <2>2 DEF ReceiptsOutliveRequests, AppliedAtMostOnce
<1>6. AcknowledgedIsApplied /\ NoOvertaking
  BY DEF Init, AcknowledgedIsApplied, NoOvertaking
<1>7. QED
  BY <1>1, <1>2, <1>3, <1>4, <1>5, <1>6 DEF DeliveryInv

LEMMA EventIdsAreNat == EventIds \subseteq Nat
  BY DeliveryAssumption DEF EventIds

(* A step of the room or of its handler that leaves queue and database.    *)
LEMMA HandlerStep ==
  ASSUME DeliveryInv, UNCHANGED <<clock, queueVars, databaseVars>>,
         HandlerIsCurrent'
  PROVE  DeliveryInv'
<1> USE DEF queueVars, databaseVars, DeliveryInv
<1>1. QueueIsExact'
  BY DEF QueueIsExact
<1>2. EventsAreNumbered'
  BY DEF EventsAreNumbered, Created
<1>3. RequestsAreTimely'
  BY DEF RequestsAreTimely, Created
<1>4. ReceiptsOutliveRequests'
  BY DEF ReceiptsOutliveRequests, AppliedAtMostOnce, Created
<1>5. AcknowledgedIsApplied' /\ NoOvertaking'
  BY DEF AcknowledgedIsApplied, NoOvertaking
<1>6. QED
  BY <1>1, <1>2, <1>3, <1>4, <1>5

LEMMA Numbered ==
  ASSUME DeliveryInv, NEW i \in EventIds
  PROVE  /\ i < nextId <=> settled[i] # "none"
         /\ i < nextId => event[i].created <= clock
         /\ effects[i] > 0 => i < nextId
BY DEF DeliveryInv, EventsAreNumbered, Created

(* The head of the queue leaves it.                                        *)
LEMMA HeadSettled ==
  ASSUME TypeOK, DeliveryInv, NEW row \in outbox,
         NEW status \in {"acknowledged", "dead-lettered"},
         status = "acknowledged" => effects[row.id] = 1,
         outbox' = outbox \ {row},
         settled' = [settled EXCEPT ![row.id] = status],
         HandlerIdle,
         UNCHANGED <<clock, databaseVars, event, nextId>>
  PROVE  DeliveryInv'
<1> USE DEF databaseVars, DeliveryInv
<1>1. row.id \in EventIds
  BY HeadType
<1>2. \A i \in EventIds : settled'[i] = IF i = row.id THEN status ELSE settled[i]
  BY <1>1 DEF TypeOK
<1>3. settled[row.id] = "queued"
  BY DEF QueueIsExact
<1>4. QueueIsExact'
  <2>1. ASSUME NEW other \in outbox'
        PROVE  other.payload = event'[other.id] /\ settled'[other.id] = "queued"
    <3>1. other \in outbox /\ other.id # row.id /\ other.id \in EventIds
      BY <2>1, HeadType DEF QueueIsExact
    <3>2. QED
      BY <1>2, <3>1 DEF QueueIsExact
  <2>2. \A one, other \in outbox' : one.id = other.id => one = other
    BY DEF QueueIsExact
  <2>3. ASSUME NEW i \in EventIds, settled'[i] = "queued"
        PROVE  \E other \in outbox' : other.id = i
    BY <1>2, <2>3 DEF QueueIsExact
  <2>4. QED
    BY <2>1, <2>2, <2>3 DEF QueueIsExact
<1>5. EventsAreNumbered'
  BY <1>2, <1>3 DEF EventsAreNumbered, Created
<1>6. HandlerIsCurrent'
  BY DEF HandlerIsCurrent, HeldRowIsHead, HandlerIdle
<1>7. RequestsAreTimely'
  BY <1>2 DEF RequestsAreTimely, Created
<1>8. ReceiptsOutliveRequests'
  BY DEF ReceiptsOutliveRequests, AppliedAtMostOnce, Created
<1>9. AcknowledgedIsApplied' /\ NoOvertaking'
  BY <1>2 DEF AcknowledgedIsApplied, NoOvertaking
<1>10. QED
  BY <1>4, <1>5, <1>6, <1>7, <1>8, <1>9

(* A group of events enters the queue, after every event so far.           *)
LEMMA GroupQueued ==
  ASSUME TypeOK, DeliveryInv, NEW count \in 1 .. 2, NEW life \in Nat,
         QueueGroup(count, life),
         UNCHANGED <<clock, handlerVars, databaseVars>>
  PROVE  DeliveryInv'
<1> DEFINE payload == [created |-> clock, version |-> nextId, lifetime |-> life]
           ids == FreshIds(count)
           rows == NewRows(ids, payload)
<1> USE DEF databaseVars, handlerVars, DeliveryInv
<1>1. /\ ids \subseteq EventIds
      /\ outbox' = outbox \cup rows
      /\ nextId' = nextId + count
      /\ event' = [i \in EventIds |-> IF i \in ids THEN payload ELSE event[i]]
      /\ settled' = [i \in EventIds |-> IF i \in ids THEN "queued" ELSE settled[i]]
  BY DEF QueueGroup
<1>2. nextId \in Nat \ {0} /\ clock \in Nat
  BY DEF TypeOK
<1>3. ASSUME NEW i \in EventIds
      PROVE  /\ i \in Nat
             /\ i \in ids <=> (nextId <= i /\ i < nextId')
             /\ i \in ids => ~ (i < nextId)
  <2>1. i \in Nat
    BY EventIdsAreNat
  <2>2. ids = nextId .. nextId + count - 1 /\ count \in Nat /\ nextId' = nextId + count
    BY <1>1 DEF FreshIds
  <2>3. QED
    BY <1>2, <2>1, <2>2
<1>4. \A row \in rows : row.id \in ids /\ row.payload = payload
  BY DEF NewRows
<1>5. \A row \in outbox : row.id \in EventIds /\ row.id < nextId /\ row.id \notin ids
  <2>1. \A row \in outbox : row.id \in EventIds /\ settled[row.id] = "queued"
    BY HeadType DEF QueueIsExact
  <2>2. QED
    BY <1>3, <2>1, Numbered
<1>6. \A i \in EventIds : i < nextId => event'[i] = event[i] /\ settled'[i] = settled[i]
  BY <1>1, <1>3
<1>7. \A i \in ids : settled'[i] = "queued" /\ event'[i] = payload
  BY <1>1
<1>8. QueueIsExact'
  <2>1. ASSUME NEW row \in outbox'
        PROVE  row.payload = event'[row.id] /\ settled'[row.id] = "queued"
    <3>1. CASE row \in outbox
      BY <1>5, <1>6, <3>1 DEF QueueIsExact
    <3>2. CASE row \in rows
      BY <1>4, <1>7, <3>2
    <3>3. QED
      BY <1>1, <3>1, <3>2
  <2>2. ASSUME NEW row \in outbox', NEW other \in outbox', row.id = other.id
        PROVE  row = other
    <3>1. CASE row \in outbox /\ other \in outbox
      BY <2>2, <3>1 DEF QueueIsExact
    <3>2. CASE row \in rows /\ other \in rows
      BY <2>2, <3>2 DEF NewRows
    <3>3. QED
      BY <1>1, <1>4, <1>5, <2>2, <3>1, <3>2
  <2>3. ASSUME NEW i \in EventIds, settled'[i] = "queued"
        PROVE  \E row \in outbox' : row.id = i
    <3>1. CASE i \in ids
      <4>1. [id |-> i, payload |-> payload, attempts |-> 0,
             next |-> payload.created] \in rows
        BY <3>1 DEF NewRows
      <4>2. QED
        BY <1>1, <4>1
    <3>2. CASE i \notin ids
      BY <1>1, <2>3, <3>2 DEF QueueIsExact
    <3>3. QED
      BY <3>1, <3>2
  <2>4. QED
    BY <2>1, <2>2, <2>3 DEF QueueIsExact
<1>9. EventsAreNumbered'
  <2>1. SUFFICES ASSUME NEW i \in EventIds
                 PROVE  /\ i < nextId' <=> settled'[i] # "none"
                        /\ i < nextId' => event'[i].created <= clock
                        /\ effects[i] > 0 => i < nextId'
    BY DEF EventsAreNumbered, Created
  <2>2. CASE i \in ids
    BY <1>2, <1>3, <1>7, <2>2, Numbered
  <2>3. CASE i \notin ids
    <3>1. settled'[i] = settled[i] /\ event'[i] = event[i]
      BY <1>1, <2>3
    <3>2. i < nextId' <=> i < nextId
      BY <1>1, <1>2, <1>3, <2>3
    <3>3. QED
      BY <3>1, <3>2, Numbered
  <2>4. QED
    BY <2>2, <2>3
<1>10. HandlerIsCurrent'
  <2>1. pc \in {"awaiting", "answered"} => IsHead(held, outbox')
    <3>1. SUFFICES ASSUME pc \in {"awaiting", "answered"} PROVE IsHead(held, outbox')
      OBVIOUS
    <3>2. IsHead(held, outbox)
      BY <3>1 DEF HandlerIsCurrent, HeldRowIsHead
    <3>3. held \in outbox /\ held.id < nextId /\ held.id \in Nat
      BY <1>3, <1>5, <3>2 DEF IsHead
    <3>4. \A row \in rows : row.id \in Nat /\ nextId <= row.id
      BY <1>1, <1>3, <1>4
    <3>5. QED
      BY <1>1, <1>2, <3>2, <3>3, <3>4 DEF IsHead
  <2>2. QED
    BY <2>1 DEF HandlerIsCurrent, HeldRowIsHead, IsHead
<1>11. RequestsAreTimely'
  <2>1. SUFFICES ASSUME NEW request \in requests
                 PROVE  /\ request.id < nextId'
                        /\ event'[request.id].created <= request.at
                        /\ request.at < event'[request.id].created + OutboxDeadline
                        /\ request.at <= clock
                        /\ clock <= request.at + MaxFlight
                        /\ \A i \in EventIds : i < request.id => settled'[i] # "queued"
    BY DEF RequestsAreTimely, Created
  <2>2. request.id \in EventIds /\ request.id < nextId /\ request.id \in Nat
    BY DEF TypeOK, Request, RequestsAreTimely, EventIds
  <2>3. request.id < nextId'
    BY <1>1, <1>2, <2>2
  <2>4. \A i \in EventIds : i < request.id => i < nextId
    BY <1>2, <1>3, <2>2
  <2>5. QED
    BY <1>6, <2>2, <2>3, <2>4 DEF RequestsAreTimely, Created
<1>12. ReceiptsOutliveRequests'
  <2>1. \A i \in EventIds : effects[i] = 1 => event'[i] = event[i]
    BY <1>6 DEF EventsAreNumbered
  <2>2. \A receipt \in receipts : receipt.id \in EventIds
    BY DEF TypeOK
  <2>3. QED
    BY <2>1, <2>2 DEF ReceiptsOutliveRequests, AppliedAtMostOnce, Created
<1>13. AcknowledgedIsApplied' /\ NoOvertaking'
  <2>1. AcknowledgedIsApplied'
    BY <1>1 DEF AcknowledgedIsApplied
  <2>2. ASSUME NEW i \in EventIds, NEW j \in EventIds, i < j, effects[j] > 0
        PROVE  settled'[i] # "queued"
    <3>1. i < nextId
      BY <1>2, <1>3, <2>2, Numbered
    <3>2. QED
      BY <1>6, <2>2, <3>1 DEF NoOvertaking
  <2>3. QED
    BY <2>1, <2>2 DEF NoOvertaking
<1>14. QED
  BY <1>8, <1>9, <1>10, <1>11, <1>12, <1>13

(* The head is sent: it is within its deadline, and nothing is before it.  *)
LEMMA HeadSent == TypeOK /\ DeliveryInv /\ AlarmDispatch => DeliveryInv'
<1> SUFFICES ASSUME TypeOK, DeliveryInv, AlarmDispatch PROVE DeliveryInv'
  OBVIOUS
<1> USE DEF DeliveryInv
<1>1. PICK row \in outbox :
        /\ IsHead(row, outbox)
        /\ now < Deadline(row)
        /\ held' = row
        /\ requests' = requests \cup
              {[id |-> row.id, payload |-> row.payload, at |-> now]}
  BY DEF AlarmDispatch
<1>2. /\ pc = "reconciled" /\ pc' = "awaiting" /\ now = clock
      /\ UNCHANGED <<clock, room, outbox, now, receipts, effects, event, settled, nextId>>
  BY DEF AlarmDispatch, HandlerIsCurrent, roomVars, historyVars
<1>3. row.id \in EventIds /\ row.payload = event[row.id] /\ settled[row.id] = "queued"
  BY HeadType DEF QueueIsExact
<1>4. QueueIsExact' /\ EventsAreNumbered' /\ ReceiptsOutliveRequests'
  BY <1>2 DEF QueueIsExact, EventsAreNumbered, Created, ReceiptsOutliveRequests,
              AppliedAtMostOnce
<1>5. HandlerIsCurrent'
  BY <1>1, <1>2 DEF HandlerIsCurrent, HeldRowIsHead, IsHead
<1>6. AcknowledgedIsApplied' /\ NoOvertaking'
  BY <1>2 DEF AcknowledgedIsApplied, NoOvertaking
<1>7. RequestsAreTimely'
  <2>1. row.id < nextId /\ Created(row.id) <= now
    BY <1>2, <1>3, Numbered DEF Created
  <2>2. now < Created(row.id) + OutboxDeadline
    BY <1>1, <1>3 DEF Deadline, Created
  <2>3. now <= clock /\ clock <= now + MaxFlight
    BY <1>2, DeliveryAssumption DEF TypeOK
  <2>4. ASSUME NEW i \in EventIds, i < row.id PROVE settled[i] # "queued"
    <3>1. \A other \in outbox : row.id <= other.id
      BY <1>1 DEF IsHead
    <3>2. i \in Nat /\ row.id \in Nat
      BY <1>3, EventIdsAreNat
    <3>3. QED
      BY <2>4, <3>1, <3>2 DEF QueueIsExact
  <2>5. QED
    BY <1>1, <1>2, <2>1, <2>2, <2>3, <2>4 DEF RequestsAreTimely, Created
<1>8. QED
  BY <1>4, <1>5, <1>6, <1>7

(* A failed attempt changes the row's counters, not its place.             *)
LEMMA HeadRescheduled == TypeOK /\ DeliveryInv /\ AlarmRetry => DeliveryInv'
<1> SUFFICES ASSUME TypeOK, DeliveryInv, AlarmRetry PROVE DeliveryInv'
  OBVIOUS
<1> USE DEF DeliveryInv
<1>1. held \in outbox
  BY DEF AlarmRetry, HandlerIsCurrent, HeldRowIsHead, IsHead
<1>2. PICK delay : outbox' = (outbox \ {held}) \cup {Rescheduled(held, clock, delay)}
  BY <1>1 DEF AlarmRetry
<1>3. /\ Rescheduled(held, clock, delay).id = held.id
      /\ Rescheduled(held, clock, delay).payload = held.payload
  BY DEF Rescheduled, TypeOK, Row
<1>4. /\ HandlerIdle
      /\ UNCHANGED <<clock, requests, receipts, effects, event, settled, nextId>>
  BY DEF AlarmRetry, databaseVars, historyVars
<1>5. QueueIsExact'
  <2>1. \A row \in outbox' : row.payload = event[row.id] /\ settled[row.id] = "queued"
    BY <1>1, <1>2, <1>3 DEF QueueIsExact
  <2>2. \A row, other \in outbox' : row.id = other.id => row = other
    BY <1>1, <1>2, <1>3 DEF QueueIsExact
  <2>3. \A i \in EventIds : settled[i] = "queued" => \E row \in outbox' : row.id = i
    BY <1>1, <1>2, <1>3 DEF QueueIsExact
  <2>4. QED
    BY <1>4, <2>1, <2>2, <2>3 DEF QueueIsExact
<1>6. EventsAreNumbered' /\ ReceiptsOutliveRequests' /\ RequestsAreTimely'
  BY <1>4 DEF EventsAreNumbered, Created, ReceiptsOutliveRequests,
              AppliedAtMostOnce, RequestsAreTimely
<1>7. HandlerIsCurrent'
  BY <1>4 DEF HandlerIsCurrent, HeldRowIsHead, HandlerIdle
<1>8. AcknowledgedIsApplied' /\ NoOvertaking'
  BY <1>4 DEF AcknowledgedIsApplied, NoOvertaking
<1>9. QED
  BY <1>5, <1>6, <1>7, <1>8

(* The room is deleted with whatever is queued.                            *)
LEMMA RoomDeleted == TypeOK /\ DeliveryInv /\ AlarmDeleteRoom => DeliveryInv'
<1> SUFFICES ASSUME TypeOK, DeliveryInv, AlarmDeleteRoom PROVE DeliveryInv'
  OBVIOUS
<1> USE DEF DeliveryInv
<1>1. /\ HandlerIdle /\ outbox' = {}
      /\ UNCHANGED <<clock, requests, receipts, effects, event, nextId>>
  BY DEF AlarmDeleteRoom, databaseVars
<1>2. \A i \in EventIds : settled'[i] = IF settled[i] = "queued" THEN "discarded"
                                                              ELSE settled[i]
  BY DEF AlarmDeleteRoom
<1>3. QueueIsExact'
  BY <1>1, <1>2 DEF QueueIsExact
<1>4. EventsAreNumbered'
  BY <1>1, <1>2 DEF EventsAreNumbered, Created
<1>5. ReceiptsOutliveRequests' /\ RequestsAreTimely'
  BY <1>1, <1>2 DEF ReceiptsOutliveRequests, AppliedAtMostOnce, RequestsAreTimely,
                    Created
<1>6. HandlerIsCurrent'
  BY <1>1 DEF HandlerIsCurrent, HeldRowIsHead, HandlerIdle
<1>7. AcknowledgedIsApplied' /\ NoOvertaking'
  BY <1>1, <1>2 DEF AcknowledgedIsApplied, NoOvertaking
<1>8. QED
  BY <1>3, <1>4, <1>5, <1>6, <1>7

(* What the outcome of a batch says of the receipts it found.              *)
LEMMA Classified ==
  ASSUME NEW id
  PROVE  /\ Classify(receipts, id) = "applied" <=> \A r \in receipts : r.id # id
         /\ Classify(receipts, id) = "duplicate" =>
              \E r \in receipts : r.id = id /\ r.own
BY DEF Classify, ReceiptsOf

(* A first execution finds its event unapplied: the receipt of an earlier  *)
(* one would still be there.                                               *)
LEMMA FirstExecution ==
  ASSUME TypeOK, DeliveryInv, NEW request \in requests,
         Classify(receipts, request.id) = "applied"
  PROVE  effects[request.id] = 0
<1>1. request.id \in EventIds /\ request.at \in Nat /\ clock \in Nat
      /\ event[request.id].created \in Nat /\ effects[request.id] \in Nat
  BY DEF TypeOK, Request, Payload
<1>2. request.at < Created(request.id) + OutboxDeadline /\ clock <= request.at + MaxFlight
  BY DEF DeliveryInv, RequestsAreTimely
<1>3. clock < Created(request.id) + ReceiptRetention
  BY <1>1, <1>2, RetentionAssumption, OutboxAssumption, ReceiverAssumption,
     DeliveryAssumption
  DEF Created
<1>4. effects[request.id] # 1
  <2>1. \A receipt \in receipts : receipt.id # request.id
    BY Classified
  <2>2. ~ (Created(request.id) + ReceiptRetention <= clock)
    BY <1>1, <1>3, ReceiverAssumption DEF Created
  <2>3. QED
    BY <1>1, <2>1, <2>2 DEF DeliveryInv, ReceiptsOutliveRequests
<1>5. effects[request.id] <= 1
  BY <1>1 DEF DeliveryInv, ReceiptsOutliveRequests, AppliedAtMostOnce
<1>6. QED
  BY <1>1, <1>4, <1>5

LEMMA BatchExecuted ==
  ASSUME TypeOK, DeliveryInv, NEW request \in requests, NEW delivered \in BOOLEAN,
         DatabaseExecute(request, delivered)
  PROVE  DeliveryInv'
<1> DEFINE result == Classify(receipts, request.id)
           receipt == [id |-> request.id, own |-> TRUE, receivedAt |-> request.at]
<1> USE DEF DeliveryInv
<1>1. /\ requests' = requests \ {request}
      /\ Reply(request, result, delivered)
      /\ UNCHANGED <<clock, outbox, now, held, event, settled, nextId>>
  BY DEF DatabaseExecute, roomVars, historyVars
<1>2. request.id \in EventIds /\ request.id < nextId
  BY DEF TypeOK, Request, RequestsAreTimely
<1>3. CASE result = "applied"
  <2>1. receipts' = receipts \cup {receipt} /\ effects' = [effects EXCEPT ![request.id] = @ + 1]
    BY <1>3 DEF DatabaseExecute
  <2>2. effects[request.id] = 0
    BY <1>3, FirstExecution
  <2>3. \A i \in EventIds : effects'[i] = IF i = request.id THEN 1 ELSE effects[i]
    BY <1>2, <2>1, <2>2 DEF TypeOK
  <2>4. QueueIsExact'
    BY <1>1 DEF QueueIsExact
  <2>5. EventsAreNumbered'
    BY <1>1, <1>2, <2>3 DEF EventsAreNumbered, Created
  <2>6. HandlerIsCurrent'
    <3>1. pc' \in {"awaiting", "answered"} => pc \in {"awaiting", "answered"}
      BY <1>1 DEF Reply, IsCurrent
    <3>2. HeldRowIsHead'
      BY <1>1, <3>1 DEF HandlerIsCurrent, HeldRowIsHead, IsHead
    <3>3. pc' = "answered" => effects'[held.id] = 1 \/ (answer' = answer /\ pc = "answered")
      <4>1. effects'[request.id] = 1
        BY <1>2, <2>3
      <4>2. \/ pc' = pc /\ answer' = answer
            \/ held.id = request.id
        BY <1>1 DEF Reply, IsCurrent
      <4>3. QED
        BY <4>1, <4>2
    <3>4. pc' = "answered" => held.id \in EventIds
      BY <3>1, HeadType DEF HandlerIsCurrent, HeldRowIsHead, IsHead
    <3>5. pc' \in {"started", "reconciled"} => pc' = pc
      BY <1>1 DEF Reply, IsCurrent
    <3>6. QED
      BY <1>1, <2>3, <3>2, <3>3, <3>4, <3>5 DEF HandlerIsCurrent
  <2>7. RequestsAreTimely'
    BY <1>1 DEF RequestsAreTimely, Created
  <2>8. ReceiptsOutliveRequests'
    <3>1. AppliedAtMostOnce'
      BY <2>3 DEF ReceiptsOutliveRequests, AppliedAtMostOnce
    <3>2. ASSUME NEW i \in EventIds, effects'[i] = 1
          PROVE  \/ \E r \in receipts' : r.id = i /\ r.own
                 \/ Created(i)' + ReceiptRetention <= clock'
      <4>1. CASE i = request.id
        <5>1. receipt \in receipts' /\ receipt.id = i /\ receipt.own
          BY <2>1, <4>1
        <5>2. QED
          BY <5>1
      <4>2. CASE i # request.id
        <5>1. effects[i] = 1
          BY <2>3, <3>2, <4>2
        <5>2. \/ \E r \in receipts : r.id = i /\ r.own
              \/ Created(i) + ReceiptRetention <= clock
          BY <5>1 DEF ReceiptsOutliveRequests
        <5>3. Created(i)' = Created(i) /\ clock' = clock
          BY <1>1 DEF Created
        <5>4. QED
          BY <2>1, <5>2, <5>3
      <4>3. QED
        BY <4>1, <4>2
    <3>3. ASSUME NEW r \in receipts', r.own
          PROVE  Created(r.id)' <= r.receivedAt /\ effects'[r.id] = 1
      <4>1. CASE r = receipt
        BY <1>1, <1>2, <2>3, <4>1 DEF RequestsAreTimely, Created
      <4>2. CASE r \in receipts
        <5>1. r.id \in EventIds /\ effects[r.id] = 1 /\ Created(r.id) <= r.receivedAt
          BY <3>3, <4>2 DEF TypeOK, ReceiptsOutliveRequests
        <5>2. QED
          BY <1>1, <2>3, <5>1 DEF Created
      <4>3. QED
        BY <2>1, <4>1, <4>2
    <3>4. QED
      BY <3>1, <3>2, <3>3 DEF ReceiptsOutliveRequests
  <2>9. AcknowledgedIsApplied'
    BY <1>1, <2>3 DEF AcknowledgedIsApplied
  <2>10. NoOvertaking'
    <3>1. \A i \in EventIds : i < request.id => settled[i] # "queued"
      BY DEF RequestsAreTimely
    <3>2. QED
      BY <1>1, <2>3, <3>1 DEF NoOvertaking
  <2>11. QED
    BY <2>4, <2>5, <2>6, <2>7, <2>8, <2>9, <2>10
<1>4. CASE result # "applied"
  <2>1. UNCHANGED <<receipts, effects>>
    BY <1>4 DEF DatabaseExecute
  <2>2. QueueIsExact' /\ EventsAreNumbered' /\ RequestsAreTimely'
    BY <1>1, <2>1 DEF QueueIsExact, EventsAreNumbered, RequestsAreTimely, Created
  <2>3. HandlerIsCurrent'
    <3>1. pc' \in {"awaiting", "answered"} => pc \in {"awaiting", "answered"}
      BY <1>1 DEF Reply, IsCurrent
    <3>2. HeldRowIsHead'
      BY <1>1, <3>1 DEF HandlerIsCurrent, HeldRowIsHead, IsHead
    <3>3. result = "duplicate" => effects[request.id] = 1
      BY Classified DEF ReceiptsOutliveRequests
    <3>4. pc' = "answered" /\ answer' \in {"applied", "duplicate"} => effects'[held'.id] = 1
      BY <1>1, <1>4, <2>1, <3>3 DEF Reply, IsCurrent, HandlerIsCurrent
    <3>5. pc' \in {"started", "reconciled"} => pc' = pc
      BY <1>1 DEF Reply, IsCurrent
    <3>6. QED
      BY <1>1, <3>2, <3>4, <3>5 DEF HandlerIsCurrent
  <2>4. ReceiptsOutliveRequests'
    BY <1>1, <2>1 DEF ReceiptsOutliveRequests, AppliedAtMostOnce, Created
  <2>5. AcknowledgedIsApplied' /\ NoOvertaking'
    BY <1>1, <2>1 DEF AcknowledgedIsApplied, NoOvertaking
  <2>6. QED
    BY <2>2, <2>3, <2>4, <2>5
<1>5. QED
  BY <1>3, <1>4

(* A request that has no effect.                                           *)
LEMMA BatchRefused ==
  ASSUME TypeOK, DeliveryInv, NEW request \in requests, NEW delivered \in BOOLEAN,
         DatabaseRefuse(request, delivered)
  PROVE  DeliveryInv'
<1> USE DEF DeliveryInv
<1>1. /\ requests' = requests \ {request}
      /\ Reply(request, "invariant", delivered)
      /\ UNCHANGED <<clock, outbox, now, held, event, settled, nextId, receipts, effects>>
  BY DEF DatabaseRefuse, roomVars, historyVars
<1>2. QueueIsExact' /\ EventsAreNumbered' /\ RequestsAreTimely'
  BY <1>1 DEF QueueIsExact, EventsAreNumbered, RequestsAreTimely, Created
<1>3. HandlerIsCurrent'
  BY <1>1 DEF Reply, IsCurrent, HandlerIsCurrent, HeldRowIsHead, IsHead
<1>4. ReceiptsOutliveRequests'
  BY <1>1 DEF ReceiptsOutliveRequests, AppliedAtMostOnce, Created
<1>5. AcknowledgedIsApplied' /\ NoOvertaking'
  BY <1>1 DEF AcknowledgedIsApplied, NoOvertaking
<1>6. QED
  BY <1>2, <1>3, <1>4, <1>5

LEMMA HeldIsQueued ==
  ASSUME DeliveryInv, pc = "answered"
  PROVE  held \in outbox /\ IsHead(held, outbox)
BY DEF DeliveryInv, HandlerIsCurrent, HeldRowIsHead, IsHead

LEMMA DeadLettered ==
  ASSUME TypeOK, DeliveryInv, NEW row \in outbox, NEW why, DeadLetterRow(row, why)
  PROVE  DeliveryInv'
BY HeadSettled DEF DeadLetterRow

LEMMA InvNext == TypeOK /\ DeliveryInv /\ [Next]_vars => DeliveryInv'
<1> SUFFICES ASSUME TypeOK, DeliveryInv, [Next]_vars PROVE DeliveryInv'
  OBVIOUS
<1> USE DEF queueVars, roomVars, handlerVars, databaseVars, historyVars
<1>0. HandlerIsCurrent
  BY DEF DeliveryInv
<1>1. CASE CreateRoom
  <2>1. 1 \in 1 .. 2 /\ lifetime + 1 \in Nat
    BY DEF TypeOK
  <2>2. QED
    BY <1>1, <2>1, GroupQueued DEF CreateRoom
<1>2. ASSUME NEW count \in 1 .. 2, QueueMilestones(count) PROVE DeliveryInv'
  <2>1. lifetime \in Nat
    BY DEF TypeOK
  <2>2. QED
    BY <1>2, <2>1, GroupQueued DEF QueueMilestones
<1>3. ASSUME NEW count \in 1 .. 2, NEW canonical \in BOOLEAN,
             DropMilestones(count, canonical)
      PROVE  DeliveryInv'
  BY <1>0, <1>3, HandlerStep DEF DropMilestones, HandlerIsCurrent, HeldRowIsHead, IsHead
<1>4. ASSUME NEW touched \in SaveKinds, SaveRoom(touched) PROVE DeliveryInv'
  BY <1>0, <1>4, HandlerStep DEF SaveRoom, HandlerIsCurrent, HeldRowIsHead, IsHead
<1>5. CASE Wake
  BY <1>0, <1>5, HandlerStep DEF Wake, HandlerIsCurrent, HeldRowIsHead, IsHead
<1>6. CASE Evict
  BY <1>6, HandlerStep DEF Evict, HandlerIdle, HandlerIsCurrent, HeldRowIsHead
<1>7. CASE AlarmFire
  BY <1>7, HandlerStep DEF AlarmFire, HandlerIsCurrent, HeldRowIsHead
<1>8. CASE AlarmDeleteRoom
  BY <1>8, RoomDeleted
<1>9. CASE AlarmDeleteFails
  BY <1>9, HandlerStep DEF AlarmDeleteFails, HandlerIdle, HandlerIsCurrent, HeldRowIsHead
<1>10. CASE AlarmReconcile
  BY <1>0, <1>10, HandlerStep DEF AlarmReconcile, HandlerIsCurrent, HeldRowIsHead
<1>11. CASE AlarmNothingDue
  BY <1>11, HandlerStep DEF AlarmNothingDue, HandlerIdle, HandlerIsCurrent, HeldRowIsHead
<1>12. CASE AlarmDeadLetterHead
  BY <1>12, DeadLettered DEF AlarmDeadLetterHead
<1>13. CASE AlarmDispatch
  BY <1>13, HeadSent
<1>14. CASE AlarmAcknowledge
  <2>1. held \in outbox
    BY <1>14, HeldIsQueued DEF AlarmAcknowledge
  <2>2. effects[held.id] = 1
    BY <1>0, <1>14 DEF AlarmAcknowledge, HandlerIsCurrent
  <2>3. QED
    BY <1>14, <2>1, <2>2, HeadSettled DEF AlarmAcknowledge
<1>15. CASE AlarmGiveUp
  <2>1. held \in outbox
    BY <1>15, HeldIsQueued DEF AlarmGiveUp
  <2>2. QED
    BY <1>15, <2>1, DeadLettered DEF AlarmGiveUp
<1>16. CASE AlarmRetry
  BY <1>16, HeadRescheduled
<1>17. ASSUME NEW request \in requests, NEW delivered \in BOOLEAN,
              DatabaseExecute(request, delivered) \/ DatabaseRefuse(request, delivered)
       PROVE  DeliveryInv'
  BY <1>17, BatchExecuted, BatchRefused
<1>18. CASE DatabaseError
  BY <1>0, <1>18, HandlerStep DEF DatabaseError, HandlerIsCurrent, HeldRowIsHead, IsHead
<1>19. ASSUME NEW receipt \in receipts, DeleteExpiredReceipt(receipt) PROVE DeliveryInv'
  <2> USE DEF DeliveryInv
  <2>1. /\ receipt.receivedAt + ReceiptRetention <= clock
        /\ receipts' = receipts \ {receipt}
        /\ UNCHANGED <<clock, outbox, pc, now, held, answer, requests, effects,
                       event, settled, nextId>>
    BY <1>19 DEF DeleteExpiredReceipt, Expired
  <2>2. QueueIsExact' /\ EventsAreNumbered' /\ HandlerIsCurrent' /\ RequestsAreTimely'
        /\ AcknowledgedIsApplied' /\ NoOvertaking'
    BY <2>1 DEF QueueIsExact, EventsAreNumbered, HandlerIsCurrent, HeldRowIsHead,
                IsHead, RequestsAreTimely, AcknowledgedIsApplied, NoOvertaking, Created
  <2>3. ASSUME NEW i \in EventIds, effects[i] = 1,
               Created(i) + ReceiptRetention > clock
        PROVE  \E other \in receipts' : other.id = i /\ other.own
    <3>1. Created(i) \in Nat /\ clock \in Nat /\ ReceiptRetention \in Nat
      BY ReceiverAssumption DEF TypeOK, Payload, Created
    <3>2. PICK other \in receipts : other.id = i /\ other.own
      BY <2>3, <3>1 DEF ReceiptsOutliveRequests
    <3>3. Created(i) <= other.receivedAt /\ other.receivedAt \in Nat
      BY <3>2 DEF ReceiptsOutliveRequests, TypeOK
    <3>4. other # receipt
      BY <2>1, <2>3, <3>1, <3>3
    <3>5. QED
      BY <2>1, <3>2, <3>4
  <2>4. ReceiptsOutliveRequests'
    <3>1. \A i \in EventIds : Created(i) \in Nat
      BY DEF TypeOK, Payload, Created
    <3>2. clock \in Nat /\ ReceiptRetention \in Nat
      BY ReceiverAssumption DEF TypeOK
    <3>3. QED
      BY <2>1, <2>3, <3>1, <3>2 DEF ReceiptsOutliveRequests, AppliedAtMostOnce, Created
  <2>5. QED
    BY <2>2, <2>4
<1>20. CASE Tick
  <2> USE DEF DeliveryInv
  <2>1. /\ clock' = clock + 1 /\ clock \in Nat
        /\ pc \in {"idle", "awaiting"}
        /\ \A request \in requests : clock < request.at + MaxFlight /\ request.at \in Nat
        /\ UNCHANGED <<outbox, pc, now, held, answer, requests, receipts, effects,
                       event, settled, nextId>>
    BY <1>20 DEF Tick, TypeOK, Request
  <2>2. \A i \in EventIds : Created(i) \in Nat
    BY DEF TypeOK, Payload, Created
  <2>3. QueueIsExact' /\ AcknowledgedIsApplied' /\ NoOvertaking' /\ HandlerIsCurrent'
    BY <2>1 DEF QueueIsExact, HandlerIsCurrent, HeldRowIsHead, IsHead,
                AcknowledgedIsApplied, NoOvertaking
  <2>4. EventsAreNumbered'
    BY <2>1, <2>2 DEF EventsAreNumbered, Created
  <2>5. RequestsAreTimely'
    BY <2>1, DeliveryAssumption DEF RequestsAreTimely, Created
  <2>6. ReceiptsOutliveRequests'
    BY <2>1, <2>2, ReceiverAssumption
    DEF ReceiptsOutliveRequests, AppliedAtMostOnce, Created
  <2>7. QED
    BY <2>3, <2>4, <2>5, <2>6
<1>21. CASE UNCHANGED vars
  BY <1>0, <1>21, HandlerStep DEF vars, HandlerIsCurrent, HeldRowIsHead, IsHead
<1>22. QED
  BY <1>1, <1>2, <1>3, <1>4, <1>5, <1>6, <1>7, <1>8, <1>9, <1>10, <1>11, <1>12,
     <1>13, <1>14, <1>15, <1>16, <1>17, <1>18, <1>19, <1>20, <1>21
  DEF Next, AlarmStep

(* The queue, the handler, the requests and the database stay related as   *)
(* DeliveryInv says, for every capacity, deadline, bound and crash.        *)
THEOREM DeliveryInvariant == Spec => [](TypeOK /\ DeliveryInv)
<1>1. Init => TypeOK /\ DeliveryInv
  BY InitType, InitInv
<1>2. TypeOK /\ DeliveryInv /\ [Next]_vars => (TypeOK /\ DeliveryInv)'
  BY TypeNext, InvNext
<1>3. QED
  BY <1>1, <1>2, PTL DEF Spec

(* No event is counted twice, although it is sent again after crashes and  *)
(* lost answers and its receipt is deleted one day.                        *)
THEOREM AtMostOnce == Spec => []AppliedAtMostOnce
<1>1. DeliveryInv => AppliedAtMostOnce
  BY DEF DeliveryInv, ReceiptsOutliveRequests
<1>2. QED
  BY <1>1, DeliveryInvariant, PTL

(* What the room acknowledges has been applied.                            *)
THEOREM AcknowledgedOnlyIfApplied == Spec => []AcknowledgedIsApplied
<1>1. DeliveryInv => AcknowledgedIsApplied
  BY DEF DeliveryInv
<1>2. QED
  BY <1>1, DeliveryInvariant, PTL

(* No event is applied before an older one has left the queue.             *)
THEOREM InOrder == Spec => []NoOvertaking
<1>1. DeliveryInv => NoOvertaking
  BY DEF DeliveryInv
<1>2. QED
  BY <1>1, DeliveryInvariant, PTL

(* The finalizers never find another row than the one they sent.           *)
THEOREM NeverStale == Spec => []HeldRowIsHead
<1>1. DeliveryInv => HeldRowIsHead
  BY DEF DeliveryInv, HandlerIsCurrent
<1>2. QED
  BY <1>1, DeliveryInvariant, PTL

-----------------------------------------------------------------------------
(* The two tables of the room                                              *)

\* A dead letter stands for one event, which has left the queue for good.
LettersAreDistinct ==
  /\ \A d \in letters : settled[d.id] = "dead-lettered"
  /\ \A d, e \in letters : d.id = e.id => d = e

TablesInv ==
  /\ IsFiniteSet(outbox) /\ IsFiniteSet(letters)
  /\ TablesBounded
  /\ LettersAreDistinct

Younger(some, d) == {e \in some : Later(e, d)}

(* Of two letters one is later, and has fewer letters later than itself.   *)
LEMMA LaterIsStrict ==
  ASSUME NEW some \in SUBSET Letter, IsFiniteSet(some),
         \A d, e \in some : d.id = e.id => d = e,
         NEW a \in some, NEW b \in some, a # b
  PROVE  Cardinality(Younger(some, a)) # Cardinality(Younger(some, b))
<1>0. \A d \in some : d.id \in Nat /\ d.failedAt \in Nat
  BY EventIdsAreNat DEF Letter
<1>1. ASSUME NEW x \in some, NEW y \in some, Later(x, y)
      PROVE  Cardinality(Younger(some, x)) # Cardinality(Younger(some, y))
  <2>1. Younger(some, x) \subseteq Younger(some, y)
    BY <1>0, <1>1 DEF Younger, Later
  <2>2. x \in Younger(some, y) /\ x \notin Younger(some, x)
    BY <1>0, <1>1 DEF Younger, Later
  <2>3. IsFiniteSet(Younger(some, y))
    <3>1. Younger(some, y) \in SUBSET some
      BY DEF Younger
    <3>2. QED
      BY <3>1, FS_Subset
  <2>4. QED
    BY <2>1, <2>2, <2>3, FS_Subset
<1>2. Later(a, b) \/ Later(b, a)
  BY <1>0 DEF Later
<1>3. QED
  BY <1>1, <1>2

(* capDeadLetters leaves at most DeadLetterCapacity letters: the number of *)
(* later ones tells those it keeps apart.                                  *)
LEMMA NewestIsBounded ==
  ASSUME NEW some \in SUBSET Letter, IsFiniteSet(some),
         \A d, e \in some : d.id = e.id => d = e
  PROVE  IsFiniteSet(Newest(some)) /\ Cardinality(Newest(some)) <= DeadLetterCapacity
<1> DEFINE ranks == 0 .. DeadLetterCapacity - 1
           rank == [d \in Newest(some) |-> Cardinality(Younger(some, d))]
<1>1. \A d \in Newest(some) : d \in some /\ Cardinality(Younger(some, d)) \in ranks
  <2>1. SUFFICES ASSUME NEW d \in Newest(some)
                 PROVE  d \in some /\ Cardinality(Younger(some, d)) \in ranks
    OBVIOUS
  <2>2. d \in some /\ Cardinality(Younger(some, d)) < DeadLetterCapacity
    BY DEF Newest, Younger
  <2>3. Younger(some, d) \in SUBSET some
    BY DEF Younger
  <2>4. Cardinality(Younger(some, d)) \in Nat
    BY <2>3, FS_Subset, FS_CardinalityType
  <2>5. QED
    BY <2>2, <2>4, OutboxAssumption
<1>2. rank \in Injection(Newest(some), ranks)
  <2>1. rank \in [Newest(some) -> ranks]
    BY <1>1
  <2>2. ASSUME NEW a \in Newest(some), NEW b \in Newest(some), rank[a] = rank[b]
        PROVE  a = b
    BY <1>1, <2>2, LaterIsStrict
  <2>3. QED
    BY <2>1, <2>2 DEF Injection, IsInjective
<1>3. IsFiniteSet(ranks) /\ Cardinality(ranks) = DeadLetterCapacity
  <2>1. DeadLetterCapacity \in Nat /\ DeadLetterCapacity > 0
    BY OutboxAssumption
  <2>2. QED
    BY <2>1, FS_Interval
<1>4. QED
  BY <1>2, <1>3, FS_Injection

LEMMA NewRowsAreCounted ==
  ASSUME TypeOK, NEW count \in 1 .. 2, NEW payload
  PROVE  /\ IsFiniteSet(NewRows(FreshIds(count), payload))
         /\ Cardinality(NewRows(FreshIds(count), payload)) <= count
<1> DEFINE rows == NewRows(FreshIds(count), payload)
           ids == FreshIds(count)
           idOf == [row \in rows |-> row.id]
<1>1. idOf \in Injection(rows, ids)
  BY DEF NewRows, Injection, IsInjective
<1>2. IsFiniteSet(ids) /\ Cardinality(ids) = count
  <2>1. nextId \in Int /\ nextId + count - 1 \in Int /\ count \in Nat
    BY DEF TypeOK
  <2>2. IsFiniteSet(nextId .. nextId + count - 1)
        /\ Cardinality(nextId .. nextId + count - 1) = count
    BY <2>1, FS_Interval
  <2>3. QED
    BY <2>2 DEF FreshIds
<1>3. QED
  BY <1>1, <1>2, FS_Injection

LEMMA InitTables == Init => TablesInv
  BY FS_EmptySet, OutboxAssumption DEF Init, TablesInv, TablesBounded, LettersAreDistinct

LEMMA GroupBounded ==
  ASSUME TypeOK, DeliveryInv, TablesInv, NEW count \in 1 .. 2, NEW life \in Nat,
         QueueGroup(count, life)
  PROVE  TablesInv'
<1> DEFINE payload == [created |-> clock, version |-> nextId, lifetime |-> life]
           rows == NewRows(FreshIds(count), payload)
<1>1. /\ outbox' = outbox \cup rows /\ letters' = letters
      /\ count <= Capacity - Cardinality(outbox)
      /\ FreshIds(count) \subseteq EventIds
      /\ settled' = [i \in EventIds |-> IF i \in FreshIds(count) THEN "queued"
                                                               ELSE settled[i]]
  BY DEF QueueGroup, Fits
<1>2. IsFiniteSet(outbox') /\ Cardinality(outbox') <= Capacity
  <2>1. IsFiniteSet(outbox) /\ IsFiniteSet(rows) /\ Cardinality(rows) <= count
    BY NewRowsAreCounted DEF TablesInv
  <2>2. /\ IsFiniteSet(outbox \cup rows)
        /\ Cardinality(outbox \cup rows)
             = Cardinality(outbox) + Cardinality(rows) - Cardinality(outbox \cap rows)
    BY <2>1, FS_Union
  <2>3. IsFiniteSet(outbox \cap rows)
    BY <2>1, FS_Subset
  <2>4. /\ Cardinality(outbox) \in Nat /\ Cardinality(rows) \in Nat
        /\ Cardinality(outbox \cap rows) \in Nat
    BY <2>1, <2>3, FS_CardinalityType
  <2>5. QED
    BY <1>1, <2>1, <2>2, <2>4, OutboxAssumption
<1>3. \A d \in letters : settled'[d.id] = "dead-lettered"
  <2>1. SUFFICES ASSUME NEW d \in letters PROVE settled'[d.id] = "dead-lettered"
    OBVIOUS
  <2>2. d.id \in EventIds /\ settled[d.id] = "dead-lettered"
    BY DEF TablesInv, LettersAreDistinct, TypeOK
  <2>3. d.id < nextId /\ d.id \in Nat /\ nextId \in Nat
    BY <2>2, Numbered, EventIdsAreNat DEF TypeOK
  <2>4. d.id \notin FreshIds(count)
    BY <2>3 DEF FreshIds
  <2>5. QED
    BY <1>1, <2>2, <2>4
<1>4. QED
  BY <1>1, <1>2, <1>3 DEF TablesInv, TablesBounded, LettersAreDistinct

(* Taking rows out of the queue keeps it within its capacity.              *)
LEMMA SmallerQueue ==
  ASSUME TablesInv, outbox' \subseteq outbox
  PROVE  IsFiniteSet(outbox') /\ Cardinality(outbox') <= Capacity
<1>1. IsFiniteSet(outbox') /\ Cardinality(outbox') <= Cardinality(outbox)
      /\ Cardinality(outbox') \in Nat /\ Cardinality(outbox) \in Nat
  BY FS_Subset, FS_CardinalityType DEF TablesInv
<1>2. QED
  BY <1>1, OutboxAssumption DEF TablesInv, TablesBounded

LEMMA DeadLetterBounded ==
  ASSUME TypeOK, DeliveryInv, TablesInv, NEW row \in outbox, NEW why \in DeadLetterReason,
         DeadLetterRow(row, why)
  PROVE  TablesInv'
<1> DEFINE letter == [id |-> row.id, reason |-> why, failedAt |-> clock]
           all == letters \cup {letter}
<1>1. /\ outbox' = outbox \ {row} /\ letters' = Newest(all)
      /\ settled' = [settled EXCEPT ![row.id] = "dead-lettered"]
  BY DEF DeadLetterRow, WithDeadLetter
<1>2. row.id \in EventIds /\ settled[row.id] = "queued"
  BY HeadType DEF DeliveryInv, QueueIsExact
<1>3. \A d \in letters : d.id \in EventIds /\ settled[d.id] = "dead-lettered" /\ d.id # row.id
  BY <1>2 DEF TablesInv, LettersAreDistinct, TypeOK
<1>4. all \in SUBSET Letter
  BY <1>2 DEF TypeOK, Letter
<1>5. \A d, e \in all : d.id = e.id => d = e
  BY <1>3 DEF TablesInv, LettersAreDistinct
<1>6. IsFiniteSet(all)
  BY FS_AddElement DEF TablesInv
<1>7. IsFiniteSet(letters') /\ Cardinality(letters') <= DeadLetterCapacity
  BY <1>1, <1>4, <1>5, <1>6, NewestIsBounded
<1>8. letters' \subseteq all
  BY <1>1, NewestType
<1>9. \A d \in all : settled'[d.id] = "dead-lettered"
  BY <1>1, <1>2, <1>3 DEF TypeOK
<1>10. IsFiniteSet(outbox') /\ Cardinality(outbox') <= Capacity
  BY <1>1, SmallerQueue
<1>11. QED
  BY <1>5, <1>7, <1>8, <1>9, <1>10 DEF TablesInv, TablesBounded, LettersAreDistinct

(* A step that adds to neither table and changes no dead letter's event.   *)
LEMMA NothingAdded ==
  ASSUME TypeOK, TablesInv, outbox' \subseteq outbox, letters' \subseteq letters,
         \A i \in EventIds : settled[i] = "dead-lettered" => settled'[i] = settled[i]
  PROVE  TablesInv'
<1>1. IsFiniteSet(outbox') /\ Cardinality(outbox') <= Capacity
  BY SmallerQueue
<1>2. IsFiniteSet(letters') /\ Cardinality(letters') <= Cardinality(letters)
      /\ Cardinality(letters') \in Nat /\ Cardinality(letters) \in Nat
  BY FS_Subset, FS_CardinalityType DEF TablesInv
<1>3. Cardinality(letters') <= DeadLetterCapacity
  BY <1>2, OutboxAssumption DEF TablesInv, TablesBounded
<1>4. LettersAreDistinct'
  BY DEF TablesInv, LettersAreDistinct, TypeOK
<1>5. QED
  BY <1>1, <1>2, <1>3, <1>4 DEF TablesInv, TablesBounded

(* A failed attempt puts the row back.                                     *)
LEMMA RetryBounded ==
  ASSUME TypeOK, DeliveryInv, TablesInv, AlarmRetry
  PROVE  TablesInv'
<1>1. held \in outbox
  BY HeldIsQueued DEF AlarmRetry
<1>2. PICK row : outbox' = (outbox \ {held}) \cup {row}
  BY <1>1 DEF AlarmRetry
<1>3. /\ IsFiniteSet(outbox) /\ Cardinality(outbox) \in Nat
      /\ Cardinality(outbox) <= Capacity
  BY FS_CardinalityType DEF TablesInv, TablesBounded
<1>4. /\ IsFiniteSet(outbox \ {held})
      /\ Cardinality(outbox \ {held}) = Cardinality(outbox) - 1
  BY <1>1, <1>3, FS_RemoveElement
<1>5. /\ IsFiniteSet((outbox \ {held}) \cup {row})
      /\ Cardinality((outbox \ {held}) \cup {row}) =
           IF row \in outbox \ {held} THEN Cardinality(outbox \ {held})
                                     ELSE Cardinality(outbox \ {held}) + 1
  BY <1>4, FS_AddElement
<1>6. IsFiniteSet(outbox') /\ Cardinality(outbox') <= Capacity
  BY <1>2, <1>3, <1>4, <1>5, OutboxAssumption
<1>7. UNCHANGED <<letters, settled>>
  BY DEF AlarmRetry, historyVars
<1>8. QED
  BY <1>6, <1>7 DEF TablesInv, TablesBounded, LettersAreDistinct

LEMMA TablesNext == TypeOK /\ DeliveryInv /\ TablesInv /\ [Next]_vars => TablesInv'
<1> SUFFICES ASSUME TypeOK, DeliveryInv, TablesInv, [Next]_vars PROVE TablesInv'
  OBVIOUS
<1> USE DEF roomVars, historyVars
<1>1. CASE CreateRoom
  <2>1. 1 \in 1 .. 2 /\ lifetime + 1 \in Nat
    BY DEF TypeOK
  <2>2. QED
    BY <1>1, <2>1, GroupBounded DEF CreateRoom
<1>2. ASSUME NEW count \in 1 .. 2, QueueMilestones(count) PROVE TablesInv'
  <2>1. lifetime \in Nat
    BY DEF TypeOK
  <2>2. QED
    BY <1>2, <2>1, GroupBounded DEF QueueMilestones
<1>3. CASE AlarmDeleteRoom
  <2>1. \A i \in EventIds : settled[i] = "dead-lettered" => settled'[i] = settled[i]
    BY <1>3 DEF AlarmDeleteRoom
  <2>2. QED
    BY <1>3, <2>1, NothingAdded DEF AlarmDeleteRoom
<1>4. CASE AlarmReconcile
  BY <1>4, NothingAdded DEF AlarmReconcile, Purged
<1>5. CASE AlarmDeadLetterHead
  <2>1. PICK row \in outbox :
          DeadLetterRow(row, IF Deadline(row) <= now THEN "deadline-exceeded"
                                                     ELSE "invalid-payload")
    BY <1>5 DEF AlarmDeadLetterHead
  <2>2. QED
    BY <2>1, DeadLetterBounded DEF DeadLetterReason
<1>6. CASE AlarmGiveUp
  <2>1. held \in outbox
    BY <1>6, HeldIsQueued DEF AlarmGiveUp
  <2>2. DeadLetterRow(held, IF answer = "conflict" THEN "conflict"
                            ELSE IF clock >= Deadline(held) THEN "deadline-exceeded"
                            ELSE "attempts-exhausted")
    BY <1>6 DEF AlarmGiveUp
  <2>3. QED
    BY <2>1, <2>2, DeadLetterBounded DEF DeadLetterReason
<1>7. CASE AlarmAcknowledge
  <2>1. held \in outbox /\ held.id \in EventIds /\ settled[held.id] = "queued"
    BY <1>7, HeldIsQueued, HeadType DEF AlarmAcknowledge, DeliveryInv, QueueIsExact
  <2>2. \A i \in EventIds : settled[i] = "dead-lettered" => settled'[i] = settled[i]
    BY <1>7, <2>1 DEF AlarmAcknowledge, TypeOK
  <2>3. QED
    BY <1>7, <2>2, NothingAdded DEF AlarmAcknowledge
<1>8. CASE AlarmRetry
  BY <1>8, RetryBounded
<1>9. ASSUME \/ \E count \in 1 .. 2, canonical \in BOOLEAN :
                  DropMilestones(count, canonical)
             \/ \E touched \in SaveKinds : SaveRoom(touched)
             \/ Wake \/ Evict \/ AlarmFire \/ AlarmDeleteFails
             \/ AlarmNothingDue \/ AlarmDispatch
             \/ \E request \in requests, delivered \in BOOLEAN :
                  DatabaseExecute(request, delivered) \/ DatabaseRefuse(request, delivered)
             \/ DatabaseError
             \/ \E receipt \in receipts : DeleteExpiredReceipt(receipt)
             \/ Tick
             \/ UNCHANGED vars
      PROVE  TablesInv'
  <2>1. UNCHANGED <<outbox, letters, settled>>
    BY <1>9 DEF DropMilestones, SaveRoom, Wake, Evict, AlarmFire, AlarmDeleteFails,
                AlarmNothingDue, AlarmDispatch, DatabaseExecute, DatabaseRefuse,
                DatabaseError, DeleteExpiredReceipt, Tick, vars
  <2>2. QED
    BY <2>1, NothingAdded
<1>10. QED
  BY <1>1, <1>2, <1>3, <1>4, <1>5, <1>6, <1>7, <1>8, <1>9 DEF Next, AlarmStep

(* Neither table ever outgrows its capacity, whatever the capacities are.  *)
THEOREM TablesStayBounded == Spec => []TablesBounded
<1>1. TablesInv => TablesBounded
  BY DEF TablesInv
<1>2. TypeOK /\ DeliveryInv /\ TypeOK' /\ DeliveryInv' /\ TablesInv /\ [Next]_vars => TablesInv'
  BY TablesNext
<1>3. QED
  BY <1>1, <1>2, InitTables, DeliveryInvariant, PTL DEF Spec

(* Every event counts once, in order and only when applied, out of tables  *)
(* that keep their bounds (enqueueRoomMilestones, alarm, finalizers).      *)
THEOREM QueueSteady == Spec => []QueueIsSteady
BY TablesStayBounded, NeverStale, AtMostOnce, AcknowledgedOnlyIfApplied, InOrder, PTL
   DEF QueueIsSteady

-----------------------------------------------------------------------------
(* The room fact                                                           *)

Version(i) == event[i].version

\* A room that exists has a lifetime, and every event belongs to one.
LifetimesAreCounted ==
  /\ room.exists => lifetime >= 1
  /\ lifetime <= MaxLifetimes
  /\ \A i \in EventIds : i < nextId => event[i].lifetime \in Lifetimes

\* What is sent is what was enqueued, and what is enqueued later is later.
EventsAreOrdered ==
  /\ \A request \in requests : request.payload = event[request.id]
  /\ \A i \in EventIds : i < nextId => Version(i) <= nextId
  /\ \A i, j \in EventIds :
       i < j /\ j < nextId => Created(i) <= Created(j) /\ Version(i) <= Version(j)

\* The fact of a room is not before an event, or not after it.
NotBefore(fact, i) == Created(i) <= fact.observedAt /\ Version(i) <= fact.version
NotAfter(fact, i) == fact.observedAt <= Created(i) /\ fact.version <= Version(i)

FactsAreOrdered ==
  /\ \A l \in Lifetimes : facts[l].observedAt <= clock /\ facts[l].version <= nextId
  /\ \A i \in EventIds, l \in Lifetimes :
       i < nextId => NotBefore(facts[l], i) \/ NotAfter(facts[l], i)
  /\ FactKeyConfigured =>
       \A i \in EventIds : effects[i] > 0 => NotBefore(facts[event[i].lifetime], i)

LatestInv == LifetimesAreCounted /\ EventsAreOrdered /\ FactsAreOrdered

LEMMA InitLatest == Init => LatestInv
<1> SUFFICES ASSUME Init PROVE LatestInv
  OBVIOUS
<1>1. \A i \in EventIds : i \in Nat /\ ~ (i < nextId) /\ effects[i] = 0
  BY EventIdsAreNat DEF Init, EventIds
<1>2. LifetimesAreCounted
  BY <1>1, DeliveryAssumption DEF Init, LifetimesAreCounted
<1>3. EventsAreOrdered
  BY <1>1 DEF Init, EventsAreOrdered
<1>4. FactsAreOrdered
  BY <1>1 DEF Init, FactsAreOrdered, NoFact
<1>5. QED
  BY <1>2, <1>3, <1>4 DEF LatestInv

LEMMA TimesInOrder == ASSUME NEW a \in Nat, NEW b \in Nat, NEW c \in Nat, a <= b, b <= c PROVE a <= c
OBVIOUS

\* A step that neither enqueues, sends nor applies an event.
LEMMA FactsUntouched ==
  ASSUME TypeOK, LatestInv, UNCHANGED <<event, nextId, facts, effects, lifetime>>,
         requests' \subseteq requests, room'.exists => room.exists,
         clock' \in Nat, clock <= clock'
  PROVE  LatestInv'
<1>1. LifetimesAreCounted' /\ EventsAreOrdered'
  BY DEF LatestInv, LifetimesAreCounted, EventsAreOrdered, Version, Created
<1>2. \A l \in Lifetimes : facts[l].observedAt <= clock'
  BY TimesInOrder DEF LatestInv, FactsAreOrdered, TypeOK, Fact
<1>3. FactsAreOrdered'
  BY <1>2 DEF LatestInv, FactsAreOrdered, NotBefore, NotAfter, Version, Created
<1>4. QED
  BY <1>1, <1>3 DEF LatestInv

LEMMA GroupOrdered ==
  ASSUME TypeOK, DeliveryInv, LatestInv, NEW count \in 1 .. 2, NEW life \in Lifetimes,
         QueueGroup(count, life), lifetime' \in Nat, 1 <= lifetime', lifetime' <= MaxLifetimes,
         UNCHANGED <<clock, databaseVars>>
  PROVE  LatestInv'
<1> DEFINE payload == [created |-> clock, version |-> nextId, lifetime |-> life]
           ids == FreshIds(count)
<1> USE DEF databaseVars
<1>1. /\ ids \subseteq EventIds /\ nextId' = nextId + count
      /\ event' = [i \in EventIds |-> IF i \in ids THEN payload ELSE event[i]]
      /\ UNCHANGED <<clock, requests, effects, facts>>
  BY DEF QueueGroup
<1>2. nextId \in Nat \ {0} /\ clock \in Nat /\ EventIds \subseteq Nat
  BY EventIdsAreNat DEF TypeOK
<1>3. ASSUME NEW i \in EventIds
      PROVE  /\ i \in ids <=> (nextId <= i /\ i < nextId')
             /\ i < nextId' => i < nextId \/ i \in ids
             /\ i < nextId => event'[i] = event[i]
             /\ i \in ids => event'[i].created = clock /\ event'[i].version = nextId
                             /\ event'[i].lifetime = life
  <2>1. i \in Nat /\ (i \in ids <=> nextId <= i /\ i <= nextId + count - 1)
    BY <1>2 DEF FreshIds
  <2>2. i < nextId + count => i <= nextId + count - 1
    BY <1>2, <2>1
  <2> HIDE DEF ids
  <2>3. event'[i] = IF i \in ids THEN payload ELSE event[i]
    BY <1>1
  <2>4. QED
    BY <1>1, <1>2, <2>1, <2>2, <2>3
<1>4. ASSUME NEW i \in EventIds, i < nextId
      PROVE  Created(i) <= clock /\ Version(i) <= nextId /\ Version(i) \in Nat /\ Created(i) \in Nat
  BY <1>4, Numbered DEF LatestInv, EventsAreOrdered, Version, Created, TypeOK, Payload
<1>5. LifetimesAreCounted'
  BY <1>1, <1>3 DEF LatestInv, LifetimesAreCounted
<1> HIDE DEF ids, payload
<1>6. EventsAreOrdered'
  <2>1. \A request \in requests : request.id \in EventIds /\ request.id < nextId
    BY DEF TypeOK, Request, DeliveryInv, RequestsAreTimely
  <2>2. ASSUME NEW i \in EventIds, i < nextId' PROVE Version(i)' <= nextId + count
    BY <1>2, <1>3, <1>4, <2>2 DEF Version
  <2>3. ASSUME NEW i \in EventIds, NEW j \in EventIds, i < j, j < nextId'
        PROVE  Created(i)' <= Created(j)' /\ Version(i)' <= Version(j)'
    <3>1. CASE j < nextId
      <4>1. i < nextId
        BY <1>2, <2>3, <3>1
      <4>2. Created(i) <= Created(j) /\ Version(i) <= Version(j)
        BY <2>3, <3>1 DEF LatestInv, EventsAreOrdered
      <4>3. QED
        BY <1>3, <3>1, <4>1, <4>2 DEF Created, Version
    <3>2. CASE j \in ids /\ i < nextId
      BY <1>3, <1>4, <3>2 DEF Created, Version
    <3>3. CASE j \in ids /\ i \in ids
      BY <1>2, <1>3, <3>3 DEF Created, Version
    <3>4. i < nextId'
      BY <1>1, <1>2, <2>3
    <3>5. QED
      BY <1>3, <2>3, <3>1, <3>2, <3>3, <3>4
  <2>4. QED
    BY <1>1, <1>3, <2>1, <2>2, <2>3 DEF LatestInv, EventsAreOrdered
<1>7. FactsAreOrdered'
  <2>1. ASSUME NEW l \in Lifetimes
        PROVE  facts[l].observedAt <= clock /\ facts[l].version <= nextId + count
               /\ facts[l].version <= nextId
    BY <1>2 DEF LatestInv, FactsAreOrdered, TypeOK, Fact
  <2>2. ASSUME NEW i \in EventIds, NEW l \in Lifetimes, i < nextId'
        PROVE  NotBefore(facts[l], i)' \/ NotAfter(facts[l], i)'
    <3>1. CASE i < nextId
      BY <1>1, <1>3, <3>1 DEF LatestInv, FactsAreOrdered, NotBefore, NotAfter, Created, Version
    <3>2. CASE i \in ids
      BY <1>1, <1>3, <2>1, <3>2 DEF NotAfter, Created, Version
    <3>3. QED
      BY <1>3, <2>2, <3>1, <3>2
  <2>3. ASSUME FactKeyConfigured, NEW i \in EventIds, effects[i] > 0
        PROVE  NotBefore(facts[event[i].lifetime], i)'
    <3>1. i < nextId /\ NotBefore(facts[event[i].lifetime], i)
      BY <2>3, Numbered DEF LatestInv, FactsAreOrdered
    <3>2. QED
      BY <1>1, <1>3, <3>1 DEF NotBefore, Created, Version
  <2>4. QED
    BY <1>1, <2>1, <2>2, <2>3 DEF FactsAreOrdered
<1>8. QED
  BY <1>5, <1>6, <1>7 DEF LatestInv

LEMMA ExecutionOrdered ==
  ASSUME TypeOK, DeliveryInv, LatestInv, NEW request \in requests, NEW delivered \in BOOLEAN,
         DatabaseExecute(request, delivered)
  PROVE  LatestInv'
<1> DEFINE k == request.id
           l == event[k].lifetime
           new == FactOf(event[k])
<1>1. /\ k \in EventIds /\ k < nextId /\ request.payload = event[k] /\ l \in Lifetimes
      /\ event[k] \in Payload
  BY DEF TypeOK, Request, DeliveryInv, RequestsAreTimely, LatestInv, EventsAreOrdered,
         LifetimesAreCounted
<1>2. /\ requests' = requests \ {request}
      /\ UNCHANGED <<clock, room, event, nextId, lifetime>>
  BY DEF DatabaseExecute, roomVars, historyVars
<1>3. \/ UNCHANGED <<effects, facts>>
      \/ /\ effects' = [effects EXCEPT ![k] = @ + 1]
         /\ facts' = IF FactKeyConfigured THEN Upsert(facts, event[k]) ELSE facts
  BY <1>1 DEF DatabaseExecute
<1>4. CASE UNCHANGED <<effects, facts>>
  BY <1>2, <1>4, FactsUntouched DEF TypeOK
<1>5. CASE /\ effects' = [effects EXCEPT ![k] = @ + 1]
           /\ facts' = IF FactKeyConfigured THEN Upsert(facts, event[k]) ELSE facts
  <2>1. facts \in [Lifetimes -> Fact] /\ effects \in [EventIds -> Nat]
    BY DEF TypeOK
  <2>2. new.observedAt = Created(k) /\ new.version = Version(k) /\ new \in Fact
    BY <1>1 DEF FactOf, Created, Version, Payload, Fact
  <2>3. \A i \in EventIds : Created(i) \in Nat /\ Version(i) \in Nat
    BY DEF TypeOK, Payload, Created, Version
  <2> HIDE DEF new, k, l
  <2>4. \/ facts' = facts /\ (FactKeyConfigured => NotBefore(facts[l], k))
        \/ /\ facts' = [facts EXCEPT ![l] = new]
           /\ \A i \in EventIds : NotBefore(facts[l], i) => NotBefore(new, i)
    <3>1. CASE ~ FactKeyConfigured
      BY <1>5, <3>1
    <3>2. CASE FactKeyConfigured /\ ~ Supersedes(new, facts[l])
      <4>1. facts' = facts
        BY <1>5, <3>2 DEF Upsert, new, l
      <4>2. NotBefore(facts[l], k) \/ NotAfter(facts[l], k)
        BY <1>1 DEF LatestInv, FactsAreOrdered
      <4>3. facts[l] \in Fact
        BY <1>1, <2>1
      <4>4. NotBefore(facts[l], k)
        BY <2>2, <2>3, <3>2, <4>2, <4>3, <1>1 DEF Supersedes, NotAfter, Fact
      <4>5. QED
        BY <4>1, <4>4
    <3>3. CASE FactKeyConfigured /\ Supersedes(new, facts[l])
      <4>1. facts' = [facts EXCEPT ![l] = new]
        BY <1>5, <3>3 DEF Upsert, new, l
      <4>2. new.observedAt >= facts[l].observedAt /\ new.version >= facts[l].version
            /\ facts[l] \in Fact
        BY <1>1, <2>1, <2>2, <3>3 DEF Supersedes, Fact
      <4>3. \A i \in EventIds : NotBefore(facts[l], i) => NotBefore(new, i)
        BY <2>2, <2>3, <4>2 DEF NotBefore, Fact
      <4>4. QED
        BY <4>1, <4>3
    <3>4. QED
      BY <3>1, <3>2, <3>3
  <2>5. LifetimesAreCounted' /\ EventsAreOrdered'
    BY <1>2 DEF LatestInv, LifetimesAreCounted, EventsAreOrdered, Created, Version
  <2>6. ASSUME NEW i \in EventIds, i < nextId PROVE NotBefore(new, i) \/ NotAfter(new, i)
    <3>1. CASE i = k
      BY <2>2, <2>3, <3>1 DEF NotBefore
    <3>2. CASE i < k
      BY <1>1, <2>2, <2>6, <3>2 DEF LatestInv, EventsAreOrdered, NotBefore
    <3>3. CASE k < i
      BY <1>1, <2>2, <2>6, <3>3 DEF LatestInv, EventsAreOrdered, NotAfter
    <3>4. i = k \/ i < k \/ k < i
      BY <1>1, EventIdsAreNat
    <3>5. QED
      BY <3>1, <3>2, <3>3, <3>4
  <2>7. new.observedAt <= clock /\ new.version <= nextId /\ NotBefore(new, k)
    BY <1>1, <2>2, <2>3, Numbered DEF LatestInv, EventsAreOrdered, Created, NotBefore
  <2>8. \A i \in EventIds : effects'[i] > 0 => effects[i] > 0 \/ i = k
    BY <1>1, <1>5, <2>1
  <2>9. \A i \in EventIds : effects[i] > 0 => i < nextId
    BY Numbered
  <2>10. \A i \in EventIds : i < nextId => event[i].lifetime \in Lifetimes
    BY DEF LatestInv, LifetimesAreCounted
  <2>11. \A fact, i : NotBefore(fact, i)' <=> NotBefore(fact, i)
    BY <1>2 DEF NotBefore, Created, Version
  <2>12. \A fact, i : NotAfter(fact, i)' <=> NotAfter(fact, i)
    BY <1>2 DEF NotAfter, Created, Version
  <2>13. l = event[k].lifetime
    BY DEF l
  <2>14. FactsAreOrdered'
    <3>1. CASE facts' = facts /\ (FactKeyConfigured => NotBefore(facts[l], k))
      <4>1. \A i \in EventIds : FactKeyConfigured /\ effects'[i] > 0 => NotBefore(facts[event[i].lifetime], i)
        BY <2>8, <2>13, <3>1 DEF LatestInv, FactsAreOrdered
      <4>2. QED
        BY <1>2, <2>11, <2>12, <3>1, <4>1 DEF LatestInv, FactsAreOrdered
    <3>2. CASE /\ facts' = [facts EXCEPT ![l] = new]
               /\ \A i \in EventIds : NotBefore(facts[l], i) => NotBefore(new, i)
      <4>1. \A m \in Lifetimes : facts'[m] = IF m = l THEN new ELSE facts[m]
        BY <1>1, <2>1, <3>2
      <4>2. \A i \in EventIds : FactKeyConfigured /\ effects'[i] > 0 => NotBefore(facts'[event[i].lifetime], i)
        <5>1. SUFFICES ASSUME FactKeyConfigured, NEW i \in EventIds, effects'[i] > 0
                       PROVE  NotBefore(facts'[event[i].lifetime], i)
          OBVIOUS
        <5>2. CASE i = k
          BY <1>1, <2>7, <2>13, <4>1, <5>2
        <5>3. CASE effects[i] > 0
          <6>1. NotBefore(facts[event[i].lifetime], i) /\ event[i].lifetime \in Lifetimes
            BY <2>9, <2>10, <5>1, <5>3 DEF LatestInv, FactsAreOrdered
          <6>2. QED
            BY <3>2, <4>1, <6>1
        <5>4. QED
          BY <2>8, <5>1, <5>2, <5>3
      <4>3. \A m \in Lifetimes : facts'[m].observedAt <= clock /\ facts'[m].version <= nextId
        BY <2>7, <4>1 DEF LatestInv, FactsAreOrdered
      <4>4. \A i \in EventIds, m \in Lifetimes :
              i < nextId => NotBefore(facts'[m], i) \/ NotAfter(facts'[m], i)
        BY <2>6, <4>1 DEF LatestInv, FactsAreOrdered
      <4>5. QED
        BY <1>2, <2>11, <2>12, <4>2, <4>3, <4>4 DEF FactsAreOrdered
    <3>3. QED
      BY <2>4, <3>1, <3>2
  <2>15. QED
    BY <2>5, <2>14 DEF LatestInv
<1>6. QED
  BY <1>3, <1>4, <1>5

LEMMA DispatchOrdered == TypeOK /\ DeliveryInv /\ LatestInv /\ AlarmDispatch => LatestInv'
<1> SUFFICES ASSUME TypeOK, DeliveryInv, LatestInv, AlarmDispatch PROVE LatestInv'
  OBVIOUS
<1>1. PICK row \in outbox :
        requests' = requests \cup {[id |-> row.id, payload |-> row.payload, at |-> now]}
  BY DEF AlarmDispatch
<1>2. row.payload = event[row.id]
  BY DEF DeliveryInv, QueueIsExact
<1>3. UNCHANGED <<clock, room, event, nextId, lifetime, facts, effects>>
  BY DEF AlarmDispatch, roomVars, historyVars
<1>4. \A request \in requests' : request.payload = event[request.id]
  BY <1>1, <1>2 DEF LatestInv, EventsAreOrdered
<1>5. LifetimesAreCounted' /\ EventsAreOrdered'
  BY <1>3, <1>4 DEF LatestInv, LifetimesAreCounted, EventsAreOrdered, Version, Created
<1>6. FactsAreOrdered'
  BY <1>3 DEF LatestInv, FactsAreOrdered, NotBefore, NotAfter, Version, Created
<1>7. QED
  BY <1>5, <1>6 DEF LatestInv

LEMMA LatestNext == TypeOK /\ DeliveryInv /\ LatestInv /\ [Next]_vars => LatestInv'
<1> SUFFICES ASSUME TypeOK, DeliveryInv, LatestInv, [Next]_vars PROVE LatestInv'
  OBVIOUS
<1> USE DEF roomVars, historyVars, databaseVars
<1>1. CASE CreateRoom
  <2>1. /\ lifetime' = lifetime + 1 /\ lifetime < MaxLifetimes
        /\ QueueGroup(1, lifetime + 1) /\ UNCHANGED <<clock, databaseVars>>
    BY <1>1 DEF CreateRoom
  <2>2. lifetime \in Nat /\ MaxLifetimes \in Nat
    BY DeliveryAssumption DEF TypeOK
  <2>3. lifetime + 1 \in Lifetimes /\ 1 \in 1 .. 2 /\ lifetime' \in Nat
        /\ 1 <= lifetime' /\ lifetime' <= MaxLifetimes
    BY <2>1, <2>2 DEF Lifetimes
  <2>4. QED
    BY <2>1, <2>3, GroupOrdered
<1>2. ASSUME NEW count \in 1 .. 2, QueueMilestones(count) PROVE LatestInv'
  <2>1. /\ lifetime' = lifetime /\ room.exists
        /\ QueueGroup(count, lifetime) /\ UNCHANGED <<clock, databaseVars>>
    BY <1>2 DEF QueueMilestones
  <2>2. lifetime \in Nat /\ MaxLifetimes \in Nat /\ 1 <= lifetime /\ lifetime <= MaxLifetimes
    BY <2>1, DeliveryAssumption DEF TypeOK, LatestInv, LifetimesAreCounted
  <2>3. lifetime \in Lifetimes
    BY <2>2 DEF Lifetimes
  <2>4. QED
    BY <2>1, <2>2, <2>3, GroupOrdered
<1>3. CASE AlarmDispatch
  BY <1>3, DispatchOrdered
<1>4. ASSUME NEW request \in requests, NEW delivered \in BOOLEAN,
             DatabaseExecute(request, delivered)
      PROVE  LatestInv'
  BY <1>4, ExecutionOrdered
<1>5. ASSUME \/ \E count \in 1 .. 2, canonical \in BOOLEAN :
                  DropMilestones(count, canonical)
             \/ \E touched \in SaveKinds : SaveRoom(touched)
             \/ Wake \/ Evict \/ AlarmFire \/ AlarmDeleteRoom \/ AlarmDeleteFails
             \/ AlarmReconcile \/ AlarmNothingDue \/ AlarmDeadLetterHead
             \/ AlarmAcknowledge \/ AlarmGiveUp \/ AlarmRetry
             \/ \E request \in requests, delivered \in BOOLEAN :
                  DatabaseRefuse(request, delivered)
             \/ DatabaseError
             \/ \E receipt \in receipts : DeleteExpiredReceipt(receipt)
             \/ Tick
             \/ UNCHANGED vars
      PROVE  LatestInv'
  <2>1. UNCHANGED <<event, nextId, facts, effects, lifetime>>
    BY <1>5 DEF DropMilestones, SaveRoom, Wake, Evict, AlarmFire, AlarmDeleteRoom,
                AlarmDeleteFails, AlarmReconcile, AlarmNothingDue, AlarmDeadLetterHead,
                AlarmAcknowledge, AlarmGiveUp, AlarmRetry, DeadLetterRow, DatabaseRefuse,
                DatabaseError, DeleteExpiredReceipt, Tick, vars
  <2>2. requests' \subseteq requests
    BY <1>5 DEF DropMilestones, SaveRoom, Wake, Evict, AlarmFire, AlarmDeleteRoom,
                AlarmDeleteFails, AlarmReconcile, AlarmNothingDue, AlarmDeadLetterHead,
                AlarmAcknowledge, AlarmGiveUp, AlarmRetry, DeadLetterRow, DatabaseRefuse,
                DatabaseError, DeleteExpiredReceipt, Tick, vars
  <2>3. room'.exists => room.exists
    BY <1>5 DEF DropMilestones, SaveRoom, Wake, Evict, AlarmFire, AlarmDeleteRoom,
                AlarmDeleteFails, AlarmReconcile, AlarmNothingDue, AlarmDeadLetterHead,
                AlarmAcknowledge, AlarmGiveUp, AlarmRetry, DeadLetterRow, DatabaseRefuse,
                DatabaseError, DeleteExpiredReceipt, Tick, vars, TypeOK
  <2>4. clock' = clock \/ clock' = clock + 1
    BY <1>5 DEF DropMilestones, SaveRoom, Wake, Evict, AlarmFire, AlarmDeleteRoom,
                AlarmDeleteFails, AlarmReconcile, AlarmNothingDue, AlarmDeadLetterHead,
                AlarmAcknowledge, AlarmGiveUp, AlarmRetry, DeadLetterRow, DatabaseRefuse,
                DatabaseError, DeleteExpiredReceipt, Tick, vars
  <2>5. clock' \in Nat /\ clock <= clock'
    BY <2>4 DEF TypeOK
  <2>6. QED
    BY <2>1, <2>2, <2>3, <2>5, FactsUntouched
<1>6. QED
  BY <1>1, <1>2, <1>3, <1>4, <1>5 DEF Next, AlarmStep

(* The room fact is that of the latest event applied for its lifetime,     *)
(* although events of an earlier room are still being delivered and a      *)
(* request may be executed after the room has given it up                  *)
(* (RECEIPT_GATED_ROOM_FACT_SQL).                                          *)
THEOREM FactsLatest == Spec => []FactIsLatestApplied
<1>1. TypeOK /\ DeliveryInv /\ LatestInv => FactIsLatestApplied
  <2> SUFFICES ASSUME TypeOK, DeliveryInv, LatestInv, FactKeyConfigured,
                      NEW i \in EventIds, effects[i] > 0
               PROVE  LET fact == facts[event[i].lifetime]
                      IN  \/ fact.observedAt > event[i].created
                          \/ /\ fact.observedAt = event[i].created
                             /\ fact.version >= event[i].version
    BY DEF FactIsLatestApplied
  <2> DEFINE fact == facts[event[i].lifetime]
  <2>1. i < nextId /\ NotBefore(fact, i) /\ event[i].lifetime \in Lifetimes
    BY Numbered DEF LatestInv, FactsAreOrdered, LifetimesAreCounted
  <2>2. fact \in Fact /\ event[i] \in Payload
    BY <2>1 DEF TypeOK
  <2>3. event[i].created <= fact.observedAt /\ event[i].version <= fact.version
    BY <2>1 DEF NotBefore, Created, Version
  <2>4. /\ fact.observedAt \in Nat /\ fact.version \in Nat
        /\ event[i].created \in Nat /\ event[i].version \in Nat
    BY <2>2 DEF Fact, Payload
  <2> HIDE DEF fact
  <2>5. \/ fact.observedAt > event[i].created
        \/ fact.observedAt = event[i].created /\ fact.version >= event[i].version
    BY <2>3, <2>4
  <2>6. QED
    BY <2>5 DEF fact
<1>2. TypeOK /\ DeliveryInv /\ TypeOK' /\ DeliveryInv' /\ LatestInv /\ [Next]_vars => LatestInv'
  BY LatestNext
<1>3. QED
  BY <1>1, <1>2, InitLatest, DeliveryInvariant, PTL DEF Spec

-----------------------------------------------------------------------------
(* The alarm                                                               *)

\* The alarm is set for whatever is due first.
Covered == \A due \in WakeTimes : alarm <= Greater(due, clock + AlarmMinDelay)
\* The watchdog is set while the handler waits for D1.
Watched == alarm <= clock + Watchdog
\* An expired room whose deletion failed is tried again soon.
DeletedSoon == clock >= ExpiresAt /\ alarm <= clock + DeleteRetry

AlarmInv ==
  room.exists =>
    /\ pc = "idle" => /\ alarm # NoAlarm
                      /\ Covered \/ DeletedSoon \/ (~ awake /\ Watched)
    /\ pc = "started" => alarm = NoAlarm \/ Covered
    /\ pc = "reconciled" => alarm # NoAlarm /\ Covered
    /\ pc \in {"awaiting", "answered"} => alarm # NoAlarm /\ (Covered \/ Watched)

LEMMA DueTimesAreNat ==
  ASSUME NEW queue, NEW dead,
         \A row \in queue : row.next \in Nat /\ row.payload.created \in Nat,
         \A d \in dead : d.failedAt \in Nat
  PROVE  DueTimes(queue, dead) \subseteq Nat
<1>1. ASSUME NEW row \in queue PROVE Lesser(row.next, Deadline(row)) \in Nat
  BY OutboxAssumption DEF Lesser, Deadline
<1>2. ASSUME NEW d \in dead PROVE PurgeAt(d) \in Nat
  BY OutboxAssumption DEF PurgeAt
<1>3. QED
  BY <1>1, <1>2 DEF DueTimes

LEMMA WakeTimesAreNat ==
  /\ TypeOK => WakeTimes \subseteq Nat
  /\ TypeOK' => WakeTimes' \subseteq Nat
<1>1. ASSUME TypeOK PROVE WakeTimes \subseteq Nat
  <2>1. \A row \in outbox : row.next \in Nat /\ row.payload.created \in Nat
    BY <1>1 DEF TypeOK, Payload
  <2>2. \A d \in letters : d.failedAt \in Nat
    BY <1>1 DEF TypeOK
  <2>3. ExpiresAt \in Nat
    BY <1>1, DeliveryAssumption DEF TypeOK, ExpiresAt
  <2>4. QED
    BY <2>1, <2>2, <2>3, DueTimesAreNat DEF WakeTimes
<1>2. ASSUME TypeOK' PROVE WakeTimes' \subseteq Nat
  <2>1. \A row \in outbox' : row.next \in Nat /\ row.payload.created \in Nat
    BY <1>2 DEF TypeOK, Payload
  <2>2. \A d \in letters' : d.failedAt \in Nat
    BY <1>2 DEF TypeOK
  <2>3. ExpiresAt' \in Nat
    BY <1>2, DeliveryAssumption DEF TypeOK, ExpiresAt
  <2>4. DueTimes(outbox', letters') \subseteq Nat
    BY <2>1, <2>2, DueTimesAreNat
  <2>5. QED
    BY <2>3, <2>4 DEF WakeTimes
<1>3. QED
  BY <1>1, <1>2

LEMMA GreaterIsMonotonic ==
  ASSUME NEW a \in Nat, NEW b \in Nat, NEW c \in Nat, NEW d \in Nat,
         NEW m \in Nat, b <= c, a <= Greater(d, b + m)
  PROVE  a <= Greater(d, c + m)
BY DEF Greater

\* Every save, retry, finalizer and constructor.
LEMMA Reconciled ==
  ASSUME TypeOK, TypeOK', ReconcileAlarm, clock' = clock
  PROVE  alarm' # NoAlarm /\ Covered'
<1>1. PICK due \in WakeTimes' :
        /\ \A other \in WakeTimes' : due <= other
        /\ alarm' = Greater(clock + AlarmMinDelay, due)
  BY DEF ReconcileAlarm
<1>2. WakeTimes' \subseteq Nat
  BY WakeTimesAreNat
<1>3. clock \in Nat /\ AlarmMinDelay \in Nat
  BY DeliveryAssumption DEF TypeOK
<1>4. ASSUME NEW other \in Nat, due <= other
      PROVE  Greater(clock + AlarmMinDelay, due) <= Greater(other, clock + AlarmMinDelay)
  BY <1>1, <1>2, <1>3, <1>4 DEF Greater
<1>5. \A other \in WakeTimes' : alarm' <= Greater(other, clock + AlarmMinDelay)
  BY <1>1, <1>2, <1>4
<1>6. Greater(clock + AlarmMinDelay, due) # NoAlarm
  BY <1>1, <1>2, <1>3 DEF Greater, NoAlarm
<1>7. Covered'
  BY <1>5 DEF Covered
<1>8. QED
  BY <1>1, <1>6, <1>7

\* Nothing that could be due changes, and the clock goes no way back.
LEMMA StaysCovered ==
  ASSUME TypeOK, UNCHANGED <<room, outbox, letters, alarm>>, alarm # NoAlarm,
         clock' \in Nat, clock <= clock'
  PROVE  /\ WakeTimes' = WakeTimes /\ ExpiresAt' = ExpiresAt
         /\ Covered => Covered'
         /\ Watched => Watched'
         /\ DeletedSoon => DeletedSoon'
<1>1. WakeTimes' = WakeTimes /\ ExpiresAt' = ExpiresAt
  BY DEF WakeTimes, ExpiresAt
<1>2. /\ alarm \in Nat /\ clock \in Nat /\ AlarmMinDelay \in Nat /\ Watchdog \in Nat
      /\ DeleteRetry \in Nat /\ ExpiresAt \in Nat
  BY DeliveryAssumption DEF TypeOK, ExpiresAt
<1>3. PICK t \in Nat : t = clock'
  OBVIOUS
<1>4. ASSUME Covered PROVE Covered'
  <2>1. \A due \in WakeTimes : due \in Nat /\ alarm <= Greater(due, clock + AlarmMinDelay)
    BY <1>4, WakeTimesAreNat DEF Covered
  <2>2. clock <= t
    BY <1>3
  <2>3. \A due \in WakeTimes : alarm <= Greater(due, t + AlarmMinDelay)
    BY <1>2, <2>1, <2>2, GreaterIsMonotonic
  <2>4. QED
    BY <1>1, <1>3, <2>3 DEF Covered
<1>5. clock <= t /\ t \in Nat
  BY <1>3
<1>6. alarm <= clock + Watchdog => alarm <= t + Watchdog
  BY <1>2, <1>5
<1>7. clock >= ExpiresAt /\ alarm <= clock + DeleteRetry
        => t >= ExpiresAt /\ alarm <= t + DeleteRetry
  BY <1>2, <1>5
<1>8. Watched => Watched'
  BY <1>3, <1>6 DEF Watched
<1>9. DeletedSoon => DeletedSoon'
  BY <1>1, <1>3, <1>7 DEF DeletedSoon
<1>10. QED
  BY <1>1, <1>4, <1>8, <1>9

\* A step that ends with the alarm set for the tables it leaves.
LEMMA AlarmSet ==
  ASSUME TypeOK, TypeOK', ReconcileAlarm, clock' = clock
  PROVE  AlarmInv'
BY Reconciled DEF AlarmInv

\* A step that leaves the alarm and the tables, and where the handler is.
LEMMA AlarmKept ==
  ASSUME TypeOK, AlarmInv, UNCHANGED <<room, outbox, letters, alarm>>,
         clock' \in Nat, clock <= clock',
         \/ pc' = pc
         \/ pc = "awaiting" /\ pc' = "answered",
         awake' = awake
  PROVE  AlarmInv'
<1>1. CASE alarm = NoAlarm
  BY <1>1 DEF AlarmInv
<1>2. CASE alarm # NoAlarm
  <2>1. /\ Covered => Covered'
        /\ Watched => Watched'
        /\ DeletedSoon => DeletedSoon'
    BY <1>2, StaysCovered
  <2>2. QED
    BY <1>2, <2>1 DEF AlarmInv
<1>3. QED
  BY <1>1, <1>2

LEMMA InitAlarm == Init => AlarmInv
BY DEF Init, AlarmInv

LEMMA AlarmNext ==
  TypeOK /\ TypeOK' /\ DeliveryInv /\ AlarmInv /\ [Next]_vars => AlarmInv'
<1> SUFFICES ASSUME TypeOK, TypeOK', DeliveryInv, AlarmInv, [Next]_vars PROVE AlarmInv'
  OBVIOUS
<1> USE DEF roomVars, handlerVars, HandlerIdle
<1>1. ASSUME \/ CreateRoom
             \/ \E count \in 1 .. 2 : QueueMilestones(count)
             \/ \E count \in 1 .. 2, canonical \in BOOLEAN : DropMilestones(count, canonical)
             \/ \E touched \in SaveKinds : SaveRoom(touched)
             \/ AlarmReconcile \/ AlarmDeadLetterHead \/ AlarmAcknowledge
             \/ AlarmGiveUp \/ AlarmRetry
      PROVE  AlarmInv'
  <2>1. ReconcileAlarm /\ clock' = clock
    BY <1>1 DEF CreateRoom, QueueMilestones, QueueGroup, DropMilestones, SaveRoom,
                AlarmReconcile, AlarmDeadLetterHead, AlarmAcknowledge, AlarmGiveUp,
                AlarmRetry, DeadLetterRow
  <2>2. QED
    BY <2>1, AlarmSet
<1>2. CASE Wake
  <2>1. CASE room.exists
    BY <1>2, <2>1, AlarmSet DEF Wake
  <2>2. CASE ~ room.exists
    BY <1>2, <2>2 DEF Wake, AlarmInv
  <2>3. QED
    BY <2>1, <2>2
<1>3. CASE Evict
  <2>1. UNCHANGED <<room, outbox, letters, clock>> /\ pc' = "idle" /\ awake' = FALSE
        /\ clock \in Nat /\ pc \in HandlerStates /\ awake
    BY <1>3 DEF Evict, TypeOK
  <2>2. CASE pc = "started" /\ alarm = NoAlarm
    <3>1. alarm' = clock /\ Watchdog \in Nat
      BY <1>3, <2>2, DeliveryAssumption DEF Evict
    <3>2. clock <= clock + Watchdog /\ clock # NoAlarm
      BY <2>1, <3>1 DEF NoAlarm
    <3>3. Watched' /\ alarm' # NoAlarm
      BY <2>1, <3>1, <3>2 DEF Watched
    <3>4. QED
      BY <2>1, <3>3 DEF AlarmInv
  <2>3. CASE ~ (pc = "started" /\ alarm = NoAlarm)
    <3>1. alarm' = alarm
      BY <1>3, <2>3 DEF Evict
    <3>2. CASE alarm = NoAlarm
      BY <2>1, <2>3, <3>2 DEF AlarmInv, HandlerStates
    <3>3. CASE alarm # NoAlarm
      <4>1. clock' \in Nat /\ clock <= clock'
        BY <2>1
      <4>2. /\ Covered => Covered'
            /\ Watched => Watched'
            /\ DeletedSoon => DeletedSoon'
        BY <2>1, <3>1, <3>3, <4>1, StaysCovered
      <4>3. QED
        BY <2>1, <2>3, <3>1, <3>3, <4>2 DEF AlarmInv, HandlerStates
    <3>4. QED
      BY <3>2, <3>3
  <2>4. QED
    BY <2>2, <2>3
<1>4. CASE AlarmFire
  <2>1. CASE ~ awake /\ room.exists
    BY <1>4, <2>1, AlarmSet DEF AlarmFire
  <2>2. CASE ~ (~ awake /\ room.exists)
    BY <1>4, <2>2 DEF AlarmFire, AlarmInv
  <2>3. QED
    BY <2>1, <2>2
<1>5. CASE AlarmDeleteRoom
  BY <1>5 DEF AlarmDeleteRoom, AlarmInv, TypeOK
<1>6. CASE AlarmDeleteFails
  <2>1. /\ UNCHANGED <<room, clock>> /\ alarm' = clock + DeleteRetry /\ pc' = "idle"
        /\ room.exists => now >= ExpiresAt
        /\ now = clock /\ clock \in Nat /\ DeleteRetry \in Nat
    BY <1>6, DeliveryAssumption DEF AlarmDeleteFails, DeliveryInv, HandlerIsCurrent, TypeOK
  <2>2. clock + DeleteRetry <= clock + DeleteRetry /\ clock + DeleteRetry # NoAlarm
    BY <2>1 DEF NoAlarm
  <2>3. alarm' # NoAlarm /\ (room.exists => DeletedSoon')
    BY <2>1, <2>2 DEF DeletedSoon, ExpiresAt
  <2>4. QED
    BY <2>1, <2>3 DEF AlarmInv
<1>7. CASE AlarmNothingDue
  <2>1. UNCHANGED <<room, outbox, letters, clock, alarm>> /\ pc' = "idle"
        /\ pc = "reconciled"
    BY <1>7 DEF AlarmNothingDue
  <2>2. Covered => Covered'
    BY <2>1 DEF Covered, WakeTimes, ExpiresAt
  <2>3. QED
    BY <2>1, <2>2 DEF AlarmInv
<1>8. CASE AlarmDispatch
  <2>1. PICK row \in outbox :
          alarm' = Lesser(now + Watchdog, Lesser(Deadline(row), ExpiresAt))
    BY <1>8 DEF AlarmDispatch
  <2>2. now = clock /\ clock' = clock /\ clock \in Nat /\ pc' = "awaiting"
    BY <1>8 DEF AlarmDispatch, DeliveryInv, HandlerIsCurrent, TypeOK
  <2>3. /\ Watchdog \in Nat /\ Deadline(row) \in Nat /\ ExpiresAt \in Nat
    <3>1. row.payload \in Payload /\ room.updatedAt \in Nat
      BY DEF TypeOK
    <3>2. /\ Watchdog \in Nat /\ OutboxDeadline \in Nat /\ RoomIdleTTL \in Nat
          /\ row.payload.created \in Nat
      BY <3>1, DeliveryAssumption, OutboxAssumption DEF Payload
    <3>3. QED
      BY <3>1, <3>2 DEF Deadline, ExpiresAt
  <2>4. ASSUME NEW a \in Nat, NEW b \in Nat, NEW c \in Nat
        PROVE  Lesser(a, Lesser(b, c)) <= a /\ Lesser(a, Lesser(b, c)) # NoAlarm
    BY DEF Lesser, NoAlarm
  <2>5. alarm' # NoAlarm /\ Watched'
    BY <2>1, <2>2, <2>3, <2>4 DEF Watched
  <2>6. QED
    BY <2>2, <2>5 DEF AlarmInv
<1>9. ASSUME \/ \E request \in requests, delivered \in BOOLEAN :
                  DatabaseExecute(request, delivered) \/ DatabaseRefuse(request, delivered)
             \/ DatabaseError
             \/ \E receipt \in receipts : DeleteExpiredReceipt(receipt)
             \/ Tick
             \/ UNCHANGED vars
      PROVE  AlarmInv'
  <2>1. UNCHANGED <<room, outbox, letters, alarm, awake>>
    BY <1>9 DEF DatabaseExecute, DatabaseRefuse, DatabaseError, DeleteExpiredReceipt, Tick, vars
  <2>2. pc' = pc \/ (pc = "awaiting" /\ pc' = "answered")
    <3>1. ASSUME NEW request, NEW result, NEW delivered, Reply(request, result, delivered)
          PROVE  pc' = pc \/ (pc = "awaiting" /\ pc' = "answered")
      BY <3>1 DEF Reply, IsCurrent
    <3>2. ASSUME NEW request, NEW delivered,
                 DatabaseExecute(request, delivered) \/ DatabaseRefuse(request, delivered)
          PROVE  \E result : Reply(request, result, delivered)
      BY <3>2 DEF DatabaseExecute, DatabaseRefuse
    <3>3. ASSUME \/ DatabaseError
                 \/ \E receipt \in receipts : DeleteExpiredReceipt(receipt)
                 \/ Tick
                 \/ UNCHANGED vars
          PROVE  pc' = pc \/ (pc = "awaiting" /\ pc' = "answered")
      BY <3>3 DEF DatabaseError, DeleteExpiredReceipt, Tick, vars
    <3>4. QED
      BY <1>9, <3>1, <3>2, <3>3
  <2>3. clock' = clock \/ clock' = clock + 1
    BY <1>9 DEF DatabaseExecute, DatabaseRefuse, DatabaseError, DeleteExpiredReceipt, Tick, vars
  <2>4. clock' \in Nat /\ clock <= clock'
    BY <2>3 DEF TypeOK
  <2>5. QED
    BY <2>1, <2>2, <2>4, AlarmKept
<1>10. QED
  BY <1>1, <1>2, <1>3, <1>4, <1>5, <1>6, <1>7, <1>8, <1>9 DEF Next, AlarmStep

(* Whatever ends a step of the room, a room that waits has an alarm, no    *)
(* later than the first thing due (reconcileRoomAlarm and its callers).    *)
THEOREM WorkIsCovered == Spec => []AlarmCoversWork
<1>1. AlarmInv => AlarmCoversWork
  BY DEF AlarmInv, AlarmCoversWork, Covered, DeletedSoon, Watched
<1>2. TypeOK /\ DeliveryInv /\ TypeOK' /\ DeliveryInv' /\ AlarmInv /\ [Next]_vars => AlarmInv'
  BY AlarmNext
<1>3. QED
  BY <1>1, <1>2, InitAlarm, DeliveryInvariant, PTL DEF Spec

-----------------------------------------------------------------------------
(* Milestone delivery implements the abstract specification: every step of *)
(* the room, the platform or the database is a step of MilestoneDelivery   *)
(* or leaves its variables unchanged.                                      *)

LEMMA InitImplements == Init => Abstract!Init
  BY DEF Init, Abstract!Init

(* A group that enters the queue is later than every event before it.      *)
LEMMA GroupImplements ==
  ASSUME TypeOK, DeliveryInv, NEW count \in 1 .. 2, NEW life \in Nat,
         QueueGroup(count, life), UNCHANGED effects
  PROVE  Abstract!Next
<1> DEFINE ids == FreshIds(count)
<1>1. /\ ids \subseteq EventIds
      /\ settled' = [i \in EventIds |-> IF i \in ids THEN "queued" ELSE settled[i]]
  BY DEF QueueGroup
<1>2. \A i \in ids : i \in Nat /\ nextId <= i
  BY DEF FreshIds, TypeOK
<1>3. ids # {}
  <2>1. nextId \in ids
    BY DEF FreshIds, TypeOK
  <2>2. QED
    BY <2>1
<1>4. ASSUME NEW i \in ids
      PROVE  settled[i] = "none" /\ \A f \in EventIds : settled[f] # "none" => f < i
  <2>1. i \in EventIds /\ i \in Nat /\ nextId \in Nat /\ nextId <= i
    BY <1>1, <1>2 DEF TypeOK
  <2>2. settled[i] = "none"
    BY <2>1, Numbered
  <2>3. \A f \in EventIds : settled[f] # "none" => f < i
    BY <2>1, Numbered, EventIdsAreNat
  <2>4. QED
    BY <2>2, <2>3
<1>5. Abstract!Accept(ids)
  BY <1>1, <1>3, <1>4 DEF Abstract!Accept, Abstract!Set
<1>6. QED
  BY <1>1, <1>5 DEF Abstract!Next

LEMMA HeadIsOldest ==
  ASSUME TypeOK, DeliveryInv, NEW row \in outbox, IsHead(row, outbox)
  PROVE  row.id \in EventIds /\ Abstract!IsOldest(row.id)
<1>1. row.id \in EventIds /\ settled[row.id] = "queued"
  BY HeadType DEF DeliveryInv, QueueIsExact
<1>2. ASSUME NEW f \in EventIds, f < row.id PROVE settled[f] # "queued"
  <2>1. f \in Nat /\ row.id \in Nat
    BY <1>1, EventIdsAreNat
  <2>2. QED
    BY <1>2, <2>1 DEF DeliveryInv, QueueIsExact, IsHead
<1>3. QED
  BY <1>1, <1>2 DEF Abstract!IsOldest

LEMMA DeadLetterImplements ==
  ASSUME TypeOK, DeliveryInv, NEW row \in outbox, IsHead(row, outbox), NEW why,
         DeadLetterRow(row, why)
  PROVE  Abstract!Next
<1>1. row.id \in EventIds /\ Abstract!IsOldest(row.id)
  BY HeadIsOldest
<1>2. settled' = [settled EXCEPT ![row.id] = "dead-lettered"] /\ effects' = effects
  BY DEF DeadLetterRow, databaseVars
<1>3. Abstract!GiveUp(row.id)
  BY <1>1, <1>2 DEF Abstract!GiveUp, Abstract!Set, TypeOK
<1>4. QED
  BY <1>1, <1>3 DEF Abstract!Next

LEMMA ExecuteImplements ==
  ASSUME TypeOK, DeliveryInv, NEW request \in requests, NEW delivered \in BOOLEAN,
         DatabaseExecute(request, delivered)
  PROVE  Abstract!Next \/ UNCHANGED Abstract!vars
<1>1. UNCHANGED settled
  BY DEF DatabaseExecute, historyVars
<1>2. CASE Classify(receipts, request.id) = "applied"
  <2>1. effects' = [effects EXCEPT ![request.id] = @ + 1] /\ effects[request.id] = 0
    BY <1>2, FirstExecution DEF DatabaseExecute
  <2>2. /\ request.id \in EventIds /\ request.id < nextId
        /\ \A f \in EventIds : f < request.id => settled[f] # "queued"
    BY DEF TypeOK, Request, DeliveryInv, RequestsAreTimely
  <2>3. settled[request.id] # "none"
    BY <2>2, Numbered
  <2>4. effects' = [effects EXCEPT ![request.id] = 1]
    BY <2>1, <2>2 DEF TypeOK
  <2>5. Abstract!Apply(request.id)
    BY <1>1, <2>1, <2>2, <2>3, <2>4 DEF Abstract!Apply
  <2>6. QED
    BY <2>2, <2>5 DEF Abstract!Next
<1>3. CASE Classify(receipts, request.id) # "applied"
  BY <1>1, <1>3 DEF DatabaseExecute, Abstract!vars
<1>4. QED
  BY <1>2, <1>3

LEMMA NextImplements ==
  TypeOK /\ DeliveryInv /\ [Next]_vars => [Abstract!Next]_Abstract!vars
<1> SUFFICES ASSUME TypeOK, DeliveryInv, [Next]_vars
             PROVE  Abstract!Next \/ UNCHANGED Abstract!vars
  OBVIOUS
<1> USE DEF roomVars, handlerVars, databaseVars, historyVars, Abstract!vars
<1>1. CASE CreateRoom
  <2>1. 1 \in 1 .. 2 /\ lifetime + 1 \in Nat
    BY DEF TypeOK
  <2>2. QED
    BY <1>1, <2>1, GroupImplements DEF CreateRoom
<1>2. ASSUME NEW count \in 1 .. 2, QueueMilestones(count)
      PROVE  Abstract!Next
  <2>1. lifetime \in Nat
    BY DEF TypeOK
  <2>2. QED
    BY <1>2, <2>1, GroupImplements DEF QueueMilestones
<1>3. CASE AlarmDeleteRoom
  <2>1. Abstract!Discard
    BY <1>3 DEF AlarmDeleteRoom, Abstract!Discard, Abstract!Set, TypeOK
  <2>2. QED
    BY <2>1 DEF Abstract!Next
<1>4. CASE AlarmDeadLetterHead
  BY <1>4, DeadLetterImplements DEF AlarmDeadLetterHead
<1>5. CASE AlarmAcknowledge
  <2>1. held \in outbox /\ IsHead(held, outbox)
    BY <1>5, HeldIsQueued DEF AlarmAcknowledge
  <2>2. held.id \in EventIds /\ Abstract!IsOldest(held.id)
    BY <2>1, HeadIsOldest
  <2>3. effects[held.id] = 1
    BY <1>5 DEF AlarmAcknowledge, DeliveryInv, HandlerIsCurrent
  <2>4. settled' = [settled EXCEPT ![held.id] = "acknowledged"] /\ UNCHANGED effects
    BY <1>5, <2>1 DEF AlarmAcknowledge
  <2>5. Abstract!Acknowledge(held.id)
    BY <2>2, <2>3, <2>4 DEF Abstract!Acknowledge, Abstract!Set, TypeOK
  <2>6. QED
    BY <2>2, <2>5 DEF Abstract!Next
<1>6. CASE AlarmGiveUp
  <2>1. held \in outbox /\ IsHead(held, outbox)
    BY <1>6, HeldIsQueued DEF AlarmGiveUp
  <2>2. QED
    BY <1>6, <2>1, DeadLetterImplements DEF AlarmGiveUp
<1>7. ASSUME NEW request \in requests, NEW delivered \in BOOLEAN,
             DatabaseExecute(request, delivered)
      PROVE  Abstract!Next \/ UNCHANGED Abstract!vars
  BY <1>7, ExecuteImplements
<1>8. ASSUME \/ \E count \in 1 .. 2, canonical \in BOOLEAN :
                  DropMilestones(count, canonical)
             \/ \E touched \in SaveKinds : SaveRoom(touched)
             \/ Wake \/ Evict \/ AlarmFire \/ AlarmDeleteFails \/ AlarmReconcile
             \/ AlarmNothingDue \/ AlarmDispatch \/ AlarmRetry
             \/ \E request \in requests, delivered \in BOOLEAN :
                  DatabaseRefuse(request, delivered)
             \/ DatabaseError
             \/ \E receipt \in receipts : DeleteExpiredReceipt(receipt)
             \/ Tick
             \/ UNCHANGED vars
      PROVE  UNCHANGED Abstract!vars
  BY <1>8 DEF DropMilestones, SaveRoom, Wake, Evict, AlarmFire, AlarmDeleteFails,
              AlarmReconcile, AlarmNothingDue, AlarmDispatch, AlarmRetry,
              DatabaseRefuse, DatabaseError, DeleteExpiredReceipt, Tick, vars
<1>9. QED
  BY <1>1, <1>2, <1>3, <1>4, <1>5, <1>6, <1>7, <1>8 DEF Next, AlarmStep

(* Delivery implements its abstract specification.                         *)
THEOREM DeliveryImplements == Spec => ImplementsDelivery
<1>1. Spec => [](TypeOK /\ DeliveryInv)
  BY DeliveryInvariant
<1>2. QED
  BY <1>1, InitImplements, NextImplements, PTL DEF Spec, ImplementsDelivery, Abstract!Spec

=============================================================================
