----------------------- MODULE RoomMilestoneProperties -----------------------
(***************************************************************************)
(* What must hold of milestone delivery, whatever is lost, late, repeated  *)
(* or interrupted.                                                         *)
(***************************************************************************)
EXTENDS RoomMilestoneDelivery

(* Both local tables stay within their capacity (enqueueRoomMilestones,    *)
(* capDeadLetters).                                                        *)
TablesBounded ==
  /\ Cardinality(outbox) <= Capacity
  /\ Cardinality(letters) <= DeadLetterCapacity

(* An event is added to the daily counters at most once, although it is    *)
(* sent again after every crash and every lost answer, and although its    *)
(* receipt is deleted after 90 days (receiveRoomMilestone, alarm).         *)
AppliedAtMostOnce == \A i \in EventIds : effects[i] <= 1

(* An event the room has acknowledged has been applied: no reply, late     *)
(* request or cleanup makes the room forget an event that never reached    *)
(* the database (finalizeMilestoneAcknowledgement).                        *)
AcknowledgedIsApplied ==
  \A i \in EventIds : settled[i] = "acknowledged" => effects[i] = 1

(* While an event is queued no later one has been applied: the head blocks *)
(* the queue through retries, crashes and requests that are executed late  *)
(* (readRoomMilestoneOutboxHead).                                          *)
NoOvertaking ==
  \A i, j \in EventIds : i < j /\ effects[j] > 0 => settled[i] # "queued"

(* The row the handler holds while it waits for D1 is still the head of    *)
(* the queue, unchanged, whatever requests wrote meanwhile: the finalizers *)
(* never lose their compare-and-swap (room_milestone_outbox_retry_stale).  *)
HeldRowIsHead == pc \in {"awaiting", "answered"} => IsHead(held, outbox)

(* Every event counts once, in its order and only when it was applied, out *)
(* of tables that keep their bounds and whose row under way keeps its      *)
(* place.                                                                  *)
QueueIsSteady ==
  /\ TablesBounded /\ HeldRowIsHead
  /\ AppliedAtMostOnce /\ AcknowledgedIsApplied /\ NoOvertaking

(* The room fact is that of the latest event applied for that lifetime,    *)
(* although a request may be executed after the room has given it up and   *)
(* moved on (RECEIPT_GATED_ROOM_FACT_SQL).                                 *)
FactIsLatestApplied ==
  FactKeyConfigured =>
    \A i \in EventIds :
      effects[i] > 0 =>
        LET fact == facts[event[i].lifetime]
        IN  \/ fact.observedAt > event[i].created
            \/ /\ fact.observedAt = event[i].created
               /\ fact.version >= event[i].version

(* Whenever no handler runs, an existing room has an alarm, and it is set  *)
(* no later than the first time something is due: no save, retry, failed   *)
(* delete or eviction leaves the queue or the room without a wake-up.  An  *)
(* evicted object may have to wait for the watchdog (reconcileRoomAlarm    *)
(* and its callers).                                                       *)
AlarmCoversWork ==
  room.exists /\ pc = "idle" =>
    /\ alarm # NoAlarm
    /\ \A due \in WakeTimes :
         \/ alarm <= Greater(due, clock + AlarmMinDelay)
         \/ clock >= ExpiresAt /\ alarm <= clock + DeleteRetry
         \/ ~ awake /\ alarm <= clock + Watchdog

\* What a handler and the platform may add to a time that sets the alarm.
WakeSlack == AlarmMinDelay + AlarmLag

(* "A local outbox event has a seven-day hard deadline"                    *)
(* (docs/PRODUCTION_OPERATIONS.md:852): no event is still queued when its  *)
(* deadline, and the time to settle a full queue, have passed; an object   *)
(* evicted at the wrong moment waits for the watchdog besides.             *)
HardDeadline ==
  \A i \in EventIds :
    settled[i] = "queued" =>
      clock <= event[i].created + OutboxDeadline + Capacity * WakeSlack + MaxFlight
                 + crashes * (Watchdog + AlarmLag)

(* Dead letters are kept "for at most 30 days"                             *)
(* (docs/PRODUCTION_OPERATIONS.md:855): until the room itself expires, the *)
(* alarm shared with the queue and the expiry purges each within the time  *)
(* a full table takes.  After that they go with the room, which a failing  *)
(* deleteAll may delay.                                                    *)
LettersExpire ==
  room.exists /\ clock < ExpiresAt =>
    \A d \in letters :
      clock <= PurgeAt(d) + DeadLetterCapacity * WakeSlack + MaxFlight
               + crashes * (Watchdog + AlarmLag)

(* The deletion of an idle room never takes queued events with it: each is *)
(* settled by its deadline, well before the room expires ("Normally every  *)
(* queued event reaches its seven-day terminal deadline well before this   *)
(* point", cloudflare/worker.ts:301).                                      *)
ExpiryDiscardsNothing == \A i \in EventIds : settled[i] # "discarded"

(* Nothing stays in the room longer than it is promised to, and nothing    *)
(* queued is deleted with it.                                              *)
DeadlinesHold == HardDeadline /\ LettersExpire /\ ExpiryDiscardsNothing

(* An enqueued event does not stay queued for ever: it is acknowledged or  *)
(* dead-lettered even if every request to D1 fails (alarm).                *)
QueuedEventSettles ==
  \A i \in EventIds : settled[i] = "queued" ~> settled[i] # "queued"

(* Delivery implements the abstract specification of MilestoneDelivery:    *)
(* at most once, in order, acknowledged only when applied.                 *)
Abstract == INSTANCE MilestoneDelivery
              WITH Event <- EventIds, status <- settled, applied <- effects
ImplementsDelivery == Abstract!Spec

=============================================================================
