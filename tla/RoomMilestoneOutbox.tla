------------------------- MODULE RoomMilestoneOutbox -------------------------
(***************************************************************************)
(* The two SQLite tables a room keeps for its undelivered milestones       *)
(* (cloudflare/room-milestone-outbox.ts), as operators over their          *)
(* contents.  A table is a set of rows; the AUTOINCREMENT sequence that    *)
(* orders the queue is the row's id.                                       *)
(*                                                                         *)
(* A row is [id, payload, attempts, next].  Its payload stands for the     *)
(* columns that never change after the INSERT: the canonical JSON and the  *)
(* creation time, from which the deadline is computed.                     *)
(***************************************************************************)
EXTENDS Integers, FiniteSets

CONSTANTS
  Capacity,             \* ROOM_MILESTONE_OUTBOX_CAPACITY
  DeadLetterCapacity,   \* ROOM_MILESTONE_DEAD_LETTER_CAPACITY
  PurgeBatch,           \* dead letters deleted by one alarm
  OutboxDeadline,       \* ROOM_MILESTONE_OUTBOX_DEADLINE_MS
  DeadLetterRetention,  \* ROOM_MILESTONE_DEAD_LETTER_RETENTION_MS
  MaxAttempts,          \* ROOM_MILESTONE_MAX_ATTEMPTS
  RetryDelays,          \* the jittered delays possible after each failure
  DropCountMax          \* ROOM_MILESTONE_DROP_COUNT_MAX

ASSUME OutboxAssumption ==
  /\ Capacity \in Nat \ {0}
  /\ DeadLetterCapacity \in Nat \ {0}
  /\ PurgeBatch \in Nat \ {0}
  /\ OutboxDeadline \in Nat \ {0}
  /\ DeadLetterRetention \in Nat \ {0}
  /\ MaxAttempts \in Nat \ {0}
  /\ RetryDelays \in [1 .. MaxAttempts -> SUBSET (Nat \ {0})]
  /\ DropCountMax \in Nat

Lesser(a, b) == IF a <= b THEN a ELSE b
Greater(a, b) == IF a >= b THEN a ELSE b

Payload == [created : Nat, version : Nat, lifetime : Nat]
Row == [id : Nat, payload : Payload, attempts : Nat, next : Nat]

DeadLetterReason ==
  {"conflict", "deadline-exceeded", "attempts-exhausted", "invalid-payload"}
\* The table keeps no event id; here it stands for the letter's own sequence,
\* which grows in the same order because only queue heads become letters.
DeadLetter == [id : Nat, reason : DeadLetterReason, failedAt : Nat]

Deadline(row) == row.payload.created + OutboxDeadline

\* readRoomMilestoneOutboxHead: ORDER BY sequence LIMIT 1.
IsHead(row, queue) ==
  /\ row \in queue
  /\ \A other \in queue : row.id <= other.id

\* The capacity check takes the whole group of events or none of it.
Fits(queue, count) == count <= Capacity - Cardinality(queue)

NewRows(ids, payload) ==
  {[id |-> i, payload |-> payload, attempts |-> 0, next |-> payload.created]
     : i \in ids}

CountDrops(drops, count) == Lesser(DropCountMax, drops + count)

\* Slip: the next attempt may come after the deadline.
Rescheduled_PastDeadline(row, failedAt, delay) ==
  [row EXCEPT !.attempts = @ + 1, !.next = failedAt + delay]

\* The row after a failed attempt that may be tried again.
Rescheduled(row, failedAt, delay) ==
  [row EXCEPT !.attempts = @ + 1,
              !.next = Lesser(Deadline(row), failedAt + delay)]

PurgeAt(letter) == letter.failedAt + DeadLetterRetention

Later(a, b) == a.failedAt > b.failedAt \/ (a.failedAt = b.failedAt /\ a.id > b.id)

\* capDeadLetters keeps the newest DeadLetterCapacity letters.
Newest(letters) ==
  {d \in letters :
     Cardinality({e \in letters : Later(e, d)}) < DeadLetterCapacity}

WithDeadLetter(letters, row, why, at) ==
  Newest(letters \cup {[id |-> row.id, reason |-> why, failedAt |-> at]})

\* purgeExpiredRoomMilestoneDeadLetters: the oldest due letters, one batch.
Purged(letters, at) ==
  LET due == {d \in letters : PurgeAt(d) <= at}
  IN  letters \ {d \in due :
                   Cardinality({e \in due : Later(d, e)}) < PurgeBatch}

\* The times readNextRoomMilestoneAlarmAt takes the minimum of: the head's
\* next attempt or deadline, and the purge time of the dead letters.
DueTimes(queue, letters) ==
  {Lesser(row.next, Deadline(row)) : row \in {r \in queue : IsHead(r, queue)}}
    \cup {PurgeAt(d) : d \in letters}

=============================================================================
