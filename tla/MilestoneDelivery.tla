-------------------------- MODULE MilestoneDelivery --------------------------
(***************************************************************************)
(* What milestone delivery promises, without tables, alarms, requests or   *)
(* time: every queued event is applied to the database at most once, in    *)
(* the order of the queue, and leaves the queue as acknowledged only when  *)
(* it has been applied.  It may also leave it unapplied, or applied        *)
(* without its room knowing, as a dead letter or with its room.            *)
(***************************************************************************)
EXTENDS Integers

CONSTANT Event      \* a set of integers, in the order of the queue

VARIABLES status, applied

vars == <<status, applied>>

Status == {"none", "queued", "acknowledged", "dead-lettered", "discarded"}

TypeOK ==
  /\ status \in [Event -> Status]
  /\ applied \in [Event -> Nat]

Init ==
  /\ status = [e \in Event |-> "none"]
  /\ applied = [e \in Event |-> 0]

Set(events, s) == [e \in Event |-> IF e \in events THEN s ELSE status[e]]

\* A group of new events, all later than those already accepted.
Accept(group) ==
  /\ group # {}
  /\ \A e \in group :
       /\ status[e] = "none"
       /\ \A f \in Event : status[f] # "none" => f < e
  /\ status' = Set(group, "queued")
  /\ UNCHANGED applied

\* An event reaches the database; nothing queued is older.
Apply(e) ==
  /\ status[e] # "none"
  /\ applied[e] = 0
  /\ \A f \in Event : f < e => status[f] # "queued"
  /\ applied' = [applied EXCEPT ![e] = 1]
  /\ UNCHANGED status

IsOldest(e) ==
  /\ status[e] = "queued"
  /\ \A f \in Event : f < e => status[f] # "queued"

Acknowledge(e) ==
  /\ IsOldest(e)
  /\ applied[e] = 1
  /\ status' = Set({e}, "acknowledged")
  /\ UNCHANGED applied

GiveUp(e) ==
  /\ IsOldest(e)
  /\ status' = Set({e}, "dead-lettered")
  /\ UNCHANGED applied

\* The room goes away with its queue.
Discard ==
  /\ status' = Set({e \in Event : status[e] = "queued"}, "discarded")
  /\ UNCHANGED applied

Next ==
  \/ \E group \in SUBSET Event : Accept(group)
  \/ \E e \in Event : Apply(e) \/ Acknowledge(e) \/ GiveUp(e)
  \/ Discard

Spec == Init /\ [][Next]_vars

=============================================================================
