------------------------ MODULE RoomMilestoneReceiver ------------------------
(***************************************************************************)
(* What one delivery does to the shared D1 database                        *)
(* (cloudflare/room-milestone-receiver.ts).  The five statements of the    *)
(* batch commit together, so a delivery is one step: it inserts a receipt  *)
(* keyed by the event id, and only a receipt inserted by this very batch   *)
(* lets it touch the room fact and the daily counters.                     *)
(***************************************************************************)
EXTENDS Integers

CONSTANT ReceiptRetention   \* the '+90 days' of RECEIPT_INSERT_SQL

ASSUME ReceiverAssumption == ReceiptRetention \in Nat \ {0}

\* own = FALSE is a receipt whose payload hash is not the one this event has.
Receipt == [id : Nat, own : BOOLEAN, receivedAt : Nat]

ReceiptsOf(receipts, id) == {r \in receipts : r.id = id}

Expired(receipt, at) == receipt.receivedAt + ReceiptRetention <= at

\* Slip: the batch does not look at an earlier receipt of the same event.
Classify_Ungated(receipts, id) ==
  IF \E r \in ReceiptsOf(receipts, id) : ~ r.own THEN "conflict" ELSE "applied"

\* classifyReceiptResults.  The outcome "invariant" of the code is the
\* database refusing the batch, an action of the environment.
Classify(receipts, id) ==
  CASE ReceiptsOf(receipts, id) = {} -> "applied"
    [] \E r \in ReceiptsOf(receipts, id) : ~ r.own -> "conflict"
    [] OTHER -> "duplicate"

NoFact == [observedAt |-> 0, version |-> 0]
Fact == [observedAt : Nat, version : Nat]

FactOf(payload) == [observedAt |-> payload.created, version |-> payload.version]

\* Slip: the fact is replaced by whatever arrives last.
Supersedes_Always(new, old) == new # old

\* The WHERE of the room_facts upsert.  Its exception for a newer "created"
\* never applies inside one lifetime: creation is the oldest event of a room.
Supersedes(new, old) ==
  \/ new.observedAt > old.observedAt /\ new.version >= old.version
  \/ new.observedAt = old.observedAt /\ new.version >= old.version

Upsert(facts, payload) ==
  IF Supersedes(FactOf(payload), facts[payload.lifetime])
  THEN [facts EXCEPT ![payload.lifetime] = FactOf(payload)]
  ELSE facts

=============================================================================
