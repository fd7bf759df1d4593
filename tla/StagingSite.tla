---------------------------- MODULE StagingSite ----------------------------
(***************************************************************************)
(* The staging site as the rollback drill meets it                         *)
(* (scripts/drill-staging-outbox-rollback.mjs): the deployed Worker        *)
(* versions, the seeded room's Durable Object with its outbox, the         *)
(* aggregate D1 counters, and the trace stream of a version-filtered tail. *)
(* Everybody else - other rooms, other people's deployments, the cleanup,  *)
(* midnight - acts on the same site between any two steps of the drill.    *)
(*                                                                         *)
(* Traces may be lost without notice but are not reordered.  Rooms other   *)
(* than the seeded one, those of earlier drills included, share the name   *)
(* "other".                                                                *)
(***************************************************************************)
EXTENDS Integers, Sequences, FiniteSets

CONSTANTS
  Uploads,         \* what may have been uploaded as the fault version
  MaxDeployments,  \* bound: deployments made
  MaxIncidents,    \* bound: foreign writes and traces, transient failures of
                   \* D1 and repeated alarms, taken together
  MaxRetries,      \* bound: failed attempts at the head of the room's outbox
  MaxDocs          \* bound: traces one tail receives

\* What the drill reads of a version: the script's etag, the delivery mode
\* and whether PLATFORM_DB is bound (assertReceiverFaultVersionDiff).
Resource == [script : {"A", "B"}, mode : {"outbox", "best-effort"}, db : BOOLEAN]
Candidate == [script |-> "B", mode |-> "outbox", db |-> TRUE]
Rollback == [script |-> "A", mode |-> "best-effort", db |-> TRUE]
NoUpload == [script |-> "none"]

ASSUME SiteAssumption ==
  /\ Uploads \subseteq Resource
  /\ {MaxDeployments, MaxIncidents, MaxRetries, MaxDocs} \subseteq Nat

VARIABLES
  config,      \* does the temporary receiver-fault configuration exist?
  uploaded,    \* the resources of the fault version
  deployed,    \* the versions of the current deployment: one, or a split
  deployment,  \* its number, which stands for the deployment id
  outer,       \* the version that answers public requests
  object,      \* the version the seeded room's object runs
  room,        \* the seeded room
  pending,     \* its outbox, oldest row first
  attempts,    \* failed attempts of the row at the head
  background,  \* what the drill's own rooms still have D1 write, and how
  counts,      \* the aggregate counters of D1
  applied,     \* how D1 came to count an event of the drill's rooms
  tail,        \* the tail the drill is attached to, and what it received
  noise, failures, repeats,  \* incidents so far
  drainedBy    \* history: the version that removed the join's row

roomVars == <<room, pending, attempts, drainedBy>>
siteVars == <<config, uploaded, deployed, deployment, outer, object, roomVars,
              background, counts, applied, noise, failures, repeats>>

Versions == {"candidate", "fault", "rollback"}
Resources(version) ==
  IF version = "candidate" THEN Candidate
  ELSE IF version = "rollback" THEN Rollback ELSE uploaded
Alone(version) == deployed = {version}

---------------------------------------------------------------------------
\* The seven counters of the drill's snapshot; "games" stands for the three
\* no step of the drill may move.
Fields == {"receipts", "facts", "created", "joined", "games"}
Counts == [Fields -> Int]
Ones(fields) == [f \in Fields |-> IF f \in fields THEN 1 ELSE 0]
Zero == Ones({})
Plus(a, b) == [f \in Fields |-> a[f] + b[f]]

CreateOnly == Ones({"receipts", "facts", "created"})
JoinOnly == Ones({"receipts", "joined"})
LegacyCreate == Ones({"facts", "created"})

Events == {"create", "join", "control"}
\* What an event adds, delivered with a receipt or recorded best-effort.
Effect(event, how) ==
  IF how = "no" THEN Zero
  ELSE IF event = "join"
       THEN IF how = "receipt" THEN JoinOnly ELSE Ones({"joined"})
       ELSE IF how = "receipt" THEN CreateOnly ELSE LegacyCreate

\* A second delivery finds the receipt of the first.
Apply(event, how) ==
  IF applied[event] = "no"
  THEN /\ applied' = [applied EXCEPT ![event] = how]
       /\ counts' = Plus(counts, Effect(event, how))
  ELSE UNCHANGED <<applied, counts>>

---------------------------------------------------------------------------
\* A trace of the tail, as projectTailDocument keeps it: the room it is of,
\* the request or alarm, and the attempt count of the one
\* room_milestone_outbox_retry_scheduled record it logged, 0 if it logged none.
Doc == [who : {"seed", "other"}, what : {"head", "create", "state", "join", "alarm"},
        logs : Nat]
Trace(who, what, logs) == [who |-> who, what |-> what, logs |-> logs]
NoTail == [version |-> "none", docs |-> <<>>]

\* The tail receives the traces of its own version, and may lose any.
Emit(version, doc) ==
  \/ UNCHANGED tail
  \/ /\ tail.version = version
     /\ Len(tail.docs) < MaxDocs
     /\ tail' = [tail EXCEPT !.docs = Append(@, doc)]

MoreIncidents == noise + failures + repeats < MaxIncidents

SiteInit ==
  /\ config = FALSE /\ uploaded = NoUpload
  /\ deployed = {"candidate"} /\ deployment = 1
  /\ outer = "candidate" /\ object = "candidate"
  /\ room = "none" /\ pending = <<>> /\ attempts = 0
  /\ background = {} /\ applied = [e \in Events |-> "no"]
  /\ counts = Ones(Fields) /\ tail = NoTail
  /\ noise = 0 /\ failures = 0 /\ repeats = 0
  /\ drainedBy = "none"

---------------------------------------------------------------------------
\* The operator's other shell uploads a fault version, once.
Upload ==
  /\ config /\ uploaded = NoUpload
  /\ uploaded' \in Uploads
  /\ UNCHANGED <<config, deployed, deployment, outer, object, roomVars,
                 background, counts, applied, tail, noise, failures, repeats>>

\* Somebody deploys a version, or splits the traffic between two.
Deploy ==
  /\ deployment < MaxDeployments
  /\ \E v, w \in Versions :
       /\ "fault" \in {v, w} => uploaded # NoUpload
       /\ deployed' = {v, w}
  /\ deployment' = deployment + 1
  /\ UNCHANGED <<config, uploaded, outer, object, roomVars, background, counts,
                 applied, tail, noise, failures, repeats>>

\* Routing and objects follow a deployment in their own time.
Converge ==
  /\ \/ outer' \in deployed /\ UNCHANGED object
     \/ object' \in deployed /\ UNCHANGED outer
  /\ UNCHANGED <<config, uploaded, deployed, deployment, roomVars, background,
                 counts, applied, tail, noise, failures, repeats>>

\* The object's alarm delivers the head of the outbox, under every version
\* that has the database (Release A keeps the alarm as its drain bridge).
AlarmDelivers ==
  /\ pending # <<>> /\ Resources(object).db
  /\ Apply(Head(pending), "receipt")
  /\ pending' = Tail(pending) /\ attempts' = 0
  /\ drainedBy' = IF Head(pending) = "join" THEN object ELSE drainedBy
  /\ Emit(object, Trace("seed", "alarm", 0))
  /\ UNCHANGED <<config, uploaded, deployed, deployment, outer, object, room,
                 background, noise, failures, repeats>>

\* It cannot without the database; with it an attempt may fail too, before
\* or after D1 committed.  The row stays, and the retry is logged.
AlarmFails ==
  /\ pending # <<>> /\ attempts < MaxRetries
  /\ attempts' = attempts + 1
  /\ Emit(object, Trace("seed", "alarm", attempts + 1))
  /\ IF Resources(object).db
     THEN /\ MoreIncidents /\ failures' = failures + 1
          /\ UNCHANGED <<applied, counts>> \/ Apply(Head(pending), "receipt")
     ELSE UNCHANGED <<failures, applied, counts>>
  /\ UNCHANGED <<config, uploaded, deployed, deployment, outer, object, room,
                 pending, drainedBy, background, noise, repeats>>

\* Alarms run at least once: another run finds no row, or one not due yet.
AlarmRepeats ==
  /\ MoreIncidents /\ repeats' = repeats + 1
  /\ room # "none" /\ (pending = <<>> \/ attempts > 0)
  /\ Emit(object, Trace("seed", "alarm", 0))
  /\ UNCHANGED <<config, uploaded, deployed, deployment, outer, object, roomVars,
                 background, counts, applied, noise, failures>>

\* What the Worker writes in the background is written or lost; a row of the
\* control room's outbox is delivered by that room's own alarm.
BackgroundSettles ==
  /\ \E write \in background :
       /\ background' = background \ {write}
       /\ \/ Apply(write.event, write.how)
          \/ write.how = "legacy" /\ UNCHANGED <<applied, counts>>
  /\ UNCHANGED <<config, uploaded, deployed, deployment, outer, object, roomVars,
                 tail, noise, failures, repeats>>

\* Another room's write, the cleanup of receipts and facts, or midnight, when
\* the counters of the day start again.
OtherWrites ==
  /\ MoreIncidents /\ noise' = noise + 1
  /\ \/ \E d \in {CreateOnly, JoinOnly, LegacyCreate, Ones({"games"})} :
          counts' = Plus(counts, d)
     \/ \E f \in {"receipts", "facts"} :
          counts[f] > 0 /\ counts' = [counts EXCEPT ![f] = @ - 1]
     \/ counts' = [f \in Fields |-> IF f \in {"receipts", "facts"} THEN counts[f] ELSE 0]
  /\ UNCHANGED <<config, uploaded, deployed, deployment, outer, object, roomVars,
                 background, applied, tail, failures, repeats>>

\* Another room's request or alarm, on the version the tail is filtered to.
OtherTraces ==
  /\ MoreIncidents /\ noise' = noise + 1
  /\ Len(tail.docs) < MaxDocs
  /\ \/ tail.version = outer \/ tail.version \in deployed
  /\ \E what \in {"head", "create", "state", "join", "alarm"}, logs \in 0 .. 1 :
       /\ what # "alarm" => logs = 0
       /\ tail' = [tail EXCEPT !.docs = Append(@, Trace("other", what, logs))]
  /\ UNCHANGED <<config, uploaded, deployed, deployment, outer, object, roomVars,
                 background, counts, applied, failures, repeats>>

SiteNext ==
  \/ Upload \/ Deploy \/ Converge
  \/ AlarmDelivers \/ AlarmFails \/ AlarmRepeats
  \/ BackgroundSettles \/ OtherWrites \/ OtherTraces

=============================================================================
