--------------------------- MODULE RollbackDrill ---------------------------
(***************************************************************************)
(* scripts/drill-staging-outbox-rollback.mjs: does a row that was pending  *)
(* when Release A was rolled back to still reach D1?                       *)
(*                                                                         *)
(* "prepare" has Release B (the candidate) create a room and deliver its   *)
(* create, waits until the operator activates a version without a          *)
(* database (the fault), joins the room under it, and takes a checkpoint   *)
(* once the join's row is proved to be pending.  "verify" waits for the    *)
(* rollback, proves that Release A drains that row, and creates one more   *)
(* room as a control.  What a phase knows of the site it reads one         *)
(* request at a time: which version is deployed, the counters of D1, the   *)
(* traces of a tail.                                                       *)
(*                                                                         *)
(* Here a read bracketed by two checks of the deployment is one step.  A   *)
(* wait that goes on, or a poll that will be repeated, is no step; the     *)
(* bound on its attempts is Abort's, like every other failure.             *)
(***************************************************************************)
EXTENDS StagingSite

CONSTANT MaxPhases  \* bound: phases started

ASSUME PhasesAssumption == MaxPhases \in Nat

VARIABLES
  pc,          \* what the phase that runs does next; "idle" when none runs
  base,        \* the counters it compares with
  proof,       \* whose traces it takes for the seeded room's (proofDigest)
  faultId,     \* the fault deployment it follows
  mark,        \* history: noise when prepare first read the counters
  checkpoint,  \* the checkpoint file, with the history it was written under
  started      \* phases started

memory == <<base, proof, faultId, mark, tail>>
files == <<config, checkpoint>>
vars == <<siteVars, tail, pc, base, proof, faultId, mark, checkpoint, started>>

NoCheckpoint == [state |-> "none"]
Checkpoint(state) ==
  [state |-> state, base |-> base, proof |-> proof, at |-> faultId, mark |-> mark]

Init ==
  /\ SiteInit
  /\ pc = "idle" /\ base = Zero /\ proof = "none" /\ faultId = 0 /\ mark = 0
  /\ checkpoint = NoCheckpoint /\ started = 0

---------------------------------------------------------------------------
\* The fault version is the candidate without its database, and nothing else
\* (assertReceiverFaultVersionDiff); Release A is pinned.
FaultIsReviewed == uploaded = [Candidate EXCEPT !.db = FALSE]

\* What the status page tells of the version that answered.
CandidateIsHealthy == Resources(outer).mode = "outbox" /\ Resources(outer).db
RollbackIsHealthy == Resources(outer).mode = "best-effort" /\ Resources(outer).db
ReceiverFails == ~Resources(outer).db

SameDeployment == Alone("fault") /\ deployment = faultId
Unchanged == counts = base
Reached(delta) == counts = Plus(base, delta)
Overlapped(delta) ==
  \E f \in Fields : counts[f] < base[f] \/ counts[f] > base[f] + delta[f]

---------------------------------------------------------------------------
\* What the traces of a tail prove.
Docs == DOMAIN tail.docs
Is(i, who, what) == tail.docs[i].who = who /\ tail.docs[i].what = what

AttachmentSeen == \E i \in Docs : tail.docs[i].what = "head"
StateSeen == \E i \in Docs : Is(i, proof, "state")

\* findCandidateSeedProof: one create, and one clean alarm of the same object
\* after it.
Creates == {i \in Docs : tail.docs[i].what = "create"}
RetryLogged == \E i \in Docs : tail.docs[i].what = "alarm" /\ tail.docs[i].logs > 0
Acknowledgements ==
  {j \in Docs : \E i \in Creates : i < j /\ Is(j, tail.docs[i].who, "alarm")}
SeedRefuted ==
  \/ RetryLogged
  \/ Cardinality(Creates) > 1
  \/ Cardinality(Creates) = 1 /\ Cardinality(Acknowledgements) > 1
SeedProved(who) ==
  /\ ~SeedRefuted
  /\ \E i \in Creates : tail.docs[i].who = who
  /\ Acknowledgements # {}

\* findFaultSeededJoinProof: a state read, the one join, and the retries of
\* its delivery from the first on, all of the proved object and in this order.
Posts == {i \in Docs : tail.docs[i].what \in {"create", "join"}}
Retries == {i \in Docs : Is(i, proof, "alarm") /\ tail.docs[i].logs > 0}
\* Slip: the deadline's traces are searched for the join alone.
JoinTraced_NoRetry == StateSeen /\ Posts # {}
JoinTraced == StateSeen /\ Posts # {} /\ Retries # {}
InOrder ==
  /\ \E s \in Docs : Is(s, proof, "state") /\ \A j \in Posts : s < j
  /\ \A j \in Posts, r \in Retries : j < r
  /\ \A r \in Retries :
       tail.docs[r].logs = Cardinality({q \in Retries : q <= r})
JoinRefuted ==
  \/ \E i \in Posts : ~Is(i, proof, "join")
  \/ Cardinality(Posts) > 1
  \/ JoinTraced /\ ~InOrder
JoinProved == JoinTraced /\ ~JoinRefuted

\* hasRollbackTraceProof: the object's first alarm under Release A decides.
Alarms == {i \in Docs : Is(i, proof, "alarm")}
FirstAlarm(i) == i \in Alarms /\ \A j \in Alarms : i <= j
DrainRefuted == \E i \in Docs : FirstAlarm(i) /\ tail.docs[i].logs > 0
\* Slip: the counters alone decide.
DrainProved_ByCounters == TRUE
DrainProved == \E i \in Docs : FirstAlarm(i) /\ tail.docs[i].logs = 0

---------------------------------------------------------------------------
\* The phase ends, and with its process everything it remembers.
Ends ==
  /\ pc' = "idle" /\ base' = Zero /\ proof' = "none" /\ faultId' = 0
  /\ mark' = 0 /\ tail' = NoTail

\* A check: the next step, or a failure.
Check(here, ok, there) ==
  /\ pc = here
  /\ IF ok THEN pc' = there /\ UNCHANGED memory ELSE Ends
  /\ UNCHANGED <<siteVars, checkpoint, started>>

\* A wait for one condition which another refutes.
Await(here, refuted, ok, there) ==
  /\ refuted \/ ok
  /\ Check(here, ~refuted, there)

\* pollForExactDelta under one version: the counters it ends with are the
\* next to compare with.
Poll(here, version, delta, there) ==
  /\ pc = here
  /\ \/ /\ ~Alone(version) \/ Overlapped(delta)
        /\ Ends
     \/ /\ Alone(version) /\ Reached(delta)
        /\ pc' = there /\ base' = counts
        /\ UNCHANGED <<proof, faultId, mark, tail>>
  /\ UNCHANGED <<siteVars, checkpoint, started>>

Attach(here, version, there) ==
  /\ pc = here /\ pc' = there
  /\ tail' = [version |-> version, docs |-> <<>>]
  /\ UNCHANGED <<siteVars, base, proof, faultId, mark, checkpoint, started>>

---------------------------------------------------------------------------
MakeFaultConfig ==
  /\ pc = "idle" /\ ~config
  /\ config' = TRUE
  /\ UNCHANGED <<uploaded, deployed, deployment, outer, object, roomVars,
                 background, counts, applied, noise, failures, repeats,
                 memory, pc, checkpoint, started>>

---------------------------------------------------------------------------
(* prepare *)

StartPrepare ==
  /\ pc = "idle" /\ started < MaxPhases /\ started' = started + 1
  /\ checkpoint = NoCheckpoint /\ Alone("candidate") /\ FaultIsReviewed
  /\ pc' = "readiness"
  /\ UNCHANGED <<siteVars, memory, checkpoint>>

Readiness == Check("readiness", CandidateIsHealthy, "before")

ReadBefore ==
  /\ pc = "before"
  /\ IF Alone("candidate")
     THEN /\ base' = counts /\ mark' = noise /\ pc' = "attachSeed"
          /\ UNCHANGED <<proof, faultId, tail>>
     ELSE Ends
  /\ UNCHANGED <<siteVars, checkpoint, started>>

AttachSeed == Attach("attachSeed", "candidate", "readySeed")
ReadySeed == Check("readySeed", Alone("candidate") /\ Unchanged, "probe")

\* A HEAD request, repeated until the tail shows a trace of one.
Probe ==
  /\ pc = "probe"
  /\ IF Alone("candidate")
     THEN /\ pc' = "probed" /\ Emit(outer, Trace("other", "head", 0))
          /\ UNCHANGED <<base, proof, faultId, mark>>
     ELSE Ends
  /\ UNCHANGED <<siteVars, checkpoint, started>>

Probed ==
  /\ pc = "probed"
  /\ IF ~Alone("candidate") \/ RetryLogged THEN Ends
     ELSE /\ pc' = IF AttachmentSeen THEN "readyAgain" ELSE "probe"
          /\ UNCHANGED memory
  /\ UNCHANGED <<siteVars, checkpoint, started>>

ReadyAgain == Check("readyAgain", Alone("candidate") /\ Unchanged, "seed")

\* A room whose object produces no row leaves its milestone to the Worker in
\* front, which writes it in the background if it has the database.
Produces(version) == Resources(version).mode = "outbox"
Background(event, version) ==
  IF Produces(version)
  THEN IF event = "control" THEN {[event |-> event, how |-> "receipt"]} ELSE {}
  ELSE IF Resources(outer).db THEN {[event |-> event, how |-> "legacy"]} ELSE {}

\* The seeded room is created; the room of an earlier drill is another room
\* from now on.
CreateSeed ==
  /\ pc = "seed" /\ pc' = "seedProof"
  /\ object' \in deployed \cup {outer}
  /\ room' = "created" /\ attempts' = 0
  /\ pending' = IF Produces(object') THEN <<"create">> ELSE <<>>
  /\ background' = Background("create", object')
  /\ applied' = [e \in Events |-> "no"]
  /\ drainedBy' = "none"
  /\ Emit(object', Trace("seed", "create", 0))
  /\ UNCHANGED <<config, uploaded, deployed, deployment, outer, counts, noise,
                 failures, repeats, base, proof, faultId, mark, checkpoint,
                 started>>

SeedProof ==
  /\ pc = "seedProof"
  /\ \/ SeedRefuted /\ Ends
     \/ \E who \in {"seed", "other"} :
          /\ SeedProved(who)
          /\ proof' = who /\ pc' = "seedDrain" /\ tail' = NoTail
          /\ UNCHANGED <<base, faultId, mark>>
  /\ UNCHANGED <<siteVars, checkpoint, started>>

SeedDrain == Poll("seedDrain", "candidate", CreateOnly, "guest")
Guest == Check("guest", Alone("candidate") /\ Unchanged, "attachFault")
AttachFault == Attach("attachFault", "fault", "readyFault")

\* "fault-observer-ready": from here on the operator may activate the fault.
ReadyFault == Check("readyFault", Alone("candidate") /\ Unchanged, "activation")

AwaitActivation ==
  /\ pc = "activation" /\ ~Alone("candidate")
  /\ IF Alone("fault")
     THEN /\ faultId' = deployment /\ pc' = "faultStatus"
          /\ UNCHANGED <<base, proof, mark, tail>>
     ELSE Ends
  /\ UNCHANGED <<siteVars, checkpoint, started>>

\* Routing may still answer with the candidate, but with nothing else.
FaultStatus ==
  Await("faultStatus", ~SameDeployment \/ RollbackIsHealthy, ReceiverFails,
        "faultSnapshot")

FaultSnapshot == Check("faultSnapshot", SameDeployment /\ Unchanged, "state")

\* GET /state of the seeded room, until the tail shows that its object runs
\* the fault version.
ReadState ==
  /\ pc = "state"
  /\ IF SameDeployment /\ room = "created"
     THEN /\ pc' = "stated" /\ Emit(object, Trace("seed", "state", 0))
          /\ UNCHANGED <<base, proof, faultId, mark>>
     ELSE Ends
  /\ UNCHANGED <<siteVars, checkpoint, started>>

Stated ==
  /\ pc = "stated"
  /\ IF ~SameDeployment THEN Ends
     ELSE /\ pc' = IF StateSeen THEN "beforeJoin" ELSE "state"
          /\ UNCHANGED memory
  /\ UNCHANGED <<siteVars, checkpoint, started>>

BeforeJoin == Check("beforeJoin", SameDeployment /\ Unchanged, "join")

Join ==
  /\ pc = "join"
  /\ IF SameDeployment
     THEN /\ pc' = "joined" /\ room' = "joined"
          /\ pending' = IF Produces(object) THEN Append(pending, "join") ELSE pending
          /\ background' = background \cup Background("join", object)
          /\ Emit(object, Trace("seed", "join", 0))
          /\ UNCHANGED <<attempts, drainedBy, base, proof, faultId, mark>>
     ELSE Ends /\ UNCHANGED <<roomVars, background>>
  /\ UNCHANGED <<config, uploaded, deployed, deployment, outer, object, counts,
                 applied, noise, failures, repeats, checkpoint, started>>

Joined == Check("joined", SameDeployment, "joinProof")
JoinProof == Await("joinProof", JoinRefuted, JoinProved, "settled")
Settled == Check("settled", SameDeployment /\ Unchanged, "settledAgain")
SettledAgain == Check("settledAgain", SameDeployment /\ Unchanged, "write")

\* The file is created, then written; an error removes it, a crash does not.
Write ==
  /\ pc = "write" /\ pc' = "writing"
  /\ checkpoint' = Checkpoint("torn")
  /\ UNCHANGED <<siteVars, memory, started>>

Written ==
  /\ pc = "writing"
  /\ \/ checkpoint' = Checkpoint("whole")
     \/ checkpoint' = NoCheckpoint
  /\ Ends
  /\ UNCHANGED <<siteVars, started>>

---------------------------------------------------------------------------
(* verify *)

StartVerify ==
  /\ pc = "idle" /\ started < MaxPhases /\ started' = started + 1
  /\ checkpoint.state = "whole" /\ Alone("fault") /\ FaultIsReviewed
  /\ pc' = "stillFault"
  /\ base' = checkpoint.base /\ proof' = checkpoint.proof /\ mark' = checkpoint.mark
  /\ UNCHANGED <<siteVars, faultId, tail, checkpoint>>

StillFault == Check("stillFault", Alone("fault") /\ Unchanged, "attachRollback")
AttachRollback == Attach("attachRollback", "rollback", "readyRollback")

\* "rollback-observer-ready": from here on the operator may roll back.
ReadyRollback ==
  Check("readyRollback", Alone("fault") /\ Unchanged, "awaitRollback")
AwaitRollback ==
  /\ ~Alone("fault")
  /\ Check("awaitRollback", Alone("rollback"), "rollbackStatus")
RollbackStatus == Check("rollbackStatus", RollbackIsHealthy, "joinDrain")

JoinDrain == Poll("joinDrain", "rollback", JoinOnly, "alarmProof")
AlarmProof == Await("alarmProof", DrainRefuted, DrainProved, "drained")
Drained == Check("drained", Alone("rollback") /\ Unchanged, "control")

CreateControl ==
  /\ pc = "control" /\ pc' = "controlDrain" /\ tail' = NoTail
  /\ \E version \in deployed \cup {outer} :
       background' = background \cup Background("control", version)
  /\ UNCHANGED <<config, uploaded, deployed, deployment, outer, object, roomVars,
                 counts, applied, noise, failures, repeats, base, proof, faultId,
                 mark, checkpoint, started>>

ControlDrain == Poll("controlDrain", "rollback", LegacyCreate, "removeCheckpoint")

RemoveCheckpoint ==
  /\ pc = "removeCheckpoint" /\ pc' = "removeConfig"
  /\ checkpoint' = NoCheckpoint
  /\ UNCHANGED <<siteVars, memory, started>>

RemoveConfig ==
  /\ pc = "removeConfig" /\ config' = FALSE
  /\ Ends
  /\ UNCHANGED <<uploaded, deployed, deployment, outer, object, roomVars,
                 background, counts, applied, noise, failures, repeats,
                 checkpoint, started>>

---------------------------------------------------------------------------
\* A request, a command or a wait failed, or the process died.
Abort ==
  /\ pc # "idle" /\ Ends
  /\ UNCHANGED <<siteVars, checkpoint, started>>

\* The operator resolves an earlier drill by hand.
OperatorClears ==
  /\ pc = "idle"
  /\ config' = FALSE /\ checkpoint' = NoCheckpoint
  /\ UNCHANGED <<uploaded, deployed, deployment, outer, object, roomVars,
                 background, counts, applied, noise, failures, repeats,
                 memory, pc, started>>

Site ==
  /\ SiteNext
  /\ UNCHANGED <<pc, base, proof, faultId, mark, checkpoint, started>>

Prepare ==
  \/ StartPrepare \/ Readiness \/ ReadBefore \/ AttachSeed \/ ReadySeed
  \/ Probe \/ Probed \/ ReadyAgain \/ CreateSeed \/ SeedProof \/ SeedDrain
  \/ Guest \/ AttachFault \/ ReadyFault \/ AwaitActivation \/ FaultStatus
  \/ FaultSnapshot \/ ReadState \/ Stated \/ BeforeJoin \/ Join \/ Joined
  \/ JoinProof \/ Settled \/ SettledAgain \/ Write \/ Written

Verify ==
  \/ StartVerify \/ StillFault \/ AttachRollback \/ ReadyRollback
  \/ AwaitRollback \/ RollbackStatus \/ JoinDrain \/ AlarmProof \/ Drained
  \/ CreateControl \/ ControlDrain \/ RemoveCheckpoint \/ RemoveConfig

Next ==
  \/ Site \/ MakeFaultConfig \/ Prepare \/ Verify \/ Abort \/ OperatorClears

Spec == Init /\ [][Next]_vars

---------------------------------------------------------------------------
\* A checkpoint means what it says for as long as the fault deployment it was
\* taken under lasts: the one row in the seeded room's outbox is its join,
\* D1 has not counted it, and the object that holds it has no database.  Only
\* foreign traffic during prepare can make the checkpoint one of another room.
PreparedRowIsPending ==
  checkpoint.state = "whole" /\ deployment = checkpoint.at =>
    /\ checkpoint.proof = "seed" =>
         /\ object = "fault"
         /\ pending = <<"join">> /\ attempts > 0 /\ applied["join"] = "no"
    /\ noise = checkpoint.mark => checkpoint.proof = "seed"

\* What verify concludes is true: with no foreign traffic since prepare first
\* read the counters, D1 counted the join through its outbox row and the
\* control without one; the row is gone, and Release A removed it.
VerifiedMeansDrained ==
  pc = "removeCheckpoint" =>
    /\ noise = mark =>
         applied["join"] = "receipt" /\ applied["control"] = "legacy"
    /\ proof = "seed" /\ repeats = 0 => pending = <<>> /\ drainedBy = "rollback"

=============================================================================
