------------------------ MODULE RollbackDrillProofs ------------------------
(***************************************************************************)
(* Proofs about the rollback drill, for every set of uploads and every     *)
(* bound: what a checkpoint promises, and what a verified drill means.     *)
(*                                                                         *)
(* The argument follows the join's row.  A state trace of the seeded room  *)
(* under the fault version shows that its object runs that version, and    *)
(* goes on doing so until the next deployment.  The create's row was       *)
(* acknowledged or had failed before the join, so the first retry of a     *)
(* row is traced after the join only if it is the join's, at the head of   *)
(* the outbox.  From then on nothing but that row and the control room can *)
(* move the counters, unless somebody else does.                           *)
(***************************************************************************)
EXTENDS RollbackDrill, FiniteSetTheorems, NaturalsInduction,
        WellFoundedInduction, TLAPS

Hows == {"no", "receipt", "legacy"}
Write_ == [event : Events, how : {"receipt", "legacy"}]
Checkpoints ==
  {NoCheckpoint} \cup
  [state : {"torn", "whole"}, base : Counts, proof : {"none", "seed", "other"},
   at : Nat, mark : Nat]
Queues == {<<>>, <<"create">>, <<"join">>, <<"create", "join">>}

\* Where prepare is, in the order of its steps.
Opening == {"readiness", "before", "attachSeed"}
Seeding == {"readySeed", "probe", "probed", "readyAgain", "seed"}
Seeded == {"seedDrain", "guest", "attachFault"}
Waiting == {"readyFault", "activation", "faultStatus", "faultSnapshot"}
Barring == {"state", "stated"}
Joining == {"beforeJoin", "join"}
Retrying == {"joined", "joinProof"}
Settling == {"settled", "settledAgain"}
Writing == {"write", "writing"}
Unjoined == Seeded \cup Waiting \cup Barring \cup Joining
InPrepare ==
  Opening \cup Seeding \cup {"seedProof"} \cup Unjoined \cup Retrying
  \cup Settling \cup Writing

\* Where verify is.
Looking == {"stillFault", "attachRollback"}
Draining == {"readyRollback", "awaitRollback", "rollbackStatus", "joinDrain"}
Controlling == {"drained", "control"}
Ending == {"controlDrain", "removeCheckpoint"}
InVerify ==
  Looking \cup Draining \cup {"alarmProof"} \cup Controlling \cup Ending
  \cup {"removeConfig"}

TypeOK ==
  /\ config \in BOOLEAN /\ uploaded \in {NoUpload} \cup Uploads
  /\ deployed \in SUBSET Versions /\ deployment \in Nat
  /\ outer \in Versions /\ object \in Versions
  /\ room \in {"none", "created", "joined"}
  /\ pending \in Queues /\ attempts \in Nat
  /\ background \in SUBSET Write_
  /\ counts \in Counts /\ applied \in [Events -> Hows]
  /\ tail \in [version : Versions \cup {"none"}, docs : Seq(Doc)]
  /\ noise \in Nat /\ failures \in Nat /\ repeats \in Nat
  /\ drainedBy \in Versions \cup {"none"}
  /\ pc \in {"idle"} \cup InPrepare \cup InVerify
  /\ base \in Counts /\ proof \in {"none", "seed", "other"}
  /\ faultId \in Nat /\ mark \in Nat
  /\ checkpoint \in Checkpoints /\ started \in Nat

---------------------------------------------------------------------------
(* What the traces of the tail are about *)

SeedCreated == \E i \in Docs : Is(i, "seed", "create")
SeedAlarmed ==
  \E i, j \in Docs : i < j /\ Is(i, "seed", "create") /\ Is(j, "seed", "alarm")
ForeignSeen == \E i \in Docs : Is(i, "other", "create")
SeedStated == \E i \in Docs : Is(i, "seed", "state")
SeedJoined == \E i \in Docs : Is(i, "seed", "join")
JoinRetried ==
  \E i, j \in Docs : /\ i < j /\ Is(i, "seed", "join")
                     /\ Is(j, "seed", "alarm") /\ tail.docs[j].logs = 1
CleanAlarm == \E i \in Docs : Is(i, "seed", "alarm") /\ tail.docs[i].logs = 0

---------------------------------------------------------------------------
(* The inductive invariant *)

\* A phase runs only against the reviewed fault version, and a checkpoint is
\* there from the writing of it to the end of verify.
PhasesAreOrdered ==
  /\ pc # "idle" \/ checkpoint.state = "whole" => FaultIsReviewed
  /\ pc \in InPrepare /\ pc # "writing" => checkpoint = NoCheckpoint
  /\ checkpoint.state = "whole" => pc \notin InPrepare
  /\ pc \in InVerify \ {"removeConfig"} =>
       /\ checkpoint.state = "whole"
       /\ proof = checkpoint.proof /\ mark = checkpoint.mark
  /\ pc \in Looking \cup Draining => base = checkpoint.base

\* Which tail is attached, and what it cannot have received yet.
TailIsOfPhase ==
  /\ tail.version = "none" => tail.docs = <<>>
  /\ pc \in {"idle"} \cup Opening \cup Seeded \cup Looking \cup Ending \cup {"removeConfig"}
       => tail = NoTail
  /\ pc \in Seeding \cup {"seedProof"} => tail.version = "candidate"
  /\ pc \in Seeding => ~SeedCreated
  /\ pc \in Waiting \cup Barring \cup Joining \cup Retrying \cup Settling \cup Writing
       => tail.version = "fault"
  /\ pc \in Waiting => ~SeedStated
  /\ pc \in Waiting \cup Barring \cup Joining => ~SeedJoined
  /\ pc \in Draining \cup {"alarmProof"} \cup Controlling => tail.version = "rollback"

\* Without foreign traffic the traces of a create are the drill's own.
ProofIsSeeds ==
  /\ mark <= noise
  /\ pc \in Seeding \cup {"seedProof"} /\ ForeignSeen => mark < noise
  /\ pc \in Unjoined \cup Retrying \cup Settling \cup Writing =>
       proof = "seed" \/ mark < noise
  /\ checkpoint.state = "whole" =>
       /\ checkpoint.mark <= noise
       /\ checkpoint.proof = "seed" \/ checkpoint.mark < noise

\* The fault deployment that is followed is the current one, or is over.
FollowsDeployment ==
  /\ pc \in {"faultStatus", "faultSnapshot"} \cup Barring \cup Joining \cup Retrying
            \cup Settling \cup Writing
       => faultId <= deployment /\ (deployment = faultId => Alone("fault"))
  /\ checkpoint.state = "whole" =>
       checkpoint.at <= deployment /\ (deployment = checkpoint.at => Alone("fault"))

\* The seeded room before its join.
SeedIsOwn ==
  /\ pc \in {"seedProof"} \cup Unjoined =>
       /\ room = "created" /\ pending \in {<<>>, <<"create">>}
       /\ applied["join"] = "no" /\ applied["control"] = "no"
       /\ \A write \in background : write.event = "create"
  /\ pc = "seedProof" =>
       /\ SeedCreated => background = {}
       /\ SeedAlarmed => pending = <<>> \/ attempts > 0
  /\ pc \in Unjoined /\ proof = "seed" =>
       background = {} /\ (pending = <<>> \/ attempts > 0)

\* The object runs the fault version once a trace has shown it.
ObjectIsFault ==
  deployment = faultId =>
    /\ pc \in Barring /\ SeedStated => object = "fault"
    /\ pc \in Joining \cup Retrying \cup Settling \cup Writing /\ proof = "seed"
         => object = "fault"

RowIsPending == pending = <<"join">> /\ attempts > 0 /\ applied["join"] = "no"

\* The join's row waits: behind the create's that failed before, or alone.
JoinWaits ==
  deployment = faultId /\ proof = "seed" =>
    /\ pc \in Retrying =>
         /\ applied["join"] = "no" /\ applied["control"] = "no" /\ background = {}
         /\ \/ pending = <<"join">>
            \/ pending = <<"create", "join">> /\ attempts > 0
         /\ JoinRetried => RowIsPending
    /\ pc \in Settling => RowIsPending /\ background = {} /\ applied["control"] = "no"
    /\ pc \in Writing => RowIsPending

\* From the settled counters on, only the join's row and the control room
\* move them.
Anchored(counters, foreign) ==
  /\ pending \in {<<>>, <<"join">>}
  /\ \A write \in background : write.event = "control"
  /\ noise = foreign =>
       \A f \in Fields :
         counts[f] = counters[f] + Effect("join", applied["join"])[f]
                     + Effect("control", applied["control"])[f]

CountersAreAnchored ==
  /\ pc \in Writing /\ proof = "seed" => Anchored(base, mark)
  /\ checkpoint.state = "whole" /\ checkpoint.proof = "seed" =>
       Anchored(checkpoint.base, checkpoint.mark)

CheckpointIsTrue ==
  checkpoint.state = "whole" /\ checkpoint.proof = "seed"
    /\ deployment = checkpoint.at => object = "fault" /\ RowIsPending

\* What verify has found out.
DrainIsCounted ==
  noise = mark =>
    /\ pc \in {"alarmProof", "controlDrain"} \cup Controlling =>
         /\ applied["join"] = "receipt"
         /\ \A f \in Fields :
              counts[f] = base[f] + Effect("control", applied["control"])[f]
    /\ pc = "removeCheckpoint" =>
         applied["join"] = "receipt" /\ applied["control"] = "legacy"

DrainIsTraced ==
  proof = "seed" /\ repeats = 0 =>
    /\ pc \in Draining \cup {"alarmProof"} /\ CleanAlarm =>
         pending = <<>> /\ drainedBy = "rollback"
    /\ pc \in Controlling \cup Ending => pending = <<>> /\ drainedBy = "rollback"

DrillInv ==
  /\ TypeOK
  /\ PhasesAreOrdered /\ TailIsOfPhase /\ ProofIsSeeds /\ FollowsDeployment
  /\ SeedIsOwn /\ ObjectIsFault /\ JoinWaits
  /\ CountersAreAnchored /\ CheckpointIsTrue
  /\ DrainIsCounted /\ DrainIsTraced

---------------------------------------------------------------------------
(* Steps of a phase that leave the site as it is *)

USE DEF Opening, Seeding, Seeded, Waiting, Barring, Joining, Retrying, Settling,
        Writing, Unjoined, InPrepare, Looking, Draining, Controlling, Ending,
        InVerify

\* The predicates of the invariant that look at neither the phase nor its memory.
LEMMA SeenUnchanged ==
  ASSUME UNCHANGED tail
  PROVE  /\ SeedCreated' = SeedCreated /\ SeedAlarmed' = SeedAlarmed
         /\ ForeignSeen' = ForeignSeen /\ SeedStated' = SeedStated
         /\ SeedJoined' = SeedJoined /\ JoinRetried' = JoinRetried
         /\ CleanAlarm' = CleanAlarm
  BY DEF SeedCreated, SeedAlarmed, ForeignSeen, SeedStated, SeedJoined,
         JoinRetried, CleanAlarm, Docs, Is

LEMMA SiteUnchanged ==
  ASSUME UNCHANGED siteVars
  PROVE  /\ FaultIsReviewed' = FaultIsReviewed
         /\ RowIsPending' = RowIsPending
         /\ Alone("fault")' = Alone("fault")
         /\ \A b, m : Anchored(b, m)' = Anchored(b, m)
  BY DEF siteVars, roomVars, FaultIsReviewed, RowIsPending, Alone, Anchored

\* A phase that ends, and with it all it remembers.
LEMMA EndsKeeps ==
  ASSUME DrillInv, Ends, UNCHANGED <<siteVars, checkpoint, started>>
  PROVE  DrillInv'
<1> USE DEF DrillInv
<1>1. TypeOK'
  BY DEF TypeOK, Ends, siteVars, roomVars, NoTail, Counts, Zero, Ones
<1>2. PhasesAreOrdered' /\ TailIsOfPhase' /\ ProofIsSeeds' /\ FollowsDeployment'
  BY SiteUnchanged DEF PhasesAreOrdered, TailIsOfPhase, ProofIsSeeds, FollowsDeployment,
     Ends, NoTail, siteVars, TypeOK
<1>3. SeedIsOwn' /\ ObjectIsFault' /\ JoinWaits' /\ DrainIsCounted' /\ DrainIsTraced'
  BY DEF Ends, SeedIsOwn, ObjectIsFault, JoinWaits, DrainIsCounted, DrainIsTraced
<1>4. CountersAreAnchored' /\ CheckpointIsTrue'
  BY SiteUnchanged DEF CountersAreAnchored, CheckpointIsTrue, Ends, siteVars
<1> QED
  BY <1>1, <1>2, <1>3, <1>4

\* Steps between which the invariant makes no difference.
Regions ==
  {{"readiness", "before"}, Seeding, {"guest", "attachFault"},
   {"readyFault", "activation"}, {"faultStatus", "faultSnapshot"}, Barring,
   Joining, Retrying, Settling, Looking, Draining, Controlling}

LEMMA RegionKeeps ==
  ASSUME DrillInv, UNCHANGED <<siteVars, memory, checkpoint>>, started' \in Nat,
         NEW region \in Regions, pc \in region, pc' \in region
  PROVE  DrillInv'
<1> USE DEF DrillInv, Regions, memory
<1>1. TypeOK'
  BY DEF TypeOK, siteVars, roomVars
<1>2. PhasesAreOrdered'
  BY SiteUnchanged DEF PhasesAreOrdered
<1>3. TailIsOfPhase'
  BY SeenUnchanged DEF TailIsOfPhase
<1>4. ProofIsSeeds'
  BY SeenUnchanged DEF ProofIsSeeds, siteVars
<1>5. FollowsDeployment'
  BY SiteUnchanged DEF FollowsDeployment, siteVars
<1>6. SeedIsOwn'
  BY SeenUnchanged DEF SeedIsOwn, siteVars, roomVars
<1>7. ObjectIsFault'
  BY SeenUnchanged DEF ObjectIsFault, siteVars
<1>8. JoinWaits'
  BY SiteUnchanged, SeenUnchanged DEF JoinWaits, siteVars, roomVars
<1>9. CountersAreAnchored' /\ CheckpointIsTrue'
  BY SiteUnchanged DEF CountersAreAnchored, CheckpointIsTrue, siteVars
<1>10. DrainIsCounted'
  BY DEF DrainIsCounted, siteVars
<1>11. DrainIsTraced'
  BY SeenUnchanged DEF DrainIsTraced, siteVars, roomVars
<1> QED
  BY <1>1, <1>2, <1>3, <1>4, <1>5, <1>6, <1>7, <1>8, <1>9, <1>10, <1>11

LEMMA StartPrepareKeeps ==
  ASSUME DrillInv, StartPrepare
  PROVE  DrillInv'
<1> USE DEF DrillInv, StartPrepare, memory
<1>1. TypeOK'
  BY DEF TypeOK, siteVars, roomVars
<1>2. PhasesAreOrdered' /\ TailIsOfPhase' /\ ProofIsSeeds' /\ FollowsDeployment'
  BY SiteUnchanged DEF PhasesAreOrdered, TailIsOfPhase, ProofIsSeeds,
     FollowsDeployment, NoCheckpoint, siteVars
<1>3. SeedIsOwn' /\ ObjectIsFault' /\ JoinWaits' /\ DrainIsCounted' /\ DrainIsTraced'
  BY DEF SeedIsOwn, ObjectIsFault, JoinWaits, DrainIsCounted, DrainIsTraced
<1>4. CountersAreAnchored' /\ CheckpointIsTrue'
  BY DEF CountersAreAnchored, CheckpointIsTrue, NoCheckpoint
<1> QED
  BY <1>1, <1>2, <1>3, <1>4

LEMMA ReadBeforeKeeps ==
  ASSUME DrillInv, ReadBefore
  PROVE  DrillInv'
<1>1. CASE Ends
  BY <1>1, EndsKeeps DEF ReadBefore
<1>2. CASE ~Ends
  <2> USE <1>2 DEF DrillInv, ReadBefore
  <2>1. TypeOK'
    BY DEF TypeOK, siteVars, roomVars
  <2>2. PhasesAreOrdered' /\ TailIsOfPhase' /\ ProofIsSeeds' /\ FollowsDeployment'
    BY SiteUnchanged DEF PhasesAreOrdered, TailIsOfPhase, ProofIsSeeds,
       FollowsDeployment, NoCheckpoint, siteVars, TypeOK
  <2>3. SeedIsOwn' /\ ObjectIsFault' /\ JoinWaits' /\ DrainIsCounted' /\ DrainIsTraced'
    BY DEF SeedIsOwn, ObjectIsFault, JoinWaits, DrainIsCounted, DrainIsTraced
  <2>4. CountersAreAnchored' /\ CheckpointIsTrue'
    BY SiteUnchanged DEF CountersAreAnchored, CheckpointIsTrue, siteVars
  <2> QED
    BY <2>1, <2>2, <2>3, <2>4
<1> QED
  BY <1>1, <1>2

LEMMA AttachSeedKeeps ==
  ASSUME DrillInv, AttachSeed
  PROVE  DrillInv'
<1> USE DEF DrillInv, AttachSeed, Attach
<1>1. TypeOK'
  BY DEF TypeOK, siteVars, roomVars, Versions
<1>2. ~SeedCreated' /\ ~ForeignSeen'
  BY DEF SeedCreated, ForeignSeen, Docs
<1>3. PhasesAreOrdered' /\ TailIsOfPhase' /\ ProofIsSeeds' /\ FollowsDeployment'
  BY <1>2, SiteUnchanged DEF PhasesAreOrdered, TailIsOfPhase, ProofIsSeeds,
     FollowsDeployment, siteVars
<1>4. SeedIsOwn' /\ ObjectIsFault' /\ JoinWaits' /\ DrainIsCounted' /\ DrainIsTraced'
  BY DEF SeedIsOwn, ObjectIsFault, JoinWaits, DrainIsCounted, DrainIsTraced
<1>5. CountersAreAnchored' /\ CheckpointIsTrue'
  BY SiteUnchanged DEF CountersAreAnchored, CheckpointIsTrue, siteVars
<1> QED
  BY <1>1, <1>3, <1>4, <1>5

\* The one create that was traced is the seeded room's, or somebody else's.
LEMMA SeedProvedMeans ==
  ASSUME TypeOK, NEW who \in {"seed", "other"}, SeedProved(who)
  PROVE  /\ who = "seed" => SeedCreated /\ SeedAlarmed
         /\ who = "other" => ForeignSeen
<1>1. PICK i \in Creates : tail.docs[i].who = who
  BY DEF SeedProved
<1>2. PICK j \in Docs : \E k \in Creates : k < j /\ Is(j, tail.docs[k].who, "alarm")
  BY DEF SeedProved, Acknowledgements
<1>3. PICK k \in Creates : k < j /\ Is(j, tail.docs[k].who, "alarm")
  BY <1>2
<1>4. IsFiniteSet(Creates)
  <2>1. Docs = 1 .. Len(tail.docs) /\ Len(tail.docs) \in Nat
    BY DEF Docs, TypeOK
  <2>2. IsFiniteSet(Docs)
    BY <2>1, FS_Interval
  <2> QED
    BY <2>2, FS_Subset DEF Creates
<1>5. i = k
  <2> SUFFICES ASSUME i # k PROVE FALSE
    OBVIOUS
  <2>1. Cardinality({i}) = 1 /\ IsFiniteSet({i})
    BY FS_Singleton
  <2>2. Cardinality({i} \cup {k}) = 2 /\ IsFiniteSet({i} \cup {k})
    BY <2>1, FS_AddElement
  <2>3. Cardinality({i} \cup {k}) <= Cardinality(Creates)
    BY <2>2, <1>4, FS_Subset
  <2>4. Cardinality(Creates) \in Nat
    BY <1>4, FS_CardinalityType
  <2> QED
    BY <2>2, <2>3, <2>4 DEF SeedProved, SeedRefuted
<1>6. who = "seed" => SeedCreated /\ SeedAlarmed
  BY <1>1, <1>3, <1>5 DEF SeedCreated, SeedAlarmed, Is, Creates, Docs
<1>7. who = "other" => ForeignSeen
  BY <1>1 DEF ForeignSeen, Creates, Is
<1> QED
  BY <1>6, <1>7

LEMMA SeedProofKeeps ==
  ASSUME DrillInv, SeedProof
  PROVE  DrillInv'
<1>1. CASE Ends
  BY <1>1, EndsKeeps DEF SeedProof
<1>2. ASSUME NEW who \in {"seed", "other"}, SeedProved(who),
             proof' = who, pc' = "seedDrain", tail' = NoTail,
             UNCHANGED <<base, faultId, mark>>
      PROVE  DrillInv'
  <2> USE <1>2 DEF DrillInv, SeedProof
  <2>1. /\ who = "seed" => SeedCreated /\ SeedAlarmed
        /\ who = "other" => ForeignSeen
    BY SeedProvedMeans
  <2>2. TypeOK'
    BY DEF TypeOK, siteVars, roomVars, NoTail
  <2>3. PhasesAreOrdered' /\ TailIsOfPhase' /\ FollowsDeployment'
    BY SiteUnchanged DEF PhasesAreOrdered, TailIsOfPhase, FollowsDeployment,
       siteVars, NoTail
  <2>4. ProofIsSeeds'
    BY <2>1, SiteUnchanged DEF ProofIsSeeds, siteVars
  <2>5. SeedIsOwn'
    BY <2>1 DEF SeedIsOwn, siteVars, roomVars
  <2>6. ObjectIsFault' /\ JoinWaits' /\ DrainIsCounted' /\ DrainIsTraced'
    BY DEF ObjectIsFault, JoinWaits, DrainIsCounted, DrainIsTraced
  <2>7. CountersAreAnchored' /\ CheckpointIsTrue'
    BY SiteUnchanged DEF CountersAreAnchored, CheckpointIsTrue, siteVars
  <2> QED
    BY <2>2, <2>3, <2>4, <2>5, <2>6, <2>7
<1> QED
  BY <1>1, <1>2 DEF SeedProof

LEMMA SeedDrainKeeps ==
  ASSUME DrillInv, SeedDrain
  PROVE  DrillInv'
<1>1. CASE Ends
  BY <1>1, EndsKeeps DEF SeedDrain, Poll
<1>2. CASE ~Ends
  <2> USE <1>2 DEF DrillInv, SeedDrain, Poll
  <2>1. TypeOK'
    BY DEF TypeOK, siteVars, roomVars
  <2>2. PhasesAreOrdered' /\ TailIsOfPhase' /\ ProofIsSeeds' /\ FollowsDeployment'
    BY SiteUnchanged DEF PhasesAreOrdered, TailIsOfPhase, ProofIsSeeds,
       FollowsDeployment, siteVars
  <2>3. SeedIsOwn' /\ ObjectIsFault' /\ JoinWaits' /\ DrainIsCounted' /\ DrainIsTraced'
    BY DEF SeedIsOwn, ObjectIsFault, JoinWaits, DrainIsCounted, DrainIsTraced,
       siteVars, roomVars
  <2>4. CountersAreAnchored' /\ CheckpointIsTrue'
    BY SiteUnchanged DEF CountersAreAnchored, CheckpointIsTrue, siteVars
  <2> QED
    BY <2>1, <2>2, <2>3, <2>4
<1> QED
  BY <1>1, <1>2

LEMMA AttachFaultKeeps ==
  ASSUME DrillInv, AttachFault
  PROVE  DrillInv'
<1> USE DEF DrillInv, AttachFault, Attach
<1>1. TypeOK'
  BY DEF TypeOK, siteVars, roomVars, Versions
<1>2. ~SeedStated' /\ ~SeedJoined'
  BY DEF SeedStated, SeedJoined, Docs
<1>3. PhasesAreOrdered' /\ TailIsOfPhase' /\ ProofIsSeeds' /\ FollowsDeployment'
  BY <1>2, SiteUnchanged DEF PhasesAreOrdered, TailIsOfPhase, ProofIsSeeds,
     FollowsDeployment, siteVars
<1>4. SeedIsOwn' /\ ObjectIsFault' /\ JoinWaits' /\ DrainIsCounted' /\ DrainIsTraced'
  BY DEF SeedIsOwn, ObjectIsFault, JoinWaits, DrainIsCounted, DrainIsTraced,
     siteVars, roomVars
<1>5. CountersAreAnchored' /\ CheckpointIsTrue'
  BY SiteUnchanged DEF CountersAreAnchored, CheckpointIsTrue, siteVars
<1> QED
  BY <1>1, <1>3, <1>4, <1>5

LEMMA AwaitActivationKeeps ==
  ASSUME DrillInv, AwaitActivation
  PROVE  DrillInv'
<1>1. CASE Ends
  BY <1>1, EndsKeeps DEF AwaitActivation
<1>2. CASE ~Ends
  <2> USE <1>2 DEF DrillInv, AwaitActivation
  <2>1. TypeOK'
    BY DEF TypeOK, siteVars, roomVars
  <2>2. PhasesAreOrdered' /\ ProofIsSeeds'
    BY SiteUnchanged DEF PhasesAreOrdered, ProofIsSeeds, siteVars
  <2>3. TailIsOfPhase'
    BY SeenUnchanged DEF TailIsOfPhase
  <2>4. FollowsDeployment'
    BY SiteUnchanged DEF FollowsDeployment, siteVars, TypeOK
  <2>5. SeedIsOwn' /\ ObjectIsFault' /\ JoinWaits' /\ DrainIsCounted' /\ DrainIsTraced'
    BY DEF SeedIsOwn, ObjectIsFault, JoinWaits, DrainIsCounted, DrainIsTraced,
       siteVars, roomVars
  <2>6. CountersAreAnchored' /\ CheckpointIsTrue'
    BY SiteUnchanged DEF CountersAreAnchored, CheckpointIsTrue, siteVars
  <2> QED
    BY <2>1, <2>2, <2>3, <2>4, <2>5, <2>6
<1> QED
  BY <1>1, <1>2

LEMMA FaultSnapshotKeeps ==
  ASSUME DrillInv, FaultSnapshot
  PROVE  DrillInv'
<1>1. CASE Ends
  BY <1>1, EndsKeeps DEF FaultSnapshot, Check
<1>2. CASE ~Ends
  <2> USE <1>2 DEF DrillInv, FaultSnapshot, Check, memory
  <2>1. TypeOK'
    BY DEF TypeOK, siteVars, roomVars
  <2>2. PhasesAreOrdered' /\ TailIsOfPhase' /\ ProofIsSeeds' /\ FollowsDeployment'
    BY SiteUnchanged, SeenUnchanged DEF PhasesAreOrdered, TailIsOfPhase,
       ProofIsSeeds, FollowsDeployment, siteVars
  <2>3. SeedIsOwn' /\ JoinWaits' /\ DrainIsCounted' /\ DrainIsTraced'
    BY DEF SeedIsOwn, JoinWaits, DrainIsCounted, DrainIsTraced, siteVars, roomVars
  <2>4. ObjectIsFault'
    BY SeenUnchanged DEF ObjectIsFault, TailIsOfPhase
  <2>5. CountersAreAnchored' /\ CheckpointIsTrue'
    BY SiteUnchanged DEF CountersAreAnchored, CheckpointIsTrue, siteVars
  <2> QED
    BY <2>1, <2>2, <2>3, <2>4, <2>5
<1> QED
  BY <1>1, <1>2

LEMMA StatedKeeps ==
  ASSUME DrillInv, Stated
  PROVE  DrillInv'
<1>1. CASE Ends
  BY <1>1, EndsKeeps DEF Stated
<1>2. CASE ~Ends /\ ~StateSeen
  BY <1>2, RegionKeeps DEF Stated, Regions, DrillInv, TypeOK
<1>3. CASE ~Ends /\ StateSeen
  <2> USE <1>3 DEF DrillInv, Stated, memory
  <2>1. proof = "seed" => SeedStated
    BY DEF StateSeen, SeedStated
  <2>2. TypeOK'
    BY DEF TypeOK, siteVars, roomVars
  <2>3. PhasesAreOrdered' /\ TailIsOfPhase' /\ ProofIsSeeds' /\ FollowsDeployment'
    BY SiteUnchanged, SeenUnchanged DEF PhasesAreOrdered, TailIsOfPhase,
       ProofIsSeeds, FollowsDeployment, siteVars
  <2>4. SeedIsOwn' /\ JoinWaits' /\ DrainIsCounted' /\ DrainIsTraced'
    BY DEF SeedIsOwn, JoinWaits, DrainIsCounted, DrainIsTraced, siteVars, roomVars
  <2>5. ObjectIsFault'
    BY <2>1 DEF ObjectIsFault, siteVars
  <2>6. CountersAreAnchored' /\ CheckpointIsTrue'
    BY SiteUnchanged DEF CountersAreAnchored, CheckpointIsTrue, siteVars
  <2> QED
    BY <2>2, <2>3, <2>4, <2>5, <2>6
<1> QED
  BY <1>1, <1>2, <1>3

LEMMA LeastBy ==
  ASSUME NEW less, IsWellFoundedOn(less, Nat),
         \A x, y \in Nat : <<y, x>> \in less <=> y < x,
         NEW S \in SUBSET Nat, S # {}
  PROVE  \E n \in S : \A k \in S : n <= k
<1>1. PICK x \in S : \A y \in S : ~ (<<y, x>> \in less)
  BY WFMin
<1>2. \A y \in S : ~(y < x)
  BY <1>1
<1> QED
  BY <1>2

\* A set of numbers that is not empty has a least one.
LEMMA Least ==
  ASSUME NEW S \in SUBSET Nat, S # {}
  PROVE  \E n \in S : \A k \in S : n <= k
<1>1. IsWellFoundedOn(OpToRel(<, Nat), Nat)
  BY NatLessThanWellFounded
<1>2. \A x, y \in Nat : <<y, x>> \in OpToRel(<, Nat) <=> y < x
  BY DEF OpToRel
<1> QED
  BY <1>1, <1>2, LeastBy, Zenon

\* A chain of retries that is proved complete begins with a first attempt,
\* after the join.
LEMMA JoinProvedMeans ==
  ASSUME TypeOK, JoinProved, proof = "seed"
  PROVE  JoinRetried
<1>1. Retries # {} /\ Posts # {}
  BY DEF JoinProved, JoinTraced
<1>2. Docs \in SUBSET Nat /\ Retries \in SUBSET Nat
  <2>1. Len(tail.docs) \in Nat /\ Docs = 1 .. Len(tail.docs)
    BY DEF Docs, TypeOK
  <2> QED
    BY <2>1 DEF Retries
<1>3. PICK first \in Retries : \A r \in Retries : first <= r
  BY <1>1, <1>2, Least
<1>4. {q \in Retries : q <= first} = {first}
  <2>1. first \in Nat /\ \A q \in Retries : q \in Nat /\ first <= q
    BY <1>2, <1>3
  <2>2. \A q \in Retries : q <= first <=> q = first
    BY <2>1
  <2> QED
    BY <2>2, <1>3, Zenon
<1>5. InOrder
  BY DEF JoinProved, JoinRefuted
<1>6. tail.docs[first].logs = 1
  <2>1. tail.docs[first].logs = Cardinality({q \in Retries : q <= first})
    BY <1>5, <1>3 DEF InOrder
  <2> QED
    BY <2>1, <1>4, FS_Singleton
<1>7. PICK j \in Posts : TRUE
  BY <1>1
<1>8. j \in Docs /\ Is(j, "seed", "join")
  BY <1>7 DEF JoinProved, JoinRefuted, Posts
<1>9. j < first
  BY <1>5, <1>3, <1>7 DEF InOrder
<1>10. first \in Docs /\ Is(first, "seed", "alarm")
  BY <1>3 DEF Retries
<1> QED
  BY <1>6, <1>8, <1>9, <1>10 DEF JoinRetried

LEMMA JoinProofKeeps ==
  ASSUME DrillInv, JoinProof
  PROVE  DrillInv'
<1>1. CASE Ends
  BY <1>1, EndsKeeps DEF JoinProof, Await, Check
<1>2. CASE ~Ends
  <2> USE <1>2 DEF DrillInv, JoinProof, Await, Check, memory
  <2>1. proof = "seed" => JoinRetried
    BY JoinProvedMeans
  <2>2. TypeOK'
    BY DEF TypeOK, siteVars, roomVars
  <2>3. PhasesAreOrdered' /\ TailIsOfPhase' /\ ProofIsSeeds' /\ FollowsDeployment'
    BY SiteUnchanged, SeenUnchanged DEF PhasesAreOrdered, TailIsOfPhase,
       ProofIsSeeds, FollowsDeployment, siteVars
  <2>4. SeedIsOwn' /\ ObjectIsFault' /\ DrainIsCounted' /\ DrainIsTraced'
    BY DEF SeedIsOwn, ObjectIsFault, DrainIsCounted, DrainIsTraced, siteVars
  <2>5. JoinWaits'
    BY <2>1, SiteUnchanged DEF JoinWaits, siteVars
  <2>6. CountersAreAnchored' /\ CheckpointIsTrue'
    BY SiteUnchanged DEF CountersAreAnchored, CheckpointIsTrue, siteVars
  <2> QED
    BY <2>2, <2>3, <2>4, <2>5, <2>6
<1> QED
  BY <1>1, <1>2

LEMMA NoEffect ==
  ASSUME NEW event \in Events, NEW f \in Fields
  PROVE  Effect(event, "no")[f] = 0
  BY DEF Effect, Zero, Ones

LEMMA SettledAgainKeeps ==
  ASSUME DrillInv, SettledAgain
  PROVE  DrillInv'
<1>1. CASE Ends
  BY <1>1, EndsKeeps DEF SettledAgain, Check
<1>2. CASE ~Ends
  <2> USE <1>2 DEF DrillInv, SettledAgain, Check, memory
  <2>1. proof = "seed" => Anchored(base, mark)
    <3> SUFFICES ASSUME proof = "seed" PROVE Anchored(base, mark)
      OBVIOUS
    <3>1. RowIsPending /\ background = {} /\ applied["control"] = "no"
      BY DEF JoinWaits, SameDeployment
    <3>2. \A f \in Fields :
            counts[f] = base[f] + Effect("join", "no")[f] + Effect("control", "no")[f]
      BY NoEffect DEF Unchanged, TypeOK, Counts, Events
    <3> QED
      BY <3>1, <3>2 DEF Anchored, RowIsPending
  <2>2. TypeOK'
    BY DEF TypeOK, siteVars, roomVars
  <2>3. PhasesAreOrdered' /\ TailIsOfPhase' /\ ProofIsSeeds' /\ FollowsDeployment'
    BY SiteUnchanged, SeenUnchanged DEF PhasesAreOrdered, TailIsOfPhase,
       ProofIsSeeds, FollowsDeployment, siteVars
  <2>4. SeedIsOwn' /\ ObjectIsFault' /\ DrainIsCounted' /\ DrainIsTraced'
    BY DEF SeedIsOwn, ObjectIsFault, DrainIsCounted, DrainIsTraced, siteVars
  <2>5. JoinWaits'
    BY SiteUnchanged DEF JoinWaits, siteVars
  <2>6. CountersAreAnchored' /\ CheckpointIsTrue'
    BY <2>1, SiteUnchanged DEF CountersAreAnchored, CheckpointIsTrue, siteVars
  <2> QED
    BY <2>2, <2>3, <2>4, <2>5, <2>6
<1> QED
  BY <1>1, <1>2

LEMMA WriteKeeps ==
  ASSUME DrillInv, Write
  PROVE  DrillInv'
<1> USE DEF DrillInv, Write, memory, Checkpoint
<1>1. TypeOK'
  BY DEF TypeOK, siteVars, roomVars, Checkpoints
<1>2. PhasesAreOrdered' /\ TailIsOfPhase' /\ ProofIsSeeds' /\ FollowsDeployment'
  BY SiteUnchanged, SeenUnchanged DEF PhasesAreOrdered, TailIsOfPhase,
     ProofIsSeeds, FollowsDeployment, siteVars
<1>3. SeedIsOwn' /\ ObjectIsFault' /\ DrainIsCounted' /\ DrainIsTraced'
  BY DEF SeedIsOwn, ObjectIsFault, DrainIsCounted, DrainIsTraced, siteVars
<1>4. JoinWaits'
  BY SiteUnchanged DEF JoinWaits, siteVars
<1>5. CountersAreAnchored' /\ CheckpointIsTrue'
  BY SiteUnchanged DEF CountersAreAnchored, CheckpointIsTrue, siteVars
<1> QED
  BY <1>1, <1>2, <1>3, <1>4, <1>5

\* The checkpoint promises what has been found out.
LEMMA WrittenKeeps ==
  ASSUME DrillInv, Written
  PROVE  DrillInv'
<1> USE DEF DrillInv, Written, Ends, Checkpoint, NoCheckpoint
<1>1. TypeOK'
  BY DEF TypeOK, siteVars, roomVars, Checkpoints, NoTail, Counts, Zero, Ones
<1>2. PhasesAreOrdered' /\ TailIsOfPhase' /\ ProofIsSeeds' /\ FollowsDeployment'
  BY SiteUnchanged DEF PhasesAreOrdered, TailIsOfPhase, ProofIsSeeds,
     FollowsDeployment, siteVars, NoTail, TypeOK
<1>3. SeedIsOwn' /\ ObjectIsFault' /\ JoinWaits' /\ DrainIsCounted' /\ DrainIsTraced'
  BY DEF SeedIsOwn, ObjectIsFault, JoinWaits, DrainIsCounted, DrainIsTraced
<1>4. CountersAreAnchored'
  BY SiteUnchanged DEF CountersAreAnchored
<1>5. CheckpointIsTrue'
  BY SiteUnchanged DEF CheckpointIsTrue, ObjectIsFault, JoinWaits, siteVars
<1> QED
  BY <1>1, <1>2, <1>3, <1>4, <1>5

LEMMA StartVerifyKeeps ==
  ASSUME DrillInv, StartVerify
  PROVE  DrillInv'
<1> USE DEF DrillInv, StartVerify
<1>1. checkpoint \in Checkpoints \ {NoCheckpoint}
  BY DEF TypeOK, NoCheckpoint
<1>2. TypeOK'
  BY <1>1 DEF TypeOK, siteVars, roomVars, Checkpoints
<1>3. PhasesAreOrdered' /\ TailIsOfPhase' /\ ProofIsSeeds' /\ FollowsDeployment'
  BY SiteUnchanged, SeenUnchanged DEF PhasesAreOrdered, TailIsOfPhase,
     ProofIsSeeds, FollowsDeployment, siteVars
<1>4. SeedIsOwn' /\ ObjectIsFault' /\ JoinWaits' /\ DrainIsCounted' /\ DrainIsTraced'
  BY DEF SeedIsOwn, ObjectIsFault, JoinWaits, DrainIsCounted, DrainIsTraced
<1>5. CountersAreAnchored' /\ CheckpointIsTrue'
  BY SiteUnchanged DEF CountersAreAnchored, CheckpointIsTrue, siteVars
<1> QED
  BY <1>2, <1>3, <1>4, <1>5

LEMMA AttachRollbackKeeps ==
  ASSUME DrillInv, AttachRollback
  PROVE  DrillInv'
<1> USE DEF DrillInv, AttachRollback, Attach
<1>1. TypeOK'
  BY DEF TypeOK, siteVars, roomVars, Versions
<1>2. ~CleanAlarm'
  BY DEF CleanAlarm, Docs
<1>3. PhasesAreOrdered' /\ TailIsOfPhase' /\ ProofIsSeeds' /\ FollowsDeployment'
  BY SiteUnchanged DEF PhasesAreOrdered, TailIsOfPhase, ProofIsSeeds,
     FollowsDeployment, siteVars
<1>4. SeedIsOwn' /\ ObjectIsFault' /\ JoinWaits' /\ DrainIsCounted' /\ DrainIsTraced'
  BY <1>2 DEF SeedIsOwn, ObjectIsFault, JoinWaits, DrainIsCounted, DrainIsTraced
<1>5. CountersAreAnchored' /\ CheckpointIsTrue'
  BY SiteUnchanged DEF CountersAreAnchored, CheckpointIsTrue, siteVars
<1> QED
  BY <1>1, <1>3, <1>4, <1>5

\* What an event adds tells whether it was counted, and how.
LEMMA EffectsAreTold ==
  ASSUME NEW how \in Hows
  PROVE  /\ Effect("control", how)["created"] = 0 => how = "no"
         /\ Effect("join", how)["created"] = 0
         /\ Effect("join", how)["receipts"] = 1 => how = "receipt"
         /\ \A event \in Events, f \in Fields : Effect(event, how)[f] \in {0, 1}
<1> USE DEF Hows, Effect, Fields, Events, Zero, Ones, CreateOnly, JoinOnly,
            LegacyCreate
<1>1. /\ Effect("control", how)["created"] = 0 => how = "no"
      /\ Effect("join", how)["created"] = 0
      /\ Effect("join", how)["receipts"] = 1 => how = "receipt"
  OBVIOUS
<1>2. \A event \in Events, f \in Fields : Effect(event, how)[f] \in {0, 1}
  OBVIOUS
<1> QED
  BY <1>1, <1>2

\* Nothing but the join's row can have moved the counters by just one receipt
\* and one join.
LEMMA JoinDrainKeeps ==
  ASSUME DrillInv, JoinDrain
  PROVE  DrillInv'
<1>1. CASE Ends
  BY <1>1, EndsKeeps DEF JoinDrain, Poll
<1>2. CASE ~Ends
  <2> USE <1>2 DEF DrillInv, JoinDrain, Poll
  <2> DEFINE byJoin == Effect("join", applied["join"])
             byControl == Effect("control", applied["control"])
  <2>1. noise = mark => /\ applied["join"] = "receipt"
                        /\ applied["control"] = "no"
    <3> SUFFICES ASSUME noise = mark
                 PROVE  applied["join"] = "receipt" /\ applied["control"] = "no"
      OBVIOUS
    <3>1. checkpoint.proof = "seed" /\ checkpoint.state = "whole"
      BY DEF ProofIsSeeds, PhasesAreOrdered, TypeOK
    <3>2. \A f \in Fields : counts[f] = base[f] + byJoin[f] + byControl[f]
      BY <3>1 DEF CountersAreAnchored, Anchored, PhasesAreOrdered
    <3>3. \A f \in Fields : counts[f] = base[f] + JoinOnly[f]
      BY DEF Reached, Plus
    <3>4. \A f \in Fields : base[f] \in Int
      BY DEF TypeOK, Counts
    <3>5. applied["join"] \in Hows /\ applied["control"] \in Hows
      BY DEF TypeOK, Events
    <3>6. \A f \in Fields : byJoin[f] \in {0, 1} /\ byControl[f] \in {0, 1}
      BY <3>5, EffectsAreTold DEF Events
    <3>7. {"receipts", "created"} \subseteq Fields
      BY DEF Fields
    <3>8. JoinOnly["created"] = 0 /\ JoinOnly["receipts"] = 1
      BY <3>7 DEF JoinOnly, Ones
    <3> HIDE DEF byJoin, byControl
    <3>9. byJoin["created"] + byControl["created"] = 0
      BY <3>2, <3>3, <3>4, <3>6, <3>7, <3>8
    <3>10. byControl["created"] = 0
      BY <3>9, <3>6, <3>7
    <3>11. applied["control"] = "no"
      BY <3>10, <3>5, EffectsAreTold DEF byControl
    <3>12. byControl["receipts"] = 0
      BY <3>11, <3>7, NoEffect DEF byControl, Events
    <3>13. byJoin["receipts"] = 1
      BY <3>2, <3>3, <3>4, <3>6, <3>7, <3>8, <3>12
    <3> QED
      BY <3>11, <3>13, <3>5, EffectsAreTold DEF byJoin
  <2>2. TypeOK'
    BY DEF TypeOK, siteVars, roomVars
  <2>3. PhasesAreOrdered' /\ ProofIsSeeds' /\ FollowsDeployment'
    BY SiteUnchanged DEF PhasesAreOrdered, ProofIsSeeds, FollowsDeployment, siteVars
  <2>4. TailIsOfPhase'
    BY SeenUnchanged DEF TailIsOfPhase
  <2>5. SeedIsOwn' /\ ObjectIsFault' /\ JoinWaits'
    BY DEF SeedIsOwn, ObjectIsFault, JoinWaits
  <2>6. DrainIsTraced'
    BY SeenUnchanged DEF DrainIsTraced, siteVars, roomVars
  <2>7. DrainIsCounted'
    <3>1. applied["control"] = "no" =>
            \A f \in Fields : counts[f] = counts[f] + byControl[f]
      BY NoEffect DEF TypeOK, Counts, Events
    <3> QED
      BY <2>1, <3>1 DEF DrainIsCounted, siteVars
  <2>8. CountersAreAnchored' /\ CheckpointIsTrue'
    BY SiteUnchanged DEF CountersAreAnchored, CheckpointIsTrue, siteVars
  <2> QED
    BY <2>2, <2>3, <2>4, <2>5, <2>6, <2>7, <2>8
<1> QED
  BY <1>1, <1>2

LEMMA AlarmProofKeeps ==
  ASSUME DrillInv, AlarmProof
  PROVE  DrillInv'
<1>1. CASE Ends
  BY <1>1, EndsKeeps DEF AlarmProof, Await, Check
<1>2. CASE ~Ends
  <2> USE <1>2 DEF DrillInv, AlarmProof, Await, Check, memory
  <2>1. proof = "seed" => CleanAlarm
    BY DEF DrainProved, FirstAlarm, Alarms, CleanAlarm
  <2>2. TypeOK'
    BY DEF TypeOK, siteVars, roomVars
  <2>3. PhasesAreOrdered' /\ TailIsOfPhase' /\ ProofIsSeeds' /\ FollowsDeployment'
    BY SiteUnchanged, SeenUnchanged DEF PhasesAreOrdered, TailIsOfPhase,
       ProofIsSeeds, FollowsDeployment, siteVars
  <2>4. SeedIsOwn' /\ ObjectIsFault' /\ JoinWaits' /\ DrainIsCounted'
    BY DEF SeedIsOwn, ObjectIsFault, JoinWaits, DrainIsCounted, siteVars
  <2>5. DrainIsTraced'
    BY <2>1 DEF DrainIsTraced, siteVars, roomVars
  <2>6. CountersAreAnchored' /\ CheckpointIsTrue'
    BY SiteUnchanged DEF CountersAreAnchored, CheckpointIsTrue, siteVars
  <2> QED
    BY <2>2, <2>3, <2>4, <2>5, <2>6
<1> QED
  BY <1>1, <1>2

\* Nothing but the control room is left to add what it adds.
LEMMA ControlDrainKeeps ==
  ASSUME DrillInv, ControlDrain
  PROVE  DrillInv'
<1>1. CASE Ends
  BY <1>1, EndsKeeps DEF ControlDrain, Poll
<1>2. CASE ~Ends
  <2> USE <1>2 DEF DrillInv, ControlDrain, Poll
  <2>1. noise = mark => applied["control"] = "legacy"
    <3> SUFFICES ASSUME noise = mark PROVE applied["control"] = "legacy"
      OBVIOUS
    <3> DEFINE byControl == Effect("control", applied["control"])
    <3>1. \A f \in Fields : counts[f] = base[f] + byControl[f]
      BY DEF DrainIsCounted
    <3>2. \A f \in Fields : counts[f] = base[f] + LegacyCreate[f]
      BY DEF Reached, Plus
    <3>3. applied["control"] \in Hows
      BY DEF TypeOK, Events
    <3>4. \A f \in Fields : base[f] \in Int /\ byControl[f] \in {0, 1}
                            /\ LegacyCreate[f] \in {0, 1}
      BY <3>3, EffectsAreTold DEF TypeOK, Counts, Events, LegacyCreate, Ones
    <3>5. \A f \in Fields : byControl[f] = LegacyCreate[f]
      BY <3>1, <3>2, <3>4
    <3>6. {"receipts", "created"} \subseteq Fields
      BY DEF Fields
    <3>7. LegacyCreate["receipts"] = 0 /\ LegacyCreate["created"] = 1
      BY <3>6 DEF LegacyCreate, Ones
    <3>8. applied["control"] # "no"
      BY <3>5, <3>6, <3>7, NoEffect DEF Events
    <3>9. applied["control"] # "receipt"
      BY <3>5, <3>6, <3>7 DEF Effect, CreateOnly, Ones
    <3> QED
      BY <3>3, <3>8, <3>9 DEF Hows
  <2>2. TypeOK'
    BY DEF TypeOK, siteVars, roomVars
  <2>3. PhasesAreOrdered' /\ TailIsOfPhase' /\ ProofIsSeeds' /\ FollowsDeployment'
    BY SiteUnchanged, SeenUnchanged DEF PhasesAreOrdered, TailIsOfPhase,
       ProofIsSeeds, FollowsDeployment, siteVars
  <2>4. SeedIsOwn' /\ ObjectIsFault' /\ JoinWaits' /\ DrainIsTraced'
    BY DEF SeedIsOwn, ObjectIsFault, JoinWaits, DrainIsTraced, siteVars, roomVars
  <2>5. DrainIsCounted'
    BY <2>1 DEF DrainIsCounted, siteVars
  <2>6. CountersAreAnchored' /\ CheckpointIsTrue'
    BY SiteUnchanged DEF CountersAreAnchored, CheckpointIsTrue, siteVars
  <2> QED
    BY <2>2, <2>3, <2>4, <2>5, <2>6
<1> QED
  BY <1>1, <1>2

---------------------------------------------------------------------------
(* Steps that change the files *)

LEMMA RemoveCheckpointKeeps ==
  ASSUME DrillInv, RemoveCheckpoint
  PROVE  DrillInv'
<1> USE DEF DrillInv, RemoveCheckpoint, memory, NoCheckpoint
<1>1. TypeOK'
  BY DEF TypeOK, siteVars, roomVars, Checkpoints
<1>2. PhasesAreOrdered' /\ TailIsOfPhase' /\ ProofIsSeeds' /\ FollowsDeployment'
  BY SiteUnchanged, SeenUnchanged DEF PhasesAreOrdered, TailIsOfPhase,
     ProofIsSeeds, FollowsDeployment, siteVars
<1>3. SeedIsOwn' /\ ObjectIsFault' /\ JoinWaits' /\ DrainIsCounted' /\ DrainIsTraced'
  BY DEF SeedIsOwn, ObjectIsFault, JoinWaits, DrainIsCounted, DrainIsTraced
<1>4. CountersAreAnchored' /\ CheckpointIsTrue'
  BY DEF CountersAreAnchored, CheckpointIsTrue
<1> QED
  BY <1>1, <1>2, <1>3, <1>4

LEMMA ConfigUnchanged ==
  ASSUME UNCHANGED <<uploaded, deployed, deployment, outer, object, roomVars,
                     background, counts, applied, noise, failures, repeats>>
  PROVE  /\ FaultIsReviewed' = FaultIsReviewed
         /\ RowIsPending' = RowIsPending
         /\ Alone("fault")' = Alone("fault")
         /\ \A b, m : Anchored(b, m)' = Anchored(b, m)
  BY DEF roomVars, FaultIsReviewed, RowIsPending, Alone, Anchored

\* No phase runs, or none does any more, when the configuration changes; the
\* checkpoint may go with it.
LEMMA ConfigKeeps ==
  ASSUME DrillInv,
         UNCHANGED <<uploaded, deployed, deployment, outer, object, roomVars,
                     background, counts, applied, noise, failures, repeats>>,
         config' \in BOOLEAN, started' \in Nat, pc' = "idle",
         \/ Ends
         \/ pc = "idle" /\ UNCHANGED memory,
         checkpoint' \in {checkpoint, NoCheckpoint}
  PROVE  DrillInv'
<1> USE DEF DrillInv, memory, Ends, NoCheckpoint
<1>1. TypeOK'
  <2>1. checkpoint' \in Checkpoints
    BY DEF TypeOK, Checkpoints
  <2>2. /\ base' \in Counts /\ proof' \in {"none", "seed", "other"}
        /\ faultId' \in Nat /\ mark' \in Nat
        /\ tail' \in [version : Versions \cup {"none"}, docs : Seq(Doc)]
    <3>1. CASE Ends
      BY <3>1 DEF TypeOK, NoTail, Counts, Zero, Ones
    <3>2. CASE UNCHANGED memory
      BY <3>2 DEF TypeOK
    <3> QED
      BY <3>1, <3>2
  <2> QED
    BY <2>1, <2>2 DEF TypeOK, roomVars
<1>2. PhasesAreOrdered'
  BY ConfigUnchanged DEF PhasesAreOrdered
<1>3. TailIsOfPhase'
  BY DEF TailIsOfPhase, NoTail
<1>4. ProofIsSeeds' /\ FollowsDeployment'
  BY ConfigUnchanged DEF ProofIsSeeds, FollowsDeployment, TypeOK
<1>5. SeedIsOwn' /\ ObjectIsFault' /\ JoinWaits' /\ DrainIsCounted' /\ DrainIsTraced'
  BY DEF SeedIsOwn, ObjectIsFault, JoinWaits, DrainIsCounted, DrainIsTraced
<1>6. CountersAreAnchored' /\ CheckpointIsTrue'
  BY ConfigUnchanged DEF CountersAreAnchored, CheckpointIsTrue
<1> QED
  BY <1>1, <1>2, <1>3, <1>4, <1>5, <1>6

---------------------------------------------------------------------------
(* Steps that may be traced *)

\* What a tail has seen after one more trace.
LEMMA EmitSees ==
  ASSUME TypeOK, NEW doc \in Doc,
         tail' = [tail EXCEPT !.docs = Append(@, doc)]
  PROVE  /\ tail'.version = tail.version /\ tail'.docs \in Seq(Doc)
         /\ SeedCreated' => SeedCreated \/ (doc.who = "seed" /\ doc.what = "create")
         /\ SeedAlarmed' => SeedAlarmed
              \/ (SeedCreated /\ doc.who = "seed" /\ doc.what = "alarm")
         /\ ForeignSeen' => ForeignSeen \/ (doc.who = "other" /\ doc.what = "create")
         /\ SeedStated' => SeedStated \/ (doc.who = "seed" /\ doc.what = "state")
         /\ SeedJoined' => SeedJoined \/ (doc.who = "seed" /\ doc.what = "join")
         /\ JoinRetried' => JoinRetried
              \/ (SeedJoined /\ doc.who = "seed" /\ doc.what = "alarm" /\ doc.logs = 1)
         /\ CleanAlarm' => CleanAlarm
              \/ (doc.who = "seed" /\ doc.what = "alarm" /\ doc.logs = 0)
<1> DEFINE n == Len(tail.docs)
<1>1. tail.docs \in Seq(Doc) /\ n \in Nat /\ Docs = 1 .. n
  BY DEF TypeOK, Docs
<1>2. tail'.docs = Append(tail.docs, doc) /\ tail'.version = tail.version
  BY DEF TypeOK
<1>3. /\ tail'.docs \in Seq(Doc)
      /\ Docs' = 1 .. (n + 1)
      /\ tail'.docs[n + 1] = doc
      /\ \A i \in 1 .. n : tail'.docs[i] = tail.docs[i]
  BY <1>1, <1>2 DEF Docs
<1>4. \A i \in Docs' : \/ i \in Docs /\ tail'.docs[i] = tail.docs[i]
                       \/ i = n + 1 /\ tail'.docs[i] = doc
  BY <1>1, <1>3
<1>5. \A i, j \in Docs' : i < j => i \in Docs /\ tail'.docs[i] = tail.docs[i]
  BY <1>1, <1>3
<1> HIDE DEF n
<1> USE DEF Is
<1>6. SeedCreated' => SeedCreated \/ (doc.who = "seed" /\ doc.what = "create")
  BY <1>4 DEF SeedCreated
<1>7. SeedAlarmed' => SeedAlarmed
        \/ (SeedCreated /\ doc.who = "seed" /\ doc.what = "alarm")
  BY <1>4, <1>5 DEF SeedAlarmed, SeedCreated
<1>8. ForeignSeen' => ForeignSeen \/ (doc.who = "other" /\ doc.what = "create")
  BY <1>4 DEF ForeignSeen
<1>9. SeedStated' => SeedStated \/ (doc.who = "seed" /\ doc.what = "state")
  BY <1>4 DEF SeedStated
<1>10. SeedJoined' => SeedJoined \/ (doc.who = "seed" /\ doc.what = "join")
  BY <1>4 DEF SeedJoined
<1>11. JoinRetried' => JoinRetried
         \/ (SeedJoined /\ doc.who = "seed" /\ doc.what = "alarm" /\ doc.logs = 1)
  BY <1>4, <1>5 DEF JoinRetried, SeedJoined
<1>12. CleanAlarm' => CleanAlarm
         \/ (doc.who = "seed" /\ doc.what = "alarm" /\ doc.logs = 0)
  BY <1>4 DEF CleanAlarm
<1> QED
  BY <1>2, <1>3, <1>6, <1>7, <1>8, <1>9, <1>10, <1>11, <1>12

\* A trace reaches the tail only if it is of the tail's own version.
LEMMA Traced ==
  ASSUME TypeOK, NEW version, NEW doc \in Doc, Emit(version, doc)
  PROVE  /\ tail' \in [version : Versions \cup {"none"}, docs : Seq(Doc)]
         /\ tail'.version = tail.version
         /\ tail.version # version => tail' = tail
         /\ SeedCreated' => SeedCreated \/
              (tail.version = version /\ doc.who = "seed" /\ doc.what = "create")
         /\ SeedAlarmed' => SeedAlarmed \/
              (SeedCreated /\ doc.who = "seed" /\ doc.what = "alarm")
         /\ ForeignSeen' => ForeignSeen \/ (doc.who = "other" /\ doc.what = "create")
         /\ SeedStated' => SeedStated \/
              (tail.version = version /\ doc.who = "seed" /\ doc.what = "state")
         /\ SeedJoined' => SeedJoined \/ (doc.who = "seed" /\ doc.what = "join")
         /\ JoinRetried' => JoinRetried \/
              (SeedJoined /\ doc.who = "seed" /\ doc.what = "alarm" /\ doc.logs = 1)
         /\ CleanAlarm' => CleanAlarm \/
              ( /\ tail.version = version
                /\ doc.who = "seed" /\ doc.what = "alarm" /\ doc.logs = 0)
<1>1. CASE UNCHANGED tail
  BY <1>1, SeenUnchanged DEF TypeOK
<1>2. CASE tail.version = version /\ tail' = [tail EXCEPT !.docs = Append(@, doc)]
  <2>1. tail' = [version |-> tail'.version, docs |-> tail'.docs]
    BY <1>2 DEF TypeOK
  <2> QED
    BY <1>2, <2>1, EmitSees DEF TypeOK
<1> QED
  BY <1>1, <1>2 DEF Emit

LEMMA TraceType ==
  ASSUME NEW who \in {"seed", "other"},
         NEW what \in {"head", "create", "state", "join", "alarm"}, NEW logs \in Nat
  PROVE  /\ Trace(who, what, logs) \in Doc
         /\ Trace(who, what, logs).who = who
         /\ Trace(who, what, logs).what = what
         /\ Trace(who, what, logs).logs = logs
  BY DEF Trace, Doc

LEMMA ProbeKeeps ==
  ASSUME DrillInv, Probe
  PROVE  DrillInv'
<1>1. CASE Ends
  BY <1>1, EndsKeeps DEF Probe
<1>2. CASE ~Ends
  <2> USE <1>2 DEF DrillInv, Probe
  <2> DEFINE doc == Trace("other", "head", 0)
  <2>1. doc \in Doc /\ doc.who = "other" /\ doc.what = "head"
    BY TraceType
  <2> HIDE DEF doc
  <2>2. Emit(outer, doc)
    BY DEF doc
  <2>3. /\ tail' \in [version : Versions \cup {"none"}, docs : Seq(Doc)]
        /\ tail'.version = tail.version
        /\ SeedCreated' => SeedCreated
        /\ ForeignSeen' => ForeignSeen
    BY <2>1, <2>2, Traced
  <2>4. TypeOK'
    BY <2>3 DEF TypeOK, siteVars, roomVars
  <2>5. PhasesAreOrdered' /\ TailIsOfPhase' /\ ProofIsSeeds' /\ FollowsDeployment'
    BY <2>3, SiteUnchanged DEF PhasesAreOrdered, TailIsOfPhase, ProofIsSeeds,
       FollowsDeployment, siteVars
  <2>6. SeedIsOwn' /\ ObjectIsFault' /\ JoinWaits' /\ DrainIsCounted' /\ DrainIsTraced'
    BY DEF SeedIsOwn, ObjectIsFault, JoinWaits, DrainIsCounted, DrainIsTraced
  <2>7. CountersAreAnchored' /\ CheckpointIsTrue'
    BY SiteUnchanged DEF CountersAreAnchored, CheckpointIsTrue, siteVars
  <2> QED
    BY <2>4, <2>5, <2>6, <2>7
<1> QED
  BY <1>1, <1>2

LEMMA ReadStateKeeps ==
  ASSUME DrillInv, ReadState
  PROVE  DrillInv'
<1>1. CASE Ends
  BY <1>1, EndsKeeps DEF ReadState
<1>2. CASE ~Ends
  <2> USE <1>2 DEF DrillInv, ReadState
  <2> DEFINE doc == Trace("seed", "state", 0)
  <2>1. doc \in Doc /\ doc.who = "seed" /\ doc.what = "state"
    BY TraceType
  <2> HIDE DEF doc
  <2>2. Emit(object, doc)
    BY DEF doc
  <2>3. /\ tail' \in [version : Versions \cup {"none"}, docs : Seq(Doc)]
        /\ tail'.version = tail.version
        /\ SeedStated' => SeedStated \/ tail.version = object
        /\ SeedJoined' => SeedJoined
    BY <2>1, <2>2, Traced
  <2>4. TypeOK'
    BY <2>3 DEF TypeOK, siteVars, roomVars
  <2>5. PhasesAreOrdered' /\ TailIsOfPhase' /\ ProofIsSeeds' /\ FollowsDeployment'
    BY <2>3, SiteUnchanged DEF PhasesAreOrdered, TailIsOfPhase, ProofIsSeeds,
       FollowsDeployment, siteVars
  <2>6. SeedIsOwn' /\ JoinWaits' /\ DrainIsCounted' /\ DrainIsTraced'
    BY DEF SeedIsOwn, JoinWaits, DrainIsCounted, DrainIsTraced, siteVars, roomVars
  <2>7. ObjectIsFault'
    BY <2>3 DEF ObjectIsFault, TailIsOfPhase, siteVars
  <2>8. CountersAreAnchored' /\ CheckpointIsTrue'
    BY SiteUnchanged DEF CountersAreAnchored, CheckpointIsTrue, siteVars
  <2> QED
    BY <2>4, <2>5, <2>6, <2>7, <2>8
<1> QED
  BY <1>1, <1>2

LEMMA BackgroundType ==
  ASSUME TypeOK, NEW event \in Events, NEW version
  PROVE  /\ Background(event, version) \in SUBSET Write_
         /\ \A write \in Background(event, version) : write.event = event
         /\ Produces(version) /\ event # "control" => Background(event, version) = {}
  BY DEF Background, Write_

LEMMA FaultHasNoDatabase ==
  ASSUME FaultIsReviewed
  PROVE  ~Resources("fault").db /\ Produces("fault")
  BY DEF FaultIsReviewed, Resources, Produces, Candidate

LEMMA CreateSeedKeeps ==
  ASSUME DrillInv, CreateSeed
  PROVE  DrillInv'
<1> USE DEF DrillInv, CreateSeed
<1> DEFINE doc == Trace("seed", "create", 0)
<1>1. doc \in Doc /\ doc.who = "seed" /\ doc.what = "create"
  BY TraceType
<1> HIDE DEF doc
<1>2. Emit(object', doc)
  BY DEF doc
<1>3. /\ tail' \in [version : Versions \cup {"none"}, docs : Seq(Doc)]
      /\ tail'.version = tail.version
      /\ SeedCreated' => SeedCreated \/ tail.version = object'
      /\ SeedAlarmed' => SeedAlarmed
      /\ ForeignSeen' => ForeignSeen
  BY <1>1, <1>2, Traced
<1>4. ~SeedCreated /\ ~SeedAlarmed /\ tail.version = "candidate"
  BY DEF TailIsOfPhase, SeedCreated, SeedAlarmed
<1>5. Produces("candidate")
  BY DEF Produces, Resources, Candidate
<1>6. /\ background' \in SUBSET Write_
      /\ \A write \in background' : write.event = "create"
      /\ SeedCreated' => background' = {}
  BY <1>3, <1>4, <1>5, BackgroundType DEF Events
<1>7. object' \in Versions /\ pending' \in {<<>>, <<"create">>}
  BY DEF TypeOK
<1>8. TypeOK'
  BY <1>3, <1>6, <1>7 DEF TypeOK, Queues, Hows
<1>9. PhasesAreOrdered'
  BY DEF PhasesAreOrdered, NoCheckpoint, FaultIsReviewed
<1>10. TailIsOfPhase' /\ ProofIsSeeds' /\ FollowsDeployment'
  BY <1>3 DEF PhasesAreOrdered, NoCheckpoint, TailIsOfPhase, ProofIsSeeds,
     FollowsDeployment
<1>11. SeedIsOwn'
  BY <1>3, <1>4, <1>6, <1>7 DEF SeedIsOwn, Events
<1>12. ObjectIsFault' /\ JoinWaits' /\ DrainIsCounted' /\ DrainIsTraced'
  BY DEF ObjectIsFault, JoinWaits, DrainIsCounted, DrainIsTraced
<1>13. CountersAreAnchored' /\ CheckpointIsTrue'
  BY DEF PhasesAreOrdered, NoCheckpoint, CountersAreAnchored, CheckpointIsTrue
<1> QED
  BY <1>8, <1>9, <1>10, <1>11, <1>12, <1>13

LEMMA SecondRow ==
  ASSUME NEW S, NEW x \in S, NEW y \in S
  PROVE  Append(<<x>>, y) = <<x, y>>
<1> DEFINE appended == Append(<<x>>, y)
           both == <<x, y>>
<1>1. <<x>> \in Seq(S) /\ Len(<<x>>) = 1 /\ <<x>>[1] = x
  OBVIOUS
<1>2. appended \in Seq(S) /\ Len(appended) = 2 /\ appended[1] = x /\ appended[2] = y
  BY <1>1
<1>3. both \in Seq(S) /\ Len(both) = 2 /\ both[1] = x /\ both[2] = y
  OBVIOUS
<1> HIDE DEF appended, both
<1>4. /\ appended = [i \in 1 .. 2 |-> appended[i]]
      /\ both = [i \in 1 .. 2 |-> both[i]]
  BY <1>2, <1>3
<1>5. appended = both
  BY <1>2, <1>3, <1>4
<1> QED
  BY <1>5 DEF appended, both

LEMMA JoinKeeps ==
  ASSUME DrillInv, Join
  PROVE  DrillInv'
<1>1. CASE Ends
  <2>1. UNCHANGED <<siteVars, checkpoint, started>>
    BY <1>1 DEF Join, Ends, siteVars
  <2> QED
    BY <1>1, <2>1, EndsKeeps
<1>2. CASE ~Ends
  <2> USE <1>2 DEF DrillInv, Join
  <2> DEFINE doc == Trace("seed", "join", 0)
  <2>1. doc \in Doc /\ doc.who = "seed" /\ doc.what = "join"
    BY TraceType
  <2> HIDE DEF doc
  <2>2. Emit(object, doc)
    BY DEF doc
  <2>3. /\ tail' \in [version : Versions \cup {"none"}, docs : Seq(Doc)]
        /\ tail'.version = tail.version
        /\ JoinRetried' => JoinRetried
    BY <2>1, <2>2, Traced
  <2>4. ~JoinRetried
    BY DEF TailIsOfPhase, SeedJoined, JoinRetried
  <2>5. pending \in {<<>>, <<"create">>}
    BY DEF SeedIsOwn
  <2>6. /\ Append(<<>>, "join") = <<"join">>
        /\ Append(<<"create">>, "join") = <<"create", "join">>
    <3>1. Append(<<>>, "join") = <<"join">>
      OBVIOUS
    <3>2. "create" \in Events /\ "join" \in Events
      BY DEF Events
    <3> QED
      BY <3>1, <3>2, SecondRow
  <2>7. pending' \in Queues
    BY <2>5, <2>6 DEF Queues
  <2>8. background' \in SUBSET Write_
    BY BackgroundType DEF TypeOK, Events
  <2>9. TypeOK'
    BY <2>3, <2>7, <2>8 DEF TypeOK
  <2>10. PhasesAreOrdered'
    BY DEF PhasesAreOrdered, NoCheckpoint, FaultIsReviewed
  <2>11. TailIsOfPhase' /\ ProofIsSeeds' /\ FollowsDeployment'
    BY <2>3 DEF PhasesAreOrdered, NoCheckpoint, TailIsOfPhase, ProofIsSeeds,
       FollowsDeployment, Alone
  <2>12. SeedIsOwn' /\ DrainIsCounted' /\ DrainIsTraced'
    BY DEF SeedIsOwn, DrainIsCounted, DrainIsTraced
  <2>13. ObjectIsFault'
    BY DEF ObjectIsFault
  <2>14. JoinWaits'
    <3> SUFFICES ASSUME deployment = faultId, proof = "seed"
                 PROVE  /\ applied["join"] = "no" /\ applied["control"] = "no"
                        /\ background' = {}
                        /\ \/ pending' = <<"join">>
                           \/ pending' = <<"create", "join">> /\ attempts > 0
                        /\ ~JoinRetried'
      BY DEF JoinWaits
    <3>1. object = "fault" /\ Produces("fault")
      BY FaultHasNoDatabase DEF ObjectIsFault, PhasesAreOrdered
    <3>2. /\ applied["join"] = "no" /\ applied["control"] = "no"
          /\ background = {} /\ (pending = <<>> \/ attempts > 0)
      BY DEF SeedIsOwn
    <3>3. background' = {}
      BY <3>1, <3>2, BackgroundType DEF Events
    <3> QED
      BY <2>3, <2>4, <2>5, <2>6, <3>1, <3>2, <3>3
  <2>15. CountersAreAnchored' /\ CheckpointIsTrue'
    BY DEF PhasesAreOrdered, NoCheckpoint, CountersAreAnchored, CheckpointIsTrue
  <2> QED
    BY <2>9, <2>10, <2>11, <2>12, <2>13, <2>14, <2>15
<1> QED
  BY <1>1, <1>2

LEMMA CreateControlKeeps ==
  ASSUME DrillInv, CreateControl
  PROVE  DrillInv'
<1> USE DEF DrillInv, CreateControl
<1>1. PICK version \in deployed \cup {outer} :
        background' = background \cup Background("control", version)
  OBVIOUS
<1>2. /\ background' \in SUBSET Write_
      /\ \A write \in background' : write \in background \/ write.event = "control"
  BY <1>1, BackgroundType DEF TypeOK, Events
<1>3. \A b, m : Anchored(b, m) => Anchored(b, m)'
  BY <1>2 DEF Anchored, roomVars
<1>4. TypeOK'
  BY <1>2 DEF TypeOK, roomVars, NoTail
<1>5. PhasesAreOrdered'
  BY DEF PhasesAreOrdered, FaultIsReviewed
<1>6. TailIsOfPhase' /\ ProofIsSeeds' /\ FollowsDeployment'
  BY DEF TailIsOfPhase, NoTail, ProofIsSeeds, FollowsDeployment, Alone
<1>7. SeedIsOwn' /\ ObjectIsFault' /\ JoinWaits' /\ DrainIsCounted' /\ DrainIsTraced'
  BY DEF SeedIsOwn, ObjectIsFault, JoinWaits, DrainIsCounted, DrainIsTraced, roomVars
<1>8. CountersAreAnchored' /\ CheckpointIsTrue'
  BY <1>3 DEF CountersAreAnchored, CheckpointIsTrue, RowIsPending, roomVars
<1> QED
  BY <1>4, <1>5, <1>6, <1>7, <1>8

---------------------------------------------------------------------------
(* Steps of the site *)

rest == <<pc, base, proof, faultId, mark, checkpoint, started>>

LEMMA UploadKeeps ==
  ASSUME DrillInv, Upload, UNCHANGED rest
  PROVE  DrillInv'
<1> USE DEF DrillInv, Upload, rest
<1>1. ~FaultIsReviewed
  BY DEF FaultIsReviewed, NoUpload, Candidate
<1>2. TypeOK'
  BY DEF TypeOK, roomVars
<1>3. PhasesAreOrdered'
  BY <1>1 DEF PhasesAreOrdered
<1>4. TailIsOfPhase' /\ ProofIsSeeds' /\ FollowsDeployment'
  BY SeenUnchanged DEF TailIsOfPhase, ProofIsSeeds, FollowsDeployment, Alone
<1>5. SeedIsOwn' /\ ObjectIsFault' /\ JoinWaits' /\ DrainIsCounted' /\ DrainIsTraced'
  BY SeenUnchanged DEF SeedIsOwn, ObjectIsFault, JoinWaits, DrainIsCounted,
     DrainIsTraced, RowIsPending, roomVars
<1>6. CountersAreAnchored' /\ CheckpointIsTrue'
  BY DEF CountersAreAnchored, CheckpointIsTrue, Anchored, RowIsPending, roomVars
<1> QED
  BY <1>2, <1>3, <1>4, <1>5, <1>6

\* With the next deployment nothing that was found out about one before it
\* is claimed any more.
LEMMA DeployKeeps ==
  ASSUME DrillInv, Deploy, UNCHANGED rest
  PROVE  DrillInv'
<1> USE DEF DrillInv, Deploy, rest
<1>1. TypeOK'
  BY DEF TypeOK, roomVars
<1>2. PhasesAreOrdered'
  BY DEF PhasesAreOrdered, FaultIsReviewed
<1>3. TailIsOfPhase' /\ ProofIsSeeds'
  BY SeenUnchanged DEF TailIsOfPhase, ProofIsSeeds
<1>4. FollowsDeployment'
  BY <1>1 DEF FollowsDeployment, TypeOK, Checkpoints, NoCheckpoint
<1>5. SeedIsOwn'
  BY SeenUnchanged DEF SeedIsOwn, roomVars
<1>6. ObjectIsFault' /\ JoinWaits'
  BY DEF FollowsDeployment, ObjectIsFault, JoinWaits, TypeOK
<1>7. DrainIsCounted' /\ DrainIsTraced'
  BY SeenUnchanged DEF DrainIsCounted, DrainIsTraced, roomVars
<1>8. CountersAreAnchored'
  BY DEF CountersAreAnchored, Anchored, roomVars
<1>9. CheckpointIsTrue'
  <2>1. checkpoint.state = "whole" => checkpoint.at \in Nat
    BY DEF TypeOK, Checkpoints, NoCheckpoint
  <2> QED
    BY <2>1 DEF CheckpointIsTrue, FollowsDeployment, TypeOK
<1> QED
  BY <1>1, <1>2, <1>3, <1>4, <1>5, <1>6, <1>7, <1>8, <1>9

\* An object that runs the only version deployed goes on doing so.
LEMMA ConvergeKeeps ==
  ASSUME DrillInv, Converge, UNCHANGED rest
  PROVE  DrillInv'
<1> USE DEF DrillInv, Converge, rest
<1>1. TypeOK'
  BY DEF TypeOK, roomVars
<1>2. Alone("fault") => object' \in {object, "fault"}
  BY DEF Alone
<1>3. PhasesAreOrdered'
  BY DEF PhasesAreOrdered, FaultIsReviewed
<1>4. TailIsOfPhase' /\ ProofIsSeeds' /\ FollowsDeployment'
  BY SeenUnchanged DEF TailIsOfPhase, ProofIsSeeds, FollowsDeployment, Alone
<1>5. SeedIsOwn' /\ JoinWaits' /\ DrainIsCounted' /\ DrainIsTraced'
  BY SeenUnchanged DEF SeedIsOwn, JoinWaits, DrainIsCounted, DrainIsTraced,
     RowIsPending, roomVars
<1>6. ObjectIsFault'
  BY <1>2, SeenUnchanged DEF ObjectIsFault, FollowsDeployment
<1>7. CountersAreAnchored'
  BY DEF CountersAreAnchored, Anchored, roomVars
<1>8. CheckpointIsTrue'
  BY <1>2 DEF CheckpointIsTrue, FollowsDeployment, RowIsPending, roomVars
<1> QED
  BY <1>1, <1>3, <1>4, <1>5, <1>6, <1>7, <1>8

\* An event is counted once: what it adds is there, and nothing else is.
LEMMA ApplyCounts ==
  ASSUME TypeOK, NEW event \in Events, NEW how \in {"receipt", "legacy"},
         Apply(event, how)
  PROVE  /\ counts' \in Counts /\ applied' \in [Events -> Hows]
         /\ \A other \in Events : other # event => applied'[other] = applied[other]
         /\ applied[event] # "no" => applied'[event] = applied[event]
         /\ \A f \in Fields :
              counts'[f] + Effect(event, applied[event])[f]
                = counts[f] + Effect(event, applied'[event])[f]
<1>1. \A f \in Fields, h \in Hows : Effect(event, h)[f] \in {0, 1}
  BY EffectsAreTold
<1>2. \A f \in Fields : counts[f] \in Int
  BY DEF TypeOK, Counts
<1>3. applied \in [Events -> Hows] /\ how \in Hows
  BY DEF TypeOK, Hows
<1>4. CASE applied[event] = "no"
  <2>1. /\ applied' = [applied EXCEPT ![event] = how]
        /\ counts' = Plus(counts, Effect(event, how))
    BY <1>4 DEF Apply
  <2>2. applied' \in [Events -> Hows] /\ applied'[event] = how
    BY <2>1, <1>3
  <2>3. \A f \in Fields : counts'[f] = counts[f] + Effect(event, how)[f]
    BY <2>1 DEF Plus
  <2>4. counts' \in Counts
    BY <2>1, <1>1, <1>2, <1>3 DEF Plus, Counts
  <2>5. \A f \in Fields : Effect(event, "no")[f] = 0
    BY NoEffect
  <2>6. \A f \in Fields : counts'[f] + Effect(event, applied[event])[f]
                            = counts[f] + Effect(event, applied'[event])[f]
    BY <1>1, <1>2, <1>3, <1>4, <2>2, <2>3, <2>5
  <2>7. \A other \in Events : other # event => applied'[other] = applied[other]
    BY <2>1, <1>3
  <2> QED
    BY <1>4, <2>2, <2>4, <2>6, <2>7
<1>5. CASE applied[event] # "no"
  BY <1>5 DEF Apply, TypeOK
<1> QED
  BY <1>4, <1>5

\* The counters stay anchored when only what may move them does.
LEMMA AnchoredApply ==
  ASSUME TypeOK, NEW event \in {"join", "control"}, NEW how \in {"receipt", "legacy"},
         Apply(event, how), UNCHANGED noise,
         pending' \in {<<>>, <<"join">>}, background' \subseteq background,
         NEW counters \in Counts, NEW foreign \in Nat, Anchored(counters, foreign)
  PROVE  Anchored(counters, foreign)'
<1>1. ASSUME noise = foreign, NEW f \in Fields
      PROVE  counts'[f] = counters[f] + Effect("join", applied'["join"])[f]
                          + Effect("control", applied'["control"])[f]
  <2> DEFINE before(e) == Effect(e, applied[e])[f]
             after(e) == Effect(e, applied'[e])[f]
  <2>1. {"join", "control"} \subseteq Events
    BY DEF Events
  <2>2. /\ applied \in [Events -> Hows] /\ applied' \in [Events -> Hows]
        /\ counts[f] \in Int /\ counts'[f] \in Int /\ counters[f] \in Int
    BY <2>1, ApplyCounts DEF TypeOK, Counts
  <2>3. \A e \in {"join", "control"} : before(e) \in {0, 1} /\ after(e) \in {0, 1}
    BY <2>1, <2>2, EffectsAreTold
  <2>4. counts'[f] + before(event) = counts[f] + after(event)
    BY <2>1, ApplyCounts
  <2>5. \A e \in {"join", "control"} : e # event => after(e) = before(e)
    BY <2>1, ApplyCounts
  <2>6. counts[f] = counters[f] + before("join") + before("control")
    BY <1>1 DEF Anchored
  <2> HIDE DEF before, after
  <2>7. counts'[f] = counters[f] + after("join") + after("control")
    <3>1. CASE event = "join"
      BY <3>1, <2>2, <2>3, <2>4, <2>5, <2>6
    <3>2. CASE event = "control"
      BY <3>2, <2>2, <2>3, <2>4, <2>5, <2>6
    <3> QED
      BY <3>1, <3>2
  <2> QED
    BY <2>7 DEF after
<1>2. \A write \in background' : write.event = "control"
  BY DEF Anchored
<1> QED
  BY <1>1, <1>2 DEF Anchored

\* The fault version delivers nothing: where the object runs it, the counters
\* and the outbox stay.
LEMMA RowsOfQueue ==
  ASSUME NEW queue \in Queues, queue # <<>>
  PROVE  /\ Head(queue) \in {"create", "join"} /\ Tail(queue) \in Queues
         /\ queue \in {<<>>, <<"create">>} => Head(queue) = "create" /\ Tail(queue) = <<>>
         /\ queue \in {<<>>, <<"join">>} => Head(queue) = "join" /\ Tail(queue) = <<>>
<1>1. /\ Head(<<"create">>) = "create" /\ Tail(<<"create">>) = <<>>
      /\ Head(<<"join">>) = "join" /\ Tail(<<"join">>) = <<>>
      /\ Head(<<"create", "join">>) = "create"
      /\ Tail(<<"create", "join">>) = <<"join">>
  OBVIOUS
<1>2. <<"create">> # <<"join">> /\ <<"create", "join">> # <<"create">>
      /\ <<"create", "join">> # <<"join">> /\ <<"create">> # <<>> /\ <<"join">> # <<>>
  OBVIOUS
<1>3. CASE queue = <<"create">>
  BY <1>1, <1>2, <1>3 DEF Queues
<1>4. CASE queue = <<"join">>
  BY <1>1, <1>2, <1>4 DEF Queues
<1>5. CASE queue = <<"create", "join">>
  <2>1. <<"create", "join">> # <<>>
    OBVIOUS
  <2>2. Head(queue) = "create" /\ Tail(queue) = <<"join">>
    BY <1>1, <1>5
  <2> QED
    BY <1>2, <1>5, <2>1, <2>2 DEF Queues
<1> QED
  BY <1>3, <1>4, <1>5 DEF Queues

\* Whom the invariant anchors the counters for.
LEMMA VerifyIsAnchored ==
  ASSUME DrillInv, pc \in InVerify \ {"removeConfig"}, proof = "seed" \/ noise = mark
  PROVE  /\ proof = "seed"
         /\ Anchored(checkpoint.base, checkpoint.mark)
  BY DEF DrillInv, PhasesAreOrdered, ProofIsSeeds, CountersAreAnchored, TypeOK

LEMMA CheckpointType ==
  ASSUME TypeOK, checkpoint.state = "whole"
  PROVE  checkpoint.base \in Counts /\ checkpoint.mark \in Nat
  BY DEF TypeOK, Checkpoints, NoCheckpoint

\* While a deployment of the fault version is followed, the row's object has
\* no database.
LEMMA NoDatabase ==
  ASSUME DrillInv, object = "fault", pc # "idle" \/ checkpoint.state = "whole"
  PROVE  ~Resources(object).db
  BY FaultHasNoDatabase DEF DrillInv, PhasesAreOrdered

LEMMA AlarmDeliversKeeps ==
  ASSUME DrillInv, AlarmDelivers, UNCHANGED rest
  PROVE  DrillInv'
<1> USE DEF DrillInv, AlarmDelivers, rest
<1> DEFINE doc == Trace("seed", "alarm", 0)
           row == Head(pending)
<1>1. doc \in Doc /\ doc.who = "seed" /\ doc.what = "alarm" /\ doc.logs = 0
  BY TraceType
<1>2. /\ row \in {"create", "join"} /\ pending' \in Queues
      /\ pending \in {<<>>, <<"create">>} => row = "create" /\ pending' = <<>>
      /\ pending \in {<<>>, <<"join">>} => row = "join" /\ pending' = <<>>
  BY RowsOfQueue DEF TypeOK
<1>3. row \in Events
  BY <1>2 DEF Events
<1>4. Apply(row, "receipt") /\ Emit(object, doc)
  OBVIOUS
<1> HIDE DEF doc, row
<1>5. /\ tail' \in [version : Versions \cup {"none"}, docs : Seq(Doc)]
      /\ tail'.version = tail.version
      /\ tail.version # object => tail' = tail
      /\ SeedCreated' => SeedCreated
      /\ SeedAlarmed' => SeedAlarmed \/ SeedCreated
      /\ ForeignSeen' => ForeignSeen
      /\ SeedStated' => SeedStated
      /\ SeedJoined' => SeedJoined
      /\ CleanAlarm' => CleanAlarm \/ tail.version = object
  BY <1>1, <1>4, Traced
<1>6. /\ counts' \in Counts /\ applied' \in [Events -> Hows]
      /\ \A other \in Events : other # row => applied'[other] = applied[other]
      /\ applied[row] # "no" => applied'[row] = applied[row]
  BY <1>3, <1>4, ApplyCounts
<1>7. ASSUME NEW counters \in Counts, NEW foreign \in Nat, Anchored(counters, foreign)
      PROVE  Anchored(counters, foreign)'
  <2>1. row = "join" /\ pending' = <<>>
    BY <1>2, <1>7 DEF Anchored
  <2> QED
    BY <1>4, <1>7, <2>1, AnchoredApply
<1>8. ~(object = "fault" /\ (pc # "idle" \/ checkpoint.state = "whole"))
  BY NoDatabase
<1>9. TypeOK'
  BY <1>2, <1>5, <1>6 DEF TypeOK
<1>10. PhasesAreOrdered'
  BY DEF PhasesAreOrdered, FaultIsReviewed
<1>11. TailIsOfPhase' /\ ProofIsSeeds' /\ FollowsDeployment'
  BY <1>5 DEF TailIsOfPhase, NoTail, ProofIsSeeds, FollowsDeployment, Alone,
     TypeOK, Versions
<1>12. SeedIsOwn'
  BY <1>2, <1>5, <1>6 DEF SeedIsOwn, Events
<1>13. ObjectIsFault' /\ JoinWaits'
  BY <1>5, <1>8 DEF ObjectIsFault, JoinWaits
<1>14. CountersAreAnchored' /\ CheckpointIsTrue'
  BY <1>7, <1>8, CheckpointType DEF CountersAreAnchored, CheckpointIsTrue, TypeOK
<1>15. DrainIsCounted'
  <2>1. CASE noise = mark /\ pc \in InVerify \ {"removeConfig"}
    <3>1. row = "join"
      BY <1>2, <2>1, VerifyIsAnchored DEF Anchored
    <3>2. applied["join"] # "no" => UNCHANGED <<applied, counts>>
      BY <1>4, <3>1 DEF Apply
    <3> QED
      BY <3>2 DEF DrainIsCounted
  <2> QED
    BY <2>1 DEF DrainIsCounted
<1>16. DrainIsTraced'
  <2>1. CASE proof = "seed" /\ pc \in InVerify \ {"removeConfig"}
    <3>1. pending' = <<>> /\ drainedBy' = object
      BY <1>2, <2>1, VerifyIsAnchored DEF Anchored, row
    <3> QED
      BY <1>5, <3>1 DEF DrainIsTraced, TailIsOfPhase
  <2> QED
    BY <2>1 DEF DrainIsTraced
<1> QED
  BY <1>9, <1>10, <1>11, <1>12, <1>13, <1>14, <1>15, <1>16

LEMMA AlarmFailsKeeps ==
  ASSUME DrillInv, AlarmFails, UNCHANGED rest
  PROVE  DrillInv'
<1> USE DEF DrillInv, AlarmFails, rest
<1> DEFINE doc == Trace("seed", "alarm", attempts + 1)
           row == Head(pending)
<1>1. /\ doc \in Doc /\ doc.who = "seed" /\ doc.what = "alarm"
      /\ doc.logs = attempts + 1 /\ attempts \in Nat
  BY TraceType DEF TypeOK
<1>2. /\ row \in {"create", "join"}
      /\ pending \in {<<>>, <<"create">>} => row = "create"
      /\ pending \in {<<>>, <<"join">>} => row = "join"
  BY RowsOfQueue DEF TypeOK
<1>3. row \in Events
  BY <1>2 DEF Events
<1>4. /\ UNCHANGED <<applied, counts>> \/ (Resources(object).db /\ Apply(row, "receipt"))
      /\ Emit(object, doc)
      /\ failures' \in Nat
  BY DEF TypeOK
<1> HIDE DEF doc, row
<1>5. /\ tail' \in [version : Versions \cup {"none"}, docs : Seq(Doc)]
      /\ tail'.version = tail.version
      /\ tail.version # object => tail' = tail
      /\ SeedCreated' => SeedCreated
      /\ ForeignSeen' => ForeignSeen
      /\ SeedStated' => SeedStated
      /\ SeedJoined' => SeedJoined
      /\ JoinRetried' => JoinRetried \/ attempts = 0
      /\ CleanAlarm' => CleanAlarm
  BY <1>1, <1>4, Traced
<1>6. /\ counts' \in Counts /\ applied' \in [Events -> Hows]
      /\ \A other \in Events : other # row => applied'[other] = applied[other]
      /\ applied[row] # "no" => applied'[row] = applied[row]
  BY <1>3, <1>4, ApplyCounts DEF TypeOK
<1>7. ASSUME NEW counters \in Counts, NEW foreign \in Nat, Anchored(counters, foreign)
      PROVE  Anchored(counters, foreign)'
  <2>1. row = "join" /\ pending' \in {<<>>, <<"join">>}
    BY <1>2, <1>7 DEF Anchored
  <2>2. CASE UNCHANGED <<applied, counts>>
    BY <1>7, <2>2 DEF Anchored
  <2>3. CASE Apply(row, "receipt")
    BY <1>7, <2>1, <2>3, AnchoredApply
  <2> QED
    BY <1>4, <2>2, <2>3
<1>8. object = "fault" /\ (pc # "idle" \/ checkpoint.state = "whole") =>
        UNCHANGED <<applied, counts>>
  BY <1>4, NoDatabase
<1>9. TypeOK'
  BY <1>1, <1>4, <1>5, <1>6 DEF TypeOK
<1>10. PhasesAreOrdered'
  BY DEF PhasesAreOrdered, FaultIsReviewed
<1>11. TailIsOfPhase' /\ ProofIsSeeds' /\ FollowsDeployment'
  BY <1>5 DEF TailIsOfPhase, NoTail, ProofIsSeeds, FollowsDeployment, Alone,
     TypeOK, Versions
<1>12. SeedIsOwn'
  BY <1>1, <1>2, <1>5, <1>6 DEF SeedIsOwn, Events
<1>13. ObjectIsFault'
  BY <1>5 DEF ObjectIsFault
<1>14. JoinWaits'
  BY <1>1, <1>5, <1>8 DEF ObjectIsFault, JoinWaits, RowIsPending
<1>15. CountersAreAnchored'
  BY <1>7, CheckpointType DEF CountersAreAnchored, TypeOK
<1>16. CheckpointIsTrue'
  BY <1>1, <1>8 DEF CheckpointIsTrue, RowIsPending
<1>17. DrainIsCounted'
  <2>1. CASE noise = mark /\ pc \in InVerify \ {"removeConfig"}
    <3>1. row = "join"
      BY <1>2, <2>1, VerifyIsAnchored DEF Anchored
    <3>2. applied["join"] # "no" => UNCHANGED <<applied, counts>>
      BY <1>4, <3>1 DEF Apply
    <3> QED
      BY <3>2 DEF DrainIsCounted
  <2> QED
    BY <2>1 DEF DrainIsCounted
<1>18. DrainIsTraced'
  BY <1>5 DEF DrainIsTraced
<1> QED
  BY <1>9, <1>10, <1>11, <1>12, <1>13, <1>14, <1>15, <1>16, <1>17, <1>18

LEMMA AlarmRepeatsKeeps ==
  ASSUME DrillInv, AlarmRepeats, UNCHANGED rest
  PROVE  DrillInv'
<1> USE DEF DrillInv, AlarmRepeats, rest
<1> DEFINE doc == Trace("seed", "alarm", 0)
<1>1. doc \in Doc /\ doc.who = "seed" /\ doc.what = "alarm" /\ doc.logs = 0
  BY TraceType
<1>2. Emit(object, doc)
  OBVIOUS
<1> HIDE DEF doc
<1>3. /\ tail' \in [version : Versions \cup {"none"}, docs : Seq(Doc)]
      /\ tail'.version = tail.version
      /\ tail.version # object => tail' = tail
      /\ SeedCreated' => SeedCreated
      /\ ForeignSeen' => ForeignSeen
      /\ SeedStated' => SeedStated
      /\ SeedJoined' => SeedJoined
      /\ JoinRetried' => JoinRetried
  BY <1>1, <1>2, Traced
<1>4. TypeOK'
  BY <1>3 DEF TypeOK, roomVars
<1>5. PhasesAreOrdered'
  BY DEF PhasesAreOrdered, FaultIsReviewed
<1>6. TailIsOfPhase' /\ ProofIsSeeds' /\ FollowsDeployment'
  BY <1>3 DEF TailIsOfPhase, NoTail, ProofIsSeeds, FollowsDeployment, Alone,
     TypeOK, Versions
<1>7. SeedIsOwn' /\ ObjectIsFault' /\ JoinWaits'
  BY <1>3 DEF SeedIsOwn, ObjectIsFault, JoinWaits, RowIsPending, roomVars
<1>8. CountersAreAnchored' /\ CheckpointIsTrue'
  BY DEF CountersAreAnchored, CheckpointIsTrue, Anchored, RowIsPending, roomVars
<1>9. DrainIsCounted'
  BY DEF DrainIsCounted
<1>10. DrainIsTraced'
  BY DEF DrainIsTraced, TypeOK
<1> QED
  BY <1>4, <1>5, <1>6, <1>7, <1>8, <1>9, <1>10

\* What is still to be written of the drill's rooms is the create's before the
\* join, nothing until the checkpoint, and the control room's after it.
LEMMA BackgroundSettlesKeeps ==
  ASSUME DrillInv, BackgroundSettles, UNCHANGED rest
  PROVE  DrillInv'
<1> USE DEF DrillInv, BackgroundSettles, rest
<1>1. PICK write \in background :
        /\ background' = background \ {write}
        /\ \/ Apply(write.event, write.how)
           \/ UNCHANGED <<applied, counts>>
  OBVIOUS
<1>2. write.event \in Events /\ write.how \in {"receipt", "legacy"}
  BY DEF TypeOK, Write_
<1>3. /\ counts' \in Counts /\ applied' \in [Events -> Hows]
      /\ \A other \in Events : other # write.event => applied'[other] = applied[other]
      /\ applied[write.event] # "no" => applied'[write.event] = applied[write.event]
      /\ \A f \in Fields :
           counts'[f] + Effect(write.event, applied[write.event])[f]
             = counts[f] + Effect(write.event, applied'[write.event])[f]
  <2>1. CASE Apply(write.event, write.how)
    BY <1>2, <2>1, ApplyCounts
  <2>2. CASE UNCHANGED <<applied, counts>>
    BY <2>2 DEF TypeOK
  <2> QED
    BY <1>1, <2>1, <2>2
<1>4. ASSUME NEW counters \in Counts, NEW foreign \in Nat, Anchored(counters, foreign)
      PROVE  Anchored(counters, foreign)' /\ write.event = "control"
  <2>1. write.event = "control"
    BY <1>4 DEF Anchored
  <2>2. CASE UNCHANGED <<applied, counts>>
    BY <1>1, <1>4, <2>1, <2>2 DEF Anchored, roomVars
  <2>3. CASE Apply(write.event, write.how)
    <3>1. pending' \in {<<>>, <<"join">>} /\ background' \subseteq background
      BY <1>1, <1>4 DEF Anchored, roomVars
    <3> QED
      BY <1>2, <1>4, <2>1, <2>3, <3>1, AnchoredApply
  <2> QED
    BY <1>1, <2>1, <2>2, <2>3
<1>5. TypeOK'
  BY <1>1, <1>3 DEF TypeOK, roomVars
<1>6. PhasesAreOrdered'
  BY DEF PhasesAreOrdered, FaultIsReviewed
<1>7. TailIsOfPhase' /\ ProofIsSeeds' /\ FollowsDeployment'
  BY SeenUnchanged DEF TailIsOfPhase, ProofIsSeeds, FollowsDeployment, Alone
<1>8. SeedIsOwn'
  BY <1>1, <1>3, SeenUnchanged DEF SeedIsOwn, Events, roomVars
<1>9. ObjectIsFault' /\ DrainIsTraced'
  BY SeenUnchanged DEF ObjectIsFault, DrainIsTraced, roomVars
<1>10. pc \in Writing /\ proof = "seed" => applied'["join"] = applied["join"]
  BY <1>3, <1>4 DEF CountersAreAnchored, TypeOK, Events
<1>11. JoinWaits'
  BY <1>1, <1>10, SeenUnchanged DEF JoinWaits, RowIsPending, roomVars
<1>12. CountersAreAnchored'
  BY <1>4, CheckpointType DEF CountersAreAnchored, TypeOK
<1>13. CheckpointIsTrue'
  <2>1. checkpoint.state = "whole" /\ checkpoint.proof = "seed" =>
          applied'["join"] = applied["join"]
    BY <1>3, <1>4, CheckpointType DEF CountersAreAnchored, Events
  <2> QED
    BY <2>1 DEF CheckpointIsTrue, RowIsPending, roomVars
<1>14. DrainIsCounted'
  <2>1. CASE noise = mark /\ pc \in InVerify \ {"removeConfig"}
    <3>1. write.event = "control"
      BY <1>4, <2>1, VerifyIsAnchored, CheckpointType DEF PhasesAreOrdered
    <3>2. applied'["join"] = applied["join"]
      BY <1>3, <3>1 DEF Events
    <3>3. applied["control"] # "no" => applied'["control"] = applied["control"]
      BY <1>3, <3>1
    <3>4. ASSUME NEW f \in Fields, counts[f] = base[f] + Effect("control", applied["control"])[f]
          PROVE  counts'[f] = base[f] + Effect("control", applied'["control"])[f]
      <4>1. counts[f] \in Int /\ counts'[f] \in Int /\ base[f] \in Int
        BY <1>5 DEF TypeOK, Counts
      <4>2. /\ Effect("control", applied["control"])[f] \in {0, 1}
            /\ Effect("control", applied'["control"])[f] \in {0, 1}
        BY <1>3, EffectsAreTold DEF TypeOK, Events
      <4>3. counts'[f] + Effect("control", applied["control"])[f]
              = counts[f] + Effect("control", applied'["control"])[f]
        BY <1>3, <3>1
      <4> QED
        BY <3>4, <4>1, <4>2, <4>3
    <3> QED
      BY <3>2, <3>3, <3>4 DEF DrainIsCounted
  <2> QED
    BY <2>1 DEF DrainIsCounted
<1> QED
  BY <1>5, <1>6, <1>7, <1>8, <1>9, <1>11, <1>12, <1>13, <1>14

\* Foreign traffic ends every claim about the counters.
LEMMA OtherWritesKeeps ==
  ASSUME DrillInv, OtherWrites, UNCHANGED rest
  PROVE  DrillInv'
<1> USE DEF DrillInv, OtherWrites, rest
<1>1. counts' \in Counts
  <2>1. \A f \in Fields : counts[f] \in Int
    BY DEF TypeOK, Counts
  <2>2. CASE \E d \in {CreateOnly, JoinOnly, LegacyCreate, Ones({"games"})} :
               counts' = Plus(counts, d)
    <3>1. \A d \in {CreateOnly, JoinOnly, LegacyCreate, Ones({"games"})} :
            \A f \in Fields : d[f] \in Int
      BY DEF CreateOnly, JoinOnly, LegacyCreate, Ones
    <3>2. PICK d \in {CreateOnly, JoinOnly, LegacyCreate, Ones({"games"})} :
            counts' = [f \in Fields |-> counts[f] + d[f]]
      BY <2>2 DEF Plus
    <3>3. \A f \in Fields : counts[f] + d[f] \in Int
      BY <2>1, <3>1
    <3> QED
      BY <3>2, <3>3 DEF Counts
  <2>3. CASE \E f \in {"receipts", "facts"} : counts' = [counts EXCEPT ![f] = @ - 1]
    <3>1. PICK f \in {"receipts", "facts"} : counts' = [counts EXCEPT ![f] = @ - 1]
      BY <2>3
    <3>2. f \in Fields /\ counts \in [Fields -> Int]
      BY DEF Fields, TypeOK, Counts
    <3> QED
      BY <3>1, <3>2 DEF Counts
  <2>4. CASE counts' = [f \in Fields |-> IF f \in {"receipts", "facts"} THEN counts[f] ELSE 0]
    BY <2>1, <2>4 DEF Counts
  <2> QED
    BY <2>2, <2>3, <2>4
<1>2. noise' \in Nat /\ noise' > noise /\ mark <= noise
  BY DEF TypeOK, ProofIsSeeds
<1>3. TypeOK'
  BY <1>1, <1>2 DEF TypeOK, roomVars
<1>4. PhasesAreOrdered'
  BY DEF PhasesAreOrdered, FaultIsReviewed
<1>5. TailIsOfPhase' /\ FollowsDeployment'
  BY SeenUnchanged DEF TailIsOfPhase, FollowsDeployment, Alone
<1>6. ProofIsSeeds'
  BY <1>2, CheckpointType, SeenUnchanged DEF ProofIsSeeds, TypeOK
<1>7. SeedIsOwn' /\ ObjectIsFault' /\ JoinWaits' /\ CheckpointIsTrue' /\ DrainIsTraced'
  BY SeenUnchanged DEF SeedIsOwn, ObjectIsFault, JoinWaits, CheckpointIsTrue,
     DrainIsTraced, RowIsPending, roomVars
<1>8. CountersAreAnchored'
  BY <1>2, CheckpointType DEF CountersAreAnchored, Anchored, ProofIsSeeds, TypeOK, roomVars
<1>9. DrainIsCounted'
  BY <1>2 DEF DrainIsCounted, TypeOK
<1> QED
  BY <1>3, <1>4, <1>5, <1>6, <1>7, <1>8, <1>9

LEMMA OtherTracesKeeps ==
  ASSUME DrillInv, OtherTraces, UNCHANGED rest
  PROVE  DrillInv'
<1> USE DEF DrillInv, OtherTraces, rest
<1>1. PICK what \in {"head", "create", "state", "join", "alarm"}, logs \in 0 .. 1 :
        tail' = [tail EXCEPT !.docs = Append(@, Trace("other", what, logs))]
  OBVIOUS
<1> DEFINE doc == Trace("other", what, logs)
<1>2. doc \in Doc /\ doc.who = "other"
  BY TraceType
<1> HIDE DEF doc
<1>3. tail' = [tail EXCEPT !.docs = Append(@, doc)]
  BY <1>1 DEF doc
<1>4. tail' = [version |-> tail'.version, docs |-> tail'.docs]
  BY <1>3 DEF TypeOK
<1>5. /\ tail' \in [version : Versions \cup {"none"}, docs : Seq(Doc)]
      /\ tail'.version = tail.version
      /\ SeedCreated' => SeedCreated
      /\ SeedAlarmed' => SeedAlarmed
      /\ SeedStated' => SeedStated
      /\ SeedJoined' => SeedJoined
      /\ JoinRetried' => JoinRetried
      /\ CleanAlarm' => CleanAlarm
  BY <1>2, <1>3, <1>4, EmitSees DEF TypeOK
<1>6. noise' \in Nat /\ noise' > noise /\ mark <= noise
  BY DEF TypeOK, ProofIsSeeds
<1>7. tail.version # "none"
  BY DEF TypeOK, Versions
<1>8. TypeOK'
  BY <1>5, <1>6 DEF TypeOK, roomVars
<1>9. PhasesAreOrdered'
  BY DEF PhasesAreOrdered, FaultIsReviewed
<1>10. TailIsOfPhase' /\ FollowsDeployment'
  BY <1>5, <1>7 DEF TailIsOfPhase, NoTail, FollowsDeployment, Alone
<1>11. ProofIsSeeds'
  BY <1>6, CheckpointType DEF ProofIsSeeds, TypeOK
<1>12. SeedIsOwn' /\ ObjectIsFault' /\ JoinWaits' /\ CheckpointIsTrue' /\ DrainIsTraced'
  BY <1>5 DEF SeedIsOwn, ObjectIsFault, JoinWaits, CheckpointIsTrue, DrainIsTraced,
     RowIsPending, roomVars
<1>13. CountersAreAnchored'
  BY <1>6, CheckpointType DEF CountersAreAnchored, Anchored, ProofIsSeeds, TypeOK, roomVars
<1>14. DrainIsCounted'
  BY <1>6 DEF DrainIsCounted, TypeOK
<1> QED
  BY <1>8, <1>9, <1>10, <1>11, <1>12, <1>13, <1>14

---------------------------------------------------------------------------
(* Steps that only go on, or end the phase *)

LEMMA MoveKeeps ==
  ASSUME DrillInv, UNCHANGED <<siteVars, checkpoint, started>>,
         NEW region \in Regions, pc \in region,
         Ends \/ (pc' \in region /\ UNCHANGED memory)
  PROVE  DrillInv'
<1>1. CASE Ends
  BY <1>1, EndsKeeps
<1>2. CASE pc' \in region /\ UNCHANGED memory
  BY <1>2, RegionKeeps DEF DrillInv, TypeOK
<1> QED
  BY <1>1, <1>2

Moves ==
  \/ Readiness \/ ReadySeed \/ Probed \/ ReadyAgain \/ Guest \/ ReadyFault
  \/ FaultStatus \/ BeforeJoin \/ Joined \/ Settled \/ StillFault
  \/ ReadyRollback \/ AwaitRollback \/ RollbackStatus \/ Drained

LEMMA MovesKeep ==
  ASSUME DrillInv, Moves
  PROVE  DrillInv'
<1> USE DEF Check, Await, Regions
<1>1. CASE Readiness
  BY <1>1, MoveKeeps DEF Readiness
<1>2. CASE ReadySeed
  BY <1>2, MoveKeeps DEF ReadySeed
<1>3. CASE Probed
  BY <1>3, MoveKeeps DEF Probed
<1>4. CASE ReadyAgain
  BY <1>4, MoveKeeps DEF ReadyAgain
<1>5. CASE Guest
  BY <1>5, MoveKeeps DEF Guest
<1>6. CASE ReadyFault
  BY <1>6, MoveKeeps DEF ReadyFault
<1>7. CASE FaultStatus
  BY <1>7, MoveKeeps DEF FaultStatus
<1>8. CASE BeforeJoin
  BY <1>8, MoveKeeps DEF BeforeJoin
<1>9. CASE Joined
  BY <1>9, MoveKeeps DEF Joined
<1>10. CASE Settled
  BY <1>10, MoveKeeps DEF Settled
<1>11. CASE StillFault
  BY <1>11, MoveKeeps DEF StillFault
<1>12. CASE ReadyRollback
  BY <1>12, MoveKeeps DEF ReadyRollback
<1>13. CASE AwaitRollback
  BY <1>13, MoveKeeps DEF AwaitRollback
<1>14. CASE RollbackStatus
  BY <1>14, MoveKeeps DEF RollbackStatus
<1>15. CASE Drained
  BY <1>15, MoveKeeps DEF Drained
<1> QED
  BY <1>1, <1>2, <1>3, <1>4, <1>5, <1>6, <1>7, <1>8, <1>9, <1>10, <1>11, <1>12,
     <1>13, <1>14, <1>15 DEF Moves

LEMMA FilesKeep ==
  ASSUME DrillInv, MakeFaultConfig \/ RemoveConfig \/ OperatorClears
  PROVE  DrillInv'
<1>1. started \in Nat
  BY DEF DrillInv, TypeOK
<1>2. CASE MakeFaultConfig
  BY <1>1, <1>2, ConfigKeeps DEF MakeFaultConfig
<1>3. CASE RemoveConfig
  BY <1>1, <1>3, ConfigKeeps DEF RemoveConfig, Ends
<1>4. CASE OperatorClears
  BY <1>1, <1>4, ConfigKeeps DEF OperatorClears
<1> QED
  BY <1>2, <1>3, <1>4

LEMMA StutterKeeps ==
  ASSUME DrillInv, UNCHANGED vars
  PROVE  DrillInv'
<1> USE DEF DrillInv, vars
<1>1. TypeOK'
  BY DEF TypeOK, siteVars, roomVars
<1>2. PhasesAreOrdered' /\ TailIsOfPhase' /\ ProofIsSeeds' /\ FollowsDeployment'
  BY SiteUnchanged, SeenUnchanged DEF PhasesAreOrdered, TailIsOfPhase,
     ProofIsSeeds, FollowsDeployment, siteVars
<1>3. SeedIsOwn' /\ ObjectIsFault' /\ JoinWaits' /\ DrainIsCounted' /\ DrainIsTraced'
  BY SiteUnchanged, SeenUnchanged DEF SeedIsOwn, ObjectIsFault, JoinWaits,
     DrainIsCounted, DrainIsTraced, siteVars, roomVars
<1>4. CountersAreAnchored' /\ CheckpointIsTrue'
  BY SiteUnchanged DEF CountersAreAnchored, CheckpointIsTrue, siteVars
<1> QED
  BY <1>1, <1>2, <1>3, <1>4

---------------------------------------------------------------------------
(* The theorems *)

LEMMA InitKeeps ==
  ASSUME Init
  PROVE  DrillInv
<1> USE DEF Init, SiteInit
<1>1. TypeOK
  <2>1. counts \in Counts /\ base \in Counts
    BY DEF Counts, Zero, Ones
  <2>2. applied \in [Events -> Hows]
    BY DEF Hows
  <2>3. tail \in [version : Versions \cup {"none"}, docs : Seq(Doc)]
    BY DEF NoTail
  <2>4. uploaded \in {NoUpload} \cup Uploads /\ checkpoint \in Checkpoints
    BY DEF Checkpoints
  <2> QED
    BY <2>1, <2>2, <2>3, <2>4 DEF TypeOK, Versions, Queues
<1>2. PhasesAreOrdered /\ TailIsOfPhase /\ ProofIsSeeds /\ FollowsDeployment
  BY DEF PhasesAreOrdered, TailIsOfPhase, ProofIsSeeds, FollowsDeployment,
     NoTail, NoCheckpoint
<1>3. SeedIsOwn /\ ObjectIsFault /\ JoinWaits /\ DrainIsCounted /\ DrainIsTraced
  BY DEF SeedIsOwn, ObjectIsFault, JoinWaits, DrainIsCounted, DrainIsTraced
<1>4. CountersAreAnchored /\ CheckpointIsTrue
  BY DEF CountersAreAnchored, CheckpointIsTrue, NoCheckpoint
<1> QED
  BY <1>1, <1>2, <1>3, <1>4 DEF DrillInv

LEMMA SiteKeeps ==
  ASSUME DrillInv, Site
  PROVE  DrillInv'
<1>1. SiteNext /\ UNCHANGED rest
  BY DEF Site, rest
<1> QED
  BY <1>1, UploadKeeps, DeployKeeps, ConvergeKeeps, AlarmDeliversKeeps,
     AlarmFailsKeeps, AlarmRepeatsKeeps, BackgroundSettlesKeeps,
     OtherWritesKeeps, OtherTracesKeeps DEF SiteNext

LEMMA PrepareKeeps ==
  ASSUME DrillInv, Prepare
  PROVE  DrillInv'
<1>1. CASE Moves
  BY <1>1, MovesKeep
<1>2. CASE ~Moves
  BY <1>2, StartPrepareKeeps, ReadBeforeKeeps, AttachSeedKeeps, ProbeKeeps,
     CreateSeedKeeps, SeedProofKeeps, SeedDrainKeeps, AttachFaultKeeps,
     AwaitActivationKeeps, FaultSnapshotKeeps, ReadStateKeeps, StatedKeeps,
     JoinKeeps, JoinProofKeeps, SettledAgainKeeps, WriteKeeps, WrittenKeeps
     DEF Prepare, Moves
<1> QED
  BY <1>1, <1>2

LEMMA VerifyKeeps ==
  ASSUME DrillInv, Verify
  PROVE  DrillInv'
<1>1. CASE Moves
  BY <1>1, MovesKeep
<1>2. CASE ~Moves
  BY <1>2, StartVerifyKeeps, AttachRollbackKeeps, JoinDrainKeeps, AlarmProofKeeps,
     CreateControlKeeps, ControlDrainKeeps, RemoveCheckpointKeeps, FilesKeep
     DEF Verify, Moves
<1> QED
  BY <1>1, <1>2

\* Whatever is uploaded, deployed, lost, repeated or done by others between
\* the drill's steps, what it knows at each of them is true: the inductive
\* invariant behind what a checkpoint and a verified drill mean.
THEOREM DrillInvariant == Spec => []DrillInv
<1>1. Init => DrillInv
  BY InitKeeps
<1>2. DrillInv /\ [Next]_vars => DrillInv'
  <2> SUFFICES ASSUME DrillInv, [Next]_vars PROVE DrillInv'
    OBVIOUS
  <2>1. CASE Site
    BY <2>1, SiteKeeps
  <2>2. CASE Prepare
    BY <2>2, PrepareKeeps
  <2>3. CASE Verify
    BY <2>3, VerifyKeeps
  <2>4. CASE MakeFaultConfig \/ OperatorClears
    BY <2>4, FilesKeep
  <2>5. CASE Abort
    BY <2>5, EndsKeeps DEF Abort
  <2>6. CASE UNCHANGED vars
    BY <2>6, StutterKeeps
  <2> QED
    BY <2>1, <2>2, <2>3, <2>4, <2>5, <2>6 DEF Next
<1> QED
  BY <1>1, <1>2, PTL DEF Spec

\* A whole checkpoint can be trusted while its fault deployment lasts: the
\* join's row alone is pending, uncounted, in an object without a database.
\* (waitForFaultJoinProof, writeCheckpoint)
THEOREM PreparedRow == Spec => []PreparedRowIsPending
<1>1. DrillInv => PreparedRowIsPending
  <2> SUFFICES ASSUME DrillInv, checkpoint.state = "whole",
                      deployment = checkpoint.at
               PROVE  /\ checkpoint.proof = "seed" => object = "fault" /\ RowIsPending
                      /\ noise = checkpoint.mark => checkpoint.proof = "seed"
    BY DEF PreparedRowIsPending, RowIsPending
  <2> QED
    BY CheckpointType DEF DrillInv, CheckpointIsTrue, ProofIsSeeds, TypeOK
<1> QED
  BY <1>1, DrillInvariant, PTL

\* A drill that verifies has shown what it says: the join was counted through
\* its row, the control room without one, and Release A removed the row.
\* (waitForRollbackDrain, hasRollbackTraceProof, verify)
THEOREM VerifiedDrained == Spec => []VerifiedMeansDrained
<1>1. DrillInv => VerifiedMeansDrained
  BY DEF DrillInv, DrainIsCounted, DrainIsTraced, VerifiedMeansDrained
<1> QED
  BY <1>1, DrillInvariant, PTL

=============================================================================
