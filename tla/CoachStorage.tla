---------------------------- MODULE CoachStorage ----------------------------
(***************************************************************************)
(* The coaching database of one browser profile, as transactions see it    *)
(* (cloudflare/public/coach-storage.js): compact summaries, full artifacts *)
(* and, since version 3, a lifecycle row for every artifact.  A database   *)
(* is a record of partial functions of session ids; time is in days.       *)
(***************************************************************************)
EXTENDS Integers, FiniteSets, Functions, FiniteSetsExt

CONSTANTS
  Retention,   \* ARTIFACT_RETENTION_MS
  Limit        \* ARTIFACT_MAX_LOGICAL_BYTES

ASSUME StorageAssumption == Retention \in Nat \ {0} /\ Limit \in Nat

\* A summary says whether it has artifacts; an artifact of no bytes is one whose
\* payload cannot be read (artifactLogicalBytes is null).
EmptyDb == [version |-> 3, summaries |-> <<>>, artifacts |-> <<>>, lifecycle |-> <<>>]

Put(store, id, value) == [i \in DOMAIN store \cup {id} |-> IF i = id THEN value ELSE store[i]]
Without(store, ids) == Restrict(store, DOMAIN store \ ids)
Scrubbed(summaries, ids) ==
  [i \in DOMAIN summaries |-> [summaries[i] EXCEPT !.claims = @ /\ i \notin ids]]
Claims(db, id) == id \in DOMAIN db.summaries /\ db.summaries[id].claims

\* artifactLifecycleRecord
Row(bytes, now, legacy) ==
  [since |-> now, until |-> now + Retention, bytes |-> bytes, legacy |-> legacy]
\* isArtifactLifecycleRecord
ValidRow(row) ==
  /\ row.until > row.since /\ row.until <= row.since + Retention
  /\ row.bytes <= Limit \/ row.legacy
\* isActiveArtifactLifecycleRecord: a row of the future is not believed.
ActiveRow(row, now) == ValidRow(row) /\ row.since <= now /\ row.until > now

-----------------------------------------------------------------------------
\* What of version 2 keeps its artifact: its payload can be read, its summary
\* claims it, and a row it may already have has not run out.
Migrates(db, now) ==
  {id \in DOMAIN db.artifacts :
     /\ db.artifacts[id] > 0 /\ Claims(db, id)
     /\ ~ /\ id \in DOMAIN db.lifecycle /\ ValidRow(db.lifecycle[id])
          /\ db.lifecycle[id].since <= now /\ db.lifecycle[id].until <= now}

\* upgradeCoachDatabase: an artifact gets its days from the upgrade, one that
\* has a believable row keeps that row's.
Upgraded(db, now) ==
  LET kept == Migrates(db, now)
      gone == DOMAIN db.artifacts \ kept
      Migrated(id) ==
        IF id \in DOMAIN db.lifecycle /\ ActiveRow(db.lifecycle[id], now)
        THEN [db.lifecycle[id] EXCEPT !.bytes = db.artifacts[id], !.legacy = TRUE]
        ELSE Row(db.artifacts[id], now, TRUE)
  IN  IF db.version >= 3 THEN db
      ELSE [version |-> 3,
            summaries |-> Scrubbed(db.summaries, gone),
            artifacts |-> Restrict(db.artifacts, kept),
            lifecycle |-> [id \in (DOMAIN db.lifecycle \ gone) \cup kept |->
                             IF id \in kept THEN Migrated(id) ELSE db.lifecycle[id]]]

\* Slip: a row is good for one day more.
Retained_OneDayMore(db, now, later) ==
  {id \in DOMAIN db.lifecycle :
     /\ ValidRow(db.lifecycle[id])
     /\ db.lifecycle[id].since <= now /\ db.lifecycle[id].until >= later
     /\ id \in DOMAIN db.artifacts /\ db.artifacts[id] > 0
     /\ db.artifacts[id] = db.lifecycle[id].bytes
     /\ Claims(db, id)}
\* The rows reconcileArtifactState keeps; the second reading of the clock is
\* there when the transaction asks for it (recheckExpiry).
Retained(db, now, later) ==
  {id \in DOMAIN db.lifecycle :
     /\ ValidRow(db.lifecycle[id])
     /\ db.lifecycle[id].since <= now /\ db.lifecycle[id].until > later
     /\ id \in DOMAIN db.artifacts /\ db.artifacts[id] > 0
     /\ db.artifacts[id] = db.lifecycle[id].bytes
     /\ Claims(db, id)}

\* reconcileArtifactState
Reconciled(db, now, later) ==
  LET kept == Retained(db, now, later)
  IN  [db EXCEPT !.artifacts = Restrict(@, kept), !.lifecycle = Restrict(@, kept),
                 !.summaries = [i \in DOMAIN @ |-> [@[i] EXCEPT !.claims = i \in kept]]]

BytesOf(db) == MapThenSumSet(LAMBDA id : db.artifacts[id], DOMAIN db.artifacts)

\* saveSummaryOnly: whatever an id had is replaced.
SummarySaved(db, id, summary, now) ==
  LET clean == Reconciled(Upgraded(db, now), now, now)
  IN  [clean EXCEPT !.summaries = Put(@, id, [summary EXCEPT !.claims = FALSE]),
                    !.artifacts = Without(@, {id}), !.lifecycle = Without(@, {id})]

\* saveCoachingSession: does the artifact fit beside the others?
Fits(db, id, bytes, now) ==
  BytesOf([db EXCEPT !.artifacts = Without(Reconciled(Upgraded(db, now), now, now).artifacts, {id})])
    + bytes <= Limit

\* saveCoachingSession with an artifact: stored, or the summary alone.
SessionSaved(db, id, summary, bytes, now) ==
  LET clean == Reconciled(Upgraded(db, now), now, now)
  IN  IF bytes = 0 \/ ~ Fits(db, id, bytes, now) THEN SummarySaved(db, id, summary, now)
      ELSE [clean EXCEPT !.summaries = Put(@, id, [summary EXCEPT !.claims = TRUE]),
                         !.artifacts = Put(@, id, bytes),
                         !.lifecycle = Put(@, id, Row(bytes, now, FALSE))]

\* readCoachingProgressSnapshot, and cleanupExpiredCoachingArtifacts.
SnapshotRead(db, now, later) == Reconciled(Upgraded(db, now), now, later)

\* readCoachingArtifact: the clock is read before and after the payload.
Readable(db, id, now, later) ==
  LET open == Upgraded(db, now)
  IN  /\ id \in DOMAIN open.lifecycle
      /\ ActiveRow(open.lifecycle[id], now) /\ ActiveRow(open.lifecycle[id], later)
      /\ Claims(open, id)
      /\ id \in DOMAIN open.artifacts /\ open.artifacts[id] = open.lifecycle[id].bytes

\* deleteCoachingArtifacts, and discardArtifact of readCoachingArtifact.
ArtifactsDeleted(db, id, now) ==
  LET open == Upgraded(db, now)
  IN  [open EXCEPT !.summaries = Scrubbed(@, {id}),
                   !.artifacts = Without(@, {id}), !.lifecycle = Without(@, {id})]

ArtifactRead(db, id, now, later) ==
  IF Readable(db, id, now, later) THEN Upgraded(db, now) ELSE ArtifactsDeleted(db, id, now)
=============================================================================
