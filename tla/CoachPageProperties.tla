-------------------------- MODULE CoachPageProperties --------------------------
(* What must hold of the practice and progress pages and of their database.       *)
EXTENDS CoachPage

Recording(a) == attempts[a].recording \/ attempts[a].listening = "on"

(* A microphone is open only for the attempt the page shows: cancelling, leaving, *)
(* a late permission and a failed start release it (beginCoachingSession,         *)
(* stopCoachingLifecycle), unless the end of an earlier attempt came between.     *)
MicrophoneIsShown ==
  ~ overtaken =>
    \A a \in Ids : attempts[a].stream = "open" =>
      current = a /\ practice.of = a /\ practice.phase \in LivePhases

(* Nothing is recorded or recognised before the attempt begins, after it, for     *)
(* another attempt than the shown one, or that the user did not choose.           *)
CaptureIsChosen ==
  ~ overtaken =>
    \A a \in Ids : Recording(a) =>
      /\ practice.of = a /\ practice.phase \in {"active", "finishing"}
      /\ attempts[a].recording => attempts[a].setup.keep
      /\ attempts[a].listening = "on" => attempts[a].setup.words

(* What is kept of an attempt is what its own form allowed: recordings and words  *)
(* in the artifact store, the summary online.                                     *)
KeptAsChosen ==
  ~ overtaken =>
    /\ \A a \in Ids :
         /\ attempts[a].media # {} => attempts[a].setup.keep
         /\ "words" \in attempts[a].media => attempts[a].setup.words
    /\ \A a \in cloud : attempts[a].setup.sync

(* The microphone, and what comes of it, serve what the user chose and sees.      *)
NothingUnasked == MicrophoneIsShown /\ CaptureIsChosen /\ KeptAsChosen

(* A retry is offered only against a baseline that was saved, here or online, so  *)
(* that the pair can be found again (hasPersistedAttempt, coach-resume-retry).    *)
RetryHasItsBaseline ==
  ~ overtaken /\ practice.loop.role = "retry" =>
    /\ practice.loop.base \in persisted
    /\ attempts[practice.loop.base].summary.role = "baseline"
    /\ attempts[practice.loop.base].summary.loop = practice.loop.loop
    /\ practice.setup.goal = attempts[practice.loop.base].summary.goal

(* The progress page compares an attempt with a baseline if and only if it was    *)
(* begun as a retry of that baseline, whatever else is in the history, and        *)
(* whatever the user does while either of them is written to the database and     *)
(* backed up: leaving, beginning anew, deleting.  Only who leaves earlier, while  *)
(* recogniser and recorder are still stopping, loses the place in the loop (the   *)
(* summary is made afterwards, from the practice on the page, app.js:1442).       *)
HistoryTellsTheLoops ==
  (\A a \in Ids : ~ attempts[a].astray) =>
    \A b, r \in Ids \cap DOMAIN db.summaries :
      <<b, r>> \in Pairs(db.summaries)
        <=> attempts[r].loop.role = "retry" /\ attempts[r].loop.base = b

(* A practice loop is told from its saved attempts alone.                         *)
LoopsAreTold == RetryHasItsBaseline /\ HistoryTellsTheLoops

(* Artifacts, lifecycle rows and the claims of summaries belong together: each    *)
(* artifact can be shown, counted and deleted, no row or claim outlives one, and  *)
(* its time ends within the retention, whatever a version 2 database held.        *)
ArtifactsAreAccounted ==
  db.version = 3 =>
    /\ DOMAIN db.artifacts = DOMAIN db.lifecycle
    /\ DOMAIN db.artifacts = {id \in DOMAIN db.summaries : Claims(db, id)}
    /\ \A id \in DOMAIN db.artifacts :
         ValidRow(db.lifecycle[id]) /\ db.lifecycle[id].bytes = db.artifacts[id]

(* Once an artifact has been saved under the limit, all of them together stay     *)
(* under it; those of version 2 may exceed it only while they are alone.          *)
ArtifactsFitTheLimit ==
  db.version = 3 /\ (\E id \in DOMAIN db.artifacts : ~ db.lifecycle[id].legacy)
    => BytesOf(db) <= Limit

(* No migration, read or save gives an artifact more time than it had.            *)
RetentionNeverGrows ==
  [][\A id \in DOMAIN db.lifecycle \cap DOMAIN db'.lifecycle :
       (id \in DOMAIN db.artifacts \cap DOMAIN db'.artifacts /\ ActiveRow(db.lifecycle[id], day))
         => db'.lifecycle[id].until <= db.lifecycle[id].until]_vars

(* Looking at the progress page leaves nothing whose time is over.                *)
ReadingEndsRetention ==
  [][(\E render \in renders : ~ render.read /\ render \notin renders')
       => \A id \in DOMAIN db'.artifacts :
            db'.lifecycle[id].since <= day /\ day < db'.lifecycle[id].until]_vars

(* The artifact store keeps its books, its limit and its times.                   *)
StoreIsInOrder ==
  []ArtifactsAreAccounted /\ []ArtifactsFitTheLimit /\ RetentionNeverGrows /\ ReadingEndsRetention

EndsUnderWay == \E a \in Ids : attempts[a].finish \notin {"no", "done"}

(* Calibration and attempt end by themselves, and every end of an attempt is      *)
(* carried through, with no sound from the microphone and no user at the page.    *)
AttemptsEnd ==
  /\ practice.phase \in {"calibrating", "active"}
       ~> (practice.phase \notin {"calibrating", "active"} \/ overtaken)
  /\ EndsUnderWay ~> ~ EndsUnderWay
=============================================================================
