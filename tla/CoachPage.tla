------------------------------ MODULE CoachPage ------------------------------
(***************************************************************************)
(* One tab of the Cloudflare edition that practises and looks at progress  *)
(* (cloudflare/public/app.js): routes, the practice the page shows,        *)
(* attempts with their microphones, the ends of attempts that go on after  *)
(* the page has changed, the local database, and the online backup.        *)
(* Every await of the code is a place where another action may come in.    *)
(***************************************************************************)
EXTENDS CoachStorage, CoachLoop, Sequences, SequencesExt

CONSTANTS
  MaxAttempts,  \* bound: attempts of this tab
  Scopes,    \* bounds: what a behaviour may do how often
  Sizes,     \* bytes an artifact of another tab may have
  OldDbs     \* databases of version 2 that may be there before

VARIABLES
  route, generation,  \* location.pathname, routeGeneration
  practice,           \* the practice object of the page
  attempts,           \* sessions begun, with their runs and unfinished calls
  current, pending,   \* coachingRun, pendingCoachingToken (0 is null)
  busy,               \* the command that holds the busy flag
  renders,            \* calls of renderProgress under way
  progress,           \* progressSessions
  db, day,            \* the database and the browser's clock
  cloud, enabled,     \* ids backed up online, and the local preference
  persisted,          \* history: ids ever saved, here or online
  overtaken,          \* history: has the end of an attempt written to another practice?
  left                \* what of the scope is left

page == <<route, generation, practice, attempts, current, pending, busy>>
data == <<db, cloud, enabled, persisted>>
shown == <<renders, progress>>
vars == <<page, data, shown, day, overtaken, left>>

Ids == DOMAIN attempts
None == 0
LivePhases == {"permission", "calibrating", "calibration-readiness", "active", "finishing"}

\* freshPracticeState; "of" is, as history, the attempt a practice was made for.
Fresh(setup, loop) ==
  [phase |-> "setup", setup |-> setup, loop |-> loop, of |-> None,
   completed |-> None, saved |-> FALSE, backed |-> FALSE]
DefaultSetup == [format |-> "loop", goal |-> 1, keep |-> FALSE, words |-> FALSE, sync |-> FALSE]
Summary(relation, goal) == relation @@ [goal |-> goal, claims |-> FALSE]

Spend(kind) == left[kind] > 0 /\ left' = [left EXCEPT ![kind] = @ - 1]

Init ==
  /\ route = "practice" /\ generation = 1
  /\ practice = Fresh(DefaultSetup, Standalone)
  /\ attempts = <<>> /\ current = None /\ pending = None
  /\ busy = "no"
  /\ renders = {} /\ progress = {}
  /\ left \in Scopes
  /\ db \in IF left.old THEN OldDbs ELSE {EmptyDb}
  /\ day = Retention
  /\ cloud = {} /\ enabled = FALSE
  /\ persisted = {} /\ overtaken = FALSE

-----------------------------------------------------------------------------
(* Runs and their hardware                                                 *)

\* isCurrentCoachingRun
IsCurrent(a) ==
  /\ current = a /\ attempts[a].generation = generation /\ route = "practice"
  /\ attempts[a].stream = "open"
\* isPendingCoachingRun
IsPending(a) == IsCurrent(a) /\ pending = a
Stale(a) == pending # a \/ attempts[a].generation # generation \/ route # "practice"

\* Slip: the recorder is left running.
Off_Recording(run) ==
  [run EXCEPT !.stream = IF @ = "open" THEN "ended" ELSE @, !.timer = "none",
              !.listening = IF @ = "on" THEN "stopped" ELSE @]
\* stopCoachingHardware: what was recorded goes, what was recognised stays.
Off(run) ==
  [run EXCEPT !.stream = IF @ = "open" THEN "ended" ELSE @,
              !.timer = "none", !.recording = FALSE,
              !.listening = IF @ = "on" THEN "stopped" ELSE @]
OffCurrent(runs) == IF current = None THEN runs ELSE [runs EXCEPT ![current] = Off(@)]

\* stopCoachingLifecycle
StoppedPractice ==
  IF practice.phase \in LivePhases THEN Fresh(practice.setup, Standalone) ELSE practice
StopLifecycle(runs, next) ==
  /\ pending' = None /\ current' = None
  /\ attempts' = OffCurrent(runs)
  /\ practice' = next

\* failCoachingRun
FailRun(a, runs) ==
  IF a # current THEN attempts' = runs /\ UNCHANGED <<practice, current, pending>>
  ELSE StopLifecycle(runs, [StoppedPractice EXCEPT !.phase = "setup"])

-----------------------------------------------------------------------------
(* Routes                                                                  *)

\* loadRoute: an attempt that is finishing may finish into the progress page.
LoadRoute(to, opened) ==
  LET finishing == practice.phase = "finishing" /\ to = "progress"
  IN  /\ generation' = generation + 1 /\ route' = to
      /\ IF finishing THEN UNCHANGED <<attempts, current, pending, practice>>
         ELSE StopLifecycle(attempts, IF to = "practice" THEN opened ELSE StoppedPractice)
      /\ renders' = IF to = "progress"
                    THEN renders \cup {[generation |-> generation + 1, list |-> {}, read |-> FALSE]}
                    ELSE renders

\* A link, or the browser's back and forward.
Navigate(to) ==
  /\ Spend("routes")
  /\ LoadRoute(to, Fresh(practice.setup, Standalone))
  /\ UNCHANGED <<busy, data, progress, day, overtaken>>

-----------------------------------------------------------------------------
(* The beginning of an attempt                                             *)

\* beginCoachingSession up to its first await.  A retry keeps its loop and setup.
Begin(form) ==
  LET a     == Len(attempts) + 1
      retry == practice.loop.role = "retry"
      setup == IF retry THEN [form EXCEPT !.format = "loop", !.goal = practice.setup.goal] ELSE form
      loop  == IF retry THEN practice.loop
               ELSE IF setup.format = "loop" THEN NewLoop(a) ELSE Standalone
  IN  /\ route = "practice" /\ practice.phase = "setup" /\ busy = "no"
      /\ a <= MaxAttempts /\ Spend("starts")
      /\ practice' = [Fresh(setup, loop) EXCEPT !.phase = "permission", !.of = a]
      /\ pending' = a
      /\ attempts' = Append(attempts,
           [flow |-> "mic", generation |-> generation, stream |-> "none", timer |-> "none",
            recording |-> FALSE, listening |-> "off", finish |-> "no", bytes |-> 0,
            media |-> {}, setup |-> setup, loop |-> loop, summary |-> Summary(Standalone, 0),
            astray |-> FALSE])
      /\ UNCHANGED <<route, generation, current, busy, data, shown, day, overtaken>>

\* loadCoachEngine and acquireSelectedMicrophone have come, two awaits with the same
\* check after them: a stream nobody waits for is stopped.
OpenMicrophone(a) ==
  /\ attempts[a].flow = "mic"
  /\ IF Stale(a)
     THEN attempts' = [attempts EXCEPT ![a].flow = "done", ![a].stream = "ended"] /\ UNCHANGED current
     ELSE /\ attempts' = [attempts EXCEPT ![a].flow = "meter", ![a].stream = "open"]
          /\ current' = a
  /\ UNCHANGED <<route, generation, practice, pending, busy,
                 data, shown, day, overtaken, left>>

\* A run that is not pending any more after an await.
Abandon(a) ==
  /\ attempts' = [attempts EXCEPT ![a] = [Off(@) EXCEPT !.flow = "done"]]
  /\ current' = IF current = a THEN None ELSE current
  /\ UNCHANGED <<practice, pending>>

\* context.resume and attachCoachingMeter have returned, two awaits with the same check
\* after them, and startCalibrationSampling follows.
AttachMeter(a) ==
  LET run == [attempts[a] EXCEPT !.flow = "done"]
  IN  /\ attempts[a].flow = "meter"
      /\ IF ~ IsPending(a) THEN Abandon(a)
         ELSE /\ pending' = None
              /\ IF practice.phase = "permission"
                 THEN /\ practice' = [practice EXCEPT !.phase = "calibrating"]
                      /\ attempts' = [attempts EXCEPT ![a] = [run EXCEPT !.timer = "watchdog"]]
                 ELSE attempts' = [attempts EXCEPT ![a] = run] /\ UNCHANGED practice
              /\ UNCHANGED current
      /\ UNCHANGED <<route, generation, busy, data, shown, day, overtaken, left>>

\* The engine does not load, the microphone is refused, the audio fails.
FailStart(a) ==
  LET runs == [attempts EXCEPT ![a].flow = "done", ![a].stream = IF @ = "open" THEN "ended" ELSE @]
  IN  /\ attempts[a].flow # "done"
      /\ Spend("fails")
      /\ IF Stale(a) THEN attempts' = runs /\ UNCHANGED <<practice, current, pending>>
         ELSE StopLifecycle(runs, [StoppedPractice EXCEPT !.phase = "setup"])
      /\ UNCHANGED <<route, generation, busy, data, shown, day, overtaken>>

-----------------------------------------------------------------------------
(* Calibration and the attempt                                             *)

\* Slip: only frames of the microphone can end the attempt.
Activated_Untimed(a) ==
  /\ practice' = [practice EXCEPT !.phase = "active"]
  /\ attempts' = [attempts EXCEPT ![a].timer = "none", ![a].recording = practice.setup.keep,
                                  ![a].listening = IF practice.setup.words THEN "on" ELSE "off"]
  /\ UNCHANGED <<current, pending>>
\* startCoachingAttempt
Activated(a) ==
  /\ practice' = [practice EXCEPT !.phase = "active"]
  /\ attempts' = [attempts EXCEPT ![a].timer = "attempt", ![a].recording = practice.setup.keep,
                                  ![a].listening = IF practice.setup.words THEN "on" ELSE "off"]
  /\ UNCHANGED <<current, pending>>

\* ingestCoachingFrame after four seconds, and completeCoachingCalibration.
Calibrate(a, evidence) ==
  /\ attempts[a].flow = "done" /\ IsCurrent(a) /\ practice.phase = "calibrating"
  /\ CASE evidence = "clear" -> Activated(a)
       [] evidence = "limited" ->
            /\ practice' = [practice EXCEPT !.phase = "calibration-readiness"]
            /\ attempts' = [attempts EXCEPT ![a].timer = "none"]
            /\ UNCHANGED <<current, pending>>
       [] evidence = "none" -> FailRun(a, attempts)
  /\ UNCHANGED <<route, generation, busy, data, shown, day, overtaken, left>>

\* armCalibrationWatchdog: no frames for seven seconds.
Watchdog(a) ==
  LET runs == [attempts EXCEPT ![a].timer = "none"]
  IN  /\ attempts[a].timer = "watchdog"
      /\ IF practice.phase = "calibrating" THEN FailRun(a, runs)
         ELSE attempts' = runs /\ UNCHANGED <<practice, current, pending>>
      /\ UNCHANGED <<route, generation, busy, data, shown, day, overtaken, left>>

\* coach-calibration-retry
RetryCalibration ==
  /\ practice.phase = "calibration-readiness" /\ busy = "no" /\ current # None
  /\ Spend("retries")
  /\ IF IsCurrent(current)
     THEN /\ practice' = [practice EXCEPT !.phase = "calibrating"]
          /\ attempts' = [attempts EXCEPT ![current].timer = "watchdog"]
          /\ UNCHANGED <<current, pending>>
     ELSE FailRun(current, attempts)
  /\ UNCHANGED <<route, generation, busy, data, shown, day, overtaken>>

\* coach-calibration-continue
ContinueLimited ==
  /\ practice.phase = "calibration-readiness" /\ busy = "no" /\ current # None
  /\ IF IsCurrent(current) THEN Activated(current) ELSE FailRun(current, attempts)
  /\ UNCHANGED <<route, generation, busy, data, shown, day, overtaken, left>>

\* coach-cancel
Cancel ==
  /\ practice.phase \in {"permission", "calibrating", "calibration-readiness"} /\ busy = "no"
  /\ route = "practice"
  /\ StopLifecycle(attempts, Fresh(practice.setup, Standalone))
  /\ UNCHANGED <<route, generation, busy, data, shown, day, overtaken, left>>

-----------------------------------------------------------------------------
(* The end of an attempt                                                   *)

\* finishCoachingSession up to its first await.
FinishFrom(runs) ==
  /\ practice' = [practice EXCEPT !.phase = "finishing"]
  /\ attempts' = [runs EXCEPT ![current].finish = "drain"]

\* coach-stop holds the busy flag to the end.
Stop ==
  /\ practice.phase = "active" /\ current # None /\ busy = "no" /\ route = "practice"
  /\ FinishFrom(attempts)
  /\ busy' = "stop"
  /\ UNCHANGED <<route, generation, current, pending, data, shown, day, overtaken, left>>

\* The timer of the attempt, or a frame after its time.
TimeUp(a) ==
  LET runs == [attempts EXCEPT ![a].timer = "none"]
  IN  /\ attempts[a].timer = "attempt"
      /\ IF a = current /\ practice.phase = "active" THEN FinishFrom(runs)
         ELSE attempts' = runs /\ UNCHANGED practice
      /\ UNCHANGED <<route, generation, current, pending, busy,
                     data, shown, day, overtaken, left>>

\* handleCoachingInputEnded
EndInput(a) ==
  LET runs == [attempts EXCEPT ![a].stream = "ended"]
  IN  /\ attempts[a].stream = "open"
      /\ Spend("fails")
      /\ IF a = current /\ practice.phase = "active" THEN FinishFrom(runs) /\ UNCHANGED <<current, pending>>
         ELSE IF practice.phase \in LivePhases \ {"active", "finishing"} THEN FailRun(a, runs)
         ELSE attempts' = runs /\ UNCHANGED <<practice, current, pending>>
      /\ UNCHANGED <<route, generation, busy, data, shown, day, overtaken>>

\* The call goes on with whatever practice the page has now.
Resumes(a) == overtaken' = (overtaken \/ practice.of # a)
Release(a) == IF busy = "stop" THEN "no" ELSE busy

\* The report cannot be made.
FailAnalysis(a) ==
  /\ attempts[a].finish = "drain"
  /\ Spend("fails")
  /\ attempts' = [attempts EXCEPT ![a] = [Off(@) EXCEPT !.finish = "done"]]
  /\ current' = None
  /\ practice' = Fresh(practice.setup, Standalone)
  /\ busy' = Release(a)
  /\ Resumes(a)
  /\ UNCHANGED <<route, generation, pending, data, shown, day>>

\* finishLocalRecognition and stopArtifactRecorder have settled: the report, the
\* summary with its place in a loop, and the artifact if the user keeps it
\* (a recording and a transcript are given one byte each).  "astray" is, as history,
\* whether the page had another practice by then, which gives the place in a loop.
Drain(a, media) ==
  LET kept == IF practice.setup.keep THEN media ELSE {}
  IN  /\ attempts[a].finish = "drain"
      /\ "audio" \in media => attempts[a].recording
      /\ "words" \in media => attempts[a].listening # "off"
      /\ attempts' = [attempts EXCEPT ![a] =
           [Off(@) EXCEPT !.finish = "store", !.media = kept, !.bytes = Cardinality(kept),
                          !.listening = "off", !.astray = practice.of # a,
                          !.summary = Summary(Relationship(practice.loop, a), practice.setup.goal)]]
      /\ current' = None
      /\ practice' = [practice EXCEPT !.completed = a,
                        !.loop = IF @.role = "baseline" THEN [@ EXCEPT !.base = a] ELSE @]
      /\ Resumes(a)
      /\ UNCHANGED <<route, generation, pending, busy, data, shown, day, left>>

\* The last part: the progress page is drawn again, or the review is shown.
ShowsEnd(a, next) ==
  /\ busy' = Release(a)
  /\ practice' = IF route = "practice" THEN [next EXCEPT !.phase = "review"] ELSE next
  /\ renders' = IF route = "progress"
                THEN renders \cup {[generation |-> generation, list |-> {}, read |-> FALSE]}
                ELSE renders

\* saveCoachingSession has returned; after a quota error the summary alone is kept.
Store(a, outcome) ==
  LET next == [practice EXCEPT !.saved = outcome # "failed"]
  IN  /\ attempts[a].finish = "store"
      /\ IF outcome = "saved" THEN UNCHANGED left ELSE Spend("fails")
      /\ db' = CASE outcome = "saved" -> SessionSaved(db, a, attempts[a].summary, attempts[a].bytes, day)
                 [] outcome = "quota" -> SummarySaved(db, a, attempts[a].summary, day)
                 [] outcome = "failed" -> db
      /\ persisted' = IF outcome = "failed" THEN persisted ELSE persisted \cup {a}
      /\ attempts' = [attempts EXCEPT ![a].finish = IF practice.setup.sync THEN "upload" ELSE "done"]
      /\ IF practice.setup.sync THEN practice' = next /\ UNCHANGED <<busy, renders>>
         ELSE ShowsEnd(a, next)
      /\ Resumes(a)
      /\ UNCHANGED <<route, generation, current, pending, cloud, enabled, progress, day>>

\* cloudProgress.save: the server stores the summary, and its answer comes.
Upload(a) ==
  /\ attempts[a].finish = "upload"
  /\ attempts' = [attempts EXCEPT ![a].finish = "answered"]
  /\ cloud' = cloud \cup {a} /\ persisted' = persisted \cup {a}
  /\ UNCHANGED <<route, generation, practice, current, pending, busy,
                 db, enabled, shown, day, overtaken, left>>

EndUpload(a, answered) ==
  /\ attempts[a].finish \in (IF answered THEN {"answered"} ELSE {"upload", "answered"})
  /\ IF answered THEN UNCHANGED left ELSE Spend("fails")
  /\ attempts' = [attempts EXCEPT ![a].finish = "done"]
  /\ enabled' = (enabled \/ answered)
  /\ ShowsEnd(a, [practice EXCEPT !.backed = answered])
  /\ Resumes(a)
  /\ UNCHANGED <<route, generation, current, pending, db, cloud, persisted, progress, day>>

-----------------------------------------------------------------------------
(* The review                                                              *)

\* Slip: a baseline that could not be saved is good enough.
PrepareRetry_Unsaved ==
  /\ practice.phase = "review" /\ route = "practice" /\ busy = "no"
  /\ practice.completed # None /\ attempts[practice.completed].summary.role = "baseline"
  /\ practice' = Fresh([practice.setup EXCEPT !.format = "loop"],
                       RetryOf(practice.completed, attempts[practice.completed].summary))
  /\ UNCHANGED <<route, generation, attempts, current, pending, busy,
                 data, shown, day, overtaken, left>>
\* coach-retry: hasPersistedAttempt, createRetryState.
PrepareRetry ==
  /\ practice.phase = "review" /\ route = "practice" /\ busy = "no"
  /\ practice.completed # None /\ attempts[practice.completed].summary.role = "baseline"
  /\ practice.saved \/ practice.backed
  /\ practice' = Fresh([practice.setup EXCEPT !.format = "loop"],
                       RetryOf(practice.completed, attempts[practice.completed].summary))
  /\ UNCHANGED <<route, generation, attempts, current, pending, busy,
                 data, shown, day, overtaken, left>>

\* coach-new-loop, coach-again
TryAgain ==
  /\ practice.phase = "review" /\ route = "practice" /\ busy = "no"
  /\ practice' = Fresh(practice.setup, Standalone)
  /\ UNCHANGED <<route, generation, attempts, current, pending, busy,
                 data, shown, day, overtaken, left>>

-----------------------------------------------------------------------------
(* The progress page                                                       *)

\* readCoachingProgressSnapshot; a transaction may take until the next day.
ReadSnapshot(render, later) ==
  /\ render \in renders /\ ~ render.read
  /\ db' = SnapshotRead(db, day, later)
  /\ renders' = (renders \ {render})
                  \cup {[render EXCEPT !.read = TRUE, !.list = DOMAIN db'.summaries]}
  /\ UNCHANGED <<page, cloud, enabled, persisted, progress, day, overtaken, left>>

\* cloudProgress.list has come, if asked; mergeCoachingSummaries.
ShowProgress(render, listed) ==
  /\ render \in renders /\ render.read
  /\ renders' = renders \ {render}
  /\ listed \in (IF enabled THEN {cloud, {}} ELSE {{}})
  /\ progress' = IF render.generation = generation /\ route = "progress"
                 THEN render.list \cup listed ELSE progress
  /\ UNCHANGED <<page, data, day, overtaken, left>>

Redraw(g) == renders' = renders \cup {[generation |-> g, list |-> {}, read |-> FALSE]}

\* coach-resume-retry: the baseline's setup, with every consent taken back.
ResumeRetry(id) ==
  LET baseline == attempts[id]
      setup == [DefaultSetup EXCEPT !.goal = baseline.summary.goal]
  IN  /\ route = "progress" /\ busy = "no" /\ id \in progress \cap Ids
      /\ ValidRelationship(id, baseline.summary) /\ baseline.summary.role = "baseline"
      /\ Spend("routes")
      /\ LoadRoute("practice", Fresh(setup, RetryOf(id, baseline.summary)))
      /\ UNCHANGED <<busy, data, progress, day, overtaken>>

\* coach-download-audio, coach-download-transcript
Download(id, later) ==
  /\ route = "progress" /\ busy = "no" /\ id \in progress
  /\ Spend("commands")
  /\ db' = ArtifactRead(db, id, day, later)
  /\ IF Readable(db, id, day, later) THEN UNCHANGED renders ELSE Redraw(generation)
  /\ UNCHANGED <<page, cloud, enabled, persisted, progress, day, overtaken>>

\* coach-delete-artifacts
DeleteArtifacts(id) ==
  /\ route = "progress" /\ busy = "no" /\ id \in progress
  /\ Spend("commands")
  /\ db' = ArtifactsDeleted(db, id, day)
  /\ Redraw(generation)
  /\ UNCHANGED <<page, cloud, enabled, persisted, progress, day, overtaken>>

\* coach-check-cloud
CheckCloud ==
  /\ route = "progress" /\ busy = "no" /\ ~ enabled
  /\ Spend("commands")
  /\ enabled' = (cloud # {})
  /\ IF cloud # {} THEN Redraw(generation) ELSE UNCHANGED renders
  /\ UNCHANGED <<page, db, cloud, persisted, progress, day, overtaken>>

\* coach-delete: the online copies first, then the local stores.
DeleteAll ==
  /\ route = "progress" /\ busy = "no"
  /\ Spend("commands")
  /\ busy' = IF enabled THEN "cloud" ELSE "local"
  /\ UNCHANGED <<route, generation, practice, attempts, current, pending,
                 data, shown, day, overtaken>>

ClearCloud(answered) ==
  /\ busy = "cloud"
  /\ IF answered
     THEN cloud' = {} /\ enabled' = FALSE /\ busy' = "local" /\ UNCHANGED left
     ELSE Spend("fails") /\ busy' = "no" /\ UNCHANGED <<cloud, enabled>>
  /\ UNCHANGED <<route, generation, practice, attempts, current, pending,
                 db, persisted, shown, day, overtaken>>

ClearLocal ==
  /\ busy = "local"
  /\ busy' = "no"
  /\ db' = EmptyDb
  /\ progress' = {}
  /\ Redraw(generation)
  /\ UNCHANGED <<route, generation, practice, attempts, current, pending,
                 cloud, enabled, persisted, day, overtaken, left>>

-----------------------------------------------------------------------------
(* Other tabs and time                                                     *)

\* Another tab of this browser uses the same database; ids from 101 are its
\* own, each used once.
OtherTab(id, bytes) ==
  /\ Spend("others")
  /\ id \notin DOMAIN db.summaries
  /\ db' \in {SessionSaved(db, id, Summary(Standalone, 1), bytes, day)}
             \cup {SnapshotRead(db, day, later) : later \in {day, day + 1}}
             \cup {ArtifactsDeleted(db, i, day) : i \in DOMAIN db.summaries}
  /\ UNCHANGED <<page, cloud, enabled, persisted, shown, day, overtaken>>

\* The clock goes on, or is set back.
Tick == Spend("days") /\ day' = day + 1 /\ UNCHANGED <<page, data, shown, overtaken>>
SetBack == Spend("setbacks") /\ day' = day - 1 /\ UNCHANGED <<page, data, shown, overtaken>>

-----------------------------------------------------------------------------
Opens == \E to \in {"practice", "progress", "other"} : Navigate(to)
Starts == \E form \in left.forms : Begin(form)
Waits(a) == OpenMicrophone(a) \/ AttachMeter(a)
Runs(a) ==
  \/ \E evidence \in {"clear", "limited", "none"} : Calibrate(a, evidence)
  \/ Watchdog(a) \/ TimeUp(a) \/ EndInput(a) \/ FailStart(a)
Commands == RetryCalibration \/ ContinueLimited \/ Cancel \/ Stop \/ PrepareRetry \/ TryAgain
Drains(a) == \E media \in SUBSET {"audio", "words"} : Drain(a, media)
Stores(a) == \E outcome \in {"saved", "quota", "failed"} : Store(a, outcome)
Uploads(a) == Upload(a) \/ \E answered \in BOOLEAN : EndUpload(a, answered)
Ends(a) == FailAnalysis(a) \/ Drains(a) \/ Stores(a) \/ Uploads(a)
Renders ==
  \E render \in renders :
    \/ \E later \in {day, day + 1} : ReadSnapshot(render, later)
    \/ \E listed \in {cloud, {}} : ShowProgress(render, listed)
Controls ==
  \/ \E id \in progress :
       \/ ResumeRetry(id) \/ DeleteArtifacts(id)
       \/ \E later \in {day, day + 1} : Download(id, later)
  \/ CheckCloud \/ DeleteAll \/ ClearLocal
  \/ \E answered \in BOOLEAN : ClearCloud(answered)
Outside ==
  \/ \E id \in {101, 102}, bytes \in Sizes : OtherTab(id, bytes)
  \/ Tick \/ SetBack

Next ==
  \/ Opens \/ Starts \/ Commands \/ Renders \/ Controls \/ Outside
  \/ \E a \in Ids : Waits(a) \/ Runs(a) \/ Ends(a)

\* Timers fire, the calls of the browser settle and the server answers or does
\* not; a microphone prompt may stay open, and a user need not do anything.
Fairness == WF_vars(\E a \in Ids : Watchdog(a) \/ TimeUp(a) \/ Ends(a))

Spec == Init /\ [][Next]_vars /\ Fairness
=============================================================================
