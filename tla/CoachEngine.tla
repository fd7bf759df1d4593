---------------------------- MODULE CoachEngine -----------------------------
(***************************************************************************)
(* The measurements of the coaching engine (cloudflare/public/             *)
(* coach-engine.js), from the calibration to the end of an attempt: level  *)
(* frames become segments of voice, silence and unknown, from which every  *)
(* snapshot derives pauses, speaking runs and clipping, and the tips and   *)
(* the advice.  Frames come when the page gets round to them, together or  *)
(* not at all for a while.                                                 *)
(* Beside the engine an observer writes down, unit of time by unit of      *)
(* time, what could be known; the properties compare the two.              *)
(***************************************************************************)
EXTENDS Integers, Sequences, FiniteSets, FiniteSetsExt, SequencesExt, TLC

CONSTANTS
  Hold,       \* frameHoldMs: how long a frame speaks for
  Glitch,     \* glitchMs: shorter segments are smoothed away
  Bridge,     \* bridgeGapMs: shorter gaps do not end a speaking run
  Pause,      \* pauseMs: shorter silences are no pauses
  Limits,     \* what the tips and the advice ask for, see EngineAssumption
  Scopes      \* bounds: sampled levels and their number, levels that occur, duration
              \* and what it may be overrun by, frames beyond one at a time, and what is reviewed

ASSUME EngineAssumption ==
  /\ {Hold, Glitch, Bridge, Pause} \subseteq Nat \ {0}
  /\ Glitch <= Hold /\ Bridge <= Hold /\ Bridge < Pause
     \* currentSilenceMs, speakingMs and currentSpeakingRunMs of the tips, the frames that
     \* clipping is judged from (samples, clips, and their percentage), the tips' times
     \* (cooldown, first, again, shown), the measures of the advice, the words' counts and
     \* percentages, and the measures of the confidence
  /\ Limits \in [{"silence", "spoken", "run", "samples", "clips", "clip_rate",
                  "cooldown", "first", "again", "shown",
                  "steady", "unknown", "short", "long_run", "long_pause",
                  "fast", "fillers", "filler_rate", "repeats", "repeat_rate",
                  "evidence", "frames", "reliable", "voiced", "words"} -> Nat \ {0}]

VARIABLES
  calibration,  \* the samples of the run and what is learned from them
  analyzer,   \* CoachingAnalyzer: segments, the last frame, clipping
  tips,       \* CoachingTipPolicy, and what the page makes of it
  observer,   \* history: what each unit of time was, and the frame that speaks now
  phase,      \* of the practice
  scope,      \* the scope of the behaviour
  extra       \* what is left of its frames beyond one at a time, and what is reviewed

vars == <<calibration, analyzer, tips, observer, phase, scope, extra>>

None == -1
Levels == {"quiet", "between", "voice", "clip"}
Now == Len(observer.units)

Segment(kind, start, end) == [kind |-> kind, start |-> start, end |-> end]
Spoken(voice) == IF voice THEN "voice" ELSE "silence"

\* startCalibrationSampling
NoSamples == [part |-> "quiet", quiet |-> <<>>, voice |-> <<>>, learned |-> <<>>]

Init ==
  /\ scope \in Scopes /\ extra = scope.extra
  /\ phase = "calibrating"
  /\ calibration = NoSamples
  /\ analyzer = [segments |-> <<>>, last |-> None, voice |-> FALSE, clip |-> FALSE,
                 frames |-> 0, clipped |-> 0, clipping |-> 0, end |-> None]
  /\ tips = [policy |-> None, last |-> None, until |-> 0, shown |-> "none", at |-> None]
  /\ observer = [units |-> <<>>, age |-> Hold + 1, voice |-> FALSE, clip |-> FALSE]

-----------------------------------------------------------------------------
(* deriveCalibration; levels are in millionths of full scale               *)

Clamp(x, low, high) == Min({high, Max({low, x})})

\* quantile, of sorted values, in tenths
Quantile(values, tenths) ==
  LET position == (Len(values) - 1) * tenths
      lower == values[position \div 10 + 1]
      upper == values[(position + 9) \div 10 + 1]
  IN  lower + ((upper - lower) * (position % 10)) \div 10

\* The confidence of a calibration, all in thousandths: samples, and a clear separation.
Score(evidence, separation) ==
  (450 * evidence + 550 * Min({1000, (separation * 100) \div 45})) \div 1000
\* deriveCalibration and normalizeCalibration: with hysteresis, off below on
Learned(quiet, voice) ==
  LET quietMedian == IF quiet = <<>> THEN 6000 ELSE Quantile(quiet, 5)
      ceiling == IF quiet = <<>> THEN Max({12000, (quietMedian * 18) \div 10})
                 ELSE Quantile(quiet, 9)
      floor == IF voice = <<>> THEN 60000 ELSE Quantile(voice, 2)
      median == IF voice = <<>> THEN 120000 ELSE Quantile(voice, 5)
      usable == Max({0, floor - ceiling})
      fallback == Max({15000, (ceiling * 18) \div 10, (median * 55) \div 100})
      on == Clamp(IF usable >= 2000 THEN ceiling + (usable * 45) \div 100 ELSE fallback,
                  5000, 800000)
      off == Min({IF usable >= 2000 THEN ceiling + (usable * 20) \div 100
                  ELSE Max({10000, (fallback * 72) \div 100}),
                  (on * 92) \div 100})
      evidence == (1000 * Min({Len(quiet), Len(voice), Limits.evidence})) \div Limits.evidence
      separation == (usable * 1000) \div Max({median, ceiling + 10000})
  IN  [on |-> on, off |-> Clamp(Clamp(off, 3000, 750000), 3000, (on * 95) \div 100),
       score |-> Score(evidence, separation)]

\* confidenceLabel
Label(score) == IF score >= 750 THEN "high" ELSE IF score >= 500 THEN "medium" ELSE "low"

\* assessCalibrationReadiness: little evidence takes a choice of the user.
NeedsConfirmation(learned) == Label(learned.score) = "low"

-----------------------------------------------------------------------------
(* CoachingAnalyzer.ingest                                                 *)

\* A level against the thresholds of the calibration, with hysteresis.
IsVoice(level, before, gap) ==
  level \in {"voice", "clip"} \/ (level = "between" /\ before /\ gap <= Hold)

\* What a frame speaks for before the next one.
Held(gap) == Min({gap, Hold})

Ingested(a, at, level) ==
  LET clip == level = "clip"
      gap == at - a.last
      end == a.last + Held(gap)
      voice == IF a.last = None THEN IsVoice(level, FALSE, 0) ELSE IsVoice(level, a.voice, gap)
      missing == IF a.last = None THEN Segment("unknown", 0, at) ELSE Segment("unknown", end, at)
      before == IF a.last = None THEN <<>> ELSE [a.segments EXCEPT ![Len(a.segments)].end = end]
      known == IF missing.start < missing.end THEN Append(before, missing) ELSE before
  IN  [a EXCEPT
        !.segments = IF a.last = None \/ voice # a.voice \/ end < at
                     THEN Append(known, Segment(Spoken(voice), at, at)) ELSE known,
        !.last = at, !.voice = voice, !.clip = clip, !.frames = @ + 1,
        !.clipped = IF clip THEN @ + 1 ELSE @,
        !.clipping = IF a.clip THEN @ + Held(gap) ELSE @]

-----------------------------------------------------------------------------
(* CoachingAnalyzer.snapshot                                               *)

Length(s) == s.end - s.start

\* A report never ends before the last frame; without one, last is less than any time.
EndAt(requested, last) == Max({requested, last})

\* The last frame speaks on for a while; what follows is unknown.
Projected(a, at) ==
  IF at = 0 THEN <<>>
  ELSE IF a.segments = <<>> THEN <<Segment("unknown", 0, at)>>
  ELSE LET end == Min({at, a.last + Hold})
           held == [a.segments EXCEPT ![Len(a.segments)].end = end]
       IN  IF end < at THEN Append(held, Segment("unknown", end, at)) ELSE held

\* Segments of one kind in a row are one; empty ones are none.
Joined(segments) ==
  FoldLeft(LAMBDA done, s :
             IF Length(s) = 0 THEN done
             ELSE IF done # <<>> /\ Last(done).kind = s.kind
             THEN [done EXCEPT ![Len(done)].end = s.end]
             ELSE Append(done, s),
           <<>>, segments)

IsGlitch(s, i) ==
  /\ s[i].kind # "unknown" /\ Length(s[i]) < Glitch
  /\ s[i - 1].kind = s[i + 1].kind /\ s[i - 1].kind # "unknown"

\* The first glitch goes to its neighbours, which become one.
Smoothed(s) ==
  LET glitches == {i \in 2 .. Len(s) - 1 : IsGlitch(s, i)}
  IN  IF glitches = {} THEN s
      ELSE LET i == Min(glitches)
           IN  SubSeq(s, 1, i - 2) \o <<[s[i - 1] EXCEPT !.end = s[i + 1].end]>>
                 \o SubSeq(s, i + 2, Len(s))

\* compressSegments, until nothing changes
Compressed(segments) ==
  LET joined == Joined(segments)
  IN  FoldLeft(LAMBDA s, each : Smoothed(s), joined, joined)

Segments(a, at) == Compressed(Projected(a, at))

\* sumDurations
Total(s, kind) == FoldLeft(LAMBDA sum, x : sum + (IF x.kind = kind THEN Length(x) ELSE 0), 0, s)

\* Voice on both sides
Inside(s, i) ==
  i > 1 /\ i < Len(s) /\ s[i - 1].kind = "voice" /\ s[i + 1].kind = "voice"

\* findPauses
Pauses(s) == {i \in 1 .. Len(s) : s[i].kind = "silence" /\ Inside(s, i) /\ Length(s[i]) >= Pause}

\* longestSpeakingRun: the run that each segment belongs to, and the longest so far.
LongestRun(s) ==
  FoldLeft(LAMBDA acc, i :
      LET run == acc.run + Length(s[i])
      IN  IF s[i].kind = "voice" THEN [run |-> run, longest |-> Max({acc.longest, run})]
          ELSE IF Length(s[i]) <= Bridge /\ Inside(s, i) THEN [acc EXCEPT !.run = run]
          ELSE [acc EXCEPT !.run = 0],
    [run |-> 0, longest |-> 0], [i \in 1 .. Len(s) |-> i]).longest

\* currentSilence
CurrentSilence(s) ==
  IF s # <<>> /\ Last(s).kind = "silence" /\ \E i \in 1 .. Len(s) : s[i].kind = "voice"
  THEN Length(Last(s)) ELSE 0

\* Slip: a gap of any kind and length is bridged.
Bridged_AnyGap(gap) == TRUE
Bridged(gap) == gap.kind = "silence" /\ Length(gap) <= Bridge
\* currentSpeakingRun: back from the last voice while gaps are bridged, two at a time.
CurrentRun(s) ==
  LET n == Len(s)
      \* the run reaches back over k gaps
      Reaches(k) == \A j \in 1 .. k :
        2 * j < n /\ Bridged(s[n - 2 * j + 1]) /\ s[n - 2 * j].kind = "voice"
  IN  IF n = 0 \/ Last(s).kind # "voice" THEN 0
      ELSE Last(s).end - s[n - 2 * Max({k \in 0 .. n : Reaches(k)})].start

\* The part of snapshot that tips and advice are made from.
Report(a, at) ==
  LET s == Segments(a, at)
  IN  [at |-> at, segments |-> s, spoken |-> Total(s, "voice"), unknown |-> Total(s, "unknown"),
       pauses |-> Pauses(s), longest |-> LongestRun(s), silence |-> CurrentSilence(s),
       run |-> CurrentRun(s), clipped |-> a.clipped, frames |-> a.frames]

\* measurementConfidence, in thousandths: the weighted parts ...
Weighted(r) ==
  LET observed == r.at - r.unknown
      Share(x, all) == Min({1000, (1000 * x) \div all})
      frames == Max({Limits.frames, observed \div Hold})
  IN  (25 * calibration.learned.score + 20 * Share(r.frames, frames)
         + 25 * Share(observed, Limits.reliable) + 25 * Share(r.spoken, Limits.voiced)
         + 5 * Share(observed, Max({r.at, 1}))) \div 100
\* ... and what limits them.
Confidence(r) ==
  LET continuity == IF r.at = 0 THEN 0 ELSE (1000 * (r.at - r.unknown)) \div r.at
      ceiling == IF Label(calibration.learned.score) = "low" THEN 499 ELSE 1000
  IN  Min({Weighted(r), continuity, ceiling})

-----------------------------------------------------------------------------
(* Tips and advice                                                         *)

\* A share of the whole, at least so many in a hundred.
Rate(part, all, percent) == all > 0 /\ 100 * part >= percent * all

\* Enough frames, enough of them clipped, and enough among all of them.
Clipping(r) ==
  r.frames >= Limits.samples /\ r.clipped >= Limits.clips /\ Rate(r.clipped, r.frames, Limits.clip_rate)

\* tipCandidates, the most urgent first
Candidates(r) ==
  SelectSeq(<<"clipping", "resume-after-pause", "intentional-pause">>,
            LAMBDA tip : CASE tip = "clipping" -> Clipping(r) /\ r.at >= Limits.steady
                           [] tip = "resume-after-pause" ->
                                r.silence >= Limits.silence /\ r.spoken >= Limits.spoken
                           [] OTHER -> r.run >= Limits.run)

Since(time, at, limit) == time = None \/ at - time >= limit

\* CoachingTipPolicy.evaluate, and ingestCoachingFrame around it
TipsAfter(t, r) ==
  IF r.at >= Limits.first /\ r.at >= t.until /\ Since(t.last, r.at, Limits.again)
  THEN IF Since(t.policy, r.at, Limits.cooldown) /\ Candidates(r) # <<>>
       THEN [policy |-> r.at, last |-> r.at, until |-> r.at + Limits.shown,
             shown |-> Head(Candidates(r)), at |-> r.at]
       ELSE t
  ELSE IF r.at >= t.until THEN [t EXCEPT !.shown = "none"] ELSE t

\* buildAdvice: the input was not steady enough to judge the delivery.
Unstable(r) ==
  r.at >= Limits.steady /\ (r.unknown >= Limits.unknown \/ 4 * (r.at - r.unknown) < 3 * r.at)

\* goalPriority: what the priorities weigh, which a goal of their own raises.
Goals == {"pace", "pauses", "energy"}
Weight(id, goal) ==
  CASE id = "restore-stable-input" -> 110
    [] id = "reduce-clipping" -> 100
    [] id = "longer-baseline" -> 90
    [] id = "reduce-pace" -> IF goal = "pace" THEN 95 ELSE 75
    [] id = "steady-input-level" -> IF goal = "energy" THEN 92 ELSE 72
    [] id = "add-intentional-pause" -> IF goal = "pauses" THEN 88 ELSE 68
    [] id = "replace-fillers" -> 64
    [] id = "shorten-long-gap" -> 62
    [] OTHER -> 55

\* buildAdvice: at most two priorities, the most important first.  What the level and the
\* words give reason for is given.
Advice(r, goal, given) ==
  LET paused == \E i \in r.pauses : Length(r.segments[i]) >= Limits.long_pause
      heard == (IF Unstable(r) THEN {"restore-stable-input"} ELSE {})
        \cup (IF Clipping(r) THEN {"reduce-clipping"} ELSE {})
        \cup (IF r.at > 0 /\ r.at < Limits.short THEN {"longer-baseline"} ELSE {})
        \cup (IF ~Unstable(r) /\ r.longest >= Limits.long_run /\ r.pauses = {}
              THEN {"add-intentional-pause"} ELSE {})
        \cup (IF ~Unstable(r) /\ paused THEN {"shorten-long-gap"} ELSE {})
      all == SetToSortSeq(heard \cup given, LAMBDA x, y : Weight(x, goal) > Weight(y, goal))
  IN  SubSeq(all, 1, Min({2, Len(all)}))

-----------------------------------------------------------------------------
(* The attempt                                                             *)

\* A frame while the run calibrates: two seconds are quiet, two more are voice, and the
\* first frame after that is the last sample.
CalibrationFrame(part, rms) ==
  /\ phase = "calibrating" /\ rms \in scope.sampled
  /\ part = "quiet" => calibration.part = "quiet"
  /\ Len(calibration.quiet) + Len(calibration.voice) < scope.samples
  /\ LET kind == IF part = "quiet" THEN "quiet" ELSE "voice"
         sampled == [calibration EXCEPT !.part = part, ![kind] = SortSeq(Append(@, rms), <)]
         learned == Learned(sampled.quiet, sampled.voice)
     IN  IF part # "over"
         THEN calibration' = sampled /\ UNCHANGED phase
         ELSE /\ calibration' = [sampled EXCEPT !.learned = learned]
              /\ phase' = IF NeedsConfirmation(learned) THEN "calibration-readiness"
                          ELSE "active"
  /\ UNCHANGED <<analyzer, tips, observer, scope, extra>>

\* The user's choice after a calibration of little evidence.
RetryCalibration ==
  /\ phase = "calibration-readiness"
  /\ phase' = "calibrating" /\ calibration' = NoSamples
  /\ UNCHANGED <<analyzer, tips, observer, scope, extra>>
ContinueLimited ==
  /\ phase = "calibration-readiness"
  /\ phase' = "active"
  /\ UNCHANGED <<calibration, analyzer, tips, observer, scope, extra>>

\* What the observer makes of a level.
Heard(level) ==
  level \in {"voice", "clip"}
    \/ (level = "between" /\ observer.voice /\ observer.age <= Hold)

\* ingestCoachingFrame
Frame(level) ==
  /\ phase = "active" /\ level \in scope.levels
  /\ IF observer.age = 0 THEN extra > 0 /\ extra' = extra - 1 ELSE UNCHANGED extra
  /\ analyzer' = LET a == Ingested(analyzer, Now, level)
                 IN  IF Now < scope.duration THEN a
                     ELSE [a EXCEPT !.end = EndAt(Min({Now, scope.duration}), Now)]
  /\ tips' = TipsAfter(tips, Report(analyzer', Now))
  /\ observer' = [observer EXCEPT !.age = 0, !.voice = Heard(level), !.clip = (level = "clip")]
  /\ IF Now < scope.duration THEN UNCHANGED phase ELSE phase' = "finished"
  /\ UNCHANGED <<calibration, scope>>

\* A unit of time passes.
Tick ==
  /\ phase = "active" /\ Now < scope.duration + scope.over
  /\ observer' = [observer EXCEPT
       !.age = Min({@ + 1, Hold + 1}),
       !.units = Append(@, IF observer.age >= Hold THEN [kind |-> "unknown", clip |-> FALSE]
                           ELSE [kind |-> Spoken(observer.voice), clip |-> observer.clip])]
  /\ UNCHANGED <<calibration, analyzer, tips, phase, scope, extra>>

\* finishCoachingSession by the user or the timer: the time is cut to the chosen one.
Finish ==
  /\ phase = "active" /\ Now > 0
  /\ phase' = "finished"
  /\ analyzer' = [analyzer EXCEPT !.end = EndAt(Min({Now, scope.duration}), analyzer.last)]
  /\ UNCHANGED <<calibration, tips, observer, scope, extra>>

Next ==
  \/ \E part \in {"quiet", "voice", "over"}, rms \in scope.sampled : CalibrationFrame(part, rms)
  \/ RetryCalibration \/ ContinueLimited
  \/ (\E level \in Levels : Frame(level))
  \/ Tick \/ Finish

Spec == Init /\ [][Next]_vars

-----------------------------------------------------------------------------
(* Properties                                                              *)

Units == observer.units
\* The time of the report: the end of the attempt, once it is over.
Upto == IF analyzer.end = None THEN Now ELSE analyzer.end
Latest == Report(analyzer, Upto)

\* The kind that a report gives to unit t.
KindAt(s, t) == (CHOOSE x \in ToSet(s) : x.start < t /\ t <= x.end).kind
\* The units around t that were of the kind of t, as the observer has them.
RunAround(t) ==
  {u \in 1 .. Upto : \A v \in Min({t, u}) .. Max({t, u}) : Units[v].kind = Units[t].kind}
Lasted(t) == Cardinality(RunAround(t))
\* Unit t is in a silence that is a pause by the observer's account.
InPause(t) ==
  /\ Units[t].kind = "silence"
  /\ LET silence == RunAround(t)
     IN  /\ Cardinality(silence) >= Pause
         /\ \A edge \in {Min(silence) - 1, Max(silence) + 1} :
              edge \in 1 .. Upto /\ Units[edge].kind = "voice" /\ Lasted(edge) >= Glitch

\* A calibration of high confidence separates what it was learned from: the quiet samples,
\* but for the loudest tenth, are silence even after voice, and the voice samples, but for
\* the quietest fifth, are voice even after silence.
CalibrationSeparates ==
  LET quiet == calibration.quiet
      voice == calibration.voice
      learned == calibration.learned
  IN  learned # <<>> =>
        /\ learned.off < learned.on
        /\ Label(learned.score) = "high" =>
             /\ \A i \in 1 .. Len(quiet) : quiet[i] <= Quantile(quiet, 9) => quiet[i] < learned.off
             /\ \A i \in 1 .. Len(voice) : voice[i] >= Quantile(voice, 2) => voice[i] >= learned.on

\* The segments of every snapshot follow each other from the start of the attempt to its
\* end, and what no frame speaks for is unknown, no more and no less, however the frames
\* come: missing callback time is never silence (docs/LEARN_IN_45_MINUTES.md:168).
TimelineAgrees ==
  LET s == Segments(analyzer, Upto)
  IN  /\ Upto > 0 => s # <<>> /\ s[1].start = 0 /\ Last(s).end = Upto
      /\ \A i \in 1 .. Len(s) : Length(s[i]) > 0 /\ (i > 1 => s[i].start = s[i - 1].end)
      /\ \A t \in 1 .. Upto : (KindAt(s, t) = "unknown") = (Units[t].kind = "unknown")

\* Voice and silence are confused only where one of them lasted shorter than a glitch,
\* whatever smoothing does to its neighbours.
SmoothingIsLocal ==
  LET s == Segments(analyzer, Upto)
  IN  \A t \in 1 .. Upto : KindAt(s, t) # Units[t].kind => Lasted(t) < Glitch

\* Every silence of the length of a pause with voice on both sides is reported as a pause,
\* and every pause reported begins and ends with silence and has no unknown in it.
PausesAgree ==
  LET s == Segments(analyzer, Upto)
      pauses == Pauses(s)
  IN  /\ \A t \in 2 .. Upto - 1 :
           InPause(t) => \E i \in pauses : s[i].start < t /\ t <= s[i].end
      /\ \A i \in pauses :
           /\ Units[s[i].start + 1].kind = "silence" /\ Units[s[i].end].kind = "silence"
           /\ \A t \in s[i].start + 1 .. s[i].end : Units[t].kind # "unknown"

\* The run under way is counted backwards and the longest one forwards: the first is never
\* longer than the second, no pause is part of it, and voice without a break is all in it.
RunsAgree ==
  LET s == Segments(analyzer, Upto)
      run == CurrentRun(s)
  IN  /\ run <= LongestRun(s)
      /\ \A i \in Pauses(s) : s[i].end <= Upto - run
      /\ Upto > 0 /\ Units[Upto].kind = "voice" /\ Lasted(Upto) >= Glitch => run >= Lasted(Upto)

\* The clipping time is the time for which the last frame was clipped.
ClippingAgrees ==
  LET clipped == Cardinality({t \in 1 .. Upto : Units[t].clip})
  IN  IF observer.age = 0 THEN analyzer.clipping = clipped ELSE analyzer.clipping <= clipped

\* All that is measured agrees with what could be heard.
MeasurementsAgree ==
  CalibrationSeparates /\ TimelineAgrees /\ SmoothingIsLocal /\ PausesAgree /\ RunsAgree /\ ClippingAgrees

\* A tip is true of the moment it appears in: the speaker was silent but for glitches for
\* as long as it says, or spoke with no more than bridged gaps; neither reaches over time
\* without frames.
TipsAreGrounded ==
  tips.at = Now /\ Upto = Now =>
    /\ tips.shown = "resume-after-pause" =>
         \A t \in Upto - Limits.silence + 1 .. Upto :
           \/ Units[t].kind = "silence"
           \/ Units[t].kind = "voice" /\ Lasted(t) < Glitch
    /\ tips.shown = "intentional-pause" =>
         \A t \in Upto - Limits.run + 1 .. Upto :
           \/ Units[t].kind = "voice"
           \/ Units[t].kind = "silence" /\ Lasted(t) <= Bridge

\* The advice rests on what was heard: frames missing for long come first of all and keep
\* delivery advice away, nobody is told to pause who has paused, and what was half heard is
\* never reported with confidence.
AdviceIsGrounded == phase \in {"active", "finished"} =>
  LET r == Latest
      advice == Advice(r, "pauses", {})
      missing == Cardinality({t \in 1 .. Upto : Units[t].kind = "unknown"})
  IN  /\ Upto >= Limits.steady /\ missing >= Limits.unknown =>
           /\ advice[1] = "restore-stable-input"
           /\ {"add-intentional-pause", "shorten-long-gap"} \cap ToSet(advice) = {}
      /\ "add-intentional-pause" \in ToSet(advice) => \A t \in 2 .. Upto - 1 : ~InPause(t)
      /\ 2 * missing > Upto => Label(Confidence(r)) = "low"
=============================================================================
