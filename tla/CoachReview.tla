----------------------------- MODULE CoachReview -----------------------------
(***************************************************************************)
(* What becomes of a finished attempt: the words that were recognised are  *)
(* counted, a compact summary is made, checked by the server that keeps    *)
(* its backup (normalizeCoachingSummary of cloudflare/platform.ts), and    *)
(* compared with the baseline it retries (cloudflare/public/               *)
(* coach-loop.js); and the library of cards and the priorities of the       *)
(* advice make the next attempt.                                           *)
(***************************************************************************)
EXTENDS CoachEngine

CONSTANTS
  Longest,    \* the longest duration a backup may have
  Pace        \* words per unit of time: the most a backup may have

ASSUME ReviewAssumption == {Longest, Pace} \subseteq Nat \ {0}

VARIABLE
  review      \* what the page makes of the attempt, once it has ended

reviewVars == <<vars, review>>

NoReview == [made |-> FALSE]

ReviewInit == Init /\ review = NoReview

-----------------------------------------------------------------------------
(* analyzeTranscript                                                       *)

Tokens == {"idea", "um", "you", "know"}
Transcripts(most) == UNION {[1 .. n -> Tokens] : n \in 0 .. most}

\* One-word fillers and two-word ones; no word belongs to two.
Fillers(words) ==
  Cardinality({i \in DOMAIN words :
                 \/ words[i] = "um"
                 \/ i < Len(words) /\ words[i] = "you" /\ words[i + 1] = "know"})
\* Words said twice at once.
Repeats(words) == Cardinality({i \in DOMAIN words \ {1} : words[i] = words[i - 1]})

-----------------------------------------------------------------------------
(* The summary                                                             *)

\* Percentages are rounded.
Percent(x, all) == IF all = 0 THEN 0 ELSE (200 * x + all) \div (2 * all)

\* finish and buildCoachingSummary; no transcript is no measurement of words.
Summary(r, words) ==
  [duration |-> r.at, voiced |-> r.spoken, observed |-> r.at - r.unknown, unknown |-> r.unknown,
   coverage |-> IF r.at = 0 THEN 0 ELSE (1000 * (r.at - r.unknown)) \div r.at,
   pauses |-> Cardinality(r.pauses), longest |-> r.longest,
   clipping |-> Percent(r.clipped, r.frames),
   confidence |-> Label(Confidence(r)),
   transcript |-> IF words = <<>> THEN <<>>
                  ELSE [count |-> Len(words),
                        pace |-> IF r.at = 0 THEN 0 ELSE Len(words) \div r.at,
                        fillers |-> Percent(Fillers(words), Len(words)),
                        repeats |-> Percent(Repeats(words), Len(words))]]

\* normalizeTranscriptMetrics
AcceptsWords(transcript) ==
  transcript # <<>> =>
    transcript.pace <= Pace /\ transcript.fillers <= 100 /\ transcript.repeats <= 100

\* normalizeMetrics
AcceptsMetrics(metrics) ==
  /\ \A ms \in {metrics.duration, metrics.voiced, metrics.observed, metrics.unknown,
                 metrics.longest} : ms \in 0 .. Longest
  /\ metrics.coverage \in 0 .. 1000 /\ metrics.clipping \in 0 .. 100
  /\ AcceptsWords(metrics.transcript)

\* normalizeCoachingSummary: no part is longer than the whole.
Accepts(metrics) ==
  /\ AcceptsMetrics(metrics)
  /\ {metrics.voiced, metrics.observed, metrics.unknown} \subseteq 0 .. metrics.duration

-----------------------------------------------------------------------------
(* The comparison with the baseline                                        *)

\* What a history may hold for the baseline of a retry: the link may lead to another attempt,
\* its setup may be another, and its evidence may be weak.
Baselines ==
  [linked : BOOLEAN, goal : Goals, strong : BOOLEAN, words : BOOLEAN]

\* validateComparablePair
Comparable(baseline, goal) == baseline.linked /\ baseline.goal = goal

\* Slip: the evidence of the first attempt is looked at twice.
Limited_FirstTwice(baseline, metrics) == ~baseline.strong
\* evidenceLimitations of either attempt
Limited(baseline, metrics) ==
  \/ ~baseline.strong
  \/ metrics.duration < Limits.reliable \/ metrics.coverage < 750 \/ metrics.confidence = "low"

\* The measures of the goal that both attempts have, and what they are for the retry.
\* eligibleTranscript, paceMeasures, pauseMeasures, energyMeasures, measure
Measures(goal, baseline, metrics) ==
  CASE goal = "pace" ->
         [longest |-> metrics.longest]
           @@ (IF baseline.words /\ metrics.transcript # <<>>
                    /\ metrics.transcript.count >= Limits.words
                    /\ metrics.duration >= Limits.reliable
                 THEN [pace |-> metrics.transcript.pace] ELSE <<>>)
    [] goal = "pauses" ->
         [longest |-> metrics.longest]
           @@ (IF metrics.observed > 0
                 THEN [rate |-> Percent(metrics.pauses, metrics.observed)] ELSE <<>>)
    [] OTHER -> [clipping |-> metrics.clipping]

\* compareGoalAttempts
Comparison(baseline, goal, metrics) ==
  IF ~Comparable(baseline, goal) THEN [status |-> "invalid", measures |-> <<>>]
  ELSE [status |-> IF Limited(baseline, metrics) THEN "limited" ELSE "ready",
        measures |-> Measures(goal, baseline, metrics)]

-----------------------------------------------------------------------------
(* The next attempt                                                        *)

Cards == <<"idea-boundary-pause", "recover-after-gap", "protect-input-level", "pace-with-breaths",
           "replace-fillers-with-silence", "repeat-and-compare">>
OfDelivery ==
  {"idea-boundary-pause", "recover-after-gap", "pace-with-breaths", "replace-fillers-with-silence"}

\* COACHING_KNOWLEDGE_CARDS: twice the points that the words of a sign's query, or of a goal,
\* score on each card: 4 for its tags, 2 for its title, 1 for its excerpt, 1/2 for its drill.
Points ==
  [short |-> <<2, 0, 0, 0, 1, 55>>, clipping |-> <<0, 0, 66, 0, 0, 0>>,
   variable |-> <<0, 0, 53, 0, 0, 0>>, unsteady |-> <<0, 0, 37, 0, 0, 11>>,
   run |-> <<67, 3, 0, 9, 10, 0>>, gap |-> <<0, 57, 0, 0, 12, 0>>,
   fast |-> <<19, 5, 1, 64, 8, 0>>, fillers |-> <<15, 9, 0, 2, 43, 0>>,
   repeats |-> <<15, 9, 0, 2, 38, 0>>, pace |-> <<8, 0, 0, 14, 8, 0>>,
   pauses |-> <<15, 0, 0, 0, 8, 0>>, energy |-> <<0, 0, 8, 0, 0, 0>>]

\* How often a sign's query is repeated: the validity of a recording is to outrank its style.
Boost(sign) ==
  CASE sign = "clipping" -> 4 [] sign \in {"short", "unsteady"} -> 3 [] sign = "variable" -> 2
    [] OTHER -> 1

\* What the words give reason for, when there are enough of them.
WordSigns(r, words) ==
  IF r.at < Limits.reliable \/ Len(words) < Limits.words THEN {}
  ELSE {sign \in {"fast", "fillers", "repeats"} :
          CASE sign = "fast" -> Percent(Len(words), r.at) > Limits.fast
            [] sign = "fillers" ->
                 Fillers(words) >= Limits.fillers /\ Rate(Fillers(words), Len(words), Limits.filler_rate)
            [] OTHER ->
                 Repeats(words) >= Limits.repeats /\ Rate(Repeats(words), Len(words), Limits.repeat_rate)}

\* The measures that the query of retrieveCoachingGuidance is made from.
Signs(r, words, variable) ==
  WordSigns(r, words) \cup
  {sign \in {"short", "clipping", "variable", "unsteady", "run", "gap"} :
     CASE sign = "short" -> r.at > 0 /\ r.at < Limits.short
       [] sign = "clipping" -> Clipping(r)
       [] sign = "variable" -> variable
       [] sign = "unsteady" -> r.unknown >= Limits.unknown \/ Unstable(r)
       [] sign = "run" -> r.longest >= Limits.long_run /\ r.pauses = {}
       [] OTHER -> \E i \in r.pauses : Length(r.segments[i]) >= Limits.long_pause}

\* retrieveCoachingGuidance: the best card, the earlier of equal ones; one incidental word is
\* not enough.
Retrieved(goal, signs) ==
  LET score == [card \in DOMAIN Cards |->
                  Points[goal][card] + MapThenSumSet(LAMBDA sign : Boost(sign) * Points[sign][card], signs)]
      best == CHOOSE card \in DOMAIN Cards : \A other \in DOMAIN Cards :
                score[card] > score[other] \/ (score[card] = score[other] /\ card <= other)
  IN  IF score[best] >= 8 THEN Cards[best] ELSE "repeat-and-compare"

\* generateGroundedNextAttempt: without a sign of the level, a card about the level gives way
\* to the drill that restores the input.
NextAttempt(card, advice, signs) ==
  LET unsupported == /\ card = "protect-input-level" /\ {"clipping", "variable"} \cap signs = {}
                     /\ advice # <<>> /\ advice[1] = "restore-stable-input"
  IN  [drill |-> IF unsupported THEN advice[1] ELSE card,
       compare |-> IF advice = <<>> THEN "the same" ELSE advice[1], used |-> ~unsupported]

\* The priorities that the level and the words give reason for.
Given(signs) ==
  {CASE sign = "variable" -> "steady-input-level" [] sign = "fast" -> "reduce-pace"
     [] sign = "fillers" -> "replace-fillers" [] OTHER -> "reduce-immediate-repetition" :
     sign \in signs \cap {"variable", "fast", "fillers", "repeats"}}

-----------------------------------------------------------------------------
\* finishCoachingSession after its awaits: nobody says more words than can be said.
MakeReview(words, variable, baseline, goal) ==
  /\ phase = "finished" /\ ~review.made
  /\ Len(words) <= Pace * analyzer.end
  /\ LET r == Report(analyzer, analyzer.end)
         metrics == Summary(r, words)
         signs == Signs(r, words, variable)
         advice == Advice(r, goal, Given(signs))
     IN  review' = [made |-> TRUE, metrics |-> metrics, accepted |-> Accepts(metrics),
                    baseline |-> baseline, goal |-> goal,
                    comparison |-> Comparison(baseline, goal, metrics), signs |-> signs,
                    next |-> NextAttempt(Retrieved(goal, signs), advice, signs)]
  /\ UNCHANGED vars

ReviewNext ==
  \/ Next /\ UNCHANGED review
  \/ \E words \in scope.transcripts, variable \in scope.variable,
        baseline \in scope.baselines, goal \in Goals : MakeReview(words, variable, baseline, goal)

ReviewSpec == ReviewInit /\ [][ReviewNext]_reviewVars

-----------------------------------------------------------------------------
(* Properties                                                              *)

\* What the page measures the server keeps: every summary of an attempt within the server's
\* limit passes its checks, so that a backup fails only for want of a connection.
BackupsAreAccepted ==
  review.made /\ review.metrics.duration <= Longest => review.accepted

\* A comparison is called ready only if the retry was heard well enough by the observer's
\* account, is linked to its baseline and has its goal, and compares what was measured.
ComparisonsAreFair ==
  review.made /\ review.comparison.status = "ready" =>
    LET heard == Cardinality({t \in 1 .. Upto : Units[t].kind # "unknown"})
    IN  /\ review.baseline.linked /\ review.baseline.strong
        /\ review.baseline.goal = review.goal
        /\ Upto >= Limits.reliable /\ 4 * heard >= 3 * Upto
        /\ Label(calibration.learned.score) # "low"
        /\ "longest" \in DOMAIN review.comparison.measures =>
             \A t \in 1 .. Upto :
               Units[t].kind = "voice" /\ Lasted(t) >= Glitch =>
                 review.comparison.measures.longest >= Lasted(t)

\* The next attempt fits what was heard: a recording that clipped, in enough of its frames
\* and for enough of them, is repaired before its style, however many signs speak for
\* another card; who spoke too shortly is asked for more; after missing frames nobody is
\* sent to the microphone's level without a sign of the level, and no card about delivery
\* comes before the input unless a long run and two signs of the words outweigh it (the
\* code's boost does not prevent that, see README).
NextAttemptFits ==
  review.made =>
    LET missing == Cardinality({t \in 1 .. Upto : Units[t].kind = "unknown"})
        drill == review.next.drill
        level == {"clipping", "variable"} \cap review.signs
    IN  /\ Clipping(Latest) => drill = "protect-input-level"
        /\ Upto < Limits.short /\ level = {} => drill = "repeat-and-compare"
        /\ Upto >= Limits.steady /\ missing >= Limits.unknown =>
             /\ drill = "protect-input-level" => level # {}
             /\ drill \in OfDelivery =>
                  /\ "run" \in review.signs
                  /\ Cardinality(review.signs \cap {"fast", "fillers", "repeats"}) >= 2

\* What the speaker is told during the attempt is true of it, and what is made of it is
\* worth keeping, comparing and following.
FeedbackIsSound ==
  /\ TipsAreGrounded /\ AdviceIsGrounded
  /\ BackupsAreAccepted /\ ComparisonsAreFair /\ NextAttemptFits
=============================================================================
