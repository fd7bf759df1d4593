--------------------------- MODULE MCCoachEngine ----------------------------
(* The limits of the run, in the order the code has them, and its scopes.  *)
EXTENDS CoachReview

SmallLimits ==
  [silence |-> 3, spoken |-> 2, run |-> 4, samples |-> 3, clips |-> 2, clip_rate |-> 50, cooldown |-> 3, first |-> 2,
   again |-> 4, shown |-> 2, steady |-> 3, unknown |-> 2, short |-> 5, long_run |-> 6, long_pause |-> 4,
   fast |-> 40, fillers |-> 2, filler_rate |-> 60, repeats |-> 2, repeat_rate |-> 60,
   evidence |-> 2, frames |-> 2, reliable |-> 3, voiced |-> 3, words |-> 2]

Ready == [sampled |-> {200000}, samples |-> 1, over |-> 0, extra |-> 0, transcripts |-> {}, variable |-> {FALSE}, baselines |-> {}]
\* Calibrations: background noise up to most of the scale, voice from the quietest up that
\* the thresholds allow for.
Room == [sampled |-> {5000, 7000, 20000, 90000, 500000, 700000}, samples |-> 5,
         levels |-> {"voice"}, duration |-> 0, over |-> 0, extra |-> 0, transcripts |-> {}, variable |-> {FALSE}, baselines |-> {}]
\* Voice and silence, with gaps.
Talk == [levels |-> {"quiet", "voice"}, duration |-> 8] @@ Ready
\* Frames at the same instant.
Burst == [levels |-> {"quiet", "voice"}, duration |-> 5, extra |-> 2] @@ Ready
\* Levels between the thresholds.
Murmur == [levels |-> {"quiet", "between", "voice"}, duration |-> 6] @@ Ready
\* Clipping.
Loud == [levels |-> {"quiet", "voice", "clip"}, duration |-> 6] @@ Ready
\* The end of the attempt comes late; what is made of its words.
Words == [levels |-> {"quiet", "voice"}, duration |-> 2, over |-> 2, transcripts |-> Transcripts(3),
          baselines |-> {[linked |-> TRUE, goal |-> "pace", strong |-> TRUE, words |-> TRUE]}] @@ Ready
\* Its comparison with all kinds of baselines.
Pairs == [levels |-> {"quiet", "voice"}, duration |-> 4, transcripts |-> {<<>>, <<"idea", "um">>},
          baselines |-> Baselines] @@ Ready
\* The same after a calibration of little evidence, which the user accepted.
Weak == [sampled |-> {20000}] @@ Pairs
\* The next attempt, after gaps and all signs of the words, or clipping.
Hints == [levels |-> {"voice"}, duration |-> 8, variable |-> BOOLEAN,
          transcripts |-> {<<>>, <<"idea", "idea", "idea", "idea">>, <<"um", "idea", "um">>,
                           <<"um", "idea", "um", "idea">>, <<"um", "um", "um", "idea">>,
                           <<"um", "um", "um", "um">>},
          baselines |-> {[linked |-> TRUE, goal |-> "pace", strong |-> TRUE, words |-> TRUE]}] @@ Ready
Clipped == [levels |-> {"voice", "clip"}, duration |-> 4, transcripts |-> {<<>>, <<"um", "um", "um">>}] @@ Hints
AllScopes == {Room, Talk, Burst, Murmur, Loud, Words, Pairs, Weak, Hints, Clipped}
=============================================================================
