\* An attempt with every order of frames and gaps.
SPECIFICATION ReviewSpec
CONSTANTS
  Hold = 2
  Glitch = 2
  Bridge = 2
  Pause = 3
  Limits <- SmallLimits
  Longest = 5
  Pace = 1
  Scopes <- AllScopes
INVARIANTS MeasurementsAgree FeedbackIsSound
\* An attempt ends.
CHECK_DEADLOCK FALSE
