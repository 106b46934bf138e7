SPECIFICATION Spec
CONSTANTS
  U32 = 16777216
  KnownBits = {0, 1, 2}
  OnDk = 3012
  Directory <- MCDirectory
  Texts <- MCTexts
INVARIANTS
  LineIsStart
  ExitMeansAllPassed
  OkMeansApplied
  ThresholdRoundTrip
CHECK_DEADLOCK FALSE
