SPECIFICATION Spec
CONSTANTS
  MaxSamples = 2
  CountCap = 6
  U32 = 16777216
  LOG_CAPACITY = 3
  MAX_CAPACITY = 2000
  RATE = 1000
  LogRows = 2
  LoadTargets <- MCLoadTargets
  IdleTargets <- MCIdleTargets
  EcBst <- MCEcBst
  EcTemps <- MCEcTemps
  EcRpms <- MCEcRpms
  EcFans <- MCEcFans
  UserRpms <- MCUserRpms
  Seconds <- MCSeconds
  MaxSteps <- MCMaxSteps
INVARIANTS
  ShownIsLatest
  WindowIsTail
  LogShowsNewest
  ZoneMatchesFan
CHECK_DEADLOCK FALSE
