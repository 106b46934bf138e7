SPECIFICATION FairSpec
CONSTANTS
  BlockCount = 2
  BlockSize = 2
  InfoOffset = 3
  InfoSize = 1
  Undefined = Undefined
  Block <- MCBlock
  Capsules <- MCCapsules
  MaxUpdates = 2
  MaxPowerCycles = 1
INVARIANTS
  SuccessInstallsBoth
  NoSessionWhenIdle
  WritableOnlyAfterCommit
  LockSealsBoth
PROPERTIES
  ImplementsSreUpdate
  UpdateAdvances
  UpdateReturns
