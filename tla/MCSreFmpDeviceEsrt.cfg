SPECIFICATION Spec
CONSTANTS
  BlockCount = 2
  BlockSize = 2
  InfoOffset = 3
  InfoSize = 1
  Undefined = Undefined
  Block <- MCBlock
  Capsules <- MCCapsules
  MaxUpdates = 1
  MaxPowerCycles = 0
INVARIANT EsrtVersionIsRunning
CHECK_DEADLOCK FALSE
