SPECIFICATION StorageSpec
CONSTANTS
  BlockCount = 2
  Block = {b1, b2}
  Undefined = Undefined
INVARIANTS
  StorageTypeOK
  SessionHoldsUnlock
  StagedIsAccepted
PROPERTIES
  CommitsWholeSession
  SealedIsFrozen
