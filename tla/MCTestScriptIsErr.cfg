SPECIFICATION Spec
CONSTANTS
  U32 = 16777216
  KnownBits = {0, 1, 2}
  OnDk = 3012
  Directory <- MCDirectory
  Texts <- MCTexts
INVARIANTS
  IsErrIsTheCall
CHECK_DEADLOCK FALSE
