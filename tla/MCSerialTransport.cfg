SPECIFICATION FairSpec
CONSTANTS
  Thread = {t1, t2}
  Request = {"minRpm", "tmp", "bst"}
  Service <- MCService
  Variant <- MCVariant
  MaxCalls = 3
  None = None
INVARIANT TypeOK
PROPERTIES
  CleanStartAnswersOwn
  CallsReturn
CHECK_DEADLOCK FALSE
