SPECIFICATION Spec
CONSTANTS
  Thread = {t1, t2}
  Request = {"minRpm", "maxRpm"}
  Service <- MCService
  Variant <- MCVariant
  MaxCalls = 3
  None = None
INVARIANT AnswersOwnRequest
CHECK_DEADLOCK FALSE
