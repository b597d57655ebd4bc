CONSTANTS
  Jobs = {a, b}
  Speeches <- MCSpeeches
  Coalesce = 1
  MaxCalls = 3
  MaxTime = 2
  None = None
SPECIFICATION MCSpec
CHECK_DEADLOCK FALSE
INVARIANTS
  WireOrder
  StopSilences
  NoStaleProgress
PROPERTIES
  CallsSettle
