CONSTANTS
  Ids = {a, b}
  Rooms = {r}
  FailureThreshold = 2
  MaxActive = 2
  Inactivity = 2
  TokenLives = {1, 9}
  DrainTime = 1
  MaxSessions = 2
  LastRequest = 1
  MaxTime = 3
SPECIFICATION FairSpec

  
PROPERTIES
  SessionsEnd
CHECK_DEADLOCK FALSE
