SPECIFICATION FairSpec
CONSTANTS
  Execs = {c, d}
  Agents = {a}
  Prints = {"push", "test", "deny"}
  ClassOf <- Classes
  None = None
  NoPrint = "unmapped"
  MaxAdmissions = 2
  Timeout = 2
  Validity = 1
  JobExpiry = 2
  DecisionLives = {0, 1}
  Revokes = {TRUE, FALSE}
  Skews <- Drifts
  MaxTime = 0
  MaxEpoch = 1
  MaxFaults = 1
INVARIANTS RunsApproved  OneWaiterPerAttempt
CHECK_DEADLOCK FALSE
PROPERTY RequestAnswered
