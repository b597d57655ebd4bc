SPECIFICATION Spec
CONSTANTS
  Execs = {c, d}
  Agents = {a}
  Prints = {"push", "test", "deny"}
  ClassOf <- Classes
  None = None
  NoPrint = "unmapped"
  MaxAdmissions = 2
  Timeout = 2
  Validity = 2
  JobExpiry = 2
  DecisionLives = {0, 1}
  Revokes = {TRUE}
  Skews <- Drifts
  MaxTime = 1
  MaxEpoch = 1
  MaxFaults = 1
PROPERTY ApprovedGranted
CHECK_DEADLOCK FALSE
