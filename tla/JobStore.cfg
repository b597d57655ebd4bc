CONSTANTS
  Jobs = {j1, j2, j3}
  Single = j1
  Connectors = {c1, c2}
  ApprovalIds = {a1, a2}
  Repositories = {"wide", "narrow"}
  RepositoryOf <- MCRepositoryOf
  MaxConcurrency <- MCConcurrency
  MaxInt = 5
  MaxClock = 3
  JobTtl = 3
  LeaseTtl = 1
  CommandTtl = 2
  ReplayBatch = 100
  Attempts = {1, 2}
  None = None
SYMMETRY MCSymmetry
SPECIFICATION MCSpec
CHECK_DEADLOCK FALSE
INVARIANTS
  TypeOK
  OnePendingApproval
  SingleExecution
  PublishedIsConsumed
  
PROPERTIES
  FollowsLifecycle
