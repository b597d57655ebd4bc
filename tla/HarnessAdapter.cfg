SPECIFICATION FairSpec
CONSTANTS
    AJob = j
    ASession = s
    Jobs = {j}
    Attempts = {1, 2}
    Sessions = {s, t}
    Statuses = {"running", "succeeded", "failed", "lost"}
    Earlier <- Tables
    Known <- Supplied
    Reasons = {"completed", "aborted", "unreadable"}
    MaxHandles = 2
    MaxEvents = 1
    MaxFaults = 2
    None = None
INVARIANTS OneOutcome 
PROPERTIES DisposeResolves
CHECK_DEADLOCK FALSE
