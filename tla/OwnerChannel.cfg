SPECIFICATION Spec
CONSTANTS
    Requests = {r}
    Payloads = {"p", "q"}
    Earlier = {0, 2}
    MaxJobs = 2
    MaxApprovals = 2
    MaxCalls = 3
    MaxRows = 2
    MaxAge = 1
    Lifetime = 1
    MaxTime = 1
    None = None
INVARIANTS OneJobPerRequest DecisionsAreTheOwners CancelTold
CHECK_DEADLOCK FALSE
