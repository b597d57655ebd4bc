SPECIFICATION FairSpec
CONSTANTS
    Plans <- TwoPlans
    ConnectorPlan = 2
    Pulls = {p, q}
    Migrated = {q}
    Catalog = {"milestone", "label"}
    Agents = {a}
    MaxEvents = 3
    MaxFaults = 1
INVARIANTS OneIssuePerTask 
PROPERTIES Converges
