SPECIFICATION FairSpec
CONSTANTS
  MaxOffers = 2
  MaxCancels = 1
  MaxDrops = 2
  MaxCrashes = 1
  MaxTimeouts = 1
  MaxFailures = 1
INVARIANTS
  RunsOnceClaimed
  OneOutcome
PROPERTIES
  OfferRuns
  CancelSettles
CHECK_DEADLOCK FALSE
