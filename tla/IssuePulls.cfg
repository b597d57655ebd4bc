CONSTANTS
  Users = {bob}
  Eligible = {bob}
  Maintainers = {bob}
  Pulls = {1}
  Verbs = {"claim"}
  LeaseLength = 1
  MaxTime = 2
  MaxCommands = 1
  MaxEdits = 3
  MaxFaults = 1
  Meanwhile = {"idle", "loaded"}
  NoOne = NoOne
  Bot = Bot
SPECIFICATION PullSpec
INVARIANTS
  DoneVerifies
PROPERTIES
  
  GatedMergeLands
