CONSTANTS
  Dispositions = {"ack", "state"}
  Window = 2
  MaxEvents = 1
  MaxCommands = 1
  MaxDrops = 1
  MaxCrashes = 1
  MaxExpiries = 1
  MaxStalls = 1
  MaxInFlight = 1
  MaxLate = 1
SPECIFICATION MCSpec
CHECK_DEADLOCK FALSE
INVARIANTS
  
  ProvenIsConsumed
  
  
PROPERTIES
  AllProven
  CommandsSettled
