SPECIFICATION Spec
CONSTANTS
  Runs = {r1}
  None = None
  MaxAttempts = 2
  MaxFailures = 2
  MaxRepairs = 1
  MaxTurns = 2
  MaxVersion = 7
  MaxFaults = 1
  MaxRepeat = 1
CHECK_DEADLOCK FALSE
INVARIANTS
  
  ToldIsStored
PROPERTIES
  HistoryOnlyGrows
