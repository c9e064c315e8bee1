\* One commit of another process, one own write after which the handle writes no more.
CONSTANTS
    Runs = {r1}
    Callers = {c1, c2}
    None = None
    MaxVersion = 2
    MaxOther = 1
    MaxOwn = 1
    MaxFaults = 1
SPECIFICATION Spec
CHECK_DEADLOCK FALSE
INVARIANTS
  VouchedIsIntact
  CleanExit
PROPERTIES
  SavedOnIntact
  WaitsEnd
