SPECIFICATION Spec
CONSTANTS
    p = p
    q = q
    Refs <- MCRefs
    OpenRefs <- MCOpenRefs
    MaxTurns = 5
    MaxCrashes = 1
CHECK_DEADLOCK FALSE
INVARIANTS
  StoreIsSound
  PromptedOnce
  TurnsAddUp
PROPERTIES
  EndsForGood
