\* Two implementation rounds, two retries, two crashes and two discussions: enough for
\* a retried timeout, a rework, a stop inside a stop and a crash during recovery.
SPECIFICATION FairSpec
CONSTANTS
  MaxIterations = 2
  MaxRetries = 2
  MaxCrashes = 2
  MaxTalks = 2
\* a finished run may rest for ever
CHECK_DEADLOCK FALSE
INVARIANTS
  ApprovalHolds
  RecordIsTrue
PROPERTIES
  
  EverythingEnds
