SPECIFICATION Spec
CONSTANTS
  MaxReq = 3
  MaxPreps = 2
  MaxFaults = 1
CHECK_DEADLOCK FALSE
INVARIANTS
  NeverResent
  DeliveryIsRecorded
  RunIsAgreed
  ReceiptsAreTrue
