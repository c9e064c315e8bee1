SPECIFICATION Spec
CONSTANTS
  Runs = {u1}
  Kinds = {"steer", "delete"}
  MaxReq = 2
  MaxLives = 2
  MaxReceipts = 1
  MaxFaults = 1
INVARIANTS
  AtMostOnce
  ToldIsTrue
  
