SPECIFICATION Spec
CONSTANTS
  s1 = s1
  s2 = s2
  Subs <- MCSubs
  MaxGens = 2
CHECK_DEADLOCK FALSE
INVARIANTS
  SessionIsSound
  ToldIsTrue
