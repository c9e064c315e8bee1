SPECIFICATION FairSpec
CONSTANTS
    s1 = s1
    s2 = s2
    t1 = t1
    t2 = t2
    t3 = t3
    c1 = c1
    c2 = c2
    c3 = c3
    None = None
    Root = Root
    Sessions = {s1}
    MaxTurns = 2
    Tabs = {t1}
    FirstTabs = {t1}
    Convs = {c1, c2}
    OldConvs = {}
    MaxMoves = 1
    MaxStops = 1
CHECK_DEADLOCK FALSE
INVARIANTS
  TypedAsTold
PROPERTIES
  KeptWhereItIs
  GateIsReleased
