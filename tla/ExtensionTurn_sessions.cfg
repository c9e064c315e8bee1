SPECIFICATION Spec
CONSTANTS
    s1 = s1
    s2 = s2
    t1 = t1
    t2 = t2
    t3 = t3
    c1 = c1
    c2 = c2
    c3 = c3
    None = None
    Root = Root
    Sessions = {s1, s2}
    MaxTurns = 1
    Tabs = {t1, t2}
    FirstTabs = {t1}
    Convs = {c1, c2}
    OldConvs = {}
    MaxMoves = 1
    MaxStops = 0
SYMMETRY Symmetry
CHECK_DEADLOCK FALSE
INVARIANTS
  DeliveryBelongs
  TargetIsExclusive
PROPERTIES
  KeptWhereItIs
