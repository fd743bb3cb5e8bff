SPECIFICATION ObjectFairSpec
CONSTANTS
  Values = {v1, v2, v3}
  NoValue = NoValue
INVARIANTS
  OneFate
  OnlyTheCurrentTimesOut
PROPERTY EveryValueEnds
CHECK_DEADLOCK FALSE
