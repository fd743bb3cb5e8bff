SPECIFICATION FairSpec
CONSTANTS
  Conns = {c1, c2}
  Stoppers = {s1, s2}
  None = None
INVARIANTS
  StopLeavesNothing
  CloseMissesNoMember
  GroupIsExact
PROPERTIES
  KeepsLifecycle
  StopWaitsOnlyForPeers
CHECK_DEADLOCK FALSE
