SPECIFICATION FairSpec
CONSTANTS
  Calls = {p1, p2}
  ReconnCounts <- NeverAgainOrOnceOrForEver
  MaxDials = 3
INVARIANTS
  OneConnectionPerAddress
  RetryBudgetIsKept
  ErrorsLeaveNothingOpen
PROPERTIES
  EveryCallIsAnswered
  ReconnectsUntilStopped
  StopSettles
CHECK_DEADLOCK FALSE
