SPECIFICATION FairSpec
CONSTANTS
  Requests = {r1, r2}
  Ranges <- ShortRanges
  MaxInt = 3
  Asks = {1}
  None = None
INVARIANTS
  AnsweredByItsResponse
  DoneLeavesTheMap
PROPERTY
  EveryRequestEnds
CHECK_DEADLOCK FALSE
