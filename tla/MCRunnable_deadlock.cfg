SPECIFICATION FairSpec
CONSTANT Stoppers = {s1, s2}
PROPERTY StopReturns
CHECK_DEADLOCK FALSE
