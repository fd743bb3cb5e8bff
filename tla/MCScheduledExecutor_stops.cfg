SPECIFICATION FairSpec
CONSTANTS
  Keys = {k1}
  Loops = {l1, l2, l3}
  Procs = {p1, p2}
  NoLoop = NoLoop
INVARIANTS
  CancelNeverPanics
  CancelFindsTheLoop
PROPERTY StoppedLoopsEnd
CHECK_DEADLOCK FALSE
