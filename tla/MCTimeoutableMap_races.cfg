SPECIFICATION FairSpec
CONSTANTS
  Keys = {k1}
  Entries = {e1, e2}
  Timed = {e1, e2}
  Procs = {p1, p2}
  NoEntry = NoEntry
  NoKey = NoKey
INVARIANTS
  GivenOnce
  NothingForgotten
  TimedOutIsRemoved
  OnlyCancelsRace
PROPERTIES
  RemoveDisarms
  EveryEntryEnds
CHECK_DEADLOCK FALSE
