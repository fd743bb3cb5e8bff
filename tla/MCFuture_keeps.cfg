SPECIFICATION FairSpec
CONSTANTS
  Callers = {c1, c2, c3}
  Listeners = {l1, l2}
  Readers = {r1}
  NoErr = NoErr
  InitErr = InitErr
  NoValue = NoValue
INVARIANTS
  SettledByOneCall
  NotifiedOnce
  OutcomeIsVisible
PROPERTIES
  KeepsPromiseFairly
CHECK_DEADLOCK FALSE
