SPECIFICATION CollectionFairSpec
CONSTANTS
  N = 3
  NoError = NoError
  CanCancel = TRUE
INVARIANTS
  OutcomeIsTheMembers
PROPERTIES
  CollectionCompletes
CHECK_DEADLOCK FALSE
