SPECIFICATION Spec
CONSTANTS
  Base = 16
  CR = 15
  LF = 14
  Delimiter <- MCDelimiter
  Msgs <- MCMsgs
  Pipelines <- MCPipelines
INVARIANTS
  DeliveredAsSent
  NothingHeldBack
PROPERTIES
  FailsOnTooLargeOnly
CHECK_DEADLOCK FALSE
