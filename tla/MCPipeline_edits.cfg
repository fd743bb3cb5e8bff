SPECIFICATION Spec
CONSTANTS
  logger = logger
  group = group
  user = user
  spare1 = spare1
  spare2 = spare2
  Names = {"IO_LOGGER", "CHANNEL_GROUP", "USER", "NEW"}
  Handlers <- MCHandlers
  Roles <- MCRoles
  Bases <- MCBases
  Logger <- MCLogger
  Group <- MCGroup
  MaxEdits = 2
SYMMETRY Spares
INVARIANTS
  EventsMissNobody
  ConnectedAreDisconnected
CHECK_DEADLOCK FALSE
