SPECIFICATION HeartbeatFairSpec
CONSTANTS
  Orders <- UsualOrders
  Timeouts = {t1, t2, t3}
  None = None
INVARIANTS
  OneChain
PROPERTIES
  DeadPeerIsNoticed
  BeatsEnd
CHECK_DEADLOCK FALSE
