CONSTANTS
  Path = {p1, p2}
  NoPath = NoPath
  MaxSessions = 2
  MaxRefreshes = 1
  MaxFailures = 2
SPECIFICATION FairSpec
INVARIANTS SlotInv
PROPERTIES FirstSessionGetsCarrier
CHECK_DEADLOCK FALSE
