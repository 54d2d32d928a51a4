CONSTANTS
  Path = {p1, p2}
  NoPath = NoPath
  MaxSessions = 1
  MaxRefreshes = 1
  MaxFailures = 0
SPECIFICATION FairSpec
PROPERTIES HealthySessionGetsCarrier
CHECK_DEADLOCK FALSE
