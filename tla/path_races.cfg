SPECIFICATION FairSpec
CONSTANTS
  Path = {p1, p2}
  NoPath = NoPath
  InitialDelay = 1
  MaxDelay = 2
  MaxChanges = 2
  MaxFailures = 2
INVARIANTS PathInv NoOrphanSession
PROPERTIES PathGetsSession ShutdownCompletes
CHECK_DEADLOCK FALSE
