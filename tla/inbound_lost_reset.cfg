CONSTANTS
  Carrier = {c1, c2}
  Initial = {c1, c2}
  Closable = {c1}
  Capacity = 1
  MaxFrames = 1
  MaySend = TRUE
  MayAbort = FALSE
SPECIFICATION FairSpec
PROPERTIES LastCarrierCloses
CHECK_DEADLOCK FALSE
