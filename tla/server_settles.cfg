SPECIFICATION FairSpec
CONSTANTS
  Conn = {c1, c2}
  StreamId = {s1}
  Destination = {d1, d2}
  MaxStreams = 0
  MaxPending = 0
  MaxCarriers = 0
  SafetyLimit = 1
  TTL = 1
  MaxTime = 1
  Nobody = Nobody
PROPERTIES EveryOpenSettles ShutdownCompletes
CHECK_DEADLOCK FALSE
