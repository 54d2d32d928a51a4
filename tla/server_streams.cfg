SPECIFICATION Spec
CONSTANTS
  Conn = {c1, c2, c3}
  StreamId = {s1, s2, s3}
  Destination = {d1}
  MaxStreams = 2
  MaxPending = 2
  MaxCarriers = 1
  SafetyLimit = 2
  TTL = 1
  MaxTime = 1
  Nobody = Nobody
SYMMETRY Symmetry
INVARIANTS TableInv NoSecondDial TimerSparesStarted OpenPromiseKept
CHECK_DEADLOCK FALSE
