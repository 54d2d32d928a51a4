SPECIFICATION FairSpec
CONSTANTS
  c1 = c1
  c2 = c2
  a1 = a1
  a2 = a2
  stranger = stranger
  right = right
  wrong = wrong
  Conn = {c1, c2}
  Credential = {right, wrong}
  Known = {right}
  Peers <- Setups
  Address = {a1, a2, stranger}
  Allowed = {a1, a2}
  MaxPending = 1
  MaxSessions = 1
  TrafficLimit = 1
INVARIANTS Agreement ConnectionsInv TrafficInv
CHECK_DEADLOCK FALSE
PROPERTIES PlacesComeFree ShutdownCompletes
