CONSTANTS
  Carrier = {c1, c2}
  Initial = {c1}
  Closable = {c1}
  Capacity = 1
  MaxFrames = 1
  MaySend = TRUE
  MayAbort = TRUE
SPECIFICATION FairSpec
INVARIANTS InboundInv NothingAfterDiscard ReceivedIsDelivered
PROPERTIES FailedCarriersClose EverythingExits
CHECK_DEADLOCK FALSE
