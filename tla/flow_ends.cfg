CONSTANTS
  Carrier = {c1}
  Total <- TwoBytes
  Finishes = {"client", "server"}
  ChunkSize = 2
  Window <- Window1
  InboundCapacity = 1
  MaxFailures = 1
  StreamMayFail = TRUE
SPECIFICATION FairSpec
INVARIANTS GracefulMeansDelivered HistoryBounded
PROPERTIES ImplementsStream EventuallyDone
CHECK_DEADLOCK FALSE
