CONSTANTS
  Carrier = {c1, c2}
  Total <- OneByte
  Finishes = {"client"}
  ChunkSize = 1
  Window <- Window1
  InboundCapacity = 1
  MaxFailures = 1
  StreamMayFail = FALSE
SPECIFICATION Spec
INVARIANTS StreamInv NothingForgotten CarrierCopyComplete NeverOutOfOrder Uninterrupted NeverStuck
SYMMETRY Symmetry
CHECK_DEADLOCK FALSE
