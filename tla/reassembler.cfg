CONSTANTS
  Byte = {0, 1}
  MaxOffset = 4
  Window = 3
  MaxSegments = 1
  MaxPayload = 3
SPECIFICATION Spec
INVARIANTS SegmentsInv
PROPERTIES SameAnswers ImplementsBuffer
