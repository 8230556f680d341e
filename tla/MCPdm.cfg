SPECIFICATION Spec
CONSTANTS
  Samples = {s1, s2}
  Garbage = garbage
  DmaLen = 2
  BufferSizes <- MCBufferSizes
  ReadSizes <- MCReadSizes
INVARIANTS
  InterruptFindsRing
  CopyNotOverwritten
PROPERTIES
  FifoSpec
CHECK_DEADLOCK FALSE
