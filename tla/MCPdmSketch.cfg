SPECIFICATION SketchSpec
CONSTANTS
  Samples = {s1, s2}
  Garbage = garbage
  DmaLen = 2
  FrameSize = 3
  BufferSizes <- MCBufferSizes
  ReadSizes <- MCReadSizes
INVARIANTS
  NoLostWakeup
PROPERTIES
  SamplesAreRead
CHECK_DEADLOCK FALSE
