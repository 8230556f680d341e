SPECIFICATION Spec
CONSTANTS
  Samples = {s1, s2}
  Garbage = garbage
  DmaLen = 2
  BufferSizes <- MCBufferSizes
  ReadSizes <- MCReadSizes
INVARIANT
  EndReleasesAll
CHECK_DEADLOCK FALSE
