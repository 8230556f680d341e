SPECIFICATION FairSpec
CONSTANTS
  RxBufferSize = 3
  StreamLen = 5
  ReadLens <- MCReadLens
INVARIANTS
  NoByteLost
  ReceiveIsBacked
  LeftBehindOnlyWhenFull
PROPERTIES
  EveryByteTaken
