SPECIFICATION FairUdpSpec
CONSTANTS
  RxBufferSize = 3
  PacketSize = 2
  Length <- MCLength
  ReadLens <- MCReadLens
  WriteLens <- MCWriteLens
  MaxOut = 4
  MaxBegins = 2
INVARIANTS
  SentIsWritten
PROPERTIES
  QueueSpec
  EveryDatagramParsed
