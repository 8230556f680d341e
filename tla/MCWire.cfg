SPECIFICATION FairSpec
CONSTANTS
  BufferLength = 3
  IndexModulus = 3
  Addresses = {8}
  Roles = {"master", "slave"}
  MaxIn = 5
  MaxOut = 4
INVARIANTS
  InOrder
  
PROPERTIES
  LoopEnds
