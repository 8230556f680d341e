SPECIFICATION Spec
CONSTANTS
  BufferLength = 3
  IndexModulus = 4
  Addresses = {8}
  Roles = {"slave"}
  MaxIn = 3
  MaxOut = 1
INVARIANTS
  AnnouncedArePresent
