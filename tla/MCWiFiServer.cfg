SPECIFICATION Spec
CONSTANTS
  Sketch = sketch
  Worker = worker
  Server = server
  NoClient = noClient
  NoHandle = null
  Threads <- MCThreads
  Sockets <- MCSockets
  Handles = {h1, h2, h3}
  MaxFailures = 0
  MaxBegins = 1
  MaxConns = 3
  Worlds <- MCWorlds
SYMMETRY HandleSymmetry
INVARIANTS
  ReceivedByOwner
  ListIsExact
  WorkerCountIsExact
  LibraryStaysUp
CHECK_DEADLOCK FALSE
