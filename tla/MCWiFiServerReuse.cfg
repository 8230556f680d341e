SPECIFICATION Spec
CONSTANTS
  Sketch = sketch
  Worker = worker
  Server = server
  NoClient = noClient
  NoHandle = null
  Threads <- MCThreads
  Sockets <- MCSockets
  Handles = {h1, h2}
  MaxFailures = 0
  MaxBegins = 1
  MaxConns = 2
  Worlds <- MCWorldsReuse
INVARIANTS
  ReceivedByOwner
CHECK_DEADLOCK FALSE
