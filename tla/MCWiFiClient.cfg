SPECIFICATION FairSpec
CONSTANTS
  Sketch = sketch
  Worker = worker
  Client = client
  NoHandle = null
  Threads <- MCThreads
  Sockets = {client}
  Handles = {h1, h2}
  MaxFailures = 1
  MaxSpurious = 2
INVARIANTS
  
  EndedOnce
PROPERTIES
  SketchStops
CHECK_DEADLOCK FALSE
