CONSTANTS
  Reqs = {r1, r2}
  Pipes = {A}
  PipeSets <- OnePipeEach
  User = user
  Reuse = TRUE
  BadReqs = {}
  MaxJobs = 1
  MaxQueue = 3
  MaxStart = 1
SPECIFICATION Spec
SYMMETRY Symmetry
INVARIANTS StopReturnsAllBuffers
CHECK_DEADLOCK FALSE
