CONSTANTS
  Reqs = {r1, r2, r3}
  Pipes = {A, B}
  PipeSets <- AnyPipes
  User = user
  Reuse = FALSE
  BadReqs = {}
  MaxJobs = 2
  MaxQueue = 3
  MaxStart = 1
SPECIFICATION Spec
SYMMETRY Symmetry
INVARIANTS ListedOnce BufferReturnedOnce RemoverOwnsEntry JobsWithinLimit
CHECK_DEADLOCK FALSE
