CONSTANTS
  Reqs = {r1, r2, r3, r4}
  Pipes = {A}
  PipeSets <- OnePipeEach
  User = user
  Reuse = TRUE
  BadReqs = {r4}
  MaxJobs = 2
  MaxQueue = 4
  MaxStart = 2
SPECIFICATION FairSpec
INVARIANTS TypeOK RequeuedWhenUnlinked SnapshotFresh NoRequestLost
PROPERTIES ReturnedInFrameOrder QueuedIsReturned StopEnds
CHECK_DEADLOCK FALSE
