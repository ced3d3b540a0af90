CONSTANTS
  MaxJobs = 3
  CqBufs = 3
  FifoSize = 1
  CntMod = 4
  KickAfter = 1
  MaxFrame = 3
  MaxFaults = 1
SPECIFICATION Spec
INVARIANTS StateRecDefined DoneWasWritten NoWriteAfterReturn
PROPERTIES AppliedMatchesState
