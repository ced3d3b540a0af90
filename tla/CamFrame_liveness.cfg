CONSTANTS
  MaxJobs = 1
  CqBufs = 1
  FifoSize = 1
  CntMod = 4
  KickAfter = 1
  MaxFrame = 3
  MaxFaults = 1
SPECIFICATION FairSpec
PROPERTIES EveryFrameReturned
