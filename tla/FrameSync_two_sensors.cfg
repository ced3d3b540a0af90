CONSTANTS
  NumSensors = 2
  SensorMax = 2
  Delays <- MCDelays
  MinFls = {2, 4}
  MaxFls <- MCMaxFls
  CellSize = 2
  MaxCalls = 5
  MaxChange = 1
SPECIFICATION FairSpec
INVARIANTS WrittenFits MasterInRange
PROPERTIES FollowsSlowest
CONSTRAINT NotRaced
CHECK_DEADLOCK FALSE
