CONSTANTS
  Cams = {1, 2}
  Daemons = {d1, d2}
  Client = client
  NoOne = noone
  MaxStart = 3
  MaxSignal = 1
  MaxExit = 1
SPECIFICATION FairSpec
INVARIANTS TypeOK IdrIsLive DaemonKnowsCameras
PROPERTIES MailboxNotOverwritten StartStopEnds
CHECK_DEADLOCK FALSE
