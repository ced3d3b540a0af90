CONSTANTS
  Readers = {r1}
  Writers = {w1}
  Senders = {s1, s2}
  MaxSend = 4
SPECIFICATION FairSpec
INVARIANTS TypeOK NoLostWakeup NothingStranded NoUseAfterRelease ReleasedExactlyOnce
PROPERTIES ImplementsChannel BlockedReadersReleased
CHECK_DEADLOCK FALSE
