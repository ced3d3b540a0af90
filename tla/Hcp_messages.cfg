CONSTANTS
  SyncSenders = {s1}
  AsyncSenders = {a1}
  Readers = {r1, r2}
  Slots = {m1, m2}
  Batch = 1
  NoSlot = noslot
  MaxSend = 3
  MaxPurge = 1
  MaxExit = 1
SPECIFICATION FairSpec
INVARIANTS SlotsConserved NobodySleepsOnFullPool AckIsOwn
PROPERTIES ChannelDrains
CHECK_DEADLOCK FALSE
