CONSTANTS
  r1 = r1
  r2 = r2
  r3 = r3
  g1 = g1
  g2 = g2
  h1 = h1
  h2 = h2
  Reqs = {r1, r2, r3}
  Groups = {g1, g2, h1, h2}
  ReqOf <- ThreeReqs
  Firsts <- FirstGroups
  Tasks <- FewTasks
  None = none
  NBufs = 2
  NComposing = 1
  NWorks = 2
  MaxSession = 1
  MaxFault = 1
SPECIFICATION FairSpec
INVARIANTS TypeOK DoneIsComplete GceMemoryHeld NotifiedIsRunning
PROPERTIES EveryRequestReturned
CHECK_DEADLOCK FALSE
