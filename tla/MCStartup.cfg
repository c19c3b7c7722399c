SPECIFICATION FairSpec
CONSTANTS
  p1 = p1
  p2 = p2
  Daemon = {d1, d2}
  Client = {k1, k2}
  Pid = {p1, p2}
  Cut <- MCCut
  MaxOthers = 1
  MaxDeaths = 2
INVARIANTS
  TypeOK
  OneServes
PROPERTIES
  StartsAlone
  WaitEnds
CHECK_DEADLOCK FALSE
