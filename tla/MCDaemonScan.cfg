SPECIFICATION FairSpec
CONSTANTS
  h1 = h1
  h2 = h2
  a1 = a1
  a2 = a2
  Timer <- MCTimer
  Handle = {h1}
  Addr = {a1}
  ScanTimeout = 1
  ConnectTimeout = 1
  MaxKills = 1
  MaxResets = 0
  QueueCap = 1
PROPERTIES
  ScanEnds
CHECK_DEADLOCK FALSE
