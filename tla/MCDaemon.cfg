SPECIFICATION Spec
CONSTANTS
  h1 = h1
  h2 = h2
  a1 = a1
  a2 = a2
  Timer <- MCTimer
  Handle = {h1, h2}
  Addr = {a1, a2}
  ScanTimeout = 1
  ConnectTimeout = 1
  MaxKills = 0
  MaxResets = 1
  QueueCap = 1
SYMMETRY Symmetry
INVARIANTS
  TypeOK
  ListedArmed
  TableFollowsLinks
PROPERTIES
  OwnTerminator
CHECK_DEADLOCK FALSE
