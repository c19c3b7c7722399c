SPECIFICATION FairSpec
CONSTANTS
  h1 = h1
  h2 = h2
  c1 = c1
  c2 = c2
  l1 = l1
  Handle = {h1}
  Characteristic = {c1, c2}
  NoResponse = {c2}
  Described = {c1}
  Local = {l1}
  MaxCommands = 3
  MaxRemote = 2
  MaxBreaks = 1
  QueueCap = 2
INVARIANTS
  TypeOK
  NotificationsKnown
  DisableFinds
PROPERTIES
  OwnAnswer
  CommandEnds
CHECK_DEADLOCK FALSE
