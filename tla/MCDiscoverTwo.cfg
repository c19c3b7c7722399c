SPECIFICATION Spec
CONSTANTS
  h1 = h1
  h2 = h2
  s1 = s1
  s2 = s2
  c1 = c1
  c2 = c2
  d1 = d1
  Timer <- MCTimer
  Handle = {h1, h2}
  Service = {s1, s2}
  Characteristic = {c1}
  Descriptor = {}
  ParentOf <- MCParentOf
  MaxCommands = 2
  MaxCloses = 1
  MaxResets = 0
  QueueCap = 2
SYMMETRY MCHandles
INVARIANTS
  OwnParent
  ResultsAsked
CHECK_DEADLOCK FALSE
