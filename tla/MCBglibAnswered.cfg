SPECIFICATION FairSpec
CONSTANTS
  e1 = e1
  c1 = c1
  QLEN = 3
  OneShot <- MCOneShot
  Command <- MCCommand
  MaxCmds = 1
  MaxResets = 1
  MaxClients = 1
  MaxDebris = 0
  WireCap = 2
PROPERTY CommandAnswered
CHECK_DEADLOCK FALSE
