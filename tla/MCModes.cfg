SPECIFICATION FairSpec
CONSTANTS
  Timer <- MCTimer
  Test <- MCTest
  Size = {2}
  StartupArg = {"app", "dfu"}
  MaxCommands = 2
  MaxDeaths = 1
  MaxCrashes = 1
  QueueCap = 2
INVARIANTS
  TypeOK
  TestAttended
PROPERTIES
  ReportsOwn
  TestEnds
  UpgradeOver
  SuccessWhole
  LeavesDfu
CHECK_DEADLOCK FALSE
