SPECIFICATION FairSpec
CONSTANTS
  Timer <- MCTimer
  Counts <- MCCounts
  MaxStarts = 3
  MaxResets = 2
  QueueCap = 3
INVARIANTS
  TypeOK
  ListedOnce
  ListedArmed
  CallbacksLeft
PROPERTIES
  TimerEnds
CHECK_DEADLOCK FALSE
