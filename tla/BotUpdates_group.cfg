SPECIFICATION Spec
CONSTANTS
  Shape <- EveryShape
  HasTriggers = TRUE
  Backlog = 4
  ServerLimit = 2
  IntHalf = 8
  MaxThreads = 3
  StaleAfter = 0
  MaxUpdate = 2
  MaxClock = 0
  MaxCrash = 0
INVARIANT GroupOnlyIfTriggered
