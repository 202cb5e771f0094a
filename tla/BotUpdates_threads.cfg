SPECIFICATION Spec
CONSTANTS
  Shape <- OnlyPrivate
  HasTriggers = TRUE
  Backlog = 4
  ServerLimit = 2
  IntHalf = 8
  MaxThreads = 2
  StaleAfter = 0
  MaxUpdate = 3
  MaxClock = 0
  MaxCrash = 0
PROPERTY SpawnFailsOnlyWhenBusy
