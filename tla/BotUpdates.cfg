SPECIFICATION FairSpec
CONSTANTS
  Shape <- MainShapes
  HasTriggers = TRUE
  Backlog = 3
  ServerLimit = 2
  IntHalf = 3
  MaxThreads = 2
  StaleAfter = 0
  MaxUpdate = 3
  MaxClock = 1
  MaxCrash = 1
INVARIANTS TypeOK StartedInOrder NoneLost PrivateMessagesServed
PROPERTIES BackoffWhenIdle 
