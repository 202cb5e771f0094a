SPECIFICATION FairSpec
CONSTANTS
  Conn = {t1, t2}
  NoConn = NoConn
  Key = {k1}
  Value = {v1, v2}
  Null = Null
  NoRow = NoRow
  TTL <- ForEverOrOne
  MaxClock = 2
INVARIANTS TypeOK SeenIsCurrent NoLockLeftBehind
PROPERTIES Implements EveryCallReturns
