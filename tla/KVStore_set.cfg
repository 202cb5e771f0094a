SPECIFICATION Spec
CONSTANTS
  Conn = {t1, t2}
  NoConn = NoConn
  Key = {k1}
  Value = {v1}
  Null = Null
  NoRow = NoRow
  TTL <- ForEverOrOne
  MaxClock = 2
INVARIANT SetOneMeansStored
