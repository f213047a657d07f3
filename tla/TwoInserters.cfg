SPECIFICATION HistorySpec
CONSTANTS
  t1 = t1  t2 = t2  t3 = t3
  a = a  b = b  x = x  y = y  z = z
  v1 = v1  v2 = v2  None = None
  Threads = {t1, t2}
  Keys = {a, b, x, y}
  Vals = {v1, v2}
  Size1 = 2
  Size2 = 2
  hash1 <- Chain2_hash1
  hash2 <- Chain2_hash2
  Preload <- Chain_Preload
  Calls <- TwoInserters_Calls
  Budget <- OneEach
  THRESHOLD = 4
  R = 2
  MaxNodes = 4
  CounterMod = 16
  MaxCnt = 4
CONSTRAINT BoundedCounters
INVARIANTS TypeOK NoNullDereference InsertTakesEffect
PROPERTIES NothingLost ImplementsMap
