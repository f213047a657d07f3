SPECIFICATION HistoryFairSpec
CONSTANTS
  t1 = t1  t2 = t2  t3 = t3
  a = a  b = b  x = x  y = y  z = z
  v1 = v1  v2 = v2  None = None
  Threads = {t1, t2}
  Keys = {a, b, x, y, z}
  Vals = {v1, v2}
  Size1 = 2
  Size2 = 2
  hash1 <- Rivals_hash1
  hash2 <- Rivals_hash2
  Preload <- Rivals_Preload
  Calls <- TwoInserters_Calls
  Budget <- OneEach
  THRESHOLD = 5
  R = 2
  MaxNodes = 5
  CounterMod = 4
  MaxCnt = 4
PROPERTY SomeCallReturns
