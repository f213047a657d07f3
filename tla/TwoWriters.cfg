SPECIFICATION HistorySpec
CONSTANTS
  t1 = t1  t2 = t2  t3 = t3
  a = a  b = b  x = x  y = y  z = z
  v1 = v1  v2 = v2  None = None
  Threads = {t1, t2}
  Keys = {a, b, x}
  Vals = {v1, v2}
  Size1 = 2
  Size2 = 2
  hash1 <- Down_hash1
  hash2 <- Down_hash2
  Preload <- Down_Preload
  Calls <- TwoWriters_Calls
  Budget <- TwoWriters_Budget
  THRESHOLD = 4
  R = 2
  MaxNodes = 5
  CounterMod = 16
  MaxCnt = 3
CONSTRAINT BoundedCounters
INVARIANTS HomeSlot ClaimInv  RetiredOnce
PROPERTIES NoOverwrite ClaimIsHonoured
