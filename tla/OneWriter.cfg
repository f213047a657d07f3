SPECIFICATION LifetimeFairSpec
CONSTANTS
  t1 = t1  t2 = t2  t3 = t3
  a = a  b = b  x = x  y = y  z = z
  v1 = v1  v2 = v2  None = None
  Threads = {t1, t2}
  Keys = {a, b, x}
  Vals = {v1, v2}
  Size1 = 2
  Size2 = 2
  hash1 <- Chain_hash1
  hash2 <- Chain_hash2
  Preload <- Chain_Preload
  Calls <- OneWriter_Calls
  Budget <- OneWriter_Budget
  THRESHOLD = 4
  R = 1
  MaxNodes = 5
  CounterMod = 16
  MaxCnt = 16
INVARIANTS OneEntryPerKey RemovesOwnKey InsertTakesEffect DestroyedOnce LinkedDeleted OrderlyInv
PROPERTIES ImplementsMap CallsReturn MarksResolve
