SPECIFICATION KeyedSpec
CONSTANTS
  t1 = t1  t2 = t2  a = a  b = b  c = c  d = d  x = x  y = y  v1 = v1  v2 = v2
  First = t1
  Threads = {t1, t2}
  Keys = {a, b, c, d, x, y}
  Vals = {v1, v2}
  Matches = {v1}
  Size1 = 3
  Size2 = 3
  hash1 <- Lists_hash1
  hash2 <- Lists_hash2
  Preload <- Lists_Preload
  Calls <- Lists_Calls
  Budget <- Lists_Budget
  Sweeps <- Lists_Sweeps
  THRESHOLD = 4
  R = 1
  MaxNodes = 9
  CounterMod = 16
INVARIANTS KeyedTypeOK EntriesListed SweptClean SweepRemovesMatching CallbackReadsLive
