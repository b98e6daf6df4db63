SPECIFICATION Spec
CONSTANTS
  t1 = t1
  t2 = t2
  t3 = t3
  Caller = {t1, t2, t3}
  None = None
  Cpu = {0, 1, 2}
  Offline = {}
  Plan <- TrianglePlan
INVARIANT NoCircularWait
