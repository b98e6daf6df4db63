SPECIFICATION HotplugSpec
CONSTANTS
  t1 = t1
  t2 = t2
  t3 = t3
  Caller = {t1, t2, t3}
  None = None
  Cpu = {0, 1}
  Offline = {}
  Plan <- DownPlan
INVARIANT ParkedIsDrained
