SPECIFICATION FairSpec
CONSTANTS
  t1 = t1
  t2 = t2
  t3 = t3
  Caller = {t1, t2, t3}
  None = None
  Cpu = {0, 1, 2}
  Offline = {1}
  Plan <- MixedPlan
INVARIANTS
  StoppedTogether
  NothingLeftBehind
  NoCircularWait
PROPERTY CallsReturn
CHECK_DEADLOCK FALSE
