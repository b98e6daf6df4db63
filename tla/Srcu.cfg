SPECIFICATION MCSpec
CONSTANTS
  r1 = r1
  r2 = r2
  u1 = u1
  u2 = u2
  Reader = {r1, r2}
  Updater = {u1, u2}
  Work = Work
  CPUs = 2
  UlongRange = 3
  Batch = 1
  SyncTries = 2
INVARIANTS
  GracePeriod
  Barrier
  NoBug
  OneOwner
  Balanced
PROPERTIES
  CallbacksRun
