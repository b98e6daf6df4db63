SPECIFICATION MCSpec
CONSTANTS
  Task = {a, b, c}
  None = None
  Bias = 5
INVARIANTS
  LockLedger
  Exclusion
PROPERTIES
  Implements
  LockIsUsed
