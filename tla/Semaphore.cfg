SPECIFICATION FairSpec
CONSTANTS
  Task = {a, b, c}
  Permits = 1
  Kinds = {"plain", "killable_timeout"}
  Signals = {"ordinary", "fatal"}
  MaxExtra = 1
INVARIANTS
  TypeOK
PROPERTIES
  Fifo
  Implements
  WaitEnds
