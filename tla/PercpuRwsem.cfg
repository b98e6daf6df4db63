SPECIFICATION FairSpec
CONSTANTS
  Reader = {r1, r2}
  Writer = {w1, w2}
  CPUs = 2
  None = None
  IntRange = 3
INVARIANTS
  Exclusion
  SlowIsReaders
  WriterSeesReads
  ReaderSeesWrites
PROPERTIES
  EveryoneGetsIn
