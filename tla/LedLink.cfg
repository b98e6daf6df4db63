SPECIFICATION FairSpec
CONSTANT Chain <- MCChain
INVARIANTS
  OneMode
PROPERTIES
  ShownWasWanted
  LampsFollow
