SPECIFICATION FairSpec
CONSTANTS
  Task = {a, b, c}
  Kinds = {"killable_timeout"}
  Signals = {"fatal"}
  UintMax = 7
  MaxPosted = 2
  MaxAll = 2
INVARIANTS
  TypeOK
  AllLetThrough
  EnoughAwake
PROPERTY
  Taken
