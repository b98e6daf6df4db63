SPECIFICATION FairSpec
CONSTANTS
  WindTarget = 2
  EncMax = 7
  Slip = 2
  DriveTarget = 1
  HoldTime = 1
  FireTime = 3
  EndTime = 5
  MaxStall = 1
INVARIANTS
  WindingIsLatched
  OvershootBounded
  AutoFiresAtRest
PROPERTIES
  OnlyTriggerReleases
  TeleopReached
  WindingEnds
