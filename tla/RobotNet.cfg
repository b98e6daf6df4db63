SPECIFICATION NetSpec
CONSTANT Backlog = 2
INVARIANTS
  OutputsMatch
  OwnConnection
PROPERTIES
  ArmMovesOnRequest
  OperatorServed
