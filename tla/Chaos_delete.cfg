SPECIFICATION Spec
CONSTANTS
  x = x
  pod = pod
  stress = stress
  r1 = r1
  r2 = r2
  None = None
  Names <- OneName
  Kinds <- TwoKinds
  Requests <- TwoRequests
  MaxFaults = 0
PROPERTIES
  DeleteRemovesByName
CHECK_DEADLOCK FALSE
