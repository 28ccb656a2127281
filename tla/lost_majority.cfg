SPECIFICATION Spec
CONSTANTS
  n1 = n1
  n2 = n2
  n3 = n3
  Node = {n1, n2}
  Founders = {n1, n2}
  None = None
  Mode = "dynamic"
  AutoPromote = FALSE
  LagThreshold = 1
  AdminOps <- ReAddEither
  Candidates = {n1}
  MaxTerm = 1
  MaxLog = 2
  MaxInFlight = 2
PROPERTIES CommittedByMajority
CHECK_DEADLOCK FALSE
