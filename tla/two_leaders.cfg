SPECIFICATION Spec
CONSTANTS
  n1 = n1
  n2 = n2
  n3 = n3
  Node = {n1, n2, n3}
  Founders = {n1, n2, n3}
  None = None
  Mode = "static"
  AutoPromote = FALSE
  LagThreshold = 10
  AdminOps = {}
  Candidates = {n1, n2}
  MaxTerm = 2
  MaxLog = 0
  MaxInFlight = 1
INVARIANT OneLeaderPerTerm
SYMMETRY NodeSymmetry
CHECK_DEADLOCK FALSE
