SPECIFICATION RSpec
CONSTANTS
  n1 = n1
  n2 = n2
  n3 = n3
  Node = {n1, n2, n3}
  Founders = {n1, n2}
  None = None
  Mode = "dynamic"
  AutoPromote = TRUE
  LagThreshold = 1
  AdminOps = {}
  Candidates = {n1}
  MaxTerm = 1
  MaxLog = 1
  MaxInFlight = 1
  MaxRestarts = 1
INVARIANT TypeOK
PROPERTY EveryoneCatchesUp
CHECK_DEADLOCK FALSE
