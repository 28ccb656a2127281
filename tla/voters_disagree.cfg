SPECIFICATION Spec
CONSTANTS
  n1 = n1
  n2 = n2
  n3 = n3
  Node = {n1, n2, n3}
  Founders = {n1, n2}
  None = None
  Mode = "dynamic"
  AutoPromote = TRUE
  LagThreshold = 1
  AdminOps <- PromoteN3
  Candidates = {n1}
  MaxTerm = 1
  MaxLog = 2
  MaxInFlight = 1
INVARIANT VotersAgree
CHECK_DEADLOCK FALSE
