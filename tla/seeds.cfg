SPECIFICATION Spec
CONSTANTS
  n1 = n1
  n2 = n2
  n3 = n3
  Node = {n1, n2, n3}
  None = None
  BootstrapServers <- TwoSeeds
  JoinMaxRetries = 2
  Mode = "dynamic"
  MaxCrashes = 1
INVARIANT CalmPassJoins
PROPERTY SettledEnds
