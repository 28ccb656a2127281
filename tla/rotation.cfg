SPECIFICATION Spec
CONSTANTS
  Node = {n1, n2, n3}
  Outsider = Outsider
  ClusterID = ClusterID
  OtherClusterID = OtherClusterID
  MaxRotations = 2
  MaxRequests = 2
INVARIANT OnlyOutdatedRefused
SYMMETRY Symmetric
