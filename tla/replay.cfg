SPECIFICATION Spec
CONSTANTS
  b1 = b1
  b2 = b2
  Broker = {b1, b2}
  NoBroker = NoBroker
  TopicID = {t1, t2}
  Name = {na}
  ClusterIDs = {k1}
  NoCluster = NoCluster
  PartitionCounts = {1}
  ReplicationFactors = {1}
  Proposed = {"ClusterInit", "CreateTopic", "DeleteTopic", "UpdatePartition"}
  Retried = {"ClusterInit", "CreateTopic", "DeleteTopic", "UpdatePartition"}
  MaxPending = 2
  MaxCommits = 4
  BrokerLists <- Lists
SYMMETRY Symmetric
PROPERTY RepeatedCommandsChangeNothing
CHECK_DEADLOCK FALSE
