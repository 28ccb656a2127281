SPECIFICATION Spec
CONSTANTS
  b1 = b1
  b2 = b2
  Broker = {b1, b2}
  NoBroker = NoBroker
  TopicID = {t1, t2}
  Name = {na, nb}
  ClusterIDs = {k1}
  NoCluster = NoCluster
  PartitionCounts = {0, 2, 3}
  ReplicationFactors = {2}
  Proposed = {"ClusterInit", "CreateTopic", "DeleteTopic", "UpdatePartition"}
  Retried = {"DeleteTopic", "UpdatePartition"}
  MaxPending = 2
  MaxCommits = 3
  BrokerLists <- Lists
SYMMETRY Symmetric
INVARIANTS IndexesAgree LeaderEpochNamesOneLeader
PROPERTIES  UpdatesReplaceWhatWasRead
CHECK_DEADLOCK FALSE
