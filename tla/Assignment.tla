----------------------------- MODULE Assignment -----------------------------
(***************************************************************************)
(* AssignReplicas of src/src/internal/metadata/assignment.go: a greedy     *)
(* choice of the replicas of a new topic's partitions, the first of which  *)
(* leads.  A pure function; the metadata store calls it with the leader    *)
(* counts it holds.                                                        *)
(***************************************************************************)
EXTENDS Integers, Sequences

CONSTANTS Broker, NoBroker   \* NoBroker is the empty BrokerID

ASSUME BrokerAssumption == NoBroker \notin Broker

\* The elements of a sequence.
elements(s) == {s[i] : i \in DOMAIN s}


\* The lower the better.  alpha is 1, beta the number of brokers.
score(brokers, b, global, topic) == global[b] + topic[b] * Len(brokers)

\* The first of the brokers with the lowest score that the partition does not
\* have yet; the zero value when it has them all.
pickBest(brokers, assigned, global, topic) ==
  LET free == {i \in DOMAIN brokers : brokers[i] \notin assigned}
      s(i) == score(brokers, brokers[i], global, topic)
  IN  IF free = {} THEN NoBroker
      ELSE brokers[CHOOSE i \in free :
                     \A j \in free : s(i) < s(j) \/ (s(i) = s(j) /\ i <= j)]

\* The replicas of one partition.  The leader's count goes up as soon as the
\* leader is chosen; the later slots do not look at it again.
replicasFor(brokers, rf, global, topic) ==
  LET chosen[s \in 0..rf] ==
        IF s = 0 THEN <<>>
        ELSE Append(chosen[s - 1],
                    pickBest(brokers, elements(chosen[s - 1]), global, topic))
  IN  chosen[rf]

\* The replicas of every partition, in order: the counts that the choice for a
\* partition sees include the leaders chosen before it.
assignTo(brokers, numPartitions, rf, leaderCounts) ==
  LET after[p \in 0..numPartitions] ==
        IF p = 0
        THEN [result |-> <<>>, global |-> leaderCounts, topic |-> [b \in Broker |-> 0]]
        ELSE LET a == after[p - 1]
                 r == replicasFor(brokers, rf, a.global, a.topic)
             IN  [result |-> Append(a.result, r),
                  global |-> [a.global EXCEPT ![r[1]] = @ + 1],
                  topic  |-> [a.topic EXCEPT ![r[1]] = @ + 1]]
  IN  after[numPartitions].result

\* The empty sequence is the code's nil.
AssignReplicas(brokers, numPartitions, replicationFactor, leaderCounts) ==
  IF brokers = <<>> \/ numPartitions <= 0 \/ replicationFactor <= 0 THEN <<>>
  ELSE assignTo(brokers, numPartitions,
                IF replicationFactor > Len(brokers) THEN Len(brokers) ELSE replicationFactor,
                leaderCounts)

=============================================================================
