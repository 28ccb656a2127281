--------------------------- MODULE MetadataStore ---------------------------
(***************************************************************************)
(* The topic and partition state machine of                                *)
(* src/src/internal/metadata/store.go.  Its Apply methods are called with  *)
(* the commands that Raft has committed, in the order of the commits.  The *)
(* proposers and Raft are external: a proposer reads the store, builds a   *)
(* payload and hands it to Raft, which commits proposals in any order,     *)
(* loses some and may commit one again when its proposer retries.          *)
(***************************************************************************)
EXTENDS Assignment, FiniteSets

CONSTANTS
  TopicID, Name, ClusterIDs,
  NoCluster,        \* the empty ClusterID
  BrokerLists,      \* what CreateTopicPayload.Brokers may be: the live brokers
  PartitionCounts, ReplicationFactors,
  Proposed,         \* the kinds of command that are proposed
  Retried,          \* the kinds of command that may be committed again
  MaxPending, MaxCommits   \* bounds: proposals under way, commits

ASSUME StoreAssumption ==
  /\ NoCluster \notin ClusterIDs
  /\ BrokerLists \subseteq Seq(Broker)
  /\ PartitionCounts \subseteq Int /\ ReplicationFactors \subseteq Int
  /\ MaxPending \in Nat /\ MaxCommits \in Nat

VARIABLES
  clusterID,
  topics, topicsByName, partitions,   \* Go maps: functions with a finite domain
  version,
  pending,      \* proposals under way: a command, what its proposer read, and
                \* whether it has been committed
  commits,      \* the number of commits, repetitions included
  minted,       \* history: the TopicIDs that have been generated
  ledBy         \* history: every leader a partition had, with its LeaderEpoch

store   == <<clusterID, topics, topicsByName, partitions, version>>
history == <<commits, minted, ledBy>>
vars    == <<store, pending, history>>

-----------------------------------------------------------------------------
(* NewInMemoryStore                                                        *)
empty == [x \in {} |-> x]

Init ==
  /\ clusterID = NoCluster
  /\ topics = empty /\ topicsByName = empty /\ partitions = empty
  /\ version = 0
  /\ pending = {}
  /\ commits = 0 /\ minted = {} /\ ledBy = {}

-----------------------------------------------------------------------------
(* Reads                                                                   *)

GetTopicByName(n) == topics[topicsByName[n]]

KeysOf(id, count) == {id} \X (0..(count - 1))

\* How many online partitions each broker leads.
LeaderCounts ==
  [b \in Broker |-> Cardinality({k \in DOMAIN partitions :
                                   partitions[k].status = "online" /\ partitions[k].leader = b})]

-----------------------------------------------------------------------------
(* Writes                                                                  *)

\* The first ClusterID stays.
ApplyClusterInit(p) ==
  /\ IF clusterID # NoCluster THEN UNCHANGED <<clusterID, version>>
     ELSE clusterID' = p.clusterID /\ version' = version + 1
  /\ UNCHANGED <<topics, topicsByName, partitions>>

\* A partition as it is born: offline when no broker was assigned.
newPartition(replicas) ==
  [replicas |-> replicas, isr |-> elements(replicas),
   status |-> IF replicas = <<>> THEN "offline" ELSE "online",
   leader |-> IF replicas = <<>> THEN NoBroker ELSE replicas[1],
   leaderEpoch |-> 0, partitionEpoch |-> 0]

\* The map f with entry x.
with(f, x, v) == [y \in DOMAIN f \cup {x} |-> IF y = x THEN v ELSE f[y]]

without(f, S) == [y \in DOMAIN f \ S |-> f[y]]

\* A name that is taken makes it a no-op; the ID is not looked at.
ApplyCreateTopic(p) ==
  IF p.name \in DOMAIN topicsByName THEN UNCHANGED store
  ELSE LET assignments == AssignReplicas(p.brokers, p.numPartitions,
                                         p.replicationFactor, LeaderCounts)
           replicas(i) == IF i < Len(assignments) THEN assignments[i + 1] ELSE <<>>
           new == KeysOf(p.topicID, p.numPartitions)
       IN
       /\ topics' = with(topics, p.topicID, [name |-> p.name, numPartitions |-> p.numPartitions])
       /\ topicsByName' = with(topicsByName, p.name, p.topicID)
       /\ partitions' = [k \in DOMAIN partitions \cup new |->
                           IF k \in new THEN newPartition(replicas(k[2])) ELSE partitions[k]]
       /\ version' = version + 1
       /\ UNCHANGED clusterID

ApplyDeleteTopicKeepsPartitions(p) ==   \* mutant
  IF p.topicID \notin DOMAIN topics THEN UNCHANGED store
  ELSE /\ partitions' = without(partitions, {<<p.topicID, 0>>})
       /\ topics' = without(topics, {p.topicID})
       /\ topicsByName' = without(topicsByName, {topics[p.topicID].name})
       /\ version' = version + 1
       /\ UNCHANGED clusterID

ApplyDeleteTopic(p) ==
  IF p.topicID \notin DOMAIN topics THEN UNCHANGED store
  ELSE LET topic == topics[p.topicID]
       IN
       /\ partitions' = without(partitions, KeysOf(p.topicID, topic.numPartitions))
       /\ topics' = without(topics, {p.topicID})
       /\ topicsByName' = without(topicsByName, {topic.name})
       /\ version' = version + 1
       /\ UNCHANGED clusterID

leaderEpochAfterElection(s, p) ==   \* mutant
  IF p.newLeader # s.leader /\ p.newLeader # NoBroker THEN s.leaderEpoch + 1 ELSE s.leaderEpoch

leaderEpochAfter(s, p) ==
  IF p.newLeader # s.leader THEN s.leaderEpoch + 1 ELSE s.leaderEpoch

staleAfterAhead(s, p) == p.expectedEpoch > s.partitionEpoch   \* mutant

\* The compare-and-swap fails.
stale(s, p) == p.expectedEpoch # s.partitionEpoch

ApplyUpdatePartition(p) ==
  IF p.key \notin DOMAIN partitions \/ stale(partitions[p.key], p) THEN UNCHANGED store
  ELSE LET s == partitions[p.key]
       IN
       /\ partitions' = [partitions EXCEPT ![p.key] =
            [s EXCEPT !.leader = p.newLeader, !.isr = p.newISR,
                      !.status = IF p.newLeader = NoBroker THEN "offline" ELSE "online",
                      !.leaderEpoch = leaderEpochAfter(s, p),
                      !.partitionEpoch = @ + 1]]
       /\ version' = version + 1
       /\ UNCHANGED <<clusterID, topics, topicsByName>>

-----------------------------------------------------------------------------
(* External: proposers                                                     *)

\* What a proposer that changes no partition has read of it.
Nothing == [replicas |-> <<>>, isr |-> {}, status |-> "offline", leader |-> NoBroker,
            leaderEpoch |-> 0, partitionEpoch |-> 0]

propose(cmd, read) ==
  /\ cmd.kind \in Proposed
  /\ Cardinality(pending) < MaxPending
  /\ pending' = pending \cup {[cmd |-> cmd, read |-> read, done |-> FALSE]}
  /\ UNCHANGED <<store, commits, ledBy>>

ProposeClusterInit == \E c \in ClusterIDs :
  /\ propose([kind |-> "ClusterInit", clusterID |-> c], Nothing)
  /\ UNCHANGED minted

\* The TopicID is generated for the proposal: a client's retry has another.
ProposeCreateTopic ==
  \E id \in TopicID \ minted, n \in Name, count \in PartitionCounts,
     rf \in ReplicationFactors, brokers \in BrokerLists :
    /\ propose([kind |-> "CreateTopic", topicID |-> id, name |-> n, numPartitions |-> count,
                replicationFactor |-> rf, brokers |-> brokers], Nothing)
    /\ minted' = minted \cup {id}

ProposeDeleteTopic == \E id \in DOMAIN topics :
  /\ propose([kind |-> "DeleteTopic", topicID |-> id], Nothing)
  /\ UNCHANGED minted

\* A leader's death, a change of the in-sync replicas or both: a leader is in
\* sync with itself.
ProposeUpdatePartition == \E k \in DOMAIN partitions :
  \E l \in elements(partitions[k].replicas) \cup {NoBroker},
     isr \in SUBSET elements(partitions[k].replicas) :
    /\ l \in isr \cup {NoBroker}
    /\ propose([kind |-> "UpdatePartition", key |-> k, newLeader |-> l, newISR |-> isr,
                expectedEpoch |-> partitions[k].partitionEpoch], partitions[k])
    /\ UNCHANGED minted

-----------------------------------------------------------------------------
(* External: Raft                                                          *)

\* Proposal p, committed, for a retry.
again(p) == [cmd |-> p.cmd, read |-> p.read, done |-> TRUE]

\* Proposal p is committed and applied.  It stays when it may be retried.
commit(p) ==
  /\ commits < MaxCommits
  /\ commits' = commits + 1
  /\ pending' = (pending \ {p}) \cup IF p.cmd.kind \in Retried THEN {again(p)} ELSE {}
  /\ ledBy' = ledBy \cup
       {[key |-> k, epoch |-> partitions'[k].leaderEpoch, leader |-> partitions'[k].leader] :
          k \in DOMAIN partitions'}
  /\ UNCHANGED minted

CommitClusterInit == \E p \in pending :
  /\ p.cmd.kind = "ClusterInit" /\ ApplyClusterInit(p.cmd) /\ commit(p)

CommitCreateTopic == \E p \in pending :
  /\ p.cmd.kind = "CreateTopic" /\ ApplyCreateTopic(p.cmd) /\ commit(p)

CommitDeleteTopic == \E p \in pending :
  /\ p.cmd.kind = "DeleteTopic" /\ ApplyDeleteTopic(p.cmd) /\ commit(p)

CommitUpdatePartition == \E p \in pending :
  /\ p.cmd.kind = "UpdatePartition" /\ ApplyUpdatePartition(p.cmd) /\ commit(p)

Lose == \E p \in pending :
  /\ pending' = pending \ {p}
  /\ UNCHANGED <<store, history>>

Next ==
  \/ ProposeClusterInit \/ ProposeCreateTopic \/ ProposeDeleteTopic \/ ProposeUpdatePartition
  \/ CommitClusterInit \/ CommitCreateTopic \/ CommitDeleteTopic \/ CommitUpdatePartition
  \/ Lose

Spec == Init /\ [][Next]_vars

-----------------------------------------------------------------------------
(* Properties                                                              *)

\* The three maps tell the same story, whatever is created, deleted and
\* re-created under a used name: every name leads to the topic of that name and
\* back (GetTopicByName never meets a missing topic), every topic has all its
\* partitions, and no partition is left without a topic.
IndexesAgree ==
  /\ \A n \in DOMAIN topicsByName : topicsByName[n] \in DOMAIN topics /\ GetTopicByName(n).name = n
  /\ \A id \in DOMAIN topics : topics[id].name \in DOMAIN topicsByName
                                 /\ topicsByName[topics[id].name] = id
  /\ DOMAIN partitions = UNION {KeysOf(id, topics[id].numPartitions) : id \in DOMAIN topics}

\* A LeaderEpoch fences: over the whole life of a partition, and so for every
\* controller or broker however stale its copy is, an epoch has one leader.
LeaderEpochNamesOneLeader ==
  \A x, y \in ledBy : x.key = y.key /\ x.epoch = y.epoch => x.leader = y.leader

\* No update is lost and none takes effect twice: a step that changes a partition
\* that stays applies an update that was not committed before and whose proposer
\* had read exactly the state it replaces, however many proposals were under way
\* and whichever was committed first.
UpdatesReplaceWhatWasRead ==
  [][\A k \in DOMAIN partitions \cap DOMAIN partitions' :
       partitions'[k] # partitions[k] =>
         \E p \in pending : /\ p.cmd.kind = "UpdatePartition" /\ p.cmd.key = k
                            /\ ~p.done /\ p.read = partitions[k]
                            /\ partitions'[k].leader = p.cmd.newLeader
                            /\ partitions'[k].isr = p.cmd.newISR]_vars

\* The partitions of topic id that broker b leads.
led(id, b) == {k \in DOMAIN partitions : k[1] = id /\ partitions[k].leader = b}

\* What a topic with this ID, just created, costs broker b by AssignReplicas's
\* scoring.
load(id, b, beta) == LeaderCounts[b] + beta * Cardinality(led(id, b))


-----------------------------------------------------------------------------
(* A claim of the documentation that the code does not keep                *)

\* "each is idempotent and safe to replay" (comment of Store): a command that
\* was committed before (its commit leaves the proposals as they are) changes
\* nothing when it is committed again, whatever was committed in between.  CreateTopic, which looks at the name alone, brings
\* a deleted topic back.
RepeatedCommandsChangeNothing ==
  [][commits' # commits /\ pending' = pending => UNCHANGED store]_vars

=============================================================================
