--------------------------- MODULE MetadataProofs ---------------------------
(***************************************************************************)
(* Theorems about MetadataStore, for any topics, names, brokers and bounds.*)
(* Nothing is said here of what AssignReplicas returns: the theorems hold  *)
(* whatever the assignment of replicas is.                                 *)
(***************************************************************************)
EXTENDS MetadataStore, TLAPS

\* The proposals under way to create a topic.
Creations == {p \in pending : p.cmd.kind = "CreateTopic"}

-----------------------------------------------------------------------------
(* What a step does, as far as the theorems need it                        *)

LEMMA ProposeSteps ==
  ASSUME NEW cmd, NEW read, propose(cmd, read)
  PROVE  /\ pending' = pending \cup {[cmd |-> cmd, read |-> read, done |-> FALSE]}
         /\ UNCHANGED <<topics, topicsByName, partitions, ledBy>>
  BY DEF propose, store

\* Every proposal under way after the step was under way before it, but for
\* having been committed.
Carried == \A q \in pending' : \E p \in pending : q.cmd = p.cmd /\ q.read = p.read

LEMMA CommitSteps ==
  ASSUME NEW p \in pending, commit(p)
  PROVE  /\ pending' \subseteq (pending \ {p}) \cup {again(p)}
         /\ p.cmd.kind \notin Retried => pending' = pending \ {p}
         /\ Carried
         /\ UNCHANGED minted
  BY DEF commit, again, Carried

-----------------------------------------------------------------------------
(* The maps agree                                                          *)

\* A TopicID belongs to one proposal, and a topic is what its proposal said: a
\* creation that is committed again, before or after a deletion, finds its topic
\* or makes the same one.
OneProposal == \A p, q \in Creations : p.cmd.topicID = q.cmd.topicID => p = q

TopicIDsUnique ==
  /\ \A p \in Creations : p.cmd.topicID \in minted
  /\ OneProposal
  /\ DOMAIN topics \subseteq minted
  /\ \A p \in Creations :
       p.cmd.topicID \in DOMAIN topics => topics[p.cmd.topicID].name = p.cmd.name

IndexInv == TopicIDsUnique /\ IndexesAgree

LEMMA InitIndexInv == Init => IndexInv
  BY DEF Init, empty, IndexInv, TopicIDsUnique, OneProposal, Creations, IndexesAgree

LEMMA CommitKeepsOne ==
  ASSUME OneProposal, NEW p \in pending, commit(p)
  PROVE  OneProposal'
<1> SUFFICES ASSUME NEW q \in Creations', NEW r \in Creations', q.cmd.topicID = r.cmd.topicID
             PROVE  q = r
  BY DEF OneProposal
<1>1. /\ q = again(p) \/ q \in pending \ {p}
      /\ r = again(p) \/ r \in pending \ {p}
      /\ q.cmd.kind = "CreateTopic" /\ r.cmd.kind = "CreateTopic"
  BY CommitSteps DEF Creations
<1>2. again(p).cmd = p.cmd
  BY DEF again
<1> QED
  BY <1>1, <1>2 DEF OneProposal, Creations

LEMMA CreateKeepsIndex ==
  ASSUME IndexInv, NEW p \in Creations, ApplyCreateTopic(p.cmd), Carried,
         OneProposal', UNCHANGED minted
  PROVE  IndexInv'
<1> DEFINE id == p.cmd.topicID
           n  == p.cmd.name
           count == p.cmd.numPartitions
<1>1. CASE n \in DOMAIN topicsByName
  BY <1>1 DEF ApplyCreateTopic, store, IndexInv, TopicIDsUnique, Carried, IndexesAgree, Creations, GetTopicByName
<1>2. CASE n \notin DOMAIN topicsByName
  <2>1. id \notin DOMAIN topics
    BY <1>2 DEF IndexInv, TopicIDsUnique, IndexesAgree
  <2>2. /\ topics' = with(topics, id, [name |-> n, numPartitions |-> count])
        /\ topicsByName' = with(topicsByName, n, id)
        /\ DOMAIN partitions' = DOMAIN partitions \cup KeysOf(id, count)
    BY <1>2 DEF ApplyCreateTopic
  <2>3. /\ DOMAIN topics' = DOMAIN topics \cup {id}
        /\ topics'[id].name = n /\ topics'[id].numPartitions = count
        /\ \A x \in DOMAIN topics : topics'[x] = topics[x]
    BY <2>1, <2>2 DEF with
  <2>4. /\ DOMAIN topicsByName' = DOMAIN topicsByName \cup {n}
        /\ topicsByName'[n] = id
        /\ \A x \in DOMAIN topicsByName : topicsByName'[x] = topicsByName[x]
    BY <1>2, <2>2 DEF with
  <2>5. TopicIDsUnique'
    <3>1. \A q \in Creations' : \E c \in Creations : q.cmd = c.cmd
      BY DEF Carried, Creations
    <3>2. \A c \in Creations : c.cmd.topicID = id => c.cmd.name = n
      BY DEF IndexInv, TopicIDsUnique, OneProposal
    <3>3. id \in minted
      BY DEF IndexInv, TopicIDsUnique
    <3> HIDE DEF id, n
    <3> QED
      BY <2>3, <3>1, <3>2, <3>3 DEF IndexInv, TopicIDsUnique
  <2>6. \A x \in DOMAIN topicsByName' :
          topicsByName'[x] \in DOMAIN topics' /\ topics'[topicsByName'[x]].name = x
    BY <2>3, <2>4 DEF IndexInv, IndexesAgree, GetTopicByName
  <2>7. \A x \in DOMAIN topics' : /\ topics'[x].name \in DOMAIN topicsByName'
                                  /\ topicsByName'[topics'[x].name] = x
    BY <2>3, <2>4 DEF IndexInv, IndexesAgree
  <2>8. DOMAIN partitions' = UNION {KeysOf(x, topics'[x].numPartitions) : x \in DOMAIN topics'}
    <3>1. DOMAIN partitions = UNION {KeysOf(x, topics[x].numPartitions) : x \in DOMAIN topics}
      BY DEF IndexInv, IndexesAgree
    <3>2. UNION {KeysOf(x, topics'[x].numPartitions) : x \in DOMAIN topics'}
            = (UNION {KeysOf(x, topics[x].numPartitions) : x \in DOMAIN topics}) \cup KeysOf(id, count)
      BY <2>3
    <3> QED
      BY <2>2, <3>1, <3>2
  <2> QED
    BY <2>5, <2>6, <2>7, <2>8 DEF IndexInv, IndexesAgree, GetTopicByName
<1> QED
  BY <1>1, <1>2

LEMMA DeleteKeepsIndex ==
  ASSUME IndexInv, NEW p \in pending, ApplyDeleteTopic(p.cmd), Carried,
         OneProposal', UNCHANGED minted
  PROVE  IndexInv'
<1> DEFINE id == p.cmd.topicID
<1>1. CASE id \notin DOMAIN topics
  BY <1>1 DEF ApplyDeleteTopic, store, IndexInv, TopicIDsUnique, Carried, IndexesAgree, Creations, GetTopicByName
<1>2. CASE id \in DOMAIN topics
  <2> DEFINE n == topics[id].name
             gone == KeysOf(id, topics[id].numPartitions)
  <2>1. /\ topics' = without(topics, {id})
        /\ topicsByName' = without(topicsByName, {n})
        /\ DOMAIN partitions' = DOMAIN partitions \ gone
    BY <1>2 DEF ApplyDeleteTopic, without
  <2>2. /\ DOMAIN topics' = DOMAIN topics \ {id}
        /\ \A x \in DOMAIN topics \ {id} : topics'[x] = topics[x]
        /\ DOMAIN topicsByName' = DOMAIN topicsByName \ {n}
        /\ \A x \in DOMAIN topicsByName \ {n} : topicsByName'[x] = topicsByName[x]
    BY <2>1 DEF without
  <2>3. TopicIDsUnique'
    BY <2>2 DEF IndexInv, TopicIDsUnique, Carried, Creations
  <2>4. \A x \in DOMAIN topicsByName' :
          topicsByName'[x] \in DOMAIN topics' /\ topics'[topicsByName'[x]].name = x
    BY <1>2, <2>2 DEF IndexInv, IndexesAgree, GetTopicByName
  <2>5. \A x \in DOMAIN topics' : /\ topics'[x].name \in DOMAIN topicsByName'
                                  /\ topicsByName'[topics'[x].name] = x
    BY <1>2, <2>2 DEF IndexInv, IndexesAgree
  <2>6. DOMAIN partitions' = UNION {KeysOf(x, topics'[x].numPartitions) : x \in DOMAIN topics'}
    <3>1. \A x \in DOMAIN topics \ {id} : KeysOf(x, topics[x].numPartitions) \cap gone = {}
      BY DEF KeysOf
    <3>2. DOMAIN partitions = UNION {KeysOf(x, topics[x].numPartitions) : x \in DOMAIN topics}
      BY DEF IndexInv, IndexesAgree
    <3>3. UNION {KeysOf(x, topics'[x].numPartitions) : x \in DOMAIN topics'}
            = UNION {KeysOf(x, topics[x].numPartitions) : x \in DOMAIN topics \ {id}}
      BY <2>2
    <3>4. DOMAIN partitions = (UNION {KeysOf(x, topics[x].numPartitions) : x \in DOMAIN topics \ {id}})
                                \cup gone
      BY <1>2, <3>2
    <3> HIDE DEF gone, id
    <3>5. DOMAIN partitions \ gone = UNION {KeysOf(x, topics[x].numPartitions) : x \in DOMAIN topics \ {id}}
      BY <3>1, <3>4
    <3> QED
      BY <2>1, <3>3, <3>5
  <2> QED
    BY <2>3, <2>4, <2>5, <2>6 DEF IndexInv, IndexesAgree, GetTopicByName
<1> QED
  BY <1>1, <1>2

LEMMA UpdateKeepsIndex ==
  ASSUME IndexInv, NEW p \in pending, ApplyUpdatePartition(p.cmd), Carried,
         OneProposal', UNCHANGED minted
  PROVE  IndexInv'
<1>1. UNCHANGED <<topics, topicsByName>> /\ DOMAIN partitions' = DOMAIN partitions
  BY DEF ApplyUpdatePartition, store
<1> QED
  BY <1>1 DEF IndexInv, TopicIDsUnique, Carried, IndexesAgree, Creations, GetTopicByName

LEMMA IndexInvStep == IndexInv /\ [Next]_vars => IndexInv'
<1> SUFFICES ASSUME IndexInv, [Next]_vars PROVE IndexInv'
  OBVIOUS
<1>1. ASSUME UNCHANGED <<topics, topicsByName, partitions>>, TopicIDsUnique' PROVE IndexInv'
  BY <1>1 DEF IndexInv, IndexesAgree, GetTopicByName
<1>2. ASSUME UNCHANGED <<topics, topicsByName, partitions, minted>>, Creations' \subseteq Creations
      PROVE  IndexInv'
  BY <1>1, <1>2 DEF IndexInv, TopicIDsUnique, OneProposal
<1>3. ASSUME NEW cmd, NEW read, propose(cmd, read), cmd.kind # "CreateTopic", UNCHANGED minted
      PROVE  IndexInv'
  BY <1>2, <1>3, ProposeSteps DEF Creations
<1>4. CASE ProposeClusterInit
  BY <1>3, <1>4 DEF ProposeClusterInit
<1>5. CASE ProposeCreateTopic
  <2>0. PICK id \in TopicID \ minted :
          \E cmd : /\ propose(cmd, Nothing) /\ cmd.topicID = id
                   /\ minted' = minted \cup {id}
    BY <1>5 DEF ProposeCreateTopic
  <2>1. PICK cmd : /\ propose(cmd, Nothing) /\ cmd.topicID = id
                   /\ minted' = minted \cup {id}
    BY <2>0
  <2>2. /\ pending' = pending \cup {[cmd |-> cmd, read |-> Nothing, done |-> FALSE]}
        /\ UNCHANGED <<topics, topicsByName, partitions>>
    BY <2>1, ProposeSteps
  <2>3. PICK q : pending' = pending \cup {q} /\ q.cmd.topicID = id
    <3> DEFINE new == [cmd |-> cmd, read |-> Nothing, done |-> FALSE]
    <3>1. new.cmd.topicID = id
      BY <2>1
    <3> HIDE DEF new
    <3> QED
      BY <2>2, <3>1 DEF new
  <2>4. TopicIDsUnique'
    BY <2>1, <2>2, <2>3 DEF IndexInv, TopicIDsUnique, OneProposal, Creations
  <2> QED
    BY <1>1, <2>2, <2>4
<1>6. CASE ProposeDeleteTopic
  BY <1>3, <1>6 DEF ProposeDeleteTopic
<1>7. CASE ProposeUpdatePartition
  BY <1>3, <1>7 DEF ProposeUpdatePartition
<1>8. CASE CommitClusterInit
  <2>1. PICK p \in pending : ApplyClusterInit(p.cmd) /\ commit(p)
    BY <1>8 DEF CommitClusterInit
  <2>2. TopicIDsUnique'
    BY <2>1, CommitSteps, CommitKeepsOne
       DEF ApplyClusterInit, IndexInv, TopicIDsUnique, Carried, Creations
  <2> QED
    BY <1>1, <2>1, <2>2 DEF ApplyClusterInit
<1>9. CASE CommitCreateTopic
  BY <1>9, CommitSteps, CommitKeepsOne, CreateKeepsIndex
     DEF CommitCreateTopic, Creations, IndexInv, TopicIDsUnique
<1>10. CASE CommitDeleteTopic
  BY <1>10, CommitSteps, CommitKeepsOne, DeleteKeepsIndex
     DEF CommitDeleteTopic, IndexInv, TopicIDsUnique
<1>11. CASE CommitUpdatePartition
  BY <1>11, CommitSteps, CommitKeepsOne, UpdateKeepsIndex
     DEF CommitUpdatePartition, IndexInv, TopicIDsUnique
<1>12. CASE Lose
  BY <1>2, <1>12 DEF Lose, store, history, Creations
<1>13. CASE UNCHANGED vars
  BY <1>2, <1>13 DEF vars, store, history, Creations
<1> QED
  BY <1>4, <1>5, <1>6, <1>7, <1>8, <1>9, <1>10, <1>11, <1>12, <1>13 DEF Next

\* Whatever is created, deleted and created again, in whatever order and however
\* often Raft commits it, a name leads to its topic and back, a topic has its
\* partitions, and no partition is left over: ApplyCreateTopic, which looks at
\* the name alone, never meets a topic under its TopicID.
THEOREM MapsAgree == Spec => []IndexesAgree
<1>1. IndexInv => IndexesAgree
  BY DEF IndexInv
<1> QED
  BY <1>1, InitIndexInv, IndexInvStep, PTL DEF Spec

-----------------------------------------------------------------------------
(* Topics are born once                                                    *)

\* The rest is for stores to which no CreateTopic is committed twice.
CreatedOnce == "CreateTopic" \notin Retried

\* The topic of this ID has been created or its creation was lost: no proposal
\* under way will create it, and none will be made.
Settled(id) == id \in minted /\ \A p \in Creations : p.cmd.topicID # id

\* Everything but a proposal to create a topic is about a topic that is settled.
SettledInv ==
  /\ \A id \in DOMAIN topics : Settled(id)
  /\ \A x \in ledBy : Settled(x.key[1])
  /\ \A p \in pending : /\ p.cmd.kind = "DeleteTopic" => Settled(p.cmd.topicID)
                        /\ p.cmd.kind = "UpdatePartition" => Settled(p.cmd.key[1])

LEMMA KeysSettled ==
  ASSUME IndexInv, SettledInv, NEW k \in DOMAIN partitions
  PROVE  k[1] \in DOMAIN topics /\ Settled(k[1])
<1>1. PICK id \in DOMAIN topics : k \in KeysOf(id, topics[id].numPartitions)
  BY DEF IndexInv, IndexesAgree
<1>2. k[1] = id
  BY <1>1 DEF KeysOf
<1> QED
  BY <1>2 DEF SettledInv

\* The step commits p.
Commits(p) ==
  /\ commit(p)
  /\ p.cmd.kind = "UpdatePartition" => ApplyUpdatePartition(p.cmd)

\* It adds q: a creation under a new TopicID, or a command about what is there.
Adds(q) ==
  /\ pending' = pending \cup {q} /\ q.done = FALSE
  /\ UNCHANGED <<topics, partitions, ledBy>>
  /\ minted \subseteq minted'
  /\ q.cmd.kind = "CreateTopic" => q.cmd.topicID \notin minted /\ q.cmd.topicID \in minted'
  /\ q.cmd.kind = "DeleteTopic" => q.cmd.topicID \in DOMAIN topics
  /\ q.cmd.kind = "UpdatePartition" =>
       /\ q.cmd.key \in DOMAIN partitions
       /\ q.read = partitions[q.cmd.key]
       /\ q.cmd.expectedEpoch = partitions[q.cmd.key].partitionEpoch

\* What a step does to the proposals under way.
LEMMA PendingSteps ==
  ASSUME [Next]_vars
  PROVE  \/ pending' \subseteq pending /\ UNCHANGED minted
         \/ \E p \in pending : Commits(p)
         \/ \E q : Adds(q)
<1> DEFINE New(q) == /\ pending' = pending \cup {q} /\ q.done = FALSE
                     /\ UNCHANGED <<topics, partitions, ledBy>>
<1>1. CASE ProposeClusterInit
  <2>1. PICK c \in ClusterIDs : /\ propose([kind |-> "ClusterInit", clusterID |-> c], Nothing)
                                /\ UNCHANGED minted
    BY <1>1 DEF ProposeClusterInit
  <2> DEFINE q == [cmd |-> [kind |-> "ClusterInit", clusterID |-> c], read |-> Nothing, done |-> FALSE]
  <2>2. New(q)
    BY <2>1, ProposeSteps
  <2>3. q.cmd.kind = "ClusterInit"
    OBVIOUS
  <2> HIDE DEF q
  <2> QED
    BY <2>1, <2>2, <2>3 DEF Adds
<1>2. CASE ProposeCreateTopic
  <2>0. PICK id \in TopicID \ minted :
          \E cmd : /\ propose(cmd, Nothing) /\ cmd.topicID = id /\ cmd.kind = "CreateTopic"
                   /\ minted' = minted \cup {id}
    BY <1>2 DEF ProposeCreateTopic
  <2>1. PICK cmd : /\ propose(cmd, Nothing) /\ cmd.topicID = id /\ cmd.kind = "CreateTopic"
                   /\ minted' = minted \cup {id}
    BY <2>0
  <2> DEFINE q == [cmd |-> cmd, read |-> Nothing, done |-> FALSE]
  <2>2. New(q)
    BY <2>1, ProposeSteps
  <2>3. q.cmd.kind = "CreateTopic" /\ q.cmd.topicID = id /\ id \notin minted
    BY <2>1
  <2> HIDE DEF q
  <2> QED
    BY <2>1, <2>2, <2>3 DEF Adds
<1>3. CASE ProposeDeleteTopic
  <2>1. PICK id \in DOMAIN topics : /\ propose([kind |-> "DeleteTopic", topicID |-> id], Nothing)
                                    /\ UNCHANGED minted
    BY <1>3 DEF ProposeDeleteTopic
  <2> DEFINE q == [cmd |-> [kind |-> "DeleteTopic", topicID |-> id], read |-> Nothing, done |-> FALSE]
  <2>2. New(q)
    BY <2>1, ProposeSteps
  <2>3. q.cmd.kind = "DeleteTopic" /\ q.cmd.topicID = id
    OBVIOUS
  <2> HIDE DEF q
  <2> QED
    BY <2>1, <2>2, <2>3 DEF Adds
<1>4. CASE ProposeUpdatePartition
  <2>0. PICK k \in DOMAIN partitions :
          \E cmd : /\ propose(cmd, partitions[k]) /\ cmd.kind = "UpdatePartition" /\ cmd.key = k
                   /\ cmd.expectedEpoch = partitions[k].partitionEpoch
                   /\ UNCHANGED minted
    BY <1>4 DEF ProposeUpdatePartition
  <2>1. PICK cmd : /\ propose(cmd, partitions[k]) /\ cmd.kind = "UpdatePartition" /\ cmd.key = k
                   /\ cmd.expectedEpoch = partitions[k].partitionEpoch
                   /\ UNCHANGED minted
    BY <2>0
  <2> DEFINE q == [cmd |-> cmd, read |-> partitions[k], done |-> FALSE]
  <2>2. New(q)
    BY <2>1, ProposeSteps
  <2>3. /\ q.cmd.kind = "UpdatePartition" /\ q.cmd.key = k /\ q.read = partitions[k]
        /\ q.cmd.expectedEpoch = partitions[k].partitionEpoch
    BY <2>1
  <2> HIDE DEF q
  <2> QED
    BY <2>1, <2>2, <2>3 DEF Adds
<1>5. CASE Lose \/ UNCHANGED vars
  BY <1>5 DEF Lose, vars, history
<1> QED
  BY <1>1, <1>2, <1>3, <1>4, <1>5
     DEF Commits, Next, CommitClusterInit, CommitCreateTopic, CommitDeleteTopic, CommitUpdatePartition

LEMMA CarriedOrNew ==
  ASSUME [Next]_vars
  PROVE  (Carried /\ UNCHANGED minted) \/ \E q : Adds(q)
<1>1. pending' \subseteq pending => Carried
  BY DEF Carried
<1>2. \A p \in pending : Commits(p) => Carried /\ UNCHANGED minted
  BY CommitSteps DEF Commits
<1> QED
  BY <1>1, <1>2, PendingSteps

LEMMA SettledStays ==
  ASSUME [Next]_vars, NEW id, Settled(id)
  PROVE  Settled(id)'
<1>1. CASE Carried /\ UNCHANGED minted
  BY <1>1 DEF Settled, Creations, Carried
<1>2. ASSUME NEW q, Adds(q) PROVE Settled(id)'
  BY <1>2 DEF Adds, Settled, Creations
<1> QED
  BY <1>1, <1>2, CarriedOrNew

\* What a commit does beside the change of the store.
LEMMA StoreSteps ==
  ASSUME [Next]_vars
  PROVE  \/ UNCHANGED <<topics, partitions, ledBy>>
         \/ \E p \in pending :
              /\ commit(p)
              /\ \/ p.cmd.kind = "ClusterInit" /\ ApplyClusterInit(p.cmd)
                 \/ p.cmd.kind = "CreateTopic" /\ ApplyCreateTopic(p.cmd)
                 \/ p.cmd.kind = "DeleteTopic" /\ ApplyDeleteTopic(p.cmd)
                 \/ p.cmd.kind = "UpdatePartition" /\ ApplyUpdatePartition(p.cmd)
<1>1. CASE ProposeClusterInit
  BY <1>1, ProposeSteps DEF ProposeClusterInit
<1>2. CASE ProposeCreateTopic
  BY <1>2, ProposeSteps DEF ProposeCreateTopic
<1>3. CASE ProposeDeleteTopic
  BY <1>3, ProposeSteps DEF ProposeDeleteTopic
<1>4. CASE ProposeUpdatePartition
  BY <1>4, ProposeSteps DEF ProposeUpdatePartition
<1>5. CASE Lose \/ UNCHANGED vars
  BY <1>5 DEF Lose, vars, store, history
<1> QED
  BY <1>1, <1>2, <1>3, <1>4, <1>5
     DEF Next, CommitClusterInit, CommitCreateTopic, CommitDeleteTopic, CommitUpdatePartition

\* A creation that is committed is not under way any more.
LEMMA CreationSettles ==
  ASSUME CreatedOnce, IndexInv, NEW p \in Creations, commit(p)
  PROVE  Settled(p.cmd.topicID)'
<1>1. pending' = pending \ {p} /\ UNCHANGED minted
  BY CommitSteps DEF CreatedOnce, Creations
<1> QED
  BY <1>1 DEF Settled, Creations, IndexInv, TopicIDsUnique, OneProposal

LEMMA TopicSteps ==
  ASSUME NEW c, \/ ApplyClusterInit(c) \/ ApplyCreateTopic(c)
                \/ ApplyDeleteTopic(c) \/ ApplyUpdatePartition(c)
  PROVE  \/ DOMAIN topics' \subseteq DOMAIN topics
         \/ DOMAIN topics' = DOMAIN topics \cup {c.topicID} /\ ApplyCreateTopic(c)
  BY DEF ApplyClusterInit, ApplyCreateTopic, ApplyDeleteTopic, ApplyUpdatePartition, with, without, store

LEMMA SettledStep ==
  CreatedOnce /\ IndexInv /\ IndexInv' /\ SettledInv /\ [Next]_vars => SettledInv'
<1> SUFFICES ASSUME CreatedOnce, IndexInv, IndexInv', SettledInv, [Next]_vars PROVE SettledInv'
  OBVIOUS
<1>1. \A id : Settled(id) => Settled(id)'
  BY SettledStays
<1>2. \A q \in pending' : /\ q.cmd.kind = "DeleteTopic" => Settled(q.cmd.topicID)'
                          /\ q.cmd.kind = "UpdatePartition" => Settled(q.cmd.key[1])'
  <2>1. \A q \in pending : /\ q.cmd.kind = "DeleteTopic" => Settled(q.cmd.topicID)'
                           /\ q.cmd.kind = "UpdatePartition" => Settled(q.cmd.key[1])'
    BY <1>1 DEF SettledInv
  <2>2. ASSUME NEW q, pending' = pending \cup {q},
               q.cmd.kind = "DeleteTopic" => q.cmd.topicID \in DOMAIN topics,
               q.cmd.kind = "UpdatePartition" => q.cmd.key \in DOMAIN partitions
        PROVE  /\ q.cmd.kind = "DeleteTopic" => Settled(q.cmd.topicID)'
               /\ q.cmd.kind = "UpdatePartition" => Settled(q.cmd.key[1])'
    BY <1>1, <2>2, KeysSettled DEF SettledInv
  <2>3. CASE Carried
    BY <2>1, <2>3 DEF Carried
  <2>4. ASSUME NEW q, Adds(q)
        PROVE  \A r \in pending' : /\ r.cmd.kind = "DeleteTopic" => Settled(r.cmd.topicID)'
                                   /\ r.cmd.kind = "UpdatePartition" => Settled(r.cmd.key[1])'
    BY <2>1, <2>2, <2>4 DEF Adds
  <2> QED
    BY <2>3, <2>4, CarriedOrNew
<1>3. CASE UNCHANGED <<topics, partitions, ledBy>>
  BY <1>1, <1>2, <1>3 DEF SettledInv
<1>4. ASSUME NEW p \in pending, commit(p),
             \/ p.cmd.kind = "ClusterInit" /\ ApplyClusterInit(p.cmd)
             \/ p.cmd.kind = "CreateTopic" /\ ApplyCreateTopic(p.cmd)
             \/ p.cmd.kind = "DeleteTopic" /\ ApplyDeleteTopic(p.cmd)
             \/ p.cmd.kind = "UpdatePartition" /\ ApplyUpdatePartition(p.cmd)
      PROVE  SettledInv'
  <2>1. p.cmd.kind = "CreateTopic" => Settled(p.cmd.topicID)'
    BY <1>4, CreationSettles DEF Creations
  <2>2. \A id \in DOMAIN topics' : Settled(id)'
    <3>1. CASE p.cmd.kind = "CreateTopic"
      BY <1>1, <1>4, <2>1, <3>1, TopicSteps DEF SettledInv
    <3>2. CASE p.cmd.kind # "CreateTopic"
      <4>1. DOMAIN topics' \subseteq DOMAIN topics
        BY <1>4, <3>2 DEF ApplyClusterInit, ApplyDeleteTopic, ApplyUpdatePartition, without, store
      <4> QED
        BY <1>1, <4>1 DEF SettledInv
    <3> QED
      BY <3>1, <3>2
  <2>3. \A k \in DOMAIN partitions' : Settled(k[1])'
    <3>1. \A k \in DOMAIN partitions' : k[1] \in DOMAIN topics'
      <4> SUFFICES ASSUME NEW k \in DOMAIN partitions' PROVE k[1] \in DOMAIN topics'
        OBVIOUS
      <4>1. PICK id \in DOMAIN topics' : k \in KeysOf(id, topics'[id].numPartitions)
        BY DEF IndexInv, IndexesAgree
      <4> QED
        BY <4>1 DEF KeysOf
    <3> QED
      BY <2>2, <3>1
  <2>4. \A x \in ledBy' : Settled(x.key[1])'
    BY <1>1, <1>4, <2>3 DEF commit, SettledInv
  <2> QED
    BY <1>2, <2>2, <2>4 DEF SettledInv
<1> QED
  BY <1>3, <1>4, StoreSteps

-----------------------------------------------------------------------------
(* How a partition changes                                                 *)

PartitionFields == {"replicas", "isr", "status", "leader", "leaderEpoch", "partitionEpoch"}

PartitionsTyped ==
  \A k \in DOMAIN partitions : /\ DOMAIN partitions[k] = PartitionFields
                               /\ partitions[k].leaderEpoch \in Nat
                               /\ partitions[k].partitionEpoch \in Nat

\* The partition is born, with epochs of zero, of a topic not known before.
Born(k) ==
  /\ k \notin DOMAIN partitions
  /\ ~Settled(k[1])
  /\ DOMAIN partitions'[k] = PartitionFields
  /\ partitions'[k].leaderEpoch = 0 /\ partitions'[k].partitionEpoch = 0

\* It is replaced by the update q, whose proposer had seen its epoch.
Replaced(k, q) ==
  /\ k \in DOMAIN partitions
  /\ q.cmd.kind = "UpdatePartition" /\ q.cmd.key = k
  /\ q.cmd.expectedEpoch = partitions[k].partitionEpoch
  /\ partitions'[k].leader = q.cmd.newLeader /\ partitions'[k].isr = q.cmd.newISR
  /\ DOMAIN partitions'[k] = PartitionFields
  /\ partitions'[k].partitionEpoch = partitions[k].partitionEpoch + 1
  /\ \/ /\ partitions'[k].leader = partitions[k].leader
        /\ partitions'[k].leaderEpoch = partitions[k].leaderEpoch
     \/ partitions'[k].leaderEpoch = partitions[k].leaderEpoch + 1

Kept(k) == k \in DOMAIN partitions /\ partitions'[k] = partitions[k]

LEMMA CreateSteps ==
  ASSUME IndexInv, SettledInv, NEW p \in Creations, ApplyCreateTopic(p.cmd),
         NEW k \in DOMAIN partitions'
  PROVE  Kept(k) \/ Born(k)
<1>1. CASE UNCHANGED partitions
  BY <1>1 DEF Kept
<1>2. CASE p.cmd.name \notin DOMAIN topicsByName
  <2> DEFINE new == KeysOf(p.cmd.topicID, p.cmd.numPartitions)
  <2>1. PICK replicas :
          partitions' = [x \in DOMAIN partitions \cup new |->
                           IF x \in new THEN newPartition(replicas[x]) ELSE partitions[x]]
    <3> DEFINE assignments == AssignReplicas(p.cmd.brokers, p.cmd.numPartitions,
                                             p.cmd.replicationFactor, LeaderCounts)
               r(i) == IF i < Len(assignments) THEN assignments[i + 1] ELSE <<>>
               f == [x \in new |-> r(x[2])]
    <3>1. partitions' = [x \in DOMAIN partitions \cup new |->
                           IF x \in new THEN newPartition(r(x[2])) ELSE partitions[x]]
      BY <1>2 DEF ApplyCreateTopic
    <3> HIDE DEF r, new
    <3>2. partitions' = [x \in DOMAIN partitions \cup new |->
                           IF x \in new THEN newPartition(f[x]) ELSE partitions[x]]
      BY <3>1
    <3> HIDE DEF f
    <3> QED
      BY <3>2
  <2>2. CASE k \in new
    <3>1. k[1] = p.cmd.topicID
      BY <2>2 DEF KeysOf
    <3>2. ~Settled(k[1])
      BY <3>1 DEF Settled
    <3>3. k \notin DOMAIN partitions
      BY <3>2, KeysSettled
    <3>4. partitions'[k] = newPartition(replicas[k])
      BY <2>1, <2>2
    <3> QED
      BY <3>2, <3>3, <3>4 DEF Born, newPartition, PartitionFields
  <2>3. CASE k \notin new
    BY <2>1, <2>3 DEF Kept
  <2> QED
    BY <2>2, <2>3
<1> QED
  BY <1>1, <1>2 DEF ApplyCreateTopic, store

LEMMA UpdateReplaces ==
  ASSUME PartitionsTyped, NEW p \in pending, p.cmd.kind = "UpdatePartition",
         ApplyUpdatePartition(p.cmd), p.cmd.key \in DOMAIN partitions,
         ~stale(partitions[p.cmd.key], p.cmd)
  PROVE  /\ Replaced(p.cmd.key, p)
         /\ \A k \in DOMAIN partitions' \ {p.cmd.key} : Kept(k)
<1> DEFINE k == p.cmd.key
           s == partitions[k]
           new == [s EXCEPT !.leader = p.cmd.newLeader, !.isr = p.cmd.newISR,
                            !.status = IF p.cmd.newLeader = NoBroker THEN "offline" ELSE "online",
                            !.leaderEpoch = leaderEpochAfter(s, p.cmd),
                            !.partitionEpoch = @ + 1]
<1>1. partitions' = [partitions EXCEPT ![k] = new]
  BY DEF ApplyUpdatePartition
<1>2. DOMAIN s = PartitionFields
  BY DEF PartitionsTyped
<1>3. p.cmd.expectedEpoch = s.partitionEpoch
  BY DEF stale
<1> HIDE DEF s
<1>4. /\ DOMAIN new = PartitionFields
      /\ new.partitionEpoch = s.partitionEpoch + 1
      /\ new.leader = p.cmd.newLeader /\ new.isr = p.cmd.newISR
      /\ new.leaderEpoch = leaderEpochAfter(s, p.cmd)
  BY <1>2 DEF PartitionFields
<1> HIDE DEF new
<1>5. \/ new.leader = s.leader /\ new.leaderEpoch = s.leaderEpoch
      \/ new.leaderEpoch = s.leaderEpoch + 1
  BY <1>4 DEF leaderEpochAfter
<1>6. partitions'[k] = new
  BY <1>1
<1>7. Replaced(k, p)
  BY <1>3, <1>4, <1>5, <1>6 DEF Replaced, s
<1>8. \A x \in DOMAIN partitions' \ {k} : Kept(x)
  BY <1>1 DEF Kept
<1> QED
  BY <1>7, <1>8

LEMMA UpdateSteps ==
  ASSUME PartitionsTyped, NEW p \in pending, p.cmd.kind = "UpdatePartition",
         ApplyUpdatePartition(p.cmd), NEW k \in DOMAIN partitions'
  PROVE  Kept(k) \/ Replaced(k, p)
<1>1. CASE UNCHANGED partitions
  BY <1>1 DEF Kept
<1>2. CASE p.cmd.key \in DOMAIN partitions /\ ~stale(partitions[p.cmd.key], p.cmd)
  BY <1>2, UpdateReplaces
<1> QED
  BY <1>1, <1>2 DEF ApplyUpdatePartition, store

LEMMA PartitionSteps ==
  ASSUME IndexInv, SettledInv, PartitionsTyped, [Next]_vars, NEW k \in DOMAIN partitions'
  PROVE  Kept(k) \/ Born(k) \/ \E q \in pending : Replaced(k, q)
<1>1. CASE UNCHANGED partitions
  BY <1>1 DEF Kept
<1>2. ASSUME NEW p \in pending, ApplyDeleteTopic(p.cmd) PROVE Kept(k)
  BY <1>2 DEF ApplyDeleteTopic, without, Kept, store
<1>3. ASSUME NEW p \in pending, ApplyClusterInit(p.cmd) PROVE Kept(k)
  BY <1>3 DEF ApplyClusterInit, Kept
<1> QED
  BY <1>1, <1>2, <1>3, StoreSteps, CreateSteps, UpdateSteps DEF Creations

LEMMA PartitionsTypedStep ==
  ASSUME IndexInv, SettledInv, PartitionsTyped, [Next]_vars
  PROVE  PartitionsTyped'
<1> SUFFICES ASSUME NEW k \in DOMAIN partitions'
             PROVE  /\ DOMAIN partitions'[k] = PartitionFields
                    /\ partitions'[k].leaderEpoch \in Nat
                    /\ partitions'[k].partitionEpoch \in Nat
  BY DEF PartitionsTyped
<1> QED
  BY PartitionSteps DEF PartitionsTyped, Kept, Born, Replaced

-----------------------------------------------------------------------------
(* A leader epoch has one leader                                           *)

Led(k) == [key |-> k, epoch |-> partitions[k].leaderEpoch, leader |-> partitions[k].leader]

\* LeaderEpochNamesOneLeader is not inductive: that an update makes an epoch no
\* leader had rests on the partition's own epoch being its latest.
EpochInv ==
  /\ \A k \in DOMAIN partitions : Led(k) \in ledBy
  /\ \A x \in ledBy : x.key \in DOMAIN partitions
                        => x.epoch \in Nat /\ x.epoch <= partitions[x.key].leaderEpoch
  /\ LeaderEpochNamesOneLeader

LEMMA LedSteps ==
  ASSUME [Next]_vars
  PROVE  \/ UNCHANGED <<partitions, ledBy>>
         \/ ledBy' = ledBy \cup {Led(k)' : k \in DOMAIN partitions'}
  BY StoreSteps DEF commit, Led

LEMMA EpochStep ==
  ASSUME IndexInv, SettledInv, PartitionsTyped, EpochInv, [Next]_vars
  PROVE  EpochInv'
<1>1. CASE UNCHANGED <<partitions, ledBy>>
  BY <1>1 DEF EpochInv, LeaderEpochNamesOneLeader, Led
<1>2. CASE ledBy' = ledBy \cup {Led(k)' : k \in DOMAIN partitions'}
  <2>1. ASSUME NEW k \in DOMAIN partitions', NEW x \in ledBy, x.key = k
        PROVE  /\ x.epoch \in Nat /\ x.epoch <= partitions'[k].leaderEpoch
               /\ x.epoch = partitions'[k].leaderEpoch => x.leader = partitions'[k].leader
    <3>1. ~Born(k)
      BY <2>1 DEF Born, SettledInv
    <3>2. k \in DOMAIN partitions
      BY <3>1, PartitionSteps DEF Kept, Replaced
    <3>3. /\ partitions[k].leaderEpoch \in Nat
          /\ x.epoch \in Nat /\ x.epoch <= partitions[k].leaderEpoch
          /\ x.epoch = partitions[k].leaderEpoch => x.leader = partitions[k].leader
      BY <2>1, <3>2 DEF EpochInv, LeaderEpochNamesOneLeader, PartitionsTyped, Led
    <3>4. CASE Kept(k)
      BY <3>3, <3>4 DEF Kept
    <3>5. ASSUME NEW q \in pending, Replaced(k, q)
          PROVE  \/ /\ partitions'[k].leader = partitions[k].leader
                    /\ partitions'[k].leaderEpoch = partitions[k].leaderEpoch
                 \/ partitions'[k].leaderEpoch = partitions[k].leaderEpoch + 1
      BY <3>5 DEF Replaced
    <3> QED
      BY <3>1, <3>3, <3>4, <3>5, PartitionSteps
  <2>2. \A k \in DOMAIN partitions' : Led(k)' \in ledBy'
    BY <1>2
  <2>3. \A x \in ledBy' : x.key \in DOMAIN partitions'
                            => x.epoch \in Nat /\ x.epoch <= partitions'[x.key].leaderEpoch
    <3> SUFFICES ASSUME NEW x \in ledBy', x.key \in DOMAIN partitions'
                 PROVE  x.epoch \in Nat /\ x.epoch <= partitions'[x.key].leaderEpoch
      OBVIOUS
    <3>1. CASE x \in ledBy
      BY <2>1, <3>1
    <3>2. ASSUME NEW k \in DOMAIN partitions', x = Led(k)'
          PROVE  x.epoch \in Nat /\ x.epoch <= partitions'[x.key].leaderEpoch
      <4>1. partitions'[k].leaderEpoch \in Nat
        BY PartitionsTypedStep DEF PartitionsTyped
      <4> QED
        BY <3>2, <4>1 DEF Led
    <3> QED
      BY <1>2, <3>1, <3>2
  <2>4. LeaderEpochNamesOneLeader'
    <3> SUFFICES ASSUME NEW x \in ledBy', NEW y \in ledBy', x.key = y.key, x.epoch = y.epoch
                 PROVE  x.leader = y.leader
      BY DEF LeaderEpochNamesOneLeader
    <3>1. CASE x \in ledBy /\ y \in ledBy
      BY <3>1 DEF EpochInv, LeaderEpochNamesOneLeader
    <3>2. ASSUME NEW k \in DOMAIN partitions', NEW z \in ledBy', z.key = k,
                 z.epoch = partitions'[k].leaderEpoch
          PROVE  z.leader = partitions'[k].leader
      <4>1. CASE z \in ledBy
        BY <2>1, <3>2, <4>1
      <4>2. CASE z \in {Led(j)' : j \in DOMAIN partitions'}
        BY <3>2, <4>2 DEF Led
      <4> QED
        BY <1>2, <4>1, <4>2
    <3>3. ASSUME NEW k \in DOMAIN partitions', x = Led(k)' \/ y = Led(k)'
          PROVE  x.leader = y.leader
      BY <3>2, <3>3 DEF Led
    <3> QED
      BY <1>2, <3>1, <3>3
  <2> QED
    BY <2>2, <2>3, <2>4 DEF EpochInv
<1> QED
  BY <1>1, <1>2, LedSteps

-----------------------------------------------------------------------------
(* No update is lost, and none takes effect twice                          *)

\* What the proposer of an update has read is the partition's past, or its
\* present if the epoch is still the same; once the update is committed it is the
\* past for good.
ReadBy(p) ==
  p.cmd.kind = "UpdatePartition" /\ p.cmd.key \in DOMAIN partitions =>
    /\ p.cmd.expectedEpoch \in Nat
    /\ p.cmd.expectedEpoch <= partitions[p.cmd.key].partitionEpoch
    /\ p.cmd.expectedEpoch = partitions[p.cmd.key].partitionEpoch
         => p.read = partitions[p.cmd.key] /\ p.done = FALSE

ReadInv == \A p \in pending : ReadBy(p)

LEMMA ReadStays ==
  ASSUME IndexInv, SettledInv, PartitionsTyped, ReadInv, [Next]_vars, NEW p \in pending
  PROVE  ReadBy(p)'
<1> SUFFICES ASSUME p.cmd.kind = "UpdatePartition", p.cmd.key \in DOMAIN partitions'
             PROVE  /\ p.cmd.expectedEpoch \in Nat
                    /\ p.cmd.expectedEpoch <= partitions'[p.cmd.key].partitionEpoch
                    /\ p.cmd.expectedEpoch = partitions'[p.cmd.key].partitionEpoch
                         => p.read = partitions'[p.cmd.key] /\ p.done = FALSE
  BY DEF ReadBy
<1> DEFINE k == p.cmd.key
<1>1. ~Born(k)
  BY DEF Born, SettledInv
<1>2. CASE Kept(k)
  BY <1>2 DEF Kept, ReadInv, ReadBy
<1>3. ASSUME NEW q \in pending, Replaced(k, q)
      PROVE  /\ p.cmd.expectedEpoch \in Nat
             /\ p.cmd.expectedEpoch < partitions'[k].partitionEpoch
             /\ partitions'[k].partitionEpoch \in Nat
  BY <1>3 DEF Replaced, ReadInv, ReadBy, PartitionsTyped
<1>4. CASE \E q \in pending : Replaced(k, q)
  BY <1>3, <1>4
<1>5. Kept(k) \/ \E q \in pending : Replaced(k, q)
  BY <1>1, PartitionSteps
<1> QED
  BY <1>2, <1>4, <1>5

\* A commit of p leaves its epoch behind, whether or not the compare-and-swap
\* succeeds.
LEMMA CommitLeavesBehind ==
  ASSUME PartitionsTyped, ReadInv, NEW p \in pending, p.cmd.kind = "UpdatePartition",
         ApplyUpdatePartition(p.cmd)
  PROVE  ReadBy(again(p))'
<1> DEFINE k == p.cmd.key
<1>0. again(p).cmd = p.cmd
  BY DEF again
<1> SUFFICES ASSUME k \in DOMAIN partitions'
             PROVE  /\ p.cmd.expectedEpoch \in Nat
                    /\ p.cmd.expectedEpoch < partitions'[k].partitionEpoch
                    /\ partitions'[k].partitionEpoch \in Nat
  BY <1>0 DEF ReadBy, again
<1>1. k \in DOMAIN partitions
  BY DEF ApplyUpdatePartition, store
<1>2. /\ partitions[k].partitionEpoch \in Nat /\ p.cmd.expectedEpoch \in Nat
      /\ p.cmd.expectedEpoch <= partitions[k].partitionEpoch
  BY <1>1 DEF PartitionsTyped, ReadInv, ReadBy
<1>3. CASE stale(partitions[k], p.cmd)
  <2>1. partitions' = partitions /\ p.cmd.expectedEpoch # partitions[k].partitionEpoch
    BY <1>3 DEF ApplyUpdatePartition, stale, store
  <2> QED
    BY <1>2, <2>1
<1>4. CASE ~stale(partitions[k], p.cmd)
  <2>1. partitions'[k].partitionEpoch = partitions[k].partitionEpoch + 1
    BY <1>1, <1>4, UpdateReplaces DEF Replaced
  <2> QED
    BY <1>2, <2>1
<1> QED
  BY <1>3, <1>4

LEMMA ReadStep ==
  ASSUME IndexInv, SettledInv, PartitionsTyped, ReadInv, [Next]_vars
  PROVE  ReadInv'
<1>1. CASE pending' \subseteq pending
  BY <1>1, ReadStays DEF ReadInv
<1>2. ASSUME NEW q, Adds(q) PROVE ReadInv'
  <2>1. ReadBy(q)'
    BY <1>2 DEF Adds, ReadBy, PartitionsTyped
  <2> QED
    BY <1>2, <2>1, ReadStays DEF Adds, ReadInv
<1>3. ASSUME NEW p \in pending, Commits(p) PROVE ReadInv'
  <2>1. ReadBy(again(p))'
    <3>1. CASE p.cmd.kind = "UpdatePartition"
      BY <1>3, <3>1, CommitLeavesBehind DEF Commits
    <3>2. CASE p.cmd.kind # "UpdatePartition"
      BY <3>2 DEF ReadBy, again
    <3> QED
      BY <3>1, <3>2
  <2> QED
    BY <1>3, <2>1, CommitSteps, ReadStays DEF Commits, ReadInv
<1> QED
  BY <1>1, <1>2, <1>3, PendingSteps

-----------------------------------------------------------------------------
StoreInv == IndexInv /\ SettledInv /\ PartitionsTyped /\ EpochInv /\ ReadInv

LEMMA StoreInvariant == ASSUME CreatedOnce PROVE Spec => []StoreInv
<1>1. Init => StoreInv
  <2> SUFFICES ASSUME Init PROVE StoreInv
    OBVIOUS
  <2>1. DOMAIN topics = {} /\ DOMAIN partitions = {} /\ pending = {} /\ ledBy = {}
    BY DEF Init, empty
  <2>2. IndexInv
    BY InitIndexInv
  <2> QED
    BY <2>1, <2>2 DEF StoreInv, SettledInv, PartitionsTyped, EpochInv, LeaderEpochNamesOneLeader,
                      ReadInv
<1>2. StoreInv /\ [Next]_vars => StoreInv'
  BY IndexInvStep, SettledStep, PartitionsTypedStep, EpochStep, ReadStep DEF StoreInv
<1> QED
  BY <1>1, <1>2, PTL DEF Spec

\* Over the whole life of a partition a LeaderEpoch has one leader, however many
\* updates race, arrive late or are committed again, and whatever AssignReplicas
\* chose at the start, in a store to which no CreateTopic is committed twice.
THEOREM LeaderEpochsFence == ASSUME CreatedOnce PROVE Spec => []LeaderEpochNamesOneLeader
<1>1. StoreInv => LeaderEpochNamesOneLeader
  BY DEF StoreInv, EpochInv
<1> QED
  BY <1>1, StoreInvariant, PTL

\* The compare-and-swap of ApplyUpdatePartition loses no update and applies none
\* twice: what an update replaces is what its own proposer had read, and it was
\* not committed before, also after the deletion of the topic and the creation of
\* another under its name.
THEOREM NoUpdateLost == ASSUME CreatedOnce PROVE Spec => UpdatesReplaceWhatWasRead
<1>1. StoreInv /\ [Next]_vars
        => [\A k \in DOMAIN partitions \cap DOMAIN partitions' :
              partitions'[k] # partitions[k] =>
                \E p \in pending : /\ p.cmd.kind = "UpdatePartition" /\ p.cmd.key = k
                                   /\ ~p.done /\ p.read = partitions[k]
                                   /\ partitions'[k].leader = p.cmd.newLeader
                                   /\ partitions'[k].isr = p.cmd.newISR]_vars
  <2> SUFFICES ASSUME StoreInv, [Next]_vars,
                      NEW k \in DOMAIN partitions \cap DOMAIN partitions',
                      partitions'[k] # partitions[k]
               PROVE  \E p \in pending : /\ p.cmd.kind = "UpdatePartition" /\ p.cmd.key = k
                                         /\ ~p.done /\ p.read = partitions[k]
                                         /\ partitions'[k].leader = p.cmd.newLeader
                                         /\ partitions'[k].isr = p.cmd.newISR
    OBVIOUS
  <2>1. PICK q \in pending : Replaced(k, q)
    BY PartitionSteps DEF StoreInv, Kept, Born
  <2>2. ~q.done /\ q.read = partitions[k]
    BY <2>1 DEF Replaced, StoreInv, ReadInv, ReadBy
  <2> QED
    BY <2>1, <2>2 DEF Replaced
<1> QED
  BY <1>1, StoreInvariant, PTL DEF Spec, UpdatesReplaceWhatWasRead

=============================================================================
