----------------------------- MODULE RaftProofs -----------------------------
(***************************************************************************)
(* Theorems about Raft, for any number of nodes and any bounds.            *)
(***************************************************************************)
EXTENDS Raft, FiniteSetTheorems, SequenceTheorems, WellFoundedInduction, TLAPS

-----------------------------------------------------------------------------
(* Facts about the operators the model is built from                       *)

\* A set of naturals with an upper bound that is not empty has a greatest
\* element, and Max names it.
LEMMA MaxIsGreatest ==
  ASSUME NEW S, NEW b \in Nat, S \subseteq 0..b, S # {}
  PROVE  Max(S) \in S /\ \A y \in S : Max(S) >= y
<1> DEFINE above == {x..b : x \in S}
<1>1. above \subseteq FiniteSubsetsOf(Nat)
  <2> SUFFICES ASSUME NEW x \in S PROVE x..b \in FiniteSubsetsOf(Nat)
    OBVIOUS
  <2>1. x \in Int /\ x..b \subseteq Nat
    OBVIOUS
  <2> QED
    BY <2>1, FS_Interval DEF FiniteSubsetsOf
<1>2. PICK u \in above : \A w \in above : ~(<<w, u>> \in StrictSubsetOrdering(Nat))
  <2>1. above # {}
    OBVIOUS
  <2> QED
    BY <1>1, <2>1, FS_StrictSubsetOrderingWellFounded, WFMin
<1>3. PICK x \in S : u = x..b
  OBVIOUS
<1>4. \A y \in S : x >= y
  <2> SUFFICES ASSUME NEW y \in S, y > x PROVE FALSE
    OBVIOUS
  <2>1. y..b \subseteq x..b /\ y..b # x..b
    <3>1. x \in x..b /\ x \notin y..b
      OBVIOUS
    <3> QED
      BY <3>1
  <2>2. <<y..b, x..b>> \in StrictSubsetOrdering(Nat)
    BY <2>1 DEF StrictSubsetOrdering
  <2> QED
    BY <2>2, <1>2, <1>3
<1> QED
  BY <1>4 DEF Max

\* A set of naturals that is not empty has a least element, and Min names it.
LEMMA MinIsLeast ==
  ASSUME NEW S, S \subseteq Nat, S # {}
  PROVE  Min(S) \in S /\ \A y \in S : Min(S) <= y
<1> DEFINE below == {0..x : x \in S}
<1>1. below \subseteq FiniteSubsetsOf(Nat)
  <2> SUFFICES ASSUME NEW x \in S PROVE 0..x \in FiniteSubsetsOf(Nat)
    OBVIOUS
  <2>1. x \in Int /\ 0..x \subseteq Nat
    OBVIOUS
  <2> QED
    BY <2>1, FS_Interval DEF FiniteSubsetsOf
<1>2. PICK u \in below : \A w \in below : ~(<<w, u>> \in StrictSubsetOrdering(Nat))
  <2>1. below # {}
    OBVIOUS
  <2> QED
    BY <1>1, <2>1, FS_StrictSubsetOrderingWellFounded, WFMin
<1>3. PICK x \in S : u = 0..x
  OBVIOUS
<1>4. \A y \in S : x <= y
  <2> SUFFICES ASSUME NEW y \in S, y < x PROVE FALSE
    OBVIOUS
  <2>1. 0..y \subseteq 0..x /\ 0..y # 0..x
    <3>1. x \in 0..x /\ x \notin 0..y
      OBVIOUS
    <3> QED
      BY <3>1
  <2>2. <<0..y, 0..x>> \in StrictSubsetOrdering(Nat)
    BY <2>1 DEF StrictSubsetOrdering
  <2> QED
    BY <2>2, <1>2, <1>3
<1> QED
  BY <1>4 DEF Min

LEMMA PairMaxMin ==
  ASSUME NEW x \in Nat, NEW y \in Nat
  PROVE  /\ Max({x, y}) = IF x >= y THEN x ELSE y
         /\ Min({x, y}) = IF x <= y THEN x ELSE y
  BY DEF Max, Min

LEMMA KeysFinite == IsFiniteSet(MemberKey)
<1>1. IsFiniteSet({"id", "addr"})
  <2>1. IsFiniteSet({"id"} \cup {"addr"})
    BY FS_Singleton, FS_AddElement
  <2>2. {"id"} \cup {"addr"} = {"id", "addr"}
    OBVIOUS
  <2> QED
    BY <2>1, <2>2
<1> QED
  BY <1>1, NodeAssumption, FS_Product DEF MemberKey

LEMMA KeyFacts ==
  /\ \A n \in Node : /\ ID(n) \in MemberKey /\ Placeholder(n) \in MemberKey
                     /\ ID(n) # Placeholder(n)
                     /\ AddrOf(ID(n)) = n /\ AddrOf(Placeholder(n)) = n
  /\ \A k \in MemberKey : /\ AddrOf(k) \in Node
                          /\ k \in {ID(AddrOf(k)), Placeholder(AddrOf(k))}
  BY DEF MemberKey, ID, Placeholder, AddrOf

LEMMA QuorumSizeType ==
  ASSUME NEW v
  PROVE  QuorumSize(v) \in Nat
<1>1. Cardinality(VoterKeys(v)) \in Nat
  BY KeysFinite, FS_Subset, FS_CardinalityType DEF VoterKeys
<1> QED
  BY <1>1 DEF QuorumSize

LEMMA VoterSetTypes ==
  ASSUME NEW v \in VoterSets
  PROVE  /\ \A n \in Node : UpdateID(v, n) \in VoterSets
         /\ \A k \in MemberKey : AddObserver(v, k) \in VoterSets
         /\ \A l, applied, c : applyMembership(v, l, applied, c) \in VoterSets
<1>1. \A n \in Node : UpdateID(v, n) \in VoterSets
  BY KeyFacts DEF VoterSets, UpdateID, NodeState
<1>2. \A k \in MemberKey : AddObserver(v, k) \in VoterSets
  BY DEF VoterSets, AddObserver, NodeState
<1>3. \A l, applied, c : applyMembership(v, l, applied, c) \in VoterSets
  BY DEF VoterSets, applyMembership, AddVoter, Remove, NodeState
<1> QED
  BY <1>1, <1>2, <1>3

LEMMA LogTypes ==
  ASSUME NEW l \in Seq(LogEntry)
  PROVE  /\ lastIndex(l) \in Nat
         /\ lastTerm(l) \in Nat
         /\ \A n \in Nat : termAt(l, n) \in Nat
         /\ \A n \in Nat \ {0} : entriesFrom(l, n) \in Seq(LogEntry)
         /\ \A n \in 0..Len(l), es \in Seq(LogEntry) : append(l, n, es) \in Seq(LogEntry)
         /\ \A e \in LogEntry : appendOne(l, e) \in Seq(LogEntry)
<1>1. Len(l) \in Nat /\ \A n \in 1..Len(l) : l[n] \in LogEntry
  BY LenProperties
<1>2. \A n \in Int : termAt(l, n) \in Nat
  BY <1>1 DEF termAt, LogEntry
<1>3. ASSUME NEW n \in Nat \ {0} PROVE entriesFrom(l, n) \in Seq(LogEntry)
  <2>1. SubSeq(l, n, Len(l)) \in Seq(LogEntry)
    BY <1>1, SubSeqProperties
  <2> QED
    BY <2>1 DEF entriesFrom
<1>4. ASSUME NEW n \in 0..Len(l), NEW es \in Seq(LogEntry)
      PROVE  append(l, n, es) \in Seq(LogEntry)
  <2>1. SubSeq(l, 1, n) \in Seq(LogEntry)
    BY <1>1, SubSeqProperties
  <2> QED
    BY <2>1, ConcatProperties DEF append
<1>5. \A e \in LogEntry : appendOne(l, e) \in Seq(LogEntry)
  BY DEF appendOne
<1> QED
  BY <1>1, <1>2, <1>3, <1>4, <1>5 DEF lastIndex, lastTerm

-----------------------------------------------------------------------------
(* Type correctness                                                        *)

LEMMA InitTypeOK == Init => TypeOK
<1> SUFFICES ASSUME Init PROVE TypeOK
  OBVIOUS
<1>1. \A n \in Node : Seed(n) \in VoterSets
  BY DEF Seed, newVoterSet, VoterSets, NodeState
<1>2. NoCampaign \in Campaign
  BY DEF NoCampaign, Campaign
<1>3. <<>> \in Seq(LogEntry)
  OBVIOUS
<1> QED
  BY <1>1, <1>2, <1>3 DEF Init, TypeOK, RunLocation

\* A broadcast starts well-formed goroutines: there is a slot for each peer.
LEMMA BroadcastTypes ==
  ASSUME TypeOK, NEW i \in Node, broadcastHeartbeat(i)
  PROVE  heartbeats' \subseteq Heartbeat
<1>1. \A k : FreeSlots(i, k) # {} => Min(FreeSlots(i, k)) \in Slot
  <2>1. Slot \subseteq Nat
    BY BoundAssumption DEF Slot
  <2> QED
    BY <2>1, MinIsLeast DEF FreeSlots
<1>2. allPeers(members[i], ID(i)) \subseteq MemberKey
  BY DEF allPeers
<1>3. currentTerm[i] \in Nat /\ commitIndex[i] \in Nat /\ heartbeats \subseteq Heartbeat
  BY DEF TypeOK
<1> QED
  BY <1>1, <1>2, <1>3 DEF broadcastHeartbeat, Heartbeat

LEMMA RunStepTypes ==
  ASSUME TypeOK, NEW i \in Node, runStep(i)
  PROVE  TypeOK'
<1> USE DEF electionVars, logVars, replicationVars, runVars, voteMsgs, appendMsgs, calls
<1>1. CASE FollowerTimeout(i)
  BY <1>1 DEF TypeOK, FollowerTimeout, RunLocation
<1>1a. CASE BecomeCandidate(i)
  BY <1>1a DEF TypeOK, BecomeCandidate, RunLocation
<1>2. CASE ResetElectionTimer(i)
  BY <1>2 DEF TypeOK, ResetElectionTimer
<1>3. CASE ReturnToFollower(i)
  BY <1>3 DEF TypeOK, ReturnToFollower, RunLocation, NoCampaign, Campaign
<1>4. CASE StartElection(i)
  <2>1. campaign' \in [Node -> Campaign]
    BY <1>4, KeyFacts DEF TypeOK, StartElection, Campaign
  <2> QED
    BY <1>4, <2>1 DEF TypeOK, StartElection, RunLocation
<1>5. CASE ElectionTimeout(i)
  BY <1>5 DEF TypeOK, ElectionTimeout, RunLocation, NoCampaign, Campaign
<1>6. CASE CandidateHeartbeat(i)
  BY <1>6 DEF TypeOK, CandidateHeartbeat, RunLocation, NoCampaign, Campaign
<1>7. CASE ReceiveVote(i)
  <2>1. campaign' \in [Node -> Campaign]
    <3>1. PICK m \in voteResponses :
            campaign' = [campaign EXCEPT ![i].votes = campaign[i].votes \cup {m.peer}]
      BY <1>7 DEF ReceiveVote
    <3>2. m.peer \in MemberKey
      BY DEF TypeOK, VoteResponse
    <3> QED
      BY <3>1, <3>2 DEF TypeOK, Campaign
  <2>2. CASE becomeLeader(i)
    <3>1. lastIndex(log[i]) + 1 \in Nat
      <4>1. log[i] \in Seq(LogEntry)
        BY DEF TypeOK
      <4>2. lastIndex(log[i]) \in Nat
        BY <4>1, LogTypes
      <4> QED
        BY <4>2
    <3>2. nextIndex' \in [Node -> [Node -> Nat]]
      <4> DEFINE peers == {AddrOf(k) : k \in Voters(members[i], ID(i))}
                 row == [p \in Node |-> IF p \in peers THEN lastIndex(log[i]) + 1
                                                      ELSE nextIndex[i][p]]
      <4>1. nextIndex' = [nextIndex EXCEPT ![i] = row]
        BY <2>2 DEF becomeLeader
      <4>2. row \in [Node -> Nat]
        BY <3>1 DEF TypeOK
      <4> QED
        BY <4>1, <4>2 DEF TypeOK
    <3>3. matchIndex' \in [Node -> [Node -> Nat]]
      BY <2>2 DEF TypeOK, becomeLeader
    <3>4. pendingPromotion' \in [Node -> SUBSET MemberKey]
      BY <2>2 DEF TypeOK, becomeLeader
    <3> QED
      BY <1>7, <2>1, <2>2, <3>2, <3>3, <3>4
         DEF TypeOK, ReceiveVote, becomeLeader, RunLocation
  <2>3. CASE UNCHANGED <<state, leaderID, replicationVars, pc>>
    BY <1>7, <2>1, <2>3 DEF TypeOK, ReceiveVote
  <2> QED
    BY <1>7, <2>2, <2>3 DEF ReceiveVote
<1>8. CASE FirstBroadcast(i)
  <2>1. heartbeats' \subseteq Heartbeat
    BY <1>8, BroadcastTypes DEF FirstBroadcast
  <2> QED
    BY <1>8, <2>1 DEF TypeOK, FirstBroadcast, RunLocation
<1>9. CASE LeaderTick(i)
  <2>1. heartbeats' \subseteq Heartbeat
    BY <1>9, BroadcastTypes DEF LeaderTick
  <2>2. CASE maybePromoteObservers(i) /\ UNCHANGED runVars
    <3>1. caughtUp(i) \subseteq MemberKey
      BY DEF caughtUp
    <3>2. pendingPromotion' \in [Node -> SUBSET MemberKey]
      BY <2>2, <3>1 DEF maybePromoteObservers, TypeOK
    <3>3. ops' \subseteq Op
      <4>1. \A k \in MemberKey : [node |-> i, mc |-> [action |-> "add", key |-> k],
                                  auto |-> TRUE, stage |-> "called", idx |-> 0] \in Op
        BY DEF Op, MembershipChange
      <4>2. ops \subseteq Op
        BY DEF TypeOK
      <4> QED
        BY <2>2, <3>1, <4>1, <4>2 DEF maybePromoteObservers
    <3> QED
      BY <1>9, <2>1, <2>2, <3>2, <3>3 DEF TypeOK, LeaderTick
  <2>3. CASE state[i] # "Leader"
    <3>1. campaign' \in [Node -> Campaign]
      <4>1. campaign' = [campaign EXCEPT ![i] = NoCampaign]
        BY <1>9, <2>3 DEF LeaderTick
      <4>2. NoCampaign \in Campaign
        BY DEF NoCampaign, Campaign
      <4> QED
        BY <4>1, <4>2 DEF TypeOK
    <3>2. pc' \in [Node -> RunLocation]
      BY <1>9, <2>3 DEF TypeOK, LeaderTick, RunLocation
    <3>3. UNCHANGED <<pendingPromotion, ops>>
      BY <1>9, <2>3 DEF LeaderTick
    <3>4. UNCHANGED <<electionVars, logVars, nextIndex, matchIndex, heartbeatC,
                      voteMsgs, appendRequests, appendResponses, joins>>
      BY <1>9 DEF LeaderTick
    <3> QED
      BY <2>1, <3>1, <3>2, <3>3, <3>4 DEF TypeOK
  <2> QED
    BY <1>9, <2>2, <2>3 DEF LeaderTick
<1>10. CASE RequestVotes(i)
  <2>1. lastIndex(log[i]) \in Nat /\ lastTerm(log[i]) \in Nat
    BY LogTypes DEF TypeOK
  <2>2. campaign' \in [Node -> Campaign]
    BY <1>10, QuorumSizeType DEF TypeOK, RequestVotes, Campaign
  <2>3. voteRequests' \subseteq VoteRequest
    <3>1. campaign[i].term \in Nat
      BY DEF TypeOK, Campaign
    <3> QED
      BY <1>10, <2>1, <3>1 DEF TypeOK, RequestVotes, VoteRequest, Voters, VoterKeys
  <2> QED
    BY <1>10, <2>2, <2>3 DEF TypeOK, RequestVotes, RunLocation
<1> QED
  BY <1>1, <1>1a, <1>2, <1>3, <1>4, <1>5, <1>6, <1>7, <1>8, <1>9, <1>10 DEF runStep

LEMMA HandlerStepTypes ==
  ASSUME TypeOK, NEW i \in Node, handlerStep(i)
  PROVE  TypeOK'
<1> USE DEF electionVars, logVars, replicationVars, runVars, voteMsgs, appendMsgs, calls
<1>0. /\ log[i] \in Seq(LogEntry) /\ lastIndex(log[i]) \in Nat
      /\ members[i] \in VoterSets /\ currentTerm[i] \in Nat
      /\ commitIndex[i] \in Nat /\ lastApplied[i] \in Nat
  <2>1. log[i] \in Seq(LogEntry)
    BY DEF TypeOK
  <2> QED
    BY <2>1, LogTypes DEF TypeOK
<1>1. CASE handleVoteRequest(i)
  <2>1. PICK m \in voteRequests : handleVoteRequest(i)!(m)
    BY <1>1 DEF handleVoteRequest
  <2>2. m \in VoteRequest
    BY DEF TypeOK
  <2>3. voteIn(i, m.term) \in Node \cup {None}
    BY DEF TypeOK, voteIn
  <2>4. voteResponses' \subseteq VoteResponse
    <3> DEFINE granted == /\ m.term >= currentTerm[i]
                          /\ ~alreadyVoted(i, m)
                          /\ logOK(i, m)
               answer == [to |-> m.from, peer |-> m.peer, granted |-> granted,
                          term |-> IF granted THEN m.term ELSE currentTerm[i]]
    <3>1. answer \in VoteResponse
      <4>1. /\ m.from \in Node /\ m.peer \in MemberKey /\ m.term \in Nat
            /\ currentTerm[i] \in Nat
        BY <2>2, <1>0 DEF VoteRequest
      <4>2. CASE granted
        BY <4>1, <4>2 DEF VoteResponse
      <4>3. CASE ~granted
        BY <4>1, <4>3 DEF VoteResponse
      <4> QED
        BY <4>2, <4>3
    <3>2. voteResponses' \subseteq voteResponses \cup {answer}
      BY <2>1
    <3> QED
      BY <3>1, <3>2 DEF TypeOK
  <2>5. /\ currentTerm' \in [Node -> Nat]
        /\ state' \in [Node -> {"Follower", "Candidate", "Leader"}]
        /\ votedFor' \in [Node -> Node \cup {None}]
        /\ voteRequests' \subseteq VoteRequest
    BY <2>1, <2>2, <2>3 DEF TypeOK, VoteRequest
  <2> QED
    BY <2>1, <2>4, <2>5 DEF TypeOK
<1>2. ASSUME NEW m \in appendRequests, NEW t \in Nat, NEW h \in Nat
      PROVE  /\ replyTo(m, TRUE, t, h) \in AppendResponse
             /\ replyTo(m, FALSE, t, h) \in AppendResponse
  <2>1. m \in AppendRequest
    BY DEF TypeOK
  <2>2. m.prevLogIndex + Len(m.entries) \in Nat
    <3>1. m.entries \in Seq(LogEntry) /\ m.prevLogIndex \in Nat
      BY <2>1 DEF AppendRequest
    <3>2. Len(m.entries) \in Nat
      BY <3>1, LenProperties
    <3> QED
      BY <3>1, <3>2
  <2> QED
    BY <2>1, <2>2 DEF replyTo, AppendRequest, AppendResponse
<1>3. CASE RejectAppendEntries(i)
  <2>1. appendResponses' \subseteq AppendResponse
    <3>1. PICK m \in appendRequests : RejectAppendEntries(i)!(m)
      BY <1>3 DEF RejectAppendEntries
    <3>2. replyTo(m, FALSE, currentTerm[i], 0) \in AppendResponse
      BY <1>2, <1>0
    <3>3. appendResponses' = appendResponses \cup {replyTo(m, FALSE, currentTerm[i], 0)}
      BY <3>1
    <3> QED
      BY <3>2, <3>3 DEF TypeOK
  <2> QED
    BY <1>3, <2>1 DEF TypeOK, RejectAppendEntries
<1>4. ASSUME NEW m \in appendRequests, followLeader(i, m)
      PROVE  /\ appendRequests' \subseteq AppendRequest
             /\ currentTerm' \in [Node -> Nat]
             /\ votedFor' \in [Node -> Node \cup {None}]
             /\ state' \in [Node -> {"Follower", "Candidate", "Leader"}]
             /\ leaderID' \in [Node -> Node \cup {None}]
             /\ heartbeatC' \in [Node -> BOOLEAN]
  <2>1. m \in AppendRequest
    BY DEF TypeOK
  <2>2. m.term \in Nat /\ m.from \in Node
    BY <2>1 DEF AppendRequest
  <2>3. voteIn(i, m.term) \in Node \cup {None}
    BY DEF TypeOK, voteIn
  <2> QED
    BY <1>4, <2>2, <2>3 DEF followLeader, TypeOK
<1>5. ASSUME NEW m \in appendRequests
      PROVE  m.from \in Node /\ m.term \in Nat /\ UpdateID(members[i], m.from) \in VoterSets
  <2>1. m \in AppendRequest
    BY DEF TypeOK
  <2> QED
    BY <2>1, <1>0, VoterSetTypes DEF AppendRequest
<1>6. CASE MismatchAppendEntries(i)
  <2>1. PICK m \in appendRequests : MismatchAppendEntries(i)!(m)
    BY <1>6 DEF MismatchAppendEntries
  <2>2. members' \in [Node -> VoterSets]
    BY <2>1, <1>5 DEF TypeOK
  <2>3. appendResponses' \subseteq AppendResponse
    <3>1. lastIndex(log[i]) + 1 \in Nat /\ currentTerm[i] \in Nat
      BY <1>0, <1>5
    <3>2. replyTo(m, FALSE, currentTerm[i], lastIndex(log[i]) + 1) \in AppendResponse
      BY <3>1, <1>2
    <3>3. appendResponses' =
            appendResponses \cup {replyTo(m, FALSE, currentTerm[i], lastIndex(log[i]) + 1)}
      BY <2>1
    <3>4. appendResponses \subseteq AppendResponse
      BY DEF TypeOK
    <3> QED
      BY <3>2, <3>3, <3>4
  <2>4. UNCHANGED <<log, commitIndex, lastApplied, replicationVars, runVars,
                    voteMsgs, heartbeats, calls>>
    BY <2>1
  <2> QED
    BY <2>1, <2>2, <2>3, <2>4, <1>4 DEF TypeOK
<1>7. CASE AcceptAppendEntries(i)
  <2>1. PICK m \in appendRequests : AcceptAppendEntries(i)!(m)
    BY <1>7 DEF AcceptAppendEntries
  <2>2. m \in AppendRequest
    BY DEF TypeOK
  <2>3. logAfter(i, m) \in Seq(LogEntry)
    <3>1. m.prevLogIndex \in 0..Len(log[i])
      BY <2>1, <2>2, <1>0 DEF prevMatches, hasEntry, lastIndex, AppendRequest
    <3>2. append(log[i], m.prevLogIndex, m.entries) \in Seq(LogEntry)
      BY <3>1, <2>2, <1>0, LogTypes DEF AppendRequest
    <3> QED
      BY <3>2, <1>0 DEF logAfter
  <2>4. commitAfter(i, m) \in Nat
    <3>1. lastIndex(logAfter(i, m)) \in Nat /\ m.leaderCommit \in Nat
      BY <2>2, <2>3, LogTypes DEF AppendRequest
    <3> QED
      BY <3>1, <1>0, PairMaxMin DEF commitAfter
  <2>5. Max({lastApplied[i], commitAfter(i, m)}) \in Nat
    BY <2>4, <1>0, PairMaxMin
  <2>6. /\ log' \in [Node -> Seq(LogEntry)]
        /\ commitIndex' \in [Node -> Nat]
        /\ lastApplied' \in [Node -> Nat]
    BY <2>1, <2>3, <2>4, <2>5 DEF TypeOK
  <2>7. members' \in [Node -> VoterSets]
    BY <2>1, <1>5, VoterSetTypes DEF TypeOK
  <2>8. appendResponses' \subseteq AppendResponse
    <3>1. m.term \in Nat /\ 0 \in Nat
      BY <1>5
    <3>2. replyTo(m, TRUE, m.term, 0) \in AppendResponse
      BY <3>1, <1>2
    <3>3. appendResponses' = appendResponses \cup {replyTo(m, TRUE, m.term, 0)}
      BY <2>1
    <3>4. appendResponses \subseteq AppendResponse
      BY DEF TypeOK
    <3> QED
      BY <3>2, <3>3, <3>4
  <2>9. UNCHANGED <<replicationVars, runVars, voteMsgs, heartbeats, calls>>
    BY <2>1
  <2> QED
    BY <2>1, <2>6, <2>7, <2>8, <2>9, <1>4 DEF TypeOK
<1> QED
  BY <1>1, <1>3, <1>6, <1>7 DEF handlerStep

LEMMA RpcStepTypes ==
  ASSUME TypeOK, NEW i \in Node, rpcStep(i)
  PROVE  TypeOK'
<1> USE DEF electionVars, logVars, replicationVars, runVars, voteMsgs, appendMsgs, calls
<1>0. /\ log[i] \in Seq(LogEntry) /\ lastIndex(log[i]) \in Nat
      /\ members[i] \in VoterSets
      /\ commitIndex[i] \in Nat /\ lastApplied[i] \in Nat
      /\ nextIndex[i] \in [Node -> Nat] /\ matchIndex[i] \in [Node -> Nat]
  <2>1. log[i] \in Seq(LogEntry)
    BY DEF TypeOK
  <2> QED
    BY <2>1, LogTypes DEF TypeOK
<1>1. CASE VoteDenied(i)
  <2>1. PICK m \in voteResponses : VoteDenied(i)!(m)
    BY <1>1 DEF VoteDenied
  <2>2. m.term \in Nat
    BY DEF TypeOK, VoteResponse
  <2>3. /\ currentTerm' \in [Node -> Nat]
        /\ state' \in [Node -> {"Follower", "Candidate", "Leader"}]
        /\ votedFor' \in [Node -> Node \cup {None}]
        /\ voteResponses' \subseteq VoteResponse
    BY <2>1, <2>2 DEF TypeOK, stepDown
  <2> QED
    BY <2>1, <2>3 DEF TypeOK
<1>2. CASE buildRequest(i)
  <2>1. CASE ReadNextIndex(i)
    <3>1. PICK h \in heartbeats : ReadNextIndex(i)!(h)
      BY <2>1 DEF ReadNextIndex
    <3>2. h \in Heartbeat
      BY DEF TypeOK
    <3> DEFINE next == nextFor(i, AddrOf(h.peer))
    <3>3. AddrOf(h.peer) \in Node
      BY <3>2, KeyFacts DEF Heartbeat
    <3>4. next \in Nat \ {0}
      BY <3>3, <1>0 DEF nextFor
    <3>5. nextIndex' \in [Node -> [Node -> Nat]]
      BY <3>1, <3>3, <3>4 DEF TypeOK
    <3>6. heartbeats' \subseteq Heartbeat
      <4>1. ASSUME NEW n \in Nat \ {0}
            PROVE  [h EXCEPT !.stage = "indexed", !.nextIdx = n] \in Heartbeat
        <5> DEFINE g == [h EXCEPT !.stage = "indexed", !.nextIdx = n]
        <5>1. h \in [from : Node, peer : MemberKey, slot : Slot, term : Nat, leaderCommit : Nat,
                     stage : {"started", "indexed", "read"}, nextIdx : Nat, prevLogTerm : Nat]
          BY <3>2 DEF Heartbeat
        <5>2. g \in [from : Node, peer : MemberKey, slot : Slot, term : Nat, leaderCommit : Nat,
                     stage : {"started", "indexed", "read"}, nextIdx : Nat, prevLogTerm : Nat]
          BY <5>1
        <5>3. g.nextIdx = n
          BY <5>1
        <5> HIDE DEF g
        <5>4. g \in Heartbeat
          BY <5>2, <5>3 DEF Heartbeat
        <5> QED
          BY <5>4 DEF g
      <4> QED
        BY <3>1, <3>4, <4>1 DEF TypeOK
    <3>7. UNCHANGED <<electionVars, logVars, matchIndex, pendingPromotion, heartbeatC,
                      runVars, voteMsgs, appendRequests, appendResponses, calls>>
      BY <3>1
    <3> QED
      BY <3>5, <3>6, <3>7 DEF TypeOK
  <2>2. CASE ReadPrevious(i)
    <3>1. PICK h \in heartbeats : ReadPrevious(i)!(h)
      BY <2>2 DEF ReadPrevious
    <3>2. h \in Heartbeat /\ h.stage = "indexed"
      BY <3>1 DEF TypeOK
    <3>3. h.nextIdx - 1 \in Nat
      BY <3>2 DEF Heartbeat
    <3>4. termAt(log[i], h.nextIdx - 1) \in Nat
      BY <3>3, <1>0, LogTypes
    <3>5. heartbeats' \subseteq Heartbeat
      <4>1. [h EXCEPT !.stage = "read", !.prevLogTerm = termAt(log[i], h.nextIdx - 1)] \in Heartbeat
        BY <3>2, <3>4 DEF Heartbeat
      <4> QED
        BY <3>1, <4>1 DEF TypeOK
    <3>6. UNCHANGED <<electionVars, logVars, replicationVars, heartbeatC,
                      runVars, voteMsgs, appendRequests, appendResponses, calls>>
      BY <3>1
    <3> QED
      BY <3>5, <3>6 DEF TypeOK
  <2>3. CASE PrepareAppend(i)
    <3>1. PICK h \in heartbeats : PrepareAppend(i)!(h)
      BY <2>3 DEF PrepareAppend
    <3>2. h \in Heartbeat /\ h.stage = "read"
      BY <3>1 DEF TypeOK
    <3>3. h.nextIdx \in Nat \ {0} /\ h.nextIdx - 1 \in Nat
      BY <3>2 DEF Heartbeat
    <3>4. entriesFrom(log[i], h.nextIdx) \in Seq(LogEntry)
      BY <3>3, <1>0, LogTypes
    <3>5. appendRequests' \subseteq AppendRequest
      BY <3>1, <3>2, <3>3, <3>4 DEF TypeOK, Heartbeat, AppendRequest
    <3>6. heartbeats' \subseteq Heartbeat
      BY <3>1 DEF TypeOK
    <3>7. UNCHANGED <<electionVars, logVars, replicationVars, heartbeatC,
                      runVars, voteMsgs, appendResponses, calls>>
      BY <3>1
    <3> QED
      BY <3>5, <3>6, <3>7 DEF TypeOK
  <2> QED
    BY <1>2, <2>1, <2>2, <2>3 DEF buildRequest
<1>3. CASE RpcFails(i)
  BY <1>3 DEF TypeOK, RpcFails
<1>4. CASE ResponseStepDown(i)
  <2>1. PICK m \in appendResponses : ResponseStepDown(i)!(m)
    BY <1>4 DEF ResponseStepDown
  <2>2. m.term \in Nat
    BY DEF TypeOK, AppendResponse
  <2>3. /\ currentTerm' \in [Node -> Nat]
        /\ state' \in [Node -> {"Follower", "Candidate", "Leader"}]
        /\ votedFor' \in [Node -> Node \cup {None}]
        /\ appendResponses' \subseteq AppendResponse
    BY <2>1, <2>2 DEF TypeOK, stepDown, takeResponse
  <2> QED
    BY <2>1, <2>3 DEF TypeOK
<1>5. CASE ResponseSuccess(i)
  <2>1. PICK m \in appendResponses : ResponseSuccess(i)!(m)
    BY <1>5 DEF ResponseSuccess
  <2>2. m \in AppendResponse
    BY DEF TypeOK
  <2> DEFINE addr == AddrOf(m.peer)
             mi == [matchIndex[i] EXCEPT ![addr] = m.match]
             c == Max({commitIndex[i]} \cup replicated(i, mi))
  <2>3. addr \in Node /\ m.match \in Nat /\ m.match + 1 \in Nat
    BY <2>2, KeyFacts DEF AppendResponse
  <2>4. c \in Nat
    <3> DEFINE b == commitIndex[i] + lastIndex(log[i])
    <3>1. b \in Nat /\ commitIndex[i] <= b /\ lastIndex(log[i]) <= b
      BY <1>0
    <3> HIDE DEF b
    <3>2. {commitIndex[i]} \cup replicated(i, mi) \subseteq 0..b
      BY <3>1, <1>0 DEF replicated
    <3>3. Max({commitIndex[i]} \cup replicated(i, mi)) \in 0..b
      <4> DEFINE S == {commitIndex[i]} \cup replicated(i, mi)
      <4>1. S # {} /\ S \subseteq 0..b
        BY <3>2
      <4> HIDE DEF S
      <4>2. Max(S) \in S
        BY <3>1, <4>1, MaxIsGreatest
      <4>3. Max(S) \in 0..b
        BY <4>1, <4>2
      <4> QED
        BY <4>3 DEF S
    <3> QED
      BY <3>1, <3>3
  <2>5. Max({lastApplied[i], c}) \in Nat
    BY <2>4, <1>0, PairMaxMin
  <2>6. matchIndex' \in [Node -> [Node -> Nat]]
    <3>1. mi \in [Node -> Nat]
      BY <2>3, <1>0
    <3>2. matchIndex' = [matchIndex EXCEPT ![i] = mi]
      BY <2>1
    <3> QED
      BY <3>1, <3>2 DEF TypeOK
  <2>7. nextIndex' \in [Node -> [Node -> Nat]]
    BY <2>1, <2>3 DEF TypeOK
  <2>8. commitIndex' \in [Node -> Nat] /\ lastApplied' \in [Node -> Nat]
    <3>1. /\ commitIndex' = [commitIndex EXCEPT ![i] = c]
          /\ lastApplied' = [lastApplied EXCEPT ![i] = Max({@, c})]
      BY <2>1
    <3> HIDE DEF c
    <3> QED
      BY <2>4, <2>5, <3>1 DEF TypeOK
  <2>9. members' \in [Node -> VoterSets]
    <3>1. members' = [members EXCEPT ![i] = applyMembership(@, log[i], lastApplied[i], c)]
      BY <2>1
    <3> HIDE DEF c
    <3> QED
      BY <3>1, <1>0, VoterSetTypes DEF TypeOK
  <2>10. /\ state' \in [Node -> {"Follower", "Candidate", "Leader"}]
         /\ appendResponses' \subseteq AppendResponse
    <3>1. /\ state' \in {[state EXCEPT ![i] = "Follower"], state}
          /\ appendResponses' \subseteq appendResponses
      BY <2>1 DEF takeResponse, TypeOK
    <3> QED
      BY <3>1 DEF TypeOK
  <2>11. UNCHANGED <<currentTerm, votedFor, leaderID, log, pendingPromotion, heartbeatC,
                     runVars, voteMsgs, heartbeats, appendRequests, calls>>
    BY <2>1
  <2> QED
    BY <2>6, <2>7, <2>8, <2>9, <2>10, <2>11 DEF TypeOK
<1>6. CASE ResponseBackoff(i)
  <2>1. PICK m \in appendResponses : ResponseBackoff(i)!(m)
    BY <1>6 DEF ResponseBackoff
  <2>2. m \in AppendResponse
    BY DEF TypeOK
  <2>3. AddrOf(m.peer) \in Node /\ m.nextIndex \in Nat
    BY <2>2, KeyFacts DEF AppendResponse
  <2>4. backoff(nextIndex[i][AddrOf(m.peer)], m.nextIndex) \in Nat
    BY <2>3, <1>0 DEF backoff
  <2>5. nextIndex' \in [Node -> [Node -> Nat]]
    BY <2>1, <2>3, <2>4 DEF TypeOK
  <2>6. appendResponses' \subseteq AppendResponse
    BY <2>1 DEF TypeOK, takeResponse
  <2>7. UNCHANGED <<electionVars, logVars, matchIndex, pendingPromotion, heartbeatC,
                    runVars, voteMsgs, heartbeats, appendRequests, calls>>
    BY <2>1
  <2> QED
    BY <2>5, <2>6, <2>7 DEF TypeOK
<1> QED
  BY <1>1, <1>2, <1>3, <1>4, <1>5, <1>6 DEF rpcStep

LEMMA AdminStepTypes ==
  ASSUME TypeOK, NEW i \in Node, adminStep(i)
  PROVE  TypeOK'
<1> USE DEF electionVars, logVars, replicationVars, runVars, voteMsgs, appendMsgs, calls
<1>0. /\ log[i] \in Seq(LogEntry) /\ lastIndex(log[i]) + 1 \in Nat
      /\ members[i] \in VoterSets
  <2>1. log[i] \in Seq(LogEntry)
    BY DEF TypeOK
  <2>2. lastIndex(log[i]) \in Nat
    BY <2>1, LogTypes
  <2> QED
    BY <2>1, <2>2 DEF TypeOK
<1>1. CASE JoinAsObserver(i)
  <2>1. PICK j \in Node : JoinAsObserver(i)!(j)
    BY <1>1 DEF JoinAsObserver
  <2>2. [node |-> i, joiner |-> j, stage |-> "checked"] \in Join
    BY DEF Join
  <2> QED
    BY <2>1, <2>2 DEF TypeOK
<1>1a. CASE JoinAddObserver(i)
  <2>1. PICK c \in joins : JoinAddObserver(i)!(c)
    BY <1>1a DEF JoinAddObserver
  <2>2. c.joiner \in Node /\ [c EXCEPT !.stage = "added"] \in Join
    BY DEF TypeOK, Join
  <2>3. members' \in [Node -> VoterSets]
    BY <2>1, <2>2, <1>0, VoterSetTypes, KeyFacts DEF TypeOK
  <2> QED
    BY <2>1, <2>2, <2>3 DEF TypeOK
<1>1b. CASE JoinResetIndexes(i)
  <2>1. PICK c \in joins : JoinResetIndexes(i)!(c)
    BY <1>1b DEF JoinResetIndexes
  <2>2. c.joiner \in Node
    BY DEF TypeOK, Join
  <2>3. nextIndex' \in [Node -> [Node -> Nat]] /\ matchIndex' \in [Node -> [Node -> Nat]]
    BY <2>1, <2>2, <1>0 DEF TypeOK
  <2> QED
    BY <2>1, <2>3 DEF TypeOK
<1>2. CASE AdminCall(i)
  <2>1. ops' \subseteq Op
    <3>1. PICK mc \in AdminOps : AdminCall(i)!(mc)
      BY <1>2 DEF AdminCall
    <3>2. [node |-> i, mc |-> mc, auto |-> FALSE, stage |-> "checked", idx |-> 0] \in Op
      BY OptionAssumption DEF Op
    <3> QED
      BY <3>1, <3>2 DEF TypeOK
  <2> QED
    BY <1>2, <2>1 DEF TypeOK, AdminCall
<1>3. CASE AutoPromoteCall(i)
  <2>1. ops' \subseteq Op
    BY <1>3 DEF TypeOK, AutoPromoteCall, Op
  <2> QED
    BY <1>3, <2>1 DEF TypeOK, AutoPromoteCall
<1>4. CASE AppendAndWait(i)
  <2>1. PICK op \in ops : AppendAndWait(i)!(op)
    BY <1>4 DEF AppendAndWait
  <2>2. op \in Op
    BY DEF TypeOK
  <2>3. [term |-> currentTerm[i], mc |-> op.mc] \in LogEntry
    BY <2>2 DEF LogEntry, Op, TypeOK
  <2>4. log' \in [Node -> Seq(LogEntry)]
    BY <2>1, <2>3, <1>0, LogTypes DEF TypeOK
  <2>5. ops' \subseteq Op
    BY <2>1, <2>2, <1>0 DEF Op, TypeOK
  <2> QED
    BY <2>1, <2>4, <2>5 DEF TypeOK
<1>5. CASE AdminSucceeds(i)
  BY <1>5 DEF TypeOK, AdminSucceeds
<1>6. CASE AdminFails(i)
  <2>1. pendingPromotion' \in [Node -> SUBSET MemberKey]
    BY <1>6 DEF TypeOK, AdminFails
  <2> QED
    BY <1>6, <2>1 DEF TypeOK, AdminFails
<1> QED
  BY <1>1, <1>1a, <1>1b, <1>2, <1>3, <1>4, <1>5, <1>6 DEF adminStep

LEMMA NextTypeOK == TypeOK /\ [Next]_vars => TypeOK'
<1> SUFFICES ASSUME TypeOK, [Next]_vars PROVE TypeOK'
  OBVIOUS
<1>1. CASE Next
  BY <1>1, RunStepTypes, HandlerStepTypes, RpcStepTypes, AdminStepTypes DEF Next
<1>2. CASE UNCHANGED vars
  BY <1>2 DEF TypeOK, vars, electionVars, logVars, replicationVars, runVars,
              voteMsgs, appendMsgs, calls
<1> QED
  BY <1>1, <1>2

\* No action of NewNode, run(), the handlers, the RPC goroutines or the
\* administrator's calls takes a variable out of its type; in particular no
\* index and no term, all unsigned in the code, is ever decremented below zero.
THEOREM TypeCorrect == Spec => []TypeOK
<1>1. Init => TypeOK
  BY InitTypeOK
<1>2. TypeOK /\ [Next]_vars => TypeOK'
  BY NextTypeOK
<1> QED
  BY <1>1, <1>2, PTL DEF Spec

-----------------------------------------------------------------------------
(* One vote per term                                                       *)

\* OneVotePerTerm is not inductive: that a voter gives no second vote of a term
\* rests on its remembering the first one for as long as it is in that term.
VoteRemembered ==
  \A v, c \in Node : \A t \in Nat :
    Granted(v, t, c) => /\ t <= currentTerm[v]
                        /\ t = currentTerm[v] => votedFor[v] = c

VoteUnique ==
  \A v, c1, c2 \in Node : \A t \in Nat :
    Granted(v, t, c1) /\ Granted(v, t, c2) => c1 = c2

VoteInv == VoteRemembered /\ VoteUnique

\* What a step may do to terms and votes: a term never decreases, and within a
\* term a vote is not taken back.
TermsAdvance ==
  \A v \in Node :
    /\ currentTerm[v] <= currentTerm'[v]
    /\ currentTerm[v] = currentTerm'[v] => votedFor[v] \in {None, votedFor'[v]}

LEMMA TermOfOne ==
  ASSUME TypeOK, NEW i \in Node, NEW t \in Nat, NEW w, t >= currentTerm[i],
         currentTerm' = [currentTerm EXCEPT ![i] = t],
         votedFor' = [votedFor EXCEPT ![i] = w],
         t = currentTerm[i] => votedFor[i] \in {None, w}
  PROVE  TermsAdvance
<1>1. \A v \in Node : currentTerm[v] \in Nat
  BY DEF TypeOK
<1>2. currentTerm'[i] = t /\ votedFor'[i] = w
  BY DEF TypeOK
<1>3. \A v \in Node \ {i} : currentTerm'[v] = currentTerm[v] /\ votedFor'[v] = votedFor[v]
  BY DEF TypeOK
<1> QED
  BY <1>1, <1>2, <1>3 DEF TermsAdvance

LEMMA NoNewVote ==
  ASSUME TypeOK, VoteInv, TermsAdvance, TypeOK',
         \A v, c \in Node : \A t \in Nat : Granted(v, t, c)' => Granted(v, t, c)
  PROVE  VoteInv'
<1>1. VoteRemembered'
  <2> SUFFICES ASSUME NEW v \in Node, NEW c \in Node, NEW t \in Nat, Granted(v, t, c)'
               PROVE  /\ t <= currentTerm'[v]
                      /\ t = currentTerm'[v] => votedFor'[v] = c
    BY DEF VoteRemembered
  <2>1. t <= currentTerm[v] /\ (t = currentTerm[v] => votedFor[v] = c)
    BY DEF VoteInv, VoteRemembered
  <2>2. currentTerm[v] \in Nat /\ currentTerm'[v] \in Nat /\ c # None
    BY NodeAssumption DEF TypeOK
  <2> QED
    BY <2>1, <2>2 DEF TermsAdvance
<1>2. VoteUnique'
  BY DEF VoteInv, VoteUnique
<1> QED
  BY <1>1, <1>2 DEF VoteInv

LEMMA OneNewVote ==
  ASSUME TypeOK, VoteInv, TermsAdvance, TypeOK',
         NEW w \in Node, NEW d \in Node,
         votedFor'[w] = d,
         \A c \in Node : Granted(w, currentTerm'[w], c) => c = d,
         \A v, c \in Node : \A t \in Nat :
           Granted(v, t, c)' => Granted(v, t, c) \/ (v = w /\ t = currentTerm'[w] /\ c = d)
  PROVE  VoteInv'
<1>0. \A v \in Node : currentTerm[v] \in Nat /\ currentTerm'[v] \in Nat
  BY DEF TypeOK
<1>1. VoteRemembered'
  <2> SUFFICES ASSUME NEW v \in Node, NEW c \in Node, NEW t \in Nat, Granted(v, t, c)'
               PROVE  /\ t <= currentTerm'[v]
                      /\ t = currentTerm'[v] => votedFor'[v] = c
    BY DEF VoteRemembered
  <2>1. CASE Granted(v, t, c)
    <3>1. t <= currentTerm[v] /\ (t = currentTerm[v] => votedFor[v] = c)
      BY <2>1 DEF VoteInv, VoteRemembered
    <3>2. c # None
      BY NodeAssumption
    <3> QED
      BY <1>0, <3>1, <3>2 DEF TermsAdvance
  <2>2. CASE v = w /\ t = currentTerm'[w] /\ c = d
    BY <2>2, <1>0
  <2> QED
    BY <2>1, <2>2
<1>2. VoteUnique'
  <2> SUFFICES ASSUME NEW v \in Node, NEW c1 \in Node, NEW c2 \in Node, NEW t \in Nat,
                      Granted(v, t, c1)', Granted(v, t, c2)'
               PROVE  c1 = c2
    BY DEF VoteUnique
  <2>1. CASE Granted(v, t, c1) /\ Granted(v, t, c2)
    BY <2>1 DEF VoteInv, VoteUnique
  <2>2. CASE v = w /\ t = currentTerm'[w]
    BY <2>2
  <2> QED
    BY <2>1, <2>2
<1> QED
  BY <1>1, <1>2 DEF VoteInv

\* Steps that send no vote, end elections or leave them alone.
LEMMA VotesOnlyLost ==
  ASSUME TypeOK, voteResponses' \subseteq voteResponses,
         \A c \in Node : campaign'[c] \in {campaign[c], NoCampaign}
  PROVE  \A v, c \in Node : \A t \in Nat : Granted(v, t, c)' => Granted(v, t, c)
  BY DEF Granted, NoCampaign

LEMMA TermsNeverBack ==
  ASSUME TypeOK, TypeOK', [Next]_vars
  PROVE  TermsAdvance
<1> USE DEF electionVars, logVars, replicationVars, runVars, voteMsgs, appendMsgs, calls
<1>0. \A v \in Node : currentTerm[v] \in Nat /\ currentTerm'[v] \in Nat
  BY DEF TypeOK
<1>1. ASSUME UNCHANGED <<currentTerm, votedFor>> PROVE TermsAdvance
  BY <1>0, <1>1 DEF TermsAdvance
<1>2. ASSUME NEW i \in Node, NEW t \in Nat, t > currentTerm[i], stepDown(i, t)
      PROVE  TermsAdvance
  <2>1. t >= currentTerm[i] /\ t # currentTerm[i]
    BY <1>0, <1>2
  <2> QED
    BY <1>2, <2>1, TermOfOne DEF stepDown
<1>3. ASSUME NEW i \in Node, NEW m \in appendRequests, followLeader(i, m)
      PROVE  TermsAdvance
  <2>1. m.term \in Nat
    BY DEF TypeOK, AppendRequest
  <2>2. m.term = currentTerm[i] => voteIn(i, m.term) = votedFor[i]
    BY <1>0 DEF voteIn
  <2> QED
    BY <1>3, <2>1, <2>2, TermOfOne DEF followLeader
<1>4. ASSUME NEW i \in Node, handleVoteRequest(i) PROVE TermsAdvance
  <2>1. PICK m \in voteRequests : handleVoteRequest(i)!(m)
    BY <1>4 DEF handleVoteRequest
  <2>2. m.term \in Nat
    BY DEF TypeOK, VoteRequest
  <2> DEFINE granted == /\ m.term >= currentTerm[i]
                        /\ ~alreadyVoted(i, m)
                        /\ logOK(i, m)
             t == IF m.term > currentTerm[i] THEN m.term ELSE currentTerm[i]
             w == IF granted THEN m.from ELSE voteIn(i, m.term)
  <2>3. t \in Nat /\ t >= currentTerm[i]
    BY <1>0, <2>2
  <2>4. t = currentTerm[i] => votedFor[i] \in {None, w}
    BY <1>0, <2>2 DEF alreadyVoted, voteIn
  <2>5. currentTerm' = [currentTerm EXCEPT ![i] = t]
    BY <2>1
  <2>6. votedFor' = [votedFor EXCEPT ![i] = w]
    BY <2>1
  <2> HIDE DEF t, w
  <2> QED
    BY <2>3, <2>4, <2>5, <2>6, TermOfOne
<1>5. ASSUME NEW i \in Node, StartElection(i) PROVE TermsAdvance
  <2> DEFINE t == currentTerm[i] + 1
  <2>1. t \in Nat /\ t >= currentTerm[i] /\ t # currentTerm[i]
    BY <1>0
  <2>2. /\ currentTerm' = [currentTerm EXCEPT ![i] = t]
        /\ votedFor' = [votedFor EXCEPT ![i] = i]
    BY <1>5 DEF StartElection
  <2> HIDE DEF t
  <2> QED
    BY <2>1, <2>2, TermOfOne
<1>6. ASSUME NEW i \in Node, runStep(i) PROVE TermsAdvance
  BY <1>1, <1>5, <1>6 DEF runStep, FollowerTimeout, BecomeCandidate, ResetElectionTimer, ReturnToFollower,
         RequestVotes, ElectionTimeout, CandidateHeartbeat, ReceiveVote,
         FirstBroadcast, LeaderTick
<1>7. ASSUME NEW i \in Node, handlerStep(i) PROVE TermsAdvance
  BY <1>1, <1>3, <1>4, <1>7 DEF handlerStep, RejectAppendEntries,
         MismatchAppendEntries, AcceptAppendEntries
<1>8. ASSUME NEW i \in Node, rpcStep(i) PROVE TermsAdvance
  <2>1. CASE VoteDenied(i)
    BY <1>2, <2>1 DEF VoteDenied, TypeOK, VoteResponse
  <2>2. CASE ResponseStepDown(i)
    BY <1>2, <2>2 DEF ResponseStepDown, TypeOK, AppendResponse
  <2> QED
    BY <1>1, <1>8, <2>1, <2>2 DEF rpcStep, buildRequest, ReadNextIndex, ReadPrevious, PrepareAppend, RpcFails,
           ResponseSuccess, ResponseBackoff
<1>9. ASSUME NEW i \in Node, adminStep(i) PROVE TermsAdvance
  BY <1>1, <1>9 DEF adminStep, JoinAsObserver, JoinAddObserver, JoinResetIndexes, AdminCall, AutoPromoteCall,
         AppendAndWait, AdminSucceeds, AdminFails
<1>10. CASE UNCHANGED vars
  BY <1>1, <1>10 DEF vars
<1> QED
  BY <1>6, <1>7, <1>8, <1>9, <1>10 DEF Next

LEMMA VoteInvStep == TypeOK /\ TypeOK' /\ VoteInv /\ [Next]_vars => VoteInv'
<1> SUFFICES ASSUME TypeOK, TypeOK', VoteInv, [Next]_vars PROVE VoteInv'
  OBVIOUS
<1> USE DEF electionVars, logVars, replicationVars, runVars, voteMsgs, appendMsgs, calls
<1>0. /\ \A v \in Node : currentTerm[v] \in Nat /\ currentTerm'[v] \in Nat
      /\ TermsAdvance
  BY TermsNeverBack DEF TypeOK
<1>1. ASSUME NEW i \in Node, handleVoteRequest(i) PROVE VoteInv'
  <2>1. PICK m \in voteRequests : handleVoteRequest(i)!(m)
    BY <1>1 DEF handleVoteRequest
  <2>2. m.term \in Nat /\ m.from \in Node /\ m.peer \in MemberKey /\ AddrOf(m.peer) = i
    BY <2>1 DEF TypeOK, VoteRequest
  <2> DEFINE granted == /\ m.term >= currentTerm[i]
                        /\ ~alreadyVoted(i, m)
                        /\ logOK(i, m)
  <2>3. campaign' = campaign
    BY <2>1
  <2>4. CASE granted
    <3>1. currentTerm'[i] = m.term /\ votedFor'[i] = m.from
      BY <1>0, <2>1, <2>2, <2>4 DEF TypeOK
    <3>2. voteResponses' \subseteq voteResponses \cup
            {[to |-> m.from, peer |-> m.peer, granted |-> TRUE, term |-> m.term]}
      BY <2>1, <2>4
    <3>3. ASSUME NEW v \in Node, NEW c \in Node, NEW t \in Nat, Granted(v, t, c)'
          PROVE  Granted(v, t, c) \/ (v = i /\ t = currentTerm'[i] /\ c = m.from)
      BY <2>2, <2>3, <3>1, <3>2, <3>3 DEF Granted
    <3>4. ASSUME NEW c \in Node, Granted(i, currentTerm'[i], c) PROVE c = m.from
      <4>1. m.term <= currentTerm[i] /\ (m.term = currentTerm[i] => votedFor[i] = c)
        BY <3>1, <3>4, <2>2 DEF VoteInv, VoteRemembered
      <4>2. votedFor[i] = c /\ voteIn(i, m.term) = c
        BY <4>1, <2>4, <2>2, <1>0 DEF voteIn
      <4> QED
        BY <4>2, <2>4, NodeAssumption DEF alreadyVoted
    <3> QED
      BY <1>0, <2>2, <3>1, <3>3, <3>4, OneNewVote
  <2>5. CASE ~granted
    <3>1. voteResponses' \subseteq voteResponses \cup
            {[to |-> m.from, peer |-> m.peer, granted |-> FALSE, term |-> currentTerm[i]]}
      BY <2>1, <2>5
    <3>2. \A v, c \in Node : \A t \in Nat : Granted(v, t, c)' => Granted(v, t, c)
      BY <2>3, <3>1 DEF Granted
    <3> QED
      BY <1>0, <3>2, NoNewVote
  <2> QED
    BY <2>4, <2>5
<1>2. ASSUME NEW i \in Node, StartElection(i) PROVE VoteInv'
  <2>1. /\ currentTerm'[i] = currentTerm[i] + 1 /\ votedFor'[i] = i
        /\ voteResponses' = voteResponses
        /\ \A c \in Node \ {i} : campaign'[c] = campaign[c]
        /\ campaign'[i].term = currentTerm[i] + 1
        /\ campaign'[i].votes = {ID(i)}
    BY <1>2 DEF StartElection, TypeOK
  <2>2. \A c \in Node : Granted(i, currentTerm'[i], c) => c = i
    BY <1>0, <2>1 DEF VoteInv, VoteRemembered
  <2>3. ASSUME NEW v \in Node, NEW c \in Node, NEW t \in Nat, Granted(v, t, c)'
        PROVE  Granted(v, t, c) \/ (v = i /\ t = currentTerm'[i] /\ c = i)
    BY <2>1, <2>3, KeyFacts DEF Granted
  <2> QED
    BY <1>0, <2>1, <2>2, <2>3, OneNewVote
<1>3. ASSUME NEW i \in Node, ReceiveVote(i) PROVE VoteInv'
  <2>1. PICK m \in voteResponses : ReceiveVote(i)!(m)
    BY <1>3 DEF ReceiveVote
  <2>2. /\ voteResponses' \subseteq voteResponses
        /\ \A c \in Node \ {i} : campaign'[c] = campaign[c]
        /\ campaign'[i].term = campaign[i].term
        /\ campaign'[i].votes = campaign[i].votes \cup {m.peer}
    BY <2>1 DEF TypeOK, Campaign
  <2>3. \A v, c \in Node : \A t \in Nat : Granted(v, t, c)' => Granted(v, t, c)
    BY <2>1, <2>2 DEF Granted
  <2> QED
    BY <1>0, <2>3, NoNewVote
<1>4. ASSUME NEW i \in Node, RequestVotes(i) PROVE VoteInv'
  <2>1. campaign' = [campaign EXCEPT ![i].needed = QuorumSize(members[i])]
    BY <1>4 DEF RequestVotes
  <2>2. campaign \in [Node -> Campaign]
    BY DEF TypeOK
  <2>3. \A c \in Node : /\ campaign'[c].term = campaign[c].term
                         /\ campaign'[c].votes = campaign[c].votes
    BY <2>1, <2>2 DEF Campaign
  <2>4. \A v, c \in Node : \A t \in Nat : Granted(v, t, c)' => Granted(v, t, c)
    BY <1>4, <2>3 DEF Granted, RequestVotes
  <2> QED
    BY <1>0, <2>4, NoNewVote
<1>5. ASSUME voteResponses' \subseteq voteResponses,
             \A c \in Node : campaign'[c] \in {campaign[c], NoCampaign}
      PROVE  VoteInv'
  BY <1>0, <1>5, VotesOnlyLost, NoNewVote
<1>6. ASSUME NEW i \in Node, runStep(i) PROVE VoteInv'
  <2>1. CASE FollowerTimeout(i) \/ BecomeCandidate(i) \/ ResetElectionTimer(i) \/ FirstBroadcast(i)
    BY <2>1, <1>5 DEF FollowerTimeout, BecomeCandidate, ResetElectionTimer, FirstBroadcast
  <2>2. CASE ReturnToFollower(i)
    BY <2>2, <1>5 DEF ReturnToFollower, TypeOK
  <2>3. CASE ElectionTimeout(i)
    BY <2>3, <1>5 DEF ElectionTimeout, TypeOK
  <2>4. CASE CandidateHeartbeat(i)
    BY <2>4, <1>5 DEF CandidateHeartbeat, TypeOK
  <2>5. CASE LeaderTick(i)
    <3>1. \A c \in Node : campaign'[c] \in {campaign[c], NoCampaign}
      BY <2>5 DEF LeaderTick, TypeOK
    <3> QED
      BY <2>5, <3>1, <1>5 DEF LeaderTick
  <2> QED
    BY <1>2, <1>3, <1>4, <1>6, <2>1, <2>2, <2>3, <2>4, <2>5 DEF runStep
<1>7. ASSUME NEW i \in Node, handlerStep(i) PROVE VoteInv'
  BY <1>1, <1>5, <1>7 DEF handlerStep, RejectAppendEntries,
         MismatchAppendEntries, AcceptAppendEntries
<1>8. ASSUME NEW i \in Node, rpcStep(i) PROVE VoteInv'
  BY <1>5, <1>8 DEF rpcStep, VoteDenied, buildRequest, ReadNextIndex, ReadPrevious, PrepareAppend, RpcFails,
         ResponseStepDown, ResponseSuccess, ResponseBackoff
<1>9. ASSUME NEW i \in Node, adminStep(i) PROVE VoteInv'
  BY <1>5, <1>9 DEF adminStep, JoinAsObserver, JoinAddObserver, JoinResetIndexes, AdminCall, AutoPromoteCall,
         AppendAndWait, AdminSucceeds, AdminFails
<1>10. CASE UNCHANGED vars
  BY <1>5, <1>10 DEF vars
<1> QED
  BY <1>6, <1>7, <1>8, <1>9, <1>10 DEF Next

\* In both modes, for any number of nodes: a node's vote of one term goes to one
\* candidate only.  Messages may be delayed, reordered and lost; nodes keep
\* their state (the code does not persist it over a restart).
THEOREM VotesUnique == Spec => []OneVotePerTerm
<1>1. Init => VoteInv
  BY DEF Init, VoteInv, VoteRemembered, VoteUnique, Granted, NoCampaign
<1>2. VoteInv => OneVotePerTerm
  BY BoundAssumption DEF VoteInv, VoteUnique, OneVotePerTerm
<1> QED
  BY <1>1, <1>2, VoteInvStep, TypeCorrect, PTL DEF Spec

-----------------------------------------------------------------------------
(* Who votes changes by the log only                                       *)

\* Only voters are ever filed under their address: peers of the configuration
\* and added voters.  Were an observer filed so, UpdateID would put it in the
\* place of a voter.
PlaceholdersVote == \A i, n \in Node : members[i][Placeholder(n)] # "observer"

LEMMA RenamedVotersStay ==
  ASSUME NEW v \in VoterSets, NEW n \in Node, v[Placeholder(n)] # "observer"
  PROVE  VoterAddrs(UpdateID(v, n)) = VoterAddrs(v)
<1>1. CASE v[Placeholder(n)] = "none"
  BY <1>1 DEF UpdateID
<1>2. CASE v[Placeholder(n)] = "voter"
  <2> DEFINE u == UpdateID(v, n)
  <2>1. /\ u[Placeholder(n)] = "none"
        /\ u[ID(n)] = "voter"
        /\ \A k \in MemberKey \ {ID(n), Placeholder(n)} : u[k] = v[k]
    BY <1>2, KeyFacts DEF UpdateID, VoterSets
  <2> HIDE DEF u
  <2>2. \A a : a \in VoterAddrs(u) => a \in VoterAddrs(v)
    BY <1>2, <2>1, KeyFacts DEF VoterAddrs, VoterKeys
  <2>3. \A a : a \in VoterAddrs(v) => a \in VoterAddrs(u)
    BY <1>2, <2>1, KeyFacts DEF VoterAddrs, VoterKeys
  <2> QED
    BY <2>2, <2>3 DEF u
<1> QED
  BY <1>1, <1>2 DEF VoterSets, NodeState, MemberKey, Placeholder

LEMMA JoinedVotersStay ==
  ASSUME NEW v \in VoterSets, NEW k \in MemberKey
  PROVE  VoterAddrs(AddObserver(v, k)) = VoterAddrs(v)
<1>1. VoterKeys(AddObserver(v, k)) = VoterKeys(v)
  BY DEF AddObserver, VoterKeys, VoterSets
<1> QED
  BY <1>1 DEF VoterAddrs

LEMMA NothingApplied ==
  ASSUME NEW v \in VoterSets, NEW l, NEW applied \in Nat, NEW c \in Nat, c <= applied
  PROVE  applyMembership(v, l, applied, c) = v
<1>1. newlyApplied(l, applied, c) = {}
  BY DEF newlyApplied
<1> QED
  BY <1>1 DEF applyMembership, VoterSets

LEMMA PlaceholdersKept ==
  ASSUME NEW v \in VoterSets, \A n \in Node : v[Placeholder(n)] # "observer"
  PROVE  /\ \A n, m \in Node : UpdateID(v, m)[Placeholder(n)] # "observer"
         /\ \A n, j \in Node : AddObserver(v, ID(j))[Placeholder(n)] # "observer"
         /\ \A l, applied, c : \A n \in Node :
              applyMembership(v, l, applied, c)[Placeholder(n)] # "observer"
<1>0. \A n, m \in Node : Placeholder(n) # ID(m) /\ Placeholder(n) \in MemberKey /\ ID(n) \in MemberKey
  BY DEF Placeholder, ID, MemberKey
<1>1. \A n, m \in Node : UpdateID(v, m)[Placeholder(n)] # "observer"
  BY <1>0 DEF UpdateID, VoterSets
<1>2. \A n, j \in Node : AddObserver(v, ID(j))[Placeholder(n)] # "observer"
  BY <1>0 DEF AddObserver, VoterSets
<1>3. ASSUME NEW l, NEW applied, NEW c, NEW n \in Node
      PROVE  applyMembership(v, l, applied, c)[Placeholder(n)] # "observer"
  BY <1>0 DEF applyMembership, AddVoter, Remove, VoterSets
<1> QED
  BY <1>1, <1>2, <1>3

\* What one step does to the VoterSet and to lastApplied of node i.
VoterStep(i) ==
  /\ \A n \in Node : members'[i][Placeholder(n)] # "observer"
  /\ VoterAddrs(members[i])' # VoterAddrs(members[i]) => lastApplied'[i] > lastApplied[i]

LEMMA VoterSteps ==
  ASSUME TypeOK, TypeOK', PlaceholdersVote, [Next]_vars, NEW i \in Node
  PROVE  VoterStep(i)
<1> USE DEF electionVars, logVars, replicationVars, runVars, voteMsgs, appendMsgs, calls
<1>0. /\ members[i] \in VoterSets /\ lastApplied[i] \in Nat /\ commitIndex[i] \in Nat
      /\ lastApplied'[i] \in Nat /\ commitIndex'[i] \in Nat
      /\ \A n \in Node : members[i][Placeholder(n)] # "observer"
  BY DEF TypeOK, PlaceholdersVote
<1>1. ASSUME members'[i] = members[i] PROVE VoterStep(i)
  BY <1>0, <1>1 DEF VoterStep, VoterAddrs, VoterKeys
<1>2. ASSUME NEW v \in VoterSets, NEW l,
             VoterAddrs(v) = VoterAddrs(members[i]),
             \A n \in Node : v[Placeholder(n)] # "observer",
             members'[i] = applyMembership(v, l, lastApplied[i], commitIndex'[i]),
             lastApplied'[i] = Max({lastApplied[i], commitIndex'[i]})
      PROVE  VoterStep(i)
  <2>1. \A n \in Node : members'[i][Placeholder(n)] # "observer"
    BY <1>2, PlaceholdersKept
  <2>2. CASE commitIndex'[i] <= lastApplied[i]
    <3>1. members'[i] = v
      BY <1>0, <1>2, <2>2, NothingApplied
    <3> QED
      BY <1>2, <2>1, <3>1 DEF VoterStep, VoterAddrs, VoterKeys
  <2>3. CASE commitIndex'[i] > lastApplied[i]
    <3>1. lastApplied'[i] > lastApplied[i]
      BY <1>0, <1>2, <2>3, PairMaxMin
    <3> QED
      BY <2>1, <3>1 DEF VoterStep
  <2> QED
    BY <1>0, <2>2, <2>3
<1>3. ASSUME NEW j \in Node, MismatchAppendEntries(j) PROVE VoterStep(i)
  <2>1. PICK m \in appendRequests : MismatchAppendEntries(j)!(m)
    BY <1>3 DEF MismatchAppendEntries
  <2>2. m.from \in Node
    BY DEF TypeOK, AppendRequest
  <2>3. CASE j = i
    <3>1. members'[i] = UpdateID(members[i], m.from)
      BY <2>1, <2>3 DEF TypeOK
    <3>2. VoterAddrs(UpdateID(members[i], m.from)) = VoterAddrs(members[i])
      BY <1>0, <2>2, RenamedVotersStay
    <3> QED
      BY <1>0, <2>2, <3>1, <3>2, PlaceholdersKept DEF VoterStep, VoterAddrs, VoterKeys
  <2>4. CASE j # i
    BY <2>1, <2>4, <1>1 DEF TypeOK
  <2> QED
    BY <2>3, <2>4
<1>4. ASSUME NEW j \in Node, AcceptAppendEntries(j) PROVE VoterStep(i)
  <2>1. PICK m \in appendRequests : AcceptAppendEntries(j)!(m)
    BY <1>4 DEF AcceptAppendEntries
  <2>2. m.from \in Node
    BY DEF TypeOK, AppendRequest
  <2>3. CASE j = i
    <3> DEFINE v == UpdateID(members[i], m.from)
               l == logAfter(i, m)
    <3>1. v \in VoterSets
      BY <1>0, <2>2, VoterSetTypes
    <3>2. VoterAddrs(v) = VoterAddrs(members[i])
      BY <1>0, <2>2, RenamedVotersStay
    <3>3. \A n \in Node : v[Placeholder(n)] # "observer"
      BY <1>0, <2>2, PlaceholdersKept
    <3>4. commitIndex'[i] = commitAfter(i, m)
      BY <2>1, <2>3 DEF TypeOK
    <3>5. members'[i] = applyMembership(v, l, lastApplied[i], commitAfter(i, m))
      BY <2>1, <2>3 DEF TypeOK
    <3>6. lastApplied'[i] = Max({lastApplied[i], commitAfter(i, m)})
      BY <2>1, <2>3 DEF TypeOK
    <3> HIDE DEF v, l
    <3> QED
      BY <1>2, <3>1, <3>2, <3>3, <3>4, <3>5, <3>6
  <2>4. CASE j # i
    BY <2>1, <2>4, <1>1 DEF TypeOK
  <2> QED
    BY <2>3, <2>4
<1>5. ASSUME NEW j \in Node, ResponseSuccess(j) PROVE VoterStep(i)
  <2>1. PICK m \in appendResponses : ResponseSuccess(j)!(m)
    BY <1>5 DEF ResponseSuccess
  <2>2. CASE j = i
    <3>1. members'[i] = applyMembership(members[i], log[i], lastApplied[i], commitIndex'[i])
      BY <2>1, <2>2 DEF TypeOK
    <3>2. lastApplied'[i] = Max({lastApplied[i], commitIndex'[i]})
      BY <2>1, <2>2 DEF TypeOK
    <3> QED
      BY <1>0, <1>2, <3>1, <3>2
  <2>3. CASE j # i
    BY <2>1, <2>3, <1>1 DEF TypeOK
  <2> QED
    BY <2>2, <2>3
<1>6. ASSUME NEW j \in Node, JoinAddObserver(j) PROVE VoterStep(i)
  <2>1. PICK c \in joins : JoinAddObserver(j)!(c)
    BY <1>6 DEF JoinAddObserver
  <2> DEFINE k == c.joiner
  <2>0. k \in Node
    BY DEF TypeOK, Join
  <2>2. CASE j = i
    <3>1. members'[i] = AddObserver(members[i], ID(k))
      BY <2>1, <2>2 DEF TypeOK
    <3> HIDE DEF k
    <3>2. VoterAddrs(AddObserver(members[i], ID(k))) = VoterAddrs(members[i])
      BY <1>0, <2>0, KeyFacts, JoinedVotersStay
    <3> QED
      BY <1>0, <2>0, <3>1, <3>2, PlaceholdersKept DEF VoterStep, VoterAddrs, VoterKeys
  <2>3. CASE j # i
    BY <2>1, <2>3, <1>1 DEF TypeOK
  <2> QED
    BY <2>2, <2>3
<1>7. ASSUME NEW j \in Node, runStep(j) PROVE members' = members
  BY <1>7 DEF runStep, FollowerTimeout, BecomeCandidate, ResetElectionTimer, ReturnToFollower, StartElection,
              RequestVotes, ElectionTimeout, CandidateHeartbeat, ReceiveVote,
              FirstBroadcast, LeaderTick
<1>8. CASE UNCHANGED vars
  BY <1>1, <1>8 DEF vars
<1>9. ASSUME NEW j \in Node, handlerStep(j) PROVE VoterStep(i)
  BY <1>1, <1>3, <1>4, <1>9 DEF handlerStep, handleVoteRequest, RejectAppendEntries
<1>10. ASSUME NEW j \in Node, rpcStep(j) PROVE VoterStep(i)
  BY <1>1, <1>5, <1>10 DEF rpcStep, VoteDenied, buildRequest, ReadNextIndex, ReadPrevious, PrepareAppend, RpcFails,
                           ResponseStepDown, ResponseBackoff
<1>11. ASSUME NEW j \in Node, adminStep(j) PROVE VoterStep(i)
  BY <1>1, <1>6, <1>11 DEF adminStep, JoinAsObserver, JoinResetIndexes, AdminCall, AutoPromoteCall, AppendAndWait,
                           AdminSucceeds, AdminFails
<1> QED
  BY <1>1, <1>7, <1>8, <1>9, <1>10, <1>11 DEF Next

\* For any number of nodes and in both modes: no join, no repeated join and no
\* renaming of a placeholder by handleAppendEntries changes who votes as a node
\* sees it; only the application of committed entries does.
THEOREM VotersByLog == Spec => VotersChangeOnlyByLog
<1>1. Init => PlaceholdersVote
  <2>1. \A i \in Node : \A k \in MemberKey : Seed(i)[k] # "observer"
    BY DEF Seed, newVoterSet
  <2> QED
    BY <2>1, KeyFacts DEF Init, PlaceholdersVote
<1>2. TypeOK /\ TypeOK' /\ PlaceholdersVote /\ [Next]_vars => PlaceholdersVote'
  BY VoterSteps DEF VoterStep, PlaceholdersVote
<1>3. TypeOK /\ TypeOK' /\ PlaceholdersVote /\ [Next]_vars
        => [\A i \in Node : VoterAddrs(members[i])' # VoterAddrs(members[i])
                              => lastApplied[i]' > lastApplied[i]]_vars
  BY VoterSteps DEF VoterStep
<1> QED
  BY <1>1, <1>2, <1>3, TypeCorrect, PTL DEF Spec, VotersChangeOnlyByLog

=============================================================================
