-------------------------- MODULE RaftStaticProofs --------------------------
(***************************************************************************)
(* Election safety of the static mode, for any number of nodes.            *)
(***************************************************************************)
EXTENDS RaftProofs

-----------------------------------------------------------------------------
(* Keys and quorums                                                        *)

\* Each node is filed once, under its NodeID or under its address.
OneKeyPerNode(v) ==
  \A n \in Node : \/ v[ID(n)] = "voter" /\ v[Placeholder(n)] = "none"
                  \/ v[ID(n)] = "none" /\ v[Placeholder(n)] = "voter"

AddrInjective(K) == \A k1, k2 \in K : AddrOf(k1) = AddrOf(k2) => k1 = k2

Addrs(K) == {AddrOf(k) : k \in K}

LEMMA AddrsCount ==
  ASSUME NEW K, K \subseteq MemberKey, AddrInjective(K)
  PROVE  /\ Addrs(K) \subseteq Node
         /\ Cardinality(Addrs(K)) = Cardinality(K)
         /\ Cardinality(K) \in Nat
<1>1. IsFiniteSet(K)
  BY KeysFinite, FS_Subset
<1> DEFINE f == [k \in K |-> AddrOf(k)]
<1>2. f \in Bijection(K, Addrs(K))
  <2>1. f \in [K -> Addrs(K)]
    BY DEF Addrs
  <2>2. f \in Injection(K, Addrs(K))
    BY <2>1 DEF Injection, IsInjective, AddrInjective
  <2>3. f \in Surjection(K, Addrs(K))
    BY <2>1 DEF Surjection, Addrs
  <2> QED
    BY <2>2, <2>3 DEF Bijection
<1>3. ExistsBijection(K, Addrs(K))
  BY <1>2 DEF ExistsBijection
<1> QED
  BY <1>1, <1>3, FS_Bijection, FS_CardinalityType, KeyFacts DEF Addrs

LEMMA OneKeyFacts ==
  ASSUME NEW v \in VoterSets, OneKeyPerNode(v)
  PROVE  /\ AddrInjective(VoterKeys(v))
         /\ Addrs(VoterKeys(v)) = Node
         /\ QuorumSize(v) = Cardinality(Node) \div 2 + 1
<1>1. AddrInjective(VoterKeys(v))
  <2> SUFFICES ASSUME NEW k1 \in VoterKeys(v), NEW k2 \in VoterKeys(v),
                      AddrOf(k1) = AddrOf(k2)
               PROVE  k1 = k2
    BY DEF AddrInjective
  <2>1. /\ k1 \in {ID(AddrOf(k1)), Placeholder(AddrOf(k1))}
        /\ k2 \in {ID(AddrOf(k1)), Placeholder(AddrOf(k1))}
        /\ AddrOf(k1) \in Node
    BY KeyFacts DEF VoterKeys
  <2>2. v[k1] = "voter" /\ v[k2] = "voter"
    BY DEF VoterKeys
  <2> QED
    BY <2>1, <2>2 DEF OneKeyPerNode
<1>2. Addrs(VoterKeys(v)) = Node
  <2>1. \A n \in Node : n \in Addrs(VoterKeys(v))
    <3> SUFFICES ASSUME NEW n \in Node PROVE \E k \in VoterKeys(v) : AddrOf(k) = n
      BY DEF Addrs
    <3>1. CASE v[ID(n)] = "voter"
      <4>1. ID(n) \in VoterKeys(v) /\ AddrOf(ID(n)) = n
        BY <3>1, KeyFacts DEF VoterKeys
      <4> QED
        BY <4>1
    <3>2. CASE v[Placeholder(n)] = "voter"
      <4>1. Placeholder(n) \in VoterKeys(v) /\ AddrOf(Placeholder(n)) = n
        BY <3>2, KeyFacts DEF VoterKeys
      <4> QED
        BY <4>1
    <3> QED
      BY <3>1, <3>2 DEF OneKeyPerNode
  <2>2. Addrs(VoterKeys(v)) \subseteq Node
    BY KeyFacts DEF Addrs, VoterKeys
  <2> QED
    BY <2>1, <2>2
<1>3. Cardinality(VoterKeys(v)) = Cardinality(Node)
  BY <1>1, <1>2, AddrsCount DEF VoterKeys
<1> QED
  BY <1>1, <1>2, <1>3 DEF QuorumSize

LEMMA OneKeyKept ==
  ASSUME NEW v \in VoterSets, OneKeyPerNode(v), NEW n \in Node
  PROVE  /\ OneKeyPerNode(UpdateID(v, n))
         /\ \A i \in Node : v[ID(i)] = "voter" => UpdateID(v, n)[ID(i)] = "voter"
<1>1. CASE v[Placeholder(n)] = "none"
  BY <1>1 DEF UpdateID
<1>2. CASE v[Placeholder(n)] # "none"
  <2> DEFINE u == UpdateID(v, n)
  <2>1. v[Placeholder(n)] = "voter"
    BY <1>2 DEF OneKeyPerNode
  <2>2. /\ u[Placeholder(n)] = "none" /\ u[ID(n)] = "voter"
        /\ \A k \in MemberKey \ {ID(n), Placeholder(n)} : u[k] = v[k]
    BY <1>2, <2>1, KeyFacts DEF UpdateID, VoterSets
  <2>3. \A m \in Node \ {n} : /\ ID(m) \in MemberKey \ {ID(n), Placeholder(n)}
                              /\ Placeholder(m) \in MemberKey \ {ID(n), Placeholder(n)}
    BY DEF ID, Placeholder, MemberKey
  <2> HIDE DEF u
  <2>4. OneKeyPerNode(u)
    BY <2>2, <2>3 DEF OneKeyPerNode
  <2>5. \A i \in Node : v[ID(i)] = "voter" => u[ID(i)] = "voter"
    BY <2>2, <2>3
  <2> QED
    BY <2>4, <2>5 DEF u
<1> QED
  BY <1>1, <1>2

-----------------------------------------------------------------------------
(* The voters of the static mode                                           *)

\* In static mode no entry ever enters a log, so that nothing but the renaming
\* of placeholders touches a VoterSet.
StaticInv ==
  /\ ops = {} /\ joins = {}
  /\ \A i \in Node : log[i] = <<>>
  /\ \A m \in appendRequests : m.entries = <<>>
  /\ \A i \in Node : OneKeyPerNode(members[i]) /\ members[i][ID(i)] = "voter"

LEMMA EmptyLogApplied ==
  ASSUME NEW v \in VoterSets, NEW applied \in Nat, NEW c
  PROVE  applyMembership(v, <<>>, applied, c) = v
<1>1. newlyApplied(<<>>, applied, c) = {}
  BY DEF newlyApplied, hasEntry
<1> QED
  BY <1>1 DEF applyMembership, VoterSets

LEMMA InitStatic ==
  ASSUME Mode = "static", Init
  PROVE  StaticInv
<1>1. ASSUME NEW i \in Node, NEW n \in Node
      PROVE  /\ i = n => Seed(i)[ID(n)] = "voter" /\ Seed(i)[Placeholder(n)] = "none"
             /\ i # n => Seed(i)[ID(n)] = "none" /\ Seed(i)[Placeholder(n)] = "voter"
  <2>1. Founders = Node
    BY ModeAssumption
  <2>2. ID(n) \in MemberKey /\ Placeholder(n) \in MemberKey
    BY KeyFacts
  <2>3. /\ Placeholder(n) # ID(i)
        /\ ID(n) = ID(i) <=> n = i
        /\ ID(n) \notin {Placeholder(p) : p \in Founders \ {i}}
        /\ Placeholder(n) \in {Placeholder(p) : p \in Founders \ {i}} <=> n # i
    BY <2>1 DEF ID, Placeholder
  <2> QED
    BY <2>1, <2>2, <2>3 DEF Seed, newVoterSet
<1> QED
  BY <1>1 DEF Init, StaticInv, OneKeyPerNode

LEMMA StaticStep ==
  ASSUME Mode = "static", TypeOK, StaticInv, [Next]_vars
  PROVE  StaticInv'
<1> USE DEF electionVars, logVars, replicationVars, runVars, voteMsgs, appendMsgs, calls
<1>0. ASSUME UNCHANGED <<calls, log, members>>, appendRequests' \subseteq appendRequests
      PROVE  StaticInv'
  BY <1>0 DEF StaticInv
<1>1. ASSUME NEW i \in Node, NEW n \in Node, UNCHANGED <<calls, log>>,
             appendRequests' \subseteq appendRequests,
             members' = [members EXCEPT ![i] = UpdateID(members[i], n)]
      PROVE  StaticInv'
  <2>1. /\ members'[i] = UpdateID(members[i], n)
        /\ \A j \in Node \ {i} : members'[j] = members[j]
    BY <1>1 DEF TypeOK
  <2>2. members[i] \in VoterSets
    BY DEF TypeOK
  <2>3. OneKeyPerNode(members'[i]) /\ members'[i][ID(i)] = "voter"
    BY <2>1, <2>2, OneKeyKept DEF StaticInv
  <2> QED
    BY <1>1, <2>1, <2>3 DEF StaticInv
<1>2. ASSUME NEW i \in Node, runStep(i) PROVE StaticInv'
  <2>1. CASE LeaderTick(i)
    <3>1. UNCHANGED calls
      BY <2>1 DEF LeaderTick, maybePromoteObservers
    <3> QED
      BY <1>0, <2>1, <3>1 DEF LeaderTick
  <2> QED
    BY <1>0, <1>2, <2>1 DEF runStep, FollowerTimeout, BecomeCandidate, ResetElectionTimer, ReturnToFollower,
           StartElection, RequestVotes, ElectionTimeout, CandidateHeartbeat, ReceiveVote,
           FirstBroadcast
<1>3. ASSUME NEW i \in Node, handlerStep(i) PROVE StaticInv'
  <2>1. CASE MismatchAppendEntries(i)
    <3>1. PICK m \in appendRequests : MismatchAppendEntries(i)!(m)
      BY <2>1 DEF MismatchAppendEntries
    <3>2. m.from \in Node
      BY DEF TypeOK, AppendRequest
    <3> QED
      BY <1>1, <3>1, <3>2 DEF followLeader
  <2>2. CASE AcceptAppendEntries(i)
    <3>1. PICK m \in appendRequests : AcceptAppendEntries(i)!(m)
      BY <2>2 DEF AcceptAppendEntries
    <3>2. m.from \in Node
      BY DEF TypeOK, AppendRequest
    <3>3. logAfter(i, m) = log[i] /\ log[i] = <<>>
      BY DEF StaticInv, logAfter
    <3>4. log' = log
      BY <3>1, <3>3 DEF TypeOK
    <3>5. UpdateID(members[i], m.from) \in VoterSets /\ lastApplied[i] \in Nat
      BY <3>2, VoterSetTypes DEF TypeOK
    <3>6. members' = [members EXCEPT ![i] = UpdateID(members[i], m.from)]
      BY <3>1, <3>3, <3>5, EmptyLogApplied
    <3>7. appendRequests' \subseteq appendRequests /\ UNCHANGED calls
      BY <3>1 DEF followLeader
    <3> QED
      BY <1>1, <3>2, <3>4, <3>6, <3>7
  <2> QED
    BY <1>0, <1>3, <2>1, <2>2 DEF handlerStep, handleVoteRequest, RejectAppendEntries
<1>4. ASSUME NEW i \in Node, rpcStep(i) PROVE StaticInv'
  <2>1. CASE PrepareAppend(i)
    <3>1. PICK h \in heartbeats : PrepareAppend(i)!(h)
      BY <2>1 DEF PrepareAppend
    <3>2. h.nextIdx \in Nat \ {0} /\ log[i] = <<>>
      <4>1. h \in Heartbeat /\ h.stage = "read"
        BY <3>1 DEF TypeOK
      <4>2. h.nextIdx \in Nat /\ h.nextIdx > 0
        BY <4>1 DEF Heartbeat
      <4> QED
        BY <4>2 DEF StaticInv
    <3>4. entriesFrom(log[i], h.nextIdx) = <<>>
      BY <3>2 DEF entriesFrom, hasEntry
    <3>5. \A m \in appendRequests' : m.entries = <<>>
      BY <3>1, <3>4 DEF StaticInv
    <3> QED
      BY <3>1, <3>5 DEF StaticInv
  <2>2. CASE ResponseSuccess(i)
    <3>1. PICK m \in appendResponses : ResponseSuccess(i)!(m)
      BY <2>2 DEF ResponseSuccess
    <3>2. log[i] = <<>> /\ members[i] \in VoterSets /\ lastApplied[i] \in Nat
      BY DEF StaticInv, TypeOK
    <3>3. members' = [members EXCEPT ![i] = members[i]]
      BY <3>1, <3>2, EmptyLogApplied
    <3>4. members' = members
      BY <3>3 DEF TypeOK
    <3> QED
      BY <1>0, <3>1, <3>4
  <2> QED
    BY <1>0, <1>4, <2>1, <2>2 DEF rpcStep, buildRequest, ReadNextIndex, ReadPrevious,
           VoteDenied, RpcFails,
           ResponseStepDown, ResponseBackoff
<1>5. ASSUME NEW i \in Node, adminStep(i) PROVE FALSE
  BY <1>5 DEF StaticInv, adminStep, JoinAsObserver, JoinAddObserver, JoinResetIndexes, AdminCall, AutoPromoteCall,
         AppendAndWait, AdminSucceeds, AdminFails, membershipAllowed
<1>6. CASE UNCHANGED vars
  BY <1>0, <1>6 DEF vars
<1> QED
  BY <1>2, <1>3, <1>4, <1>5, <1>6 DEF Next

\* In static mode, for any number of nodes: every node counts every configured
\* node as a voter and none of them twice, whichever heartbeats have made
\* handleAppendEntries call UpdateID so far.
THEOREM StaticVoters ==
  ASSUME Mode = "static"
  PROVE  Spec => []StaticVotersFixed
<1>1. Init => StaticInv
  BY InitStatic
<1>2. TypeOK /\ StaticInv /\ [Next]_vars => StaticInv'
  BY StaticStep
<1>3. TypeOK /\ StaticInv => StaticVotersFixed
  <2> SUFFICES ASSUME TypeOK, StaticInv, NEW i \in Node
               PROVE  /\ VoterAddrs(members[i]) = Node
                      /\ AddrInjective(VoterKeys(members[i]))
    BY DEF StaticVotersFixed, AddrInjective
  <2>1. members[i] \in VoterSets /\ OneKeyPerNode(members[i])
    BY DEF TypeOK, StaticInv
  <2> QED
    BY <2>1, OneKeyFacts DEF VoterAddrs, Addrs
<1> QED
  BY <1>1, <1>2, <1>3, TypeCorrect, PTL DEF Spec

-----------------------------------------------------------------------------
(* Elections of the static mode                                            *)

\* The keys under which candidate i asked for votes in term t, as far as the
\* request or the vote is still under way among these messages.
Ballots(requests, responses, i, t) ==
  {m.peer : m \in {r \in requests : r.from = i /\ r.term = t}} \cup
  {m.peer : m \in {r \in responses : r.granted /\ r.to = i /\ r.term = t}}

\* Nothing is under way for an election that i has yet to start.
BallotsNotAhead(i) ==
  /\ campaign[i].term <= currentTerm[i]
  /\ \A t \in Nat : t > currentTerm[i] => Ballots(voteRequests, voteResponses, i, t) = {}

\* No node has two ballots, or a ballot and a counted vote, in one election.
BallotsDistinct(i) ==
  campaign[i].votes # {} =>
    AddrInjective(campaign[i].votes \cup
                  Ballots(voteRequests, voteResponses, i, campaign[i].term))

\* What runCandidate has established at each point.
CampaignAt(i) ==
  /\ pc[i] = "standing" => /\ campaign[i].votes = {ID(i)}
                           /\ Ballots(voteRequests, voteResponses, i, campaign[i].term) = {}
  /\ pc[i] \in {"voting", "leader", "leading"}
       => /\ campaign[i].votes # {}
          /\ campaign[i].needed = Cardinality(Node) \div 2 + 1
  /\ Elected(i) => Cardinality(campaign[i].votes) >= campaign[i].needed

CampaignGood(i) == BallotsNotAhead(i) /\ BallotsDistinct(i) /\ CampaignAt(i)

CampaignInv == \A i \in Node : CampaignGood(i)

\* A step in which j's election goes on or ends, and j gets no more ballots.
CampaignStays(j) ==
  \/ /\ campaign'[j] = campaign[j]
     /\ \/ pc'[j] = pc[j]
        \/ pc'[j] \in {"follower", "expired", "candidate"}
        \/ pc[j] = "leader" /\ pc'[j] = "leading"
  \/ /\ campaign'[j] = NoCampaign
     /\ pc'[j] \in {"follower", "candidate"}

BallotsShrink(j) ==
  \A t \in Nat : Ballots(voteRequests', voteResponses', j, t)
                 \subseteq Ballots(voteRequests, voteResponses, j, t)

LEMMA BallotTypes ==
  ASSUME TypeOK, NEW i \in Node, NEW t
  PROVE  Ballots(voteRequests, voteResponses, i, t) \subseteq MemberKey
  BY DEF TypeOK, Ballots, VoteRequest, VoteResponse

\* A node whose own election goes on, or ends, while its ballots get no more.
LEMMA CampaignKept ==
  ASSUME TypeOK, TypeOK', CampaignInv, TermsAdvance, NEW j \in Node,
         BallotsShrink(j), CampaignStays(j)
  PROVE  CampaignGood(j)'
<1> USE DEF BallotsShrink, CampaignStays
<1>0. /\ currentTerm[j] \in Nat /\ currentTerm'[j] \in Nat /\ currentTerm[j] <= currentTerm'[j]
      /\ campaign[j].term \in Nat
  BY DEF TypeOK, TermsAdvance, Campaign
<1>1. BallotsNotAhead(j) /\ BallotsDistinct(j) /\ CampaignAt(j)
  BY DEF CampaignInv, CampaignGood
<1>2. BallotsNotAhead(j)'
  <2>1. campaign'[j].term <= currentTerm'[j]
    BY <1>0, <1>1 DEF BallotsNotAhead, NoCampaign
  <2>2. \A t \in Nat : t > currentTerm'[j] => Ballots(voteRequests', voteResponses', j, t) = {}
    BY <1>0, <1>1 DEF BallotsNotAhead
  <2> QED
    BY <2>1, <2>2 DEF BallotsNotAhead
<1>3. BallotsDistinct(j)'
  <2>1. CASE campaign'[j] = NoCampaign
    BY <2>1 DEF BallotsDistinct, NoCampaign
  <2>2. CASE campaign'[j] = campaign[j]
    <3>1. Ballots(voteRequests', voteResponses', j, campaign'[j].term)
            \subseteq Ballots(voteRequests, voteResponses, j, campaign[j].term)
      BY <1>0, <2>2
    <3> QED
      BY <1>1, <2>2, <3>1 DEF BallotsDistinct, AddrInjective
  <2> QED
    BY <2>1, <2>2
<1>4. CampaignAt(j)'
  <2>1. CASE pc'[j] \in {"follower", "expired", "candidate"}
    BY <2>1 DEF CampaignAt, Elected
  <2>2. CASE campaign'[j] = campaign[j] /\ pc'[j] = pc[j]
    <3>1. Ballots(voteRequests', voteResponses', j, campaign'[j].term)
            \subseteq Ballots(voteRequests, voteResponses, j, campaign[j].term)
      BY <1>0, <2>2
    <3> QED
      BY <1>1, <2>2, <3>1 DEF CampaignAt, Elected
  <2>3. CASE campaign'[j] = campaign[j] /\ pc[j] = "leader" /\ pc'[j] = "leading"
    BY <1>1, <2>3 DEF CampaignAt, Elected
  <2> QED
    BY <2>1, <2>2, <2>3
<1> QED
  BY <1>2, <1>3, <1>4 DEF CampaignGood

LEMMA CampaignStep ==
  ASSUME Mode = "static", TypeOK, TypeOK', StaticInv, CampaignInv, [Next]_vars
  PROVE  CampaignInv'
<1> USE DEF electionVars, logVars, replicationVars, runVars, voteMsgs, appendMsgs, calls
<1>0. TermsAdvance
  BY TermsNeverBack
<1>1. ASSUME NEW j \in Node, BallotsShrink(j), CampaignStays(j)
      PROVE  CampaignGood(j)'
  BY <1>0, <1>1, CampaignKept
<1>2. ASSUME voteRequests' \subseteq voteRequests, voteResponses' \subseteq voteResponses
      PROVE  \A j \in Node : BallotsShrink(j)
  BY <1>2 DEF BallotsShrink, Ballots
<1>3. ASSUME NEW i \in Node, handleVoteRequest(i) PROVE CampaignInv'
  <2>1. PICK m \in voteRequests : handleVoteRequest(i)!(m)
    BY <1>3 DEF handleVoteRequest
  <2> DEFINE granted == /\ m.term >= currentTerm[i]
                        /\ ~alreadyVoted(i, m)
                        /\ logOK(i, m)
  <2>2. voteRequests' \subseteq voteRequests /\ campaign' = campaign /\ pc' = pc
    BY <2>1
  <2>3. CASE granted
    <3>1. voteResponses' \subseteq voteResponses \cup
            {[to |-> m.from, peer |-> m.peer, granted |-> TRUE, term |-> m.term]}
      BY <2>1, <2>3
    <3>2. \A j \in Node : BallotsShrink(j)
      BY <2>2, <3>1 DEF BallotsShrink, Ballots
    <3>3. \A j \in Node : CampaignStays(j)
      BY <2>2 DEF CampaignStays
    <3> QED
      BY <1>1, <3>2, <3>3 DEF CampaignInv
  <2>4. CASE ~granted
    <3>1. voteResponses' \subseteq voteResponses \cup
            {[to |-> m.from, peer |-> m.peer, granted |-> FALSE, term |-> currentTerm[i]]}
      BY <2>1, <2>4
    <3>2. \A j \in Node : BallotsShrink(j)
      BY <2>2, <3>1 DEF BallotsShrink, Ballots
    <3>3. \A j \in Node : CampaignStays(j)
      BY <2>2 DEF CampaignStays
    <3> QED
      BY <1>1, <3>2, <3>3 DEF CampaignInv
  <2> QED
    BY <2>3, <2>4
<1>4. ASSUME NEW i \in Node, StartElection(i) PROVE CampaignInv'
  <2>1. \A j \in Node \ {i} : CampaignGood(j)'
    <3>1. \A j \in Node \ {i} : CampaignStays(j)
      BY <1>4 DEF StartElection, CampaignStays, TypeOK
    <3>2. \A j \in Node : BallotsShrink(j)
      BY <1>2, <1>4 DEF StartElection
    <3> QED
      BY <1>1, <3>1, <3>2
  <2>2. CampaignGood(i)'
    <3>1. /\ currentTerm'[i] = currentTerm[i] + 1 /\ currentTerm[i] \in Nat
          /\ campaign'[i] = [term |-> currentTerm[i] + 1, needed |-> 0, votes |-> {ID(i)}]
          /\ pc'[i] = "standing"
          /\ voteRequests' = voteRequests /\ voteResponses' = voteResponses
      BY <1>4 DEF StartElection, TypeOK
    <3>2. \A t \in Nat : t > currentTerm[i] => Ballots(voteRequests, voteResponses, i, t) = {}
      BY DEF CampaignInv, CampaignGood, BallotsNotAhead
    <3>3. Ballots(voteRequests', voteResponses', i, campaign'[i].term) = {}
      BY <3>1, <3>2
    <3>4. BallotsNotAhead(i)'
      BY <3>1, <3>2 DEF BallotsNotAhead
    <3>5. BallotsDistinct(i)'
      BY <3>1, <3>3 DEF BallotsDistinct, AddrInjective
    <3>6. CampaignAt(i)'
      BY <3>1, <3>3 DEF CampaignAt, Elected
    <3> QED
      BY <3>4, <3>5, <3>6 DEF CampaignGood
  <2> QED
    BY <2>1, <2>2 DEF CampaignInv
<1>5. ASSUME NEW i \in Node, RequestVotes(i) PROVE CampaignInv'
  <2> DEFINE sent == {[from |-> i, peer |-> k, term |-> campaign[i].term,
                       lastLogIndex |-> lastIndex(log[i]), lastLogTerm |-> lastTerm(log[i])] :
                        k \in Voters(members[i], ID(i))}
  <2>1. voteRequests' = voteRequests \cup sent /\ voteResponses' = voteResponses
    BY <1>5 DEF RequestVotes
  <2>2. \A j \in Node : \A t \in Nat :
          j # i \/ t # campaign[i].term =>
            Ballots(voteRequests', voteResponses', j, t) = Ballots(voteRequests, voteResponses, j, t)
    BY <2>1 DEF Ballots
  <2>3. Ballots(voteRequests', voteResponses', i, campaign[i].term)
          = Ballots(voteRequests, voteResponses, i, campaign[i].term) \cup Voters(members[i], ID(i))
    <3>1. {m.peer : m \in {r \in sent : r.from = i /\ r.term = campaign[i].term}}
            = Voters(members[i], ID(i))
      <4>1. \A k \in Voters(members[i], ID(i)) :
              \E r \in sent : r.from = i /\ r.term = campaign[i].term /\ r.peer = k
        <5> TAKE k \in Voters(members[i], ID(i))
        <5> DEFINE req == [from |-> i, peer |-> k, term |-> campaign[i].term,
                           lastLogIndex |-> lastIndex(log[i]), lastLogTerm |-> lastTerm(log[i])]
        <5>1. req \in sent
          BY Zenon
        <5>2. req.from = i /\ req.term = campaign[i].term /\ req.peer = k
          OBVIOUS
        <5> HIDE DEF sent, req
        <5> QED
          BY <5>1, <5>2
      <4>2. \A r \in sent : /\ r.from = i /\ r.term = campaign[i].term
                           /\ r.peer \in Voters(members[i], ID(i))
        OBVIOUS
      <4> HIDE DEF sent
      <4> QED
        BY <4>1, <4>2
    <3> HIDE DEF sent
    <3> QED
      BY <2>1, <3>1 DEF Ballots
  <2>4. \A j \in Node \ {i} : CampaignGood(j)'
    <3>1. \A j \in Node \ {i} : CampaignStays(j)
      BY <1>5 DEF RequestVotes, CampaignStays, TypeOK
    <3>2. \A j \in Node \ {i} : BallotsShrink(j)
      BY <2>2 DEF BallotsShrink
    <3> QED
      BY <1>1, <3>1, <3>2
  <2>5. CampaignGood(i)'
    <3>1. campaign \in [Node -> Campaign] /\ currentTerm[i] \in Nat /\ currentTerm' = currentTerm
      BY <1>5 DEF RequestVotes, TypeOK
    <3>2. /\ campaign'[i].term = campaign[i].term /\ campaign[i].term \in Nat
          /\ campaign'[i].votes = campaign[i].votes
          /\ campaign'[i].needed = QuorumSize(members[i])
          /\ pc[i] = "standing" /\ pc'[i] = "voting"
      BY <1>5, <3>1 DEF RequestVotes, Campaign, TypeOK
    <3>3. /\ campaign[i].votes = {ID(i)}
          /\ Ballots(voteRequests, voteResponses, i, campaign[i].term) = {}
          /\ campaign[i].term <= currentTerm[i]
          /\ \A t \in Nat : t > currentTerm[i] => Ballots(voteRequests, voteResponses, i, t) = {}
      BY <3>2 DEF CampaignInv, CampaignGood, CampaignAt, BallotsNotAhead
    <3>4. /\ members[i] \in VoterSets /\ OneKeyPerNode(members[i])
          /\ ID(i) \in VoterKeys(members[i])
      BY KeyFacts DEF StaticInv, TypeOK, VoterKeys
    <3>5. /\ AddrInjective(VoterKeys(members[i]))
          /\ QuorumSize(members[i]) = Cardinality(Node) \div 2 + 1
      BY <3>4, OneKeyFacts
    <3>6. BallotsNotAhead(i)'
      <4>1. ASSUME NEW t \in Nat, t > currentTerm[i]
            PROVE  Ballots(voteRequests', voteResponses', i, t) = {}
        BY <2>2, <3>1, <3>2, <3>3, <4>1
      <4> QED
        BY <3>1, <3>2, <3>3, <4>1 DEF BallotsNotAhead
    <3>7. campaign'[i].votes \cup Ballots(voteRequests', voteResponses', i, campaign'[i].term)
            = VoterKeys(members[i])
      BY <2>3, <3>2, <3>3, <3>4 DEF Voters
    <3>8. BallotsDistinct(i)'
      BY <3>5, <3>7 DEF BallotsDistinct
    <3>9. CampaignAt(i)'
      BY <3>2, <3>3, <3>5 DEF CampaignAt, Elected
    <3> QED
      BY <3>6, <3>8, <3>9 DEF CampaignGood
  <2> QED
    BY <2>4, <2>5 DEF CampaignInv
<1>6. ASSUME NEW i \in Node, ReceiveVote(i) PROVE CampaignInv'
  <2>1. PICK m \in voteResponses : ReceiveVote(i)!(m)
    BY <1>6 DEF ReceiveVote
  <2>2. /\ voteRequests' = voteRequests /\ voteResponses' \subseteq voteResponses
        /\ currentTerm' = currentTerm /\ pc[i] = "voting"
        /\ m.to = i /\ m.granted /\ m.term = campaign[i].term
    BY <2>1
  <2>3. \A j \in Node : BallotsShrink(j)
    BY <1>2, <2>2
  <2>4. \A j \in Node \ {i} : CampaignGood(j)'
    <3>1. \A j \in Node \ {i} : CampaignStays(j)
      <4>1. campaign' = [campaign EXCEPT ![i].votes = campaign[i].votes \cup {m.peer}]
        BY <2>1
      <4>2. pc' = [pc EXCEPT ![i] = "leader"] \/ pc' = pc
        BY <2>1 DEF becomeLeader
      <4> QED
        BY <4>1, <4>2 DEF CampaignStays, TypeOK
    <3> QED
      BY <1>1, <2>3, <3>1
  <2>5. CampaignGood(i)'
    <3>1. campaign \in [Node -> Campaign] /\ currentTerm[i] \in Nat
      BY DEF TypeOK
    <3>2. /\ campaign'[i].term = campaign[i].term /\ campaign[i].term \in Nat
          /\ campaign'[i].votes = campaign[i].votes \cup {m.peer}
          /\ campaign'[i].needed = campaign[i].needed
      BY <2>1, <3>1 DEF Campaign
    <3>3. /\ BallotsNotAhead(i)
          /\ campaign[i].votes # {}
          /\ campaign[i].needed = Cardinality(Node) \div 2 + 1
          /\ AddrInjective(campaign[i].votes \cup
                           Ballots(voteRequests, voteResponses, i, campaign[i].term))
      BY <2>2 DEF CampaignInv, CampaignGood, CampaignAt, BallotsDistinct
    <3>4. m.peer \in Ballots(voteRequests, voteResponses, i, campaign[i].term)
      BY <2>2 DEF Ballots
    <3>5. Ballots(voteRequests', voteResponses', i, campaign'[i].term)
            \subseteq Ballots(voteRequests, voteResponses, i, campaign[i].term)
      BY <2>3, <3>2 DEF BallotsShrink
    <3>6. BallotsNotAhead(i)'
      BY <2>2, <2>3, <3>2, <3>3 DEF BallotsShrink, BallotsNotAhead
    <3>7. BallotsDistinct(i)'
      BY <3>2, <3>3, <3>4, <3>5 DEF BallotsDistinct, AddrInjective
    <3>8. CASE Cardinality(campaign[i].votes \cup {m.peer}) >= campaign[i].needed
      <4>1. pc'[i] = "leader"
        BY <2>1, <3>8 DEF becomeLeader, TypeOK
      <4> QED
        BY <3>2, <3>3, <3>6, <3>7, <3>8, <4>1 DEF CampaignGood, CampaignAt, Elected
    <3>9. CASE ~(Cardinality(campaign[i].votes \cup {m.peer}) >= campaign[i].needed)
      <4>1. pc'[i] = "voting"
        BY <2>1, <2>2, <3>9
      <4> QED
        BY <3>2, <3>3, <3>6, <3>7, <4>1 DEF CampaignGood, CampaignAt, Elected
    <3> QED
      BY <3>8, <3>9
  <2> QED
    BY <2>4, <2>5 DEF CampaignInv
<1>7. ASSUME voteRequests' \subseteq voteRequests, voteResponses' \subseteq voteResponses,
             \A j \in Node : CampaignStays(j)
      PROVE  CampaignInv'
  <2>1. \A j \in Node : BallotsShrink(j)
    BY <1>2, <1>7
  <2>2. \A j \in Node : CampaignGood(j)'
    BY <1>1, <1>7, <2>1
  <2> QED
    BY <2>2 DEF CampaignInv
<1>quiet. ASSUME UNCHANGED runVars PROVE \A j \in Node : CampaignStays(j)
  BY <1>quiet DEF CampaignStays
<1>8. ASSUME NEW i \in Node, runStep(i) PROVE CampaignInv'
  <2>1. CASE FollowerTimeout(i)
    <3>1. \A j \in Node : CampaignStays(j)
      BY <2>1 DEF FollowerTimeout, CampaignStays, TypeOK
    <3>2. UNCHANGED voteMsgs
      BY <2>1 DEF FollowerTimeout
    <3> QED
      BY <1>7, <3>1, <3>2
  <2>1a. CASE BecomeCandidate(i)
    <3>1. \A j \in Node : CampaignStays(j)
      BY <2>1a DEF BecomeCandidate, CampaignStays, TypeOK
    <3>2. UNCHANGED voteMsgs
      BY <2>1a DEF BecomeCandidate
    <3> QED
      BY <1>7, <3>1, <3>2
  <2>2. CASE ResetElectionTimer(i)
    <3>1. \A j \in Node : CampaignStays(j)
      BY <2>2 DEF ResetElectionTimer, CampaignStays, TypeOK
    <3>2. UNCHANGED voteMsgs
      BY <2>2 DEF ResetElectionTimer
    <3> QED
      BY <1>7, <3>1, <3>2
  <2>3. CASE ReturnToFollower(i)
    <3>1. \A j \in Node : CampaignStays(j)
      BY <2>3 DEF ReturnToFollower, CampaignStays, TypeOK
    <3>2. UNCHANGED voteMsgs
      BY <2>3 DEF ReturnToFollower
    <3> QED
      BY <1>7, <3>1, <3>2
  <2>4. CASE ElectionTimeout(i)
    <3>1. \A j \in Node : CampaignStays(j)
      BY <2>4 DEF ElectionTimeout, CampaignStays, TypeOK
    <3>2. UNCHANGED voteMsgs
      BY <2>4 DEF ElectionTimeout
    <3> QED
      BY <1>7, <3>1, <3>2
  <2>5. CASE CandidateHeartbeat(i)
    <3>1. \A j \in Node : CampaignStays(j)
      BY <2>5 DEF CandidateHeartbeat, CampaignStays, TypeOK
    <3>2. UNCHANGED voteMsgs
      BY <2>5 DEF CandidateHeartbeat
    <3> QED
      BY <1>7, <3>1, <3>2
  <2>6. CASE FirstBroadcast(i)
    <3>1. \A j \in Node : CampaignStays(j)
      BY <2>6 DEF FirstBroadcast, CampaignStays, TypeOK
    <3>2. UNCHANGED voteMsgs
      BY <2>6 DEF FirstBroadcast
    <3> QED
      BY <1>7, <3>1, <3>2
  <2>7. CASE LeaderTick(i)
    <3>1. \A j \in Node : CampaignStays(j)
      BY <2>7 DEF LeaderTick, CampaignStays, TypeOK
    <3>2. UNCHANGED voteMsgs
      BY <2>7 DEF LeaderTick
    <3> QED
      BY <1>7, <3>1, <3>2
  <2> QED
    BY <1>4, <1>5, <1>6, <1>8, <2>1, <2>1a, <2>2, <2>3, <2>4, <2>5, <2>6, <2>7 DEF runStep
<1>9. ASSUME NEW i \in Node, handlerStep(i), ~handleVoteRequest(i)
      PROVE  UNCHANGED runVars /\ UNCHANGED voteMsgs
  BY <1>9 DEF handlerStep, RejectAppendEntries, MismatchAppendEntries, AcceptAppendEntries
<1>10. ASSUME NEW i \in Node, rpcStep(i)
       PROVE  /\ UNCHANGED runVars
              /\ voteRequests' \subseteq voteRequests
              /\ voteResponses' \subseteq voteResponses
  BY <1>10 DEF rpcStep, VoteDenied, buildRequest, ReadNextIndex, ReadPrevious, PrepareAppend, RpcFails,
         ResponseStepDown, ResponseSuccess, ResponseBackoff
<1>11. ASSUME NEW i \in Node, adminStep(i)
       PROVE  UNCHANGED runVars /\ UNCHANGED voteMsgs
  BY <1>11 DEF adminStep, JoinAsObserver, JoinAddObserver, JoinResetIndexes, AdminCall, AutoPromoteCall,
         AppendAndWait, AdminSucceeds, AdminFails
<1>12. ASSUME UNCHANGED vars
       PROVE  UNCHANGED runVars /\ UNCHANGED voteMsgs
  BY <1>12 DEF vars
<1>13. ASSUME NEW i \in Node, handlerStep(i) PROVE CampaignInv'
  BY <1>3, <1>7, <1>quiet, <1>9, <1>13
<1>14. ASSUME NEW i \in Node, rpcStep(i) PROVE CampaignInv'
  BY <1>7, <1>quiet, <1>10, <1>14
<1>15. ASSUME NEW i \in Node, adminStep(i) PROVE CampaignInv'
  BY <1>7, <1>quiet, <1>11, <1>15
<1>16. CASE UNCHANGED vars
  BY <1>7, <1>quiet, <1>12, <1>16
<1> QED
  BY <1>8, <1>13, <1>14, <1>15, <1>16 DEF Next

\* Two elections of one term were won with overlapping sets of voters.
LEMMA MajoritiesMeet ==
  ASSUME TypeOK, CampaignInv, VoteInv, NEW i \in Node, NEW j \in Node,
         Elected(i), Elected(j), campaign[i].term = campaign[j].term
  PROVE  i = j
<1> DEFINE W(n) == campaign[n].votes
<1>1. ASSUME NEW n \in Node, Elected(n)
      PROVE  /\ Addrs(W(n)) \subseteq Node
             /\ Cardinality(Addrs(W(n))) \in Nat
             /\ Cardinality(Addrs(W(n))) >= Cardinality(Node) \div 2 + 1
  <2>1. W(n) \subseteq MemberKey
    BY DEF TypeOK, Campaign
  <2>2. /\ AddrInjective(W(n))
        /\ Cardinality(W(n)) >= Cardinality(Node) \div 2 + 1
    BY <1>1 DEF CampaignInv, CampaignGood, CampaignAt, BallotsDistinct, AddrInjective, Elected
  <2> QED
    BY <2>1, <2>2, AddrsCount
<1>2. Cardinality(Node) \in Nat /\ IsFiniteSet(Node)
  BY NodeAssumption, FS_CardinalityType
<1>3. Addrs(W(i)) \cap Addrs(W(j)) # {}
  <2>1. Cardinality(Addrs(W(i))) + Cardinality(Addrs(W(j))) > Cardinality(Node)
    BY <1>1, <1>2
  <2> HIDE DEF W
  <2> QED
    BY <1>1, <1>2, <2>1, FS_MajoritiesIntersect
<1>4. PICK n \in Node : n \in Addrs(W(i)) /\ n \in Addrs(W(j))
  BY <1>1, <1>3
<1>5. campaign[i].term \in Nat
  BY DEF TypeOK, Campaign
<1>6. Granted(n, campaign[i].term, i) /\ Granted(n, campaign[i].term, j)
  BY <1>4 DEF Granted, Addrs
<1> QED
  BY <1>5, <1>6 DEF VoteInv, VoteUnique

\* In static mode, for any number of nodes: no two nodes are in runLeader, or
\* about to enter it, by elections of the same term.
THEOREM StaticElections ==
  ASSUME Mode = "static"
  PROVE  Spec => []ElectionsWonInDistinctTerms
<1>1. Init => StaticInv /\ CampaignInv /\ VoteInv
  <2>1. ASSUME Init PROVE CampaignInv
    BY <2>1 DEF Init, CampaignInv, CampaignGood, BallotsNotAhead, BallotsDistinct, CampaignAt,
                Ballots, NoCampaign, Elected
  <2>2. ASSUME Init PROVE VoteInv
    BY <2>2 DEF Init, VoteInv, VoteRemembered, VoteUnique, Granted, NoCampaign
  <2> QED
    BY <2>1, <2>2, InitStatic
<1>2. TypeOK /\ TypeOK' /\ StaticInv /\ CampaignInv /\ VoteInv /\ [Next]_vars
        => StaticInv' /\ CampaignInv' /\ VoteInv'
  BY StaticStep, CampaignStep, VoteInvStep
<1>3. TypeOK /\ CampaignInv /\ VoteInv => ElectionsWonInDistinctTerms
  BY MajoritiesMeet DEF ElectionsWonInDistinctTerms
<1> QED
  BY <1>1, <1>2, <1>3, TypeCorrect, PTL DEF Spec

=============================================================================
