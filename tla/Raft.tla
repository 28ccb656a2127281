-------------------------------- MODULE Raft --------------------------------
(***************************************************************************)
(* The controllers' Raft of src/src/internal/raft/node.go.  Every          *)
(* controller runs                                                         *)
(*   - one goroutine, run(), that is in turn follower, candidate, leader;  *)
(*   - the RPC handlers, each holding n.mu from its first line to its last;*)
(*   - one goroutine per vote request and per AppendEntries it sends;      *)
(*   - one goroutine per administrator's call.                             *)
(* An action is a stretch of one of these that the others cannot see into. *)
(* What a goroutine keeps in local variables over an unlock is state here: *)
(* the election runCandidate is holding, the term a heartbeat goroutine    *)
(* was started with, the index an administrator's call waits for.          *)
(***************************************************************************)
EXTENDS VoterSet, RaftLog, FiniteSetsExt

CONSTANTS
  Founders,      \* the nodes started with the other founders as Peers; the
                 \* others are started with none and ask to join
  Mode,          \* Config.Mode
  AutoPromote,   \* Config.AutoPromote
  LagThreshold,  \* Config.AutoPromoteLagThreshold
  AdminOps,      \* the membership changes the administrator may ask for
  None,          \* the empty NodeID
  Candidates,        \* bound: the nodes whose election timer may fire
  MaxTerm, MaxLog,   \* bounds: no election, no log entry beyond these
  MaxInFlight        \* bound: AppendEntries under way at a time

MembershipChange == [action : {"add", "remove"}, key : MemberKey]
LogEntry         == [term : Nat, mc : MembershipChange]

ASSUME NodeAssumption     == IsFiniteSet(Node) /\ None \notin Node
ASSUME FoundersAssumption == Founders \subseteq Node
ASSUME ModeAssumption     == /\ Mode \in {"static", "dynamic"}
                             /\ Mode = "static" => Founders = Node
ASSUME OptionAssumption   == /\ AutoPromote \in BOOLEAN
                             /\ LagThreshold \in Int
                             /\ AdminOps \subseteq MembershipChange
ASSUME BoundAssumption    == /\ Candidates \subseteq Node
                             /\ MaxTerm \in Nat /\ MaxLog \in Nat /\ MaxInFlight \in Nat

VARIABLES
  state, currentTerm, votedFor,
  leaderID,              \* leaderID and leaderAddr, always assigned together
  log, commitIndex, lastApplied,
  members,               \* the VoterSet
  nextIndex, matchIndex, \* by peer address; a missing entry reads as 0
  pendingPromotion,
  heartbeatC,            \* does the channel of capacity 1 hold a signal?
  pc,                    \* where run() is, see RunLocation
  campaign               \* local variables of runCandidate

VARIABLES   \* messages, and the goroutines that wait for their answers
  voteRequests, voteResponses,
  heartbeats,            \* goroutines of broadcastHeartbeat, request not built
  appendRequests, appendResponses,
  ops,                   \* AddVoter and RemoveVoter calls under way
  joins                  \* JoinAsObserver calls under way

electionVars    == <<state, currentTerm, votedFor, leaderID>>
logVars         == <<log, commitIndex, lastApplied, members>>
replicationVars == <<nextIndex, matchIndex, pendingPromotion>>
runVars         == <<pc, campaign>>
voteMsgs        == <<voteRequests, voteResponses>>
appendMsgs      == <<heartbeats, appendRequests, appendResponses>>
calls           == <<ops, joins>>

vars == <<electionVars, logVars, replicationVars, heartbeatC, runVars,
          voteMsgs, appendMsgs, calls>>

-----------------------------------------------------------------------------
(* "expired": the election timer has fired and state is not yet Candidate; *)
(* "candidate" and "leader": run() has yet to enter runCandidate or        *)
(* runLeader; "standing": the election has begun and no vote is asked for; *)
(* "voting" and "leading": run() is in the loops of the two.               *)
RunLocation == {"follower", "expired", "candidate", "standing", "voting",
                "leader", "leading"}

Slot == 1..MaxInFlight

Campaign   == [term : Nat, needed : Nat, votes : SUBSET MemberKey]
NoCampaign == [term |-> 0, needed |-> 0, votes |-> {}]

VoteRequest  == [from : Node, peer : MemberKey, term : Nat,
                 lastLogIndex : Nat, lastLogTerm : Nat]
VoteResponse == [to : Node, peer : MemberKey, term : Nat, granted : BOOLEAN]

\* A goroutine of broadcastHeartbeat: just started, past its read of nextIndex,
\* or past its read of the previous entry's term as well.
Heartbeat       == {h \in [from : Node, peer : MemberKey, slot : Slot,
                           term : Nat, leaderCommit : Nat,
                           stage : {"started", "indexed", "read"},
                           nextIdx : Nat, prevLogTerm : Nat] :
                      h.stage # "started" => h.nextIdx > 0}
AppendRequest   == [from : Node, peer : MemberKey, slot : Slot,
                    term : Nat, leaderCommit : Nat,
                    prevLogIndex : Nat, prevLogTerm : Nat, entries : Seq(LogEntry)]
\* match is the index the goroutine computes from the request it sent.
AppendResponse  == [from : Node, peer : MemberKey, slot : Slot, match : Nat,
                    term : Nat, success : BOOLEAN, nextIndex : Nat]

\* An administrator's call: not yet past the check of n.state, past it, or
\* waiting for the commit of entry idx.
Op == [node : Node, mc : MembershipChange, auto : BOOLEAN,
       stage : {"called", "checked", "waiting"}, idx : Nat]

\* A call of JoinAsObserver on node by joiner: past the check of n.state, or
\* past AddObserver too.
Join == [node : Node, joiner : Node, stage : {"checked", "added"}]

-----------------------------------------------------------------------------
(* NewNode: self is a voter, and so is every peer, filed under its address *)
Seed(n) == [k \in MemberKey |->
              IF \/ k = ID(n)
                 \/ n \in Founders /\ k \in {Placeholder(p) : p \in Founders \ {n}}
              THEN "voter" ELSE newVoterSet[k]]

Init ==
  /\ state       = [n \in Node |-> "Follower"]
  /\ currentTerm = [n \in Node |-> 0]
  /\ votedFor    = [n \in Node |-> None]
  /\ leaderID    = [n \in Node |-> None]
  /\ log         = [n \in Node |-> <<>>]
  /\ commitIndex = [n \in Node |-> 0]
  /\ lastApplied = [n \in Node |-> 0]
  /\ members     = [n \in Node |-> Seed(n)]
  /\ nextIndex   = [n \in Node |-> [p \in Node |-> 0]]
  /\ matchIndex  = [n \in Node |-> [p \in Node |-> 0]]
  /\ pendingPromotion = [n \in Node |-> {}]
  /\ heartbeatC  = [n \in Node |-> FALSE]
  /\ pc          = [n \in Node |-> "follower"]
  /\ campaign    = [n \in Node |-> NoCampaign]
  /\ voteRequests = {} /\ voteResponses = {}
  /\ heartbeats = {} /\ appendRequests = {} /\ appendResponses = {}
  /\ ops = {} /\ joins = {}

-----------------------------------------------------------------------------
(* run(): follower and candidate                                           *)

\* The bound on elections.  Without it a node may always start another one.
mayElect(i) == i \in Candidates /\ currentTerm[i] < MaxTerm

\* The election timer fires.  An observer only rearms it.
FollowerTimeout(i) ==
  /\ pc[i] = "follower"
  /\ mayElect(i)
  /\ IsVoter(members[i], ID(i))
  /\ pc' = [pc EXCEPT ![i] = "expired"]
  /\ UNCHANGED <<electionVars, logVars, replicationVars, heartbeatC, campaign,
                 voteMsgs, appendMsgs, calls>>

\* A handler may have run since the node was found to be a voter.
BecomeCandidate(i) ==
  /\ pc[i] = "expired"
  /\ state' = [state EXCEPT ![i] = "Candidate"]
  /\ pc' = [pc EXCEPT ![i] = "candidate"]
  /\ UNCHANGED <<currentTerm, votedFor, leaderID, logVars, replicationVars,
                 heartbeatC, campaign, voteMsgs, appendMsgs, calls>>

\* A heartbeat is taken from the channel and the election timer rearmed.
ResetElectionTimer(i) ==
  /\ pc[i] = "follower"
  /\ heartbeatC[i]
  /\ heartbeatC' = [heartbeatC EXCEPT ![i] = FALSE]
  /\ UNCHANGED <<electionVars, logVars, replicationVars, runVars,
                 voteMsgs, appendMsgs, calls>>

\* run() finds that a handler has made the node a follower before it could
\* enter runCandidate or runLeader.
ReturnToFollower(i) ==
  /\ pc[i] \in {"candidate", "leader"}
  /\ state[i] = "Follower"
  /\ pc' = [pc EXCEPT ![i] = "follower"]
  /\ campaign' = [campaign EXCEPT ![i] = NoCampaign]
  /\ UNCHANGED <<electionVars, logVars, replicationVars, heartbeatC,
                 voteMsgs, appendMsgs, calls>>

\* runCandidate, its first critical section: n.state is not looked at again.
StartElection(i) ==
  LET term == currentTerm[i] + 1 IN
  /\ pc[i] = "candidate"
  /\ mayElect(i)
  /\ currentTerm' = [currentTerm EXCEPT ![i] = term]
  /\ votedFor' = [votedFor EXCEPT ![i] = i]
  /\ pc' = [pc EXCEPT ![i] = "standing"]
  /\ campaign' = [campaign EXCEPT ![i] =
                    [term |-> term, needed |-> 0, votes |-> {ID(i)}]]
  /\ UNCHANGED <<state, leaderID, logVars, replicationVars, heartbeatC,
                 voteMsgs, appendMsgs, calls>>

\* The rest of runCandidate up to its loop: voters and log are read after the
\* unlock, when handlers may have changed them, for the term taken before it.
RequestVotes(i) ==
  /\ pc[i] = "standing"
  /\ pc' = [pc EXCEPT ![i] = "voting"]
  /\ campaign' = [campaign EXCEPT ![i].needed = QuorumSize(members[i])]
  /\ voteRequests' = voteRequests \cup
       {[from |-> i, peer |-> k, term |-> campaign[i].term,
         lastLogIndex |-> lastIndex(log[i]), lastLogTerm |-> lastTerm(log[i])] :
          k \in Voters(members[i], ID(i))}
  /\ UNCHANGED <<electionVars, logVars, replicationVars, heartbeatC,
                 voteResponses, appendMsgs, calls>>

\* No quorum in time: run() goes by n.state, which a handler may have changed.
ElectionTimeout(i) ==
  /\ pc[i] = "voting"
  /\ state[i] = "Candidate" => mayElect(i)
  /\ pc' = [pc EXCEPT ![i] = IF state[i] = "Candidate" THEN "candidate" ELSE "follower"]
  /\ campaign' = [campaign EXCEPT ![i] = NoCampaign]
  /\ UNCHANGED <<electionVars, logVars, replicationVars, heartbeatC,
                 voteMsgs, appendMsgs, calls>>

\* A heartbeat ends the election, whatever its term was.
CandidateHeartbeat(i) ==
  /\ pc[i] = "voting"
  /\ heartbeatC[i]
  /\ heartbeatC' = [heartbeatC EXCEPT ![i] = FALSE]
  /\ state' = [state EXCEPT ![i] = "Follower"]
  /\ pc' = [pc EXCEPT ![i] = "follower"]
  /\ campaign' = [campaign EXCEPT ![i] = NoCampaign]
  /\ UNCHANGED <<currentTerm, votedFor, leaderID, logVars, replicationVars,
                 voteMsgs, appendMsgs, calls>>

-----------------------------------------------------------------------------
(* Votes                                                                   *)

\* The leader's bookkeeping starts over for the other voters; what it holds
\* for observers stays.
becomeLeader(i) ==
  LET peers == {AddrOf(k) : k \in Voters(members[i], ID(i))} IN
  /\ state' = [state EXCEPT ![i] = "Leader"]
  /\ leaderID' = [leaderID EXCEPT ![i] = i]
  /\ nextIndex' = [nextIndex EXCEPT ![i] =
                     [p \in Node |-> IF p \in peers THEN lastIndex(log[i]) + 1 ELSE @[p]]]
  /\ matchIndex' = [matchIndex EXCEPT ![i] =
                      [p \in Node |-> IF p \in peers THEN 0 ELSE @[p]]]
  /\ pendingPromotion' = [pendingPromotion EXCEPT ![i] = {}]
  /\ pc' = [pc EXCEPT ![i] = "leader"]

\* A granted vote comes out of voteCh.  The channel is local to the election
\* it was made for: a vote for an earlier one reaches nobody.  Neither n.state
\* nor n.currentTerm is compared with the election before becomeLeader.
ReceiveVote(i) == \E m \in voteResponses :
  LET votes == campaign[i].votes \cup {m.peer} IN
  /\ pc[i] = "voting"
  /\ m.to = i /\ m.granted /\ m.term = campaign[i].term
  /\ voteResponses' = voteResponses \ {m}
  /\ campaign' = [campaign EXCEPT ![i].votes = votes]
  /\ IF Cardinality(votes) >= campaign[i].needed
     THEN becomeLeader(i)
     ELSE UNCHANGED <<state, leaderID, replicationVars, pc>>
  /\ UNCHANGED <<currentTerm, votedFor, logVars, heartbeatC, voteRequests,
                 appendMsgs, calls>>

\* Any answer that carries a higher term makes the node a follower.
stepDown(i, term) ==
  /\ currentTerm' = [currentTerm EXCEPT ![i] = term]
  /\ state' = [state EXCEPT ![i] = "Follower"]
  /\ votedFor' = [votedFor EXCEPT ![i] = None]

\* A refusal that carries a higher term.  Any other changes nothing.
VoteDenied(i) == \E m \in voteResponses :
  /\ m.to = i /\ ~m.granted
  /\ m.term > currentTerm[i]
  /\ stepDown(i, m.term)
  /\ voteResponses' = voteResponses \ {m}
  /\ UNCHANGED <<leaderID, logVars, replicationVars, heartbeatC, runVars,
                 voteRequests, appendMsgs, calls>>

\* Seeing a higher term forgets the vote of the lower one.
voteIn(i, term) == IF term > currentTerm[i] THEN None ELSE votedFor[i]

alreadyVotedNever(i, m) == FALSE   \* mutant

alreadyVoted(i, m) == voteIn(i, m.term) \notin {None, m.from}

logOK(i, m) ==
  \/ m.lastLogTerm > lastTerm(log[i])
  \/ m.lastLogTerm = lastTerm(log[i]) /\ m.lastLogIndex >= lastIndex(log[i])

\* Whether the node is a voter is not asked.  A refusal carries the term the
\* node had before the request: unless that is higher than the candidate's, it
\* would change nothing and is left out.
handleVoteRequest(i) == \E m \in voteRequests :
  LET current == m.term >= currentTerm[i]
      granted == current /\ ~alreadyVoted(i, m) /\ logOK(i, m)
      newer   == m.term > currentTerm[i]
  IN
  /\ AddrOf(m.peer) = i
  /\ voteRequests' = voteRequests \ {m}
  /\ currentTerm' = [currentTerm EXCEPT ![i] = IF newer THEN m.term ELSE @]
  /\ state' = [state EXCEPT ![i] = IF newer THEN "Follower" ELSE @]
  /\ votedFor' = [votedFor EXCEPT ![i] = IF granted THEN m.from ELSE voteIn(i, m.term)]
  /\ voteResponses' = voteResponses \cup
       {r \in {[to |-> m.from, peer |-> m.peer, granted |-> granted,
                term |-> IF granted THEN m.term ELSE currentTerm[i]]} :
          granted \/ ~current}
  /\ UNCHANGED <<leaderID, logVars, replicationVars, heartbeatC, runVars,
                 appendMsgs, calls>>

-----------------------------------------------------------------------------
(* run(): leader                                                           *)

InFlight == {<<m.from, m.peer, m.slot>> : m \in heartbeats}
       \cup {<<m.from, m.peer, m.slot>> : m \in appendRequests}
       \cup {<<m.from, m.peer, m.slot>> : m \in appendResponses}

FreeSlots(i, k) == {s \in Slot : <<i, k, s>> \notin InFlight}

\* One goroutine per peer, started with the current term and commit index;
\* n.state is not looked at.  The peers not reached are those for which the
\* request will be lost.
broadcastHeartbeat(i) ==
  \E reached \in SUBSET {k \in allPeers(members[i], ID(i)) : FreeSlots(i, k) # {}} :
  /\ Cardinality(InFlight) + Cardinality(reached) <= MaxInFlight
  /\ heartbeats' = heartbeats \cup
       {[from |-> i, peer |-> k, slot |-> Min(FreeSlots(i, k)),
         term |-> currentTerm[i], leaderCommit |-> commitIndex[i],
         stage |-> "started", nextIdx |-> 0, prevLogTerm |-> 0] : k \in reached}

\* runLeader up to its loop.
FirstBroadcast(i) ==
  /\ pc[i] = "leader"
  /\ broadcastHeartbeat(i)
  /\ pc' = [pc EXCEPT ![i] = "leading"]
  /\ UNCHANGED <<electionVars, logVars, replicationVars, heartbeatC, campaign,
                 voteMsgs, appendRequests, appendResponses, calls>>

threshold == IF LagThreshold <= 0 THEN 10 ELSE LagThreshold

\* The observers maybePromoteObservers has not yet dealt with.
caughtUp(i) == {k \in MemberKey \ pendingPromotion[i] :
                  /\ members[i][k] = "observer"
                  /\ lastIndex(log[i]) - matchIndex[i][AddrOf(k)] <= threshold}

\* An observer is marked pending whether it is promoted or only reported.
maybePromoteObservers(i) ==
  /\ pendingPromotion' = [pendingPromotion EXCEPT ![i] =
                            IF Mode = "dynamic" THEN @ \cup caughtUp(i) ELSE @]
  /\ ops' = ops \cup {[node |-> i, mc |-> [action |-> "add", key |-> k],
                       auto |-> TRUE, stage |-> "called", idx |-> 0] :
                        k \in {o \in caughtUp(i) : Mode = "dynamic" /\ AutoPromote}}

\* The heartbeat ticker fires.  The node broadcasts before it finds out that
\* it is the leader no more.
LeaderTick(i) ==
  /\ pc[i] = "leading"
  /\ broadcastHeartbeat(i)
  /\ \/ /\ state[i] = "Leader"
        /\ maybePromoteObservers(i)
        /\ UNCHANGED runVars
     \/ /\ state[i] # "Leader"
        /\ pc' = [pc EXCEPT ![i] = "follower"]
        /\ campaign' = [campaign EXCEPT ![i] = NoCampaign]
        /\ UNCHANGED <<pendingPromotion, ops>>
  /\ UNCHANGED <<electionVars, logVars, nextIndex, matchIndex, heartbeatC,
                 voteMsgs, appendRequests, appendResponses, joins>>

-----------------------------------------------------------------------------
(* AppendEntries                                                           *)

\* A peer that has no index yet, because it became a member without joining
\* here, is taken to be up to date.
nextFor(i, addr) ==
  IF nextIndex[i][addr] = 0 THEN lastIndex(log[i]) + 1 ELSE nextIndex[i][addr]

\* The goroutine for one peer, started with a term and a commit index, reads the
\* peer's nextIndex under the lock, ...
ReadNextIndex(i) == \E h \in heartbeats :
  LET next == nextFor(i, AddrOf(h.peer))
  IN
  /\ h.from = i /\ h.stage = "started"
  /\ nextIndex' = [nextIndex EXCEPT ![i][AddrOf(h.peer)] = next]
  /\ heartbeats' = (heartbeats \ {h}) \cup {[h EXCEPT !.stage = "indexed", !.nextIdx = next]}
  /\ UNCHANGED <<electionVars, logVars, matchIndex, pendingPromotion, heartbeatC,
                 runVars, voteMsgs, appendRequests, appendResponses, calls>>

\* ... then, without it, the term of the entry before, ...
ReadPrevious(i) == \E h \in heartbeats :
  /\ h.from = i /\ h.stage = "indexed"
  /\ heartbeats' = (heartbeats \ {h}) \cup
       {[h EXCEPT !.stage = "read", !.prevLogTerm = termAt(log[i], h.nextIdx - 1)]}
  /\ UNCHANGED <<electionVars, logVars, replicationVars, heartbeatC,
                 runVars, voteMsgs, appendRequests, appendResponses, calls>>

\* ... and then the entries from there on, with which it sends its request.
PrepareAppend(i) == \E h \in heartbeats :
  /\ h.from = i /\ h.stage = "read"
  /\ heartbeats' = heartbeats \ {h}
  /\ appendRequests' = appendRequests \cup
       {[from |-> i, peer |-> h.peer, slot |-> h.slot,
         term |-> h.term, leaderCommit |-> h.leaderCommit,
         prevLogIndex |-> h.nextIdx - 1, prevLogTerm |-> h.prevLogTerm,
         entries |-> entriesFrom(log[i], h.nextIdx)]}
  /\ UNCHANGED <<electionVars, logVars, replicationVars, heartbeatC,
                 runVars, voteMsgs, appendResponses, calls>>

buildRequest(i) == ReadNextIndex(i) \/ ReadPrevious(i) \/ PrepareAppend(i)

\* The connection breaks before the request arrives or before its answer does.
RpcFails(i) ==
  /\ \/ \E m \in appendRequests :
          /\ m.from = i
          /\ appendRequests' = appendRequests \ {m}
          /\ UNCHANGED appendResponses
     \/ \E m \in appendResponses :
          /\ m.from = i
          /\ appendResponses' = appendResponses \ {m}
          /\ UNCHANGED appendRequests
  /\ UNCHANGED <<electionVars, logVars, replicationVars, heartbeatC, runVars,
                 voteMsgs, heartbeats, calls>>

\* applyCommitted up to commitIndex c: what the entries up to c make of the
\* VoterSet v.  The last entry for a member decides; an added voter is filed
\* under the NodeID of the entry.
newlyAppliedOnlyLast(l, applied, c) ==   \* mutant
  {n \in {c} : n > applied /\ hasEntry(l, n)}

newlyApplied(l, applied, c) == {n \in (applied + 1)..c : hasEntry(l, n)}

applyMembership(v, l, applied, c) ==
  [k \in MemberKey |->
     LET touching == {n \in newlyApplied(l, applied, c) : l[n].mc.key = k} IN
     IF touching = {} THEN v[k]
     ELSE IF l[Max(touching)].mc.action = "add"
          THEN AddVoter(v, k)[k] ELSE Remove(v, k)[k]]

removesSelf(i, l, applied, c) ==
  \E n \in newlyApplied(l, applied, c) : l[n].mc = [action |-> "remove", key |-> ID(i)]

replyToOffByOne(m, success, term, hint) ==   \* mutant
  [from |-> m.from, peer |-> m.peer, slot |-> m.slot,
   match |-> m.prevLogIndex + Len(m.entries) - 1,
   term |-> term, success |-> success, nextIndex |-> hint]

replyTo(m, success, term, hint) ==
  [from |-> m.from, peer |-> m.peer, slot |-> m.slot,
   match |-> m.prevLogIndex + Len(m.entries),
   term |-> term, success |-> success, nextIndex |-> hint]

\* handleAppendEntries, first return: the sender is behind.
RejectAppendEntries(i) == \E m \in appendRequests :
  /\ AddrOf(m.peer) = i
  /\ m.term < currentTerm[i]
  /\ appendRequests' = appendRequests \ {m}
  /\ appendResponses' = appendResponses \cup {replyTo(m, FALSE, currentTerm[i], 0)}
  /\ UNCHANGED <<electionVars, logVars, replicationVars, heartbeatC, runVars,
                 voteMsgs, heartbeats, calls>>

followLeaderKeepsState(i, m) ==   \* mutant
  /\ AddrOf(m.peer) = i
  /\ m.term >= currentTerm[i]
  /\ appendRequests' = appendRequests \ {m}
  /\ currentTerm' = [currentTerm EXCEPT ![i] = m.term]
  /\ votedFor' = [votedFor EXCEPT ![i] = voteIn(i, m.term)]
  /\ leaderID' = [leaderID EXCEPT ![i] = m.from]
  /\ heartbeatC' = [heartbeatC EXCEPT ![i] = TRUE]
  /\ UNCHANGED state

\* What handleAppendEntries does for every sender that is not behind.
followLeader(i, m) ==
  /\ AddrOf(m.peer) = i
  /\ m.term >= currentTerm[i]
  /\ appendRequests' = appendRequests \ {m}
  /\ currentTerm' = [currentTerm EXCEPT ![i] = m.term]
  /\ votedFor' = [votedFor EXCEPT ![i] = voteIn(i, m.term)]
  /\ state' = [state EXCEPT ![i] = "Follower"]
  /\ leaderID' = [leaderID EXCEPT ![i] = m.from]
  /\ heartbeatC' = [heartbeatC EXCEPT ![i] = TRUE]

prevMatches(i, m) ==
  \/ m.prevLogIndex = 0
  \/ /\ hasEntry(log[i], m.prevLogIndex)
     /\ termAt(log[i], m.prevLogIndex) = m.prevLogTerm

\* Second return: the entry before the new ones is missing or different.  The
\* answer carries the term the node had before the request.
MismatchAppendEntries(i) == \E m \in appendRequests :
  /\ followLeader(i, m)
  /\ ~prevMatches(i, m)
  /\ members' = [members EXCEPT ![i] = UpdateID(@, m.from)]
  /\ appendResponses' = appendResponses \cup
       {replyTo(m, FALSE, currentTerm[i], lastIndex(log[i]) + 1)}
  /\ UNCHANGED <<log, commitIndex, lastApplied, replicationVars, runVars,
                 voteMsgs, heartbeats, calls>>

logAfter(i, m) ==
  IF m.entries = <<>> THEN log[i] ELSE append(log[i], m.prevLogIndex, m.entries)

commitAfter(i, m) ==
  IF m.leaderCommit > commitIndex[i]
  THEN Min({m.leaderCommit, lastIndex(logAfter(i, m))})
  ELSE commitIndex[i]

\* Third return: the entries are stored and the commit index followed.
AcceptAppendEntries(i) == \E m \in appendRequests :
  LET l == logAfter(i, m)
      c == commitAfter(i, m)
  IN
  /\ followLeader(i, m)
  /\ prevMatches(i, m)
  /\ log' = [log EXCEPT ![i] = l]
  /\ commitIndex' = [commitIndex EXCEPT ![i] = c]
  /\ lastApplied' = [lastApplied EXCEPT ![i] = Max({@, c})]
  /\ members' = [members EXCEPT ![i] =
                   applyMembership(UpdateID(@, m.from), l, lastApplied[i], c)]
  /\ appendResponses' = appendResponses \cup {replyTo(m, TRUE, m.term, 0)}
  /\ UNCHANGED <<replicationVars, runVars, voteMsgs, heartbeats, calls>>

-----------------------------------------------------------------------------
(* The rest of the AppendEntries goroutine: what an answer does            *)

\* Answer m, of a request that node i sent, is read.
takeResponse(i, m) ==
  /\ m.from = i
  /\ appendResponses' = appendResponses \ {m}

ResponseStepDown(i) == \E m \in appendResponses :
  /\ takeResponse(i, m)
  /\ m.term > currentTerm[i]
  /\ stepDown(i, m.term)
  /\ UNCHANGED <<leaderID, logVars, replicationVars, heartbeatC, runVars,
                 voteMsgs, heartbeats, appendRequests, calls>>

\* The entries above commitIndex that maybeAdvanceCommitIndex would commit,
\* given the matchIndex mi.  The node counts itself, voter or not.
replicated(i, mi) ==
  {n \in (commitIndex[i] + 1)..lastIndex(log[i]) :
     /\ termAt(log[i], n) = currentTerm[i]
     /\ LET stored == {k \in Voters(members[i], ID(i)) : mi[AddrOf(k)] >= n}
        IN  1 + Cardinality(stored) >= QuorumSize(members[i])}

\* Neither n.state nor the term of the request is looked at.
ResponseSuccess(i) == \E m \in appendResponses :
  LET mi == [matchIndex[i] EXCEPT ![AddrOf(m.peer)] = m.match]
      c  == Max({commitIndex[i]} \cup replicated(i, mi))
  IN
  /\ takeResponse(i, m)
  /\ m.term <= currentTerm[i]
  /\ m.success
  /\ matchIndex' = [matchIndex EXCEPT ![i] = mi]
  /\ nextIndex' = [nextIndex EXCEPT ![i][AddrOf(m.peer)] = m.match + 1]
  /\ commitIndex' = [commitIndex EXCEPT ![i] = c]
  /\ lastApplied' = [lastApplied EXCEPT ![i] = Max({@, c})]
  /\ members' = [members EXCEPT ![i] = applyMembership(@, log[i], lastApplied[i], c)]
  /\ state' = [state EXCEPT ![i] =
                 IF removesSelf(i, log[i], lastApplied[i], c) THEN "Follower" ELSE @]
  /\ UNCHANGED <<currentTerm, votedFor, leaderID, log, pendingPromotion, heartbeatC,
                 runVars, voteMsgs, heartbeats, appendRequests, calls>>

backoffHintInverted(next, hint) == IF hint > next THEN hint ELSE next   \* mutant

\* The follower's hint when it is lower, else one step back.
backoff(next, hint) ==
  IF hint > 0 /\ hint < next THEN hint
  ELSE IF next > 1 THEN next - 1 ELSE next

ResponseBackoff(i) == \E m \in appendResponses :
  /\ takeResponse(i, m)
  /\ m.term <= currentTerm[i]
  /\ ~m.success
  /\ nextIndex' = [nextIndex EXCEPT ![i][AddrOf(m.peer)] = backoff(@, m.nextIndex)]
  /\ UNCHANGED <<electionVars, logVars, matchIndex, pendingPromotion, heartbeatC,
                 runVars, voteMsgs, heartbeats, appendRequests, calls>>

-----------------------------------------------------------------------------
(* Membership                                                              *)

\* A new controller asks to join: the checks.  One call under way for each
\* controller that asks.
JoinAsObserver(i) == \E j \in Node \ (Founders \cup {i}) :
  /\ Mode = "dynamic"
  /\ state[i] = "Leader"
  /\ \A c \in joins : ~(c.node = i /\ c.joiner = j)
  /\ joins' = joins \cup {[node |-> i, joiner |-> j, stage |-> "checked"]}
  /\ UNCHANGED <<electionVars, logVars, replicationVars, heartbeatC, runVars,
                 voteMsgs, appendMsgs, ops>>

\* AddObserver, outside the lock: the node may be the leader no more.
JoinAddObserver(i) == \E c \in joins :
  /\ c.node = i /\ c.stage = "checked"
  /\ members' = [members EXCEPT ![i] = AddObserver(@, ID(c.joiner))]
  /\ joins' = (joins \ {c}) \cup {[c EXCEPT !.stage = "added"]}
  /\ UNCHANGED <<electionVars, log, commitIndex, lastApplied, replicationVars,
                 heartbeatC, runVars, voteMsgs, appendMsgs, ops>>

\* The indexes start over, also those of a joiner that has them already.
JoinResetIndexes(i) == \E c \in joins :
  /\ c.node = i /\ c.stage = "added"
  /\ nextIndex' = [nextIndex EXCEPT ![i][c.joiner] = lastIndex(log[i]) + 1]
  /\ matchIndex' = [matchIndex EXCEPT ![i][c.joiner] = 0]
  /\ joins' = joins \ {c}
  /\ UNCHANGED <<electionVars, logVars, pendingPromotion, heartbeatC, runVars,
                 voteMsgs, appendMsgs, ops>>

membershipAllowed(i) == state[i] = "Leader" /\ Mode = "dynamic"

\* AddVoter and RemoveVoter: the checks.  One call under way for each change.
AdminCall(i) == \E mc \in AdminOps :
  /\ membershipAllowed(i)
  /\ \A op \in ops : ~(op.node = i /\ op.mc = mc /\ ~op.auto)
  /\ ops' = ops \cup {[node |-> i, mc |-> mc, auto |-> FALSE,
                       stage |-> "checked", idx |-> 0]}
  /\ UNCHANGED <<electionVars, logVars, replicationVars, heartbeatC, runVars,
                 voteMsgs, appendMsgs, joins>>

\* The checks of the AddVoter call that maybePromoteObservers starts.
AutoPromoteCall(i) == \E op \in ops :
  /\ op.node = i /\ op.stage = "called"
  /\ membershipAllowed(i)
  /\ ops' = (ops \ {op}) \cup {[op EXCEPT !.stage = "checked"]}
  /\ UNCHANGED <<electionVars, logVars, replicationVars, heartbeatC, runVars,
                 voteMsgs, appendMsgs, joins>>

\* appendAndWaitCommit up to its wait.  n.state is not checked again.
AppendAndWait(i) == \E op \in ops :
  /\ op.node = i /\ op.stage = "checked"
  /\ lastIndex(log[i]) < MaxLog
  /\ log' = [log EXCEPT ![i] = appendOne(@, [term |-> currentTerm[i], mc |-> op.mc])]
  /\ ops' = (ops \ {op}) \cup {[op EXCEPT !.stage = "waiting", !.idx = lastIndex(log[i]) + 1]}
  /\ UNCHANGED <<electionVars, commitIndex, lastApplied, members, replicationVars,
                 heartbeatC, runVars, voteMsgs, appendMsgs, joins>>

\* The wait ends well when the commit index has passed the entry's index,
\* whichever entry is there.
AdminSucceeds(i) == \E op \in ops :
  /\ op.node = i /\ op.stage = "waiting"
  /\ commitIndex[i] >= op.idx
  /\ ops' = ops \ {op}
  /\ UNCHANGED <<electionVars, logVars, replicationVars, heartbeatC, runVars,
                 voteMsgs, appendMsgs, joins>>

\* It ends badly after five seconds, or at once if the promotion was refused.
\* The entry stays in the log; the observer may be promoted again.
AdminFails(i) == \E op \in ops :
  /\ op.node = i
  /\ op.stage = "called" => ~membershipAllowed(i)
  /\ op.stage # "checked"
  /\ ops' = ops \ {op}
  /\ pendingPromotion' = [pendingPromotion EXCEPT ![i] =
                            IF op.auto THEN @ \ {op.mc.key} ELSE @]
  /\ UNCHANGED <<electionVars, logVars, nextIndex, matchIndex, heartbeatC, runVars,
                 voteMsgs, appendMsgs, joins>>

-----------------------------------------------------------------------------
runStep(i) ==
  \/ FollowerTimeout(i) \/ BecomeCandidate(i) \/ ResetElectionTimer(i)
  \/ ReturnToFollower(i)
  \/ StartElection(i) \/ RequestVotes(i) \/ ElectionTimeout(i)
  \/ CandidateHeartbeat(i) \/ ReceiveVote(i)
  \/ FirstBroadcast(i) \/ LeaderTick(i)

handlerStep(i) ==
  \/ handleVoteRequest(i)
  \/ RejectAppendEntries(i) \/ MismatchAppendEntries(i) \/ AcceptAppendEntries(i)

rpcStep(i) ==
  \/ VoteDenied(i) \/ buildRequest(i) \/ RpcFails(i)
  \/ ResponseStepDown(i) \/ ResponseSuccess(i) \/ ResponseBackoff(i)

adminStep(i) ==
  \/ JoinAsObserver(i) \/ JoinAddObserver(i) \/ JoinResetIndexes(i)
  \/ AdminCall(i) \/ AutoPromoteCall(i) \/ AppendAndWait(i) \/ AdminSucceeds(i) \/ AdminFails(i)

Next == \E i \in Node : runStep(i) \/ handlerStep(i) \/ rpcStep(i) \/ adminStep(i)

Spec == Init /\ [][Next]_vars

\* Goroutines that can run do run; of the AppendEntries that keep being sent to
\* a node, and of its answers, not all are lost.
reaches(n)  == \E h \in heartbeats' \ heartbeats : AddrOf(h.peer) = n
answered(n) == \E m \in appendResponses \ appendResponses' : AddrOf(m.peer) = n

Fairness ==
  /\ \A n \in {m \in Node : Candidates \ {m} # {}} :   \* the nodes another may lead
       /\ SF_vars(\E i \in Candidates : LeaderTick(i) /\ reaches(n))
       /\ SF_vars(RejectAppendEntries(n) \/ MismatchAppendEntries(n) \/ AcceptAppendEntries(n))
       /\ SF_vars(\E i \in Candidates : /\ \/ ResponseStepDown(i) \/ ResponseSuccess(i)
                                            \/ ResponseBackoff(i)
                                         /\ answered(n))
  /\ \A i \in Candidates :                             \* the nodes that may lead
       /\ WF_vars(AutoPromoteCall(i) \/ AppendAndWait(i))
       /\ WF_vars(FirstBroadcast(i) \/ buildRequest(i))

-----------------------------------------------------------------------------
(* Properties                                                              *)

\* Every variable keeps the type its Go declaration and the messages give it.
TypeOK ==
  /\ state       \in [Node -> {"Follower", "Candidate", "Leader"}]
  /\ currentTerm \in [Node -> Nat]
  /\ votedFor    \in [Node -> Node \cup {None}]
  /\ leaderID    \in [Node -> Node \cup {None}]
  /\ log         \in [Node -> Seq(LogEntry)]
  /\ commitIndex \in [Node -> Nat]
  /\ lastApplied \in [Node -> Nat]
  /\ members     \in [Node -> VoterSets]
  /\ nextIndex   \in [Node -> [Node -> Nat]]
  /\ matchIndex  \in [Node -> [Node -> Nat]]
  /\ pendingPromotion \in [Node -> SUBSET MemberKey]
  /\ heartbeatC  \in [Node -> BOOLEAN]
  /\ pc          \in [Node -> RunLocation]
  /\ campaign    \in [Node -> Campaign]
  /\ voteRequests    \subseteq VoteRequest
  /\ voteResponses   \subseteq VoteResponse
  /\ heartbeats      \subseteq Heartbeat
  /\ appendRequests  \subseteq AppendRequest
  /\ appendResponses \subseteq AppendResponse
  /\ ops             \subseteq Op
  /\ joins           \subseteq Join

\* The vote of node v in term t went to candidate c: it is on its way to c, or
\* c has counted it (its own vote included).
Granted(v, t, c) ==
  \/ \E m \in voteResponses : m.granted /\ AddrOf(m.peer) = v /\ m.to = c /\ m.term = t
  \/ campaign[c].term = t /\ \E k \in campaign[c].votes : AddrOf(k) = v

\* A node's vote of one term goes to one candidate only, however requests,
\* heartbeats of other terms and its own elections interleave in
\* handleVoteRequest, handleAppendEntries and runCandidate.
OneVotePerTerm ==
  \A v, c1, c2 \in Node : \A t \in 1..MaxTerm :
    Granted(v, t, c1) /\ Granted(v, t, c2) => c1 = c2

Elected(i) == pc[i] \in {"leader", "leading"}

\* Two nodes in or before runLeader have won elections of different terms: in
\* static mode runCandidate counts each peer once and two quorums overlap,
\* also while placeholder IDs are being replaced.
ElectionsWonInDistinctTerms ==
  \A i, j \in Node :
    Elected(i) /\ Elected(j) /\ campaign[i].term = campaign[j].term => i = j

\* In static mode the voters are the configured nodes, each counted once: no
\* heartbeat, however late or from whomever, makes UpdateID lose or double one.
StaticVotersFixed ==
  \A i \in Node : /\ VoterAddrs(members[i]) = Node
                  /\ \A k1, k2 \in VoterKeys(members[i]) : AddrOf(k1) = AddrOf(k2) => k1 = k2

\* A step that changes who votes, as a node sees it, applies a log entry:
\* neither a join nor the correction of a placeholder ID does.
VotersChangeOnlyByLog ==
  [][\A i \in Node : VoterAddrs(members[i])' # VoterAddrs(members[i])
                       => lastApplied[i]' > lastApplied[i]]_vars

\* While only one node has led, in however many terms, each log is a prefix of
\* any longer one: reordered, repeated and lost AppendEntries never leave a gap
\* or a swap.
LogsArePrefixes ==
  \A i, j \in Node : Len(log[i]) <= Len(log[j]) => log[i] = SubSeq(log[j], 1, Len(log[i]))

\* Founders that have applied equally many entries agree on who votes, while
\* only one node has led and no voter is removed.
SameAppliedSameVoters ==
  \A i, j \in Founders : lastApplied[i] = lastApplied[j]
                           => VoterAddrs(members[i]) = VoterAddrs(members[j])

-----------------------------------------------------------------------------
(* Claims of the documentation that the code does not keep                 *)

\* "Two leaders in the same term is impossible" (docs/architecture/raft.md):
\* no two nodes have n.state = Leader and the same n.currentTerm.
OneLeaderPerTerm ==
  \A i, j \in Node :
    state[i] = "Leader" /\ state[j] = "Leader" /\ currentTerm[i] = currentTerm[j] => i = j

\* "An entry is committed once a majority of voters have it in their log"
\* (docs/architecture/raft.md): when a leader moves its commit index, by answers
\* that may be old, of another term or in the wrong order, a majority of the
\* voters it knows, each counted once, have the same entry there.
CommittedByMajority ==
  [][\A i \in Node :
       LET c == commitIndex'[i]
           V == VoterAddrs(members[i])
           have == {n \in V : c \in DOMAIN log[n] /\ log[n][c] = log[i][c]}
       IN  state[i] = "Leader" /\ c > commitIndex[i] /\ log'[i] = log[i]
             => 2 * Cardinality(have) > Cardinality(V)]_vars

\* "there is never a window where two quorum definitions are active at the same
\* time" (docs/architecture/membership.md): nodes that have applied the same
\* number of membership entries agree on who votes.  They do not when a joiner
\* knows of no founder, or a removal misses a member filed under its address.
VotersAgree ==
  \A i, j \in Node : lastApplied[i] = lastApplied[j] /\ lastApplied[i] > 0
                       => VoterAddrs(members[i]) = VoterAddrs(members[j])

\* "it blocks until the entry is committed" (comment of AddVoter): when the
\* commit index has reached the index an administrator's call waits for, so that
\* the call is about to succeed, the entry there is the one the call appended.
\* It is not when another leader has overwritten it.
SuccessMeansOwnEntry ==
  \A op \in ops :
    op.stage = "waiting" /\ commitIndex[op.node] >= op.idx
      => op.idx \in DOMAIN log[op.node] /\ log[op.node][op.idx].mc = op.mc

=============================================================================
