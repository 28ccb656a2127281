--------------------------- MODULE RaftLogProofs ---------------------------
(***************************************************************************)
(* Theorems about the replicated log of Raft: what holds of it while one   *)
(* node only has ever led, in any number of terms.                         *)
(***************************************************************************)
EXTENDS RaftProofs

-----------------------------------------------------------------------------
(* What append and entriesFrom return                                      *)

LEMMA EntryTypes ==
  ASSUME NEW l \in Seq(LogEntry)
  PROVE  /\ Len(l) \in Nat
         /\ \A x \in 1..Len(l) : /\ l[x] \in LogEntry /\ l[x].term \in Nat
                                 /\ l[x].mc \in MembershipChange
<1>1. Len(l) \in Nat /\ \A x \in 1..Len(l) : l[x] \in LogEntry
  BY LenProperties
<1>2. \A e \in LogEntry : e.term \in Nat /\ e.mc \in MembershipChange
  BY DEF LogEntry
<1> QED
  BY <1>1, <1>2

LEMMA AppendElements ==
  ASSUME NEW l \in Seq(LogEntry), NEW prev \in 0..Len(l), NEW es \in Seq(LogEntry)
  PROVE  /\ append(l, prev, es) \in Seq(LogEntry)
         /\ Len(append(l, prev, es)) = prev + Len(es)
         /\ \A x \in 1..(prev + Len(es)) :
              append(l, prev, es)[x] = IF x <= prev THEN l[x] ELSE es[x - prev]
<1>1. Len(l) \in Nat /\ Len(es) \in Nat
  BY LenProperties
<1>2. /\ SubSeq(l, 1, prev) \in Seq(LogEntry)
      /\ Len(SubSeq(l, 1, prev)) = prev
      /\ \A x \in 1..prev : SubSeq(l, 1, prev)[x] = l[x]
  BY <1>1, SubSeqProperties
<1> QED
  BY <1>1, <1>2, ConcatProperties DEF append

LEMMA EntriesFromElements ==
  ASSUME NEW l \in Seq(LogEntry), NEW n \in Nat \ {0}
  PROVE  /\ entriesFrom(l, n) \in Seq(LogEntry)
         /\ Len(entriesFrom(l, n)) = IF n <= Len(l) THEN Len(l) - n + 1 ELSE 0
         /\ \A x \in 1..Len(entriesFrom(l, n)) :
              /\ n - 1 + x \in 1..Len(l)
              /\ entriesFrom(l, n)[x] = l[n - 1 + x]
<1>1. Len(l) \in Nat
  BY LenProperties
<1>2. CASE n <= Len(l)
  <2>1. /\ SubSeq(l, n, Len(l)) \in Seq(LogEntry)
        /\ Len(SubSeq(l, n, Len(l))) = Len(l) - n + 1
        /\ \A x \in 1..(Len(l) - n + 1) : SubSeq(l, n, Len(l))[x] = l[n + x - 1]
    BY <1>1, <1>2, SubSeqProperties
  <2>2. entriesFrom(l, n) = SubSeq(l, n, Len(l))
    BY <1>2 DEF entriesFrom, hasEntry
  <2>3. \A x \in 1..(Len(l) - n + 1) : n + x - 1 = n - 1 + x /\ n - 1 + x \in 1..Len(l)
    BY <1>1, <1>2
  <2> QED
    BY <1>1, <1>2, <2>1, <2>2, <2>3
<1>3. CASE ~(n <= Len(l))
  <2>1. entriesFrom(l, n) = <<>>
    BY <1>3 DEF entriesFrom, hasEntry
  <2>2. Len(<<>>) = 0 /\ <<>> \in Seq(LogEntry)
    OBVIOUS
  <2> QED
    BY <1>1, <1>3, <2>1, <2>2
<1> QED
  BY <1>2, <1>3

-----------------------------------------------------------------------------
(* The steps that touch a log or a request                                 *)

\* Node i stores the entries of request m, or has none to store.
Stores(i, m) ==
  /\ AddrOf(m.peer) = i
  /\ m.term >= currentTerm[i]
  /\ currentTerm' = [currentTerm EXCEPT ![i] = m.term]
  /\ prevMatches(i, m)
  /\ log' = [log EXCEPT ![i] = logAfter(i, m)]
  /\ appendRequests' \subseteq appendRequests
  /\ UNCHANGED <<ops, nextIndex, heartbeats>>

\* Call op on node i appends its entry.
Appends(i, op) ==
  /\ op.node = i /\ op.stage = "checked"
  /\ log' = [log EXCEPT ![i] = Append(log[i], [term |-> currentTerm[i], mc |-> op.mc])]
  /\ ops' = (ops \ {op}) \cup {[op EXCEPT !.stage = "waiting", !.idx = Len(log[i]) + 1]}
  /\ UNCHANGED <<electionVars, commitIndex, lastApplied, members, replicationVars,
                 appendMsgs, pc>>

LEMMA LogSteps ==
  ASSUME TypeOK, [Next]_vars
  PROVE  \/ UNCHANGED log
         \/ \E i \in Node : \E m \in appendRequests : Stores(i, m)
         \/ \E i \in Node : \E op \in ops : Appends(i, op)
<1> USE DEF electionVars, logVars, replicationVars, runVars, voteMsgs, appendMsgs, calls
<1>1. ASSUME NEW i \in Node, runStep(i) PROVE UNCHANGED log
  BY <1>1 DEF runStep, FollowerTimeout, BecomeCandidate, ResetElectionTimer, ReturnToFollower,
              StartElection, RequestVotes, ElectionTimeout, CandidateHeartbeat, ReceiveVote,
              FirstBroadcast, LeaderTick
<1>2. ASSUME NEW i \in Node, rpcStep(i) PROVE UNCHANGED log
  BY <1>2 DEF rpcStep, VoteDenied, buildRequest, ReadNextIndex, ReadPrevious, PrepareAppend,
         RpcFails, ResponseStepDown,
              ResponseSuccess, ResponseBackoff
<1>3. ASSUME NEW i \in Node, AcceptAppendEntries(i)
      PROVE  \E m \in appendRequests : Stores(i, m)
  <2>1. PICK m \in appendRequests : AcceptAppendEntries(i)!(m)
    BY <1>3 DEF AcceptAppendEntries
  <2>2. Stores(i, m)
    BY <2>1 DEF Stores, followLeader
  <2> QED
    BY <2>2
<1>4. ASSUME NEW i \in Node, handlerStep(i), ~AcceptAppendEntries(i) PROVE UNCHANGED log
  BY <1>4 DEF handlerStep, handleVoteRequest, RejectAppendEntries, MismatchAppendEntries
<1>5. ASSUME NEW i \in Node, AppendAndWait(i) PROVE \E op \in ops : Appends(i, op)
  <2>1. PICK op \in ops : AppendAndWait(i)!(op)
    BY <1>5 DEF AppendAndWait
  <2>2. Appends(i, op)
    BY <2>1 DEF Appends, appendOne, lastIndex
  <2> QED
    BY <2>2
<1>6. ASSUME NEW i \in Node, adminStep(i), ~AppendAndWait(i) PROVE UNCHANGED log
  BY <1>6 DEF adminStep, JoinAsObserver, JoinAddObserver, JoinResetIndexes, AdminCall,
              AutoPromoteCall, AdminSucceeds, AdminFails
<1>7. CASE UNCHANGED vars
  BY <1>7 DEF vars
<1> QED
  BY <1>1, <1>2, <1>3, <1>4, <1>5, <1>6, <1>7 DEF Next

\* Node i sends request r, with its log from entry n on, when goroutine h has
\* read n as the index to start from.
Builds(i, h, n, r) ==
  /\ h.from = i /\ r.from = i /\ r.peer = h.peer /\ r.leaderCommit = h.leaderCommit
  /\ n = h.nextIdx
  /\ r.prevLogIndex = n - 1
  /\ r.entries = entriesFrom(log[i], n)
  /\ appendRequests' = appendRequests \cup {r}
  /\ UNCHANGED log

LEMMA RequestSteps ==
  ASSUME TypeOK, [Next]_vars
  PROVE  \/ appendRequests' \subseteq appendRequests
         \/ \E i \in Node : \E h \in heartbeats : \E n \in Nat \ {0} : \E r : Builds(i, h, n, r)
<1> USE DEF electionVars, logVars, replicationVars, runVars, voteMsgs, appendMsgs, calls
<1>1. ASSUME NEW i \in Node, runStep(i) PROVE appendRequests' = appendRequests
  BY <1>1 DEF runStep, FollowerTimeout, BecomeCandidate, ResetElectionTimer, ReturnToFollower,
              StartElection, RequestVotes, ElectionTimeout, CandidateHeartbeat, ReceiveVote,
              FirstBroadcast, LeaderTick
<1>2. ASSUME NEW i \in Node, handlerStep(i) PROVE appendRequests' \subseteq appendRequests
  BY <1>2 DEF handlerStep, handleVoteRequest, RejectAppendEntries, MismatchAppendEntries,
              AcceptAppendEntries, followLeader
<1>3. ASSUME NEW i \in Node, PrepareAppend(i)
      PROVE  \E h \in heartbeats : \E n \in Nat \ {0} : \E r : Builds(i, h, n, r)
  <2>1. PICK h \in heartbeats : PrepareAppend(i)!(h)
    BY <1>3 DEF PrepareAppend
  <2> DEFINE n == h.nextIdx
             r == [from |-> i, peer |-> h.peer, slot |-> h.slot,
                   term |-> h.term, leaderCommit |-> h.leaderCommit,
                   prevLogIndex |-> n - 1, prevLogTerm |-> h.prevLogTerm,
                   entries |-> entriesFrom(log[i], n)]
  <2>2. n \in Nat \ {0}
    <3>1. h \in Heartbeat /\ h.stage = "read"
      BY <2>1 DEF TypeOK
    <3>2. h.nextIdx \in Nat /\ h.nextIdx > 0
      BY <3>1 DEF Heartbeat
    <3> QED
      BY <3>2
  <2>3. /\ r.from = i /\ r.peer = h.peer /\ r.leaderCommit = h.leaderCommit
        /\ r.prevLogIndex = n - 1 /\ r.entries = entriesFrom(log[i], n)
    OBVIOUS
  <2>4. /\ h.from = i
        /\ appendRequests' = appendRequests \cup {r}
        /\ UNCHANGED log
    BY <2>1
  <2>5. n = h.nextIdx
    OBVIOUS
  <2> HIDE DEF n, r
  <2>6. Builds(i, h, n, r)
    BY <2>3, <2>4, <2>5 DEF Builds
  <2> QED
    BY <2>2, <2>6
<1>4. ASSUME NEW i \in Node, rpcStep(i), ~PrepareAppend(i)
      PROVE  appendRequests' \subseteq appendRequests
  BY <1>4 DEF rpcStep, VoteDenied, buildRequest, ReadNextIndex, ReadPrevious, RpcFails,
              ResponseStepDown, ResponseSuccess, ResponseBackoff
<1>5. ASSUME NEW i \in Node, adminStep(i) PROVE appendRequests' = appendRequests
  BY <1>5 DEF adminStep, JoinAsObserver, JoinAddObserver, JoinResetIndexes, AdminCall,
              AutoPromoteCall, AppendAndWait, AdminSucceeds, AdminFails
<1>6. CASE UNCHANGED vars
  BY <1>6 DEF vars
<1> QED
  BY <1>1, <1>2, <1>3, <1>4, <1>5, <1>6 DEF Next

-----------------------------------------------------------------------------
(* Who may put something new under way                                     *)

\* Node i starts goroutine h in broadcastHeartbeat.
Started(i, h) ==
  /\ Elected(i) /\ h.from = i /\ h.peer \in allPeers(members[i], ID(i))
  /\ h.leaderCommit = commitIndex[i] /\ h.nextIdx = 0

\* Goroutine g becomes h by one of its reads.
Proceeds(g, h) ==
  /\ h.from = g.from /\ h.peer = g.peer /\ h.leaderCommit = g.leaderCommit
  /\ h.nextIdx \in {g.nextIdx, nextFor(g.from, AddrOf(g.peer))}

LEMMA HeartbeatSteps ==
  ASSUME TypeOK, [Next]_vars, NEW h \in heartbeats', h \notin heartbeats
  PROVE  \/ \E i \in Node : Started(i, h)
         \/ \E g \in heartbeats : Proceeds(g, h)
<1> USE DEF electionVars, logVars, replicationVars, runVars, voteMsgs, appendMsgs, calls
<1>1. ASSUME NEW i \in Node, Elected(i), broadcastHeartbeat(i)
      PROVE  Started(i, h)
  <2>1. PICK reached \in SUBSET {k \in allPeers(members[i], ID(i)) : FreeSlots(i, k) # {}} :
          heartbeats' = heartbeats \cup
            {[from |-> i, peer |-> k, slot |-> Min(FreeSlots(i, k)),
              term |-> currentTerm[i], leaderCommit |-> commitIndex[i],
              stage |-> "started", nextIdx |-> 0, prevLogTerm |-> 0] : k \in reached}
    BY <1>1 DEF broadcastHeartbeat
  <2>2. PICK k \in reached : h = [from |-> i, peer |-> k, slot |-> Min(FreeSlots(i, k)),
                                  term |-> currentTerm[i], leaderCommit |-> commitIndex[i],
                                  stage |-> "started", nextIdx |-> 0, prevLogTerm |-> 0]
    BY <2>1
  <2>3. h.from = i /\ h.peer = k /\ h.leaderCommit = commitIndex[i] /\ h.nextIdx = 0
    BY <2>2
  <2> QED
    BY <1>1, <2>1, <2>2, <2>3 DEF Started
<1>2. ASSUME NEW i \in Node, FirstBroadcast(i) \/ LeaderTick(i)
      PROVE  Elected(i) /\ broadcastHeartbeat(i)
  BY <1>2 DEF FirstBroadcast, LeaderTick, Elected
<1>3. ASSUME NEW i \in Node, runStep(i), ~FirstBroadcast(i), ~LeaderTick(i)
      PROVE  heartbeats' = heartbeats
  BY <1>3 DEF runStep, FollowerTimeout, BecomeCandidate, ResetElectionTimer, ReturnToFollower,
              StartElection, RequestVotes, ElectionTimeout, CandidateHeartbeat, ReceiveVote
<1>4. ASSUME NEW i \in Node, handlerStep(i) \/ adminStep(i) PROVE heartbeats' = heartbeats
  BY <1>4 DEF handlerStep, handleVoteRequest, RejectAppendEntries, MismatchAppendEntries,
              AcceptAppendEntries,
              adminStep, JoinAsObserver, JoinAddObserver, JoinResetIndexes, AdminCall,
              AutoPromoteCall, AppendAndWait, AdminSucceeds, AdminFails
<1>5. ASSUME NEW i \in Node, rpcStep(i), ~ReadNextIndex(i), ~ReadPrevious(i)
      PROVE  heartbeats' \subseteq heartbeats
  BY <1>5 DEF rpcStep, VoteDenied, buildRequest, PrepareAppend, RpcFails, ResponseStepDown,
              ResponseSuccess, ResponseBackoff
<1>5a. ASSUME NEW i \in Node, ReadNextIndex(i) PROVE \E g \in heartbeats : Proceeds(g, h)
  <2>1. PICK g \in heartbeats : ReadNextIndex(i)!(g)
    BY <1>5a DEF ReadNextIndex
  <2>2. h = [g EXCEPT !.stage = "indexed", !.nextIdx = nextFor(i, AddrOf(g.peer))] /\ g.from = i
    BY <2>1
  <2>3. g \in Heartbeat
    BY DEF TypeOK
  <2>4. /\ h.from = g.from /\ h.peer = g.peer /\ h.leaderCommit = g.leaderCommit
        /\ h.nextIdx = nextFor(g.from, AddrOf(g.peer))
    BY <2>2, <2>3 DEF Heartbeat
  <2> QED
    BY <2>4 DEF Proceeds
<1>5b. ASSUME NEW i \in Node, ReadPrevious(i) PROVE \E g \in heartbeats : Proceeds(g, h)
  <2>1. PICK g \in heartbeats : ReadPrevious(i)!(g)
    BY <1>5b DEF ReadPrevious
  <2>2. h = [g EXCEPT !.stage = "read", !.prevLogTerm = termAt(log[i], g.nextIdx - 1)]
    BY <2>1
  <2>3. g \in Heartbeat
    BY DEF TypeOK
  <2>4. /\ h.from = g.from /\ h.peer = g.peer /\ h.leaderCommit = g.leaderCommit
        /\ h.nextIdx = g.nextIdx
    BY <2>2, <2>3 DEF Heartbeat
  <2> QED
    BY <2>4 DEF Proceeds
<1>6. CASE UNCHANGED vars
  BY <1>6 DEF vars
<1> QED
  BY <1>1, <1>2, <1>3, <1>4, <1>5, <1>5a, <1>5b, <1>6 DEF Next

LEMMA ResponseSteps ==
  ASSUME TypeOK, [Next]_vars, NEW r \in appendResponses', r \notin appendResponses
  PROVE  /\ \E m \in appendRequests : r.from = m.from /\ r.match = m.prevLogIndex + Len(m.entries)
         /\ UNCHANGED nextIndex
<1> USE DEF electionVars, logVars, replicationVars, runVars, voteMsgs, appendMsgs, calls
<1>1. ASSUME NEW m \in appendRequests, NEW b, NEW t, NEW n,
             appendResponses' = appendResponses \cup {replyTo(m, b, t, n)}
      PROVE  r.from = m.from /\ r.match = m.prevLogIndex + Len(m.entries)
  BY <1>1 DEF replyTo
<1>2. ASSUME NEW i \in Node, handlerStep(i), ~handleVoteRequest(i)
      PROVE  /\ \E m \in appendRequests : r.from = m.from /\ r.match = m.prevLogIndex + Len(m.entries)
             /\ UNCHANGED nextIndex
  <2>1. CASE RejectAppendEntries(i)
    BY <1>1, <2>1 DEF RejectAppendEntries
  <2>2. CASE MismatchAppendEntries(i)
    BY <1>1, <2>2 DEF MismatchAppendEntries
  <2>3. CASE AcceptAppendEntries(i)
    <3>1. PICK m \in appendRequests : AcceptAppendEntries(i)!(m)
      BY <2>3 DEF AcceptAppendEntries
    <3>2. /\ appendResponses' = appendResponses \cup {replyTo(m, TRUE, m.term, 0)}
          /\ UNCHANGED nextIndex
      BY <3>1
    <3> QED
      BY <1>1, <3>2
  <2> QED
    BY <1>2, <2>1, <2>2, <2>3 DEF handlerStep
<1>3. ASSUME NEW i \in Node, runStep(i) PROVE appendResponses' = appendResponses
  BY <1>3 DEF runStep, FollowerTimeout, BecomeCandidate, ResetElectionTimer, ReturnToFollower,
              StartElection, RequestVotes, ElectionTimeout, CandidateHeartbeat, ReceiveVote,
              FirstBroadcast, LeaderTick
<1>4. ASSUME NEW i \in Node, handleVoteRequest(i) \/ adminStep(i)
      PROVE  appendResponses' = appendResponses
  BY <1>4 DEF handleVoteRequest,
              adminStep, JoinAsObserver, JoinAddObserver, JoinResetIndexes, AdminCall,
              AutoPromoteCall, AppendAndWait, AdminSucceeds, AdminFails
<1>5. ASSUME NEW i \in Node, rpcStep(i) PROVE appendResponses' \subseteq appendResponses
  BY <1>5 DEF rpcStep, VoteDenied, buildRequest, ReadNextIndex, ReadPrevious, PrepareAppend,
         RpcFails, ResponseStepDown, ResponseSuccess,
              ResponseBackoff, takeResponse
<1>6. CASE UNCHANGED vars
  BY <1>6 DEF vars
<1> QED
  BY <1>2, <1>3, <1>4, <1>5, <1>6 DEF Next

\* Call o is new: the administrator's, or the promotion of an observer.
Called(o) ==
  /\ state[o.node] = "Leader"
  /\ \/ o.mc \in AdminOps
     \/ members[o.node][o.mc.key] = "observer" /\ o.mc.action = "add"

LEMMA OpSteps ==
  ASSUME TypeOK, [Next]_vars, NEW o \in ops', o \notin ops
  PROVE  \/ o.node \in Node /\ Called(o)
         \/ \E p \in ops : o.node = p.node /\ o.mc = p.mc
<1> USE DEF electionVars, logVars, replicationVars, runVars, voteMsgs, appendMsgs, calls
<1>0. \A p \in ops : p \in Op
  BY DEF TypeOK
<1>1. ASSUME NEW i \in Node, LeaderTick(i) PROVE o.node \in Node /\ Called(o)
  <2>1. state[i] = "Leader" /\ maybePromoteObservers(i)
    BY <1>1 DEF LeaderTick
  <2>2. PICK k \in caughtUp(i) : o = [node |-> i, mc |-> [action |-> "add", key |-> k],
                                     auto |-> TRUE, stage |-> "called", idx |-> 0]
    BY <2>1 DEF maybePromoteObservers
  <2>3. o.node = i /\ o.mc.key = k /\ o.mc.action = "add"
    BY <2>2
  <2>4. members[i][k] = "observer"
    BY DEF caughtUp
  <2> QED
    BY <2>1, <2>3, <2>4 DEF Called
<1>2. ASSUME NEW i \in Node, AdminCall(i) PROVE o.node \in Node /\ Called(o)
  <2>1. PICK mc \in AdminOps : AdminCall(i)!(mc)
    BY <1>2 DEF AdminCall
  <2>2. o = [node |-> i, mc |-> mc, auto |-> FALSE, stage |-> "checked", idx |-> 0]
    BY <2>1
  <2>3. o.node = i /\ o.mc = mc
    BY <2>2
  <2> QED
    BY <2>1, <2>3 DEF Called, membershipAllowed
<1>3. ASSUME NEW i \in Node, AutoPromoteCall(i)
      PROVE  \E p \in ops : o.node = p.node /\ o.mc = p.mc
  <2>1. PICK p \in ops : AutoPromoteCall(i)!(p)
    BY <1>3 DEF AutoPromoteCall
  <2>2. o = [p EXCEPT !.stage = "checked"]
    BY <2>1
  <2> QED
    BY <1>0, <2>2 DEF Op
<1>4. ASSUME NEW i \in Node, AppendAndWait(i) PROVE \E p \in ops : o.node = p.node /\ o.mc = p.mc
  <2>1. PICK p \in ops : AppendAndWait(i)!(p)
    BY <1>4 DEF AppendAndWait
  <2>2. o = [p EXCEPT !.stage = "waiting", !.idx = lastIndex(log[i]) + 1]
    BY <2>1
  <2> QED
    BY <1>0, <2>2 DEF Op
<1>5. ASSUME NEW i \in Node, runStep(i), ~LeaderTick(i) PROVE ops' = ops
  BY <1>5 DEF runStep, FollowerTimeout, BecomeCandidate, ResetElectionTimer, ReturnToFollower,
              StartElection, RequestVotes, ElectionTimeout, CandidateHeartbeat, ReceiveVote,
              FirstBroadcast
<1>6. ASSUME NEW i \in Node, handlerStep(i) \/ rpcStep(i) PROVE ops' = ops
  BY <1>6 DEF handlerStep, handleVoteRequest, RejectAppendEntries, MismatchAppendEntries,
              AcceptAppendEntries,
              rpcStep, VoteDenied, buildRequest, ReadNextIndex, ReadPrevious, PrepareAppend,
         RpcFails, ResponseStepDown, ResponseSuccess,
              ResponseBackoff
<1>7. ASSUME NEW i \in Node, JoinAsObserver(i) \/ JoinAddObserver(i) \/ JoinResetIndexes(i)
                             \/ AdminSucceeds(i) \/ AdminFails(i)
      PROVE  ops' \subseteq ops
  BY <1>7 DEF JoinAsObserver, JoinAddObserver, JoinResetIndexes, AdminSucceeds, AdminFails
<1>8. CASE UNCHANGED vars
  BY <1>8 DEF vars
<1>9. ASSUME NEW i \in Node, adminStep(i), ~AdminCall(i), ~AutoPromoteCall(i), ~AppendAndWait(i)
      PROVE  ops' \subseteq ops
  BY <1>7, <1>9 DEF adminStep
<1> QED
  BY <1>1, <1>2, <1>3, <1>4, <1>5, <1>6, <1>8, <1>9 DEF Next

\* The index of the next entry to send is set to the end of the log, to what an
\* answer confirms, or back.
LEMMA IndexSteps ==
  ASSUME TypeOK, [Next]_vars, NEW i \in Node, NEW p \in Node
  PROVE  \/ nextIndex'[i][p] <= nextIndex[i][p]
         \/ nextIndex'[i][p] = Len(log[i]) + 1
         \/ \E m \in appendResponses : m.from = i /\ nextIndex'[i][p] = m.match + 1
<1> USE DEF electionVars, logVars, replicationVars, runVars, voteMsgs, appendMsgs, calls
<1>0. /\ nextIndex \in [Node -> [Node -> Nat]] /\ nextIndex[i] \in [Node -> Nat]
      /\ nextIndex[i][p] \in Nat
      /\ \A m \in appendResponses : AddrOf(m.peer) \in Node
      /\ \A h \in heartbeats : AddrOf(h.peer) \in Node
  BY KeyFacts DEF TypeOK, AppendResponse, Heartbeat
<1>1. CASE UNCHANGED nextIndex
  BY <1>0, <1>1
<1>2. ASSUME NEW j \in Node, NEW q \in Node, NEW x,
             nextIndex' = [nextIndex EXCEPT ![j][q] = x]
      PROVE  nextIndex'[i][p] = IF i = j /\ p = q THEN x ELSE nextIndex[i][p]
  BY <1>0, <1>2
<1>3. ASSUME NEW j \in Node, runStep(j), ~UNCHANGED nextIndex
      PROVE  nextIndex'[i][p] = nextIndex[i][p] \/ nextIndex'[i][p] = Len(log[i]) + 1
  <2>1. becomeLeader(j)
    BY <1>3 DEF runStep, FollowerTimeout, BecomeCandidate, ResetElectionTimer, ReturnToFollower,
                StartElection, RequestVotes, ElectionTimeout, CandidateHeartbeat, ReceiveVote,
                FirstBroadcast, LeaderTick
  <2> QED
    BY <1>0, <2>1 DEF becomeLeader, lastIndex
<1>4. ASSUME NEW j \in Node, ReadNextIndex(j)
      PROVE  nextIndex'[i][p] = nextIndex[i][p] \/ nextIndex'[i][p] = Len(log[i]) + 1
  <2>1. PICK h \in heartbeats : ReadNextIndex(j)!(h)
    BY <1>4 DEF ReadNextIndex
  <2>2. nextIndex' = [nextIndex EXCEPT ![j][AddrOf(h.peer)] = nextFor(j, AddrOf(h.peer))]
    BY <2>1
  <2>3. nextIndex'[i][p] = IF i = j /\ p = AddrOf(h.peer) THEN nextFor(j, AddrOf(h.peer))
                           ELSE nextIndex[i][p]
    BY <1>0, <1>2, <2>2
  <2> QED
    BY <2>3 DEF nextFor, lastIndex
<1>5. ASSUME NEW j \in Node, ResponseSuccess(j)
      PROVE  \/ nextIndex'[i][p] = nextIndex[i][p]
             \/ \E m \in appendResponses : m.from = i /\ nextIndex'[i][p] = m.match + 1
  <2>1. PICK m \in appendResponses : ResponseSuccess(j)!(m)
    BY <1>5 DEF ResponseSuccess
  <2>2. m.from = j /\ nextIndex' = [nextIndex EXCEPT ![j][AddrOf(m.peer)] = m.match + 1]
    BY <2>1 DEF takeResponse
  <2> QED
    BY <1>0, <1>2, <2>2
<1>6. ASSUME NEW j \in Node, ResponseBackoff(j)
      PROVE  nextIndex'[i][p] <= nextIndex[i][p]
  <2>1. PICK m \in appendResponses : ResponseBackoff(j)!(m)
    BY <1>6 DEF ResponseBackoff
  <2> DEFINE q == AddrOf(m.peer)
             x == backoff(nextIndex[j][q], m.nextIndex)
  <2>2. nextIndex' = [nextIndex EXCEPT ![j][q] = x]
    BY <2>1
  <2>3. nextIndex'[i][p] = IF i = j /\ p = q THEN x ELSE nextIndex[i][p]
    BY <1>0, <1>2, <2>2
  <2>4. m.nextIndex \in Nat
    BY DEF TypeOK, AppendResponse
  <2> QED
    BY <1>0, <2>3, <2>4 DEF backoff
<1>7. ASSUME NEW j \in Node, JoinResetIndexes(j)
      PROVE  nextIndex'[i][p] = nextIndex[i][p] \/ nextIndex'[i][p] = Len(log[i]) + 1
  <2>1. PICK c \in joins : JoinResetIndexes(j)!(c)
    BY <1>7 DEF JoinResetIndexes
  <2>2. c.joiner \in Node
    BY DEF TypeOK, Join
  <2> QED
    BY <1>2, <2>1, <2>2 DEF lastIndex
<1>8. ASSUME NEW j \in Node, handlerStep(j) PROVE UNCHANGED nextIndex
  BY <1>8 DEF handlerStep, handleVoteRequest, RejectAppendEntries, MismatchAppendEntries,
              AcceptAppendEntries
<1>9. ASSUME NEW j \in Node, rpcStep(j), ~ReadNextIndex(j), ~ResponseSuccess(j), ~ResponseBackoff(j)
      PROVE  UNCHANGED nextIndex
  BY <1>9 DEF rpcStep, VoteDenied, buildRequest, ReadPrevious, PrepareAppend, RpcFails, ResponseStepDown
<1>10. ASSUME NEW j \in Node, adminStep(j), ~JoinResetIndexes(j) PROVE UNCHANGED nextIndex
  BY <1>10 DEF adminStep, JoinAsObserver, JoinAddObserver, AdminCall, AutoPromoteCall,
               AppendAndWait, AdminSucceeds, AdminFails
<1>11. CASE UNCHANGED vars
  BY <1>1, <1>11 DEF vars
<1> QED
  BY <1>0, <1>1, <1>3, <1>4, <1>5, <1>6, <1>7, <1>8, <1>9, <1>10, <1>11 DEF Next

\* Node i applies the entries of l up to its new commit index, none beyond l's
\* end, to the VoterSet v.
Applies(i, v, l) ==
  /\ members'[i] = applyMembership(v, l, lastApplied[i], commitIndex'[i])
  /\ lastApplied'[i] = Max({lastApplied[i], commitIndex'[i]})
  /\ commitIndex'[i] > commitIndex[i] => commitIndex'[i] <= Len(l)

LEMMA MemberSteps ==
  ASSUME TypeOK, TypeOK', [Next]_vars, NEW i \in Node
  PROVE  \/ /\ members'[i] = members[i] /\ lastApplied'[i] = lastApplied[i]
            /\ commitIndex'[i] = commitIndex[i]
         \/ /\ \E j \in Node : members'[i] = AddObserver(members[i], ID(j))
            /\ lastApplied'[i] = lastApplied[i] /\ commitIndex'[i] = commitIndex[i]
         \/ \E m \in appendRequests :
              /\ AddrOf(m.peer) = i /\ m.from \in Node
              /\ members'[i] = UpdateID(members[i], m.from)
              /\ lastApplied'[i] = lastApplied[i] /\ commitIndex'[i] = commitIndex[i]
         \/ \E m \in appendRequests :
              /\ AddrOf(m.peer) = i /\ m.from \in Node
              /\ prevMatches(i, m) /\ log'[i] = logAfter(i, m)
              /\ Applies(i, UpdateID(members[i], m.from), log'[i])
              /\ m.leaderCommit <= Len(log'[i]) => commitIndex'[i] >= commitIndex[i]
         \/ \E m \in appendResponses :
              /\ m.from = i /\ log'[i] = log[i]
              /\ Applies(i, members[i], log[i]) /\ commitIndex'[i] >= commitIndex[i]
<1> USE DEF electionVars, logVars, replicationVars, runVars, voteMsgs, appendMsgs, calls
<1>0. /\ commitIndex[i] \in Nat /\ lastApplied[i] \in Nat
      /\ commitIndex'[i] \in Nat /\ lastApplied'[i] \in Nat
      /\ log[i] \in Seq(LogEntry) /\ Len(log[i]) \in Nat
      /\ \A m \in appendRequests : m.from \in Node /\ m.leaderCommit \in Nat
  BY EntryTypes DEF TypeOK, AppendRequest
<1> DEFINE Still == /\ members'[i] = members[i] /\ lastApplied'[i] = lastApplied[i]
                    /\ commitIndex'[i] = commitIndex[i]
<1>1. CASE UNCHANGED <<members, lastApplied, commitIndex>>
  BY <1>1
<1>2. ASSUME NEW j \in Node, JoinAddObserver(j)
      PROVE  \/ Still
             \/ /\ \E k \in Node : members'[i] = AddObserver(members[i], ID(k))
                /\ lastApplied'[i] = lastApplied[i] /\ commitIndex'[i] = commitIndex[i]
  <2>1. PICK c \in joins : JoinAddObserver(j)!(c)
    BY <1>2 DEF JoinAddObserver
  <2>2. c.joiner \in Node
    BY DEF TypeOK, Join
  <2> QED
    BY <2>1, <2>2 DEF TypeOK
<1>3. ASSUME NEW j \in Node, MismatchAppendEntries(j)
      PROVE  \/ Still
             \/ \E m \in appendRequests :
                  /\ AddrOf(m.peer) = i /\ m.from \in Node
                  /\ members'[i] = UpdateID(members[i], m.from)
                  /\ lastApplied'[i] = lastApplied[i] /\ commitIndex'[i] = commitIndex[i]
  <2>1. PICK m \in appendRequests : MismatchAppendEntries(j)!(m)
    BY <1>3 DEF MismatchAppendEntries
  <2>2. AddrOf(m.peer) = j
    BY <2>1 DEF followLeader
  <2> QED
    BY <1>0, <2>1, <2>2 DEF TypeOK
<1>4. ASSUME NEW j \in Node, AcceptAppendEntries(j)
      PROVE  \/ Still
             \/ \E m \in appendRequests :
                  /\ AddrOf(m.peer) = i /\ m.from \in Node
                  /\ prevMatches(i, m) /\ log'[i] = logAfter(i, m)
                  /\ Applies(i, UpdateID(members[i], m.from), log'[i])
                  /\ m.leaderCommit <= Len(log'[i]) => commitIndex'[i] >= commitIndex[i]
  <2>1. PICK m \in appendRequests : AcceptAppendEntries(j)!(m)
    BY <1>4 DEF AcceptAppendEntries
  <2>2. CASE i # j
    BY <2>1, <2>2 DEF TypeOK
  <2>3. CASE i = j
    <3>1. /\ AddrOf(m.peer) = i /\ prevMatches(i, m)
          /\ log'[i] = logAfter(i, m) /\ commitIndex'[i] = commitAfter(i, m)
      BY <2>1, <2>3 DEF followLeader, TypeOK
    <3>2. /\ members'[i] = applyMembership(UpdateID(members[i], m.from), logAfter(i, m),
                                           lastApplied[i], commitAfter(i, m))
          /\ lastApplied'[i] = Max({lastApplied[i], commitAfter(i, m)})
      BY <2>1, <2>3 DEF TypeOK
    <3>3. Len(logAfter(i, m)) \in Nat
      <4>1. log'[i] \in Seq(LogEntry)
        BY DEF TypeOK
      <4> QED
        BY <3>1, <4>1, EntryTypes
    <3>4. /\ commitAfter(i, m) > commitIndex[i] => commitAfter(i, m) <= Len(logAfter(i, m))
          /\ m.leaderCommit <= Len(logAfter(i, m)) => commitAfter(i, m) >= commitIndex[i]
      <4>1. Min({m.leaderCommit, Len(logAfter(i, m))}) =
              IF m.leaderCommit <= Len(logAfter(i, m)) THEN m.leaderCommit ELSE Len(logAfter(i, m))
        BY <1>0, <3>3, PairMaxMin
      <4> QED
        BY <1>0, <3>3, <4>1 DEF commitAfter, lastIndex
    <3>5. Applies(i, UpdateID(members[i], m.from), log'[i])
      BY <3>1, <3>2, <3>4 DEF Applies
    <3> QED
      BY <1>0, <3>1, <3>4, <3>5
  <2> QED
    BY <2>2, <2>3
<1>5. ASSUME NEW j \in Node, ResponseSuccess(j)
      PROVE  \/ Still
             \/ \E m \in appendResponses :
                  /\ m.from = i /\ log'[i] = log[i]
                  /\ Applies(i, members[i], log[i]) /\ commitIndex'[i] >= commitIndex[i]
  <2>1. PICK m \in appendResponses : ResponseSuccess(j)!(m)
    BY <1>5 DEF ResponseSuccess
  <2>2. CASE i # j
    BY <2>1, <2>2 DEF TypeOK
  <2>3. CASE i = j
    <3> DEFINE mi == [matchIndex[i] EXCEPT ![AddrOf(m.peer)] = m.match]
               S  == {commitIndex[i]} \cup replicated(i, mi)
    <3>1. /\ m.from = i /\ log' = log /\ commitIndex'[i] = Max(S)
          /\ members'[i] = applyMembership(members[i], log[i], lastApplied[i], Max(S))
          /\ lastApplied'[i] = Max({lastApplied[i], Max(S)})
      BY <2>1, <2>3 DEF takeResponse, TypeOK
    <3>2. \A x \in replicated(i, mi) : x \in Nat /\ x <= Len(log[i])
      BY <1>0 DEF replicated, lastIndex
    <3>3. PICK b \in Nat : b >= commitIndex[i] /\ b >= Len(log[i])
      BY <1>0
    <3>4. S \subseteq 0..b /\ S # {}
      BY <1>0, <3>2, <3>3
    <3>5. Max(S) \in S /\ Max(S) >= commitIndex[i]
      BY <3>4, MaxIsGreatest
    <3>6. Max(S) > commitIndex[i] => Max(S) <= Len(log[i])
      BY <1>0, <3>2, <3>5
    <3> QED
      BY <3>1, <3>5, <3>6 DEF Applies
  <2> QED
    BY <2>2, <2>3
<1>6. ASSUME NEW j \in Node, runStep(j) PROVE UNCHANGED <<members, lastApplied, commitIndex>>
  BY <1>6 DEF runStep, FollowerTimeout, BecomeCandidate, ResetElectionTimer, ReturnToFollower,
              StartElection, RequestVotes, ElectionTimeout, CandidateHeartbeat, ReceiveVote,
              FirstBroadcast, LeaderTick
<1>7. ASSUME NEW j \in Node, handlerStep(j), ~MismatchAppendEntries(j), ~AcceptAppendEntries(j)
      PROVE  UNCHANGED <<members, lastApplied, commitIndex>>
  BY <1>7 DEF handlerStep, handleVoteRequest, RejectAppendEntries
<1>8. ASSUME NEW j \in Node, rpcStep(j), ~ResponseSuccess(j)
      PROVE  UNCHANGED <<members, lastApplied, commitIndex>>
  BY <1>8 DEF rpcStep, VoteDenied, buildRequest, ReadNextIndex, ReadPrevious, PrepareAppend,
         RpcFails, ResponseStepDown, ResponseBackoff
<1>9. ASSUME NEW j \in Node, adminStep(j), ~JoinAddObserver(j)
      PROVE  UNCHANGED <<members, lastApplied, commitIndex>>
  BY <1>9 DEF adminStep, JoinAsObserver, JoinResetIndexes, AdminCall, AutoPromoteCall,
              AppendAndWait, AdminSucceeds, AdminFails
<1>10. CASE UNCHANGED vars
  BY <1>1, <1>10 DEF vars
<1> QED
  BY <1>1, <1>2, <1>3, <1>4, <1>5, <1>6, <1>7, <1>8, <1>9, <1>10 DEF Next

-----------------------------------------------------------------------------
(* One leader, in any number of terms                                      *)

\* No node has taken any other node than l for the leader.
OnlyLeader(l) == \A i \in Node : leaderID[i] \in {None, l}

\* The administrator does not add the leader a second time, with its address as
\* NodeID.
AddsSelf(l) == [action |-> "add", key |-> Placeholder(l)]

LeadsAlone(l) == \A i \in Node : state[i] = "Leader" \/ Elected(i) => i = l

\* What is under way comes from l, and nothing goes from l to itself.
SendsAlone(l) ==
  /\ \A h \in heartbeats : h.from = l /\ AddrOf(h.peer) # l
  /\ \A m \in appendRequests : m.from = l /\ AddrOf(m.peer) # l
  /\ \A m \in appendResponses : m.from = l

ChangesAlone(l) ==
  /\ \A op \in ops : op.node = l /\ op.mc # AddsSelf(l)
  /\ \A x \in 1..Len(log[l]) : log[l][x].mc # AddsSelf(l)
  /\ members[l][Placeholder(l)] = "none"

LEMMA LeadsAloneStep ==
  ASSUME TypeOK, NEW l \in Node, OnlyLeader(l)', LeadsAlone(l), [Next]_vars
  PROVE  LeadsAlone(l)'
<1> USE DEF electionVars, logVars, replicationVars, runVars, voteMsgs, appendMsgs, calls
<1>1. ASSUME UNCHANGED pc, \A j \in Node : state'[j] \in {state[j], "Follower"}
      PROVE  LeadsAlone(l)'
  BY <1>1 DEF LeadsAlone, Elected
<1>2. ASSUME NEW i \in Node, runStep(i) PROVE LeadsAlone(l)'
  <2>1. CASE ReceiveVote(i)
    <3>1. CASE becomeLeader(i)
      <4>1. leaderID'[i] = i
        BY <3>1 DEF becomeLeader, TypeOK
      <4>2. i = l
        BY <4>1, NodeAssumption DEF OnlyLeader
      <4> QED
        BY <3>1, <4>2 DEF becomeLeader, LeadsAlone, Elected, TypeOK
    <3>2. CASE UNCHANGED <<state, pc>>
      BY <1>1, <3>2
    <3> QED
      BY <2>1, <3>1, <3>2 DEF ReceiveVote
  <2>2. CASE ~ReceiveVote(i)
    <3>1. \A j \in Node : state'[j] = "Leader" => state[j] = "Leader"
      BY <1>2, <2>2 DEF runStep, FollowerTimeout, BecomeCandidate, ResetElectionTimer,
           ReturnToFollower, StartElection, RequestVotes, ElectionTimeout, CandidateHeartbeat,
           FirstBroadcast, LeaderTick, TypeOK
    <3>2. \A j \in Node : Elected(j)' => Elected(j)
      BY <1>2, <2>2 DEF runStep, FollowerTimeout, BecomeCandidate, ResetElectionTimer,
           ReturnToFollower, StartElection, RequestVotes, ElectionTimeout, CandidateHeartbeat,
           FirstBroadcast, LeaderTick, TypeOK, Elected
    <3> QED
      BY <3>1, <3>2 DEF LeadsAlone
  <2> QED
    BY <2>1, <2>2
<1>3. ASSUME NEW i \in Node, handlerStep(i) \/ rpcStep(i) PROVE LeadsAlone(l)'
  <2>1. UNCHANGED pc
    BY <1>3 DEF handlerStep, handleVoteRequest, RejectAppendEntries, MismatchAppendEntries,
         AcceptAppendEntries, rpcStep, VoteDenied, buildRequest, ReadNextIndex, ReadPrevious, PrepareAppend,
         RpcFails, ResponseStepDown,
         ResponseSuccess, ResponseBackoff
  <2>2. ASSUME NEW s, state' = [state EXCEPT ![i] = s], s \in {state[i], "Follower"}
        PROVE  \A j \in Node : state'[j] \in {state[j], "Follower"}
    BY <2>2 DEF TypeOK
  <2>3. CASE handleVoteRequest(i)
    <3>1. PICK m \in voteRequests : handleVoteRequest(i)!(m)
      BY <2>3 DEF handleVoteRequest
    <3>2. state' = [state EXCEPT ![i] = IF m.term > currentTerm[i] THEN "Follower" ELSE @]
      BY <3>1
    <3> QED
      BY <1>1, <2>1, <3>2 DEF TypeOK
  <2>4. CASE ResponseSuccess(i)
    <3>1. PICK m \in appendResponses : ResponseSuccess(i)!(m)
      BY <2>4 DEF ResponseSuccess
    <3>2. PICK s : state' = [state EXCEPT ![i] = s] /\ s \in {state[i], "Follower"}
      BY <3>1
    <3> QED
      BY <1>1, <2>1, <2>2, <3>2
  <2>5. CASE state' = [state EXCEPT ![i] = "Follower"] \/ UNCHANGED state
    BY <1>1, <2>1, <2>5 DEF TypeOK
  <2>6. ASSUME ~handleVoteRequest(i), ~ResponseSuccess(i)
        PROVE  state' = [state EXCEPT ![i] = "Follower"] \/ UNCHANGED state
    BY <1>3, <2>6 DEF handlerStep, RejectAppendEntries, MismatchAppendEntries,
         AcceptAppendEntries, followLeader, rpcStep, VoteDenied, buildRequest, ReadNextIndex, ReadPrevious, PrepareAppend,
         RpcFails,
         ResponseStepDown, ResponseBackoff, stepDown
  <2> QED
    BY <2>3, <2>4, <2>5, <2>6
<1>4. ASSUME NEW i \in Node, adminStep(i) PROVE UNCHANGED <<state, pc>>
  BY <1>4 DEF adminStep, JoinAsObserver, JoinAddObserver, JoinResetIndexes, AdminCall,
              AutoPromoteCall, AppendAndWait, AdminSucceeds, AdminFails
<1>5. CASE UNCHANGED vars
  BY <1>1, <1>5 DEF vars
<1> QED
  BY <1>1, <1>2, <1>3, <1>4, <1>5 DEF Next

LEMMA SendsAloneStep ==
  ASSUME TypeOK, NEW l \in Node, LeadsAlone(l), SendsAlone(l), ChangesAlone(l), [Next]_vars
  PROVE  SendsAlone(l)'
<1>1. ASSUME NEW h \in heartbeats' PROVE h.from = l /\ AddrOf(h.peer) # l
  <2>1. CASE h \in heartbeats
    BY <2>1 DEF SendsAlone
  <2>2. CASE h \notin heartbeats
    <3>0. CASE \E g \in heartbeats : Proceeds(g, h)
      BY <3>0 DEF Proceeds, SendsAlone
    <3> SUFFICES ASSUME \E i \in Node : Started(i, h) PROVE h.from = l /\ AddrOf(h.peer) # l
      BY <2>2, <3>0, HeartbeatSteps
    <3>1. PICK i \in Node : Elected(i) /\ h.from = i /\ h.peer \in allPeers(members[i], ID(i))
      BY DEF Started
    <3>2. i = l
      BY <3>1 DEF LeadsAlone
    <3>3. h.peer \in MemberKey /\ h.peer # ID(l) /\ members[l][h.peer] # "none"
      BY <3>1, <3>2 DEF allPeers
    <3>4. h.peer # Placeholder(l)
      BY <3>3 DEF ChangesAlone
    <3> QED
      BY <3>1, <3>2, <3>3, <3>4, KeyFacts
  <2> QED
    BY <2>1, <2>2
<1>2. ASSUME NEW m \in appendRequests' PROVE m.from = l /\ AddrOf(m.peer) # l
  <2>1. CASE appendRequests' \subseteq appendRequests
    BY <2>1 DEF SendsAlone
  <2>2. ASSUME NEW i \in Node, NEW h \in heartbeats, NEW n \in Nat \ {0}, NEW r, Builds(i, h, n, r)
        PROVE  m.from = l /\ AddrOf(m.peer) # l
    BY <2>2 DEF Builds, SendsAlone
  <2> QED
    BY <2>1, <2>2, RequestSteps
<1>3. ASSUME NEW m \in appendResponses' PROVE m.from = l
  BY ResponseSteps DEF SendsAlone
<1> QED
  BY <1>1, <1>2, <1>3 DEF SendsAlone

\* Entries that do not add a member leave it out of the VoterSet if it was out.
LEMMA NotAdded ==
  ASSUME NEW v \in VoterSets, NEW l \in Seq(LogEntry), NEW k \in MemberKey,
         NEW applied \in Nat, NEW c \in Nat,
         \A x \in 1..Len(l) : l[x].mc # [action |-> "add", key |-> k],
         v[k] = "none"
  PROVE  applyMembership(v, l, applied, c)[k] = "none"
<1> DEFINE new == {n \in newlyApplied(l, applied, c) : l[n].mc.key = k}
<1>1. applyMembership(v, l, applied, c)[k] =
        IF new = {} THEN v[k]
        ELSE IF l[Max(new)].mc.action = "add" THEN AddVoter(v, k)[k] ELSE Remove(v, k)[k]
  BY DEF applyMembership
<1>2. Remove(v, k)[k] = "none"
  BY DEF Remove, VoterSets
<1>3. CASE new # {}
  <2>1. Len(l) \in Nat
    BY EntryTypes
  <2>2. new \subseteq 0..Len(l) /\ new \subseteq 1..Len(l)
    BY <2>1 DEF newlyApplied, hasEntry
  <2>3. Max(new) \in new
    BY <1>3, <2>1, <2>2, MaxIsGreatest
  <2>4. Max(new) \in 1..Len(l) /\ l[Max(new)].mc.key = k
    BY <2>2, <2>3
  <2>5. l[Max(new)].mc \in MembershipChange
    BY <2>4, EntryTypes
  <2>6. l[Max(new)].mc.action # "add"
    BY <2>4, <2>5 DEF MembershipChange
  <2> QED
    BY <1>1, <1>2, <1>3, <2>6
<1> QED
  BY <1>1, <1>3

LEMMA ChangesAloneStep ==
  ASSUME TypeOK, TypeOK', PlaceholdersVote, NEW l \in Node, AddsSelf(l) \notin AdminOps,
         LeadsAlone(l), SendsAlone(l), ChangesAlone(l), [Next]_vars
  PROVE  ChangesAlone(l)'
<1>0. Placeholder(l) \in MemberKey /\ members[l] \in VoterSets /\ log[l] \in Seq(LogEntry)
  BY KeyFacts DEF TypeOK
<1>1. ASSUME NEW o \in ops' PROVE o.node = l /\ o.mc # AddsSelf(l)
  <2>1. CASE o.node \in Node /\ Called(o)
    <3>1. o.node = l
      BY <2>1 DEF Called, LeadsAlone
    <3>2. members[l][Placeholder(l)] # "observer"
      BY DEF PlaceholdersVote
    <3>3. AddsSelf(l).key = Placeholder(l)
      BY DEF AddsSelf
    <3> QED
      BY <2>1, <3>1, <3>2, <3>3 DEF Called
  <2>2. ASSUME NEW p \in ops, o.node = p.node, o.mc = p.mc PROVE o.node = l /\ o.mc # AddsSelf(l)
    BY <2>2 DEF ChangesAlone
  <2> QED
    BY <2>1, <2>2, OpSteps
<1>2. ASSUME NEW x \in 1..Len(log'[l]) PROVE log'[l][x].mc # AddsSelf(l)
  <2>1. CASE log'[l] = log[l]
    BY <1>2, <2>1 DEF ChangesAlone
  <2>2. ASSUME NEW i \in Node, NEW op \in ops, Appends(i, op) PROVE log'[l][x].mc # AddsSelf(l)
    <3> DEFINE e == [term |-> currentTerm[i], mc |-> op.mc]
    <3>1. log'[l] = log[l] \/ log'[l] = Append(log[l], e)
      BY <2>2 DEF Appends, TypeOK
    <3>2. e.mc # AddsSelf(l)
      BY DEF ChangesAlone
    <3>3. e \in LogEntry
      BY <2>2 DEF TypeOK, Op, LogEntry
    <3> HIDE DEF e
    <3> QED
      BY <1>0, <1>2, <2>1, <3>1, <3>2, <3>3, AppendProperties DEF ChangesAlone
  <2>3. ASSUME NEW i \in Node, NEW m \in appendRequests, Stores(i, m)
        PROVE  log'[l][x].mc # AddsSelf(l)
    <3>1. i # l
      BY <2>3 DEF Stores, SendsAlone
    <3> QED
      BY <2>1, <2>3, <3>1 DEF Stores, TypeOK
  <2> QED
    BY <2>1, <2>2, <2>3, LogSteps
<1>3. members'[l][Placeholder(l)] = "none"
  <2>0. members[l][Placeholder(l)] = "none"
    BY DEF ChangesAlone
  <2>1. CASE members'[l] = members[l]
    BY <2>0, <2>1
  <2>2. ASSUME NEW j \in Node, members'[l] = AddObserver(members[l], ID(j))
        PROVE  members'[l][Placeholder(l)] = "none"
    BY <1>0, <2>0, <2>2, KeyFacts DEF AddObserver, VoterSets, ID, Placeholder
  <2>3. ASSUME Applies(l, members[l], log[l]) PROVE members'[l][Placeholder(l)] = "none"
    <3>1. lastApplied[l] \in Nat /\ commitIndex'[l] \in Nat
      BY DEF TypeOK
    <3> QED
      BY <1>0, <2>0, <2>3, <3>1, NotAdded DEF Applies, ChangesAlone, AddsSelf
  <2>4. \A m \in appendRequests : AddrOf(m.peer) # l
    BY DEF SendsAlone
  <2> QED
    BY <2>1, <2>2, <2>3, <2>4, MemberSteps
<1> QED
  BY <1>1, <1>2, <1>3 DEF ChangesAlone

-----------------------------------------------------------------------------
(* The only leader's log, and its copies                                   *)

CopiesOf(l) ==
  \A i \in Node : /\ Len(log[i]) <= Len(log[l])
                  /\ \A x \in 1..Len(log[i]) : log[i][x] = log[l][x]

\* A request holds a stretch of the log of l that reaches beyond the commit
\* index sent with it.
RequestsCopy(l) ==
  \A m \in appendRequests :
    /\ m.leaderCommit <= m.prevLogIndex + Len(m.entries)
    /\ m.prevLogIndex + Len(m.entries) <= Len(log[l])
    /\ \A x \in 1..Len(m.entries) : m.entries[x] = log[l][m.prevLogIndex + x]

\* No index that l keeps or is sent back is beyond the end of its log.
IndexesWithin(l) ==
  /\ commitIndex[l] <= Len(log[l])
  /\ \A p \in Node : nextIndex[l][p] <= Len(log[l]) + 1
  /\ \A h \in heartbeats : h.leaderCommit <= Len(log[l]) /\ h.nextIdx <= Len(log[l]) + 1
  /\ \A m \in appendResponses : m.match <= Len(log[l])

LEMMA LeaderLogGrows ==
  ASSUME TypeOK, NEW l \in Node, SendsAlone(l), ChangesAlone(l), [Next]_vars
  PROVE  /\ Len(log[l]) \in Nat /\ Len(log'[l]) \in Nat
         /\ Len(log[l]) <= Len(log'[l])
         /\ \A x \in 1..Len(log[l]) : log'[l][x] = log[l][x]
<1>0. log[l] \in Seq(LogEntry) /\ Len(log[l]) \in Nat
  BY EntryTypes DEF TypeOK
<1>1. CASE log'[l] = log[l]
  BY <1>0, <1>1
<1>2. ASSUME NEW i \in Node, NEW m \in appendRequests, Stores(i, m) PROVE log'[l] = log[l]
  BY <1>2 DEF Stores, SendsAlone, TypeOK
<1>3. ASSUME NEW i \in Node, NEW op \in ops, Appends(i, op), ~(log'[l] = log[l])
      PROVE  /\ Len(log'[l]) = Len(log[l]) + 1
             /\ \A x \in 1..Len(log[l]) : log'[l][x] = log[l][x]
  <2> DEFINE e == [term |-> currentTerm[i], mc |-> op.mc]
  <2>1. log'[l] = Append(log[l], e)
    BY <1>3 DEF Appends, TypeOK
  <2>2. e \in LogEntry
    BY DEF TypeOK, Op, LogEntry
  <2> HIDE DEF e
  <2> QED
    BY <1>0, <2>1, <2>2, AppendProperties
<1> QED
  BY <1>0, <1>1, <1>2, <1>3, LogSteps

LEMMA IndexesWithinStep ==
  ASSUME TypeOK, TypeOK', NEW l \in Node, LeadsAlone(l), SendsAlone(l), ChangesAlone(l),
         RequestsCopy(l), IndexesWithin(l), [Next]_vars
  PROVE  IndexesWithin(l)'
<1>0. /\ Len(log[l]) \in Nat /\ Len(log'[l]) \in Nat /\ Len(log[l]) <= Len(log'[l])
      /\ commitIndex[l] \in Nat /\ commitIndex'[l] \in Nat
      /\ \A p \in Node : nextIndex[l][p] \in Nat /\ nextIndex'[l][p] \in Nat
  BY LeaderLogGrows DEF TypeOK
<1>1. commitIndex'[l] <= Len(log'[l])
  <2>1. CASE commitIndex'[l] = commitIndex[l]
    BY <1>0, <2>1 DEF IndexesWithin
  <2>2. CASE Applies(l, members[l], log[l])
    BY <1>0, <2>2 DEF IndexesWithin, Applies
  <2>3. \A m \in appendRequests : AddrOf(m.peer) # l
    BY DEF SendsAlone
  <2> QED
    BY <2>1, <2>2, <2>3, MemberSteps
<1>2. ASSUME NEW p \in Node PROVE nextIndex'[l][p] <= Len(log'[l]) + 1
  <2>1. CASE nextIndex'[l][p] <= nextIndex[l][p]
    BY <1>0, <2>1 DEF IndexesWithin
  <2>2. CASE nextIndex'[l][p] = Len(log[l]) + 1
    BY <1>0, <2>2
  <2>3. ASSUME NEW m \in appendResponses, nextIndex'[l][p] = m.match + 1
        PROVE  nextIndex'[l][p] <= Len(log'[l]) + 1
    <3>1. m.match \in Nat
      BY DEF TypeOK, AppendResponse
    <3> QED
      BY <1>0, <2>3, <3>1 DEF IndexesWithin
  <2> QED
    BY <2>1, <2>2, <2>3, IndexSteps
<1>3. ASSUME NEW h \in heartbeats'
      PROVE  h.leaderCommit <= Len(log'[l]) /\ h.nextIdx <= Len(log'[l]) + 1
  <2>0. h.leaderCommit \in Nat /\ h.nextIdx \in Nat
    BY DEF TypeOK, Heartbeat
  <2>1. CASE h \in heartbeats
    BY <1>0, <2>0, <2>1 DEF IndexesWithin
  <2>2. ASSUME NEW i \in Node, Started(i, h)
        PROVE  h.leaderCommit <= Len(log'[l]) /\ h.nextIdx <= Len(log'[l]) + 1
    <3>1. h.leaderCommit = commitIndex[l] /\ h.nextIdx = 0
      BY <2>2 DEF Started, LeadsAlone
    <3> QED
      BY <1>0, <3>1 DEF IndexesWithin
  <2>3. ASSUME NEW g \in heartbeats, Proceeds(g, h)
        PROVE  h.leaderCommit <= Len(log'[l]) /\ h.nextIdx <= Len(log'[l]) + 1
    <3>1. g.from = l /\ g.peer \in MemberKey
      BY DEF SendsAlone, TypeOK, Heartbeat
    <3>2. AddrOf(g.peer) \in Node
      BY <3>1, KeyFacts
    <3>3. h.leaderCommit = g.leaderCommit
      BY <2>3 DEF Proceeds
    <3>4. h.nextIdx \in {g.nextIdx, Len(log[l]) + 1, nextIndex[l][AddrOf(g.peer)]}
      BY <2>3, <3>1 DEF Proceeds, nextFor, lastIndex
    <3>5. nextIndex[l][AddrOf(g.peer)] <= Len(log[l]) + 1 /\ g.nextIdx <= Len(log[l]) + 1
      BY <3>2 DEF IndexesWithin
    <3> QED
      BY <1>0, <2>0, <3>3, <3>4, <3>5 DEF IndexesWithin
  <2> QED
    BY <2>1, <2>2, <2>3, HeartbeatSteps
<1>4. ASSUME NEW r \in appendResponses' PROVE r.match <= Len(log'[l])
  <2>0. r.match \in Nat
    BY DEF TypeOK, AppendResponse
  <2>1. CASE r \in appendResponses
    BY <1>0, <2>0, <2>1 DEF IndexesWithin
  <2>2. CASE r \notin appendResponses
    <3>1. PICK m \in appendRequests : r.match = m.prevLogIndex + Len(m.entries)
      BY <2>2, ResponseSteps
    <3> QED
      BY <1>0, <2>0, <3>1 DEF RequestsCopy
  <2> QED
    BY <2>1, <2>2
<1> QED
  BY <1>1, <1>2, <1>3, <1>4 DEF IndexesWithin

LEMMA RequestsCopyStep ==
  ASSUME TypeOK, NEW l \in Node, SendsAlone(l), ChangesAlone(l),
         RequestsCopy(l), IndexesWithin(l), [Next]_vars
  PROVE  RequestsCopy(l)'
<1>0. /\ log[l] \in Seq(LogEntry)
      /\ Len(log[l]) \in Nat /\ Len(log'[l]) \in Nat /\ Len(log[l]) <= Len(log'[l])
      /\ \A x \in 1..Len(log[l]) : log'[l][x] = log[l][x]
  BY LeaderLogGrows DEF TypeOK
<1>1. ASSUME NEW m, m.prevLogIndex \in Nat, Len(m.entries) \in Nat,
             m.prevLogIndex + Len(m.entries) <= Len(log[l]),
             \A x \in 1..Len(m.entries) : m.entries[x] = log[l][m.prevLogIndex + x]
      PROVE  /\ m.prevLogIndex + Len(m.entries) <= Len(log'[l])
             /\ \A x \in 1..Len(m.entries) : m.entries[x] = log'[l][m.prevLogIndex + x]
  <2>1. m.prevLogIndex + Len(m.entries) <= Len(log'[l])
    BY <1>0, <1>1
  <2>2. \A x \in 1..Len(m.entries) : m.prevLogIndex + x \in 1..Len(log[l])
    BY <1>0, <1>1
  <2> QED
    BY <1>0, <1>1, <2>1, <2>2
<1>2. ASSUME NEW m \in appendRequests
      PROVE  /\ m.leaderCommit <= m.prevLogIndex + Len(m.entries)
             /\ m.prevLogIndex + Len(m.entries) <= Len(log'[l])
             /\ \A x \in 1..Len(m.entries) : m.entries[x] = log'[l][m.prevLogIndex + x]
  <2>1. m.prevLogIndex \in Nat /\ m.entries \in Seq(LogEntry)
    BY DEF TypeOK, AppendRequest
  <2>2. Len(m.entries) \in Nat
    BY <2>1, EntryTypes
  <2> QED
    BY <1>1, <2>1, <2>2 DEF RequestsCopy
<1>3. ASSUME NEW i \in Node, NEW h \in heartbeats, NEW n \in Nat \ {0}, NEW r, Builds(i, h, n, r)
      PROVE  RequestsCopy(l)'
  <2>1. i = l
    BY <1>3 DEF Builds, SendsAlone
  <2>2. n <= Len(log[l]) + 1
    BY <1>3 DEF Builds, IndexesWithin
  <2>3. /\ r.prevLogIndex = n - 1 /\ r.entries = entriesFrom(log[l], n)
        /\ r.leaderCommit = h.leaderCommit /\ log'[l] = log[l]
        /\ appendRequests' = appendRequests \cup {r}
    BY <1>3, <2>1 DEF Builds
  <2>4. /\ Len(r.entries) = Len(log[l]) - n + 1
        /\ \A x \in 1..Len(r.entries) : r.entries[x] = log[l][n - 1 + x]
    <3>1. /\ Len(r.entries) = IF n <= Len(log[l]) THEN Len(log[l]) - n + 1 ELSE 0
          /\ \A x \in 1..Len(r.entries) : r.entries[x] = log[l][n - 1 + x]
      BY <1>0, <2>3, EntriesFromElements
    <3>2. Len(r.entries) = Len(log[l]) - n + 1
      BY <1>0, <2>2, <3>1
    <3> QED
      BY <3>1, <3>2
  <2>5. h.leaderCommit <= Len(log[l])
    BY DEF IndexesWithin
  <2>6. r.prevLogIndex + Len(r.entries) = Len(log[l])
    BY <1>0, <2>2, <2>3, <2>4
  <2>7. /\ r.leaderCommit <= r.prevLogIndex + Len(r.entries)
        /\ r.prevLogIndex + Len(r.entries) <= Len(log'[l])
        /\ \A x \in 1..Len(r.entries) : r.entries[x] = log'[l][r.prevLogIndex + x]
    BY <1>0, <2>3, <2>4, <2>5, <2>6
  <2> QED
    BY <1>2, <2>3, <2>7 DEF RequestsCopy
<1>4. CASE appendRequests' \subseteq appendRequests
  BY <1>2, <1>4 DEF RequestsCopy
<1> QED
  BY <1>3, <1>4, RequestSteps

LEMMA CopiesStep ==
  ASSUME TypeOK, NEW l \in Node, SendsAlone(l), ChangesAlone(l),
         RequestsCopy(l), CopiesOf(l), [Next]_vars
  PROVE  CopiesOf(l)'
<1>0. /\ Len(log[l]) \in Nat /\ Len(log'[l]) \in Nat /\ Len(log[l]) <= Len(log'[l])
      /\ \A x \in 1..Len(log[l]) : log'[l][x] = log[l][x]
  BY LeaderLogGrows
<1> SUFFICES ASSUME NEW i \in Node
             PROVE  /\ Len(log'[i]) <= Len(log'[l])
                    /\ \A x \in 1..Len(log'[i]) : log'[i][x] = log'[l][x]
  BY DEF CopiesOf
<1>1. CASE i = l
  BY <1>0, <1>1
<1>2. log[i] \in Seq(LogEntry) /\ Len(log[i]) \in Nat
  BY EntryTypes DEF TypeOK
<1>3. CASE log'[i] = log[i]
  BY <1>0, <1>2, <1>3 DEF CopiesOf
<1>4. ASSUME NEW j \in Node, NEW op \in ops, Appends(j, op), i # l PROVE log'[i] = log[i]
  BY <1>4 DEF Appends, ChangesAlone, TypeOK
<1>5. ASSUME NEW j \in Node, NEW m \in appendRequests, Stores(j, m), ~(log'[i] = log[i])
      PROVE  /\ Len(log'[i]) <= Len(log'[l])
             /\ \A x \in 1..Len(log'[i]) : log'[i][x] = log'[l][x]
  <2>1. i = j /\ log'[i] = logAfter(i, m) /\ prevMatches(i, m)
    BY <1>5 DEF Stores, TypeOK
  <2>2. log'[i] = append(log[i], m.prevLogIndex, m.entries)
    BY <1>5, <2>1 DEF logAfter
  <2>3. m.prevLogIndex \in Nat /\ m.entries \in Seq(LogEntry)
    BY DEF TypeOK, AppendRequest
  <2>4. m.prevLogIndex \in 0..Len(log[i]) /\ Len(m.entries) \in Nat
    BY <1>2, <2>1, <2>3, EntryTypes DEF prevMatches, hasEntry
  <2> DEFINE a == append(log[i], m.prevLogIndex, m.entries)
  <2>5. /\ Len(a) = m.prevLogIndex + Len(m.entries)
        /\ \A x \in 1..(m.prevLogIndex + Len(m.entries)) :
             a[x] = IF x <= m.prevLogIndex THEN log[i][x] ELSE m.entries[x - m.prevLogIndex]
    BY <1>2, <2>3, <2>4, AppendElements
  <2> HIDE DEF a
  <2>6. /\ m.prevLogIndex + Len(m.entries) <= Len(log[l])
        /\ \A x \in 1..Len(m.entries) : m.entries[x] = log[l][m.prevLogIndex + x]
    BY DEF RequestsCopy
  <2>7. ASSUME NEW x \in 1..(m.prevLogIndex + Len(m.entries)) PROVE a[x] = log[l][x]
    <3>1. CASE x <= m.prevLogIndex
      BY <1>2, <2>4, <2>5, <3>1 DEF CopiesOf
    <3>2. CASE x > m.prevLogIndex
      <4> DEFINE y == x - m.prevLogIndex
      <4>1. y \in 1..Len(m.entries) /\ m.prevLogIndex + y = x
        BY <2>3, <2>4, <3>2
      <4> HIDE DEF y
      <4>2. a[x] = m.entries[y]
        BY <2>3, <2>5, <3>2 DEF y
      <4> QED
        BY <2>6, <4>1, <4>2
    <3> QED
      BY <2>3, <2>4, <3>1, <3>2
  <2>8. log'[i] = a
    BY <2>2 DEF a
  <2>9. ASSUME NEW x \in 1..(m.prevLogIndex + Len(m.entries)) PROVE a[x] = log'[l][x]
    <3>1. x \in 1..Len(log[l])
      BY <1>0, <2>3, <2>4, <2>6
    <3> QED
      BY <1>0, <2>7, <3>1
  <2>10. Len(log'[i]) <= Len(log'[l])
    BY <1>0, <2>3, <2>4, <2>5, <2>6, <2>8
  <2> QED
    BY <2>5, <2>8, <2>9, <2>10
<1> QED
  BY <1>1, <1>3, <1>4, <1>5, LogSteps

-----------------------------------------------------------------------------
(* Theorems for one leader                                                 *)

LEMMA PlaceholdersAlwaysVote == Spec => []PlaceholdersVote
<1>1. Init => PlaceholdersVote
  <2>1. \A i \in Node : \A k \in MemberKey : Seed(i)[k] # "observer"
    BY DEF Seed, newVoterSet
  <2> QED
    BY <2>1, KeyFacts DEF Init, PlaceholdersVote
<1>2. TypeOK /\ TypeOK' /\ PlaceholdersVote /\ [Next]_vars => PlaceholdersVote'
  BY VoterSteps DEF VoterStep, PlaceholdersVote
<1> QED
  BY <1>1, <1>2, TypeCorrect, PTL DEF Spec

OneLeaderInv(l) ==
  /\ LeadsAlone(l)
  /\ SendsAlone(l)
  /\ ChangesAlone(l)
  /\ RequestsCopy(l)
  /\ IndexesWithin(l)
  /\ CopiesOf(l)

LEMMA InitOneLeader ==
  ASSUME NEW l \in Node, Init
  PROVE  OneLeaderInv(l)
<1>1. Seed(l)[Placeholder(l)] = "none"
  <2>1. Placeholder(l) \in MemberKey /\ Placeholder(l) # ID(l)
    BY KeyFacts
  <2>2. \A p \in Founders \ {l} : Placeholder(p) # Placeholder(l)
    BY DEF Placeholder
  <2> QED
    BY <2>1, <2>2 DEF Seed, newVoterSet
<1>2. \A i \in Node : Len(log[i]) = 0 /\ commitIndex[i] = 0 /\ \A p \in Node : nextIndex[i][p] = 0
  BY DEF Init
<1> QED
  BY <1>1, <1>2 DEF Init, OneLeaderInv, LeadsAlone, Elected, SendsAlone, ChangesAlone, RequestsCopy,
                    IndexesWithin, CopiesOf

LEMMA OneLeaderStep ==
  ASSUME NEW l \in Node, AddsSelf(l) \notin AdminOps,
         TypeOK, TypeOK', PlaceholdersVote, OnlyLeader(l)', OneLeaderInv(l), [Next]_vars
  PROVE  OneLeaderInv(l)'
  BY LeadsAloneStep, SendsAloneStep, ChangesAloneStep, RequestsCopyStep, IndexesWithinStep,
     CopiesStep DEF OneLeaderInv

LEMMA OneLeaderAlways ==
  ASSUME NEW l \in Node, AddsSelf(l) \notin AdminOps
  PROVE  Spec /\ []OnlyLeader(l) => []OneLeaderInv(l)
<1>1. Init => OneLeaderInv(l)
  BY InitOneLeader
<1>2. TypeOK /\ TypeOK' /\ PlaceholdersVote /\ OnlyLeader(l)' /\ OneLeaderInv(l) /\ [Next]_vars
        => OneLeaderInv(l)'
  BY OneLeaderStep
<1> QED
  BY <1>1, <1>2, TypeCorrect, PlaceholdersAlwaysVote, PTL DEF Spec

\* For any number of nodes, terms, entries and messages: as long as no node but
\* l has been leader, handleAppendEntries never leaves two logs that differ
\* where both have an entry, however the requests of the terms of l, those its
\* goroutines built late included, are lost, delayed or reordered.
THEOREM OneLeaderLogs ==
  ASSUME NEW l \in Node, AddsSelf(l) \notin AdminOps
  PROVE  Spec /\ []OnlyLeader(l) => []LogsArePrefixes
<1>1. TypeOK /\ OneLeaderInv(l) => LogsArePrefixes
  <2> SUFFICES ASSUME TypeOK, CopiesOf(l), NEW i \in Node, NEW j \in Node,
                      Len(log[i]) <= Len(log[j])
               PROVE  log[i] = SubSeq(log[j], 1, Len(log[i]))
    BY DEF OneLeaderInv, LogsArePrefixes
  <2>1. log[i] \in Seq(LogEntry) /\ log[j] \in Seq(LogEntry)
    BY DEF TypeOK
  <2>2. Len(log[i]) \in Nat /\ Len(log[j]) \in Nat
    BY <2>1, EntryTypes
  <2>3. \A x \in 1..Len(log[i]) : log[i][x] = log[j][x]
    <3> SUFFICES ASSUME NEW x \in 1..Len(log[i]) PROVE log[i][x] = log[j][x]
      OBVIOUS
    <3>1. x \in 1..Len(log[j])
      BY <2>2
    <3> QED
      BY <3>1 DEF CopiesOf
  <2> DEFINE s == SubSeq(log[j], 1, Len(log[i]))
  <2>4. /\ s \in Seq(LogEntry) /\ Len(s) = Len(log[i])
        /\ \A x \in 1..Len(log[i]) : s[x] = log[j][x]
    BY <2>1, <2>2, SubSeqProperties
  <2> HIDE DEF s
  <2>5. log[i] = s
    BY <2>1, <2>3, <2>4, SeqEqual
  <2> QED
    BY <2>5 DEF s
<1>2. Spec /\ []OnlyLeader(l) => []OneLeaderInv(l)
  BY OneLeaderAlways
<1> QED
  BY <1>1, <1>2, TypeCorrect, PTL

-----------------------------------------------------------------------------
(* Who votes, while one node leads and no voter is removed                 *)

AppliedWithin(l) ==
  \A i \in Node : lastApplied[i] = commitIndex[i] /\ lastApplied[i] <= Len(log[l])

OnlyAdds(l) ==
  /\ \A op \in ops : op.mc.action = "add"
  /\ \A x \in 1..Len(log[l]) : log[l][x].mc.action = "add"

Added(s, n) == {AddrOf(s[x].mc.key) : x \in 1..n}

\* A founder's voters are the founders and what the entries it applied add.
VotersAre(l) ==
  \A i \in Founders : VoterAddrs(members[i]) = Founders \cup Added(log[l], lastApplied[i])

LEMMA AddedVoters ==
  ASSUME NEW v \in VoterSets, NEW s \in Seq(LogEntry), NEW applied \in Nat, NEW c \in Nat,
         c <= Len(s), \A x \in 1..Len(s) : s[x].mc.action = "add"
  PROVE  VoterAddrs(applyMembership(v, s, applied, c)) =
           VoterAddrs(v) \cup {AddrOf(s[x].mc.key) : x \in (applied + 1)..c}
<1> DEFINE u == applyMembership(v, s, applied, c)
           new(k) == {n \in newlyApplied(s, applied, c) : s[n].mc.key = k}
<1>0. Len(s) \in Nat /\ \A x \in 1..Len(s) : s[x].mc \in MembershipChange
  BY EntryTypes
<1>1. newlyApplied(s, applied, c) = (applied + 1)..c
  BY <1>0 DEF newlyApplied, hasEntry
<1>2. ASSUME NEW k \in MemberKey
      PROVE  u[k] = IF new(k) = {} THEN v[k] ELSE "voter"
  <2>1. u[k] = IF new(k) = {} THEN v[k]
               ELSE IF s[Max(new(k))].mc.action = "add" THEN AddVoter(v, k)[k] ELSE Remove(v, k)[k]
    BY DEF applyMembership
  <2>2. AddVoter(v, k)[k] = "voter"
    BY DEF AddVoter, VoterSets
  <2>3. CASE new(k) # {}
    <3>1. new(k) \subseteq 0..Len(s) /\ new(k) \subseteq 1..Len(s)
      BY <1>0, <1>1
    <3>2. Max(new(k)) \in new(k)
      BY <1>0, <2>3, <3>1, MaxIsGreatest
    <3>3. s[Max(new(k))].mc.action = "add"
      BY <3>1, <3>2
    <3> QED
      BY <2>1, <2>2, <2>3, <3>3
  <2> QED
    BY <2>1, <2>3
<1>3. \A x \in (applied + 1)..c : x \in 1..Len(s) /\ s[x].mc.key \in MemberKey
  BY <1>0 DEF MembershipChange
<1>4. VoterKeys(u) = VoterKeys(v) \cup {s[x].mc.key : x \in (applied + 1)..c}
  <2>1. \A k \in MemberKey : new(k) # {} <=> k \in {s[x].mc.key : x \in (applied + 1)..c}
    BY <1>1
  <2> HIDE DEF u, new
  <2> QED
    BY <1>2, <1>3, <2>1 DEF VoterKeys
<1> HIDE DEF u
<1>5. VoterAddrs(u) = VoterAddrs(v) \cup {AddrOf(s[x].mc.key) : x \in (applied + 1)..c}
  BY <1>4 DEF VoterAddrs
<1> QED
  BY <1>5 DEF u

LEMMA OnlyAddsStep ==
  ASSUME TypeOK, NEW l \in Node, \A mc \in AdminOps : mc.action = "add",
         SendsAlone(l), ChangesAlone(l), OnlyAdds(l), [Next]_vars
  PROVE  OnlyAdds(l)'
<1>1. ASSUME NEW o \in ops' PROVE o.mc.action = "add"
  <2>1. CASE Called(o)
    BY <2>1 DEF Called
  <2>2. ASSUME NEW p \in ops, o.mc = p.mc PROVE o.mc.action = "add"
    BY <2>2 DEF OnlyAdds
  <2> QED
    BY <2>1, <2>2, OpSteps
<1>2. ASSUME NEW x \in 1..Len(log'[l]) PROVE log'[l][x].mc.action = "add"
  <2>0. log[l] \in Seq(LogEntry)
    BY DEF TypeOK
  <2>1. CASE log'[l] = log[l]
    BY <1>2, <2>1 DEF OnlyAdds
  <2>2. ASSUME NEW i \in Node, NEW m \in appendRequests, Stores(i, m) PROVE log'[l] = log[l]
    BY <2>2 DEF Stores, SendsAlone, TypeOK
  <2>3. ASSUME NEW i \in Node, NEW op \in ops, Appends(i, op), ~(log'[l] = log[l])
        PROVE  log'[l][x].mc.action = "add"
    <3> DEFINE e == [term |-> currentTerm[i], mc |-> op.mc]
    <3>1. log'[l] = Append(log[l], e)
      BY <2>3 DEF Appends, TypeOK
    <3>2. e \in LogEntry /\ e.mc = op.mc
      BY DEF TypeOK, Op, LogEntry
    <3>3. e.mc.action = "add"
      BY <3>2 DEF OnlyAdds
    <3> HIDE DEF e
    <3> QED
      BY <1>2, <2>0, <3>1, <3>2, <3>3, AppendProperties DEF OnlyAdds
  <2> QED
    BY <2>1, <2>2, <2>3, LogSteps
<1> QED
  BY <1>1, <1>2 DEF OnlyAdds

\* What the step of a node does to its commit index and to its voters.
LEMMA AppliedSteps ==
  ASSUME TypeOK, TypeOK', PlaceholdersVote, NEW l \in Node, SendsAlone(l), ChangesAlone(l),
         RequestsCopy(l), CopiesOf(l), CopiesOf(l)', AppliedWithin(l), OnlyAdds(l)', [Next]_vars,
         NEW i \in Node
  PROVE  /\ lastApplied'[i] = commitIndex'[i]
         /\ lastApplied'[i] >= lastApplied[i]
         /\ lastApplied'[i] <= Len(log'[l])
         /\ VoterAddrs(members'[i]) = VoterAddrs(members[i]) \cup
              {AddrOf(log'[l][x].mc.key) : x \in (lastApplied[i] + 1)..lastApplied'[i]}
<1>0. /\ lastApplied[i] \in Nat /\ commitIndex[i] \in Nat /\ lastApplied[i] = commitIndex[i]
      /\ lastApplied'[i] \in Nat /\ commitIndex'[i] \in Nat
      /\ members[i] \in VoterSets /\ lastApplied[i] <= Len(log[l])
      /\ \A n \in Node : members[i][Placeholder(n)] # "observer"
      /\ log'[i] \in Seq(LogEntry)
  BY DEF TypeOK, AppliedWithin, PlaceholdersVote
<1>1. /\ Len(log[l]) \in Nat /\ Len(log'[l]) \in Nat /\ Len(log[l]) <= Len(log'[l])
  BY LeaderLogGrows
<1>2. ASSUME lastApplied'[i] = lastApplied[i], commitIndex'[i] = commitIndex[i],
             VoterAddrs(members'[i]) = VoterAddrs(members[i])
      PROVE  /\ lastApplied'[i] = commitIndex'[i]
             /\ lastApplied'[i] >= lastApplied[i]
             /\ lastApplied'[i] <= Len(log'[l])
             /\ VoterAddrs(members'[i]) = VoterAddrs(members[i]) \cup
                  {AddrOf(log'[l][x].mc.key) : x \in (lastApplied[i] + 1)..lastApplied'[i]}
  <2>1. (lastApplied[i] + 1)..lastApplied'[i] = {}
    BY <1>0, <1>2
  <2> QED
    BY <1>0, <1>1, <1>2, <2>1
<1>3. ASSUME NEW v \in VoterSets, VoterAddrs(v) = VoterAddrs(members[i]),
             Applies(i, v, log'[i]), commitIndex'[i] >= commitIndex[i]
      PROVE  /\ lastApplied'[i] = commitIndex'[i]
             /\ lastApplied'[i] >= lastApplied[i]
             /\ lastApplied'[i] <= Len(log'[l])
             /\ VoterAddrs(members'[i]) = VoterAddrs(members[i]) \cup
                  {AddrOf(log'[l][x].mc.key) : x \in (lastApplied[i] + 1)..lastApplied'[i]}
  <2>1. lastApplied'[i] = commitIndex'[i]
    BY <1>0, <1>3, PairMaxMin DEF Applies
  <2>2. CASE commitIndex'[i] = commitIndex[i]
    <3>1. members'[i] = v
      BY <1>0, <1>3, <2>2, NothingApplied DEF Applies
    <3> QED
      BY <1>0, <1>2, <1>3, <2>1, <2>2, <3>1
  <2>3. CASE commitIndex'[i] > commitIndex[i]
    <3>1. /\ Len(log'[i]) \in Nat /\ commitIndex'[i] <= Len(log'[i])
          /\ Len(log'[i]) <= Len(log'[l]) /\ \A x \in 1..Len(log'[i]) : log'[i][x] = log'[l][x]
      BY <1>0, <1>3, <2>3, EntryTypes DEF Applies, CopiesOf
    <3>2. \A x \in 1..Len(log'[i]) : x \in 1..Len(log'[l]) /\ log'[i][x].mc.action = "add"
      BY <1>1, <3>1 DEF OnlyAdds
    <3>3. VoterAddrs(members'[i]) = VoterAddrs(v) \cup
            {AddrOf(log'[i][x].mc.key) : x \in (lastApplied[i] + 1)..commitIndex'[i]}
      <4> DEFINE s == log'[i]
                 c == commitIndex'[i]
      <4>1. members'[i] = applyMembership(v, s, lastApplied[i], c)
        BY <1>3 DEF Applies
      <4>2. /\ s \in Seq(LogEntry) /\ c \in Nat /\ c <= Len(s)
            /\ \A x \in 1..Len(s) : s[x].mc.action = "add"
        BY <1>0, <3>1, <3>2
      <4> HIDE DEF s, c
      <4>3. VoterAddrs(members'[i]) = VoterAddrs(v) \cup
              {AddrOf(s[x].mc.key) : x \in (lastApplied[i] + 1)..c}
        BY <1>0, <4>1, <4>2, AddedVoters
      <4> QED
        BY <4>3 DEF s, c
    <3>4. \A x \in (lastApplied[i] + 1)..commitIndex'[i] : log'[i][x] = log'[l][x]
      BY <1>0, <3>1
    <3>5. {AddrOf(log'[i][x].mc.key) : x \in (lastApplied[i] + 1)..commitIndex'[i]} =
            {AddrOf(log'[l][x].mc.key) : x \in (lastApplied[i] + 1)..commitIndex'[i]}
      BY <3>4
    <3>6. lastApplied'[i] >= lastApplied[i] /\ lastApplied'[i] <= Len(log'[l])
      BY <1>0, <1>1, <2>1, <2>3, <3>1
    <3> QED
      BY <1>3, <2>1, <3>3, <3>5, <3>6
  <2> QED
    BY <1>0, <1>3, <2>2, <2>3
<1>4. ASSUME NEW n \in Node
      PROVE  /\ UpdateID(members[i], n) \in VoterSets
             /\ VoterAddrs(UpdateID(members[i], n)) = VoterAddrs(members[i])
             /\ VoterAddrs(AddObserver(members[i], ID(n))) = VoterAddrs(members[i])
  BY <1>0, KeyFacts, VoterSetTypes, RenamedVotersStay, JoinedVotersStay
<1>5. ASSUME NEW m \in appendRequests, log'[i] = logAfter(i, m), prevMatches(i, m)
      PROVE  m.leaderCommit <= Len(log'[i])
  <2>1. /\ m.prevLogIndex \in Nat /\ m.entries \in Seq(LogEntry) /\ m.leaderCommit \in Nat
        /\ log[i] \in Seq(LogEntry)
    BY DEF TypeOK, AppendRequest
  <2>2. Len(m.entries) \in Nat /\ Len(log[i]) \in Nat
    BY <2>1, EntryTypes
  <2>3. m.prevLogIndex \in 0..Len(log[i])
    BY <1>5, <2>1, <2>2 DEF prevMatches, hasEntry
  <2>4. m.prevLogIndex + Len(m.entries) <= Len(log'[i])
    <3>1. CASE m.entries = <<>>
      <4>1. log'[i] = log[i]
        BY <1>5, <3>1 DEF logAfter
      <4>2. Len(<<>>) = 0
        OBVIOUS
      <4>3. Len(m.entries) = 0
        BY <3>1, <4>2
      <4> QED
        BY <2>2, <2>3, <4>1, <4>3
    <3>2. CASE m.entries # <<>>
      <4>1. log'[i] = append(log[i], m.prevLogIndex, m.entries)
        BY <1>5, <3>2 DEF logAfter
      <4>2. Len(append(log[i], m.prevLogIndex, m.entries)) = m.prevLogIndex + Len(m.entries)
        BY <2>1, <2>3, AppendElements
      <4> QED
        BY <2>1, <2>2, <4>1, <4>2
    <3> QED
      BY <3>1, <3>2
  <2>5. m.leaderCommit <= m.prevLogIndex + Len(m.entries)
    BY DEF RequestsCopy
  <2>6. Len(log'[i]) \in Nat
    BY <1>0, EntryTypes
  <2> QED
    BY <2>1, <2>2, <2>4, <2>5, <2>6
<1>6. ASSUME NEW m \in appendRequests, m.from \in Node,
             prevMatches(i, m), log'[i] = logAfter(i, m),
             Applies(i, UpdateID(members[i], m.from), log'[i]),
             m.leaderCommit <= Len(log'[i]) => commitIndex'[i] >= commitIndex[i]
      PROVE  \E v \in VoterSets : /\ VoterAddrs(v) = VoterAddrs(members[i])
                                  /\ Applies(i, v, log'[i]) /\ commitIndex'[i] >= commitIndex[i]
  BY <1>4, <1>5, <1>6
<1>7. \/ /\ lastApplied'[i] = lastApplied[i] /\ commitIndex'[i] = commitIndex[i]
         /\ VoterAddrs(members'[i]) = VoterAddrs(members[i])
      \/ \E v \in VoterSets : /\ VoterAddrs(v) = VoterAddrs(members[i])
                              /\ Applies(i, v, log'[i]) /\ commitIndex'[i] >= commitIndex[i]
  BY <1>0, <1>4, <1>6, MemberSteps
<1> QED
  BY <1>2, <1>3, <1>7

LEMMA FoundersSeeded ==
  ASSUME NEW i \in Founders
  PROVE  VoterAddrs(Seed(i)) = Founders
<1>0. Founders \subseteq Node /\ i \in Node
  BY FoundersAssumption
<1>1. VoterKeys(Seed(i)) = {ID(i)} \cup {Placeholder(p) : p \in Founders \ {i}}
  BY <1>0, KeyFacts DEF VoterKeys, Seed, newVoterSet
<1>2. VoterAddrs(Seed(i)) = {AddrOf(k) : k \in {ID(i)} \cup {Placeholder(p) : p \in Founders \ {i}}}
  BY <1>1 DEF VoterAddrs
<1>3. {AddrOf(k) : k \in {ID(i)} \cup {Placeholder(p) : p \in Founders \ {i}}} = Founders
  <2>1. AddrOf(ID(i)) = i /\ \A p \in Founders : AddrOf(Placeholder(p)) = p
    BY <1>0, KeyFacts
  <2> QED
    BY <2>1
<1> QED
  BY <1>2, <1>3

VotersInv(l) == AppliedWithin(l) /\ OnlyAdds(l) /\ VotersAre(l)

LEMMA VotersInvStep ==
  ASSUME NEW l \in Node, \A mc \in AdminOps : mc.action = "add",
         TypeOK, TypeOK', PlaceholdersVote, OneLeaderInv(l), OneLeaderInv(l)', VotersInv(l),
         [Next]_vars
  PROVE  VotersInv(l)'
<1>1. OnlyAdds(l)'
  BY OnlyAddsStep DEF OneLeaderInv, VotersInv
<1>2. ASSUME NEW i \in Node
      PROVE  /\ lastApplied'[i] = commitIndex'[i]
             /\ lastApplied'[i] >= lastApplied[i]
             /\ lastApplied'[i] <= Len(log'[l])
             /\ VoterAddrs(members'[i]) = VoterAddrs(members[i]) \cup
                  {AddrOf(log'[l][x].mc.key) : x \in (lastApplied[i] + 1)..lastApplied'[i]}
  BY <1>1, AppliedSteps DEF OneLeaderInv, VotersInv
<1>3. AppliedWithin(l)'
  BY <1>2 DEF AppliedWithin
<1>4. ASSUME NEW i \in Founders
      PROVE  VoterAddrs(members'[i]) = Founders \cup Added(log'[l], lastApplied'[i])
  <2>0. i \in Node /\ lastApplied[i] \in Nat /\ lastApplied'[i] \in Nat
    BY FoundersAssumption DEF TypeOK
  <2>1. lastApplied[i] <= Len(log[l]) /\ Len(log[l]) \in Nat
        /\ \A x \in 1..Len(log[l]) : log'[l][x] = log[l][x]
    BY <2>0, LeaderLogGrows DEF OneLeaderInv, VotersInv, AppliedWithin
  <2>2. Added(log[l], lastApplied[i]) = Added(log'[l], lastApplied[i])
    <3>1. \A x \in 1..lastApplied[i] : log'[l][x] = log[l][x]
      BY <2>0, <2>1
    <3> QED
      BY <3>1 DEF Added
  <2>3. 1..lastApplied'[i] = (1..lastApplied[i]) \cup ((lastApplied[i] + 1)..lastApplied'[i])
    BY <1>2, <2>0
  <2>4. Added(log'[l], lastApplied'[i]) = Added(log'[l], lastApplied[i]) \cup
          {AddrOf(log'[l][x].mc.key) : x \in (lastApplied[i] + 1)..lastApplied'[i]}
    BY <2>3 DEF Added
  <2>5. VoterAddrs(members[i]) = Founders \cup Added(log[l], lastApplied[i])
    BY DEF VotersInv, VotersAre
  <2> QED
    BY <1>2, <2>0, <2>2, <2>4, <2>5
<1> QED
  BY <1>1, <1>3, <1>4 DEF VotersInv, VotersAre, VoterAddrs, VoterKeys

\* For any number of nodes, terms and entries: as long as no node but l has been
\* leader and no voter is removed, founders that have applied equally many
\* entries agree on who votes, whichever of them still files the others under
\* their addresses, and although a late request may shorten a follower's log
\* below what it has applied.
THEOREM OneLeaderVoters ==
  ASSUME NEW l \in Node, AddsSelf(l) \notin AdminOps, \A mc \in AdminOps : mc.action = "add"
  PROVE  Spec /\ []OnlyLeader(l) => []SameAppliedSameVoters
<1>1. Init => VotersInv(l)
  <2> SUFFICES ASSUME Init PROVE VotersInv(l)
    OBVIOUS
  <2>1. \A i \in Founders : i \in Node /\ members[i] = Seed(i) /\ lastApplied[i] = 0
    BY FoundersAssumption DEF Init
  <2>2. Added(log[l], 0) = {}
    BY DEF Added
  <2>3. VotersAre(l)
    BY <2>1, <2>2, FoundersSeeded DEF VotersAre
  <2>4. \A i \in Node : lastApplied[i] = 0 /\ commitIndex[i] = 0 /\ Len(log[i]) = 0
    BY DEF Init
  <2>5. ops = {}
    BY DEF Init
  <2> QED
    BY <2>3, <2>4, <2>5 DEF VotersInv, AppliedWithin, OnlyAdds
<1>2. (/\ TypeOK /\ TypeOK' /\ PlaceholdersVote /\ OneLeaderInv(l) /\ OneLeaderInv(l)'
       /\ VotersInv(l) /\ [Next]_vars)
        => VotersInv(l)'
  BY VotersInvStep
<1>3. VotersInv(l) => SameAppliedSameVoters
  BY DEF VotersInv, VotersAre, SameAppliedSameVoters
<1>4. Spec /\ []OnlyLeader(l) => []OneLeaderInv(l)
  BY OneLeaderAlways
<1> QED
  BY <1>1, <1>2, <1>3, <1>4, TypeCorrect, PlaceholdersAlwaysVote, PTL DEF Spec

-----------------------------------------------------------------------------
(* When one node only campaigns                                            *)

CampaignsAlone(l) ==
  /\ \A i \in Node \ {l} : pc[i] = "follower"
  /\ \A h \in heartbeats : h.from = l
  /\ \A m \in appendRequests : m.from = l
  /\ OnlyLeader(l)

LEMMA CampaignsAloneStep ==
  ASSUME NEW l \in Node, Candidates \subseteq {l}, TypeOK, CampaignsAlone(l), [Next]_vars
  PROVE  CampaignsAlone(l)'
<1> USE DEF electionVars, logVars, replicationVars, runVars, voteMsgs, appendMsgs, calls
<1>1. \A h \in heartbeats' : h.from = l
  <2> SUFFICES ASSUME NEW h \in heartbeats', h \notin heartbeats PROVE h.from = l
    BY DEF CampaignsAlone
  <2>1. CASE \E i \in Node : Started(i, h)
    BY <2>1 DEF Started, CampaignsAlone, Elected
  <2>2. CASE \E g \in heartbeats : Proceeds(g, h)
    BY <2>2 DEF Proceeds, CampaignsAlone
  <2> QED
    BY <2>1, <2>2, HeartbeatSteps
<1>2. \A m \in appendRequests' : m.from = l
  <2>1. CASE appendRequests' \subseteq appendRequests
    BY <2>1 DEF CampaignsAlone
  <2>2. ASSUME NEW i \in Node, NEW h \in heartbeats, NEW n \in Nat \ {0}, NEW r, Builds(i, h, n, r)
        PROVE  \A m \in appendRequests' : m.from = l
    BY <2>2 DEF Builds, CampaignsAlone
  <2> QED
    BY <2>1, <2>2, RequestSteps
<1>3. ASSUME NEW i \in Node, runStep(i)
      PROVE  (\A j \in Node \ {l} : pc'[j] = "follower") /\ OnlyLeader(l)'
  <2>1. CASE i = l
    <3>1. \A j \in Node \ {l} : pc'[j] = pc[j]
      <4>1. ASSUME NEW x, pc' = [pc EXCEPT ![l] = x] PROVE \A j \in Node \ {l} : pc'[j] = pc[j]
        BY <4>1 DEF TypeOK
      <4>2. CASE ReceiveVote(i)
        BY <2>1, <4>1, <4>2 DEF ReceiveVote, becomeLeader
      <4>3. CASE ElectionTimeout(i)
        BY <2>1, <4>1, <4>3 DEF ElectionTimeout
      <4>4. CASE LeaderTick(i) \/ FirstBroadcast(i)
        BY <2>1, <4>1, <4>4 DEF LeaderTick, FirstBroadcast
      <4>5. ASSUME ~ReceiveVote(i), ~ElectionTimeout(i), ~LeaderTick(i), ~FirstBroadcast(i)
            PROVE  \A j \in Node \ {l} : pc'[j] = pc[j]
        BY <1>3, <2>1, <4>1, <4>5 DEF runStep, FollowerTimeout, BecomeCandidate,
             ResetElectionTimer, ReturnToFollower, StartElection, RequestVotes, CandidateHeartbeat
      <4> QED
        BY <4>2, <4>3, <4>4, <4>5
    <3>2. leaderID' = leaderID \/ leaderID' = [leaderID EXCEPT ![l] = l]
      BY <1>3, <2>1 DEF runStep, FollowerTimeout, BecomeCandidate, ResetElectionTimer,
           ReturnToFollower, StartElection, RequestVotes, ElectionTimeout, CandidateHeartbeat,
           ReceiveVote, becomeLeader, FirstBroadcast, LeaderTick
    <3> QED
      BY <3>1, <3>2 DEF CampaignsAlone, OnlyLeader, TypeOK
  <2>2. CASE i # l
    <3>1. pc[i] = "follower" /\ ~mayElect(i)
      BY <2>2 DEF CampaignsAlone, mayElect
    <3>2. ResetElectionTimer(i)
      BY <1>3, <3>1 DEF runStep, FollowerTimeout, BecomeCandidate, ReturnToFollower, StartElection,
           RequestVotes, ElectionTimeout, CandidateHeartbeat, ReceiveVote, FirstBroadcast, LeaderTick
    <3> QED
      BY <3>2 DEF ResetElectionTimer, CampaignsAlone, OnlyLeader
  <2> QED
    BY <2>1, <2>2
<1>4. ASSUME NEW i \in Node, MismatchAppendEntries(i) \/ AcceptAppendEntries(i)
      PROVE  UNCHANGED pc /\ OnlyLeader(l)'
  <2>1. PICK m \in appendRequests : followLeader(i, m)
    BY <1>4 DEF MismatchAppendEntries, AcceptAppendEntries
  <2>2. leaderID' = [leaderID EXCEPT ![i] = l]
    BY <2>1 DEF followLeader, CampaignsAlone
  <2>3. UNCHANGED pc
    BY <1>4 DEF MismatchAppendEntries, AcceptAppendEntries
  <2> QED
    BY <2>2, <2>3 DEF CampaignsAlone, OnlyLeader, TypeOK
<1>5. ASSUME NEW i \in Node, handlerStep(i), ~MismatchAppendEntries(i), ~AcceptAppendEntries(i)
      PROVE  UNCHANGED <<pc, leaderID>>
  BY <1>5 DEF handlerStep, handleVoteRequest, RejectAppendEntries
<1>6. ASSUME NEW i \in Node, rpcStep(i) \/ adminStep(i) PROVE UNCHANGED <<pc, leaderID>>
  BY <1>6 DEF rpcStep, VoteDenied, buildRequest, ReadNextIndex, ReadPrevious, PrepareAppend,
         RpcFails, ResponseStepDown, ResponseSuccess,
       ResponseBackoff,
       adminStep, JoinAsObserver, JoinAddObserver, JoinResetIndexes, AdminCall,
       AutoPromoteCall, AppendAndWait, AdminSucceeds, AdminFails
<1>7. CASE UNCHANGED <<pc, leaderID>>
  BY <1>1, <1>2, <1>7 DEF CampaignsAlone, OnlyLeader
<1>8. CASE UNCHANGED vars
  BY <1>7, <1>8 DEF vars
<1>9. CASE UNCHANGED pc /\ OnlyLeader(l)'
  BY <1>1, <1>2, <1>9 DEF CampaignsAlone
<1>10. CASE (\A j \in Node \ {l} : pc'[j] = "follower") /\ OnlyLeader(l)'
  BY <1>1, <1>2, <1>10 DEF CampaignsAlone
<1> QED
  BY <1>3, <1>4, <1>5, <1>6, <1>7, <1>8, <1>9, <1>10 DEF Next

\* The condition of the theorems for one leader is met whenever the election
\* timer of one node only ever fires.
LEMMA OnlyCandidateLeads ==
  ASSUME NEW l \in Node, Candidates \subseteq {l}
  PROVE  Spec => []OnlyLeader(l)
<1>1. Init => CampaignsAlone(l)
  BY DEF Init, CampaignsAlone, OnlyLeader
<1>2. TypeOK /\ CampaignsAlone(l) /\ [Next]_vars => CampaignsAlone(l)'
  BY CampaignsAloneStep
<1>3. CampaignsAlone(l) => OnlyLeader(l)
  BY DEF CampaignsAlone
<1> QED
  BY <1>1, <1>2, <1>3, TypeCorrect, PTL DEF Spec
=============================================================================
