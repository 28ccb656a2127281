-------------------------- MODULE LeadershipProofs --------------------------
(***************************************************************************)
(* Raft implements Leadership, for any number of nodes, in both modes and  *)
(* for any bounds.  The steps of Raft are sorted by what they do to the    *)
(* three variables of Leadership, and each sort is mapped once.            *)
(***************************************************************************)
EXTENDS RaftLeadership, RaftProofs

\* The variables of Leadership, as RaftLeadership maps them.
Leads == {i \in Node : state[i] = "Leader"}
Heard == {i \in Node : heardAsLeader(i)}

\* Only run() makes its node the leader, when it is on its way into runLeader,
\* and it stays there for as long as n.state says Leader: without this a
\* deposed leader's silence could not be told from a leader's.
LeadersLead == \A i \in Node : state[i] = "Leader" => Elected(i)

LEMMA InitLeadersLead == Init => LeadersLead
  BY DEF Init, LeadersLead

LEMMA LeadersLeadStep == TypeOK /\ LeadersLead /\ [Next]_vars => LeadersLead'
<1> SUFFICES ASSUME TypeOK, LeadersLead, [Next]_vars PROVE LeadersLead'
  OBVIOUS
<1> USE DEF electionVars, logVars, replicationVars, runVars, voteMsgs, appendMsgs, calls
<1>1. ASSUME UNCHANGED pc, \A j \in Node : state'[j] \in {state[j], "Follower"}
      PROVE  LeadersLead'
  BY <1>1 DEF LeadersLead, Elected
<1>2. ASSUME UNCHANGED <<state, pc>> PROVE LeadersLead'
  BY <1>1, <1>2
<1>3. ASSUME NEW i \in Node, runStep(i) PROVE LeadersLead'
  <2>1. ASSUME \A j \in Node \ {i} : state'[j] = state[j] /\ pc'[j] = pc[j],
               state'[i] = "Leader" => Elected(i)'
        PROVE  LeadersLead'
    BY <2>1 DEF LeadersLead, Elected
  <2>2. CASE FollowerTimeout(i)
    BY <2>1, <2>2 DEF FollowerTimeout, TypeOK, LeadersLead, Elected
  <2>3. CASE BecomeCandidate(i)
    BY <2>1, <2>3 DEF BecomeCandidate, TypeOK
  <2>4. CASE ReturnToFollower(i)
    BY <2>1, <2>4 DEF ReturnToFollower, TypeOK
  <2>5. CASE StartElection(i)
    BY <2>1, <2>5 DEF StartElection, TypeOK, LeadersLead, Elected
  <2>6. CASE RequestVotes(i)
    BY <2>1, <2>6 DEF RequestVotes, TypeOK, LeadersLead, Elected
  <2>7. CASE ElectionTimeout(i)
    BY <2>1, <2>7 DEF ElectionTimeout, TypeOK, LeadersLead, Elected
  <2>8. CASE CandidateHeartbeat(i)
    BY <2>1, <2>8 DEF CandidateHeartbeat, TypeOK
  <2>9. CASE ReceiveVote(i)
    BY <1>2, <2>1, <2>9 DEF ReceiveVote, becomeLeader, TypeOK, Elected
  <2>10. CASE FirstBroadcast(i)
    BY <2>1, <2>10 DEF FirstBroadcast, TypeOK, Elected
  <2>11. CASE LeaderTick(i)
    BY <1>2, <2>1, <2>11 DEF LeaderTick, TypeOK
  <2> QED
    BY <1>2, <1>3, <2>2, <2>3, <2>4, <2>5, <2>6, <2>7, <2>8, <2>9, <2>10, <2>11
       DEF runStep, ResetElectionTimer
<1>4. ASSUME NEW i \in Node, handlerStep(i) PROVE LeadersLead'
  <2>1. CASE handleVoteRequest(i)
    BY <1>1, <2>1 DEF handleVoteRequest, TypeOK
  <2>2. CASE RejectAppendEntries(i)
    BY <1>2, <2>2 DEF RejectAppendEntries
  <2>3. CASE MismatchAppendEntries(i)
    BY <1>1, <2>3 DEF MismatchAppendEntries, followLeader, TypeOK
  <2>4. CASE AcceptAppendEntries(i)
    BY <1>1, <2>4 DEF AcceptAppendEntries, followLeader, TypeOK
  <2> QED
    BY <1>4, <2>1, <2>2, <2>3, <2>4 DEF handlerStep
<1>5. ASSUME NEW i \in Node, rpcStep(i) PROVE LeadersLead'
  <2>1. CASE VoteDenied(i)
    BY <1>1, <2>1 DEF VoteDenied, stepDown, TypeOK
  <2>2. CASE ResponseStepDown(i)
    BY <1>1, <2>2 DEF ResponseStepDown, stepDown, TypeOK
  <2>3. CASE ResponseSuccess(i)
    BY <1>1, <2>3 DEF ResponseSuccess, TypeOK
  <2> QED
    BY <1>2, <1>5, <2>1, <2>2, <2>3 DEF rpcStep, buildRequest, ReadNextIndex, ReadPrevious,
           PrepareAppend, RpcFails, ResponseBackoff
<1>6. ASSUME NEW i \in Node, adminStep(i) PROVE LeadersLead'
  BY <1>2, <1>6 DEF adminStep, JoinAsObserver, JoinAddObserver, JoinResetIndexes, AdminCall,
         AutoPromoteCall, AppendAndWait, AdminSucceeds, AdminFails
<1>7. CASE UNCHANGED vars
  BY <1>2, <1>7 DEF vars
<1> QED
  BY <1>3, <1>4, <1>5, <1>6, <1>7 DEF Next

-----------------------------------------------------------------------------
(* What a step of Leadership is, in the variables of Raft                  *)

AbstractStep == [Abstract!LNext]_(Abstract!leadership)

LEMMA NothingStep ==
  ASSUME Leads' = Leads, Heard' = Heard, leaderID' = leaderID
  PROVE  AbstractStep
  BY DEF AbstractStep, Abstract!leadership, Leads, Heard

LEMMA WinStep ==
  ASSUME NEW n \in Node, Leads' = Leads \cup {n}, Heard' = Heard \cup {n},
         leaderID' = [leaderID EXCEPT ![n] = n]
  PROVE  AbstractStep
  BY DEF AbstractStep, Abstract!LNext, Abstract!Win, Leads, Heard

LEMMA FollowStep ==
  ASSUME NEW n \in Node, NEW m \in Heard, Leads' = Leads \ {n},
         Heard' = Heard \/ (Heard' = Heard \ {m} /\ m \notin Leads'),
         leaderID' = [leaderID EXCEPT ![n] = m]
  PROVE  AbstractStep
<1>1. Heard' \in {Heard, Heard \ ({m} \ Leads')}
  <2>1. CASE Heard' = Heard
    BY <2>1
  <2>2. CASE Heard' = Heard \ {m} /\ m \notin Leads'
    <3>1. {m} \ Leads' = {m}
      BY <2>2
    <3> QED
      BY <2>2, <3>1
  <2> QED
    BY <2>1, <2>2
<1>2. m \in Node
  BY DEF Heard
<1> QED
  BY <1>1, <1>2 DEF AbstractStep, Abstract!LNext, Abstract!Follow, Leads, Heard

LEMMA StepDownStep ==
  ASSUME NEW n \in Node, Leads' = Leads \ {n}, Heard' = Heard, leaderID' = leaderID
  PROVE  AbstractStep
<1>1. CASE n \in Leads
  BY <1>1 DEF AbstractStep, Abstract!LNext, Abstract!StepDown, Leads, Heard
<1>2. CASE n \notin Leads
  BY <1>2, NothingStep
<1> QED
  BY <1>1, <1>2

LEMMA QuietStep ==
  ASSUME NEW n \in Node, n \notin Leads, Leads' = Leads, Heard' = Heard \ {n},
         leaderID' = leaderID
  PROVE  AbstractStep
  BY DEF AbstractStep, Abstract!LNext, Abstract!Quiet, Leads, Heard

-----------------------------------------------------------------------------
(* Who is heard                                                            *)

LEMMA HeardKept ==
  ASSUME UNCHANGED <<heartbeats, appendRequests>>,
         \A j \in Node : Elected(j)' <=> Elected(j)
  PROVE  Heard' = Heard
  BY DEF Heard, heardAsLeader, Elected

LEMMA RequestGone ==
  ASSUME TypeOK, NEW m \in appendRequests, appendRequests' = appendRequests \ {m},
         UNCHANGED <<heartbeats, pc>>
  PROVE  /\ m.from \in Heard
         /\ \/ Heard' = Heard
            \/ Heard' = Heard \ {m.from} /\ ~Elected(m.from)
<1>1. m.from \in Node
  BY DEF TypeOK, AppendRequest
<1>2. m.from \in Heard
  BY <1>1 DEF Heard, heardAsLeader
<1>3. \A j \in Node \ {m.from} : heardAsLeader(j)' <=> heardAsLeader(j)
  BY DEF heardAsLeader
<1>4. CASE heardAsLeader(m.from)'
  BY <1>1, <1>2, <1>3, <1>4 DEF Heard
<1>5. CASE ~heardAsLeader(m.from)'
  <2>1. ~Elected(m.from)
    BY <1>5 DEF heardAsLeader, Elected
  <2>2. Heard' = Heard \ {m.from}
    BY <1>1, <1>3, <1>5 DEF Heard
  <2> QED
    BY <1>2, <2>1, <2>2
<1> QED
  BY <1>4, <1>5

\* run() of a node that does not lead leaves runLeader, or its last broadcast.
LEMMA OneLess ==
  ASSUME TypeOK, LeadersLead', NEW i \in Node, UNCHANGED <<state, leaderID, appendRequests>>,
         state[i] # "Leader",
         \A j \in Node \ {i} : Elected(j)' <=> Elected(j),
         \A j \in Node \ {i} : (\E h \in heartbeats' : h.from = j) <=> (\E h \in heartbeats : h.from = j),
         heardAsLeader(i)
  PROVE  AbstractStep
<1>1. Leads' = Leads /\ i \notin Leads
  BY DEF Leads
<1>2. \A j \in Node \ {i} : heardAsLeader(j)' <=> heardAsLeader(j)
  BY DEF heardAsLeader, Elected
<1>3. CASE heardAsLeader(i)'
  <2>1. Heard' = Heard
    BY <1>2, <1>3 DEF Heard
  <2> QED
    BY <1>1, <2>1, NothingStep
<1>4. CASE ~heardAsLeader(i)'
  <2>1. Heard' = Heard \ {i}
    BY <1>2, <1>4 DEF Heard
  <2> QED
    BY <1>1, <2>1, QuietStep
<1> QED
  BY <1>3, <1>4

-----------------------------------------------------------------------------
(* The steps of Raft                                                       *)

LEMMA RunStepMaps ==
  ASSUME TypeOK, LeadersLead, LeadersLead', NEW i \in Node, runStep(i)
  PROVE  AbstractStep
<1> USE DEF electionVars, logVars, replicationVars, runVars, voteMsgs, appendMsgs, calls
<1>1. ASSUME UNCHANGED <<leaderID, heartbeats, appendRequests>>, Leads' = Leads,
             \A j \in Node \ {i} : pc'[j] = pc[j],
             pc[i] \notin {"leader", "leading"}, pc'[i] \notin {"leader", "leading"}
      PROVE  AbstractStep
  <2>1. Heard' = Heard
    BY <1>1, HeardKept DEF Elected
  <2> QED
    BY <1>1, <2>1, NothingStep
<1>2. ASSUME state[i] # "Leader", NEW w, w # "Leader", state' = [state EXCEPT ![i] = w]
      PROVE  Leads' = Leads
  BY <1>2 DEF Leads, TypeOK
<1>3. pc[i] \notin {"leader", "leading"} => state[i] # "Leader"
  BY DEF LeadersLead, Elected
<1>4. UNCHANGED state => Leads' = Leads
  BY DEF Leads
<1>5. CASE FollowerTimeout(i)
  BY <1>1, <1>4, <1>5 DEF FollowerTimeout, TypeOK
<1>6. CASE BecomeCandidate(i)
  <2>1. Leads' = Leads
    BY <1>2, <1>3, <1>6 DEF BecomeCandidate
  <2> QED
    BY <1>1, <1>6, <2>1 DEF BecomeCandidate, TypeOK
<1>7. CASE ResetElectionTimer(i)
  BY <1>1, <1>4, <1>7 DEF ResetElectionTimer, TypeOK
<1>8. CASE ReturnToFollower(i)
  <2>1. CASE pc[i] = "candidate"
    BY <1>1, <1>4, <1>8, <2>1 DEF ReturnToFollower, TypeOK
  <2>2. CASE pc[i] = "leader"
    <3>1. heardAsLeader(i) /\ state[i] # "Leader"
      BY <1>8, <2>2 DEF heardAsLeader, ReturnToFollower
    <3>2. \A j \in Node \ {i} : Elected(j)' <=> Elected(j)
      BY <1>8 DEF ReturnToFollower, TypeOK, Elected
    <3> QED
      BY <1>8, <3>1, <3>2, OneLess DEF ReturnToFollower
  <2> QED
    BY <1>8, <2>1, <2>2 DEF ReturnToFollower
<1>9. CASE StartElection(i)
  BY <1>1, <1>4, <1>9 DEF StartElection, TypeOK
<1>10. CASE RequestVotes(i)
  BY <1>1, <1>4, <1>10 DEF RequestVotes, TypeOK
<1>11. CASE ElectionTimeout(i)
  BY <1>1, <1>4, <1>11 DEF ElectionTimeout, TypeOK
<1>12. CASE CandidateHeartbeat(i)
  <2>1. Leads' = Leads
    BY <1>2, <1>3, <1>12 DEF CandidateHeartbeat
  <2> QED
    BY <1>1, <1>12, <2>1 DEF CandidateHeartbeat, TypeOK
<1>13. CASE ReceiveVote(i)
  <2>1. UNCHANGED <<heartbeats, appendRequests>> /\ pc[i] = "voting"
    BY <1>13 DEF ReceiveVote
  <2>2. CASE becomeLeader(i)
    <3>1. Leads' = Leads \cup {i}
      BY <2>2 DEF becomeLeader, Leads, TypeOK
    <3>2. pc' = [pc EXCEPT ![i] = "leader"]
      BY <2>2 DEF becomeLeader
    <3>3. heardAsLeader(i)' /\ \A j \in Node \ {i} : heardAsLeader(j)' <=> heardAsLeader(j)
      BY <2>1, <3>2 DEF heardAsLeader, TypeOK
    <3>4. Heard' = Heard \cup {i}
      BY <3>3 DEF Heard
    <3> QED
      BY <2>2, <3>1, <3>4, WinStep DEF becomeLeader
  <2>3. CASE UNCHANGED <<state, leaderID, replicationVars, pc>>
    BY <1>1, <1>4, <2>1, <2>3
  <2> QED
    BY <1>13, <2>2, <2>3 DEF ReceiveVote
<1>14. ASSUME broadcastHeartbeat(i)
       PROVE  /\ heartbeats \subseteq heartbeats'
              /\ \A j \in Node \ {i} : (\E h \in heartbeats' : h.from = j) <=> (\E h \in heartbeats : h.from = j)
  BY <1>14 DEF broadcastHeartbeat
<1>15. ASSUME broadcastHeartbeat(i), Elected(i), Elected(i)', UNCHANGED <<state, leaderID, appendRequests>>,
              \A j \in Node \ {i} : pc'[j] = pc[j]
       PROVE  AbstractStep
  <2>1. heardAsLeader(i) /\ heardAsLeader(i)'
    BY <1>15 DEF heardAsLeader, Elected
  <2>2. \A j \in Node \ {i} : heardAsLeader(j)' <=> heardAsLeader(j)
    BY <1>14, <1>15 DEF heardAsLeader
  <2>3. Heard' = Heard
    BY <2>1, <2>2 DEF Heard
  <2> QED
    BY <1>4, <1>15, <2>3, NothingStep
<1>16. CASE FirstBroadcast(i)
  BY <1>15, <1>16 DEF FirstBroadcast, Elected, TypeOK
<1>17. CASE LeaderTick(i)
  <2>1. /\ broadcastHeartbeat(i) /\ Elected(i)
        /\ UNCHANGED <<state, leaderID, appendRequests>>
    BY <1>17 DEF LeaderTick, Elected
  <2>2. CASE state[i] = "Leader" /\ UNCHANGED runVars
    BY <1>15, <2>1, <2>2 DEF Elected
  <2>3. CASE state[i] # "Leader" /\ pc' = [pc EXCEPT ![i] = "follower"]
    <3>1. heardAsLeader(i)
      BY <2>1 DEF heardAsLeader, Elected
    <3>2. \A j \in Node \ {i} : Elected(j)' <=> Elected(j)
      BY <2>3 DEF Elected, TypeOK
    <3> QED
      BY <1>14, <2>1, <2>3, <3>1, <3>2, OneLess
  <2> QED
    BY <1>17, <2>2, <2>3 DEF LeaderTick
<1> QED
  BY <1>5, <1>6, <1>7, <1>8, <1>9, <1>10, <1>11, <1>12, <1>13, <1>16, <1>17 DEF runStep

LEMMA FollowMaps ==
  ASSUME TypeOK, LeadersLead, NEW i \in Node, NEW m \in appendRequests, followLeader(i, m),
         UNCHANGED <<heartbeats, pc>>
  PROVE  AbstractStep
<1>1. Leads' = Leads \ {i}
  BY DEF followLeader, Leads, TypeOK
<1>2. /\ m.from \in Heard
      /\ \/ Heard' = Heard
         \/ Heard' = Heard \ {m.from} /\ ~Elected(m.from)
  BY RequestGone DEF followLeader
<1>3. ~Elected(m.from) => m.from \notin Leads'
  BY <1>1 DEF Leads, LeadersLead
<1> QED
  BY <1>1, <1>2, <1>3, FollowStep DEF followLeader

\* A node that is told of a later term, or of its own removal.
LEMMA StepDownMaps ==
  ASSUME TypeOK, NEW i \in Node, NEW w \in {state[i], "Follower"},
         state' = [state EXCEPT ![i] = w],
         UNCHANGED <<leaderID, heartbeats, appendRequests, pc>>
  PROVE  AbstractStep
<1>1. Heard' = Heard
  BY HeardKept DEF Elected
<1>2. CASE w = state[i]
  <2>1. Leads' = Leads
    BY <1>2 DEF Leads, TypeOK
  <2> QED
    BY <1>1, <2>1, NothingStep
<1>3. CASE w = "Follower"
  <2>1. Leads' = Leads \ {i}
    BY <1>3 DEF Leads, TypeOK
  <2> QED
    BY <1>1, <2>1, StepDownStep
<1> QED
  BY <1>2, <1>3

\* A request that ends without being followed.
LEMMA LostMaps ==
  ASSUME TypeOK, LeadersLead, NEW m \in appendRequests, appendRequests' = appendRequests \ {m},
         UNCHANGED <<state, leaderID, heartbeats, pc>>
  PROVE  AbstractStep
<1>1. Leads' = Leads
  BY DEF Leads
<1>2. /\ m.from \in Heard
      /\ \/ Heard' = Heard
         \/ Heard' = Heard \ {m.from} /\ ~Elected(m.from)
  BY RequestGone
<1>3. CASE Heard' = Heard
  BY <1>1, <1>3, NothingStep
<1>4. CASE Heard' = Heard \ {m.from} /\ ~Elected(m.from)
  <2>1. m.from \in Node /\ m.from \notin Leads
    BY <1>2, <1>4 DEF Heard, Leads, LeadersLead
  <2> QED
    BY <1>1, <1>4, <2>1, QuietStep
<1> QED
  BY <1>2, <1>3, <1>4

LEMMA StandStillMaps ==
  ASSUME UNCHANGED <<state, leaderID, heartbeats, appendRequests, pc>>
  PROVE  AbstractStep
<1>1. Leads' = Leads
  BY DEF Leads
<1>2. Heard' = Heard
  BY HeardKept DEF Elected
<1> QED
  BY <1>1, <1>2, NothingStep

LEMMA HandlerStepMaps ==
  ASSUME TypeOK, LeadersLead, NEW i \in Node, handlerStep(i)
  PROVE  AbstractStep
<1> USE DEF electionVars, logVars, replicationVars, runVars, voteMsgs, appendMsgs, calls
<1>1. CASE handleVoteRequest(i)
  <2>1. PICK m \in voteRequests : handleVoteRequest(i)!(m)
    BY <1>1 DEF handleVoteRequest
  <2> DEFINE w == IF m.term > currentTerm[i] THEN "Follower" ELSE state[i]
  <2>2. state' = [state EXCEPT ![i] = w] /\ w \in {state[i], "Follower"}
    BY <2>1
  <2>3. UNCHANGED <<leaderID, heartbeats, appendRequests, pc>>
    BY <2>1
  <2> HIDE DEF w
  <2> QED
    BY <2>2, <2>3, StepDownMaps
<1>2. CASE RejectAppendEntries(i)
  BY <1>2, LostMaps DEF RejectAppendEntries
<1>3. CASE MismatchAppendEntries(i)
  BY <1>3, FollowMaps DEF MismatchAppendEntries
<1>4. CASE AcceptAppendEntries(i)
  BY <1>4, FollowMaps DEF AcceptAppendEntries
<1> QED
  BY <1>1, <1>2, <1>3, <1>4 DEF handlerStep

LEMMA RpcStepMaps ==
  ASSUME TypeOK, LeadersLead, NEW i \in Node, rpcStep(i)
  PROVE  AbstractStep
<1> USE DEF electionVars, logVars, replicationVars, runVars, voteMsgs, appendMsgs, calls
<1>1. CASE VoteDenied(i)
  BY <1>1, StepDownMaps DEF VoteDenied, stepDown
<1>2. CASE ReadNextIndex(i) \/ ReadPrevious(i)
  <2>1. PICK h \in heartbeats, g \in heartbeats' :
          /\ h.from = i /\ g.from = h.from
          /\ heartbeats' = (heartbeats \ {h}) \cup {g}
          /\ UNCHANGED <<state, leaderID, appendRequests, pc>>
    <3>1. CASE ReadNextIndex(i)
      <4>1. PICK h \in heartbeats : ReadNextIndex(i)!(h)
        BY <3>1 DEF ReadNextIndex
      <4> DEFINE g == [h EXCEPT !.stage = "indexed", !.nextIdx = nextFor(i, AddrOf(h.peer))]
      <4>2. g.from = h.from
        BY DEF TypeOK, Heartbeat
      <4> QED
        BY <4>1, <4>2
    <3>2. CASE ReadPrevious(i)
      <4>1. PICK h \in heartbeats : ReadPrevious(i)!(h)
        BY <3>2 DEF ReadPrevious
      <4> DEFINE g == [h EXCEPT !.stage = "read",
                                !.prevLogTerm = termAt(log[i], h.nextIdx - 1)]
      <4>2. g.from = h.from
        BY DEF TypeOK, Heartbeat
      <4> QED
        BY <4>1, <4>2
    <3> QED
      BY <1>2, <3>1, <3>2
  <2>2. \A j \in Node : heardAsLeader(j)' <=> heardAsLeader(j)
    BY <2>1 DEF heardAsLeader
  <2>3. Leads' = Leads /\ Heard' = Heard
    BY <2>1, <2>2 DEF Leads, Heard
  <2> QED
    BY <2>1, <2>3, NothingStep
<1>2a. CASE PrepareAppend(i)
  <2>1. PICK h \in heartbeats : PrepareAppend(i)!(h)
    BY <1>2a DEF PrepareAppend
  <2>2. PICK r : r.from = i /\ appendRequests' = appendRequests \cup {r}
    BY <2>1
  <2>3. h.from = i /\ heartbeats' = heartbeats \ {h} /\ UNCHANGED <<state, leaderID, pc>>
    BY <2>1
  <2>4. \A j \in Node : heardAsLeader(j)' <=> heardAsLeader(j)
    BY <2>2, <2>3 DEF heardAsLeader
  <2>5. Leads' = Leads /\ Heard' = Heard
    BY <2>3, <2>4 DEF Leads, Heard
  <2> QED
    BY <2>3, <2>5, NothingStep
<1>3. CASE RpcFails(i)
  <2>1. UNCHANGED <<state, leaderID, heartbeats, pc>>
    BY <1>3 DEF RpcFails
  <2>2. \/ UNCHANGED appendRequests
        \/ \E m \in appendRequests : appendRequests' = appendRequests \ {m}
    BY <1>3 DEF RpcFails
  <2> QED
    BY <2>1, <2>2, LostMaps, StandStillMaps
<1>4. CASE ResponseStepDown(i)
  BY <1>4, StepDownMaps DEF ResponseStepDown, stepDown
<1>5. CASE ResponseSuccess(i)
  <2>1. PICK w \in {state[i], "Follower"} : state' = [state EXCEPT ![i] = w]
    BY <1>5 DEF ResponseSuccess
  <2>2. UNCHANGED <<leaderID, heartbeats, appendRequests, pc>>
    BY <1>5 DEF ResponseSuccess
  <2> QED
    BY <2>1, <2>2, StepDownMaps
<1>6. CASE ResponseBackoff(i)
  BY <1>6, StandStillMaps DEF ResponseBackoff
<1> QED
  BY <1>1, <1>2, <1>2a, <1>3, <1>4, <1>5, <1>6 DEF rpcStep, buildRequest

LEMMA NextMaps == TypeOK /\ LeadersLead /\ LeadersLead' /\ [Next]_vars => AbstractStep
<1> SUFFICES ASSUME TypeOK, LeadersLead, LeadersLead', [Next]_vars PROVE AbstractStep
  OBVIOUS
<1> USE DEF electionVars, logVars, replicationVars, runVars, voteMsgs, appendMsgs, calls
<1>1. ASSUME NEW i \in Node, adminStep(i) PROVE AbstractStep
  <2>1. UNCHANGED <<state, leaderID, heartbeats, appendRequests, pc>>
    BY <1>1 DEF adminStep, JoinAsObserver, JoinAddObserver, JoinResetIndexes, AdminCall,
           AutoPromoteCall, AppendAndWait, AdminSucceeds, AdminFails
  <2> QED
    BY <2>1, StandStillMaps
<1>2. CASE UNCHANGED vars
  BY <1>2, StandStillMaps DEF vars
<1> QED
  BY <1>1, <1>2, RunStepMaps, HandlerStepMaps, RpcStepMaps DEF Next

\* Every step of every goroutine, seen through state, leaderID, the place of
\* run() and the AppendEntries under way, is a step of Leadership or none: a
\* controller that names a leader names one that won an election and whose
\* request it took, or itself; what joinCluster relies on, Raft keeps.
THEOREM RaftImplementsLeadership == Spec => LeadershipImplemented
<1>1. Init => Abstract!LInit
  BY DEF Init, Abstract!LInit, heardAsLeader
<1>2. TypeOK /\ LeadersLead /\ LeadersLead' /\ [Next]_vars
        => [Abstract!LNext]_(Abstract!leadership)
  BY NextMaps DEF AbstractStep
<1>3. Init => LeadersLead
  BY InitLeadersLead
<1>4. TypeOK /\ LeadersLead /\ [Next]_vars => LeadersLead'
  BY LeadersLeadStep
<1> QED
  BY <1>1, <1>2, <1>3, <1>4, TypeCorrect, PTL DEF Spec, LeadershipImplemented, Abstract!LSpec

=============================================================================
