---------------------------- MODULE RaftRestart ----------------------------
(***************************************************************************)
(* Raft with crashes: a controller's process ends and is started again     *)
(* with the same configuration.  Nothing is persisted (log.go keeps the    *)
(* entries in a slice, node.go the term and the vote in fields), so that   *)
(* NewNode starts from nothing, while the others still count on what the   *)
(* node had acknowledged and messages of its former life are under way.    *)
(***************************************************************************)
EXTENDS Raft

CONSTANT MaxRestarts   \* bound: restarts

ASSUME RestartAssumption == MaxRestarts \in Nat

VARIABLE restarts

rvars == <<vars, restarts>>

RInit == Init /\ restarts = 0

\* Only nodes that hold no elections restart here: they have no requests under
\* way whose answers would reach the wrong life.
Restart(i) ==
  /\ i \notin Candidates
  /\ restarts < MaxRestarts
  /\ restarts' = restarts + 1
  /\ state'       = [state EXCEPT ![i] = "Follower"]
  /\ currentTerm' = [currentTerm EXCEPT ![i] = 0]
  /\ votedFor'    = [votedFor EXCEPT ![i] = None]
  /\ leaderID'    = [leaderID EXCEPT ![i] = None]
  /\ log'         = [log EXCEPT ![i] = <<>>]
  /\ commitIndex' = [commitIndex EXCEPT ![i] = 0]
  /\ lastApplied' = [lastApplied EXCEPT ![i] = 0]
  /\ members'     = [members EXCEPT ![i] = Seed(i)]
  /\ heartbeatC'  = [heartbeatC EXCEPT ![i] = FALSE]
  /\ pc'          = [pc EXCEPT ![i] = "follower"]
  /\ UNCHANGED <<replicationVars, campaign, voteMsgs, appendMsgs, calls>>

raftStep == Next /\ UNCHANGED restarts

RNext == raftStep \/ \E i \in Node : Restart(i)

RSpec == RInit /\ [][RNext]_rvars /\ Fairness

-----------------------------------------------------------------------------
(* Properties                                                              *)

\* Leader l has promoted everyone it has admitted; they and the founders have
\* its log and its commit index, and the founders its voters.
following(l) ==
  LET admitted == {j \in Node : members[l][ID(j)] # "none"}
  IN  /\ admitted \subseteq VoterAddrs(members[l])
      /\ \A i \in Founders \cup admitted : log[i] = log[l] /\ commitIndex[i] = commitIndex[l]
      /\ \A i \in Founders : VoterAddrs(members[i]) = VoterAddrs(members[l])

\* The cluster heals itself: under a leader that stays, and once a joiner has
\* stopped repeating its call (which resets its nextIndex), observers are
\* promoted by maybePromoteObservers and AddVoter, the empty log of a restarted
\* node is found out and nextIndex backed off, and all have what the leader has,
\* although heartbeats and answers are lost, answers of a former life arrive and
\* the call of AddVoter may time out.
EveryoneCatchesUp ==
  /\ <>[](\E l \in Node : state[l] = "Leader")
  /\ <>[][\A i \in Node : ~JoinAsObserver(i)]_rvars
  => <>[](\A l \in Node : state[l] = "Leader" => following(l))

=============================================================================
