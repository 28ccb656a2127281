--------------------------- MODULE RaftLeadership ---------------------------
(***************************************************************************)
(* Raft implements Leadership, the specification on which JoinCluster      *)
(* relies: what a step of any goroutine does to who leads, to who may      *)
(* still be heard as a leader and to the leaders that nodes name is a step *)
(* of Leadership, or none.                                                 *)
(***************************************************************************)
EXTENDS Raft

\* run() is in, or about to enter, runLeader, or its broadcasts are under way.
heardAsLeader(i) ==
  \/ pc[i] \in {"leader", "leading"}
  \/ \E h \in heartbeats : h.from = i
  \/ \E m \in appendRequests : m.from = i

Abstract == INSTANCE Leadership
  WITH leads <- {i \in Node : state[i] = "Leader"},
       heard <- {i \in Node : heardAsLeader(i)},
       hint  <- leaderID

\* In handleAppendEntries, becomeLeader and the three places where a node steps
\* down, n.state and n.leaderID change together as Leadership says: a leader
\* names itself, a follower names one whose request it took, and only nodes that
\* won an election are ever named.
LeadershipImplemented == Abstract!LSpec

=============================================================================
