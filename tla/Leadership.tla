----------------------------- MODULE Leadership -----------------------------
(***************************************************************************)
(* What the controllers of src/src/internal/raft say about who leads: a    *)
(* controller leads or not, and it names a leader (leaderID, leaderAddr)   *)
(* to those it turns away.  An abstract specification: Raft implements it  *)
(* (RaftLeadership), and JoinCluster relies on nothing more.               *)
(***************************************************************************)
CONSTANTS Node, None

VARIABLES
  leads,   \* the nodes whose state is Leader
  heard,   \* the nodes in runLeader, or with AppendEntries still under way
  hint     \* the leaderID of each node, None before it has heard of one

leadership == <<leads, heard, hint>>

LInit == leads = {} /\ heard = {} /\ hint = [n \in Node |-> None]

\* becomeLeader
Win(n) ==
  /\ leads' = leads \cup {n}
  /\ heard' = heard \cup {n}
  /\ hint' = [hint EXCEPT ![n] = n]

\* handleAppendEntries accepts a request of m.  That m leads is not said: it
\* may have been deposed since it sent the request, or before it did.
Follow(n, m) ==
  /\ m \in heard
  /\ leads' = leads \ {n}
  /\ hint' = [hint EXCEPT ![n] = m]
  /\ heard' \in {heard, heard \ ({m} \ leads')}

\* A later term, or the node's own removal: it goes on naming whom it named.
StepDown(n) ==
  /\ n \in leads
  /\ leads' = leads \ {n}
  /\ UNCHANGED <<heard, hint>>

\* A deposed leader has left runLeader, and its last request is answered or lost.
Quiet(n) ==
  /\ n \notin leads
  /\ heard' = heard \ {n}
  /\ UNCHANGED <<leads, hint>>

LNext == \E n \in Node : \/ Win(n) \/ StepDown(n) \/ Quiet(n)
                         \/ \E m \in Node : Follow(n, m)

LSpec == LInit /\ [][LNext]_leadership

=============================================================================
