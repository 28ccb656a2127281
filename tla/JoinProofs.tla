----------------------------- MODULE JoinProofs -----------------------------
(***************************************************************************)
(* joinCluster does not give up on a healthy cluster, whatever the number  *)
(* of controllers, of seeds, of passes and of crashes.                     *)
(***************************************************************************)
EXTENDS JoinCluster, TLAPS

\* What joinCluster holds are controllers, and no crashed controller leads.
JoinTypes ==
  /\ leads \subseteq Node \ down /\ down \subseteq Node
  /\ seed \in 1..Len(BootstrapServers)
  /\ target \in Node
  /\ hint \in [Node -> Node \cup {None}]
  /\ heard \subseteq Node
  /\ answer.leaderAddr \in Node \cup {None}

\* While the pass is calm the seeds before the current one have crashed, only
\* the current seed can fail to answer, and an answer admits the node or sends
\* it on to the leader.
CalmInv ==
  calm => /\ stable
          /\ \A s \in 1..(seed - 1) : BootstrapServers[s] \in down
          /\ target = BootstrapServers[seed] \/ target \in leads
          /\ phase \notin {"failed", "waiting"}
          /\ phase = "refused" => target \notin leads
          /\ phase = "answered" => answer.success \/ (answer.leaderAddr \in leads /\ target \notin leads)

LEMMA Seeds ==
  /\ Len(BootstrapServers) \in Nat \ {0}
  /\ DOMAIN BootstrapServers = 1..Len(BootstrapServers)
  /\ \A s \in 1..Len(BootstrapServers) : BootstrapServers[s] \in Node
<1>1. BootstrapServers \in Seq(Node) /\ BootstrapServers # <<>>
  BY JoinAssumption
<1> QED
  BY <1>1

LEMMA JoinTypesStep == JoinTypes /\ [Next]_vars => JoinTypes'
<1> SUFFICES ASSUME JoinTypes, [Next]_vars PROVE JoinTypes'
  OBVIOUS
<1> USE DEF JoinTypes, leadership, loop
<1>1. ASSUME nextSeed PROVE seed' \in 1..Len(BootstrapServers) /\ target' \in Node
  <2>1. CASE seed < Len(BootstrapServers) /\ seed' = seed + 1 /\ target' = BootstrapServers[seed + 1]
    <3>1. seed + 1 \in 1..Len(BootstrapServers)
      BY <2>1, Seeds
    <3> QED
      BY <2>1, <3>1, Seeds
  <2>2. CASE UNCHANGED loop
    BY <2>2
  <2> QED
    BY <1>1, <2>1, <2>2 DEF nextSeed
<1>2. CASE HandleJoin
  BY <1>2 DEF HandleJoin, reply
<1>3. CASE SendHint
  BY <1>3 DEF SendHint, reply
<1>4. CASE CallFails
  BY <1>1, <1>4 DEF CallFails
<1>5. CASE Joined
  BY <1>5 DEF Joined
<1>6. CASE FollowRedirect
  BY <1>6 DEF FollowRedirect, redirected
<1>7. CASE Rejected
  BY <1>1, <1>7 DEF Rejected
<1>8. CASE NextPass
  BY <1>8, Seeds DEF NextPass
<1>9. CASE ChangeLeader
  BY <1>9 DEF ChangeLeader, Win, StepDown, Follow
<1>10. CASE FallSilent
  BY <1>10 DEF FallSilent, Quiet
<1>11. CASE Crash
  BY <1>11 DEF Crash
<1>12. CASE Restart
  BY <1>12 DEF Restart
<1>13. CASE UNCHANGED vars
  BY <1>13 DEF vars
<1> QED
  BY <1>2, <1>3, <1>4, <1>5, <1>6, <1>7, <1>8, <1>9, <1>10, <1>11, <1>12, <1>13 DEF Next, join

\* As long as there is one leader, known to all that are up, it stays the same.
LEMMA SameLeader ==
  ASSUME JoinTypes, JoinTypes', stable, stable', ChangeLeader \/ Crash \/ Restart
  PROVE  leads' = leads
<1>1. PICK l \in Node : leads = {l}
  BY DEF stable, JoinTypes
<1>2. PICK m \in Node : leads' = {m}
  BY DEF stable, JoinTypes
<1>3. \/ \E n \in Node : leads' = leads \cup {n} \/ leads' = leads \ {n}
      \/ leads' = leads
  BY DEF ChangeLeader, Win, StepDown, Follow, Crash, Restart
<1> QED
  BY <1>1, <1>2, <1>3

\* A restarted controller knows of no leader: the pass is calm no more.
LEMMA RestartNotCalm ==
  ASSUME JoinTypes, Restart
  PROVE  ~calm'
<1>1. PICK n \in down : /\ down' = down \ {n} /\ hint' = [hint EXCEPT ![n] = None]
                        /\ leads' = leads /\ calm' = (calm /\ stable')
  BY DEF Restart
<1>2. ~stable'
  <2> SUFFICES ASSUME stable' PROVE FALSE
    OBVIOUS
  <2>1. PICK l \in leads' \ down' : \A k \in Node \ down' : hint'[k] = l
    BY DEF stable
  <2>2. l \in Node /\ None \notin Node
    BY <1>1, <2>1, JoinAssumption DEF JoinTypes
  <2>3. n \in Node /\ hint'[n] = None
    BY <1>1 DEF JoinTypes
  <2> QED
    BY <1>1, <2>1, <2>2, <2>3
<1> QED
  BY <1>1, <1>2

LEMMA CalmStep == JoinTypes /\ JoinTypes' /\ CalmInv /\ [Next]_vars => CalmInv'
<1> SUFFICES ASSUME JoinTypes, JoinTypes', CalmInv, [Next]_vars, calm' PROVE CalmInv'
  BY DEF CalmInv
<1>0. UNCHANGED <<leadership, down>> => (stable' <=> stable)
  BY DEF stable, leadership
<1>1. CASE HandleJoin
  <2>1. calm /\ stable /\ stable' /\ UNCHANGED <<leads, loop, down>>
    BY <1>0, <1>1 DEF HandleJoin, CalmInv, leadership
  <2>2. CASE reply(Mode = "dynamic", None)
    <3>1. answer'.success /\ phase' = "answered"
      BY <2>1, <2>2 DEF reply, stable
    <3> QED
      BY <2>1, <3>1 DEF CalmInv, loop
  <2>3. CASE target \notin leads /\ phase' = "refused"
    BY <2>1, <2>3 DEF CalmInv, loop
  <2> QED
    BY <1>1, <2>2, <2>3 DEF HandleJoin
<1>2. CASE SendHint
  <2>1. /\ calm /\ answer' = [success |-> FALSE, leaderAddr |-> hint[target]]
        /\ target \in Node \ down /\ phase = "refused" /\ phase' = "answered"
        /\ UNCHANGED <<leadership, loop, down>>
    BY <1>2 DEF SendHint, reply, JoinTypes
  <2>2. hint[target] \in leads
    BY <2>1 DEF CalmInv, stable
  <2> QED
    BY <1>0, <2>1, <2>2 DEF CalmInv, leadership, loop
<1>3. CASE CallFails
  <2>1. calm /\ target \in down /\ target = BootstrapServers[seed] /\ nextSeed
        /\ UNCHANGED <<leadership, down>>
    BY <1>3 DEF CallFails, CalmInv, JoinTypes
  <2>2. \A s \in 1..seed : BootstrapServers[s] \in down
    BY <2>1 DEF CalmInv, JoinTypes
  <2>3. seed # Len(BootstrapServers)
    <3>1. PICK s \in 1..Len(BootstrapServers) : BootstrapServers[s] \notin down
      BY <2>1, Seeds DEF CalmInv, stable
    <3> QED
      BY <2>2, <3>1
  <2>4. /\ seed' = seed + 1 /\ target' = BootstrapServers[seed + 1] /\ phase' = "calling"
    BY <2>1, <2>3 DEF nextSeed
  <2>5. seed' - 1 = seed
    BY <2>4 DEF JoinTypes
  <2> QED
    BY <1>0, <2>1, <2>2, <2>4, <2>5 DEF CalmInv, leadership
<1>4. CASE Joined
  BY <1>0, <1>4 DEF Joined, CalmInv, leadership, loop
<1>5. CASE FollowRedirect
  <2>1. /\ calm /\ phase = "answered" /\ redirected /\ target' = answer.leaderAddr
        /\ phase' = "calling" /\ UNCHANGED <<leadership, seed, down>>
    BY <1>5 DEF FollowRedirect
  <2>2. answer.leaderAddr \in leads
    BY <2>1 DEF CalmInv, redirected
  <2> QED
    BY <1>0, <2>1, <2>2 DEF CalmInv, leadership
<1>6. CASE Rejected
  <2>1. calm /\ phase = "answered" /\ ~answer.success /\ ~redirected
    BY <1>6 DEF Rejected
  <2>2. answer.leaderAddr \in leads /\ target \notin leads
    BY <2>1 DEF CalmInv
  <2>3. answer.leaderAddr \notin {None, target}
    BY <2>2, JoinAssumption DEF JoinTypes
  <2> QED
    BY <2>1, <2>3 DEF redirected
<1>7. CASE NextPass
  <2>1. /\ stable /\ seed' = 1 /\ target' = BootstrapServers[1] /\ phase' = "calling"
        /\ UNCHANGED <<leadership, down>>
    BY <1>7 DEF NextPass
  <2> QED
    BY <1>0, <2>1 DEF CalmInv, leadership
<1>8. ASSUME stable, stable', ChangeLeader \/ Crash \/ Restart, calm, down \subseteq down',
             UNCHANGED <<phase, loop, answer>>
      PROVE  CalmInv'
  <2>1. leads' = leads
    BY <1>8, SameLeader
  <2> QED
    BY <1>8, <2>1 DEF CalmInv, loop
<1>9. CASE ChangeLeader
  BY <1>8, <1>9 DEF ChangeLeader, CalmInv
<1>10. CASE FallSilent
  <2>1. UNCHANGED <<leads, hint, down, phase, loop, answer, calm>>
    BY <1>10 DEF FallSilent, Quiet
  <2> QED
    BY <2>1 DEF CalmInv, stable, loop
<1>11. CASE Crash
  BY <1>8, <1>11 DEF Crash, CalmInv
<1>12. CASE Restart
  BY <1>12, RestartNotCalm
<1>13. CASE UNCHANGED vars
  BY <1>0, <1>13 DEF vars, CalmInv, leadership, loop
<1> QED
  BY <1>1, <1>2, <1>3, <1>4, <1>5, <1>6, <1>7, <1>9, <1>10, <1>11, <1>12, <1>13 DEF Next, join

\* For any number of controllers, seeds, passes and crashes: joinCluster does
\* not give up after a pass over the seeds during which one leader was up and
\* known to every controller that was, some seed was up, and only calls to
\* crashed controllers failed; the hints lead it there.
THEOREM HealthyClusterJoined == Spec => []CalmPassJoins
<1>1. Init => JoinTypes /\ CalmInv
  BY Seeds DEF Init, LInit, JoinTypes, CalmInv
<1>2. CalmInv => CalmPassJoins
  BY DEF CalmInv, CalmPassJoins
<1> QED
  BY <1>1, <1>2, JoinTypesStep, CalmStep, PTL DEF Spec
=============================================================================
