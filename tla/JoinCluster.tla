---------------------------- MODULE JoinCluster ----------------------------
(***************************************************************************)
(* joinCluster of src/src/cmd/controller/main.go: how a new controller     *)
(* asks the bootstrap servers in turn to be admitted as an observer,       *)
(* follows the leader hints of those that do not lead, and tries again.    *)
(* The controllers it calls change leaders as Leadership lets them, and    *)
(* crash and restart meanwhile.                                            *)
(***************************************************************************)
EXTENDS Leadership, Naturals, Sequences

CONSTANTS
  BootstrapServers,  \* cfg.BootstrapServers
  JoinMaxRetries,    \* cfg.JoinMaxRetries
  Mode,              \* Config.Mode of the controllers
  MaxCrashes         \* bound: crashes of controllers

ASSUME JoinAssumption ==
  /\ None \notin Node
  /\ BootstrapServers \in Seq(Node) /\ BootstrapServers # <<>>
  /\ JoinMaxRetries \in Nat \ {0} /\ MaxCrashes \in Nat
  /\ Mode \in {"static", "dynamic"}

VARIABLES
  phase,      \* where joinCluster, or the handler it called, is: see Phase
  attempt, seed, target,   \* its loop variables; seed is an index
  answer,     \* the response under way
  down,       \* the controllers that have crashed
  crashes,    \* bound: how often
  calm        \* history: since this pass over the seeds began, one leader was
              \* up and known to every node that is, a seed was up, and no call
              \* to a node that was up has failed

loop == <<attempt, seed, target>>
vars == <<leadership, phase, loop, answer, down, crashes, calm>>

\* "calling": SendObserverJoin is under way; "refused": the handler has seen
\* that its node does not lead; "answered": the response is on its way back;
\* "waiting": time.Sleep between two passes.
Phase == {"calling", "refused", "answered", "waiting", "joined", "failed"}

\* One leader, known to all, and reachable through some seed.
stable ==
  /\ \E s \in DOMAIN BootstrapServers : BootstrapServers[s] \notin down
  /\ \E l \in leads \ down : leads \ down = {l} /\ \A n \in Node \ down : hint[n] = l
  /\ Mode = "dynamic"

Init ==
  /\ LInit
  /\ phase = "calling" /\ attempt = 1 /\ seed = 1 /\ target = BootstrapServers[1]
  /\ answer = [success |-> FALSE, leaderAddr |-> None]
  /\ down = {} /\ crashes = 0 /\ calm = FALSE

-----------------------------------------------------------------------------
(* JoinAsObserver, on the node called                                      *)

reply(success, addr) ==
  /\ answer' = [success |-> success, leaderAddr |-> addr]
  /\ phase' = "answered"

\* The leader admits the node, in static mode it refuses; others look up their
\* hint in a second critical section.
HandleJoin ==
  /\ phase = "calling" /\ target \notin down
  /\ \/ target \in leads /\ reply(Mode = "dynamic", None)
     \/ target \notin leads /\ phase' = "refused" /\ UNCHANGED answer
  /\ UNCHANGED <<leadership, loop, down, crashes, calm>>

SendHint ==
  /\ phase = "refused" /\ target \notin down
  /\ reply(FALSE, hint[target])
  /\ UNCHANGED <<leadership, loop, down, crashes, calm>>

-----------------------------------------------------------------------------
(* joinCluster                                                             *)

\* The next seed, else the next pass, else the end.
nextSeed ==
  \/ /\ seed < Len(BootstrapServers)
     /\ seed' = seed + 1 /\ target' = BootstrapServers[seed + 1]
     /\ phase' = "calling"
     /\ UNCHANGED attempt
  \/ /\ seed = Len(BootstrapServers)
     /\ phase' = IF attempt < JoinMaxRetries THEN "waiting" ELSE "failed"
     /\ UNCHANGED loop

\* The dial fails or times out, or the connection breaks, before or after the
\* request was handled.
CallFails ==
  /\ phase \in {"calling", "refused", "answered"}
  /\ nextSeed
  /\ calm' = (calm /\ target \in down)
  /\ UNCHANGED <<leadership, answer, down, crashes>>

Joined ==
  /\ phase = "answered" /\ answer.success
  /\ phase' = "joined"
  /\ UNCHANGED <<leadership, loop, answer, down, crashes, calm>>

redirectedNever == FALSE   \* mutant
redirectedToSelf == ~answer.success /\ answer.leaderAddr # None   \* mutant

redirected == ~answer.success /\ answer.leaderAddr \notin {None, target}

FollowRedirect ==
  /\ phase = "answered" /\ redirected
  /\ target' = answer.leaderAddr
  /\ phase' = "calling"
  /\ UNCHANGED <<leadership, attempt, seed, answer, down, crashes, calm>>

Rejected ==
  /\ phase = "answered" /\ ~answer.success /\ ~redirected
  /\ nextSeed
  /\ UNCHANGED <<leadership, answer, down, crashes, calm>>

NextPass ==
  /\ phase = "waiting"
  /\ attempt' = attempt + 1 /\ seed' = 1 /\ target' = BootstrapServers[1]
  /\ phase' = "calling"
  /\ calm' = stable
  /\ UNCHANGED <<leadership, answer, down, crashes>>

-----------------------------------------------------------------------------
(* The controllers                                                         *)

ChangeLeader ==
  /\ \E n \in Node \ down : \/ Win(n) \/ StepDown(n)
                           \/ \E m \in Node : Follow(n, m)
  /\ UNCHANGED <<phase, loop, answer, down, crashes>>
  /\ calm' = (calm /\ stable')

\* The last request of a node that no longer leads is gone.
FallSilent ==
  /\ \E n \in Node : Quiet(n)
  /\ UNCHANGED <<phase, loop, answer, down, crashes, calm>>

Crash == \E n \in Node \ down :
  /\ crashes < MaxCrashes
  /\ crashes' = crashes + 1
  /\ down' = down \cup {n}
  /\ leads' = leads \ {n}
  /\ UNCHANGED <<heard, hint, phase, loop, answer>>
  /\ calm' = (calm /\ stable')

\* Nothing is persisted: a restarted controller knows of no leader.
Restart == \E n \in down :
  /\ down' = down \ {n}
  /\ hint' = [hint EXCEPT ![n] = None]
  /\ UNCHANGED <<leads, heard, phase, loop, answer, crashes>>
  /\ calm' = (calm /\ stable')

join == \/ HandleJoin \/ SendHint \/ CallFails \/ Joined \/ FollowRedirect \/ Rejected
        \/ NextPass

Next == join \/ ChangeLeader \/ FallSilent \/ Crash \/ Restart

\* A node that is up answers, the connection to one that is not breaks, and the
\* sleep ends: joinCluster never stops by itself.
Spec == Init /\ [][Next]_vars /\ WF_vars(join)

-----------------------------------------------------------------------------
Done == phase \in {"joined", "failed"}

\* joinCluster does not give up on a healthy cluster: when its last pass went
\* over the seeds while one leader was up and known to every node that was, one
\* seed at least was up, whichever, and only calls to crashed nodes failed, it
\* has joined.
CalmPassJoins == phase = "failed" => ~calm

\* Once no two controllers name different leaders any more, be the leader alive
\* or not, joinCluster ends.  (Two that name each other without leading keep it
\* following redirects: it counts passes, not redirects.)
settled == \E l \in Node : \A n \in Node \ down : hint[n] \in {l, None}
SettledEnds == <>[]settled => <>Done

=============================================================================
