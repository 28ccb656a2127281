---------------------------- MODULE AuthRotation ----------------------------
(***************************************************************************)
(* Cluster authentication (src/src/internal/metadata/auth.go) during       *)
(* rotations of the cluster token.  Every node validates the requests of   *)
(* the others with its own ClusterAuthConfig and sends its own primary     *)
(* token.  An operator, external, follows the procedure in the comment of  *)
(* ClusterAuthConfig: a step is taken on one node after the other, in any  *)
(* order, and the next step is begun when all nodes have taken it.         *)
(***************************************************************************)
EXTENDS Naturals, FiniteSets

CONSTANTS
  Node,
  Outsider,         \* a node of another cluster that has this one's address
  ClusterID, OtherClusterID,
  MaxRotations,     \* bound: rotations begun
  MaxRequests       \* bound: requests under way

ASSUME AuthAssumption ==
  /\ Outsider \notin Node /\ ClusterID # OtherClusterID
  /\ MaxRotations \in Nat /\ MaxRequests \in Nat

VARIABLES
  primary, secondary,   \* PrimaryToken and SecondaryToken of each node
  rotation,             \* its number: it replaces token rotation by the next
  step,                 \* per node: the steps of this rotation it has taken
  requests,             \* requests under way
  refused               \* history: the requests answered with ErrInvalidToken

config == <<primary, secondary, rotation, step>>
vars   == <<config, requests, refused>>

Disabled == 0           \* the empty token; the others are 1, 2, ...
old == rotation
new == rotation + 1

Request ==
  [from : Node, to : Node, clusterID : {ClusterID}, token : Nat] \cup
  [from : {Outsider}, to : Node, clusterID : {OtherClusterID}, token : Nat]

\* Between two rotations all nodes have taken all three steps.
Init ==
  /\ primary = [n \in Node |-> 1]
  /\ secondary = [n \in Node |-> Disabled]
  /\ rotation = 0
  /\ step = [n \in Node |-> 3]
  /\ requests = {} /\ refused = {}

ValidateRequestPrimaryOnly(n, clusterID, token) ==   \* mutant
  IF clusterID # ClusterID THEN "ErrWrongClusterID"
  ELSE IF token = primary[n] THEN "ok" ELSE "ErrInvalidToken"

\* The answer of node n.  The nodes agree on the ClusterID.
ValidateRequest(n, clusterID, token) ==
  IF clusterID # ClusterID THEN "ErrWrongClusterID"
  ELSE IF \/ token = primary[n]
          \/ secondary[n] # Disabled /\ token = secondary[n]
       THEN "ok"
  ELSE "ErrInvalidToken"

-----------------------------------------------------------------------------
(* The procedure                                                           *)

BeginRotation ==
  /\ rotation < MaxRotations
  /\ \A n \in Node : step[n] = 3
  /\ rotation' = rotation + 1
  /\ step' = [n \in Node |-> 0]
  /\ UNCHANGED <<primary, secondary, requests, refused>>

\* Node n is the next to take step s.
take(n, s) ==
  /\ step[n] = s - 1
  /\ \A m \in Node : step[m] >= s - 1
  /\ step' = [step EXCEPT ![n] = s]
  /\ UNCHANGED <<rotation, requests, refused>>

SetSecondary(n) ==
  /\ take(n, 1)
  /\ secondary' = [secondary EXCEPT ![n] = new]
  /\ UNCHANGED primary

PromoteNew(n) ==
  /\ take(n, 2)
  /\ primary' = [primary EXCEPT ![n] = new]
  /\ secondary' = [secondary EXCEPT ![n] = old]

ClearSecondary(n) ==
  /\ take(n, 3)
  /\ secondary' = [secondary EXCEPT ![n] = Disabled]
  /\ UNCHANGED primary

-----------------------------------------------------------------------------
(* Requests                                                                *)

send(r) ==
  /\ Cardinality(requests) < MaxRequests
  /\ requests' = requests \cup {r}
  /\ UNCHANGED <<config, refused>>

Send(n) == \E m \in Node :
  send([from |-> n, to |-> m, clusterID |-> ClusterID, token |-> primary[n]])

\* Its token may by accident be one of this cluster.
SendFromOutside == \E m \in Node, t \in 0..new :
  send([from |-> Outsider, to |-> m, clusterID |-> OtherClusterID, token |-> t])

Receive(n) == \E r \in requests :
  /\ r.to = n
  /\ requests' = requests \ {r}
  /\ refused' = IF ValidateRequest(n, r.clusterID, r.token) = "ErrInvalidToken"
                THEN refused \cup {r} ELSE refused
  /\ UNCHANGED config

Next ==
  \/ BeginRotation \/ SendFromOutside
  \/ \E n \in Node : \/ SetSecondary(n) \/ PromoteNew(n) \/ ClearSecondary(n)
                     \/ Send(n) \/ Receive(n)

Spec == Init /\ [][Next]_vars

-----------------------------------------------------------------------------
(* Properties                                                              *)

\* A rotation costs no downtime: a token that ValidateRequest calls invalid is
\* one that its sender, which has promoted the new token since, would not send any
\* more.  At no point of a rotation do two nodes refuse each other, and a node of
\* another cluster is never told to look at its token.
OnlyOutdatedRefused == \A r \in refused : r.from \in Node /\ r.token # primary[r.from]

=============================================================================
