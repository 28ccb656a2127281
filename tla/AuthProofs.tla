----------------------------- MODULE AuthProofs -----------------------------
(***************************************************************************)
(* The rotation of cluster tokens, for any number of nodes, rotations and  *)
(* requests under way.                                                     *)
(***************************************************************************)
EXTENDS AuthRotation, TLAPS

TypeOK ==
  /\ primary \in [Node -> Nat] /\ secondary \in [Node -> Nat]
  /\ rotation \in Nat
  /\ step \in [Node -> 0..3]
  /\ requests \subseteq Request /\ refused \subseteq Request

\* A node's tokens follow from the number of steps it has taken.
TokensOfStep ==
  \A n \in Node :
    /\ primary[n] = IF step[n] >= 2 THEN rotation + 1 ELSE rotation
    /\ step[n] \in {0, 3} => secondary[n] = Disabled
    /\ step[n] = 1 => secondary[n] = rotation + 1
    /\ step[n] = 2 => secondary[n] = rotation

\* No node is two steps ahead of another, and before the first rotation there
\* is no step to take.
InStep ==
  /\ \A n, m \in Node : step[n] <= step[m] + 1
  /\ rotation = 0 => \A n \in Node : step[n] = 3

\* A sender only moves on to newer tokens, and a refused token is behind.
TokensAge ==
  /\ \A r \in requests : r.from \in Node => r.token <= primary[r.from]
  /\ \A r \in refused : r.from \in Node /\ r.token < primary[r.from]

RotationInv == TypeOK /\ TokensOfStep /\ InStep /\ TokensAge

\* The argument for "zero downtime": of two nodes anywhere in a rotation, each
\* accepts what the other sends now.
LEMMA CurrentAccepted ==
  ASSUME RotationInv, NEW n \in Node, NEW m \in Node
  PROVE  ValidateRequest(n, ClusterID, primary[m]) = "ok"
<1>1. step[n] \in 0..3 /\ step[m] \in 0..3 /\ rotation \in Nat
  BY DEF RotationInv, TypeOK
<1>2. step[n] <= step[m] + 1 /\ step[m] <= step[n] + 1
  BY DEF RotationInv, InStep
<1>3. rotation = 0 => step[n] = 3 /\ step[m] = 3
  BY DEF RotationInv, InStep
<1>4. /\ primary[n] = IF step[n] >= 2 THEN rotation + 1 ELSE rotation
      /\ primary[m] = IF step[m] >= 2 THEN rotation + 1 ELSE rotation
      /\ step[n] = 1 => secondary[n] = rotation + 1
      /\ step[n] = 2 => secondary[n] = rotation
  BY DEF RotationInv, TokensOfStep
<1> QED
  BY <1>1, <1>2, <1>3, <1>4 DEF ValidateRequest, Disabled

LEMMA RotationInit == Init => RotationInv
<1> SUFFICES ASSUME Init PROVE RotationInv
  OBVIOUS
<1>1. TypeOK /\ TokensAge
  BY DEF Init, TypeOK, TokensAge, Disabled
<1>2. TokensOfStep /\ InStep
  BY DEF Init, TokensOfStep, InStep
<1> QED
  BY <1>1, <1>2 DEF RotationInv

\* The steps of the procedure change one node's step, by one.
LEMMA TakePreserves ==
  ASSUME RotationInv, NEW n \in Node, NEW s \in 1..3, take(n, s),
         primary' \in [Node -> Nat], secondary' \in [Node -> Nat],
         \A m \in Node \ {n} : primary'[m] = primary[m] /\ secondary'[m] = secondary[m],
         primary'[n] = IF s >= 2 THEN rotation + 1 ELSE rotation,
         s = 3 => secondary'[n] = Disabled,
         s = 1 => secondary'[n] = rotation + 1,
         s = 2 => secondary'[n] = rotation
  PROVE  RotationInv'
<1>1. s \in 0..3 /\ step \in [Node -> 0..3] /\ step' = [step EXCEPT ![n] = s]
  BY DEF RotationInv, TypeOK, take
<1>2. /\ step' \in [Node -> 0..3] /\ step'[n] = s
      /\ \A m \in Node \ {n} : step'[m] = step[m]
  BY <1>1
<1>3. TokensOfStep'
  <2> SUFFICES ASSUME NEW m \in Node
               PROVE  /\ primary'[m] = IF step'[m] >= 2 THEN rotation + 1 ELSE rotation
                      /\ step'[m] \in {0, 3} => secondary'[m] = Disabled
                      /\ step'[m] = 1 => secondary'[m] = rotation + 1
                      /\ step'[m] = 2 => secondary'[m] = rotation
    BY DEF TokensOfStep, take, Disabled
  <2>1. CASE m = n
    BY <1>2, <2>1
  <2>2. CASE m # n
    BY <1>2, <2>2 DEF RotationInv, TokensOfStep
  <2> QED
    BY <2>1, <2>2
<1>4. InStep'
  <2>1. \A m \in Node : s - 1 <= step[m] /\ step[m] <= s
    BY DEF RotationInv, InStep, TypeOK, take
  <2>2. \A m \in Node : step'[m] \in 0..3 /\ s - 1 <= step'[m] /\ step'[m] <= s
    BY <1>2, <2>1
  <2>3. rotation # 0
    BY DEF RotationInv, InStep, take
  <2> QED
    BY <2>2, <2>3 DEF InStep, take
<1>5. TokensAge'
  <2>1. \A m \in Node : primary[m] <= primary'[m]
    <3> SUFFICES ASSUME NEW m \in Node PROVE primary[m] <= primary'[m]
      OBVIOUS
    <3>1. primary[m] \in Nat /\ step[m] \in 0..3 /\ rotation \in Nat
      BY DEF RotationInv, TypeOK
    <3>2. CASE m = n
      BY <3>1, <3>2 DEF RotationInv, TokensOfStep, take
    <3>3. CASE m # n
      BY <3>1, <3>3
    <3> QED
      BY <3>2, <3>3
  <2>2. \A r \in requests \cup refused : r.token \in Nat
    BY DEF RotationInv, TypeOK, Request
  <2>3. primary \in [Node -> Nat]
    BY DEF RotationInv, TypeOK
  <2> QED
    BY <2>1, <2>2, <2>3 DEF RotationInv, TokensAge, take
<1>6. TypeOK'
  BY <1>2 DEF RotationInv, TypeOK, take
<1> QED
  BY <1>3, <1>4, <1>5, <1>6 DEF RotationInv

LEMMA RotationStep == RotationInv /\ [Next]_vars => RotationInv'
<1> SUFFICES ASSUME RotationInv, [Next]_vars PROVE RotationInv'
  OBVIOUS
<1> USE DEF RotationInv
<1>1. CASE BeginRotation
  <2>1. TypeOK' /\ TokensAge'
    BY <1>1 DEF BeginRotation, TypeOK, TokensAge
  <2>2. TokensOfStep'
    BY <1>1 DEF BeginRotation, TypeOK, TokensOfStep
  <2>3. InStep'
    BY <1>1 DEF BeginRotation, TypeOK, InStep
  <2> QED
    BY <2>1, <2>2, <2>3
<1>2. ASSUME NEW n \in Node, SetSecondary(n) PROVE RotationInv'
  <2>1. /\ take(n, 1) /\ primary' = primary
        /\ secondary' = [secondary EXCEPT ![n] = rotation + 1]
    BY <1>2 DEF SetSecondary, new
  <2>2. primary[n] = rotation /\ rotation \in Nat
    BY <2>1 DEF take, TokensOfStep, TypeOK
  <2>3. primary' \in [Node -> Nat] /\ secondary' \in [Node -> Nat]
    BY <2>1, <2>2 DEF TypeOK
  <2> QED
    BY <2>1, <2>2, <2>3, TakePreserves DEF TypeOK
<1>3. ASSUME NEW n \in Node, PromoteNew(n) PROVE RotationInv'
  <2>1. /\ take(n, 2) /\ primary' = [primary EXCEPT ![n] = rotation + 1]
        /\ secondary' = [secondary EXCEPT ![n] = rotation]
    BY <1>3 DEF PromoteNew, new, old
  <2>2. rotation \in Nat
    BY DEF TypeOK
  <2>3. primary' \in [Node -> Nat] /\ secondary' \in [Node -> Nat]
    BY <2>1, <2>2 DEF TypeOK
  <2> QED
    BY <2>1, <2>2, <2>3, TakePreserves DEF TypeOK
<1>4. ASSUME NEW n \in Node, ClearSecondary(n) PROVE RotationInv'
  <2>1. /\ take(n, 3) /\ primary' = primary
        /\ secondary' = [secondary EXCEPT ![n] = Disabled]
    BY <1>4 DEF ClearSecondary
  <2>2. primary[n] = rotation + 1 /\ rotation \in Nat
    BY <2>1 DEF take, TokensOfStep, TypeOK
  <2>3. primary' \in [Node -> Nat] /\ secondary' \in [Node -> Nat]
    BY <2>1 DEF TypeOK, Disabled
  <2> QED
    BY <2>1, <2>2, <2>3, TakePreserves DEF TypeOK
<1>5. ASSUME NEW r \in Request, send(r), r.from \in Node => r.token = primary[r.from]
      PROVE  RotationInv'
  <2>1. TokensOfStep' /\ InStep' /\ TypeOK'
    BY <1>5 DEF send, config, TokensOfStep, InStep, TypeOK
  <2>2. r.from \in Node => r.token <= primary[r.from]
    BY <1>5 DEF TypeOK
  <2>3. TokensAge'
    BY <1>5, <2>2 DEF send, config, TokensAge
  <2> QED
    BY <2>1, <2>3
<1>6. ASSUME NEW n \in Node, Send(n) PROVE RotationInv'
  <2>1. PICK m \in Node :
          send([from |-> n, to |-> m, clusterID |-> ClusterID, token |-> primary[n]])
    BY <1>6 DEF Send
  <2>2. primary[n] \in Nat
    BY DEF TypeOK
  <2>3. [from |-> n, to |-> m, clusterID |-> ClusterID, token |-> primary[n]] \in Request
    BY <2>2 DEF Request
  <2> QED
    BY <1>5, <2>1, <2>3
<1>7. ASSUME SendFromOutside PROVE RotationInv'
  <2>1. PICK m \in Node, t \in 0..new :
          send([from |-> Outsider, to |-> m, clusterID |-> OtherClusterID, token |-> t])
    BY <1>7 DEF SendFromOutside
  <2>2. t \in Nat
    BY DEF TypeOK, new
  <2>3. [from |-> Outsider, to |-> m, clusterID |-> OtherClusterID, token |-> t] \in Request
    BY <2>2 DEF Request
  <2> QED
    BY <1>5, <2>1, <2>3, AuthAssumption
<1>8. ASSUME NEW n \in Node, Receive(n) PROVE RotationInv'
  <2>1. TokensOfStep' /\ InStep'
    BY <1>8 DEF Receive, config, TokensOfStep, InStep
  <2>2. PICK r \in requests :
          /\ requests' = requests \ {r}
          /\ refused' = IF ValidateRequest(n, r.clusterID, r.token) = "ErrInvalidToken"
                        THEN refused \cup {r} ELSE refused
    BY <1>8 DEF Receive
  <2>3. TypeOK'
    BY <1>8, <2>2 DEF Receive, config, TypeOK
  <2>4. ASSUME ValidateRequest(n, r.clusterID, r.token) = "ErrInvalidToken"
        PROVE  r.from \in Node /\ r.token < primary[r.from]
    <3>1. r.clusterID = ClusterID
      BY <2>4 DEF ValidateRequest
    <3>2. r.from \in Node /\ r.token \in Nat /\ primary[r.from] \in Nat
      BY <3>1, AuthAssumption DEF TypeOK, Request
    <3>3. ValidateRequest(n, ClusterID, primary[r.from]) = "ok"
      BY <3>2, CurrentAccepted
    <3>4. r.token # primary[r.from]
      BY <2>4, <3>1, <3>3
    <3>5. r.token <= primary[r.from]
      BY <3>2 DEF TokensAge
    <3> QED
      BY <3>2, <3>4, <3>5
  <2>5. TokensAge'
    BY <1>8, <2>2, <2>4 DEF Receive, config, TokensAge
  <2> QED
    BY <2>1, <2>3, <2>5
<1>9. CASE UNCHANGED vars
  BY <1>9 DEF vars, config, TypeOK, TokensOfStep, InStep, TokensAge
<1> QED
  BY <1>1, <1>2, <1>3, <1>4, <1>6, <1>7, <1>8, <1>9 DEF Next

LEMMA RotationAlways == Spec => []RotationInv
BY RotationInit, RotationStep, PTL DEF Spec

\* Whatever the order in which nodes take the steps of the documented procedure,
\* ValidateRequest calls invalid only the tokens of requests of this cluster whose
\* sender has moved on.
THEOREM NoDowntime == Spec => []OnlyOutdatedRefused
<1>1. RotationInv => OnlyOutdatedRefused
  <2> SUFFICES ASSUME RotationInv, NEW r \in refused
               PROVE  r.from \in Node /\ r.token # primary[r.from]
    BY DEF OnlyOutdatedRefused
  <2>1. r.from \in Node /\ r.token < primary[r.from]
    BY DEF RotationInv, TokensAge
  <2>2. r.token \in Nat /\ primary[r.from] \in Nat
    BY <2>1 DEF RotationInv, TypeOK, Request
  <2> QED
    BY <2>1, <2>2
<1> QED
  BY <1>1, RotationAlways, PTL

=============================================================================
