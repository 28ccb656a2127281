------------------------------ MODULE VoterSet ------------------------------
(***************************************************************************)
(* The VoterSet of src/src/internal/raft/membership.go: who votes and who  *)
(* only observes, as one controller sees it.                               *)
(*                                                                         *)
(* The Go map is keyed by NodeID strings.  A controller knows its own      *)
(* NodeID, but of the peers it is started with it knows only the raft      *)
(* address, and files them under that address until it learns the NodeID.  *)
(* Every node therefore has two possible keys: its NodeID, ID(n), and the  *)
(* placeholder Placeholder(n), the address used as an ID.  A node's        *)
(* address does not change and requests pair a NodeID with its address, so *)
(* the Addr field of a member is a function of its key.                    *)
(***************************************************************************)
EXTENDS Integers, FiniteSets

CONSTANT Node    \* the controllers

MemberKey == {"id", "addr"} \X Node

ID(n)          == <<"id", n>>
Placeholder(n) == <<"addr", n>>
AddrOf(k)      == k[2]

\* "none" stands for a key that is not in the map.
NodeState == {"none", "observer", "voter"}
VoterSets == [MemberKey -> NodeState]

newVoterSet == [k \in MemberKey |-> "none"]

AddVoter(v, k) == [v EXCEPT ![k] = "voter"]

AddObserverAlways(v, k) == [v EXCEPT ![k] = "observer"]   \* mutant

\* Adding an observer never overwrites an existing member.
AddObserver(v, k) == [v EXCEPT ![k] = IF @ = "none" THEN "observer" ELSE @]

Remove(v, k) == [v EXCEPT ![k] = "none"]

UpdateIDKeepsOld(v, n) ==   \* mutant
  IF v[Placeholder(n)] = "none" THEN v ELSE [v EXCEPT ![ID(n)] = v[Placeholder(n)]]

UpdateIDDropsMember(v, n) == [v EXCEPT ![Placeholder(n)] = "none"]   \* mutant

\* UpdateID(addr, realID): the member filed under the address of n is moved
\* to the NodeID of n, on top of what was there.
UpdateID(v, n) ==
  IF v[Placeholder(n)] = "none"
  THEN v
  ELSE [v EXCEPT ![Placeholder(n)] = "none", ![ID(n)] = v[Placeholder(n)]]

VoterKeys(v) == {k \in MemberKey : v[k] = "voter"}

\* Voters(selfID) lists one address per voting member other than self: a node
\* filed under both of its keys is listed twice, so the keys are returned.
Voters(v, self) == VoterKeys(v) \ {self}

QuorumSize(v) == Cardinality(VoterKeys(v)) \div 2 + 1

IsVoter(v, k) == v[k] = "voter"

\* allPeerAddrs(selfID), again as keys.
allPeers(v, self) == {k \in MemberKey : v[k] # "none"} \ {self}

\* The nodes that vote, whatever key they are filed under.
VoterAddrs(v) == {AddrOf(k) : k \in VoterKeys(v)}
=============================================================================
