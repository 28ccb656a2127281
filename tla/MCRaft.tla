------------------------------- MODULE MCRaft -------------------------------
(***************************************************************************)
(* Instances of Raft for TLC.                                              *)
(***************************************************************************)
EXTENDS RaftLeadership, TLC

CONSTANTS n1, n2, n3

\* Founders that may campaign are interchangeable, and so are the others; only
\* for runs that check no liveness and whose AdminOps name no node.
NodeSymmetry == Permutations(Founders \cap Candidates)
                  \cup Permutations(Founders \ Candidates)

\* What the administrator may ask for.
PromoteN3    == {[action |-> "add", key |-> ID(n3)]}
ReAddN2      == {[action |-> "add", key |-> ID(n2)]}
ReAddEither  == [action : {"add"}, key : {ID(n1), ID(n2)}]
RemoveOrAdd  == [action : {"remove"}, key : {ID(n1), ID(n2)}] \cup ReAddN2
=============================================================================
