------------------------------- MODULE MCJoin -------------------------------
EXTENDS JoinCluster

CONSTANTS n1, n2, n3

TwoSeeds == <<n1, n2>>

=============================================================================
