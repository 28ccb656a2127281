------------------------------ MODULE MCRestart ------------------------------
EXTENDS RaftRestart

CONSTANTS n1, n2, n3

=============================================================================
