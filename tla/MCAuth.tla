------------------------------- MODULE MCAuth -------------------------------
EXTENDS AuthRotation, TLC

Symmetric == Permutations(Node)

=============================================================================
