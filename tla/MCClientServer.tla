---------------------------- MODULE MCClientServer ----------------------------
EXTENDS ClientServer, TLC

Symmetry == Permutations(Client)
=============================================================================
