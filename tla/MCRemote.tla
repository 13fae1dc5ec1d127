-------------------------------- MODULE MCRemote --------------------------------
EXTENDS Remote, TLC

CONSTANTS c1, c2, c3, x1, x2

Symmetry == Permutations(Calls) \union Permutations(Contexts)
=============================================================================
