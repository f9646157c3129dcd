----------------------------- MODULE MCSwimMesh -----------------------------
EXTENDS SwimMesh, TLC
CONSTANTS a, b, c
Peers == Permutations({a, b, c})
=============================================================================
