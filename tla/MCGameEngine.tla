---------------------------- MODULE MCGameEngine ----------------------------
EXTENDS GameEngine, TLC
Symmetry == Permutations(Users)
=============================================================================
