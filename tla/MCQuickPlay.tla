----------------------------- MODULE MCQuickPlay -----------------------------
EXTENDS QuickPlay, TLC

OnlyBlocks == {{"blocks"}}

Symmetry == Permutations(Users) \cup Permutations(Calls) \cup Permutations(Rooms)
=============================================================================
