------------------------------- MODULE MCSocial -------------------------------
EXTENDS Social, TLC

Symmetry == Permutations(Users) \cup Permutations(Calls) \cup Permutations(Rooms)
            \cup Permutations(Requests) \cup Permutations(Invitations)
=============================================================================
