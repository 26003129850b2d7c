----------------------------- MODULE MCGathering -----------------------------
\* Gathering over what goes on beside Quick Play, and what people do at the
\* platform, in one behaviour.
EXTENDS Gathering, TLC

\* Blocks and lists; or rooms moved by everybody else.
RunAffairs == {{"blocks"}, {"doors", "moves"}}

\* Seats and offers; a match with Stupids; a room that is got ready; an offer
\* in a waiting room and after a match.
RunScenarios ==
  {{"join", "leave", "ask"},
   {"join", "leave", "ready", "act", "talk", "stupids"},
   {"join", "leave", "ready", "stupids", "clear"},
   {"join", "ready", "act", "ask"}}

Symmetry == Permutations(Users) \cup Permutations(Calls) \cup Permutations(Rooms)
            \cup Permutations(Requests) \cup Permutations(Invitations)
=============================================================================
