CONSTANTS
  Users = {u1, u2}
  Rooms = {r1}
  Capacity = 2
  Requests = {q1}
  Invitations = {i1}
  Calls = {c1, c2}
  NoId = none
SPECIFICATION Spec
SYMMETRY Symmetry
INVARIANTS
  BlockWins
CHECK_DEADLOCK FALSE
