CONSTANTS
  Users = {u1, u2}
  Rooms = {r1}
  Capacity = 2
  Calls = {c1, c2}
  MaxBlocks = 1
  Affairs <- OnlyBlocks
  Unread = none
SPECIFICATION Spec
SYMMETRY Symmetry
PROPERTIES
  BlockedNeverSeated
CHECK_DEADLOCK FALSE
