CONSTANTS
  Users = {u1, u2, u3}
  Nobody = nobody
  Rounds = 2
  Restored = {}
  Latency = "none"
  EagerRestart = FALSE
  RestCalls = {"join"}
  MaxTasks = 3
  MaxCorrect = 2
SPECIFICATION Spec
SYMMETRY Symmetry
INVARIANTS
  TurnOrderSeated
  PausesInTime
  TurnInOrder
PROPERTIES
  MatchFollowsLifecycle
  KeepsTurns
CHECK_DEADLOCK FALSE
