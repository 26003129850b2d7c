CONSTANTS
  Users = {u1, u2}
  Nobody = nobody
  Rounds = 1
  Restored = {}
  Latency = "any"
  EagerRestart = FALSE
  RestCalls = {}
  MaxTasks = 2
  MaxCorrect = 1
SPECIFICATION Spec
SYMMETRY Symmetry
INVARIANTS
  ClosedIsSilent
  HostIsSeated
  NeverStranded
CHECK_DEADLOCK FALSE
