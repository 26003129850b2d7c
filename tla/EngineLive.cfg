CONSTANTS
  Users = {u1, u2}
  Nobody = nobody
  Rounds = 2
  Restored = {u1, u2}
  Latency = "none"
  EagerRestart = FALSE
  RestCalls = {"vacate", "delete"}
  MaxTasks = 2
  MaxCorrect = 1
SPECIFICATION FairSpec
PROPERTY MatchMovesOn
CHECK_DEADLOCK FALSE
