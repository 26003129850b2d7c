CONSTANTS
  u1 = u1  b1 = b1  b2 = b2  b3 = b3  t1 = t1  t2 = t2  s1 = s1  s2 = s2
  NoOne = NoOne
  Users = {u1}
  Rotation <- ThreeBots
  Ticks = {t1, t2}
  Servers = {s1, s2}
  Host <- TwoServers
  MinPlayers = 3  MaxPlayers = 5  MinHumans = 1  MaxBots = 2
  AllowBots = TRUE
  MaxCrashes = 1
SPECIFICATION FairSpec
INVARIANTS
  BotsWithinPlan
  RunningIsDrawn
PROPERTIES
  FollowsPath
  Settles
CHECK_DEADLOCK FALSE
