CONSTANTS
  h1 = h1  h2 = h2  h3 = h3  h4 = h4  b1 = b1  b2 = b2  b3 = b3
  NoOne = NoOne
  Seeding <- OneAndThree
  Bots = {b1, b2, b3}
  Retired = {b2}
  Ticks = {t1, t2}
  AllowBots = TRUE
  Departures = {}
  StoreFails = FALSE
  MaxCrashes = 0
SPECIFICATION FairSpec
INVARIANTS
  SlotsAreWon
  CrownedInOrder
PROPERTIES
  FollowsPath
  LapsedIsDecided
CHECK_DEADLOCK FALSE
