CONSTANTS
  h1 = h1  h2 = h2  h3 = h3  h4 = h4  b1 = b1  b2 = b2  b3 = b3
  NoOne = NoOne
  Seeding <- ThreeHumans
  Bots = {}
  Retired = {}
  Ticks = {t1}
  AllowBots = TRUE
  Departures = {"drop", "leave"}
  StoreFails = TRUE
  MaxCrashes = 2
SPECIFICATION Spec
INVARIANTS
  OneStandIn
PROPERTIES
  DecidedOnce
CHECK_DEADLOCK FALSE
