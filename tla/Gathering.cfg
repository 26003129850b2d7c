CONSTANTS
  Users = {u1, u2}
  Rooms = {r1, r2}
  Capacity = 2
  Requests = {q1}
  Invitations = {i1}
  Calls = {c1, c2}
  NoId = none
  MaxBlocks = 1
  Affairs <- RunAffairs
  Stupids = {b1}
  Clock = Clock
  Driver = Driver
  MinPlayers = 2
  MaxPlayers = 3
  MaxMatches = 1
  MaxOffers = 1
  MaxInFlight = 2
  Scenarios <- RunScenarios
SPECIFICATION GatheringSpec
SYMMETRY Symmetry
INVARIANTS
  FriendsAgreed
  OneSeatByPlay
  QueueMoves
  RewardsAreExact
PROPERTIES
  AnswersAreFinal
  NoNeedlessRoom
  SeatsAreTheirs
CHECK_DEADLOCK FALSE
