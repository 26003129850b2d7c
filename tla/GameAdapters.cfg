SPECIFICATION Spec
CONSTANTS
    p1 = p1
    p2 = p2
    p3 = p3
    p4 = p4
    b1 = b1
    h1 = h1
    h2 = h2
    h3 = h3
    table = table
    far = far
    NoOne = NoOne
    KazhuthaSeats <- FourSeats
    BluffSeats <- ThreeSeats
    LudoSeats <- TwoSeats
    ShipSeats <- TheCrew
    Ranks = {1, 2, 3}
    Donkey = 0
    HandSize = 2
    TraySize = 2
    NumRanks = 3
    NumJokers = 2
    Tokens = 2
    Lap = 6
    Spread = 3
    Home = 8
    Six = 3
    Safe <- TheSafe
    Bots <- TheBots
    TraitorCount = 1
    Places <- AllPlaces
    Table = table
    BreachPlaces <- AllPlaces
    VentPlaces <- FarOnly
    Stations <- FarOnly
    TasksEach = 1
    EmergenciesEach = 1
    MaxCallers = 1
INVARIANTS NeverStalls TableIsWhole FairlyDecided
PROPERTIES KeepsContract KeepsMeetings
SYMMETRY People
CHECK_DEADLOCK FALSE
