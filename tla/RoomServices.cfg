SPECIFICATION ServicesSpec
CONSTANTS
    u1 = u1
    u2 = u2
    u3 = u3
    u4 = u4
    u5 = u5
    b1 = b1
    Nobody = Nobody
    Players <- TwoInRoom
    Groups = {1, 2}
    NoGroup = NoGroup
    Jobs = {1, 2}
    Talkers <- ThreeInRoom
    Voters <- FiveInRoom
    Painters <- TwoInRoom
    Ids = {1, 2}
    MaxStrokes = 2
    MaxPoints = 2
    MaxBatch = 2
    Company <- Scribblers
    Bots = {b1}
    MaxTries = 1
    MaxTurns = 2
INVARIANTS MembersQualify DrawerIsDeaf PollStands BoardsAgree OnePicture
PROPERTIES HangsUp
CHECK_DEADLOCK FALSE
