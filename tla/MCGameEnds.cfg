CONSTANTS
    HandSize = 4
    WallSize = 21
    Walls <- SmallWalls
    Rounds = 4
SPECIFICATION FairSpec
PROPERTY GameEnds
CHECK_DEADLOCK FALSE
