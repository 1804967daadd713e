CONSTANTS
    HandSize = 4
    WallSize = 21
    Walls <- SmallWalls
    Rounds = 1
SPECIFICATION Spec
INVARIANT CountsRealTiles
CHECK_DEADLOCK FALSE
