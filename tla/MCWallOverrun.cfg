CONSTANTS
    HandSize = 4
    WallSize = 21
    Walls <- SmallWalls
    Rounds = 1
SPECIFICATION Spec
INVARIANT DrawsWithinWall
CHECK_DEADLOCK FALSE
