CONSTANTS
    HandSize = 16
    WallSize = 69
    Walls <- StackedWalls
    Rounds = 2
SPECIFICATION MSpec
INVARIANTS DoorMatchesHand TileConservation HandsTidy MirrorsServer
CHECK_DEADLOCK FALSE
