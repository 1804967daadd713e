CONSTANTS
    HandSize = 4
    WallSize = 21
    Walls <- SmallWalls
    Rounds = 2
SPECIFICATION FairSpec
INVARIANTS
    TypeOK TileConservation Accounting DoorMatchesHand FlowersOnce RegrabInWall
    NoFlowerInPlay HandsTidy EatHasChoice QuietGangCountsReal WinnerEndsRound
PROPERTY RoundEnds
CHECK_DEADLOCK FALSE
