CONSTANTS
    PlayerCount = 3
    MaxExchanges = 2
    Restless <- Last
SPECIFICATION Spec
INVARIANT TypeOK
PROPERTIES KeepsVotePromise EverybodyEnds
CHECK_DEADLOCK FALSE
