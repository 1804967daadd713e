CONSTANTS
    PlayerCount = 3
    MaxExchanges = 2
    Restless <- Last
SPECIFICATION Spec
INVARIANT ClearsTyped
CHECK_DEADLOCK FALSE
