CONSTANTS
    c1 = c1
    c2 = c2
    c3 = c3
    c4 = c4
    c5 = c5
    Clients <- FourClients
    SeatCount = 2
SPECIFICATION FairSpec
PROPERTY FourStableStart
CHECK_DEADLOCK FALSE
