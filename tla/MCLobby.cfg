CONSTANTS
    c1 = c1
    c2 = c2
    c3 = c3
    c4 = c4
    c5 = c5
    Clients <- FiveClients
    SeatCount = 2
SPECIFICATION Spec
INVARIANTS TypeOK RsetIsSeated OnePlace OnlyResetsKill
SYMMETRY ClientSymmetry
CHECK_DEADLOCK FALSE
