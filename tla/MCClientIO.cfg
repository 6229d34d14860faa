SPECIFICATION FairSpec
CONSTANTS
    SendMax = 2
    RecvMax = 1
    HandshakeMax = 2
    LagLimit = 2
    Kinds <- ForBoth
    Tls <- Both
    Web <- Both
    MaxRead = 2
    RecvCap = 4
    LagCap = 2
    LagFloor = 0
INVARIANTS CallbacksRight ClosedIsQuiet
PROPERTIES DeadIsClosed LinesTakenUp OutputLeaves
