SPECIFICATION Spec
CONSTANTS
    MaxConns = 2
    MaxFd = 3
    MaxDrops = 2
    Free = Free
CONSTRAINT Bounded
CHECK_DEADLOCK FALSE
INVARIANTS
    OwnConnection
    LoginFirst
PROPERTIES
    ClosedIsReleased
    ClientReturns
