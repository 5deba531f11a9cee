SPECIFICATION Both
CONSTANTS
    c1 = c1
    c2 = c2
    v1 = v1
    v2 = v2
    Channel <- MCChannel
    Val <- MCVal
    Default = Default
    None = None
    x = x
    y = y
    NUL = NUL
    Message <- Messages
    UserSize = 2
    Char <- MCChar
    MaxCommands = 3
    Frames <- MCFrames
    MaxFrames = 3
    MaxCuts = 1
CONSTRAINT Bounded
CHECK_DEADLOCK FALSE
INVARIANTS
    
    MemoryIsFile
    
PROPERTIES
    NetworkFollows
