SPECIFICATION FairSpec
CONSTANTS
    Byte <- MCByte
    CR = "cr"
    LF = "lf"
    BufSize = 5
    LineCapacity = 3
    RecvMax = 2
    Scripts <- MCScripts
    MaxSessions = 3
INVARIANTS TypeInv Conserved
PROPERTIES DeliversMessages BreaksForCause SessionEnds
CHECK_DEADLOCK FALSE
