SPECIFICATION Spec
CONSTANTS
    Legal <- MCLegal
    Small <- MCSmall
    BaseMax = 1
    ExtMax = 1
    NameRoom = 6
    PathRoom = 20
    TooLong = TooLong
    None = None
    SrvNames <- SmallName
    CliNames <- CapitalName
    KeyOrder <- OneOrder
    Reserved <- MCReserved
    Root = {1}
    MaxEdits = 3
    MaxSwitches = 0
PROPERTY NoRollback
CHECK_DEADLOCK FALSE
