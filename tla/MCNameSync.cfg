SPECIFICATION Spec
CONSTANTS
    Legal <- MCLegal
    Small <- MCSmall
    BaseMax = 1
    ExtMax = 1
    NameRoom = 6
    PathRoom = 20
    TooLong = TooLong
    None = None
    SrvNames <- MCSrvNames
    CliNames <- MCCliNames
    KeyOrder <- MCKeyOrder
    Reserved <- MCReserved
    Root = {1, 2}
    MaxEdits = 3
    MaxSwitches = 1
PROPERTIES OnlyUsersReplace NoRollback LastCopy Settles
CHECK_DEADLOCK FALSE
