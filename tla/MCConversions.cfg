SPECIFICATION Spec
CONSTANTS
    Legal <- MCLegal
    Small <- MCSmall
    TooLong = TooLong
    Letters <- MCLetters
    Roots <- MCRoots
    PathBytes <- MCPathBytes
    Numbers <- MCNumbers
    FileBytes <- MCFileBytes
    BitErrors <- MCBitErrors
    BaseMax = 2
    ExtMax = 1
    NameRoom = 6
    PathRoom = 13
    PathCapacity = 4
    Fail = Fail
    Point = Point
    Other = Other
    None = None
    LongDays = {3652}
    MaxName = 6
    MaxPath = 6
    MaxVersion = 5
    MaxBytes = 5
    LastYear = 2107
INVARIANTS NamesAgree PlacesHold PathsTravel VersionsOrdered TellsDamage StampsTrue
CHECK_DEADLOCK FALSE
