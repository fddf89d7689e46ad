SPECIFICATION FairSpec
CONSTANTS
    None = None
    Torn = Torn
    Idle = Idle
    Path <- TwoPaths
    MaxVersion = 3
    SizeOf <- EqualSizes
    CrcOf <- DistinctCrcs
    StampOf <- DistinctStamps
    MaxFiles = 1
    CrcDisabled = TRUE
    RecheckEnabled = FALSE
    ScanEnabled = TRUE
    MaxFaults = 0
PROPERTIES Quiet SessionEnds
