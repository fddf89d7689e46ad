SPECIFICATION Spec
CONSTANTS
    None = None
    Torn = Torn
    Idle = Idle
    Path <- OnePath
    MaxVersion = 3
    SizeOf <- EqualSizes
    CrcOf <- DistinctCrcs
    StampOf <- DistinctStamps
    MaxFiles = 2
    CrcDisabled = FALSE
    RecheckEnabled = FALSE
    ScanEnabled = TRUE
    MaxFaults = 0
PROPERTY NoSilentOverwrite
