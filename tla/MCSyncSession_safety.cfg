SPECIFICATION Spec
CONSTANTS
    None = None
    Torn = Torn
    Idle = Idle
    Path <- OnePath
    MaxVersion = 4
    SizeOf <- EqualSizes
    CrcOf <- DistinctCrcs
    StampOf <- DistinctStamps
    MaxFiles = 2
    CrcDisabled = FALSE
    RecheckEnabled = FALSE
    ScanEnabled = TRUE
    MaxFaults = 1
INVARIANTS TypeInv StateAgreement DoneMeansSynced NoSurprise
PROPERTY NoSeenContentLost
