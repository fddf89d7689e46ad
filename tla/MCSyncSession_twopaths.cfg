SPECIFICATION Spec
CONSTANTS
    None = None
    Torn = Torn
    Idle = Idle
    Path <- TwoPaths
    MaxVersion = 3
    SizeOf <- MixedSizes
    CrcOf <- DistinctCrcs
    StampOf <- EqualStamps
    MaxFiles = 2
    CrcDisabled = FALSE
    RecheckEnabled = TRUE
    ScanEnabled = TRUE
    MaxFaults = 0
INVARIANTS Lockstep Agreement DoneMeansSynced
PROPERTY KeepsPromise
