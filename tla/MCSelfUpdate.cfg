SPECIFICATION Spec
CONSTANTS
    MaxVersion = 4
    Big = {4}
    Client = {1, 2}
    MaxFaults = 2
    Torn = Torn
    Absent = Absent
INVARIANTS CopyLeft TornForCause OneSyncs
PROPERTY SyncsAgain
CHECK_DEADLOCK FALSE
