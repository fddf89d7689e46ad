SPECIFICATION Spec
CONSTANTS
    a = a
    b = b
    c = c
    x = x
    y = y
    Directory <- MCDirectory
    Data <- MCData
    MaxFiles = 2
    Recheck = 1
    Wrap = 3
    MaxGap = 2
    MaxStamp = 3
    MaxHidden = 1
    None = None
SYMMETRY Symmetry
INVARIANTS ScansTell Warms
