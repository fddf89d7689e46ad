SPECIFICATION Both
CONSTANTS
    Root = {a, b}
    DefaultRoot = a
    Number = {0, 15, 70}
    exe = exe
    min = min
    editor = editor
    clock = clock
    Name = {exe, min, editor, clock}
    Exe <- MCExe
    MinSwitch <- MCMinSwitch
    Line <- MCLine
    LineCapacity = 12
    Absent = Absent
    MaxEdits = 3
    Form = {f1}
    Session = {s1, s2}
    None = None
    Torn = Torn
INVARIANTS FolderStays KeptEverywhere PlanFromOwnTree FileIsMemory
PROPERTIES OthersKept KeepsSyncing
