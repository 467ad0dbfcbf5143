CONSTANTS
    Visit = {"hurried"}
    Record = {w1}
    NewRecord = {n1}
    MaxNew = 1
    Rev = {0, 1}
    Broken = {}
    MaxWrites = 1
    HISTORY = 1
    Null = Null
SPECIFICATION EditorSpec
CHECK_DEADLOCK FALSE
INVARIANT NeverOverAnother
