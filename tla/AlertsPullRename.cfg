SPECIFICATION Spec
CONSTANTS
    Exts = {"yaml", "json"}
    Fold <- MCFold
    Folders = {"f", "h"}
    Titles = {"A", "a", "B"}
    OwnNames = {"own"}
    Requests <- MCRequests
    InitGroups <- MCGroups
    MaxPulls = 2
    MaxEdits = 1
CHECK_DEADLOCK FALSE
INVARIANTS
    RenameFreely
