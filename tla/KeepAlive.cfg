SPECIFICATION Spec
CONSTANTS
    Contexts = {c1, c2}
    MinWindow = 1
    MaxWindow = 4
    DerivedMin = 1
    DerivedMax = 1
    InactiveLifetime = 5
    WindowChoices <- MCWindows
    Overrides <- MCNoOverrides
    MaxFaults = 1
    MaxEdits = 1
SYMMETRY MCSymmetry
INVARIANTS Inv StaysWarm ReportsAreTrue
