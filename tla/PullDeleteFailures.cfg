SPECIFICATION Spec
CONSTANTS
    IgnoredGroups <- MCIgnored
    Cases <- MCCases
    MaxInflight = 2
    MaxFaults = 2
    MaxEdits = 1
CHECK_DEADLOCK FALSE
INVARIANTS FailuresExitNonZero
