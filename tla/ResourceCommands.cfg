SPECIFICATION CommandsSpec
CONSTANTS
    IgnoredGroups <- MCIgnored
    Cases <- MCAllCases
    MaxInflight = 2
    MaxFaults = 2
    MaxEdits = 1
    MaxReads = 2
    MaxConcurrency = 2
    NoParent = ""
    Faults = {"process", "request"}
    MaxPushEdits = 1
    PushTrees <- MCPushTrees
    Requests <- MCRequests
    Following <- MCFollowing
    Folder <- MCFolder
CHECK_DEADLOCK FALSE
INVARIANTS Inv DeletesOnlyWhatIsNamed ExitZeroIsComplete ParentsSettledFirst PushReportIsTrue RoundTrip
PROPERTIES NoLostEdit CommandEnds
