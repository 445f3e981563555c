SPECIFICATION Spec
CONSTANTS
    p1 = p1
    p2 = p2
    p3 = p3
    s1 = s1
    s2 = s2
    Process <- MCTwo
    Server <- MCServers
    Command <- AllCommands
    OtherVersions = TRUE
    Redirects = TRUE
    Faults <- AllFaults
    MaxCookies = 3
SYMMETRY Symmetry
CHECK_DEADLOCK FALSE
INVARIANTS Inv CookieOnlyToItsServer KeychainKeepsLiveSession FailureLeavesItem NoSilentRebind
