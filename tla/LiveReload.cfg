SPECIFICATION FairSpec
CONSTANTS
    c1 = c1
    c2 = c2
    c3 = c3
    Client <- MCTwo
    Buffer = 1
    MaxMessages = 3
CHECK_DEADLOCK FALSE
INVARIANTS LiveInv
PROPERTIES HubGoesOn ImplementsReloadFeed
