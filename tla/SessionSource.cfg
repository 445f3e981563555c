SPECIFICATION FairSpec
CONSTANTS
    t1 = t1
    t2 = t2
    t3 = t3
    Threads <- MCThreads
    MaxRequests = 3
INVARIANTS IInv CookiesMoveForward
PROPERTIES EveryRequestReturns ImplementsRotatingCookie
