SPECIFICATION Spec
CONSTANTS
    Process = {p1, p2}
    Name = {"default", "b"}
    Server = {"s1", "s2"}
    Invocations <- MCInvocations
    InitFiles <- MCInitFiles
    MaxCommands = 3
    MaxFaults = 1
CHECK_DEADLOCK FALSE
INVARIANTS Inv SessionsHaveContexts
PROPERTIES OnlyNamedChanges
