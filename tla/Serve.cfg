SPECIFICATION Spec
CONSTANTS
    Files = {f1, f2}
    Names = {n1, n2}
    Handlers = {h1, h2}
    Main = 80
    Other = 8081
    Addresses <- MCAddresses
    Interfaces <- MCInterfaces
    LinkLocal <- MCLinkLocal
    MaxEdits = 1
    Runs <- MCRuns
SYMMETRY MCSymmetry
CHECK_DEADLOCK FALSE
INVARIANTS Inv CaughtUp SaveIsServed PreviewIsFresh
