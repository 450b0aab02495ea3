SPECIFICATION PathSpec

CONSTANTS
    Roots     <- MCRoots
    Fields    <- MCFields
    Paths     <- MCFieldPaths
    RootCap   <- MCRootCap
    FieldCap  <- MCFieldCap
    Globals   = {}
    DeferSites <- MCSites
    Fns       <- MCFns
    Programs  <- RepeatPrograms
    MaxDefers = 3
    MaxBorrows = 3

INVARIANT
    RepeatedMoveRejected
