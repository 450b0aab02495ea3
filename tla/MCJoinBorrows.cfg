SPECIFICATION Spec

CONSTANTS
    Roots     <- MCRoots
    Fields    <- MCFields
    Paths     <- MCFieldPaths
    RootCap   <- MCRootCap
    FieldCap  <- MCFieldCap
    Globals   = {}
    DeferSites <- MCSites
    Fns       <- MCFns
    Programs  <- JoinPrograms

INVARIANT
    JoinKeepsBorrows
