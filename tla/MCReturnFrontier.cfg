SPECIFICATION Spec

CONSTANTS
    Roots     <- FindingRoots
    Fields    <- MCFields
    Paths     <- MCFieldPaths
    RootCap   <- FindingRootCap
    FieldCap  <- MCFieldCap
    Globals   = {}
    DeferSites <- MCSites
    Fns       <- MCFns
    Programs  <- ReturnPrograms

INVARIANT
    FrontieredReturnRejected
