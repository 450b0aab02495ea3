SPECIFICATION Spec

CONSTANTS
    Roots     <- MCRoots
    Fields    <- MCFields
    Paths     <- MCFieldPaths
    RootCap   <- MCRootCap
    FieldCap  <- MCFieldCap
    Globals   = {}
    DeferSites <- MCSites
    Fns       <- MCFns
    Programs  <- AllPrograms

INVARIANTS
    TypeOK
    JoinCovered
    NoStaleBlock

PROPERTIES
    EntryStatesGrow
    Termination
