SPECIFICATION RegionSpec

CONSTANTS
    Roots     = {"p", "q", "k", "m", "x", "y", "d", "e", "glob"}
    Fields    = {"f", "g", "u"}
    PtrFields = {"f", "g", "u"}
    Globals   = {"glob"}
    Paths     <- MCPaths
    RootCap   <- MCRootCap
    FieldCap  <- MCFieldCap
    Regions   <- MCRegions

INVARIANTS
    RegionTypeOK
    OneOwnerIfStoredOnce

CHECK_DEADLOCK FALSE
