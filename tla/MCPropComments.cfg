SPECIFICATION Spec

CONSTANTS
    Sites           <- MCSites
    Exprs           <- MCExprs
    SourceFiles     <- MCFiles
    Packages        <- CommentPackages
    MaxRuns         = 2
    MaxCrashes      = 0
    MaxTransactions = 0

INVARIANTS
    ImpliedBeforeCheck

CHECK_DEADLOCK FALSE
