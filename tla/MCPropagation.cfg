SPECIFICATION Spec

CONSTANTS
    Sites           <- MCSites
    Exprs           <- MCExprs
    SourceFiles     <- MCFiles
    Packages        <- GownPackages
    MaxRuns         = 2
    MaxCrashes      = 1
    MaxTransactions = 1

INVARIANTS
    TypeOK
    PlanIsImplied
    ImpliedBeforeCheck
    RerunConverges

PROPERTY
    NoContradictionMade

CHECK_DEADLOCK FALSE
