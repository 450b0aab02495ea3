SPECIFICATION Spec

CONSTANTS
    Roots     = {"x", "y"}
    Fields    = {"f"}
    Functions <- MCBranchFunctions

INVARIANTS
    NilOnlyWhenMoved

CHECK_DEADLOCK FALSE
