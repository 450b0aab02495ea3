SPECIFICATION Spec

CONSTANTS
    Vars      = {"g", "h"}
    Lits      = {"c", "k"}
    Capturing = {"c"}
    Functions <- MCLoopFunctions

INVARIANTS
    AllEscapesReported

CHECK_DEADLOCK FALSE
