SPECIFICATION Spec

CONSTANTS
    Vars      = {"g", "h"}
    Lits      = {"c", "k"}
    Capturing = {"c"}
    Functions <- MCFunctions

INVARIANTS
    TypeOK
    EscapesReported
    ReportsAreReal

CHECK_DEADLOCK FALSE
