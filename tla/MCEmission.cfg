SPECIFICATION Spec

CONSTANTS
    Roots     = {"x", "y"}
    Fields    = {"f"}
    Functions <- MCFunctions

INVARIANTS
    TypeOK
    MovedIsNil
    StraysExplained

CHECK_DEADLOCK FALSE
