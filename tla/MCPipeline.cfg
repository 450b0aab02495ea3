SPECIFICATION Spec

CONSTANTS
    Files       = {"names", "a", "b"}
    Listing     = "names"
    GoFiles     = {"b"}
    Checks      = {c1}
    Contents    = {"ok", "scan", "type", "checkReturns", "checkMovedUses"}
    Overlays    <- MCOverlays
    Overlapping = FALSE
    MaxEdits    = 1

INVARIANTS
    TypeOK

PROPERTIES
    AnswersForItsFiles
    EveryCheckEnds
