SPECIFICATION Spec

CONSTANTS
    Files       = {"names", "a"}
    Listing     = "names"
    GoFiles     = {}
    Checks      = {c1, c2}
    Contents    = {"ok", "checkReturns"}
    Overlays    <- MCOverlays
    Overlapping = TRUE
    MaxEdits    = 0

PROPERTIES
    AnswersForItsFiles
