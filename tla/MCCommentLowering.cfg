SPECIFICATION Spec

CONSTANTS
    Files         <- MCFiles
    Bodies        <- MCBodies
    MaxDirectives = 4

INVARIANTS
    TypeOK
    EditsAreSimultaneous
    PlacesMapBack

CHECK_DEADLOCK FALSE
