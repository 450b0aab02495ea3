SPECIFICATION MCSpec

CONSTANTS
    Variables   = {"a", "b"}
    FieldNames  = {"f", "g"}
    MaxMentions = 3
    MaxValues   = 4
    LastOffset  = 9
    Capacity    <- GoCapacity
    Bodies      <- MCBodies
    Texts       <- MCTexts

INVARIANTS
    TypeOK
    UniqueMeansOneName
    SourceIsTheOnlyMention
    PlacesExplained
    ApartBindsItsOwn

CHECK_DEADLOCK FALSE
