SPECIFICATION MCSpec

CONSTANTS
    Variables   = {"a", "b"}
    FieldNames  = {"f", "g"}
    MaxMentions = 1
    MaxValues   = 6
    LastOffset  = 9
    Capacity    <- GoCapacity
    Bodies      <- DeepBodies
    Texts       <- NoTexts

INVARIANT
    SiblingsDistinct

CHECK_DEADLOCK FALSE
