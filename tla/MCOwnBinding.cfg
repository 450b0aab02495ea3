SPECIFICATION MCSpec

CONSTANTS
    Variables   = {"a", "b"}
    FieldNames  = {"f", "g"}
    MaxMentions = 1
    MaxValues   = 4
    LastOffset  = 9
    Capacity    <- GoCapacity
    Bodies      <- NoBodies
    Texts       <- Nested

INVARIANT
    OwnBinding

CHECK_DEADLOCK FALSE
