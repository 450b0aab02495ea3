SPECIFICATION Spec

CONSTANTS
    Bases      = {1, 2}
    Texts      = {"t1", "t2"}
    Malformed  = {"t2"}
    MaxEdits   = 2
    MaxCrashes = 2

INVARIANTS
    TypeOK
    CheckedFilesCurrent
    LeftoversAreOrphans
    RefreshedUninterrupted

CHECK_DEADLOCK FALSE
