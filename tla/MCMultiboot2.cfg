CONSTANTS
    TagLists <- MCTagLists
    LenMod = 8
SPECIFICATION Spec
CHECK_DEADLOCK FALSE
INVARIANTS
    TypeOK
    ReadsInsideTag
    TotalIsAvailable
PROPERTIES
    WalkEnds
