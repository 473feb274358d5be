CONSTANTS
    SizeMod = 16
    MaxLength = 5
    MaxLen = 6
SPECIFICATION Spec
INVARIANTS
    ReturnsFirstRun
CHECK_DEADLOCK FALSE
