CONSTANTS
    SizeMod = 16
    PageSize = 2
    MapBits = 5
    Overrun = 2
    Regions <- MCRegions
    Lens = {0, 1, 2, 3, 5}
    Addrs = {0, 4, 6, 8, 10, 12, 14, 18}
SPECIFICATION Spec
INVARIANTS
    MapTellsHeld
    CountsExact
PROPERTIES
    HandOutIsFresh
    ForeignUntouched
    Refines
