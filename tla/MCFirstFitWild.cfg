CONSTANTS
    SizeMod = 8
    PageSize = 2
    MapBits = 4
    Overrun = 2
    Regions <- MCWildRegions
    Lens = {0, 1, 3}
    Addrs = {3, 4, 5, 8, 10}
SPECIFICATION WildSpec
INVARIANTS
    CountsConserved
PROPERTIES
    AllocTakesFreePages
