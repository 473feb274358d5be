CONSTANTS
    SizeMod = 8
    PageSize = 2
    MapBits = 4
    Overrun = 2
    Regions <- MCLargeRegion
    Lens = {1, 2}
    Addrs = {4, 6, 8}
SPECIFICATION LargeSpec
PROPERTY ForeignUntouched
