CONSTANTS
    InfoAlign = 2
    LowLimit = 4
    HighLimit = 32
    MinSize = 2
    MaxSize = 8
    MappedEnd = 28
    MemEnd = 40
    PageSize = 4
    SizeMod = 64
    MapBits = 4
    Overrun = 2
    KernelStart = 4
    KernelSpace = 16
    Machines <- MCMachines
    Lens = {0, 1, 2}
    CallAddrs = {0, 4, 8, 12, 16, 20, 24, 28}
SPECIFICATION Spec
INVARIANTS
    TypeOK
    NothingLost
    KernelPagesKept
    BootInfoMoved
PROPERTIES
    NoPageTwice
