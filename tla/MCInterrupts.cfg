CONSTANTS
    Devices = {0, 1, 7}
    Exceptions = {0, 14, 17}
    DriverVectors = {33, 39}
    TickPeriod = 3
    IdtAddrs = {8, 16, 48, 56}
    LowMemory = 32
    Uint32 = 64
    Uint48 = 1024
SPECIFICATION Spec
INVARIANTS
    TypeOK
    InServiceIsHandled
    TicksExact
    FrameAsDeclared
    ContextRestored
PROPERTIES
    TimerGoesOn
    LineServed
