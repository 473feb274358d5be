CONSTANTS
    PtEntries = 4
    StackTops = {48, 64}
    StackSize = 128
    StackPage = 32
    WIDTH = 5
    HEIGHT = 2
    VideoCells = 31
    BUF_SIZE = 5
    UINT8 = 16
    Chars <- MCChars
    MaxTicks = 1
    Hello <- MCHello
    Programs <- MCPrograms
    TickText <- MCTickText
    UnhandledText <- MCUnhandledText
SPECIFICATION Spec
CHECK_DEADLOCK FALSE
INVARIANT MessageWhole
