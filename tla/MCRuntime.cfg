CONSTANTS
    MemSize = 6
    Bytes = {0, 1, 3}
    UCHAR = 4
    WORD = 3
    ADDRESSES = 16
    CHAR_BITS = 2
    SHORT_BITS = 3
    INT_BITS = 4
    LONG_BITS = 8
    PRINTF_NTOA_BUFFER_SIZE = 4
    SIZE_MAX = 63
    BufBytes = 10
    FormatCalls <- MCFormatCalls
    ATEXIT_MAX_FUNCS = 3
    Destructors = {"f", "g"}
    Objects = {"o"}
    Statics = {"INTERRUPTS", "PMM"}
    HandlerStatics = {"INTERRUPTS"}
    MaxFinalize = 3
SPECIFICATION Spec
CHECK_DEADLOCK FALSE
INVARIANTS
    TypeOK
    AnswersRight
    FormatTruncates
    NumberReadsBack
    VgaAgrees
    FinalizeRight
    BuiltOnce
PROPERTIES
    WritesRight
    LoopsEnd
