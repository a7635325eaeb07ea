SPECIFICATION Spec
CONSTANTS
    IntSign = 16
    SizeModulus = 32
    VarintBase = 4
    DefaultLimit = 8
    CodeTableSize = 5
    WindowOptions = {0, 1, 59, 60, 64, 4096}
CHECK_DEADLOCK FALSE
INVARIANT
    DocumentedLimitAccepted
