SPECIFICATION Spec
CONSTANTS
    near_cache_size = 2
    same_cache_size = 1
    Block = 2
    ImplicitSizes = {1}
    dictionary <- MCDictionary
    MaxTarget = 3
    MaxSize = 2
    MaxWindows = 2
CHECK_DEADLOCK FALSE
INVARIANTS
    WindowInv
    WellFormedAccepted
    DecodedIsPrefix
    AllDecoded
    InStep
