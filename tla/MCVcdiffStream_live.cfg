SPECIFICATION StreamFairSpec
CONSTANTS
    Retained = TRUE
    MaxAccepted = 3
    MaxChunk = 3
    MaxWrite = 2
    MinWindow = 2
    WriteHWM = 1
    ReadHWM = 1
    MaxQueue = 2
    MaxFlushes = 1
CHECK_DEADLOCK FALSE
PROPERTIES
    EndCompletes
    FlushGetsTurn
