SPECIFICATION StreamSpec
CONSTANTS
    Retained = TRUE
    MaxAccepted = 2
    MaxChunk = 2
    MaxWrite = 1
    MinWindow = 2
    WriteHWM = 3
    ReadHWM = 1
    MaxQueue = 3
    MaxFlushes = 1
CHECK_DEADLOCK FALSE
PROPERTY
    SmallWindowsOnRequest
