SPECIFICATION ShotSpec
CONSTANTS
    Retained = FALSE
    MaxAccepted = 4
    MaxChunk = 4
    MaxWrite = 4
    MinWindow = 2
    WriteHWM = 2
    ReadHWM = 1
    MaxQueue = 1
    MaxFlushes = 0
CHECK_DEADLOCK FALSE
INVARIANTS
    AnsweredOnce
    ResultIsWhole
    BufferIsFree
    CloseHasHandle
    ShotInv
PROPERTY
    CallbackComes
