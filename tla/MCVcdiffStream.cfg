SPECIFICATION StreamSpec
CONSTANTS
    Retained = TRUE
    MaxAccepted = 4
    MaxChunk = 4
    MaxWrite = 2
    MinWindow = 2
    WriteHWM = 2
    ReadHWM = 1
    MaxQueue = 2
    MaxFlushes = 1
CHECK_DEADLOCK FALSE
INVARIANTS
    StreamTypeOK
    InOrder
    EndMeansAll
    FlushDelivers
    ForceFlushEnds
    StreamInv
PROPERTY
    ImplementsCtx
