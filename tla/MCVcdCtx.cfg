SPECIFICATION FairSpec
CONSTANTS
    Retained = TRUE
    MaxAccepted = 4
    MaxChunk = 2
CHECK_DEADLOCK FALSE
INVARIANTS
    TypeOK
    IInv
    NoAbort
    PoolInputsOutliveJob
    Conservation
    FinishedMeansDelivered
    SessionOpen
PROPERTIES
    SilentAfterError
    WriteAnswered
    CloseReleases
    ImplementsPipe
