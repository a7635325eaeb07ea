SPECIFICATION Spec
CONSTANTS
    Retained = FALSE
    MaxAccepted = 2
    MaxChunk = 1
CHECK_DEADLOCK FALSE
INVARIANT
    ProcessFindsCoder
