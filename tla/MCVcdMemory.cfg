SPECIFICATION Spec
CONSTANTS
    Buffers = {b1, b2}
    Dictionaries = {d1, d2}
    Engines = {e1, e2}
    None = None
SYMMETRY Symmetry
CHECK_DEADLOCK FALSE
INVARIANTS
    DictionaryOutlivesCoder
    InputOutlivesWork
    ChunksAreReleased
    MemoryInv
