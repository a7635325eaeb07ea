SPECIFICATION Spec
CONSTANTS
    Buffers = {b1}
    Dictionaries = {d1}
    Engines = {e1}
    None = None
CHECK_DEADLOCK FALSE
INVARIANT
    KeptForExistence
