SPECIFICATION Spec
CONSTANTS
    Schemas <- ListSchemas
    KeySchemas = {}
    Texts = {}
    Paths = {}
    MaxRecursionDepth = 32
    None = None
INVARIANT EscapeEndsRecursion
CHECK_DEADLOCK FALSE
