SPECIFICATION FairSpec
CONSTANTS
    Schemas <- MCSchemas
    KeySchemas <- MCKeySchemas
    Texts <- MCTexts
    Paths <- MCPaths
    MaxRecursionDepth = 4
    None = None
INVARIANTS
    AcceptedAlwaysThere
    ReadAsGenerated
    KeyReadAsGenerated
PROPERTY DescentEnds
CHECK_DEADLOCK FALSE
