SPECIFICATION UnionSpec
CONSTANTS
    A = A
    B = B
    S = S
    T = T
    r1 = r1
    r2 = r2
    Value = Value
    Key = Key
    Names <- MCNames
    Runs <- MCRuns
    Plans <- MCPlans
    Compositions <- MCCompositions
    Attended <- MCAttended
    ForeignBound = 1
    DeleteBound = 1
SYMMETRY Twins
INVARIANTS
    OrderedByNeed
    CycleRefusedExactly
    ReferencesExact
    ReferencesSound
    RefusedOnlyAfterDelete
PROPERTY
    RerunAddsNothing
CHECK_DEADLOCK FALSE
