SPECIFICATION FairSpec
CONSTANTS
    Documents <- MCDocuments
    Paths <- MCPaths
    Names = {"a", "0", "1"}
    IndexOf <- MCIndexOf
    MaxRecursionDepth = 2
    Merged <- MCMerged
    None = None
INVARIANTS AcceptedAlwaysThere MergeIsMeet
PROPERTY ReadingsEnd
CHECK_DEADLOCK FALSE
