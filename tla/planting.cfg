SPECIFICATION Spec
CONSTANTS
    Runs <- MCRuns
    Malformed = Malformed
    KeyValue = KeyValue
    Generated = Generated
    None = None
INVARIANTS EveryPlantingStands NeverMisses RefusedRightly
CHECK_DEADLOCK FALSE
