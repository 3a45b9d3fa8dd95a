SPECIFICATION FairEdgeSpec
CONSTANTS
  Counts <- MCCounts
  RecordBound = 2
INVARIANTS
  CutShortExits130
  SuccessIsComplete
PROPERTIES
  KeepsOutcome
  InterruptExits
