SPECIFICATION AnsweredSpec
CONSTANTS
  Counts <- MCCounts
  RecordBound = 4
INVARIANTS
  StatsBalance
  AckedDelivered
  OneUncounted
  CountHonoured
PROPERTIES
  StopsAtFailure
  FiniteReturns
