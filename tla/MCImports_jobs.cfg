SPECIFICATION FairSpec
CONSTANTS
  Last = 3
  Keys = {"a", "b"}
  KeyOf <- FileKeys
  Bad = {2}
  Options <- SomeOptions
  Stocks <- SomeStocks
  Batch = 2
  MaxAttempts = 2
  Workers = {w1, w2}
  Callers = {u1}
  MaxRetries = 1
  MaxFaults = 1
\* One import: the system stops when it has ended and nothing more is asked.
CHECK_DEADLOCK FALSE
INVARIANTS
  CompletedMeansAll
  RowsLandOnce
  CancelStops
PROPERTIES
  EventuallyEnds
