\* One execution over two published versions, two runs at a time, retries, waits,
\* a disabled definition, a restart or a redelivery.
SPECIFICATION FairSpec
CONSTANTS
  Programs <- TwoVersions
  Runners = {r1, r2}
  MaxAttempts = 2
  MaxFaults = 1
  MaxSwitches = 1
\* The system stops when the execution has ended and its jobs are settled.
CHECK_DEADLOCK FALSE
INVARIANTS
  OneHolder
  StepsInOrder
  
PROPERTIES
  EventuallyEnds
