\* Two concurrent dispatchers, batches smaller than the backlog, one fault.
SPECIFICATION FairSpec
CONSTANTS
  Events = {1, 2, 3}
  Handlers = {realtime, notify}
  Realtime = realtime
  Dispatchers = {serve, worker}
  Serving = {serve}
  MaxBatch = 2
  MaxFaults = 1
\* Events are finite: the system stops when all are published.
CHECK_DEADLOCK FALSE
INVARIANTS
  EveryHandlerCalled
  DuplicatesOnlyFromFaults
PROPERTIES
  EventuallyPublished
