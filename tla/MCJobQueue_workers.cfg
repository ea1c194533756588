\* Two workers that start one after the other, crash, are told to stop and lose a
\* statement, over jobs with and without a worker-safe handler.
SPECIFICATION FairSpec
CONSTANTS
  j1 = j1 j2 = j2 j3 = j3 w1 = w1 w2 = w2 c1 = c1 c2 = c2 k1 = k1 n1 = n1 n2 = n2
  noKey = noKey none = none
  NoKey = noKey
  None = none
  SafeNames <- OneName
  AttemptsCap = 2
  Jobs <- TwoJobs
  Names <- TwoNames
  Keys <- NoKeys
  RequestedMax <- Requested
  Workers <- TwoWorkers
  Callers <- OneCaller
  MaxStops = 1
  MaxDbErrors = 1
  ExclusiveStart = TRUE
INVARIANTS OneRunner
PROPERTIES ImplementsContract EventuallySettled
\* The rows run out: once every job has settled the loops only poll.
CHECK_DEADLOCK FALSE
