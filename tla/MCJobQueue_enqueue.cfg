\* Two transactions that enqueue under one key while a worker drains the queue.
SPECIFICATION Spec
CONSTANTS
  j1 = j1 j2 = j2 j3 = j3 w1 = w1 w2 = w2 c1 = c1 c2 = c2 k1 = k1 n1 = n1 n2 = n2
  noKey = noKey none = none
  NoKey = noKey
  None = none
  SafeNames <- OneName
  AttemptsCap = 2
  Jobs <- ThreeJobs
  Names <- TwoNames
  Keys <- OneKey
  RequestedMax <- RequestedOne
  Workers <- OneWorker
  Callers <- TwoCallers
  MaxStops = 0
  MaxDbErrors = 0
  ExclusiveStart = TRUE
SYMMETRY Symmetry
INVARIANTS KeyUnique
\* The rows run out: once every job has settled the loop only polls.
CHECK_DEADLOCK FALSE
