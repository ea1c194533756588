\* Two workers started at any time: what a start reclaims.
SPECIFICATION Spec
CONSTANTS
  j1 = j1 j2 = j2 j3 = j3 w1 = w1 w2 = w2 c1 = c1 c2 = c2 k1 = k1 n1 = n1 n2 = n2
  noKey = noKey none = none
  NoKey = noKey
  None = none
  SafeNames <- OneName
  AttemptsCap = 2
  Jobs <- OneJob
  Names <- OneName
  Keys <- NoKeys
  RequestedMax <- RequestedTwo
  Workers <- TwoWorkers
  Callers <- OneCaller
  MaxStops = 1
  MaxDbErrors = 0
  ExclusiveStart = FALSE
PROPERTY ReclaimsOnlyAbandoned
CHECK_DEADLOCK FALSE
