\* Two records, two requests in flight, five in all, both ways to number.
SPECIFICATION FairSpec
CONSTANTS
  Records = {a, b}
  Requests = {q1, q2}
  draft = draft submitted = submitted cancelled = cancelled
  States = {draft, submitted, cancelled}
  Initial = draft
  Cancelled = cancelled
  Edges <- DocumentEdges
  LockStates = {submitted}
  MaxRequests = 5
  None = none
\* The bound on requests ends every behaviour.
CHECK_DEADLOCK FALSE
INVARIANTS
  NumbersGapless
PROPERTIES
  LockedUnlessRaced
  EveryRequestReturns
