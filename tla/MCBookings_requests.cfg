\* Two bookings, two requests in flight, four in all.
SPECIFICATION FairSpec
CONSTANTS
  b1 = b1 b2 = b2 q1 = q1 q2 = q2 r1 = r1 r2 = r2 none = none
  Bookings = {b1, b2}
  Resources = {r1, r2}
  Spans <- Meeting
  Day = 2
  Requests = {q1, q2}
  MaxRequests = 4
  None = none
INVARIANTS NoDoubleBooking
\* The bound on requests ends every behaviour.
CHECK_DEADLOCK FALSE
