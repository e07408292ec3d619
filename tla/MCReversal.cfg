SPECIFICATION Spec
CONSTANTS
  Amount = 2
  Reasons = {w1}
  Calls = {c1, c2}
  Workers = {j1}
  Refunds = {r1, r2}
  Disputes = {d1}
  MaxAttempts = 1
  MaxMishaps = 1
  Dashboard = Dashboard
  None = None
INVARIANTS TypeOK CompletedIsRefunded SentIsRecorded
PROPERTIES NewBookingsFit Promise
SYMMETRY ReversalSymmetry
CHECK_DEADLOCK FALSE
