SPECIFICATION Spec
CONSTANTS
  Amount = 2
  Reasons = {w1}
  Calls = {c1}
  Workers = {j1}
  Refunds = {r1}
  Disputes = {}
  MaxAttempts = 2
  MaxMishaps = 0
  Dashboard = Dashboard
  None = None
INVARIANTS ReversedOncePerRefund
CHECK_DEADLOCK FALSE
