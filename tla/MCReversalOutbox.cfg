SPECIFICATION Spec
CONSTANTS
  Amount = 1
  Reasons = {w1}
  Calls = {c1, c2}
  Workers = {j1}
  Refunds = {r1}
  Disputes = {}
  MaxAttempts = 2
  MaxMishaps = 2
  Dashboard = Dashboard
  None = None
PROPERTIES RowsEnd
CHECK_DEADLOCK FALSE
