SPECIFICATION Spec
CONSTANTS
  Conversions = {c1, c2}
  Workers = {w1, w2}
  Cancels = {q1}
  Admins = {a1, a2}
  Scheduled = Scheduled
  None = None
SYMMETRY Interchangeable
INVARIANT ConvertedOnce
CHECK_DEADLOCK FALSE
