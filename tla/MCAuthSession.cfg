SPECIFICATION Spec
CONSTANTS
  Requests = {q1, q2, q3}
  Ids = {s1, s2, s3, s4}
  Resets = {t1, t2}
  Handoffs = {h1}
  None = None
SYMMETRY Interchangeable
CHECK_DEADLOCK FALSE
INVARIANTS TypeOK ReuseKillsWinner OneSessionPerHandoff ResetOnce
PROPERTIES KeepsFamilies
