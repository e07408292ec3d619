SPECIFICATION Spec
CONSTANTS
  Calls = {c1, c2, c3}
  Procs = {p1, p2}
  Admins = {a1, a2}
  Supers = {a1}
  Resources = {r1, r2}
  Keys = {k1}
  None = None
CHECK_DEADLOCK FALSE
INVARIANTS TypeOK AnswersFromRuns
PROPERTIES EffectOnce KeepsRoster
SYMMETRY Interchangeable
