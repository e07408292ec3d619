SPECIFICATION Spec
CONSTANTS
  Checkouts = {k1, k2}
  SavedPays = {p1}
  Sessions = {s1, s2}
  Intents = {i1}
  KeysExpire = TRUE
  EventsLost = TRUE
  PerRun = 1
  Others = 0
  None = None
INVARIANTS TypeOK SettledWhole NeverWaitsAgain
PROPERTIES Promise
SYMMETRY CallSymmetry
CHECK_DEADLOCK FALSE
