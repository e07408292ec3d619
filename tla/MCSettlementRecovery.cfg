SPECIFICATION FairSpec
CONSTANTS
  Checkouts = {k1, k2}
  SavedPays = {p1}
  Sessions = {s1, s2}
  Intents = {i1, i2}
  KeysExpire = FALSE
  EventsLost = TRUE
  PerRun = 1
  Others = 1
  None = None
CHECK_DEADLOCK FALSE
INVARIANT ChargedOnceEachWay
PROPERTY CheckoutRecovered
