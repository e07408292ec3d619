SPECIFICATION FairSpec
CONSTANTS
  Conversions = {c1}
  Workers = {w1, w2, w3}
  Cancels = {q1}
  Admins = {a1, a2}
  Scheduled = Scheduled
  None = None
INVARIANTS WorkerOwnsRow ForcedOnce ExecutedExplained
PROPERTY DueIsTaken
CHECK_DEADLOCK FALSE
