SPECIFICATION FairSpec
CONSTANTS
  Sessions = {s1, s2}
  Starts = {q1, q2}
  Decisions = {d1}
  MaxEvents = 2
  None = None
CHECK_DEADLOCK FALSE
INVARIANT HandedIsHis
PROPERTIES DecisionsAreInformed VerifiedCounts
