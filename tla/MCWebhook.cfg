SPECIFICATION FairSpec
CONSTANTS
  Events = {e1, i1}
  Managed = {i1}
  Deliveries = {d1, d2}
  Steps = 2
  None = None
INVARIANTS AckedMeansApplied OneLiveHandler
PROPERTIES ProcessedIsFinal EventAcknowledged
