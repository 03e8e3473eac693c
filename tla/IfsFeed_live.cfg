SPECIFICATION FairSpec
CONSTANTS
  Tasks = {g}
  g = g
  Ports = {1}
  Retries = 2
  MaxCalls = 1
  MaxRods = 1
  Kinds = {"late", "broken", "garbled", "gone", "bounce"}
  MaxFaults = 1
INVARIANTS TypeOK
PROPERTIES CallEnds RodAnnounced
CHECK_DEADLOCK FALSE
