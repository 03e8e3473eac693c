SPECIFICATION Spec
CONSTANTS
  Tasks = {g}
  g = g
  TimeoutRounds = 2
  Prompt = TRUE
  MaxId = 3
  MaxFaults = 0
INVARIANTS OwnAnswer
CHECK_DEADLOCK FALSE
