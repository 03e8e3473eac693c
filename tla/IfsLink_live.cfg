SPECIFICATION FairSpec
CONSTANTS
  Tasks = {g, auto}
  g = g
  auto = auto
  Cmds = {"F13", "F112", "F18"}
  TimeoutRounds = 2
  MaxId = 2
  MaxFaults = 0
  MaxExtra = 0
  MaxCrash = 1
PROPERTIES WaitEnds ReaderStops
CHECK_DEADLOCK FALSE
