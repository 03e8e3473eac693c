SPECIFICATION FairSpec
CONSTANTS
  MaxConsole = 1
  MaxFaults = 1
  MaxEvents = 1
  MaxCycles = 1
INVARIANTS TypeOK SensorKept NoBlindPrint
PROPERTIES RearmedByChange
CHECK_DEADLOCK FALSE
