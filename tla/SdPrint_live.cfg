SPECIFICATION FairSpec
CONSTANTS
  Mappings <- Straight
  Bodies <- TwoTools
  Modes <- Both
  BootIfs <- On
  MaxOps = 3
  MaxLosses = 0
  MaxFails = 1
PROPERTIES PauseReturns ToolChangeEnds
CHECK_DEADLOCK FALSE
