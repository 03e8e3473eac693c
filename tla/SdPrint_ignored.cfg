SPECIFICATION FairSpec
CONSTANTS
  Mappings <- Straight
  Bodies <- OneChange
  Modes <- WithoutIfs
  BootIfs <- Off
  MaxOps = 1
  MaxLosses = 0
  MaxFails = 0
PROPERTIES ToolChangeEnds
CHECK_DEADLOCK FALSE
