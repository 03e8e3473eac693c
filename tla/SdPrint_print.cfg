SPECIFICATION Spec
CONSTANTS
  Mappings <- Straight
  Bodies <- ForthAndPausing
  Modes <- Both
  BootIfs <- OnOff
  MaxOps = 3
  MaxLosses = 1
  MaxFails = 1
INVARIANTS TypeOK RightSpool EachLineOnce
PROPERTIES NoDispatchWhilePaused CancelStays ImplementsJob
CHECK_DEADLOCK FALSE
