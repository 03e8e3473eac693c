SPECIFICATION Spec
CONSTANTS
  Tasks = {g, auto}
  g = g
  auto = auto
  Cmds = {"F13", "F112", "F18"}
  TimeoutRounds = 2
  MaxId = 2
  MaxFaults = 1
  MaxExtra = 1
  MaxCrash = 0
VIEW WithoutSwitch
SYMMETRY TaskSymmetry
INVARIANTS TypeOK OwnAnswer ResendsNeedFaults OwnAnswerAll TimeoutMeansFault
PROPERTIES ExecutionOrder NoReplay CallbackTellsIfs ImplementsChannel
CHECK_DEADLOCK FALSE
