SPECIFICATION Spec
CONSTANTS
  Tasks = {g, auto}
  g = g
  auto = auto
  Ports = {1}
  Retries = 2
  MaxCalls = 1
  MaxRods = 1
  Kinds = {"late"}
  MaxFaults = 1
VIEW WithoutGhost
SYMMETRY TaskSymmetry
INVARIANTS OwnMoveOver RodReleased
CHECK_DEADLOCK FALSE
