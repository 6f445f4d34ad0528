CONSTANTS
  Agents = {1, 2, 3}
  MayForeign = TRUE
  Failing = {3}
  MayCrash = TRUE
  MaxEjects = 1
  Foreign = Foreign
  None = None
SPECIFICATION FairSpec
INVARIANTS MapsMissedIffRaced ReadyUntilEjected
PROPERTIES RestartTakesOver WaitEnds ForeignRespected
CHECK_DEADLOCK FALSE
