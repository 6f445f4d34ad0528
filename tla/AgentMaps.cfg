CONSTANTS
  Agents = {1, 2}
  MayForeign = FALSE
  Failing = {}
  MayCrash = FALSE
  MaxEjects = 0
  Foreign = Foreign
  None = None
SPECIFICATION Spec
INVARIANTS MapsAgree
CHECK_DEADLOCK FALSE
