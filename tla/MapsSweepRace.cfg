CONSTANTS
  a = a
  b = b
  g1 = g1
  g2 = g2
  g3 = g3
  None = None
  Pods = {a, b}
  Cgids = {g1, g2, g3}
  CgOwner <- TwoAndOne
  Pids = {}
  Vals = {1}
  CgMax = 2
  PidMax = 1
  MaxCrashes = 0
  MaxHides = 0
SPECIFICATION Spec
PROPERTIES SweepRemovesOnlyStale
