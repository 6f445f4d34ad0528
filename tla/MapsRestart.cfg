CONSTANTS
  a = a
  b = b
  g1 = g1
  g2 = g2
  g3 = g3
  None = None
  Pods = {a}
  Cgids = {g1, g2}
  CgOwner <- BothOfA
  Pids = {1}
  Vals = {1, 2}
  CgMax = 1
  PidMax = 1
  MaxCrashes = 1
  MaxHides = 1
SPECIFICATION Spec
INVARIANTS TypeOK LiveEntriesTracked RemovedClean  JobCovers
PROPERTIES SweepSparesListed
