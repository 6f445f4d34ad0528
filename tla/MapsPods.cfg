CONSTANTS
  a = a
  b = b
  g1 = g1
  g2 = g2
  g3 = g3
  None = None
  Pods = {a, b}
  Cgids = {g1, g2}
  CgOwner <- OneEach
  Pids = {}
  Vals = {1}
  CgMax = 1
  PidMax = 1
  MaxCrashes = 1
  MaxHides = 1
SPECIFICATION FairSpec
INVARIANTS CgroupEntriesAreOwn
PROPERTIES DeadEntriesSwept
