CONSTANTS
  t1 = t1
  t2 = t2
  t3 = t3
  p1 = p1
  p2 = p2
  g1 = g1
  None = None
  Tasks = {t1, t2, t3}
  Cpus = {1}
  Tgids = {p1, p2}
  Cgids = {}
  TgidOf <- OneProcessEach3
  CgidOf <- NoCgroup3
  ParamSet <- HeavyOnly
  Half = 8
  DEFAULT_SLICE = 1
  MAX_PRIO_WEIGHT = 2
  DEFAULT_WEIGHT = 1
  SLICE_DFL = 2
  Sleepers = {}
  Forkers = {}
  StatMod = 1
  Horizon = 1000
SPECIFICATION FairSpec
PROPERTIES EverythingEventuallyRuns NeverRewound
