CONSTANTS
  t1 = t1
  t2 = t2
  t3 = t3
  p1 = p1
  p2 = p2
  g1 = g1
  None = None
  Tasks = {t1, t2}
  Cpus = {c1, c2}
  Tgids = {p1}
  Cgids = {g1}
  TgidOf <- SharedProcess2
  CgidOf <- FirstInCgroup2
  ParamSet <- TwoParams
  Half = 16
  DEFAULT_SLICE = 2
  MAX_PRIO_WEIGHT = 2
  DEFAULT_WEIGHT = 1
  SLICE_DFL = 3
  Sleepers = {t1}
  Forkers = {t2}
  StatMod = 1
  Horizon = 3
SPECIFICATION Spec
SYMMETRY CpuSymmetry
INVARIANTS TypeOK UsableSlice NoTaskFarAhead ClockInv
PROPERTIES NeverRewound  
