CONSTANTS
  Callers = {p1, p2, p3}
  Exprs = {e1, e2, e3, bad}
  Bad = {bad}
  Capacity = 2
  MaxClock = 5
  Error = Error
  None = None
SPECIFICATION FairSpec
INVARIANTS ClockInv CacheBounded OwnProgram CompilesShared OnlyCompiledCached HitsHeld VictimUnique
PROPERTIES EveryCallReturns
