CONSTANTS
  x = x
  y = y
  None = None
  Policies = {x, y}
  Specs <- TwoSpecs
  Objs <- TwoPods
  Word = 65536
  NsPerUs = 1000
  Uids = {1, 2}
  PodNames = {"a", "b"}
  Modes = {"informer", "poll"}
  HasDynClient = FALSE
  MaxWrites = 1
  MaxCalls = 0
SPECIFICATION SpecAll
INVARIANTS MergeInv ResolvedAsDocumented CacheFollowsStore  GoneDropped
 
CHECK_DEADLOCK FALSE
