CONSTANTS
  x = x
  y = y
  None = None
  Policies = {x, y}
  Specs <- OneSpec
  Objs <- TwoObjs
  Word = 65536
  NsPerUs = 1000
  Uids = {1, 2}
  Modes = {"informer", "poll"}
  HasDynClient = TRUE
  MaxWrites = 1
  MaxCalls = 2
SPECIFICATION FairSpec
INVARIANTS TypeOK TrackedAsMatched GhostsAreSingle
PROPERTIES StatusConverges
CHECK_DEADLOCK FALSE
