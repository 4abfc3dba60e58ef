SPECIFICATION PoolsSpec
CONSTANTS
  Thread = {a, b}
  Handle = {h1, h2, h3}
  None = None
  HardwareConcurrency = 1
  MaxConcurrency = 2
  MaxConfigs = 1
  CloseSeparately = FALSE
  Setter = {s1, s2}
  OwnOrders = {1, 3}
  MaxCalls = 3
  Object = {o1, o2, o3}
  p1 = p1
  p2 = p2
  Path <- TwoPaths
  Pool <- ThreePools
  PathOf <- PathOfPool
  Tag = {t1}
  NoPool = NoPool
  NoTag = NoTag
  MaxCopies = 2
  Base <- TwoPaths
  Delay = 2
  MaxLag = 1
INVARIANTS
  NoLostWakeup
  ClosedIsExclusive
  CountIsAlive
  OneUser
  SmallNumbersInFront
  FullIsFull
  TableFollowsObjects
PROPERTIES
  WriterGetsIn
  RestedIsCheckpointed
