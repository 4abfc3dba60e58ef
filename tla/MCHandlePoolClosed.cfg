SPECIFICATION PoolSpec
CONSTANTS
  a = a
  b = b
  h1 = h1
  h2 = h2
  h3 = h3
  Thread = {a, b}
  Handle = {h1, h2, h3}
  None = None
  HardwareConcurrency = 1
  MaxConcurrency = 2
  MaxConfigs = 1
  CloseSeparately = FALSE
INVARIANT ClosedIsClosed
