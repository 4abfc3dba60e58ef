SPECIFICATION TableSpec
CONSTANTS
  Object = {o1, o2, o3}
  p1 = p1
  Path <- OnePath
  Pool <- TwoPools
  PathOf <- PathOfPool
  Tag = {t1}
  NoPool = NoPool
  NoTag = NoTag
  MaxCopies = 1
INVARIANT
  SharedCore
CHECK_DEADLOCK FALSE
