SPECIFICATION WalSpec
CONSTANTS
  a = a
  b = b
  p = p
  q = q
  None = None
  Torn = Torn
  Connection = {a, b}
  Page = {p, q}
  NReader = 2
  MaxFrame = 3
  MaxTransactions = 2
  MaxCrashes = 1
INVARIANT
  CopiesNothingNewer
PROPERTY
  ImplementsStore
SYMMETRY Symmetry
