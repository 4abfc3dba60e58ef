SPECIFICATION WalSpec
CONSTANTS
  a = a
  b = b
  p = p
  q = q
  None = None
  Torn = Torn
  Connection = {a, b}
  Page = {p, q}
  NReader = 2
  MaxFrame = 3
  MaxTransactions = 3
  MaxCrashes = 0
INVARIANT
  BackfillWithinLog
SYMMETRY Symmetry
