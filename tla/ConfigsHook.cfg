SPECIFICATION ConfigsSpec
CONSTANTS
  Setter = {s1, s2}
  OwnOrders = {1, 3}
  MaxCalls = 4
INVARIANT
  FullHasNoHook
