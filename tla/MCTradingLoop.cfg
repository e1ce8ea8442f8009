SPECIFICATION Spec
CONSTANTS
  s1 = s1
  s2 = s2
  Symbols = {s1, s2}
  MaxOrders = 4
  MaxFaults = 1
SYMMETRY Symmetric
INVARIANT FlatAtClose
PROPERTY LedgerCatchesUp
