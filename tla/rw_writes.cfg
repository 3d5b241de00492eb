CONSTANTS
  n1 = n1
  n2 = n2
  w1 = w1
  d1 = d1
  r1 = r1
  w0 = w0
  Preference <- TwoNodes
  Writers = {w1, d1}
  Deleters = {d1}
  Readers = {r1}
  Modes = {"none", "parallel", "store_first", "cache_first"}
  Strategies = {"direct", "periodic"}
  MaxFlips = 2
  MaxFaults = 1
  Before = w0
  Store = Store
  None = None
SPECIFICATION SpecOneStrategyEach
INVARIANTS TypeOK CopiesAreCurrent LocalIsCurrent
