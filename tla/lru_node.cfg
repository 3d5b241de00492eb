CONSTANTS
  k1 = k1
  k2 = k2
  k3 = k3
  v1 = v1
  v2 = v2
  t1 = t1
  t2 = t2
  Keys = {k1, k2, k3}
  Values = {v1, v2}
  Capacity = 2
  Threads = {t1, t2}
  Nodes = {1, 2, 3}
  Writes <- SomeWrites
  None = None
SPECIFICATION Spec
SYMMETRY LruSymmetry
INVARIANTS TypeOK FreshReads DictAndListAgree
PROPERTY ImplementsPolicy
