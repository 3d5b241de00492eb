CONSTANTS
  k1 = k1
  k2 = k2
  k3 = k3
  k4 = k4
  r1 = r1
  r2 = r2
  Keys = {k1, k2, k3, k4}
  Readers = {r1, r2}
  NoKey = NoKey
  Capacity = 3
  MaxFreq = 3
SPECIFICATION Spec
SYMMETRY KeySymmetry
INVARIANTS MapsAgree CapacityHeld MinFreqWhenFull
PROPERTY ImplementsPolicy
