CONSTANTS
  u1 = u1
  u2 = u2
  h1 = h1
  h2 = h2
  w1 = w1
  w2 = w2
  Urls = {u1, u2}
  None = None
  Never = Never
  Readers = {h1}
  Writers = {w1, w2}
  Exps = {0, 4}
  Second = 2
  Day = 2
  GoneTtl = 2
  EdgeTtl = 1
  MaxExp = 4
  Span = 1
  Failures = TRUE
SPECIFICATION Spec
SYMMETRY RedirectSymmetry
INVARIANTS TypeOK StaleRedirectEnds NegativeCacheEnds StaleEdgeEnds DeleteInvalidates
