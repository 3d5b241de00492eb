CONSTANTS
  j1 = j1
  j2 = j2
  s1 = s1
  s2 = s2
  c1 = c1
  Jobs = {j1, j2}
  Schedulers = {s1, s2}
  Cancellers = {c1}
  NoJob = NoJob
  DbFails = TRUE
  MaxCrashes = 1
SPECIFICATION Spec
CHECK_DEADLOCK FALSE
SYMMETRY TaskSymmetry
INVARIANTS TypeOK AtMostOncePerScheduler CompletedIsTrue
