CONSTANTS
  j1 = j1
  j2 = j2
  s1 = s1
  s2 = s2
  c1 = c1
  Jobs = {j1, j2}
  Schedulers = {s1}
  Cancellers = {c1}
  NoJob = NoJob
  DbFails = FALSE
  MaxCrashes = 0
SPECIFICATION FairSpec
CHECK_DEADLOCK FALSE
INVARIANT QueuedIsHeld
PROPERTIES CancelHolds EventuallyHandled
