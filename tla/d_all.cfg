CONSTANTS
  c1 = c1
  c2 = c2
  k1 = k1
  k2 = k2
  w1 = w1
  w2 = w2
  Calls = {c1}
  Keys = {k1}
  Workers = {w1, w2}
  NoNid = NoNid
  Targets <- SameKey
  Fanout = {}
  Critical = {c1}
  BatchSize = 1
  MaxRetries = 2
  DlqCount = 1
  Faults = {"api", "admin", "redis", "slow", "timeout", "expiry"}
  MaxCrashes = 1
  MaxDlqRuns = 1
  MaxAges = 2
  SendCap = 1
SPECIFICATION Spec
SYMMETRY WorkerSymmetry
INVARIANT SentIsTrue
