CONSTANTS
  c1 = c1
  c2 = c2
  k1 = k1
  k2 = k2
  w1 = w1
  w2 = w2
  Calls = {c1}
  Keys = {k1, k2}
  Workers = {w1, w2}
  NoNid = NoNid
  Targets <- OneFanout
  Fanout = {c1}
  Critical = {c1}
  BatchSize = 2
  MaxRetries = 1
  DlqCount = 2
  Faults = {"api"}
  MaxCrashes = 1
  MaxDlqRuns = 1
  MaxAges = 2
  SendCap = 1
SPECIFICATION Spec
SYMMETRY WorkerSymmetry
INVARIANTS TypeOK NothingLost OneProcessor FailedIsRetriable
PROPERTY ImplementsContract
