CONSTANTS
  c1 = c1
  c2 = c2
  k1 = k1
  k2 = k2
  w1 = w1
  w2 = w2
  Calls = {c1, c2}
  Keys = {k1}
  Workers = {w1, w2}
  NoNid = NoNid
  Targets <- SameKey
  Fanout = {}
  Critical = {c1}
  BatchSize = 2
  MaxRetries = 1
  DlqCount = 2
  Faults = {}
  MaxCrashes = 1
  MaxDlqRuns = 0
  MaxAges = 2
  SendCap = 1
SPECIFICATION FairSpec
PROPERTY AcceptedSettles
