CONSTANTS
  c1 = c1
  c2 = c2
  g1 = g1
  g2 = g2
  g3 = g3
  n1 = n1
  n2 = n2
  n3 = n3
  k1 = k1
  k2 = k2
  k3 = k3
  Nodes = {n1, n2}
  Keys = {k1, k3}
  NoNode = NoNode
  Circle = 12
  Points <- SomePoints
  KeyHash <- SomeHashes
  Score <- SomeScores
  Strategies = {"ring"}
  Unsendable = {k3}
  Checks = {c1, c2}
  Callers = {g1, g2}
  failThreshold = 1
  cbFailThreshold = 1
  MaxFlips = 1
SPECIFICATION CallsEndOverlapAtN1
INVARIANTS RingFollowsHealth OneTrial WalkEnds
PROPERTY TrialResolves
