CONSTANTS
  c1 = c1
  c2 = c2
  g1 = g1
  g2 = g2
  g3 = g3
  n1 = n1
  n2 = n2
  n3 = n3
  k1 = k1
  k2 = k2
  k3 = k3
  Nodes = {n1, n2, n3}
  Keys = {k1, k2, k3}
  NoNode = NoNode
  Circle = 12
  Points <- SomePoints
  KeyHash <- SomeHashes
  Score <- SomeScores
  Strategies = {"ring", "rendezvous"}
  Unsendable = {}
  Checks = {c1}
  Callers = {}
  failThreshold = 2
  cbFailThreshold = 3
  MaxFlips = 4
SPECIFICATION FairSpec
INVARIANT LookupFindsNodes
PROPERTIES FailsOverToReplica RingSettles
