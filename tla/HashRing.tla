------------------------------ MODULE HashRing ------------------------------
(***************************************************************************)
(* The router's consistent hash ring (go_router/ring.go).  The sorted      *)
(* slice of positions may hold a position more than once, and is the bag   *)
(* `ring` here; ringMap gives a position its node, and is NoNode where the *)
(* map has no entry (the lookup then yields the empty string).             *)
(***************************************************************************)
EXTENDS Integers, FiniteSets

CONSTANTS
  Nodes,     \* cache nodes
  NoNode,    \* "", what a missing ringMap entry reads as
  Circle,    \* positions and key hashes are 0 .. Circle - 1
  Points,    \* ringHash("node:i") for the VIRTUAL_NODES of each node
  Keys,      \* cache keys
  KeyHash,   \* ringHash(key)
  Score,     \* ringHash("node:key"), of the rendezvous strategy
  Strategies \* HASH_STRATEGY is one of them

\* Hashes are 64 bits of MD5: no two virtual nodes share a position, and no
\* two nodes have the same score for a key.
ASSUME RingAssumption ==
  /\ IsFiniteSet(Nodes)
  /\ NoNode \notin Nodes
  /\ Circle \in Nat \ {0}
  /\ Points \in [Nodes -> SUBSET (0 .. Circle - 1)]
  /\ \A n \in Nodes : Points[n] # {}
  /\ \A m, n \in Nodes : m # n => Points[m] \cap Points[n] = {}
  /\ KeyHash \in [Keys -> 0 .. Circle - 1]
  /\ Score \in [Keys -> [Nodes -> Nat]]
  /\ \A m, n \in Nodes, k \in Keys : m # n => Score[k][m] # Score[k][n]
  /\ Strategies \subseteq {"ring", "rendezvous"}

Positions == UNION {Points[n] : n \in Nodes}

\* addNode inserts every position of the node again when it is there already.
addNode(r, n) ==
  [ring    |-> [p \in Positions |-> IF p \in Points[n] THEN r.ring[p] + 1 ELSE r.ring[p]],
   ringMap |-> [p \in Positions |-> IF p \in Points[n] THEN n ELSE r.ringMap[p]],
   nodes   |-> r.nodes \cup {n},
   strat   |-> r.strat]

\* Mutant of removeNode: the map entries are deleted, the positions stay.
removeFromMapOnly(r, n) ==
  [ring    |-> r.ring,
   ringMap |-> [p \in Positions |-> IF p \in Points[n] THEN NoNode ELSE r.ringMap[p]],
   nodes   |-> r.nodes \ {n},
   strat   |-> r.strat]

\* Mutant of removeNode: the positions go, and the map keeps naming the node.
removeFromRingOnly(r, n) ==
  [ring    |-> [p \in Positions |->
                  IF p \in Points[n] /\ r.ring[p] > 0 THEN r.ring[p] - 1 ELSE r.ring[p]],
   ringMap |-> r.ringMap,
   nodes   |-> r.nodes \ {n},
   strat   |-> r.strat]

\* removeNode takes out one copy of each position, and the whole map entry.
removeNode(r, n) ==
  [ring    |-> [p \in Positions |->
                  IF p \in Points[n] /\ r.ring[p] > 0 THEN r.ring[p] - 1 ELSE r.ring[p]],
   ringMap |-> [p \in Positions |-> IF p \in Points[n] THEN NoNode ELSE r.ringMap[p]],
   nodes   |-> r.nodes \ {n},
   strat   |-> r.strat]

\* newHashRing, and addNode for every node.
FullRing(strat) ==
  [ring    |-> [p \in Positions |-> 1],
   ringMap |-> [p \in Positions |-> CHOOSE n \in Nodes : p \in Points[n]],
   nodes   |-> Nodes,
   strat   |-> strat]

-----------------------------------------------------------------------------
OnRing(r) == {p \in Positions : r.ring[p] > 0}

\* Clockwise distance to the first position behind the key: its own is last.
Gap(k, p) == IF p > KeyHash[k] THEN p - KeyHash[k] ELSE p - KeyHash[k] + Circle

First(k, S) == CHOOSE p \in S : \A q \in S : Gap(k, p) <= Gap(k, q)
Best(k, S)  == CHOOSE m \in S : \A n \in S : Score[k][m] >= Score[k][n]

\* The owner of the key's first position, and of the next one that is another's.
Primary(r, k) ==
  IF r.strat = "rendezvous" THEN Best(k, r.nodes) ELSE r.ringMap[First(k, OnRing(r))]

\* Mutant of Replica: the next position, whosever it is.
ReplicaAtNextPosition(r, k) ==
  IF r.strat = "rendezvous" THEN Best(k, r.nodes)
  ELSE r.ringMap[First(k, OnRing(r) \ {First(k, OnRing(r))})]

Replica(r, k) ==
  IF r.strat = "rendezvous" THEN Best(k, r.nodes \ {Primary(r, k)})
  ELSE r.ringMap[First(k, {p \in OnRing(r) : r.ringMap[p] # Primary(r, k)})]

\* nodesForKey(key, 2); the walk stops at as many owners as there are nodes.
nodesForKey(r, k) ==
  IF r.nodes = {} THEN <<>>
  ELSE IF Cardinality(r.nodes) = 1 THEN <<Primary(r, k)>>
  ELSE <<Primary(r, k), Replica(r, k)>>
=============================================================================
