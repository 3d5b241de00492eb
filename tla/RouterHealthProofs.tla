------------------------ MODULE RouterHealthProofs ------------------------
(***************************************************************************)
(* Proofs about RouterHealth, for any number of checks of a node that      *)
(* overlap: the walk over the ring ends; a half-open breaker has at most   *)
(* one call in flight; and, as long as no check decides before an earlier  *)
(* decision has reached the ring, the ring follows the health state,       *)
(* lookups return its members, and replicas take over.                     *)
(***************************************************************************)
EXTENDS RouterHealth, FiniteSetTheorems, WellFoundedInduction, TLAPS

-----------------------------------------------------------------------------
(* The ring.                                                               *)

RingOK == ring \in [ring : [Positions -> Nat], ringMap : [Positions -> Nodes \cup {NoNode}],
                    nodes : SUBSET Nodes, strat : Strategies]

(* A position belongs to one node: hashes do not collide.                  *)
LEMMA OneOwner ==
  ASSUME NEW m \in Nodes, NEW n \in Nodes, NEW p \in Points[m], p \in Points[n]
  PROVE  m = n
BY RingAssumption

LEMMA PointsArePositions ==
  ASSUME NEW n \in Nodes
  PROVE  Points[n] \subseteq Positions
BY DEF Positions

LEMMA FullRingOK ==
  ASSUME NEW strat \in Strategies, ring = FullRing(strat)
  PROVE  RingOK /\ WalkEnds
<1>1. \A p \in Positions : \E n \in Nodes : p \in Points[n]
  BY DEF Positions
<1>2. RingOK
  BY <1>1 DEF RingOK, FullRing
<1>3. ASSUME NEW n \in Nodes, NEW p \in Points[n]
      PROVE  n \in ring.nodes /\ ring.ring[p] > 0 /\ ring.ringMap[p] = n
  <2>1. p \in Positions
    BY PointsArePositions
  <2>2. ring.ringMap[p] = (CHOOSE m \in Nodes : p \in Points[m])
    BY <2>1 DEF FullRing
  <2>3. (CHOOSE m \in Nodes : p \in Points[m]) = n
    BY OneOwner
  <2>4. QED
    BY <2>1, <2>2, <2>3 DEF FullRing
<1>4. QED
  BY <1>2, <1>3 DEF WalkEnds

LEMMA AddKeepsWalk ==
  ASSUME RingOK, WalkEnds, NEW n \in Nodes, ring' = addNode(ring, n)
  PROVE  RingOK' /\ WalkEnds'
<1>1. RingOK'
  BY DEF RingOK, addNode
<1>2. ASSUME NEW m \in Nodes, NEW p \in Points[m]
      PROVE  IF m \in ring'.nodes THEN ring'.ring[p] > 0 /\ ring'.ringMap[p] = m
                                  ELSE ring'.ringMap[p] = NoNode
  <2>1. p \in Positions
    BY PointsArePositions
  <2>2. CASE m = n
    BY <2>1, <2>2 DEF addNode, RingOK
  <2>3. CASE m # n
    <3>1. p \notin Points[n]
      BY <2>3, OneOwner
    <3>2. ring'.ring[p] = ring.ring[p] /\ ring'.ringMap[p] = ring.ringMap[p]
      BY <2>1, <3>1 DEF addNode
    <3>3. m \in ring'.nodes <=> m \in ring.nodes
      BY <2>3 DEF addNode
    <3>4. QED
      BY <3>2, <3>3 DEF WalkEnds
  <2>4. QED
    BY <2>2, <2>3
<1>3. QED
  BY <1>1, <1>2 DEF WalkEnds

LEMMA RemoveKeepsWalk ==
  ASSUME RingOK, WalkEnds, NEW n \in Nodes, ring' = removeNode(ring, n)
  PROVE  RingOK' /\ WalkEnds'
<1>1. RingOK'
  BY DEF RingOK, removeNode
<1>2. ASSUME NEW m \in Nodes, NEW p \in Points[m]
      PROVE  IF m \in ring'.nodes THEN ring'.ring[p] > 0 /\ ring'.ringMap[p] = m
                                  ELSE ring'.ringMap[p] = NoNode
  <2>1. p \in Positions
    BY PointsArePositions
  <2>2. CASE m = n
    BY <2>1, <2>2 DEF removeNode
  <2>3. CASE m # n
    <3>1. p \notin Points[n]
      BY <2>3, OneOwner
    <3>2. ring'.ring[p] = ring.ring[p] /\ ring'.ringMap[p] = ring.ringMap[p]
      BY <2>1, <3>1 DEF removeNode
    <3>3. m \in ring'.nodes <=> m \in ring.nodes
      BY <2>3 DEF removeNode
    <3>4. QED
      BY <3>2, <3>3 DEF WalkEnds
  <2>4. QED
    BY <2>2, <2>3
<1>3. QED
  BY <1>1, <1>2 DEF WalkEnds

(* Only two steps change the ring.                                         *)
LEMMA RingChanges ==
  ASSUME [Next]_vars, ring' # ring
  PROVE  \E n \in Nodes : ring' \in {addNode(ring, n), removeNode(ring, n)}
BY DEF Next, vars, CheckStep, CallStep, Probe, ProbeAlive, ProbeDead, RingAdd,
   CloseCircuit, RingRemove, CallNode, CallSucceeds, CallFails, Panic, Lookup, OpenTimeout, Flip

(* main.go and ring.go: a node of the ring has all its positions there and *)
(* the map names it, so ringNodes meets as many owners as it looks for and *)
(* ends - however many checks of a node overlap.                           *)
THEOREM WalkTerminates == Spec => []WalkEnds
<1>1. Init => RingOK /\ WalkEnds
  BY FullRingOK DEF Init
<1>2. RingOK /\ WalkEnds /\ [Next]_vars => (RingOK /\ WalkEnds)'
  <2>1. SUFFICES ASSUME RingOK, WalkEnds, [Next]_vars
                 PROVE  RingOK' /\ WalkEnds'
    OBVIOUS
  <2>2. CASE ring' = ring
    BY <2>1, <2>2 DEF RingOK, WalkEnds
  <2>3. CASE ring' # ring
    <3>1. PICK n \in Nodes : ring' \in {addNode(ring, n), removeNode(ring, n)}
      BY <2>1, <2>3, RingChanges
    <3>2. QED
      BY <2>1, <3>1, AddKeepsWalk, RemoveKeepsWalk
  <2>4. QED
    BY <2>2, <2>3
<1>3. QED
  BY <1>1, <1>2, PTL DEF Spec

-----------------------------------------------------------------------------
(* The circuit breakers.                                                   *)

CallsOK ==
  /\ cb \in [Nodes -> CB]
  /\ todo = [g \in Callers |-> todo[g]]
  /\ calling \in [Callers -> BOOLEAN]
  /\ \A g \in Callers : calling[g] => todo[g] # <<>> /\ Head(todo[g]) \in Nodes

(* Nothing but its trial is in flight to a half-open breaker's node.  The  *)
(* trial began when an open breaker's timeout had elapsed, and then        *)
(* nothing was in flight.                                                  *)
BreakerInv ==
  /\ \A n \in Nodes : cb[n].state = "half_open" => \A g, h \in InFlight(n) : g = h
  /\ \A n \in Nodes : cb[n].state = "open" /\ cb[n].elapsed => InFlight(n) = {}

LEMMA BreakerTypes ==
  ASSUME NEW b \in CB
  PROVE  /\ Allow(b) \in CB
         /\ RecordSuccess(b) \in CB
         /\ RecordFailure(b) \in CB
         /\ Reset(b) \in CB
         /\ Elapse(b) \in CB
<1>1. b.failures \in 0 .. cbFailThreshold /\ b.state \in {"closed", "open", "half_open"}
      /\ b.elapsed \in BOOLEAN
  BY DEF CB
<1>2. b = [state |-> b.state, failures |-> b.failures, elapsed |-> b.elapsed]
  BY DEF CB
<1>3. Allow(b) \in CB
  BY DEF Allow, CB
<1>4. RecordSuccess(b) \in CB /\ Reset(b) \in CB
  BY HealthAssumption DEF RecordSuccess, Reset, CB
<1>5. RecordFailure(b) \in CB
  <2>1. Bump(b.failures, cbFailThreshold) \in 0 .. cbFailThreshold
    BY <1>1, HealthAssumption DEF Bump
  <2> DEFINE failures == Bump(b.failures, cbFailThreshold)
             state == IF failures >= cbFailThreshold \/ b.state = "half_open"
                      THEN "open" ELSE b.state
  <2>2. RecordFailure(b) = [state |-> state, failures |-> failures, elapsed |-> FALSE]
    BY DEF RecordFailure
  <2>3. state \in {"closed", "open", "half_open"}
    BY <1>1
  <2> HIDE DEF failures, state
  <2>4. QED
    BY <2>1, <2>2, <2>3 DEF CB, failures
<1>6. Elapse(b) \in CB
  BY DEF Elapse, CB
<1>7. QED
  BY <1>3, <1>4, <1>5, <1>6

LEMMA BreakerStates ==
  ASSUME NEW b \in CB
  PROVE  /\ Admits(b) => \/ b.state = "closed" /\ Allow(b) = b
                         \/ b.state = "open" /\ b.elapsed /\ Allow(b).state = "half_open"
         /\ RecordSuccess(b).state = "closed"
         /\ RecordFailure(b).state # "half_open"
         /\ ~RecordFailure(b).elapsed
         /\ Reset(b).state = "closed"
         /\ Elapse(b).state = b.state
BY DEF CB, Admits, Allow, Elapse, RecordSuccess, RecordFailure, Reset

LEMMA BreakerInit == Init => CallsOK /\ BreakerInv
<1>1. NewCB \in CB
  BY HealthAssumption DEF NewCB, CB
<1>2. SUFFICES ASSUME Init PROVE CallsOK /\ BreakerInv
  OBVIOUS
<1>3. CallsOK
  BY <1>1, <1>2 DEF Init, CallsOK
<1>4. \A n \in Nodes : cb[n].state = "closed"
  BY <1>2 DEF Init, NewCB
<1>5. QED
  BY <1>3, <1>4 DEF BreakerInv

(* Steps that leave the requests alone, and change breakers harmlessly.    *)
LEMMA QuietBreakers ==
  ASSUME CallsOK, BreakerInv, UNCHANGED <<todo, calling>>, cb' \in [Nodes -> CB],
         \A n \in Nodes : \/ cb'[n] = cb[n]
                          \/ cb'[n].state = "closed"
                          \/ cb'[n].state = "open" /\ InFlight(n) = {}
  PROVE  CallsOK' /\ BreakerInv'
<1>1. CallsOK'
  BY DEF CallsOK
<1>2. \A n \in Nodes : InFlight(n)' = InFlight(n)
  BY DEF InFlight
<1>3. QED
  BY <1>1, <1>2 DEF BreakerInv

LEMMA CallNodeKeeps ==
  ASSUME CallsOK, BreakerInv, NEW g \in Callers, CallNode(g)
  PROVE  CallsOK' /\ BreakerInv'
<1>1. PICK n \in Nodes : n = Head(todo[g]) /\ todo[g] # <<>> /\ ~calling[g]
  BY DEF CallNode
<1>2. cb[n] \in CB
  BY <1>1 DEF CallsOK
<1>3. CASE Admits(cb[n]) /\ sendable[g]
  <2>1. /\ cb' = [cb EXCEPT ![n] = Allow(cb[n])]
        /\ calling' = [calling EXCEPT ![g] = TRUE]
        /\ todo' = todo
    BY <1>1, <1>3 DEF CallNode
  <2>2. CallsOK'
    BY <1>1, <1>2, <2>1, BreakerTypes DEF CallsOK
  <2>3. \A m \in Nodes \ {n} : cb'[m] = cb[m] /\ InFlight(m)' = InFlight(m)
    BY <1>1, <2>1 DEF InFlight, CallsOK
  <2>4. InFlight(n)' = InFlight(n) \cup {g}
    BY <1>1, <2>1 DEF InFlight, CallsOK
  <2>5. cb'[n] = Allow(cb[n])
    BY <1>1, <2>1 DEF CallsOK
  <2>6. cb'[n].state = "half_open" => InFlight(n) = {}
    BY <1>1, <1>2, <1>3, <2>5, BreakerStates DEF BreakerInv
  <2>7. cb'[n].state # "open"
    BY <1>2, <1>3, <2>5, BreakerStates
  <2>8. \A m \in Nodes : cb'[m].state = "half_open" => \A h, j \in InFlight(m)' : h = j
    <3>1. SUFFICES ASSUME NEW m \in Nodes, cb'[m].state = "half_open"
                   PROVE  \A h, j \in InFlight(m)' : h = j
      OBVIOUS
    <3>2. CASE m = n
      BY <2>4, <2>6, <3>1, <3>2
    <3>3. CASE m # n
      BY <2>3, <3>1, <3>3 DEF BreakerInv
    <3>4. QED
      BY <3>2, <3>3
  <2>9. \A m \in Nodes : cb'[m].state = "open" /\ cb'[m].elapsed => InFlight(m)' = {}
    BY <2>3, <2>7 DEF BreakerInv
  <2>10. QED
    BY <2>2, <2>8, <2>9 DEF BreakerInv
<1>4. CASE Admits(cb[n]) /\ ~sendable[g]
  <2>1. /\ cb' = [cb EXCEPT ![n] = Allow(cb[n])]
        /\ calling' = calling
        /\ todo' = [todo EXCEPT ![g] = <<>>]
    BY <1>1, <1>4 DEF CallNode, GoOn
  <2>2. CallsOK'
    BY <1>1, <1>2, <2>1, BreakerTypes DEF CallsOK
  <2>3. \A m \in Nodes : InFlight(m)' = InFlight(m)
    BY <1>1, <2>1 DEF InFlight, CallsOK
  <2>4. cb'[n] = Allow(cb[n]) /\ \A m \in Nodes \ {n} : cb'[m] = cb[m]
    BY <1>1, <2>1 DEF CallsOK
  <2>5. cb'[n].state = "half_open" => InFlight(n) = {}
    BY <1>1, <1>2, <1>4, <2>4, BreakerStates DEF BreakerInv
  <2>6. cb'[n].state # "open"
    BY <1>2, <1>4, <2>4, BreakerStates
  <2>7. QED
    BY <2>2, <2>3, <2>4, <2>5, <2>6 DEF BreakerInv
<1>5. CASE ~Admits(cb[n])
  <2>1. /\ UNCHANGED <<cb, calling>>
        /\ todo' = [todo EXCEPT ![g] = Tail(todo[g])]
    BY <1>1, <1>5 DEF CallNode, GoOn
  <2>2. CallsOK'
    BY <1>1, <2>1 DEF CallsOK
  <2>3. \A m \in Nodes : InFlight(m)' = InFlight(m)
    BY <1>1, <2>1 DEF InFlight, CallsOK
  <2>4. QED
    BY <2>1, <2>2, <2>3 DEF BreakerInv
<1>6. QED
  BY <1>3, <1>4, <1>5

(* The end of a call: its own breaker is neither half-open nor ready for a *)
(* trial, and no other node's calls are touched.                           *)
LEMMA CallEnds ==
  ASSUME CallsOK, BreakerInv, NEW g \in Callers, calling[g], NEW b \in CB,
         cb' = [cb EXCEPT ![Head(todo[g])] = b],
         calling' = [calling EXCEPT ![g] = FALSE],
         NEW rest, todo' = [todo EXCEPT ![g] = rest],
         b.state # "half_open", b.state = "closed" \/ ~b.elapsed
  PROVE  CallsOK' /\ BreakerInv'
<1> DEFINE n == Head(todo[g])
<1>1. n \in Nodes
  BY DEF CallsOK
<1>2. CallsOK'
  BY <1>1 DEF CallsOK
<1>3. \A m \in Nodes \ {n} : cb'[m] = cb[m] /\ InFlight(m)' = InFlight(m)
  BY DEF InFlight, CallsOK
<1>4. cb'[n] = b
  BY <1>1 DEF CallsOK
<1> HIDE DEF n
<1>5. \A m \in Nodes : m = n \/ (cb'[m] = cb[m] /\ InFlight(m)' = InFlight(m))
  BY <1>3
<1>6. QED
  BY <1>2, <1>4, <1>5 DEF BreakerInv

LEMMA BreakerStep == CallsOK /\ BreakerInv /\ [Next]_vars => (CallsOK /\ BreakerInv)'
<1>1. SUFFICES ASSUME CallsOK, BreakerInv, [Next]_vars
               PROVE  CallsOK' /\ BreakerInv'
  OBVIOUS
<1>2. CASE UNCHANGED <<cb, todo, calling>>
  BY <1>1, <1>2, QuietBreakers DEF CallsOK
<1>3. ASSUME NEW n \in Nodes, NEW c \in Checks, CheckStep(n, c)
      PROVE  CallsOK' /\ BreakerInv'
  <2>1. CASE CloseCircuit(n, c)
    <3>1. Reset(cb[n]) \in CB /\ Reset(cb[n]).state = "closed"
      BY <1>1, BreakerTypes, BreakerStates DEF CallsOK
    <3>2. /\ cb' \in [Nodes -> CB]
          /\ \A m \in Nodes : cb'[m] = cb[m] \/ cb'[m].state = "closed"
      BY <1>1, <2>1, <3>1 DEF CloseCircuit, CallsOK
    <3>3. QED
      BY <1>1, <2>1, <3>1, <3>2, QuietBreakers DEF CloseCircuit, requests
  <2>2. QED
    BY <1>2, <1>3, <2>1 DEF requests, CheckStep, Probe, ProbeAlive, ProbeDead, RingAdd,
       RingRemove
<1>4. ASSUME NEW g \in Callers, CallStep(g)
      PROVE  CallsOK' /\ BreakerInv'
  <2>1. CASE CallNode(g)
    BY <1>1, <2>1, CallNodeKeeps
  <2>2. CASE CallSucceeds(g)
    <3>1. cb[Head(todo[g])] \in CB
      BY <1>1, <2>2 DEF CallSucceeds, CallsOK
    <3>2. QED
      BY <1>1, <2>2, <3>1, BreakerTypes, BreakerStates, CallEnds DEF CallSucceeds
  <2>3. CASE CallFails(g)
    <3>1. cb[Head(todo[g])] \in CB
      BY <1>1, <2>3 DEF CallFails, CallsOK
    <3>2. PICK rest : todo' = [todo EXCEPT ![g] = rest]
      BY <2>3 DEF CallFails
    <3>3. /\ calling[g]
          /\ cb' = [cb EXCEPT ![Head(todo[g])] = RecordFailure(cb[Head(todo[g])])]
          /\ calling' = [calling EXCEPT ![g] = FALSE]
      BY <2>3 DEF CallFails
    <3>4. PICK b \in CB : /\ b = RecordFailure(cb[Head(todo[g])])
                          /\ b.state # "half_open" /\ ~b.elapsed
      BY <3>1, BreakerTypes, BreakerStates
    <3>5. QED
      BY <1>1, <3>2, <3>3, <3>4, CallEnds
  <2>4. CASE Panic(g)
    <3>1. CallsOK'
      BY <1>1, <2>4 DEF Panic, GoOn, CallsOK
    <3>2. \A m \in Nodes : InFlight(m)' = InFlight(m)
      BY <1>1, <2>4 DEF Panic, GoOn, InFlight, CallsOK
    <3>3. QED
      BY <1>1, <2>4, <3>1, <3>2 DEF Panic, BreakerInv
  <2>5. QED
    BY <1>4, <2>1, <2>2, <2>3, <2>4 DEF CallStep
<1>5. ASSUME NEW g \in Callers, NEW k \in Keys, Lookup(g, k)
      PROVE  CallsOK' /\ BreakerInv'
  <2>1. ~calling[g]
    BY <1>1, <1>5 DEF Lookup, CallsOK
  <2>2. CallsOK'
    BY <1>1, <1>5, <2>1 DEF Lookup, CallsOK
  <2>3. \A m \in Nodes : InFlight(m)' = InFlight(m)
    BY <1>1, <1>5, <2>1 DEF Lookup, InFlight, CallsOK
  <2>4. QED
    BY <1>1, <1>5, <2>2, <2>3 DEF Lookup, BreakerInv
<1>6. ASSUME NEW n \in Nodes, OpenTimeout(n)
      PROVE  CallsOK' /\ BreakerInv'
  <2>1. cb[n] \in CB
    BY <1>1 DEF CallsOK
  <2>2. PICK b \in CB : b = Elapse(cb[n]) /\ b.state = cb[n].state
    BY <2>1, BreakerTypes, BreakerStates
  <2>3. cb' = [cb EXCEPT ![n] = b] /\ b.state = "open" /\ InFlight(n) = {}
    BY <1>6, <2>2 DEF OpenTimeout
  <2>4. /\ cb' \in [Nodes -> CB] /\ cb'[n] = b
        /\ \A m \in Nodes : m = n \/ cb'[m] = cb[m]
    BY <1>1, <2>3 DEF CallsOK
  <2>5. cb'[n].state = "open" /\ InFlight(n) = {}
    BY <2>3, <2>4
  <2>6. QED
    BY <1>1, <1>6, <2>4, <2>5, QuietBreakers, Zenon DEF OpenTimeout, requests
<1>7. QED
  BY <1>1, <1>2, <1>3, <1>4, <1>5, <1>6 DEF Next, vars, requests, Flip

(* circuit_breaker.go: the half-open state lets one trial through and      *)
(* nothing else, for any number of callers, whatever the health checker's  *)
(* Reset does meanwhile, and also when a trial ends before it was sent.    *)
THEOREM TrialIsAlone == Spec => []OneTrial
<1>1. Init => CallsOK /\ BreakerInv
  BY BreakerInit
<1>2. CallsOK /\ BreakerInv /\ [Next]_vars => (CallsOK /\ BreakerInv)'
  BY BreakerStep
<1>3. CallsOK /\ BreakerInv => OneTrial
  <2>1. SUFFICES ASSUME NEW n \in Nodes, \A g, h \in InFlight(n) : g = h
                 PROVE  Cardinality(InFlight(n)) <= 1
    BY DEF BreakerInv, OneTrial
  <2>2. CASE InFlight(n) = {}
    BY <2>2, FS_EmptySet
  <2>3. CASE InFlight(n) # {}
    <3>1. PICK g \in InFlight(n) : InFlight(n) = {g}
      BY <2>1, <2>3
    <3>2. Cardinality(InFlight(n)) = 1
      BY <3>1, FS_Singleton
    <3>3. QED
      BY <3>2
  <2>4. QED
    BY <2>2, <2>3
<1>4. QED
  BY <1>1, <1>2, <1>3, PTL DEF Spec

-----------------------------------------------------------------------------
(* The health checker.                                                     *)

HealthOK ==
  /\ RingOK
  /\ health \in [Nodes -> [Alive : BOOLEAN, Failures : 0 .. failThreshold]]
  /\ check \in [Nodes -> [Checks -> CheckPcs]]

(* At most one check is about to change the node's membership, and the     *)
(* change it is about to make is due.                                      *)
OneChange(n) ==
  \A c, d \in Checks :
    check[n][c] \in {"add", "remove"} /\ check[n][d] \in {"add", "remove"} => c = d
ChangeDue(n) ==
  \A c \in Checks :
    /\ check[n][c] = "add" => health[n].Alive /\ n \notin ring.nodes
    /\ check[n][c] = "remove" => ~health[n].Alive /\ n \in ring.nodes
Follows(n) == ~Changing(n) => (health[n].Alive <=> n \in ring.nodes)

Uncrossed(n) == OneChange(n) /\ ChangeDue(n) /\ Follows(n)

HealthInv == HealthOK /\ \A n \in Nodes \ crossed : Uncrossed(n)

(* Steps that leave a node's health, checks and membership alone.          *)
LEMMA NodeUntouched ==
  ASSUME NEW n \in Nodes, Uncrossed(n), UNCHANGED <<health[n], check[n]>>,
         n \in ring'.nodes <=> n \in ring.nodes
  PROVE  Uncrossed(n)'
BY DEF Uncrossed, OneChange, ChangeDue, Follows, Changing

(* A step of one node's check concerns no other node.                      *)
LEMMA CheckOfOneNode ==
  ASSUME HealthInv, NEW n \in Nodes, NEW c \in Checks, HealthOK',
         NEW to \in CheckPcs, check' = [check EXCEPT ![n][c] = to],
         crossed \subseteq crossed',
         \A m \in Nodes \ {n} : /\ health'[m] = health[m]
                                /\ m \in ring'.nodes <=> m \in ring.nodes,
         n \notin crossed' => Uncrossed(n)'
  PROVE  HealthInv'
<1>1. \A m \in Nodes \ {n} : check'[m] = check[m]
  BY DEF HealthInv, HealthOK
<1>2. SUFFICES ASSUME NEW m \in Nodes \ crossed' PROVE Uncrossed(m)'
  BY DEF HealthInv
<1>3. CASE m = n
  BY <1>3
<1>4. CASE m # n
  <2>1. Uncrossed(m) /\ health'[m] = health[m] /\ check'[m] = check[m]
    BY <1>1, <1>4 DEF HealthInv
  <2>2. QED
    BY <1>4, <2>1, NodeUntouched
<1>5. QED
  BY <1>3, <1>4

LEMMA HealthUntouched ==
  ASSUME HealthInv, UNCHANGED <<health, check, ring, crossed>>
  PROVE  HealthInv'
BY NodeUntouched DEF HealthInv, HealthOK, RingOK

(* The phases of the node's other checks stay as they are.                 *)
LEMMA OtherChecks ==
  ASSUME HealthOK, NEW n \in Nodes, NEW c \in Checks, NEW to,
         check' = [check EXCEPT ![n][c] = to]
  PROVE  check'[n][c] = to /\ \A d \in Checks \ {c} : check'[n][d] = check[n][d]
BY DEF HealthOK

(* The step keeps to the decisions made: the check was not about to change *)
(* the node's membership and is not now, and the health record says what   *)
(* it said.                                                                *)
LEMMA NoDecision ==
  ASSUME HealthOK, NEW n \in Nodes, Uncrossed(n), NEW c \in Checks, NEW to,
         check' = [check EXCEPT ![n][c] = to],
         check[n][c] \notin {"add", "remove"}, to \notin {"add", "remove"},
         health'[n].Alive <=> health[n].Alive, n \in ring'.nodes <=> n \in ring.nodes
  PROVE  Uncrossed(n)'
<1>1. check'[n][c] = to /\ \A d \in Checks \ {c} : check'[n][d] = check[n][d]
  BY OtherChecks
<1>2. \A d \in Checks : /\ check'[n][d] = "add" <=> check[n][d] = "add"
                        /\ check'[n][d] = "remove" <=> check[n][d] = "remove"
  BY <1>1
<1>3. OneChange(n)' /\ ChangeDue(n)' /\ Follows(n)'
  BY <1>2 DEF Uncrossed, OneChange, ChangeDue, Follows, Changing
<1>4. QED
  BY <1>3 DEF Uncrossed

(* A decision made while no other one waits to reach the ring.             *)
LEMMA NewDecision ==
  ASSUME HealthOK, NEW n \in Nodes, Uncrossed(n), ~Changing(n), NEW c \in Checks, NEW to,
         check' = [check EXCEPT ![n][c] = to], ring' = ring,
         \/ to = "add" /\ ~health[n].Alive /\ health'[n].Alive
         \/ to = "remove" /\ health[n].Alive /\ ~health'[n].Alive
  PROVE  Uncrossed(n)'
<1>1. check'[n][c] = to /\ \A d \in Checks \ {c} : check'[n][d] = check[n][d]
  BY OtherChecks
<1>2. \A d \in Checks : check'[n][d] \in {"add", "remove"} => d = c
  BY <1>1 DEF Changing
<1>3. health[n].Alive <=> n \in ring.nodes
  BY DEF Uncrossed, Follows
<1>4. OneChange(n)' /\ ChangeDue(n)' /\ Follows(n)'
  BY <1>1, <1>2, <1>3 DEF OneChange, ChangeDue, Follows, Changing
<1>5. QED
  BY <1>4 DEF Uncrossed

(* The decision reaches the ring: it was the only one that waited.         *)
LEMMA DecisionDone ==
  ASSUME HealthOK, NEW n \in Nodes, Uncrossed(n), NEW c \in Checks, NEW to,
         check' = [check EXCEPT ![n][c] = to], health' = health,
         check[n][c] \in {"add", "remove"}, to \notin {"add", "remove"},
         n \in ring'.nodes <=> check[n][c] = "add"
  PROVE  Uncrossed(n)'
<1>1. check'[n][c] = to /\ \A d \in Checks \ {c} : check'[n][d] = check[n][d]
  BY OtherChecks
<1>2. \A d \in Checks : check'[n][d] \notin {"add", "remove"}
  BY <1>1 DEF Uncrossed, OneChange
<1>3. health[n].Alive <=> check[n][c] = "add"
  BY DEF Uncrossed, ChangeDue
<1>4. OneChange(n)' /\ ChangeDue(n)' /\ Follows(n)'
  BY <1>2, <1>3 DEF OneChange, ChangeDue, Follows, Changing
<1>5. QED
  BY <1>4 DEF Uncrossed

LEMMA ProbeAliveKeeps ==
  ASSUME HealthInv, NEW n \in Nodes, NEW c \in Checks, ProbeAlive(n, c)
  PROVE  HealthInv'
<1>1. health[n].Alive \in BOOLEAN /\ HealthOK
  BY DEF HealthInv, HealthOK
<1>2. [Alive |-> TRUE, Failures |-> 0] \in [Alive : BOOLEAN, Failures : 0 .. failThreshold]
  BY HealthAssumption
<1>3. /\ health' \in [Nodes -> [Alive : BOOLEAN, Failures : 0 .. failThreshold]]
      /\ health'[n].Alive
      /\ \A m \in Nodes \ {n} : health'[m] = health[m]
  BY <1>1, <1>2 DEF ProbeAlive, HealthOK
<1>4. ring' = ring /\ check[n][c] = "alive"
  BY DEF ProbeAlive
<1>5. CASE health[n].Alive
  <2>1. check' = [check EXCEPT ![n][c] = "none"] /\ crossed' = crossed
    BY <1>5 DEF ProbeAlive
  <2>2. HealthOK'
    BY <1>1, <1>3, <1>4, <2>1 DEF HealthOK, RingOK, CheckPcs
  <2>3. ASSUME n \notin crossed' PROVE Uncrossed(n)'
    <3>1. Uncrossed(n)
      BY <2>1, <2>3 DEF HealthInv
    <3>2. /\ check[n][c] \notin {"add", "remove"} /\ "none" \notin {"add", "remove"}
          /\ health'[n].Alive <=> health[n].Alive
          /\ n \in ring'.nodes <=> n \in ring.nodes
      BY <1>3, <1>4, <1>5
    <3>3. QED
      BY <1>1, <2>1, <3>1, <3>2, NoDecision
  <2>4. QED
    BY <1>3, <1>4, <2>1, <2>2, <2>3, CheckOfOneNode DEF CheckPcs
<1>6. CASE ~health[n].Alive
  <2>1. check' = [check EXCEPT ![n][c] = "add"] /\ crossed' = Crossed(n)
    BY <1>6 DEF ProbeAlive
  <2>2. HealthOK'
    BY <1>1, <1>3, <1>4, <2>1 DEF HealthOK, RingOK, CheckPcs
  <2>3. crossed \subseteq crossed' /\ (n \notin crossed' => ~Changing(n) /\ n \notin crossed)
    BY <2>1 DEF Crossed
  <2>4. n \notin crossed' => Uncrossed(n)'
    BY <1>1, <1>3, <1>4, <1>6, <2>1, <2>3, NewDecision DEF HealthInv
  <2>5. QED
    BY <1>3, <1>4, <2>1, <2>2, <2>3, <2>4, CheckOfOneNode DEF CheckPcs
<1>7. QED
  BY <1>5, <1>6

LEMMA ProbeDeadKeeps ==
  ASSUME HealthInv, NEW n \in Nodes, NEW c \in Checks, ProbeDead(n, c)
  PROVE  HealthInv'
<1> DEFINE failures == Bump(health[n].Failures, failThreshold)
           down == health[n].Alive /\ failures >= failThreshold
<1>1. /\ health[n].Alive \in BOOLEAN /\ health[n].Failures \in 0 .. failThreshold
      /\ HealthOK
  BY DEF HealthInv, HealthOK
<1>2. failures \in 0 .. failThreshold
  BY <1>1, HealthAssumption DEF Bump
<1>3. /\ health' = [health EXCEPT ![n] = [Alive |-> health[n].Alive /\ ~down, Failures |-> failures]]
      /\ check' = [check EXCEPT ![n][c] = IF down THEN "remove" ELSE "none"]
      /\ crossed' = IF down THEN Crossed(n) ELSE crossed
      /\ ring' = ring /\ check[n][c] = "dead"
  BY DEF ProbeDead
<1> HIDE DEF failures
<1>4. CASE down
  <2>1. /\ health' = [health EXCEPT ![n] = [Alive |-> FALSE, Failures |-> failures]]
        /\ check' = [check EXCEPT ![n][c] = "remove"]
        /\ crossed' = Crossed(n)
    BY <1>3, <1>4
  <2>2. HealthOK'
    BY <1>1, <1>2, <1>3, <2>1 DEF HealthOK, RingOK, CheckPcs
  <2>3. ~health'[n].Alive /\ \A m \in Nodes \ {n} : health'[m] = health[m]
    BY <1>1, <2>1 DEF HealthOK
  <2>4. crossed \subseteq crossed' /\ (n \notin crossed' => ~Changing(n) /\ n \notin crossed)
    BY <2>1 DEF Crossed
  <2>5. n \notin crossed' => Uncrossed(n)'
    BY <1>1, <1>3, <1>4, <2>1, <2>3, <2>4, NewDecision DEF HealthInv
  <2>6. QED
    BY <1>3, <2>1, <2>2, <2>3, <2>4, <2>5, CheckOfOneNode DEF CheckPcs
<1>5. CASE ~down
  <2>1. /\ health' = [health EXCEPT ![n] = [Alive |-> health[n].Alive, Failures |-> failures]]
        /\ check' = [check EXCEPT ![n][c] = "none"]
        /\ crossed' = crossed
    BY <1>1, <1>3, <1>5
  <2>2. HealthOK'
    BY <1>1, <1>2, <1>3, <2>1 DEF HealthOK, RingOK, CheckPcs
  <2>3. /\ health'[n].Alive <=> health[n].Alive
        /\ \A m \in Nodes \ {n} : health'[m] = health[m]
    BY <1>1, <2>1 DEF HealthOK
  <2>4. ASSUME n \notin crossed' PROVE Uncrossed(n)'
    <3>1. Uncrossed(n)
      BY <2>1, <2>4 DEF HealthInv
    <3>2. /\ check[n][c] \notin {"add", "remove"} /\ "none" \notin {"add", "remove"}
          /\ n \in ring'.nodes <=> n \in ring.nodes
      BY <1>3
    <3>3. QED
      BY <1>1, <2>1, <3>1, <3>2, <2>3, NoDecision
  <2>5. QED
    BY <1>3, <2>1, <2>2, <2>3, <2>4, CheckOfOneNode DEF CheckPcs
<1>6. QED
  BY <1>4, <1>5

LEMMA RingChangeKeeps ==
  ASSUME HealthInv, NEW n \in Nodes, NEW c \in Checks, RingAdd(n, c) \/ RingRemove(n, c)
  PROVE  HealthInv'
<1>1. HealthOK /\ RingOK
  BY DEF HealthInv, HealthOK
<1>2. CASE RingAdd(n, c)
  <2>1. /\ ring' = addNode(ring, n) /\ health' = health /\ crossed' = crossed
        /\ check' = [check EXCEPT ![n][c] = "reset"]
        /\ check[n][c] = "add"
    BY <1>2 DEF RingAdd
  <2>2. RingOK'
    BY <1>1, <2>1 DEF RingOK, addNode
  <2>3. n \in ring'.nodes /\ \A m \in Nodes \ {n} : m \in ring'.nodes <=> m \in ring.nodes
    BY <2>1 DEF addNode
  <2>4. HealthOK'
    BY <1>1, <2>1, <2>2 DEF HealthOK, CheckPcs
  <2>5. ASSUME n \notin crossed' PROVE Uncrossed(n)'
    <3>1. Uncrossed(n)
      BY <2>1, <2>5 DEF HealthInv
    <3>2. /\ check[n][c] \in {"add", "remove"} /\ "reset" \notin {"add", "remove"}
          /\ n \in ring'.nodes <=> check[n][c] = "add"
      BY <2>1, <2>3
    <3>3. QED
      BY <1>1, <2>1, <3>1, <3>2, DecisionDone
  <2>6. QED
    BY <2>1, <2>3, <2>4, <2>5, CheckOfOneNode DEF CheckPcs
<1>3. CASE RingRemove(n, c)
  <2>1. /\ ring' = removeNode(ring, n) /\ health' = health /\ crossed' = crossed
        /\ check' = [check EXCEPT ![n][c] = "none"]
        /\ check[n][c] = "remove"
    BY <1>3 DEF RingRemove
  <2>2. RingOK'
    BY <1>1, <2>1 DEF RingOK, removeNode
  <2>3. n \notin ring'.nodes /\ \A m \in Nodes \ {n} : m \in ring'.nodes <=> m \in ring.nodes
    BY <2>1 DEF removeNode
  <2>4. HealthOK'
    BY <1>1, <2>1, <2>2 DEF HealthOK, CheckPcs
  <2>5. ASSUME n \notin crossed' PROVE Uncrossed(n)'
    <3>1. Uncrossed(n)
      BY <2>1, <2>5 DEF HealthInv
    <3>2. /\ check[n][c] \in {"add", "remove"} /\ "none" \notin {"add", "remove"}
          /\ n \in ring'.nodes <=> check[n][c] = "add"
      BY <2>1, <2>3
    <3>3. QED
      BY <1>1, <2>1, <3>1, <3>2, DecisionDone
  <2>6. QED
    BY <2>1, <2>3, <2>4, <2>5, CheckOfOneNode DEF CheckPcs
<1>4. QED
  BY <1>2, <1>3

(* Phases in which a check neither holds nor makes a decision.             *)
LEMMA OtherPhasesKeep ==
  ASSUME HealthInv, NEW n \in Nodes, NEW c \in Checks, Probe(n, c) \/ CloseCircuit(n, c)
  PROVE  HealthInv'
<1>1. PICK to \in CheckPcs \ {"add", "remove"} : check' = [check EXCEPT ![n][c] = to]
  BY DEF Probe, CloseCircuit, CheckPcs
<1>2. UNCHANGED <<health, ring, crossed>> /\ check[n][c] \notin {"add", "remove"}
  BY DEF Probe, CloseCircuit
<1>3. HealthOK /\ HealthOK'
  BY <1>1, <1>2 DEF HealthInv, HealthOK, RingOK
<1>4. n \notin crossed' => Uncrossed(n)'
  BY <1>1, <1>2, <1>3, NoDecision DEF HealthInv
<1>5. QED
  BY <1>1, <1>2, <1>3, <1>4, CheckOfOneNode

LEMMA HealthInit == Init => HealthInv
<1>1. SUFFICES ASSUME Init PROVE HealthInv
  OBVIOUS
<1>2. RingOK
  BY <1>1, FullRingOK DEF Init
<1>3. HealthOK
  BY <1>1, <1>2, HealthAssumption DEF Init, HealthOK, CheckPcs
<1>4. ASSUME NEW n \in Nodes PROVE Uncrossed(n)
  <2>1. \A c \in Checks : check[n][c] = "none"
    BY <1>1 DEF Init
  <2>2. health[n].Alive /\ n \in ring.nodes
    BY <1>1 DEF Init, FullRing
  <2>3. QED
    BY <2>1, <2>2 DEF Uncrossed, OneChange, ChangeDue, Follows
<1>5. QED
  BY <1>3, <1>4 DEF HealthInv

LEMMA HealthStep ==
  ASSUME HealthInv, [Next]_vars
  PROVE  HealthInv'
<1>1. CASE UNCHANGED <<health, check, ring, crossed>>
  BY <1>1, HealthUntouched
<1>2. ASSUME NEW n \in Nodes, NEW c \in Checks, CheckStep(n, c)
      PROVE  HealthInv'
  BY <1>2, ProbeAliveKeeps, ProbeDeadKeeps, RingChangeKeeps, OtherPhasesKeep DEF CheckStep
<1>3. QED
  BY <1>1, <1>2 DEF Next, vars, CallStep, CallNode, CallSucceeds, CallFails, Panic,
     Lookup, OpenTimeout, Flip

(* main.go, checkNode: however the checks of a node overlap, the ring goes *)
(* by the node's health record, until a check decides while an earlier     *)
(* decision is still on its way to the ring.                               *)
THEOREM RingIsHealth == Spec => []RingFollowsHealth
<1>1. Init => HealthInv
  BY HealthInit
<1>2. HealthInv /\ [Next]_vars => HealthInv'
  BY HealthStep
<1>3. HealthInv => RingFollowsHealth
  BY DEF HealthInv, Uncrossed, Follows, RingFollowsHealth
<1>4. QED
  BY <1>1, <1>2, <1>3, PTL DEF Spec

-----------------------------------------------------------------------------
(* The lookups.  A ring that agrees with its set of nodes: every position  *)
(* of a member once, named in the map, and no other position.              *)

Proper(r) ==
  /\ r.nodes \subseteq Nodes
  /\ \A n \in Nodes : \A p \in Points[n] :
       /\ r.ring[p] = IF n \in r.nodes THEN 1 ELSE 0
       /\ n \in r.nodes => r.ringMap[p] = n

LEMMA LeastNumber ==
  ASSUME NEW S, S \subseteq Nat, S # {}
  PROVE  \E i \in S : \A j \in S : i <= j
<1>1. PICK i \in S : \A j \in S : ~ (<<j, i>> \in OpToRel(<, Nat))
  BY NatLessThanWellFounded, WFMin
<1>2. \A j \in S : ~ (j < i)
  BY <1>1 DEF OpToRel
<1>3. QED
  BY <1>2

(* The first position behind a key exists and is the only one.             *)
LEMMA Gaps ==
  ASSUME NEW k \in Keys, NEW p \in Positions, NEW q \in Positions
  PROVE  /\ Gap(k, p) \in Nat
         /\ Gap(k, p) = Gap(k, q) => p = q
<1>1. \A n \in Nodes : Points[n] \subseteq 0 .. Circle - 1
  BY RingAssumption
<1>2. p \in 0 .. Circle - 1 /\ q \in 0 .. Circle - 1
  BY <1>1 DEF Positions
<1>3. KeyHash[k] \in 0 .. Circle - 1 /\ Circle \in Nat \ {0}
  BY RingAssumption
<1>4. QED
  BY <1>2, <1>3 DEF Gap

LEMMA FirstIsLeast ==
  ASSUME NEW k \in Keys, NEW S, S \subseteq Positions, S # {}
  PROVE  First(k, S) \in S /\ \A q \in S : Gap(k, First(k, S)) <= Gap(k, q)
<1> DEFINE gaps == {Gap(k, p) : p \in S}
<1>1. gaps \subseteq Nat /\ gaps # {}
  BY Gaps
<1>2. PICK d \in gaps : \A e \in gaps : d <= e
  BY <1>1, LeastNumber
<1>3. PICK p \in S : \A q \in S : Gap(k, p) <= Gap(k, q)
  BY <1>2
<1>4. QED
  BY <1>3 DEF First

LEMMA FirstIsOnly ==
  ASSUME NEW k \in Keys, NEW S, S \subseteq Positions,
         NEW p \in S, \A q \in S : Gap(k, p) <= Gap(k, q)
  PROVE  First(k, S) = p
<1>1. First(k, S) \in S /\ \A q \in S : Gap(k, First(k, S)) <= Gap(k, q)
  BY FirstIsLeast
<1>2. PICK f \in S : f = First(k, S) /\ Gap(k, f) <= Gap(k, p)
  BY <1>1
<1>3. Gap(k, f) \in Nat /\ Gap(k, p) \in Nat /\ Gap(k, p) <= Gap(k, f)
  BY Gaps
<1>4. Gap(k, f) = Gap(k, p)
  BY <1>2, <1>3
<1>5. f = p
  BY <1>4, Gaps
<1>6. QED
  BY <1>2, <1>5

(* The node with the highest score exists and is the only one.             *)
LEMMA BestIsHighest ==
  ASSUME NEW k \in Keys, NEW S, S \subseteq Nodes, S # {}
  PROVE  Best(k, S) \in S /\ \A n \in S : Score[k][Best(k, S)] >= Score[k][n]
<1> DEFINE Above(m) == {n \in S : Score[k][n] > Score[k][m]}
<1>1. IsFiniteSet(S)
  BY RingAssumption, FS_Subset
<1>2. \A m \in S : IsFiniteSet(Above(m)) /\ Cardinality(Above(m)) \in Nat
  BY <1>1, FS_Subset, FS_CardinalityType
<1>3. \A m \in S : Score[k][m] \in Nat
  BY RingAssumption
<1>4. \E m \in S : \A n \in S : Cardinality(Above(m)) <= Cardinality(Above(n))
  <2> DEFINE sizes == {Cardinality(Above(m)) : m \in S}
  <2>1. sizes \subseteq Nat /\ sizes # {}
    BY <1>2
  <2>2. PICK d \in sizes : \A e \in sizes : d <= e
    <3> HIDE DEF sizes
    <3>1. QED
      BY <2>1, LeastNumber
  <2>3. QED
    BY <2>2
<1>5. PICK m \in S : \A n \in S : Cardinality(Above(m)) <= Cardinality(Above(n))
  BY <1>4
<1>6. ASSUME NEW n \in S, Score[k][n] > Score[k][m] PROVE FALSE
  <2>1. Above(n) \subseteq Above(m) /\ n \in Above(m) /\ n \notin Above(n)
    BY <1>3, <1>6
  <2>2. Cardinality(Above(n)) < Cardinality(Above(m))
    <3>1. Above(n) # Above(m)
      BY <2>1
    <3> HIDE DEF Above
    <3>2. QED
      BY <1>2, <2>1, <3>1, FS_Subset
  <2>3. Cardinality(Above(n)) \in Nat /\ Cardinality(Above(m)) \in Nat
    BY <1>2
  <2>4. QED
    <3> HIDE DEF Above
    <3>1. QED
      BY <1>5, <2>2, <2>3
<1>7. \A n \in S : Score[k][m] >= Score[k][n]
  BY <1>3, <1>6
<1>8. QED
  BY <1>7 DEF Best

LEMMA BestIsOnly ==
  ASSUME NEW k \in Keys, NEW S, S \subseteq Nodes,
         NEW m \in S, \A n \in S : Score[k][m] >= Score[k][n]
  PROVE  Best(k, S) = m
<1>1. PICK b \in S : b = Best(k, S) /\ Score[k][b] >= Score[k][m]
  BY BestIsHighest
<1>2. Score[k][b] \in Nat /\ Score[k][m] \in Nat /\ Score[k][m] >= Score[k][b]
  BY RingAssumption
<1>3. Score[k][b] = Score[k][m]
  BY <1>1, <1>2
<1>4. b = m
  BY <1>3, RingAssumption
<1>5. QED
  BY <1>1, <1>4

(* What a proper ring holds, and whose its positions are.                  *)
LEMMA Owners ==
  ASSUME NEW r, Proper(r)
  PROVE  /\ OnRing(r) \subseteq Positions
         /\ \A n \in Nodes : \A p \in Points[n] : p \in OnRing(r) <=> n \in r.nodes
         /\ \A p \in OnRing(r) : r.ringMap[p] \in r.nodes /\ p \in Points[r.ringMap[p]]
         /\ r.nodes # {} => OnRing(r) # {}
<1>1. \A n \in Nodes : \A p \in Points[n] : p \in OnRing(r) <=> n \in r.nodes
  BY PointsArePositions DEF Proper, OnRing
<1>2. ASSUME NEW p \in OnRing(r) PROVE r.ringMap[p] \in r.nodes /\ p \in Points[r.ringMap[p]]
  <2>1. PICK n \in Nodes : p \in Points[n]
    BY DEF OnRing, Positions
  <2>2. n \in r.nodes
    BY <1>1, <1>2, <2>1
  <2>3. QED
    BY <2>1, <2>2 DEF Proper
<1>3. ASSUME r.nodes # {} PROVE OnRing(r) # {}
  <2>1. PICK n \in r.nodes : n \in Nodes
    BY <1>3 DEF Proper
  <2>2. Points[n] # {}
    BY <2>1, RingAssumption
  <2>3. QED
    BY <1>1, <2>1, <2>2
<1>4. QED
  BY <1>1, <1>2, <1>3 DEF OnRing

(* The positions that are not of the primary.                              *)
OthersOf(r, k) == {p \in OnRing(r) : r.ringMap[p] # Primary(r, k)}

LEMMA PrimaryIsMember ==
  ASSUME NEW r, Proper(r), r.nodes # {}, NEW k \in Keys
  PROVE  Primary(r, k) \in r.nodes
<1>1. CASE r.strat = "rendezvous"
  BY <1>1, BestIsHighest DEF Primary, Proper
<1>2. CASE r.strat # "rendezvous"
  BY <1>2, Owners, FirstIsLeast DEF Primary
<1>3. QED
  BY <1>1, <1>2

LEMMA ReplicaIsAnother ==
  ASSUME NEW r, Proper(r), NEW k \in Keys,
         NEW n \in r.nodes, n # Primary(r, k)
  PROVE  Replica(r, k) \in r.nodes \ {Primary(r, k)}
<1>1. CASE r.strat = "rendezvous"
  <2>1. r.nodes \ {Primary(r, k)} \subseteq Nodes /\ n \in r.nodes \ {Primary(r, k)}
    BY DEF Proper
  <2>2. QED
    BY <1>1, <2>1, BestIsHighest DEF Replica
<1>2. CASE r.strat # "rendezvous"
  <2>1. PICK p \in Points[n] : n \in Nodes
    BY RingAssumption DEF Proper
  <2>2. p \in OnRing(r) /\ r.ringMap[p] = n
    BY <2>1, Owners DEF Proper
  <2>3. OthersOf(r, k) # {} /\ OthersOf(r, k) \subseteq Positions
    BY <2>2, Owners DEF OthersOf
  <2>4. First(k, OthersOf(r, k)) \in OthersOf(r, k)
    BY <2>3, FirstIsLeast
  <2>5. Replica(r, k) = r.ringMap[First(k, OthersOf(r, k))]
    BY <1>2 DEF Replica, OthersOf
  <2>6. QED
    BY <2>4, <2>5, Owners DEF OthersOf
<1>3. QED
  BY <1>1, <1>2

(* nodesForKey on a proper ring.                                           *)
LEMMA Found ==
  ASSUME NEW r, Proper(r), NEW k \in Keys
  PROVE  \/ r.nodes = {} /\ nodesForKey(r, k) = <<>>
         \/ r.nodes = {Primary(r, k)} /\ nodesForKey(r, k) = <<Primary(r, k)>>
         \/ /\ Primary(r, k) \in r.nodes
            /\ Replica(r, k) \in r.nodes \ {Primary(r, k)}
            /\ nodesForKey(r, k) = <<Primary(r, k), Replica(r, k)>>
<1>1. CASE r.nodes = {}
  BY <1>1 DEF nodesForKey
<1>2. CASE r.nodes # {} /\ Cardinality(r.nodes) = 1
  <2>1. IsFiniteSet(r.nodes)
    BY RingAssumption, FS_Subset DEF Proper
  <2>2. PICK n : r.nodes = {n}
    BY <1>2, <2>1, FS_Singleton
  <2>3. QED
    BY <1>2, <2>2, PrimaryIsMember DEF nodesForKey
<1>3. CASE r.nodes # {} /\ Cardinality(r.nodes) # 1
  <2>1. Primary(r, k) \in r.nodes
    BY <1>3, PrimaryIsMember
  <2>2. r.nodes # {Primary(r, k)}
    BY <1>3, FS_Singleton
  <2>3. PICK n \in r.nodes : n # Primary(r, k)
    BY <2>1, <2>2
  <2>4. QED
    BY <1>3, <2>1, <2>3, ReplicaIsAnother DEF nodesForKey
<1>4. QED
  BY <1>1, <1>2, <1>3

(* A key keeps its primary, or goes to the node that joins.                *)
LEMMA JoinMoves ==
  ASSUME NEW r, NEW q, Proper(r), Proper(q), NEW n \in Nodes, r.nodes # {},
         q.nodes = r.nodes \cup {n}, q.strat = r.strat, NEW k \in Keys
  PROVE  Primary(q, k) \in {Primary(r, k), n}
<1>1. CASE r.strat = "rendezvous" /\ Primary(q, k) # n
  <2>1. r.nodes \subseteq Nodes /\ q.nodes \subseteq Nodes /\ q.nodes # {}
    BY DEF Proper
  <2>2. /\ Primary(q, k) = Best(k, q.nodes) /\ Primary(r, k) = Best(k, r.nodes)
        /\ Best(k, q.nodes) \in q.nodes
        /\ \A m \in q.nodes : Score[k][Best(k, q.nodes)] >= Score[k][m]
    BY <1>1, <2>1, BestIsHighest DEF Primary
  <2>3. Best(k, q.nodes) \in r.nodes
    BY <1>1, <2>2
  <2>4. QED
    BY <2>1, <2>2, <2>3, BestIsOnly
<1>2. CASE r.strat # "rendezvous"
  <2>1. PICK f \in OnRing(q) : /\ f = First(k, OnRing(q))
                               /\ \A p \in OnRing(q) : Gap(k, f) <= Gap(k, p)
    BY Owners, FirstIsLeast
  <2>2. OnRing(r) \subseteq OnRing(q)
    BY Owners DEF Proper
  <2>3. Primary(q, k) = q.ringMap[f] /\ f \in Points[q.ringMap[f]] /\ q.ringMap[f] \in q.nodes
    BY <1>2, <2>1, Owners DEF Primary
  <2>4. ASSUME q.ringMap[f] # n PROVE Primary(q, k) = Primary(r, k)
    <3>1. q.ringMap[f] \in r.nodes /\ q.ringMap[f] \in Nodes
      BY <2>3, <2>4 DEF Proper
    <3>2. f \in OnRing(r) /\ r.ringMap[f] = q.ringMap[f]
      BY <2>3, <3>1, Owners DEF Proper
    <3>3. First(k, OnRing(r)) = f
      BY <2>1, <2>2, <3>2, Owners, FirstIsOnly
    <3>4. QED
      BY <1>2, <2>3, <3>2, <3>3 DEF Primary
  <2>5. QED
    BY <2>3, <2>4
<1>3. QED
  BY <1>1, <1>2

(* When a node leaves, its keys go to the nodes that held their replicas,  *)
(* and every other key stays.                                              *)
LEMMA LeaveMoves ==
  ASSUME NEW r, NEW q, Proper(r), Proper(q), NEW n \in r.nodes,
         q.nodes = r.nodes \ {n}, q.nodes # {}, q.strat = r.strat, NEW k \in Keys
  PROVE  Primary(q, k) = IF Primary(r, k) = n THEN Replica(r, k) ELSE Primary(r, k)
<1>1. CASE r.strat = "rendezvous"
  <2>1. r.nodes \subseteq Nodes /\ q.nodes \subseteq Nodes /\ r.nodes # {}
    BY DEF Proper
  <2>2. /\ Primary(q, k) = Best(k, q.nodes) /\ Primary(r, k) = Best(k, r.nodes)
        /\ Best(k, r.nodes) \in r.nodes
        /\ \A m \in r.nodes : Score[k][Best(k, r.nodes)] >= Score[k][m]
    BY <1>1, <2>1, BestIsHighest DEF Primary
  <2>3. CASE Primary(r, k) = n
    BY <1>1, <2>2, <2>3 DEF Replica
  <2>4. CASE Primary(r, k) # n
    <3>1. Best(k, r.nodes) \in q.nodes
      BY <2>2, <2>4
    <3>2. QED
      BY <2>1, <2>2, <2>4, <3>1, BestIsOnly
  <2>5. QED
    BY <2>3, <2>4
<1>2. CASE r.strat # "rendezvous"
  <2>1. n \in Nodes /\ r.nodes # {}
    BY DEF Proper
  <2>2. \A p \in OnRing(r) : p \in OnRing(q) <=> r.ringMap[p] # n
    <3>1. ASSUME NEW p \in OnRing(r) PROVE p \in OnRing(q) <=> r.ringMap[p] # n
      <4>1. r.ringMap[p] \in r.nodes /\ p \in Points[r.ringMap[p]] /\ r.ringMap[p] \in Nodes
        BY Owners DEF Proper
      <4>2. p \in OnRing(q) <=> r.ringMap[p] \in q.nodes
        BY <4>1, Owners
      <4>3. QED
        BY <4>1, <4>2
    <3>2. QED
      BY <3>1
  <2>3. \A p \in OnRing(q) : p \in OnRing(r) /\ q.ringMap[p] = r.ringMap[p]
    <3>1. ASSUME NEW p \in OnRing(q) PROVE p \in OnRing(r) /\ q.ringMap[p] = r.ringMap[p]
      <4>1. q.ringMap[p] \in q.nodes /\ p \in Points[q.ringMap[p]] /\ q.ringMap[p] \in Nodes
        BY Owners DEF Proper
      <4>2. QED
        BY <4>1, Owners DEF Proper
    <3>2. QED
      BY <3>1
  <2>4. PICK f \in OnRing(r) : /\ f = First(k, OnRing(r))
                               /\ \A p \in OnRing(r) : Gap(k, f) <= Gap(k, p)
    BY <2>1, Owners, FirstIsLeast
  <2>5. Primary(r, k) = r.ringMap[f]
    BY <1>2, <2>4 DEF Primary
  <2>6. CASE Primary(r, k) = n
    <3>1. OnRing(q) = {p \in OnRing(r) : r.ringMap[p] # Primary(r, k)}
      BY <2>2, <2>3, <2>6
    <3>2. First(k, OnRing(q)) \in OnRing(q)
      BY Owners, FirstIsLeast
    <3>3. Primary(q, k) = r.ringMap[First(k, OnRing(q))]
      BY <1>2, <2>3, <3>2 DEF Primary
    <3>4. Replica(r, k) = r.ringMap[First(k, OnRing(q))]
      BY <1>2, <3>1 DEF Replica
    <3>5. QED
      BY <2>6, <3>3, <3>4
  <2>7. CASE Primary(r, k) # n
    <3>1. f \in OnRing(q)
      BY <2>2, <2>5, <2>7
    <3>2. First(k, OnRing(q)) = f
      BY <2>3, <2>4, <3>1, Owners, FirstIsOnly
    <3>3. QED
      BY <1>2, <2>3, <2>5, <2>7, <3>1, <3>2 DEF Primary
  <2>8. QED
    BY <2>6, <2>7
<1>3. QED
  BY <1>1, <1>2

-----------------------------------------------------------------------------
(* The ring stays proper while no node's changes cross.                    *)

LEMMA FullIsProper ==
  ASSUME NEW strat
  PROVE  Proper(FullRing(strat))
<1>1. ASSUME NEW n \in Nodes, NEW p \in Points[n]
      PROVE  p \in Positions /\ (CHOOSE m \in Nodes : p \in Points[m]) = n
  BY OneOwner, PointsArePositions
<1>2. QED
  BY <1>1 DEF Proper, FullRing

LEMMA AddIsProper ==
  ASSUME NEW r, Proper(r), NEW n \in Nodes, n \notin r.nodes
  PROVE  Proper(addNode(r, n))
<1> DEFINE q == addNode(r, n)
<1>1. q.nodes = r.nodes \cup {n} /\ q.nodes \subseteq Nodes
  BY DEF addNode, Proper
<1>2. ASSUME NEW m \in Nodes, NEW p \in Points[m]
      PROVE  /\ q.ring[p] = IF m \in q.nodes THEN 1 ELSE 0
             /\ m \in q.nodes => q.ringMap[p] = m
  <2>1. p \in Positions /\ (p \in Points[n] <=> m = n)
    BY OneOwner, PointsArePositions
  <2>2. QED
    BY <2>1 DEF addNode, Proper
<1>3. QED
  BY <1>1, <1>2 DEF Proper

LEMMA RemoveIsProper ==
  ASSUME NEW r, Proper(r), NEW n \in Nodes
  PROVE  Proper(removeNode(r, n))
<1> DEFINE q == removeNode(r, n)
<1>1. q.nodes = r.nodes \ {n} /\ q.nodes \subseteq Nodes
  BY DEF removeNode, Proper
<1>2. ASSUME NEW m \in Nodes, NEW p \in Points[m]
      PROVE  /\ q.ring[p] = IF m \in q.nodes THEN 1 ELSE 0
             /\ m \in q.nodes => q.ringMap[p] = m
  <2>1. p \in Positions /\ (p \in Points[n] <=> m = n)
    BY OneOwner, PointsArePositions
  <2>2. QED
    BY <2>1 DEF removeNode, Proper
<1>3. QED
  BY <1>1, <1>2 DEF Proper

(* A node is added when it is not in the ring, and removed when it is.     *)
LEMMA RingSteps ==
  ASSUME HealthInv, crossed = {}, [Next]_vars, ring' # ring
  PROVE  \E n \in Nodes : \/ n \notin ring.nodes /\ ring' = addNode(ring, n)
                          \/ n \in ring.nodes /\ ring' = removeNode(ring, n)
<1>1. PICK n \in Nodes, c \in Checks : RingAdd(n, c) \/ RingRemove(n, c)
  BY DEF Next, vars, CheckStep, CallStep, Probe, ProbeAlive, ProbeDead,
     CloseCircuit, CallNode, CallSucceeds, CallFails, Panic, Lookup, OpenTimeout, Flip
<1>2. QED
  BY <1>1 DEF RingAdd, RingRemove, HealthInv, Uncrossed, ChangeDue

LEMMA CrossedGrows ==
  ASSUME [Next]_vars
  PROVE  crossed \subseteq crossed'
BY DEF Next, vars, CheckStep, CallStep, Probe, ProbeAlive, ProbeDead, Crossed, RingAdd,
   CloseCircuit, RingRemove, CallNode, CallSucceeds, CallFails, Panic, Lookup, OpenTimeout, Flip

LEMMA ProperKept ==
  ASSUME HealthInv, crossed = {}, Proper(ring), [Next]_vars
  PROVE  Proper(ring)'
<1>1. CASE ring' = ring
  BY <1>1 DEF Proper
<1>2. ASSUME NEW q, q = ring', Proper(q) PROVE Proper(ring)'
  BY <1>2 DEF Proper
<1>3. QED
  BY <1>1, <1>2, RingSteps, AddIsProper, RemoveIsProper

RingInv == HealthInv /\ (crossed = {} => Proper(ring))

LEMMA RingInit == Init => RingInv
BY HealthInit, FullIsProper DEF RingInv, Init

LEMMA RingStep ==
  ASSUME RingInv, [Next]_vars
  PROVE  RingInv'
<1>1. HealthInv'
  BY HealthStep DEF RingInv
<1>2. ASSUME crossed' = {} PROVE Proper(ring)'
  <2>1. crossed = {}
    BY <1>2, CrossedGrows
  <2>2. QED
    BY <2>1, ProperKept DEF RingInv
<1>3. QED
  BY <1>1, <1>2 DEF RingInv

(* ring.go, nodesForKey: however nodes come and go, a lookup returns only  *)
(* members of the ring, and two different ones when there are two - for    *)
(* any positions of the virtual nodes and either strategy.                 *)
THEOREM LookupsReturnMembers == Spec => []LookupFindsNodes
<1>1. Init => RingInv
  BY RingInit
<1>2. RingInv /\ [Next]_vars => RingInv'
  BY RingStep
<1>3. RingInv => LookupFindsNodes
  <2>1. SUFFICES ASSUME crossed = {}, Proper(ring), NEW k \in Keys, NEW found, found = nodesForKey(ring, k)
                 PROVE  /\ \A i \in DOMAIN found : found[i] \in ring.nodes
                        /\ \A i, j \in DOMAIN found : found[i] = found[j] => i = j
    BY DEF RingInv, LookupFindsNodes
  <2>2. QED
    BY <2>1, Found
<1>4. QED
  BY <1>1, <1>2, <1>3, PTL DEF Spec

(* The premise of replicating to nodes[1]: when a node leaves, its keys    *)
(* are looked up where their replicas are, and no other key moves; when    *)
(* one joins, a key stays or moves to it (ring.go, main.go's checkNode).   *)
THEOREM ReplicasTakeOver == Spec => FailsOverToReplica
<1>1. Init => RingInv
  BY RingInit
<1>2. RingInv /\ [Next]_vars => RingInv'
  BY RingStep
<1>3. RingInv /\ RingInv' /\ [Next]_vars => Failover
  <2>1. SUFFICES ASSUME RingInv, RingInv', [Next]_vars, NEW k \in Keys, crossed' = {},
                        ring.nodes # {}, ring'.nodes # {}, PrimaryOf(k)' # PrimaryOf(k)
                 PROVE  IF PrimaryOf(k) \in ring'.nodes
                        THEN PrimaryOf(k)' \notin ring.nodes
                        ELSE PrimaryOf(k)' = ReplicaOf(k)
    BY DEF Failover
  <2>0. crossed = {} /\ HealthInv
    BY <2>1, CrossedGrows DEF RingInv
  <2>2. PICK r : r = ring /\ Proper(r)
    BY <2>0, <2>1 DEF RingInv
  <2>3. PICK q : q = ring' /\ Proper(q)
    BY <2>1 DEF RingInv, Proper
  <2>4. PrimaryOf(k) = Primary(r, k) /\ Primary(r, k) \in r.nodes
    BY <2>1, <2>2, Found DEF PrimaryOf
  <2>5. PrimaryOf(k)' = Primary(q, k)
    <3>1. nodesForKey(q, k)[1] = Primary(q, k)
      BY <2>1, <2>3, Found
    <3>2. PrimaryOf(k)' = nodesForKey(q, k)[1]
      BY <2>3 DEF PrimaryOf, nodesForKey, Primary, Replica, OnRing
    <3>3. QED
      BY <3>1, <3>2
  <2>6. r # q
    BY <2>1, <2>4, <2>5
  <2>7. PICK n \in Nodes : \/ n \notin r.nodes /\ q = addNode(r, n)
                           \/ n \in r.nodes /\ q = removeNode(r, n)
    <3>1. ring' # ring
      BY <2>2, <2>3, <2>6
    <3>2. \E n \in Nodes : \/ n \notin ring.nodes /\ ring' = addNode(ring, n)
                           \/ n \in ring.nodes /\ ring' = removeNode(ring, n)
      BY <2>0, <2>1, <3>1, RingSteps
    <3>3. PICK n \in Nodes : \/ n \notin ring.nodes /\ ring' = addNode(ring, n)
                             \/ n \in ring.nodes /\ ring' = removeNode(ring, n)
      BY <3>2
    <3>4. \/ n \notin r.nodes /\ q = addNode(r, n)
          \/ n \in r.nodes /\ q = removeNode(r, n)
      BY <2>2, <2>3, <3>3, Zenon
    <3>5. QED
      BY <3>4
  <2>8. CASE n \notin r.nodes /\ q = addNode(r, n)
    <3>1. q.nodes = r.nodes \cup {n} /\ q.strat = r.strat
      BY <2>8 DEF addNode
    <3>2. Primary(q, k) = n
      BY <2>1, <2>2, <2>3, <2>4, <2>5, <3>1, JoinMoves
    <3>3. QED
      BY <2>2, <2>3, <2>4, <2>5, <2>8, <3>1, <3>2
  <2>9. CASE n \in r.nodes /\ q = removeNode(r, n)
    <3>1. q.nodes = r.nodes \ {n} /\ q.strat = r.strat
      BY <2>9 DEF removeNode
    <3>2. Primary(q, k) = IF Primary(r, k) = n THEN Replica(r, k) ELSE Primary(r, k)
      BY <2>1, <2>2, <2>3, <2>9, <3>1, LeaveMoves
    <3>3. Primary(r, k) = n /\ Primary(q, k) = Replica(r, k)
      BY <2>1, <2>4, <2>5, <3>2
    <3>4. r.nodes # {Primary(r, k)}
      BY <2>1, <2>3, <3>1, <3>3
    <3>5. nodesForKey(r, k) = <<Primary(r, k), Replica(r, k)>>
      BY <2>1, <2>2, <3>4, Found
    <3>6. ReplicaOf(k) = Replica(r, k)
      BY <2>2, <3>5 DEF ReplicaOf
    <3>7. QED
      BY <2>3, <2>4, <2>5, <3>1, <3>3, <3>6
  <2>10. QED
    BY <2>7, <2>8, <2>9
<1>4. QED
  BY <1>1, <1>2, <1>3, PTL DEF Spec, FailsOverToReplica
=============================================================================
