---------------------------- MODULE RouterHealth ----------------------------
(***************************************************************************)
(* How the Go router (go_router/main.go, circuit_breaker.go) decides which *)
(* cache nodes to use.  A ticker starts a goroutine per node that probes   *)
(* /health: checkNode updates the node's health under healthMu, and after  *)
(* it has unlocked changes the ring and the breaker, each under a lock of  *)
(* its own.  Request goroutines look the key's nodes up in the ring and    *)
(* try them in turn, each call through the node's circuit breaker.         *)
(***************************************************************************)
EXTENDS HashRing, Sequences

CONSTANTS
  Checks,           \* checkNode goroutines that may be in flight for one node
  Unsendable,       \* keys that no request URL can hold, once they are unescaped
  Callers,          \* goroutines in handleGet, behind the local cache
  failThreshold,    \* failed probes before a node is taken out
  cbFailThreshold,  \* failed calls before a circuit opens
  MaxFlips          \* bound: how often a node stops or starts

ASSUME HealthAssumption ==
  /\ Unsendable \subseteq Keys
  /\ failThreshold \in Nat \ {0}
  /\ cbFailThreshold \in Nat \ {0}
  /\ MaxFlips \in Nat

VARIABLES
  up,      \* does the node answer (the nodes' processes and the network)
  health,  \* healthState: Alive and Failures
  check,   \* where each checkNode goroutine is, with its probe's result
  ring,    \* the hash ring
  cb,      \* circuitBreakers: state, failures, and while open, is openTimeout over
  todo,    \* the nodes each request has still to try, the current one first
  sendable, \* can the request's key be put into a URL
  calling, \* is the request's call to its first node in flight
  crossed, \* history: nodes with two changes of the ring pending at once
  flips    \* counts towards MaxFlips

requests == <<todo, sendable, calling>>
vars == <<up, health, check, ring, cb, requests, crossed, flips>>

\* Counters that are only compared with a threshold stop there.
Bump(x, threshold) == IF x < threshold THEN x + 1 ELSE threshold

NewCB == [state |-> "closed", failures |-> 0, elapsed |-> FALSE]

Init ==
  /\ up = [n \in Nodes |-> TRUE]
  /\ health = [n \in Nodes |-> [Alive |-> TRUE, Failures |-> 0]]
  /\ check = [n \in Nodes |-> [c \in Checks |-> "none"]]
  /\ \E strat \in Strategies : ring = FullRing(strat)
  /\ cb = [n \in Nodes |-> NewCB]
  /\ todo = [g \in Callers |-> <<>>]
  /\ sendable = [g \in Callers |-> TRUE]
  /\ calling = [g \in Callers |-> FALSE]
  /\ crossed = {}
  /\ flips = 0

-----------------------------------------------------------------------------
(* The circuit breaker.                                                    *)

\* Mutant of Admits: half-open calls pass.
AdmitsInHalfOpen(b) == b.state \in {"closed", "half_open"} \/ (b.state = "open" /\ b.elapsed)

Admits(b) == b.state = "closed" \/ (b.state = "open" /\ b.elapsed)

\* The state Allow leaves behind when it admits the call.
Allow(b) == IF b.state = "open"
            THEN [b EXCEPT !.state = "half_open", !.elapsed = FALSE] ELSE b

RecordSuccess(b) == [state |-> "closed", failures |-> 0, elapsed |-> FALSE]

\* Mutant of RecordFailure: a failed trial is counted and does not reopen.
RecordFailureByCount(b) ==
  LET failures == Bump(b.failures, cbFailThreshold)
  IN  [state    |-> IF failures >= cbFailThreshold /\ b.state = "closed"
                    THEN "open" ELSE b.state,
       failures |-> failures,
       elapsed  |-> FALSE]

RecordFailure(b) ==
  LET failures == Bump(b.failures, cbFailThreshold)
  IN  [state    |-> IF failures >= cbFailThreshold \/ b.state = "half_open"
                    THEN "open" ELSE b.state,
       failures |-> failures,
       elapsed  |-> FALSE]

Reset(b) == [state |-> "closed", failures |-> 0, elapsed |-> FALSE]

\* Allow: time.Since(lastFailure) has reached openTimeout.
Elapse(b) == [state |-> b.state, failures |-> b.failures, elapsed |-> TRUE]

InFlight(n) == {g \in Callers : calling[g] /\ Head(todo[g]) = n}

(* openTimeout (15 s) passes after the last failure.  An open circuit      *)
(* admits nothing, so a call in flight is older than that failure, and     *)
(* proxyClient.Timeout (5 s) has ended it by then.                         *)
OpenTimeout(n) ==
  /\ cb[n].state = "open"
  /\ ~cb[n].elapsed
  /\ InFlight(n) = {}
  /\ cb' = [cb EXCEPT ![n] = Elapse(cb[n])]
  /\ UNCHANGED <<up, health, check, ring, requests, crossed, flips>>

-----------------------------------------------------------------------------
(* handleGet after a miss in the local cache.                              *)

Lookup(g, k) ==
  /\ todo[g] = <<>>
  /\ todo' = [todo EXCEPT ![g] = nodesForKey(ring, k)]
  /\ sendable' = [sendable EXCEPT ![g] = k \notin Unsendable]
  /\ UNCHANGED <<up, health, check, ring, cb, calling, crossed, flips>>

\* The request goes on with these nodes; when there is none it is over.
GoOn(g, nodes) ==
  /\ todo' = [todo EXCEPT ![g] = nodes]
  /\ sendable' = [sendable EXCEPT ![g] = sendable[g] \/ nodes = <<>>]

\* A node that is not one: circuitBreakers[""] is nil, and Allow panics.
Panic(g) ==
  /\ todo[g] # <<>>
  /\ ~calling[g]
  /\ Head(todo[g]) \notin Nodes
  /\ GoOn(g, <<>>)
  /\ UNCHANGED <<up, health, check, ring, cb, calling, crossed, flips>>

(* callNode up to the sending of the request: the breaker admits the call, *)
(* or the next node is tried.  The error of NewRequestWithContext is       *)
(* ignored: without a request the next line panics, after Allow, and       *)
(* net/http recovers the handler's panic.                                  *)
CallNode(g) ==
  /\ todo[g] # <<>>
  /\ ~calling[g]
  /\ Head(todo[g]) \in Nodes
  /\ LET n == Head(todo[g])
     IN  \/ /\ Admits(cb[n])
            /\ cb' = [cb EXCEPT ![n] = Allow(cb[n])]
            /\ \/ /\ sendable[g]
                  /\ calling' = [calling EXCEPT ![g] = TRUE]
                  /\ UNCHANGED <<todo, sendable>>
               \/ /\ ~sendable[g]
                  /\ GoOn(g, <<>>)
                  /\ UNCHANGED calling
         \/ /\ ~Admits(cb[n])
            /\ GoOn(g, Tail(todo[g]))
            /\ UNCHANGED <<cb, calling>>
  /\ UNCHANGED <<up, health, check, ring, crossed, flips>>

\* The node answered below 500: the response goes to the client.
CallSucceeds(g) ==
  /\ calling[g]
  /\ up[Head(todo[g])]
  /\ cb' = [cb EXCEPT ![Head(todo[g])] = RecordSuccess(cb[Head(todo[g])])]
  /\ todo' = [todo EXCEPT ![g] = <<>>]
  /\ calling' = [calling EXCEPT ![g] = FALSE]
  /\ UNCHANGED <<up, health, check, ring, sendable, crossed, flips>>

\* No answer, a client that left, or (answered) a 5xx, which goes to the client.
CallFails(g) ==
  /\ calling[g]
  /\ cb' = [cb EXCEPT ![Head(todo[g])] = RecordFailure(cb[Head(todo[g])])]
  /\ \E answered \in {FALSE, up[Head(todo[g])]} :
       todo' = [todo EXCEPT ![g] = IF answered THEN <<>> ELSE Tail(todo[g])]
  /\ calling' = [calling EXCEPT ![g] = FALSE]
  /\ UNCHANGED <<up, health, check, ring, sendable, crossed, flips>>

-----------------------------------------------------------------------------
(* checkNode.                                                              *)

\* The ticker starts a check, and its probe is answered or not.
Probe(n, c) ==
  /\ check[n][c] = "none"
  /\ check' = [check EXCEPT ![n][c] = IF up[n] THEN "alive" ELSE "dead"]
  /\ UNCHANGED <<up, health, ring, cb, requests, crossed, flips>>

\* A check of the node has unlocked healthMu and not changed the ring yet.
Changing(n) == \E c \in Checks : check[n][c] \in {"add", "remove"}
Crossed(n)  == IF Changing(n) THEN crossed \cup {n} ELSE crossed

\* Mutant of ProbeAlive: the node is marked alive and not added to the ring.
ProbeAliveMarksOnly(n, c) ==
  /\ check[n][c] = "alive"
  /\ health' = [health EXCEPT ![n] = [Alive |-> TRUE, Failures |-> 0]]
  /\ check' = [check EXCEPT ![n][c] = "none"]
  /\ UNCHANGED <<up, ring, cb, requests, crossed, flips>>

ProbeAlive(n, c) ==
  /\ check[n][c] = "alive"
  /\ health' = [health EXCEPT ![n] = [Alive |-> TRUE, Failures |-> 0]]
  /\ check' = [check EXCEPT ![n][c] = IF health[n].Alive THEN "none" ELSE "add"]
  /\ crossed' = IF health[n].Alive THEN crossed ELSE Crossed(n)
  /\ UNCHANGED <<up, ring, cb, requests, flips>>

ProbeDead(n, c) ==
  LET failures == Bump(health[n].Failures, failThreshold)
      down     == health[n].Alive /\ failures >= failThreshold
  IN  /\ check[n][c] = "dead"
      /\ health' = [health EXCEPT ![n] = [Alive    |-> health[n].Alive /\ ~down,
                                          Failures |-> failures]]
      /\ check' = [check EXCEPT ![n][c] = IF down THEN "remove" ELSE "none"]
      /\ crossed' = IF down THEN Crossed(n) ELSE crossed
      /\ UNCHANGED <<up, ring, cb, requests, flips>>

\* healthMu is not held in these three steps.
RingAdd(n, c) ==
  /\ check[n][c] = "add"
  /\ ring' = addNode(ring, n)
  /\ check' = [check EXCEPT ![n][c] = "reset"]
  /\ UNCHANGED <<up, health, cb, requests, crossed, flips>>

CloseCircuit(n, c) ==
  /\ check[n][c] = "reset"
  /\ cb' = [cb EXCEPT ![n] = Reset(cb[n])]
  /\ check' = [check EXCEPT ![n][c] = "none"]
  /\ UNCHANGED <<up, health, ring, requests, crossed, flips>>

RingRemove(n, c) ==
  /\ check[n][c] = "remove"
  /\ ring' = removeNode(ring, n)
  /\ check' = [check EXCEPT ![n][c] = "none"]
  /\ UNCHANGED <<up, health, cb, requests, crossed, flips>>

-----------------------------------------------------------------------------
Flip(n) ==
  /\ flips < MaxFlips
  /\ flips' = flips + 1
  /\ up' = [up EXCEPT ![n] = ~up[n]]
  /\ UNCHANGED <<health, check, ring, cb, requests, crossed>>

CheckStep(n, c) ==
  \/ Probe(n, c)
  \/ ProbeAlive(n, c) \/ ProbeDead(n, c)
  \/ RingAdd(n, c) \/ CloseCircuit(n, c) \/ RingRemove(n, c)
CallStep(g) == CallNode(g) \/ CallSucceeds(g) \/ CallFails(g) \/ Panic(g)

Next ==
  \/ \E n \in Nodes, c \in Checks : CheckStep(n, c)
  \/ \E g \in Callers : CallStep(g)
  \/ \E g \in Callers, k \in Keys : Lookup(g, k)
  \/ \E n \in Nodes : OpenTimeout(n) \/ Flip(n)

Spec == Init /\ [][Next]_vars

(* proxyClient.Timeout ends every call; requests need not happen.          *)
CallsEnd == Spec /\ \A g \in Callers : WF_vars(CallStep(g))

(* The ticker never stops either, and ends a probe as it does a call;      *)
(* failures need not happen.                                               *)
FairSpec == CallsEnd /\ \A n \in Nodes, c \in Checks : WF_vars(CheckStep(n, c))
-----------------------------------------------------------------------------
(* Properties.                                                             *)

CheckPcs == {"none", "alive", "dead", "add", "reset", "remove"}
CB == [state : {"closed", "open", "half_open"}, failures : 0 .. cbFailThreshold,
       elapsed : BOOLEAN]

(* checkNode's decision and the ring agree again as soon as no goroutine   *)
(* is about to change the ring: a node marked alive gets its traffic, one  *)
(* marked dead gets none.  Checks of a node may overlap in every other     *)
(* way; only when one decides before another, opposite decision has        *)
(* reached the ring may they stay apart.                                   *)
RingFollowsHealth ==
  \A n \in Nodes \ crossed : ~Changing(n) => (health[n].Alive <=> n \in ring.nodes)

(* The walk over the ring ends: ringNodes goes round until it has met as   *)
(* many owners as the ring has nodes, and divides by the ring's length.    *)
WalkEnds ==
  \A n \in Nodes : \A p \in Points[n] :
    IF n \in ring.nodes THEN ring.ring[p] > 0 /\ ring.ringMap[p] = n
                        ELSE ring.ringMap[p] = NoNode

(* nodesForKey returns nodes, and two of them when there are two.          *)
LookupFindsNodes ==
  crossed = {} =>
    \A k \in Keys :
      LET found == nodesForKey(ring, k)
      IN  /\ \A i \in DOMAIN found : found[i] \in ring.nodes
          /\ \A i, j \in DOMAIN found : found[i] = found[j] => i = j

PrimaryOf(k) == nodesForKey(ring, k)[1]
ReplicaOf(k) == nodesForKey(ring, k)[2]

(* Replication's premise: when a key's primary leaves, the node that holds *)
(* its replica takes over, and no other key changes its primary.  When a   *)
(* node joins, a key keeps its primary or goes to the newcomer.            *)
Failover ==
  \A k \in Keys :
    /\ crossed' = {}
    /\ ring.nodes # {} /\ ring'.nodes # {}
    /\ PrimaryOf(k)' # PrimaryOf(k)
    => IF PrimaryOf(k) \in ring'.nodes
       THEN PrimaryOf(k)' \notin ring.nodes
       ELSE PrimaryOf(k)' = ReplicaOf(k)
FailsOverToReplica == [][Failover]_vars

(* The half-open state lets one trial through and nothing behind it: two   *)
(* calls are never in flight to a node that is on trial.                   *)
OneTrial == \A n \in Nodes : cb[n].state = "half_open" => Cardinality(InFlight(n)) <= 1

(* A trial that was sent resolves the half-open state, whatever becomes of *)
(* it and whatever a Reset does meanwhile.  (One that panicked before it   *)
(* was sent does not: then only a Reset ends the state.)                   *)
TrialResolves ==
  \A n \in Nodes :
    cb[n].state = "half_open" /\ InFlight(n) # {} ~> cb[n].state # "half_open"

(* Once nodes stop failing and returning, the ring holds those that        *)
(* answer, and keeps to them.                                              *)
RingSettles == <>[](\A n \in Nodes \ crossed : n \in ring.nodes <=> up[n])
=============================================================================
