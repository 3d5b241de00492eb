------------------------------ MODULE LruNode ------------------------------
(***************************************************************************)
(* The Python cache node (app/lru_cache.py behind app/node_api.py): a      *)
(* dictionary from keys to nodes and a doubly linked list of the nodes,    *)
(* most recently used first.  FastAPI runs the synchronous handlers in a   *)
(* pool of threads and LRUCache has no lock.  A step is what a thread does *)
(* between two points at which the interpreter (3.11) may switch threads:  *)
(* entering a Python function and returning from a built-in such as        *)
(* time.time, len or dict.pop.  So the bodies of _remove and _prepend are  *)
(* steps, and the list is always whole: a sequence of nodes.               *)
(***************************************************************************)
EXTENDS Integers, FiniteSets, Sequences, SequencesExt

CONSTANTS
  Keys, Values,
  Capacity,  \* CAPACITY
  Threads,   \* threads of FastAPI's pool that serve requests
  Nodes,     \* bound: the _Node objects that exist at once
  Writes,    \* bound: the SETs that occur: <<key, value, is there a TTL?>>
  None

ASSUME LruAssumption ==
  /\ Writes \subseteq Keys \X Values \X BOOLEAN
  /\ Capacity \in Nat \ {0}
  /\ None \notin Keys \cup Values \cup Nodes
  /\ IsFiniteSet(Keys) /\ IsFiniteSet(Threads) /\ IsFiniteSet(Nodes)

VARIABLES
  cache,  \* _cache: the node of each key, or None
  order,  \* the list between the sentinels, _head.next first
  node,   \* the _Node objects that are referenced
  req,    \* the request each thread serves
  met     \* history: have requests overlapped ("overlap"), even on one key ("clash")?

vars == <<cache, order, node, req, met>>

Expiries == {"never", "later", "passed"}  \* expires_at: None, in the future, passed
Node == [key : Keys, value : Values, expires : Expiries]
Pcs == {"idle", "check", "expiry", "moveout", "movein", "value",
        "pick", "pop", "unlink", "create"}

Req == [op     : {"none", "get", "set", "delete"},
        pc     : Pcs,
        key    : Keys \cup {None},
        value  : Values \cup {None},  \* of a SET
        ttl    : BOOLEAN,             \* does the SET give one?
        node   : Nodes \cup {None},   \* the local variable node
        out    : Keys \cup {None},    \* the key to delete or to evict
        may    : SUBSET Values]       \* history: what the key held since the GET began

Idle == [op |-> "none", pc |-> "idle", key |-> None, value |-> None, ttl |-> FALSE,
         node |-> None, out |-> None, may |-> {}]

Init ==
  /\ cache = [k \in Keys |-> None]
  /\ order = <<>>
  /\ node = [n \in {} |-> None]
  /\ req = [t \in Threads |-> Idle]
  /\ met = "apart"

Cached == {k \in Keys : cache[k] # None}
Active == {t \in Threads : req[t] # Idle}

\* Reference counting: what neither the dictionary, the list nor a thread
\* refers to is gone.
Live == ({cache[k] : k \in Keys} \cup Range(order) \cup {req[t].node : t \in Threads}) \ {None}
Keep(heap) == node' = [n \in Live' |-> heap[n]]

\* Thread t takes key k in hand.
Meet(t, k) ==
  met' = IF \E u \in Active \ {t} : k # None /\ k \in {req[u].key, req[u].out} THEN "clash"
         ELSE IF Active \ {t} # {} /\ met = "apart" THEN "overlap"
         ELSE met

\* Thread t stores v under k: a GET of k that is under way may return it.
Stored(r, k, v) ==
  [u \in Threads |-> IF r[u].op = "get" /\ r[u].key = k
                     THEN [r[u] EXCEPT !.may = @ \cup {v}] ELSE r[u]]
-----------------------------------------------------------------------------
\* cache.get up to the first point of switching.
Get(t, k) ==
  /\ req[t] = Idle
  /\ LET r == [Idle EXCEPT !.op = "get", !.key = k]
         n == cache[k]
     IN  IF n = None
         THEN UNCHANGED <<req, met>>
         ELSE /\ req' = [req EXCEPT ![t] =
                   [r EXCEPT !.node = n, !.may = {node[n].value},
                             !.pc = IF node[n].expires = "never" THEN "moveout" ELSE "check"]]
              /\ Meet(t, k)
  /\ UNCHANGED <<cache, order, node>>

\* The clock is compared with expires_at, which is read again: if a SET has made it
\* None, the comparison raises TypeError and the request ends, with status 500.
Check(t) ==
  /\ req[t].pc = "check"
  /\ LET r == req[t]
         at == node[r.node].expires
     IN  req' = [req EXCEPT ![t] =
           IF at = "never" THEN Idle
           ELSE IF at = "passed" THEN [r EXCEPT !.pc = "pop", !.out = r.key, !.node = None]
           ELSE [r EXCEPT !.pc = "moveout"]]
  /\ UNCHANGED <<cache, order, met>>
  /\ Keep(node)

Full == Cardinality(Cached) >= Capacity

\* cache.set up to the first point of switching: the value of a cached key is
\* overwritten at once; for a new key the number of keys is compared.
Set(t, k, v, x) ==
  /\ req[t] = Idle
  /\ Nodes \ Live # {}
  /\ LET r == [Idle EXCEPT !.op = "set", !.key = k, !.value = v, !.ttl = x]
         n == cache[k]
     IN  IF n # None
         THEN /\ node' = [node EXCEPT ![n].value = v,
                                      ![n].expires = IF x THEN @ ELSE "never"]
              /\ req' = Stored([req EXCEPT ![t] =
                          [r EXCEPT !.node = n, !.pc = IF x THEN "expiry" ELSE "moveout"]], k, v)
         ELSE /\ req' = [req EXCEPT ![t] =
                   [r EXCEPT !.pc = IF Full THEN "pick" ELSE "create"]]
              /\ UNCHANGED node
  /\ Meet(t, k)
  /\ UNCHANGED <<cache, order>>

Expiry(t) ==
  /\ req[t].pc = "expiry"
  /\ node' = [node EXCEPT ![req[t].node].expires = "later"]
  /\ req' = [req EXCEPT ![t].pc = "moveout"]
  /\ UNCHANGED <<cache, order, met>>

\* Mutant of Victim: the wrong end of the list.
FirstInList == IF order = <<>> THEN None ELSE node[Head(order)].key

\* _tail.prev.key; in an empty list that is the head sentinel, whose key no one has.
Victim == IF order = <<>> THEN None ELSE node[Last(order)].key

Pick(t) ==
  /\ req[t].pc = "pick"
  /\ req' = [req EXCEPT ![t].pc = "pop", ![t].out = Victim]
  /\ Meet(t, Victim)
  /\ UNCHANGED <<cache, order, node>>

Delete(t, k) ==
  /\ req[t] = Idle
  /\ req' = [req EXCEPT ![t] = [Idle EXCEPT !.op = "delete", !.key = k,
                                            !.out = k, !.pc = "pop"]]
  /\ Meet(t, k)
  /\ UNCHANGED <<cache, order, node>>

\* What the caller of delete does next.
AfterDelete(r) ==
  IF r.op = "set" THEN [r EXCEPT !.pc = "create", !.node = None, !.out = None] ELSE Idle

\* Mutant of Forget: delete unlinks the node and leaves the key.
Remember(k) == UNCHANGED cache

Forget(k) == cache' = [cache EXCEPT ![k] = None]

\* delete: test the dictionary and take the key out of it.
Pop(t) ==
  /\ req[t].pc = "pop"
  /\ LET r == req[t]
     IN  IF r.out \in Cached
         THEN /\ Forget(r.out)
              /\ req' = [req EXCEPT ![t] = [r EXCEPT !.pc = "unlink", !.node = cache[r.out]]]
         ELSE /\ UNCHANGED cache
              /\ req' = [req EXCEPT ![t] = AfterDelete(r)]
  /\ UNCHANGED <<order, node, met>>

\* Mutant of Removed: a node that is not in the list is let through.
RemovedOrNot(r, next) == next

\* _remove raises AttributeError for a node that is not in the list, because
\* its prev is None: the request ends, with status 500.
Removed(r, next) == IF r.node \in Range(order) THEN next ELSE Idle

\* The list without node n, the others in their order.
Without(n) ==
  LET at == CHOOSE i \in DOMAIN order : order[i] = n
  IN  IF n \in Range(order)
      THEN [i \in 1 .. Len(order) - 1 |-> IF i < at THEN order[i] ELSE order[i + 1]]
      ELSE order

Unlink(t) ==
  /\ req[t].pc = "unlink"
  /\ order' = Without(req[t].node)
  /\ req' = [req EXCEPT ![t] = Removed(@, AfterDelete(@))]
  /\ UNCHANGED <<cache, met>>
  /\ Keep(node)

MoveOut(t) ==
  /\ req[t].pc = "moveout"
  /\ order' = Without(req[t].node)
  /\ req' = [req EXCEPT ![t] = Removed(@, [@ EXCEPT !.pc = "movein"])]
  /\ UNCHANGED <<cache, met>>
  /\ Keep(node)

\* Mutant of NewNode: an object that has left dictionary and list is used again.
RecycledNode ==
  CHOOSE n \in Nodes \ ({cache[k] : k \in Cached} \cup Range(order)) :
    n \in Live \/ Live \subseteq {cache[k] : k \in Cached} \cup Range(order)

NewNode == CHOOSE n \in Nodes \ Live : TRUE

\* A new node goes into the dictionary before it goes into the list.
Create(t) ==
  /\ req[t].pc = "create"
  /\ Nodes \ Live # {}
  /\ LET r == req[t]
     IN  /\ cache' = [cache EXCEPT ![r.key] = NewNode]
         /\ req' = Stored([req EXCEPT ![t] = [r EXCEPT !.pc = "movein", !.node = NewNode]],
                          r.key, r.value)
         /\ UNCHANGED <<order, met>>
         /\ Keep([n \in Live \cup {NewNode} |->
                    IF n = NewNode
                    THEN [key |-> r.key, value |-> r.value,
                          expires |-> IF r.ttl THEN "later" ELSE "never"]
                    ELSE node[n]])

\* _prepend.  A GET reads the value in the same breath, unless the node has an
\* expires_at: then it reads the clock again first.
MoveIn(t) ==
  /\ req[t].pc = "movein"
  /\ order' = <<req[t].node>> \o order
  /\ req' = [req EXCEPT ![t] = IF @.op = "get" /\ node[@.node].expires # "never"
                               THEN [@ EXCEPT !.pc = "value"] ELSE Idle]
  /\ UNCHANGED <<cache, met>>
  /\ Keep(node)

Value(t) ==
  /\ req[t].pc = "value"
  /\ req' = [req EXCEPT ![t] = Idle]
  /\ UNCHANGED <<cache, order, met>>
  /\ Keep(node)

Lapse(n) ==
  /\ node[n].expires = "later"
  /\ node' = [node EXCEPT ![n].expires = "passed"]
  /\ UNCHANGED <<cache, order, req, met>>

Next ==
  \/ \E t \in Threads :
       \/ \E k \in Keys : Get(t, k) \/ Delete(t, k)
       \/ \E w \in Writes : Set(t, w[1], w[2], w[3])
       \/ Check(t) \/ Expiry(t) \/ Pick(t) \/ Pop(t) \/ Unlink(t)
       \/ MoveOut(t) \/ Create(t) \/ MoveIn(t) \/ Value(t)
  \/ \E n \in DOMAIN node : Lapse(n)

Spec == Init /\ [][Next]_vars
-----------------------------------------------------------------------------
\* The five variables have the shapes the code gives them, and no node is in
\* the list twice, although every thread links and unlinks without a lock.
TypeOK ==
  /\ cache \in [Keys -> Nodes \cup {None}]
  /\ order \in Seq(Nodes) /\ IsInjective(order)
  /\ DOMAIN node = Live /\ \A n \in Live : node[n] \in Node
  /\ req \in [Threads -> Req]
  /\ met \in {"apart", "overlap", "clash"}

\* What a GET would answer with, was stored under its key when it began or
\* later, however its steps interleave with writes, evictions and deletions.
FreshReads ==
  \A t \in Threads : req[t].op = "get" /\ req[t].node \in Nodes /\ req[t].pc # "unlink" =>
    node[req[t].node].value \in req[t].may

\* Whatever interleaves, a key in the dictionary has its node in the list, where
\* eviction finds it, or in the hands of the thread that is about to put it there.
\* And as long as no two requests meet on one key, no request fails (with a TypeError
\* at the clock or an AttributeError at the list), no node stays in the list that
\* the dictionary has lost, and every eviction finds a key to drop.  (When they do
\* meet, each of these happens; and a lost node that has reached the end of the
\* list stops eviction for good.)
DictAndListAgree ==
  /\ \A k \in Cached :
       \/ cache[k] \in Range(order)
       \/ \E t \in Threads : req[t].pc = "movein" /\ req[t].node = cache[k]
  /\ met # "clash" =>
       /\ \A t \in Threads :
            /\ req[t].pc = "check" => node[req[t].node].expires # "never"
            /\ req[t].pc \in {"moveout", "unlink"} => req[t].node \in Range(order)
            /\ req[t].pc = "pop" /\ req[t].op = "set" => req[t].out \in Cached \cup {None}
       /\ \A n \in Range(order) :
            \/ cache[node[n].key] = n
            \/ \E t \in Threads : req[t].pc = "unlink" /\ req[t].node = n

\* The entries as LruPolicy sees them: a request takes effect as a whole, when it
\* decides what to do.  Acting is the request under way, if there is only one.
Acting == IF Active = {} THEN Idle ELSE req[CHOOSE t \in Active : TRUE]

\* What it brings to the front, None for the entry that a SET is about to store.
Arriving(r) ==
  IF r.pc \in {"moveout", "movein", "value"} THEN <<r.node>>
  ELSE IF r.op = "set" THEN <<None>> ELSE <<>>

\* The node that it will take, or has taken, out of its place in the list.
Leaving(r) ==
  CASE r.pc = "check" -> None
    [] r.pc = "pick"  -> IF order = <<>> THEN None ELSE Last(order)
    [] r.pc = "pop"   -> IF r.out \in Cached THEN cache[r.out] ELSE None
    [] OTHER          -> r.node

Line == Arriving(Acting) \o Without(Leaving(Acting))

NewEntry(r) == [key |-> r.key, value |-> r.value, expires |-> IF r.ttl THEN "later" ELSE "never"]

Entries == [i \in DOMAIN Line |-> IF Line[i] = None THEN NewEntry(Acting) ELSE node[Line[i]]]

Policy == INSTANCE LruPolicy WITH entries <- Entries, asked <- Acting

\* Requests that do not overlap see exactly the LRU cache of LruPolicy: a GET moves
\* only the entry of its key, and drops it if and only if its TTL has passed; a SET
\* or DELETE touches its key's entry and the one that has to be dropped.
ImplementsPolicy == Policy!Init /\ [][met' = "apart" => Policy!Next]_Entries
=============================================================================
