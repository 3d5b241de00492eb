--------------------------- MODULE LruNodeProofs ---------------------------
(***************************************************************************)
(* Proofs about LruNode, for any number of keys, threads and objects: its  *)
(* type invariant, that reads are fresh, that the dictionary and the list  *)
(* agree, whatever threads interleave, and that the node implements        *)
(* LruPolicy as long as no two requests overlap.                           *)
(***************************************************************************)
EXTENDS LruNode, SequenceTheorems, FunctionTheorems, FiniteSetTheorems, TLAPS

-----------------------------------------------------------------------------
(* The inductive invariant.                                                *)

Holds == {"check", "expiry", "moveout", "movein", "value", "unlink"}

\* What a request keeps at each of its steps.
ReqOK(r) ==
  /\ r \in Req
  /\ r.pc = "idle" <=> r = Idle
  /\ r.pc # "idle" => r.key \in Keys
  /\ r.node # None <=> r.pc \in Holds
  /\ r.pc \in {"pick", "create"} => r.op = "set"
  /\ r.pc = "check" => r.op = "get"
  /\ r.op = "set" => r.value \in Values
  /\ r.pc = "unlink" => r.out \in Keys
  /\ r.pc \notin {"pop", "unlink"} => r.out = None

Shapes == TypeOK /\ \A t \in Threads : ReqOK(req[t])

\* The key for which a request holds its node.
KeyFor(r) == IF r.pc = "unlink" THEN r.out ELSE r.key

\* Nodes are where their keys say.
Labelled ==
  /\ \A k \in Cached : node[cache[k]].key = k
  /\ \A t \in Threads : req[t].pc \in Holds => node[req[t].node].key = KeyFor(req[t])

\* A node that a thread moves is not in the list, and no other thread moves it.
Lifted ==
  \A t \in Threads : req[t].pc = "movein" =>
    /\ req[t].node \notin Range(order)
    /\ \A u \in Threads \ {t} : req[u].pc = "movein" => req[u].node # req[t].node

\* A node that is about to leave the list has left the dictionary.
Dropped == \A t \in Threads : req[t].pc = "unlink" => cache[req[t].out] # req[t].node

Findable ==
  \A k \in Cached :
    \/ cache[k] \in Range(order)
    \/ \E t \in Threads : req[t].pc = "movein" /\ req[t].node = cache[k]

Hand(r) == {r.key, r.out} \ {None}

\* No key is in two hands.
HandsApart == \A t \in Threads : \A u \in Threads \ {t} : Hand(req[t]) \cap Hand(req[u]) = {}

\* What a request has decided about its keys is still so.
InPlace(t) ==
  /\ req[t].pc \in {"check", "expiry", "moveout", "movein"} => cache[req[t].key] = req[t].node
  /\ req[t].pc \in {"check", "expiry", "moveout", "unlink"} => req[t].node \in Range(order)
  /\ req[t].op = "set" /\ req[t].pc \in {"pick", "pop", "unlink", "create"}
       => cache[req[t].key] = None
  /\ req[t].op = "set" /\ req[t].pc = "pop" => req[t].out \in Cached \cup {None}

\* A node in the list is its key's, or is about to be taken out.
NoStrays ==
  \A n \in Range(order) :
    \/ cache[node[n].key] = n
    \/ \E t \in Threads : req[t].pc = "unlink" /\ req[t].node = n

\* A GET that reads the clock has an expiry time to compare it with.
Dated == \A t \in Threads : req[t].pc = "check" => node[req[t].node].expires # "never"

\* While no two requests have met on a key.
Orderly == HandsApart /\ (\A t \in Threads : InPlace(t)) /\ NoStrays /\ Dated

LruInv ==
  /\ Shapes /\ Labelled /\ Lifted /\ Dropped /\ Findable /\ FreshReads
  /\ met # "clash" => Orderly

-----------------------------------------------------------------------------
(* _remove and _prepend.                                                   *)

ListOK == order \in Seq(Nodes) /\ IsInjective(order)

LEMMA ListRange ==
  ASSUME ListOK
  PROVE  /\ Len(order) \in Nat /\ DOMAIN order = 1 .. Len(order)
         /\ Range(order) \subseteq Nodes
         /\ \A n : n \in Range(order) <=> \E i \in 1 .. Len(order) : order[i] = n
         /\ \A i, j \in 1 .. Len(order) : order[i] = order[j] => i = j
BY LenProperties, ElementOfSeq DEF ListOK, Range, IsInjective

LEMMA WithoutNode ==
  ASSUME ListOK, NEW n, order' = Without(n)
  PROVE  ListOK' /\ Range(order') = Range(order) \ {n}
<1> DEFINE at == CHOOSE i \in DOMAIN order : order[i] = n
<1>1. CASE n \notin Range(order)
  BY <1>1 DEF Without, ListOK
<1>2. CASE n \in Range(order)
  <2>1. at \in 1 .. Len(order) /\ order[at] = n
    BY <1>2, ListRange
  <2>2. order' = [i \in 1 .. Len(order) - 1 |-> IF i < at THEN order[i] ELSE order[i + 1]]
    BY <1>2 DEF Without
  <2> HIDE DEF at
  <2>3. Len(order) \in Nat /\ \A i \in 1 .. Len(order) : order[i] \in Nodes
    BY ListRange DEF ListOK
  <2>4. order' \in [1 .. Len(order) - 1 -> Nodes] /\ Len(order) - 1 \in Nat
    BY <2>1, <2>2, <2>3
  <2>5. order' \in Seq(Nodes) /\ DOMAIN order' = 1 .. Len(order) - 1
    BY <2>4, SeqDef
  <2> DEFINE up(i) == IF i < at THEN i ELSE i + 1
  <2>6. \A i \in 1 .. Len(order) - 1 : up(i) \in 1 .. Len(order) /\ up(i) # at /\ order'[i] = order[up(i)]
    BY <2>1, <2>2, <2>3
  <2>7. \A i, j \in 1 .. Len(order) - 1 : order'[i] = order'[j] => i = j
    <3> SUFFICES ASSUME NEW i \in 1 .. Len(order) - 1, NEW j \in 1 .. Len(order) - 1,
                        order'[i] = order'[j]
                 PROVE  i = j
      OBVIOUS
    <3>1. up(i) = up(j)
      BY <2>6, ListRange
    <3>2. QED
      BY <2>1, <2>3, <3>1
  <2>8. \A i \in 1 .. Len(order) : i # at => \E j \in 1 .. Len(order) - 1 : up(j) = i
    <3> SUFFICES ASSUME NEW i \in 1 .. Len(order), i # at
                 PROVE  \E j \in 1 .. Len(order) - 1 : up(j) = i
      OBVIOUS
    <3>1. CASE i < at
      <4>1. i \in 1 .. Len(order) - 1 /\ up(i) = i
        BY <2>1, <2>3, <3>1
      <4>2. QED
        BY <4>1
    <3>2. CASE i > at
      <4>1. i - 1 \in 1 .. Len(order) - 1 /\ up(i - 1) = i
        BY <2>1, <2>3, <3>2
      <4>2. QED
        BY <4>1
    <3>3. QED
      BY <2>1, <2>3, <3>1, <3>2
  <2> HIDE DEF up
  <2>9. \A m : m \in Range(order') <=> \E i \in 1 .. Len(order) - 1 : order'[i] = m
    BY <2>5 DEF Range
  <2>10. \A m : m \in Range(order') => m \in Range(order) /\ m # n
    BY <2>1, <2>6, <2>9, ListRange
  <2>11. \A m \in Range(order) \ {n} : m \in Range(order')
    <3> SUFFICES ASSUME NEW m \in Range(order) \ {n} PROVE m \in Range(order')
      OBVIOUS
    <3>1. PICK i \in 1 .. Len(order) : order[i] = m
      BY ListRange
    <3>2. PICK j \in 1 .. Len(order) - 1 : up(j) = i
      BY <2>1, <2>8, <3>1
    <3>3. QED
      BY <2>6, <2>9, <3>1, <3>2
  <2>12. QED
    BY <2>5, <2>7, <2>10, <2>11 DEF ListOK, IsInjective
<1>3. QED
  BY <1>1, <1>2

LEMMA InFront ==
  ASSUME ListOK, NEW n \in Nodes \ Range(order), order' = <<n>> \o order
  PROVE  ListOK' /\ Range(order') = Range(order) \cup {n}
<1>1. <<n>> \in Seq(Nodes) /\ Len(<<n>>) = 1 /\ <<n>>[1] = n
  OBVIOUS
<1>2. /\ order' \in Seq(Nodes) /\ Len(order') = 1 + Len(order)
      /\ \A i \in 1 .. 1 + Len(order) : order'[i] = IF i =< 1 THEN n ELSE order[i - 1]
  BY <1>1, ListRange, ConcatProperties DEF ListOK
<1>3. DOMAIN order' = 1 .. 1 + Len(order) /\ Len(order) \in Nat
  BY <1>2, LenProperties, ListRange
<1>4. \A i, j \in 1 .. 1 + Len(order) : order'[i] = order'[j] => i = j
  BY <1>2, <1>3, ListRange
<1>5. \A m : m \in Range(order') <=> \E i \in 1 .. 1 + Len(order) : order'[i] = m
  BY <1>3 DEF Range
<1>6. \A m : m \in Range(order') => m \in Range(order) \cup {n}
  <2> SUFFICES ASSUME NEW i \in 1 .. 1 + Len(order) PROVE order'[i] \in Range(order) \cup {n}
    BY <1>5
  <2>1. CASE i =< 1
    BY <1>2, <2>1
  <2>2. CASE i > 1
    <3>1. i - 1 \in 1 .. Len(order) /\ order'[i] = order[i - 1]
      BY <1>2, <1>3, <2>2
    <3>2. QED
      BY <3>1, ListRange
  <2>3. QED
    BY <2>1, <2>2
<1>7. n \in Range(order')
  BY <1>2, <1>3, <1>5
<1>8. \A m \in Range(order) : m \in Range(order')
  <2> SUFFICES ASSUME NEW m \in Range(order) PROVE m \in Range(order')
    OBVIOUS
  <2>1. PICK i \in 1 .. Len(order) : order[i] = m
    BY ListRange
  <2>2. i + 1 \in 1 .. 1 + Len(order) /\ order'[i + 1] = m
    BY <1>2, <1>3, <2>1
  <2>3. QED
    BY <1>5, <2>2
<1>9. QED
  BY <1>2, <1>3, <1>4, <1>6, <1>7, <1>8 DEF ListOK, IsInjective

-----------------------------------------------------------------------------
(* What each step does to the requests.                                    *)

\* Another thread's step changes nothing of a request but its history.
Same(u) ==
  /\ req'[u].op = req[u].op /\ req'[u].pc = req[u].pc /\ req'[u].key = req[u].key
  /\ req'[u].value = req[u].value /\ req'[u].node = req[u].node /\ req'[u].out = req[u].out
  /\ req[u] = Idle => req'[u] = Idle
  /\ req[u].may \subseteq req'[u].may

Moves(t) ==
  /\ req' \in [Threads -> Req]
  /\ \A u \in Threads \ {t} : Same(u)
  /\ ReqOK(req'[t])

Becomes(t, pc, n, out) ==
  /\ req'[t].pc = pc /\ req'[t].node = n /\ req'[t].out = out
  /\ req'[t].op = req[t].op /\ req'[t].key = req[t].key
  /\ req'[t].value = req[t].value /\ req'[t].ttl = req[t].ttl /\ req'[t].may = req[t].may

Ends(t) == req'[t] = Idle

LEMMA IdleOK == ReqOK(Idle) /\ Idle.node = None /\ Idle.out = None /\ Idle.pc = "idle" /\ Idle.op = "none" /\ Idle.key = None
BY DEF Idle, ReqOK, Req, Pcs, Holds

LEMMA MovesOK ==
  ASSUME Shapes, NEW t \in Threads, Moves(t)
  PROVE  \A u \in Threads : ReqOK(req'[u])
<1> SUFFICES ASSUME NEW u \in Threads \ {t} PROVE ReqOK(req'[u])
  BY DEF Moves
<1>1. Same(u) /\ req'[u] \in Req /\ ReqOK(req[u])
  BY DEF Moves, Shapes
<1>2. QED
  BY <1>1, IdleOK DEF Same, ReqOK

LEMMA PlainMove ==
  ASSUME Shapes, NEW t \in Threads, NEW x, ReqOK(x), req' = [req EXCEPT ![t] = x]
  PROVE  Moves(t) /\ req'[t] = x
BY DEF Shapes, TypeOK, Moves, Same, ReqOK

LEMMA StoredMove ==
  ASSUME Shapes, NEW t \in Threads, NEW x, ReqOK(x), x.op # "get",
         NEW k \in Keys, NEW v \in Values,
         req' = Stored([req EXCEPT ![t] = x], k, v)
  PROVE  Moves(t) /\ req'[t] = x
         /\ \A u \in Threads \ {t} : req[u].op = "get" /\ req[u].key = k => v \in req'[u].may
<1> DEFINE r == [req EXCEPT ![t] = x]
<1>1. r \in [Threads -> Req] /\ r[t] = x /\ \A u \in Threads \ {t} : r[u] = req[u]
  BY DEF Shapes, TypeOK, ReqOK
<1>2. req' = [u \in Threads |-> IF r[u].op = "get" /\ r[u].key = k
                               THEN [r[u] EXCEPT !.may = r[u].may \cup {v}] ELSE r[u]]
  BY DEF Stored
<1> HIDE DEF r
<1>3. req'[t] = x
  BY <1>1, <1>2
<1>4. ASSUME NEW u \in Threads \ {t}
      PROVE  /\ req'[u] \in Req /\ Same(u)
             /\ req[u].op = "get" /\ req[u].key = k => v \in req'[u].may
  <2>1. CASE req[u].op = "get" /\ req[u].key = k
    <3>1. req'[u] = [req[u] EXCEPT !.may = req[u].may \cup {v}] /\ req[u] \in Req
      BY <1>1, <1>2, <2>1
    <3>2. req[u] # Idle
      BY <2>1, IdleOK
    <3>3. /\ req'[u].op = req[u].op /\ req'[u].pc = req[u].pc /\ req'[u].key = req[u].key
          /\ req'[u].value = req[u].value /\ req'[u].node = req[u].node
          /\ req'[u].out = req[u].out /\ req'[u].may = req[u].may \cup {v}
      BY <3>1 DEF Req
    <3>4. req'[u] \in Req
      <4>1. req[u].may \cup {v} \in SUBSET Values
        BY <3>1 DEF Req
      <4>2. QED
        BY <3>1, <4>1 DEF Req
    <3>5. QED
      BY <3>2, <3>3, <3>4 DEF Same
  <2>2. CASE ~(req[u].op = "get" /\ req[u].key = k)
    BY <1>1, <1>2, <2>2 DEF Same
  <2>3. QED
    BY <2>1, <2>2
<1>5. req' \in [Threads -> Req]
  BY <1>1, <1>2, <1>3, <1>4 DEF ReqOK
<1>6. QED
  BY <1>3, <1>4, <1>5 DEF Moves

LEMMA GetMoves ==
  ASSUME Shapes, NEW t \in Threads, NEW k \in Keys, Get(t, k), cache[k] # None
  PROVE  /\ Moves(t) /\ req[t] = Idle /\ Meet(t, k) /\ UNCHANGED <<cache, order, node>>
         /\ req'[t].op = "get" /\ req'[t].pc \in {"check", "moveout"} /\ req'[t].key = k
         /\ req'[t].node = cache[k] /\ req'[t].out = None
         /\ req'[t].may = {node[cache[k]].value}
         /\ req'[t].pc = "check" <=> node[cache[k]].expires # "never"
<1> DEFINE n == cache[k]
           x == [op |-> "get", pc |-> IF node[n].expires = "never" THEN "moveout" ELSE "check",
                 key |-> k, value |-> None, ttl |-> FALSE, node |-> n, out |-> None,
                 may |-> {node[n].value}]
<1>1. n \in Nodes /\ n \in Live
  BY DEF Shapes, TypeOK, Live
<1>2. node[n] \in Node
  BY <1>1 DEF Shapes, TypeOK
<1>3. req' = [req EXCEPT ![t] = x]
  BY DEF Get, Idle
<1>4. x \in Req
  BY <1>1, <1>2 DEF Req, Pcs, Node
<1>5. ReqOK(x)
  BY <1>1, <1>4, LruAssumption DEF ReqOK, Holds, Idle
<1>6. Moves(t) /\ req'[t] = x
  BY <1>3, <1>5, PlainMove, Zenon
<1>7. QED
  BY <1>6 DEF Get

LEMMA CheckMoves ==
  ASSUME Shapes, NEW t \in Threads, Check(t)
  PROVE  /\ Moves(t) /\ req[t].pc = "check" /\ Keep(node) /\ UNCHANGED <<cache, order, met>>
         /\ \/ node[req[t].node].expires = "never" /\ Ends(t)
            \/ node[req[t].node].expires = "passed" /\ Becomes(t, "pop", None, req[t].key)
            \/ /\ node[req[t].node].expires \notin {"never", "passed"}
               /\ Becomes(t, "moveout", req[t].node, None)
<1> DEFINE r == req[t]
           at == node[r.node].expires
<1>1. ReqOK(r) /\ r.pc = "check" /\ r.out = None /\ r # Idle /\ r.key \in Keys
  BY DEF Check, Shapes, ReqOK
<1>2. CASE at = "passed"
  <2> DEFINE x == [r EXCEPT !.pc = "pop", !.out = r.key, !.node = None]
  <2>0. req' = [req EXCEPT ![t] = x]
    BY <1>2 DEF Check
  <2>1. ReqOK(x)
    BY <1>1 DEF ReqOK, Req, Pcs, Holds, Idle
  <2>2. Moves(t) /\ req'[t] = x
    BY <2>0, <2>1, PlainMove, Zenon
  <2>3. Becomes(t, "pop", None, req[t].key)
    BY <1>1, <2>2 DEF Becomes, ReqOK, Req
  <2>4. QED
    BY <1>2, <2>2, <2>3 DEF Check
<1>3. CASE at \notin {"never", "passed"}
  <2> DEFINE x == [r EXCEPT !.pc = "moveout"]
  <2>0. req' = [req EXCEPT ![t] = x]
    BY <1>3 DEF Check
  <2>1. ReqOK(x)
    BY <1>1 DEF ReqOK, Req, Pcs, Holds, Idle
  <2>2. Moves(t) /\ req'[t] = x
    BY <2>0, <2>1, PlainMove, Zenon
  <2>3. Becomes(t, "moveout", req[t].node, None)
    BY <1>1, <2>2 DEF Becomes, ReqOK, Req
  <2>4. QED
    BY <1>3, <2>2, <2>3 DEF Check
<1>4. CASE at = "never"
  <2>1. req' = [req EXCEPT ![t] = Idle]
    BY <1>4 DEF Check
  <2>2. Moves(t) /\ req'[t] = Idle
    BY <2>1, IdleOK, PlainMove
  <2>3. QED
    BY <1>4, <2>2 DEF Check, Ends
<1>5. QED
  BY <1>2, <1>3, <1>4

LEMMA ExpiryMoves ==
  ASSUME Shapes, NEW t \in Threads, Expiry(t)
  PROVE  /\ Moves(t) /\ req[t].pc = "expiry" /\ UNCHANGED <<cache, order, met>>
         /\ node' = [node EXCEPT ![req[t].node].expires = "later"]
         /\ Becomes(t, "moveout", req[t].node, None)
<1> DEFINE r == req[t]
           x == [r EXCEPT !.pc = "moveout"]
<1>1. ReqOK(r) /\ r.pc = "expiry" /\ r.out = None /\ r # Idle /\ r.key \in Keys
  BY DEF Expiry, Shapes, ReqOK
<1>2. req' = [req EXCEPT ![t] = x]
  BY DEF Expiry, Shapes, TypeOK
<1>3. ReqOK(x)
  BY <1>1 DEF ReqOK, Req, Pcs, Holds, Idle
<1>4. Moves(t) /\ req'[t] = x
  BY <1>2, <1>3, PlainMove, Zenon
<1>5. Becomes(t, "moveout", req[t].node, None)
  BY <1>1, <1>4 DEF Becomes, ReqOK, Req
<1>6. QED
  BY <1>4, <1>5 DEF Expiry

LEMMA PickMoves ==
  ASSUME Shapes, NEW t \in Threads, Pick(t)
  PROVE  /\ Moves(t) /\ req[t].pc = "pick" /\ Meet(t, Victim) /\ UNCHANGED <<cache, order, node>>
         /\ Becomes(t, "pop", None, Victim)
         /\ Victim # None => \E n \in Range(order) : Victim = node[n].key
<1> DEFINE r == req[t]
           x == [r EXCEPT !.pc = "pop", !.out = Victim]
<1>1. ReqOK(r) /\ r.pc = "pick" /\ r.node = None /\ r # Idle /\ r.key \in Keys
  BY DEF Pick, Shapes, ReqOK, Holds
<1>2. /\ Victim \in Keys \cup {None}
      /\ Victim # None => \E n \in Range(order) : Victim = node[n].key
  <2>1. CASE order = <<>>
    BY <2>1 DEF Victim
  <2>2. CASE order # <<>>
    <3>1. order \in Seq(Nodes) /\ Len(order) \in 1 .. Len(order) /\ ListOK
      BY <2>2, EmptySeq, LenProperties DEF Shapes, TypeOK, ListOK
    <3>2. Last(order) \in Range(order) /\ Last(order) \in Nodes
      BY <3>1, ListRange DEF Last
    <3>3. Last(order) \in Live
      BY <3>2, LruAssumption DEF Live
    <3>4. node[Last(order)] \in Node
      BY <3>3 DEF Shapes, TypeOK
    <3>5. QED
      BY <2>2, <3>2, <3>4 DEF Victim, Node
  <2>3. QED
    BY <2>1, <2>2
<1>3. req' = [req EXCEPT ![t] = x]
  BY DEF Pick, Shapes, TypeOK
<1> HIDE DEF x
<1>4. x = [r EXCEPT !.pc = "pop", !.out = Victim]
  BY DEF x
<1>5. ReqOK(x)
  BY <1>1, <1>2, <1>4 DEF ReqOK, Req, Pcs, Holds, Idle
<1>6. Moves(t) /\ req'[t] = x
  BY <1>3, <1>5, PlainMove
<1>7. Becomes(t, "pop", None, Victim)
  BY <1>1, <1>4, <1>6 DEF Becomes, ReqOK, Req
<1>8. QED
  BY <1>2, <1>6, <1>7 DEF Pick

LEMMA SetMoves ==
  ASSUME Shapes, NEW t \in Threads, NEW k \in Keys, NEW v \in Values, NEW x \in BOOLEAN, Set(t, k, v, x)
  PROVE  /\ Moves(t) /\ req[t] = Idle /\ Meet(t, k) /\ UNCHANGED <<cache, order>>
         /\ req'[t].op = "set" /\ req'[t].key = k /\ req'[t].out = None
         /\ req'[t].node = cache[k] /\ req'[t].value = v /\ req'[t].ttl = x
         /\ \/ /\ cache[k] = None /\ node' = node
               /\ req'[t].pc = IF Full THEN "pick" ELSE "create"
            \/ /\ cache[k] # None /\ req'[t].pc = IF x THEN "expiry" ELSE "moveout"
               /\ \E e \in Node : /\ e.key = node[cache[k]].key /\ e.value = v
                                  /\ x \/ e.expires = "never"
                                  /\ node' = [node EXCEPT ![cache[k]] = e]
               /\ \A u \in Threads \ {t} : req[u].op = "get" /\ req[u].key = k => v \in req'[u].may
<1> DEFINE n == cache[k]
           base == [Idle EXCEPT !.op = "set", !.key = k, !.value = v, !.ttl = x]
           r == [base EXCEPT !.node = n, !.pc = IF x THEN "expiry" ELSE "moveout"]
           p == [base EXCEPT !.pc = IF Full THEN "pick" ELSE "create"]
<1>1. n \in Nodes \cup {None}
  BY DEF Shapes, TypeOK
<1>2. CASE n # None
  <2>1. n \in Live /\ node[n] \in Node /\ n \in DOMAIN node
    BY <1>1, <1>2 DEF Shapes, TypeOK, Live
  <2>2. /\ r \in Req /\ r.op = "set" /\ r.pc = (IF x THEN "expiry" ELSE "moveout") /\ r.key = k
        /\ r.value = v /\ r.ttl = x /\ r.node = n /\ r.out = None
    BY <1>1, IdleOK DEF ReqOK, Req, Pcs
  <2>3. req' = Stored([req EXCEPT ![t] = r], k, v)
    BY <1>2, Zenon DEF Set
  <2>4. /\ node' = [node EXCEPT ![n].value = v, ![n].expires = IF x THEN @ ELSE "never"]
        /\ req[t] = Idle /\ Meet(t, k) /\ UNCHANGED <<cache, order>>
    BY <1>2 DEF Set
  <2> HIDE DEF r, base
  <2>5. ReqOK(r)
    BY <1>2, <2>2, LruAssumption, IdleOK DEF ReqOK, Holds
  <2>7. /\ Moves(t) /\ req'[t] = r
        /\ \A u \in Threads \ {t} : req[u].op = "get" /\ req[u].key = k => v \in req'[u].may
    BY <2>2, <2>3, <2>5, StoredMove
  <2>8. \E e \in Node : /\ e.key = node[n].key /\ e.value = v /\ (x \/ e.expires = "never")
                       /\ node' = [node EXCEPT ![n] = e]
    <3>1. PICK d \in Expiries : d = IF x THEN node[n].expires ELSE "never"
      BY <2>1 DEF Node, Expiries
    <3> DEFINE e == [node[n] EXCEPT !.value = v, !.expires = d]
    <3>2. node' = [node EXCEPT ![n] = e]
      BY <2>1, <2>4, <3>1 DEF Node
    <3>3. e \in Node /\ e.key = node[n].key /\ e.value = v /\ (x \/ e.expires = "never")
      BY <2>1, <3>1 DEF Node
    <3>4. QED
      BY <3>2, <3>3, Zenon
  <2>9. QED
    BY <1>2, <2>2, <2>4, <2>7, <2>8
<1>3. CASE n = None
  <2>1. /\ p \in Req /\ p.op = "set" /\ p.pc = (IF Full THEN "pick" ELSE "create") /\ p.key = k
        /\ p.value = v /\ p.ttl = x /\ p.node = None /\ p.out = None
    BY IdleOK DEF ReqOK, Req, Pcs
  <2>2. req' = [req EXCEPT ![t] = p]
    BY <1>3, Zenon DEF Set
  <2> HIDE DEF p, base
  <2>4. ReqOK(p)
    BY <2>1, LruAssumption, IdleOK DEF ReqOK, Holds
  <2>5. Moves(t) /\ req'[t] = p
    BY <2>2, <2>4, PlainMove
  <2>6. QED
    BY <1>3, <2>1, <2>5 DEF Set
<1>4. QED
  BY <1>2, <1>3

LEMMA DeleteMoves ==
  ASSUME Shapes, NEW t \in Threads, NEW k \in Keys, Delete(t, k)
  PROVE  /\ Moves(t) /\ req[t] = Idle /\ Meet(t, k) /\ UNCHANGED <<cache, order, node>>
         /\ req'[t].op = "delete" /\ req'[t].pc = "pop" /\ req'[t].key = k
         /\ req'[t].node = None /\ req'[t].out = k
<1> DEFINE x == [Idle EXCEPT !.op = "delete", !.key = k, !.out = k, !.pc = "pop"]
<1>1. /\ x \in Req /\ x.op = "delete" /\ x.pc = "pop" /\ x.key = k /\ x.node = None /\ x.out = k
  BY IdleOK DEF ReqOK, Req, Pcs
<1>2. req' = [req EXCEPT ![t] = x]
  BY Zenon DEF Delete
<1> HIDE DEF x
<1>4. ReqOK(x)
  BY <1>1, LruAssumption, IdleOK DEF ReqOK, Holds
<1>5. Moves(t) /\ req'[t] = x
  BY <1>2, <1>4, PlainMove
<1>6. QED
  BY <1>1, <1>5 DEF Delete

\* After a delete, its caller ends or goes on to create an entry.
LEMMA AfterDeleteOK ==
  ASSUME NEW r, ReqOK(r), r.pc \in {"pop", "unlink"}
  PROVE  /\ ReqOK(AfterDelete(r))
         /\ \/ AfterDelete(r) = Idle
            \/ /\ r.op = "set" /\ AfterDelete(r).op = "set"
               /\ AfterDelete(r).pc = "create" /\ AfterDelete(r).node = None
               /\ AfterDelete(r).out = None /\ AfterDelete(r).key = r.key
               /\ AfterDelete(r).value = r.value /\ AfterDelete(r).ttl = r.ttl
               /\ AfterDelete(r).may = r.may
<1>1. CASE r.op = "set"
  <2>1. AfterDelete(r) = [r EXCEPT !.pc = "create", !.node = None, !.out = None]
    BY <1>1 DEF AfterDelete
  <2>2. r \in Req /\ r # Idle
    BY IdleOK DEF ReqOK
  <2>3. AfterDelete(r) \in Req
    BY <2>1, <2>2 DEF Req, Pcs
  <2>4. /\ AfterDelete(r).op = r.op /\ AfterDelete(r).pc = "create" /\ AfterDelete(r).node = None
        /\ AfterDelete(r).out = None /\ AfterDelete(r).key = r.key
        /\ AfterDelete(r).value = r.value /\ AfterDelete(r).ttl = r.ttl
        /\ AfterDelete(r).may = r.may
    BY <2>1, <2>2 DEF Req
  <2>5. AfterDelete(r) # Idle
    BY <2>4, IdleOK
  <2>6. QED
    BY <1>1, <2>2, <2>3, <2>4, <2>5 DEF ReqOK, Holds
<1>2. CASE r.op # "set"
  BY <1>2, IdleOK DEF AfterDelete
<1>3. QED
  BY <1>1, <1>2

Proceeds(t) ==
  \/ Ends(t)
  \/ req[t].op = "set" /\ Becomes(t, "create", None, None)

LEMMA PopMoves ==
  ASSUME Shapes, NEW t \in Threads, Pop(t)
  PROVE  /\ Moves(t) /\ req[t].pc = "pop" /\ req[t].node = None /\ UNCHANGED <<order, node, met>>
         /\ \/ /\ req[t].out \in Cached /\ cache' = [cache EXCEPT ![req[t].out] = None]
               /\ Becomes(t, "unlink", cache[req[t].out], req[t].out)
            \/ /\ req[t].out \notin Cached /\ cache' = cache
               /\ Proceeds(t)
<1> DEFINE r == req[t]
           x == [r EXCEPT !.pc = "unlink", !.node = cache[r.out]]
<1>1. ReqOK(r) /\ r.pc = "pop" /\ r.node = None /\ r # Idle /\ r.key \in Keys
  BY DEF Pop, Shapes, ReqOK, Holds
<1>2. CASE r.out \in Cached
  <2>1. req' = [req EXCEPT ![t] = x] /\ cache' = [cache EXCEPT ![r.out] = None]
    BY <1>2 DEF Pop, Forget
  <2>2. cache[r.out] \in Nodes /\ r.out \in Keys
    BY <1>2 DEF Cached, Shapes, TypeOK
  <2>3. ReqOK(x)
    BY <1>1, <2>2, LruAssumption DEF ReqOK, Req, Pcs, Holds, Idle
  <2>4. Moves(t) /\ req'[t] = x
    BY <2>1, <2>3, PlainMove, Zenon
  <2>5. Becomes(t, "unlink", cache[r.out], r.out)
    BY <1>1, <2>4 DEF Becomes, ReqOK, Req
  <2>6. QED
    BY <1>1, <1>2, <2>1, <2>4, <2>5 DEF Pop
<1>3. CASE r.out \notin Cached
  <2>1. req' = [req EXCEPT ![t] = AfterDelete(r)] /\ cache' = cache
    BY <1>3 DEF Pop
  <2>2. Moves(t) /\ req'[t] = AfterDelete(r)
    BY <1>1, <2>1, AfterDeleteOK, PlainMove
  <2>3. Proceeds(t)
    BY <1>1, <2>2, AfterDeleteOK DEF Proceeds, Ends, Becomes
  <2>4. QED
    BY <1>1, <1>3, <2>1, <2>2, <2>3 DEF Pop
<1>4. QED
  BY <1>2, <1>3

LEMMA UnlinkMoves ==
  ASSUME Shapes, NEW t \in Threads, Unlink(t)
  PROVE  /\ Moves(t) /\ req[t].pc = "unlink" /\ Keep(node) /\ UNCHANGED <<cache, met>>
         /\ order' = Without(req[t].node)
         /\ Proceeds(t)
<1> DEFINE r == req[t]
           x == Removed(r, AfterDelete(r))
<1>1. ReqOK(r) /\ r.pc = "unlink"
  BY DEF Unlink, Shapes
<1>2. ReqOK(x) /\ (x = Idle \/ x = AfterDelete(r))
  BY <1>1, AfterDeleteOK, IdleOK DEF Removed
<1>3. req' = [req EXCEPT ![t] = x]
  BY DEF Unlink, Shapes, TypeOK
<1>4. Moves(t) /\ req'[t] = x
  BY <1>2, <1>3, PlainMove, Zenon
<1>5. Proceeds(t)
  BY <1>1, <1>2, <1>4, AfterDeleteOK DEF Proceeds, Ends, Becomes
<1>6. QED
  BY <1>1, <1>4, <1>5 DEF Unlink

LEMMA MoveOutMoves ==
  ASSUME Shapes, NEW t \in Threads, MoveOut(t)
  PROVE  /\ Moves(t) /\ req[t].pc = "moveout" /\ Keep(node) /\ UNCHANGED <<cache, met>>
         /\ order' = Without(req[t].node)
         /\ \/ req[t].node \notin Range(order) /\ Ends(t)
            \/ req[t].node \in Range(order) /\ Becomes(t, "movein", req[t].node, None)
<1> DEFINE r == req[t]
           x == [r EXCEPT !.pc = "movein"]
<1>1. ReqOK(r) /\ r.pc = "moveout" /\ r.out = None /\ r # Idle /\ r.key \in Keys
  BY DEF MoveOut, Shapes, ReqOK
<1>2. ReqOK(x)
  BY <1>1 DEF ReqOK, Req, Pcs, Holds, Idle
<1>3. req' = [req EXCEPT ![t] = Removed(r, x)]
  BY DEF MoveOut, Shapes, TypeOK
<1>4. CASE r.node \in Range(order)
  <2>1. Moves(t) /\ req'[t] = x
    BY <1>2, <1>3, <1>4, PlainMove, Zenon DEF Removed
  <2>2. Becomes(t, "movein", r.node, None)
    BY <1>1, <2>1 DEF Becomes, ReqOK, Req
  <2>3. QED
    BY <1>1, <1>4, <2>1, <2>2 DEF MoveOut
<1>5. CASE r.node \notin Range(order)
  <2>1. Moves(t) /\ req'[t] = Idle
    BY <1>3, <1>5, IdleOK, PlainMove DEF Removed
  <2>2. QED
    BY <1>1, <1>5, <2>1 DEF MoveOut, Ends
<1>6. QED
  BY <1>4, <1>5

CreatesNode(r, e) ==
  Keep([n \in Live \cup {NewNode} |->
         IF n = NewNode THEN [key |-> r.key, value |-> r.value, expires |-> e] ELSE node[n]])

LEMMA CreateMoves ==
  ASSUME Shapes, NEW t \in Threads, Create(t)
  PROVE  /\ Moves(t) /\ req[t].pc = "create" /\ req[t].node = None /\ UNCHANGED <<order, met>>
         /\ NewNode \in Nodes \ Live /\ cache' = [cache EXCEPT ![req[t].key] = NewNode]
         /\ CreatesNode(req[t], IF req[t].ttl THEN "later" ELSE "never")
         /\ Becomes(t, "movein", NewNode, None)
         /\ \A u \in Threads \ {t} :
              req[u].op = "get" /\ req[u].key = req[t].key => req[t].value \in req'[u].may
<1> DEFINE r == req[t]
           x == [r EXCEPT !.pc = "movein", !.node = NewNode]
<1>1. /\ ReqOK(r) /\ r.pc = "create" /\ r.node = None /\ r.out = None /\ r # Idle
      /\ r.key \in Keys /\ r.op = "set" /\ r.value \in Values
  BY DEF Create, Shapes, ReqOK, Holds
<1>2. NewNode \in Nodes \ Live
  BY DEF Create, NewNode
<1>3. x \in Req /\ x.op = "set" /\ x.pc = "movein" /\ x.node = NewNode /\ x.out = None
      /\ x.key = r.key /\ x.value = r.value /\ x.ttl = r.ttl /\ x.may = r.may
  BY <1>1, <1>2 DEF ReqOK, Req, Pcs
<1> HIDE DEF x
<1>4. ReqOK(x)
  BY <1>1, <1>2, <1>3, LruAssumption, IdleOK DEF ReqOK, Holds
<1>5. req' = Stored([req EXCEPT ![t] = x], r.key, r.value)
  BY DEF Create, x
<1>6. /\ Moves(t) /\ req'[t] = x
      /\ \A u \in Threads \ {t} : req[u].op = "get" /\ req[u].key = r.key => r.value \in req'[u].may
  BY <1>1, <1>3, <1>4, <1>5, StoredMove
<1>7. Becomes(t, "movein", NewNode, None)
  BY <1>1, <1>3, <1>6 DEF Becomes
<1>8. CreatesNode(r, IF r.ttl THEN "later" ELSE "never")
  BY DEF Create, CreatesNode
<1>9. QED
  BY <1>1, <1>2, <1>6, <1>7, <1>8 DEF Create

LEMMA MoveInMoves ==
  ASSUME Shapes, NEW t \in Threads, MoveIn(t)
  PROVE  /\ Moves(t) /\ req[t].pc = "movein" /\ Keep(node) /\ UNCHANGED <<cache, met>>
         /\ req[t].node \in Nodes /\ order' = <<req[t].node>> \o order
         /\ Ends(t) \/ Becomes(t, "value", req[t].node, None)
<1> DEFINE r == req[t]
           x == [r EXCEPT !.pc = "value"]
<1>1. /\ ReqOK(r) /\ r.pc = "movein" /\ r.out = None /\ r # Idle /\ r.key \in Keys
      /\ r.node \in Nodes
  BY DEF MoveIn, Shapes, ReqOK, Holds, Req
<1>2. ReqOK(x)
  BY <1>1 DEF ReqOK, Req, Pcs, Holds, Idle
<1>3. req' = [req EXCEPT ![t] = x] \/ req' = [req EXCEPT ![t] = Idle]
  BY DEF MoveIn, Shapes, TypeOK
<1>4. CASE req' = [req EXCEPT ![t] = x]
  <2>1. Moves(t) /\ req'[t] = x
    BY <1>2, <1>4, PlainMove, Zenon
  <2>2. Becomes(t, "value", r.node, None)
    BY <1>1, <2>1 DEF Becomes, ReqOK, Req
  <2>3. QED
    BY <1>1, <2>1, <2>2 DEF MoveIn
<1>5. CASE req' = [req EXCEPT ![t] = Idle]
  <2>1. Moves(t) /\ req'[t] = Idle
    BY <1>5, IdleOK, PlainMove
  <2>2. QED
    BY <1>1, <2>1 DEF MoveIn, Ends
<1>6. QED
  BY <1>3, <1>4, <1>5

LEMMA ValueMoves ==
  ASSUME Shapes, NEW t \in Threads, Value(t)
  PROVE  /\ Moves(t) /\ req[t].pc = "value" /\ Keep(node) /\ UNCHANGED <<cache, order, met>> /\ Ends(t)
<1>1. req' = [req EXCEPT ![t] = Idle]
  BY DEF Value
<1>2. Moves(t) /\ req'[t] = Idle
  BY <1>1, IdleOK, PlainMove
<1>3. QED
  BY <1>2 DEF Value, Ends

-----------------------------------------------------------------------------
(* Objects live while something refers to them; their keys never change.   *)

LEMMA LiveNodes ==
  ASSUME Shapes
  PROVE  /\ Live \subseteq Nodes
         /\ \A k \in Cached : cache[k] \in Live
         /\ Range(order) \subseteq Live
         /\ \A t \in Threads : req[t].pc \in Holds => req[t].node \in Live
         /\ \A t \in Threads : req[t].pc \notin Holds => req[t].node = None
<1>1. Range(order) \subseteq Nodes
  BY ListRange DEF Shapes, TypeOK, ListOK
<1>2. \A t \in Threads : req[t].node \in Nodes \cup {None}
  BY DEF Shapes, TypeOK, Req
<1>3. QED
  BY <1>1, <1>2, LruAssumption DEF Live, Shapes, TypeOK, ReqOK, Cached

LEMMA LiveShrinks ==
  ASSUME Shapes, NEW t \in Threads, Moves(t), cache' = cache,
         Range(order') \subseteq Range(order) \cup {req[t].node},
         req'[t].node \in {None, req[t].node}
  PROVE  Live' \subseteq Live
<1>1. \A u \in Threads : req'[u].node \in {None, req[u].node}
  BY DEF Moves, Same
<1>2. QED
  BY <1>1 DEF Live

LEMMA LiveStays ==
  ASSUME Shapes, NEW t \in Threads, Moves(t), cache' = cache, order' = order, req[t].node = None,
         req'[t].node \in {cache[k] : k \in Keys} \cup {None}
  PROVE  Live' = Live
<1>1. \A u \in Threads \ {t} : req'[u].node = req[u].node
  BY DEF Moves, Same
<1>2. \A n : n \in Live' <=> n \in Live
  BY <1>1 DEF Live
<1>3. QED
  BY <1>2

HeapOK == DOMAIN node = Live /\ \A n \in Live : node[n] \in Node

LabelsStay == \A n \in Live \cap Live' : node'[n].key = node[n].key

LEMMA KeepHeap ==
  ASSUME Shapes, Keep(node), Live' \subseteq Live
  PROVE  HeapOK' /\ \A n \in Live' : node'[n] = node[n]
BY DEF Keep, Shapes, TypeOK, HeapOK

LEMMA ChangeHeap ==
  ASSUME Shapes, NEW n \in Live, NEW e \in Node, e.key = node[n].key,
         node' = [node EXCEPT ![n] = e], Live' = Live
  PROVE  HeapOK' /\ LabelsStay /\ \A m \in Live \ {n} : node'[m] = node[m]
BY DEF Shapes, TypeOK, HeapOK, LabelsStay

LEMMA MeetOK ==
  ASSUME Shapes, NEW t \in Threads, NEW k, Meet(t, k)
  PROVE  /\ met' \in {"apart", "overlap", "clash"}
         /\ met' # "clash" => /\ met # "clash"
                              /\ k # None => \A u \in Threads \ {t} : k \notin Hand(req[u])
<1>1. \A u \in Threads \ Active : Hand(req[u]) = {}
  BY DEF Active, Hand, Idle
<1>2. CASE \E u \in Active \ {t} : k # None /\ k \in {req[u].key, req[u].out}
  BY <1>2 DEF Meet
<1>3. CASE ~ \E u \in Active \ {t} : k # None /\ k \in {req[u].key, req[u].out}
  BY <1>1, <1>3 DEF Meet, Shapes, TypeOK, Hand
<1>4. QED
  BY <1>2, <1>3

LEMMA ShapesFrom ==
  ASSUME Shapes, NEW t \in Threads, Moves(t), cache' \in [Keys -> Nodes \cup {None}],
         ListOK', HeapOK', met' \in {"apart", "overlap", "clash"}
  PROVE  Shapes'
BY MovesOK DEF Shapes, TypeOK, ListOK, HeapOK, Moves

-----------------------------------------------------------------------------
(* Shapes is inductive.                                                    *)

LEMMA StartShape ==
  ASSUME Shapes, NEW t \in Threads, NEW k \in Keys,
         Get(t, k) \/ Delete(t, k) \/ \E w \in Writes : w[1] = k /\ Set(t, w[1], w[2], w[3])
  PROVE  Shapes' /\ LabelsStay
<1>0. cache \in [Keys -> Nodes \cup {None}] /\ ListOK /\ HeapOK /\ met \in {"apart", "overlap", "clash"}
  BY DEF Shapes, TypeOK, ListOK, HeapOK
<1>1. CASE Get(t, k)
  <2>1. CASE cache[k] = None
    BY <1>1, <2>1 DEF Get, Shapes, TypeOK, Live, LabelsStay
  <2>2. CASE cache[k] # None
    <3>1. /\ Moves(t) /\ req[t] = Idle /\ Meet(t, k) /\ UNCHANGED <<cache, order, node>>
          /\ req'[t].node = cache[k]
      BY <1>1, <2>2, GetMoves
    <3>2. Live' = Live
      BY <3>1, IdleOK, LiveStays
    <3>3. met' \in {"apart", "overlap", "clash"}
      BY <3>1, MeetOK
    <3>4. HeapOK' /\ LabelsStay
      BY <1>0, <3>1, <3>2 DEF HeapOK, LabelsStay
    <3>5. ListOK'
      BY <1>0, <3>1 DEF ListOK
    <3>6. QED
      BY <1>0, <3>1, <3>3, <3>4, <3>5, ShapesFrom
  <2>3. QED
    BY <2>1, <2>2
<1>2. CASE Delete(t, k)
  <2>1. /\ Moves(t) /\ req[t] = Idle /\ Meet(t, k) /\ UNCHANGED <<cache, order, node>>
        /\ req'[t].node = None
    BY <1>2, DeleteMoves
  <2>2. Live' = Live
    BY <2>1, IdleOK, LiveStays
  <2>3. met' \in {"apart", "overlap", "clash"}
    BY <2>1, MeetOK
  <2>4. HeapOK' /\ LabelsStay
    BY <1>0, <2>1, <2>2 DEF HeapOK, LabelsStay
  <2>5. ListOK'
    BY <1>0, <2>1 DEF ListOK
  <2>6. QED
    BY <1>0, <2>1, <2>3, <2>4, <2>5, ShapesFrom
<1>3. ASSUME NEW v \in Values, NEW x \in BOOLEAN, Set(t, k, v, x) PROVE Shapes' /\ LabelsStay
  <2>1. /\ Moves(t) /\ req[t] = Idle /\ Meet(t, k) /\ UNCHANGED <<cache, order>>
        /\ req'[t].node = cache[k]
        /\ \/ node' = node
           \/ cache[k] # None /\ \E e \in Node : /\ e.key = node[cache[k]].key
                                                 /\ node' = [node EXCEPT ![cache[k]] = e]
    BY <1>3, SetMoves
  <2>2. Live' = Live
    BY <2>1, IdleOK, LiveStays
  <2>3. met' \in {"apart", "overlap", "clash"}
    BY <2>1, MeetOK
  <2>4. HeapOK' /\ LabelsStay
    <3>1. CASE node' = node
      BY <1>0, <2>1, <2>2, <3>1 DEF HeapOK, LabelsStay
    <3>2. ASSUME NEW e \in Node, cache[k] # None, e.key = node[cache[k]].key,
                 node' = [node EXCEPT ![cache[k]] = e]
          PROVE  HeapOK' /\ LabelsStay
      <4>1. cache[k] \in Live
        BY <3>2, LiveNodes DEF Cached
      <4>2. QED
        BY <2>2, <3>2, <4>1, ChangeHeap
    <3>3. QED
      BY <2>1, <3>1, <3>2
  <2>5. ListOK'
    BY <1>0, <2>1 DEF ListOK
  <2>6. QED
    BY <1>0, <2>1, <2>3, <2>4, <2>5, ShapesFrom
<1>4. \A w \in Writes : w[2] \in Values /\ w[3] \in BOOLEAN
  BY LruAssumption
<1>5. QED
  BY <1>1, <1>2, <1>3, <1>4

LEMMA StepShape ==
  ASSUME Shapes, Lifted, NEW t \in Threads,
         \/ Check(t) \/ Expiry(t) \/ Pick(t) \/ Pop(t) \/ Unlink(t)
         \/ MoveOut(t) \/ MoveIn(t) \/ Value(t)
  PROVE  Shapes' /\ LabelsStay
<1>0. cache \in [Keys -> Nodes \cup {None}] /\ ListOK /\ HeapOK /\ met \in {"apart", "overlap", "clash"}
  BY DEF Shapes, TypeOK, ListOK, HeapOK
<1>1. CASE Check(t) \/ Value(t) \/ Unlink(t) \/ MoveOut(t) \/ MoveIn(t)
  <2>1. Moves(t) /\ Keep(node) /\ UNCHANGED <<cache, met>> /\ req'[t].node \in {None, req[t].node}
    BY <1>1, CheckMoves, ValueMoves, UnlinkMoves, MoveOutMoves, MoveInMoves, IdleOK
       DEF Becomes, Proceeds, Ends
  <2>2. ListOK' /\ Range(order') \subseteq Range(order) \cup {req[t].node}
    <3>1. CASE Check(t) \/ Value(t)
      BY <1>0, <3>1, CheckMoves, ValueMoves DEF ListOK
    <3>2. CASE Unlink(t) \/ MoveOut(t)
      BY <1>0, <3>2, UnlinkMoves, MoveOutMoves, WithoutNode
    <3>3. CASE MoveIn(t)
      <4>1. /\ req[t].node \in Nodes /\ req[t].pc = "movein" /\ order' = <<req[t].node>> \o order
        BY <3>3, MoveInMoves
      <4>2. req[t].node \notin Range(order)
        BY <4>1 DEF Lifted
      <4>3. QED
        BY <1>0, <4>1, <4>2, InFront
    <3>4. QED
      BY <1>1, <3>1, <3>2, <3>3
  <2>3. Live' \subseteq Live
    BY <2>1, <2>2, LiveShrinks
  <2>4. HeapOK' /\ LabelsStay
    BY <2>1, <2>3, KeepHeap DEF LabelsStay
  <2>5. QED
    BY <1>0, <2>1, <2>2, <2>4, ShapesFrom
<1>2. CASE Expiry(t)
  <2>1. /\ Moves(t) /\ req[t].pc = "expiry" /\ UNCHANGED <<cache, order, met>>
        /\ node' = [node EXCEPT ![req[t].node].expires = "later"]
        /\ req'[t].node = req[t].node
    BY <1>2, ExpiryMoves DEF Becomes
  <2>2. req[t].node \in Live /\ node[req[t].node] \in Node
    BY <1>0, <2>1, LiveNodes DEF Holds, HeapOK
  <2>3. Live' = Live
    <3>1. \A n : n \in Live' <=> n \in Live
      BY <2>1 DEF Live, Moves, Same
    <3>2. QED
      BY <3>1
  <2> DEFINE e == [node[req[t].node] EXCEPT !.expires = "later"]
  <2>4. e \in Node /\ e.key = node[req[t].node].key /\ node' = [node EXCEPT ![req[t].node] = e]
    BY <1>0, <2>1, <2>2 DEF Node, Expiries, HeapOK
  <2> HIDE DEF e
  <2>5. HeapOK' /\ LabelsStay
    BY <2>2, <2>3, <2>4, ChangeHeap
  <2>6. QED
    BY <1>0, <2>1, <2>5, ShapesFrom DEF ListOK
<1>3. CASE Pick(t)
  <2>1. /\ Moves(t) /\ req[t].pc = "pick" /\ Meet(t, Victim) /\ UNCHANGED <<cache, order, node>>
        /\ req'[t].node = None
    BY <1>3, PickMoves DEF Becomes
  <2>2. Live' = Live
    BY <2>1, LiveNodes, LiveStays DEF Holds
  <2>3. HeapOK' /\ LabelsStay
    BY <1>0, <2>1, <2>2 DEF HeapOK, LabelsStay
  <2>4. met' \in {"apart", "overlap", "clash"}
    BY <2>1, MeetOK
  <2>5. QED
    BY <1>0, <2>1, <2>3, <2>4, ShapesFrom DEF ListOK
<1>4. CASE Pop(t)
  <2>1. Moves(t) /\ req[t].pc = "pop" /\ req[t].node = None /\ UNCHANGED <<order, node, met>>
    BY <1>4, PopMoves
  <2>2. Live' = Live /\ cache' \in [Keys -> Nodes \cup {None}]
    <3>1. CASE /\ req[t].out \in Cached /\ cache' = [cache EXCEPT ![req[t].out] = None]
               /\ Becomes(t, "unlink", cache[req[t].out], req[t].out)
      <4>1. req'[t].node = cache[req[t].out] /\ \A u \in Threads \ {t} : req'[u].node = req[u].node
        BY <2>1, <3>1 DEF Becomes, Moves, Same
      <4>2. \A k \in Keys : cache'[k] = IF k = req[t].out THEN None ELSE cache[k]
        BY <1>0, <3>1
      <4>3. \A n : n \in Live' <=> n \in Live
        BY <1>0, <2>1, <3>1, <4>1, <4>2 DEF Live, Cached
      <4>4. QED
        BY <1>0, <3>1, <4>3
    <3>2. CASE cache' = cache /\ Proceeds(t)
      <4>1. req'[t].node = None
        BY <3>2, IdleOK DEF Proceeds, Ends, Becomes
      <4>2. QED
        BY <1>0, <2>1, <3>2, <4>1, LiveStays
    <3>3. QED
      BY <1>4, <3>1, <3>2, PopMoves
  <2>3. HeapOK' /\ LabelsStay
    BY <1>0, <2>1, <2>2 DEF HeapOK, LabelsStay
  <2>4. QED
    BY <1>0, <2>1, <2>2, <2>3, ShapesFrom DEF ListOK
<1>5. QED
  BY <1>1, <1>2, <1>3, <1>4

LEMMA CreateShape ==
  ASSUME Shapes, NEW t \in Threads, Create(t)
  PROVE  /\ Shapes' /\ LabelsStay
         /\ NewNode \in Live' =>
              /\ node'[NewNode] = NewEntry(req[t])
              /\ node'[NewNode].key = req[t].key /\ node'[NewNode].value = req[t].value
         /\ \A n \in Live' \ {NewNode} : n \in Live /\ node'[n] = node[n]
<1> DEFINE k == req[t].key
<1>0. cache \in [Keys -> Nodes \cup {None}] /\ ListOK /\ HeapOK /\ met \in {"apart", "overlap", "clash"}
  BY DEF Shapes, TypeOK, ListOK, HeapOK
<1>1. /\ Moves(t) /\ req[t].pc = "create" /\ req[t].node = None /\ UNCHANGED <<order, met>>
      /\ NewNode \in Nodes \ Live /\ cache' = [cache EXCEPT ![k] = NewNode]
      /\ req'[t].node = NewNode
  BY CreateMoves DEF Becomes
<1>2. ReqOK(req[t]) /\ k \in Keys /\ req[t].value \in Values
  BY <1>1 DEF Shapes, ReqOK
<1>3. CreatesNode(req[t], IF req[t].ttl THEN "later" ELSE "never")
  BY CreateMoves
<1> DEFINE x == NewEntry(req[t])
<1>4. x \in Node /\ x.key = k /\ x.value = req[t].value
  BY <1>2 DEF Node, NewEntry, Expiries
<1> HIDE DEF x
<1>5. \A n \in Live' : n \in Live \/ n = NewNode
  <2>1. \A u \in Threads : req'[u].node \in {NewNode, req[u].node}
    BY <1>1 DEF Moves, Same
  <2>2. \A l \in Keys : cache'[l] \in {NewNode, cache[l]}
    BY <1>0, <1>1
  <2>3. QED
    BY <1>1, <2>1, <2>2 DEF Live
<1> DEFINE heap == [n \in Live \cup {NewNode} |-> IF n = NewNode THEN x ELSE node[n]]
<1>6. node' = [n \in Live' |-> heap[n]]
  BY <1>3 DEF Keep, CreatesNode, x, NewEntry
<1>7. \A n \in Live' : heap[n] = IF n = NewNode THEN x ELSE node[n]
  BY <1>5
<1> HIDE DEF heap
<1>8. \A n \in Live' : node'[n] = IF n = NewNode THEN x ELSE node[n]
  BY <1>6, <1>7
<1>9. HeapOK'
  BY <1>0, <1>4, <1>5, <1>6, <1>8 DEF HeapOK
<1>10. LabelsStay
  BY <1>1, <1>8 DEF LabelsStay
<1>11. Shapes'
  BY <1>0, <1>1, <1>9, ShapesFrom DEF ListOK
<1>12. NewNode \in Live' => node'[NewNode] = NewEntry(req[t])
  BY <1>8 DEF x
<1>13. QED
  BY <1>4, <1>5, <1>8, <1>10, <1>11, <1>12

LEMMA LapseShape ==
  ASSUME Shapes, NEW n \in DOMAIN node, Lapse(n)
  PROVE  Shapes' /\ LabelsStay /\ \A m \in Live : node'[m].value = node[m].value
<1> DEFINE e == [node[n] EXCEPT !.expires = "passed"]
<1>1. n \in Live /\ node[n] \in Node
  BY DEF Shapes, TypeOK
<1>2. /\ e \in Node /\ e.key = node[n].key /\ e.value = node[n].value
      /\ node' = [node EXCEPT ![n] = e]
  BY <1>1 DEF Lapse, Node, Expiries, Shapes, TypeOK
<1> HIDE DEF e
<1>3. Live' = Live /\ UNCHANGED <<cache, order, req, met>>
  BY DEF Lapse, Live
<1>4. HeapOK' /\ LabelsStay /\ \A m \in Live \ {n} : node'[m] = node[m]
  BY <1>1, <1>2, <1>3, ChangeHeap
<1>5. node'[n] = e
  BY <1>1, <1>2 DEF Shapes, TypeOK
<1>6. QED
  BY <1>2, <1>3, <1>4, <1>5 DEF Shapes, TypeOK, HeapOK

\* The steps of the threads, one by one.
Starts(t, k) ==
  \/ Get(t, k) \/ Delete(t, k)
  \/ \E w \in Writes : w[1] = k /\ Set(t, w[1], w[2], w[3])

Steps(t) ==
  \/ Check(t) \/ Expiry(t) \/ Pick(t) \/ Pop(t) \/ Unlink(t)
  \/ MoveOut(t) \/ MoveIn(t) \/ Value(t)

LEMMA NextCases ==
  ASSUME Next
  PROVE  \/ \E t \in Threads, k \in Keys : Starts(t, k)
         \/ \E t \in Threads : Steps(t) \/ Create(t)
         \/ \E n \in DOMAIN node : Lapse(n)
BY LruAssumption DEF Next, Starts, Steps

LEMMA ShapesKept == Shapes /\ Lifted /\ [Next]_vars => Shapes' /\ LabelsStay
<1> SUFFICES ASSUME Shapes, Lifted, [Next]_vars PROVE Shapes' /\ LabelsStay
  OBVIOUS
<1>1. CASE Next
  BY <1>1, NextCases, StartShape, StepShape, CreateShape, LapseShape DEF Starts, Steps
<1>2. CASE UNCHANGED vars
  BY <1>2 DEF vars, Shapes, TypeOK, LabelsStay, Live
<1>3. QED
  BY <1>1, <1>2

-----------------------------------------------------------------------------
(* The parts that hold whatever requests meet.                             *)

\* A request that starts has its key's node, or finds that there is none.
LEMMA StartMoves ==
  ASSUME Shapes, NEW t \in Threads, NEW k \in Keys, Starts(t, k), ~UNCHANGED vars
  PROVE  /\ Moves(t) /\ req[t] = Idle /\ Meet(t, k) /\ UNCHANGED <<cache, order>>
         /\ req'[t].key = k
         /\ \/ /\ req'[t].op = "delete" /\ req'[t].pc = "pop"
               /\ req'[t].node = None /\ req'[t].out = k
            \/ /\ req'[t].pc \in {"check", "expiry", "moveout"} /\ k \in Cached
               /\ req'[t].node = cache[k] /\ req'[t].out = None
            \/ /\ req'[t].pc \in {"pick", "create"} /\ k \notin Cached
               /\ req'[t].node = None /\ req'[t].out = None
<1>1. CASE Get(t, k)
  <2>1. cache[k] # None
    BY <1>1 DEF Get, vars
  <2>2. QED
    BY <1>1, <2>1, GetMoves DEF Cached
<1>2. CASE Delete(t, k)
  BY <1>2, DeleteMoves
<1>3. ASSUME NEW v \in Values, NEW x \in BOOLEAN, Set(t, k, v, x)
      PROVE  /\ Moves(t) /\ req[t] = Idle /\ Meet(t, k) /\ UNCHANGED <<cache, order>>
             /\ req'[t].key = k
             /\ \/ /\ req'[t].pc \in {"expiry", "moveout"} /\ k \in Cached
                   /\ req'[t].node = cache[k] /\ req'[t].out = None
                \/ /\ req'[t].pc \in {"pick", "create"} /\ k \notin Cached
                   /\ req'[t].node = None /\ req'[t].out = None
  BY <1>3, SetMoves DEF Cached
<1>4. \A w \in Writes : w[2] \in Values /\ w[3] \in BOOLEAN
  BY LruAssumption
<1>5. QED
  BY <1>1, <1>2, <1>3, <1>4 DEF Starts

LEMMA LabelledFrom ==
  ASSUME Shapes, Labelled, LabelsStay,
         \A k \in Keys : cache'[k] # None => cache'[k] = cache[k] \/ node'[cache'[k]].key = k,
         \A u \in Threads : req'[u].pc \in Holds =>
           \/ req[u].pc \in Holds /\ req'[u].node = req[u].node /\ KeyFor(req'[u]) = KeyFor(req[u])
           \/ /\ KeyFor(req'[u]) \in Cached
              /\ req'[u].node = cache[KeyFor(req'[u])]
           \/ node'[req'[u].node].key = KeyFor(req'[u]),
         Shapes'
  PROVE  Labelled'
<1>1. ASSUME NEW k \in Keys, cache'[k] # None PROVE node'[cache'[k]].key = k
  <2>1. CASE cache'[k] = cache[k]
    <3>1. cache[k] \in Live \cap Live' /\ k \in Cached
      BY <1>1, <2>1 DEF Live, Cached
    <3>2. QED
      BY <2>1, <3>1 DEF LabelsStay, Labelled
  <2>2. QED
    BY <1>1, <2>1
<1>2. ASSUME NEW u \in Threads, req'[u].pc \in Holds PROVE node'[req'[u].node].key = KeyFor(req'[u])
  <2>1. req'[u].node \in Live'
    BY <1>2 DEF Live, Shapes, ReqOK
  <2>2. CASE req[u].pc \in Holds /\ req'[u].node = req[u].node /\ KeyFor(req'[u]) = KeyFor(req[u])
    BY <2>1, <2>2, LiveNodes DEF LabelsStay, Labelled
  <2>3. CASE KeyFor(req'[u]) \in Cached /\ req'[u].node = cache[KeyFor(req'[u])]
    BY <2>1, <2>3, LiveNodes DEF LabelsStay, Labelled
  <2>4. QED
    BY <1>2, <2>2, <2>3
<1>3. QED
  BY <1>1, <1>2 DEF Labelled, Cached

LEMMA LabelledKept ==
  ASSUME Shapes, Labelled, Shapes', LabelsStay, Next, ~UNCHANGED vars
  PROVE  Labelled'
<1>1. ASSUME NEW t \in Threads, Moves(t)
      PROVE  \A u \in Threads \ {t} : req'[u].pc \in Holds =>
               req[u].pc \in Holds /\ req'[u].node = req[u].node /\ KeyFor(req'[u]) = KeyFor(req[u])
  BY <1>1 DEF Moves, Same, KeyFor
<1>2. ASSUME NEW t \in Threads, NEW k \in Keys, Starts(t, k) PROVE Labelled'
  <2>1. /\ Moves(t) /\ cache' = cache
        /\ req'[t].pc \in Holds => k \in Cached /\ req'[t].node = cache[k] /\ KeyFor(req'[t]) = k
    BY <1>2, StartMoves DEF KeyFor, Holds
  <2>2. QED
    BY <1>1, <2>1, LabelledFrom
<1>3. ASSUME NEW t \in Threads, Steps(t) PROVE Labelled'
  <2>1. CASE Pop(t)
    <3>1. /\ Moves(t) /\ \A k \in Keys : cache'[k] # None => cache'[k] = cache[k]
          /\ req'[t].pc \in Holds => /\ KeyFor(req'[t]) \in Cached
                                     /\ req'[t].node = cache[KeyFor(req'[t])]
      BY <2>1, PopMoves, IdleOK DEF KeyFor, Holds, Proceeds, Ends, Becomes, Shapes, TypeOK
    <3>2. QED
      BY <1>1, <3>1, LabelledFrom
  <2>2. CASE ~Pop(t)
    <3>1. /\ Moves(t) /\ cache' = cache
          /\ req'[t].pc \in Holds =>
               req[t].pc \in Holds /\ req'[t].node = req[t].node /\ KeyFor(req'[t]) = KeyFor(req[t])
      <4>1. CASE Check(t) \/ Expiry(t)
        BY <4>1, CheckMoves, ExpiryMoves, IdleOK DEF KeyFor, Holds, Ends, Becomes
      <4>2. CASE Pick(t) \/ Unlink(t)
        BY <4>2, PickMoves, UnlinkMoves, IdleOK DEF Holds, Proceeds, Ends, Becomes
      <4>3. CASE MoveOut(t) \/ MoveIn(t)
        BY <4>3, MoveOutMoves, MoveInMoves, IdleOK DEF KeyFor, Holds, Ends, Becomes
      <4>4. CASE Value(t)
        BY <4>4, ValueMoves, IdleOK DEF Holds, Ends
      <4>5. QED
        BY <1>3, <2>2, <4>1, <4>2, <4>3, <4>4 DEF Steps
    <3>2. QED
      BY <1>1, <3>1, LabelledFrom
  <2>3. QED
    BY <2>1, <2>2
<1>4. ASSUME NEW t \in Threads, Create(t) PROVE Labelled'
  <2>1. /\ Moves(t) /\ cache' = [cache EXCEPT ![req[t].key] = NewNode]
        /\ req'[t].node = NewNode /\ KeyFor(req'[t]) = req[t].key /\ req[t].key \in Keys
        /\ NewNode \in Nodes
    BY <1>4, CreateMoves DEF KeyFor, Becomes, Shapes, ReqOK
  <2>2. NewNode \in Live'
    BY <2>1, LruAssumption DEF Live
  <2>3. node'[NewNode].key = req[t].key
    BY <1>4, <2>2, CreateShape
  <2>4. \A k \in Keys : cache'[k] = cache[k] \/ node'[cache'[k]].key = k
    BY <2>1, <2>3 DEF Shapes, TypeOK
  <2>5. QED
    BY <1>1, <2>1, <2>3, <2>4, LabelledFrom
<1>5. ASSUME NEW n \in DOMAIN node, Lapse(n) PROVE Labelled'
  BY <1>5, LabelledFrom DEF Lapse
<1>6. QED
  BY <1>2, <1>3, <1>4, <1>5, NextCases


LEMMA LiftedKept ==
  ASSUME Shapes, Lifted, Next, ~UNCHANGED vars
  PROVE  Lifted'
<1>0. ListOK /\ Range(order) \subseteq Live
  BY LiveNodes DEF Shapes, TypeOK, ListOK
<1>1. ASSUME NEW t \in Threads, Moves(t)
      PROVE  \A u \in Threads \ {t} : req'[u].pc = "movein" =>
               req[u].pc = "movein" /\ req'[u].node = req[u].node
  BY <1>1 DEF Moves, Same
<1>2. ASSUME NEW t \in Threads, Moves(t), Range(order') \subseteq Range(order), req'[t].pc # "movein"
      PROVE  Lifted'
  BY <1>1, <1>2 DEF Lifted
<1>3. ASSUME NEW t \in Threads, NEW k \in Keys, Starts(t, k) PROVE Lifted'
  <2>1. Moves(t) /\ order' = order /\ req'[t].pc # "movein"
    BY <1>3, StartMoves
  <2>2. QED
    BY <1>2, <2>1
<1>4. ASSUME NEW t \in Threads, Check(t) \/ Expiry(t) \/ Pick(t) \/ Pop(t) \/ Value(t) PROVE Lifted'
  <2>1. Moves(t) /\ order' = order /\ req'[t].pc # "movein"
    <3>1. CASE Check(t) \/ Expiry(t) \/ Pick(t)
      BY <3>1, CheckMoves, ExpiryMoves, PickMoves, IdleOK DEF Ends, Becomes
    <3>2. CASE Pop(t) \/ Value(t)
      BY <3>2, PopMoves, ValueMoves, IdleOK DEF Proceeds, Ends, Becomes
    <3>3. QED
      BY <1>4, <3>1, <3>2
  <2>2. QED
    BY <1>2, <2>1
<1>5. ASSUME NEW t \in Threads, Unlink(t) PROVE Lifted'
  <2>1. Moves(t) /\ req'[t].pc # "movein" /\ order' = Without(req[t].node)
    BY <1>5, UnlinkMoves, IdleOK DEF Proceeds, Ends, Becomes
  <2>2. QED
    BY <1>0, <1>2, <2>1, WithoutNode
<1>6. ASSUME NEW t \in Threads, MoveOut(t) PROVE Lifted'
  <2>1. /\ Moves(t) /\ order' = Without(req[t].node)
        /\ req'[t].pc = "movein" => req[t].node \in Range(order) /\ req'[t].node = req[t].node
    BY <1>6, MoveOutMoves, IdleOK DEF Ends, Becomes
  <2>2. Range(order') = Range(order) \ {req[t].node}
    BY <1>0, <2>1, WithoutNode
  <2>3. QED
    BY <1>1, <2>1, <2>2 DEF Lifted
<1>7. ASSUME NEW t \in Threads, MoveIn(t) PROVE Lifted'
  <2>1. /\ Moves(t) /\ order' = <<req[t].node>> \o order /\ req[t].node \in Nodes
        /\ req[t].pc = "movein" /\ req'[t].pc # "movein"
    BY <1>7, MoveInMoves, IdleOK DEF Ends, Becomes
  <2>2. Range(order') = Range(order) \cup {req[t].node}
    BY <1>0, <2>1, InFront DEF Lifted
  <2>3. QED
    BY <1>1, <2>1, <2>2 DEF Lifted
<1>8. ASSUME NEW t \in Threads, Create(t) PROVE Lifted'
  <2>1. Moves(t) /\ order' = order /\ NewNode \notin Live /\ req'[t].node = NewNode
    BY <1>8, CreateMoves DEF Becomes
  <2>2. \A u \in Threads \ {t} : req[u].pc = "movein" => req[u].node \in Live
    BY LiveNodes DEF Holds
  <2>3. QED
    BY <1>0, <1>1, <2>1, <2>2 DEF Lifted
<1>9. ASSUME NEW n \in DOMAIN node, Lapse(n) PROVE Lifted'
  BY <1>9 DEF Lapse, Lifted
<1>10. QED
  BY <1>3, <1>4, <1>5, <1>6, <1>7, <1>8, <1>9, NextCases DEF Steps

LEMMA DroppedKept ==
  ASSUME Shapes, Dropped, Next, ~UNCHANGED vars
  PROVE  Dropped'
<1>0. cache \in [Keys -> Nodes \cup {None}]
  BY DEF Shapes, TypeOK
<1>1. ASSUME NEW t \in Threads, Moves(t), req'[t].pc = "unlink" => cache'[req'[t].out] # req'[t].node,
             \A u \in Threads \ {t} : req[u].pc = "unlink" =>
               cache'[req[u].out] = cache[req[u].out] \/ cache'[req[u].out] # req[u].node
      PROVE  Dropped'
  BY <1>1 DEF Dropped, Moves, Same
<1>2. ASSUME NEW t \in Threads, NEW k \in Keys, Starts(t, k) PROVE Dropped'
  <2>1. Moves(t) /\ cache' = cache /\ req'[t].pc # "unlink"
    BY <1>2, StartMoves
  <2>2. QED
    BY <1>1, <2>1
<1>3. ASSUME NEW t \in Threads, Steps(t), ~Pop(t) PROVE Dropped'
  <2>1. Moves(t) /\ cache' = cache /\ req'[t].pc # "unlink"
    <3>1. CASE Check(t) \/ Expiry(t) \/ Pick(t)
      BY <3>1, CheckMoves, ExpiryMoves, PickMoves, IdleOK DEF Ends, Becomes
    <3>2. CASE Unlink(t) \/ MoveOut(t)
      BY <3>2, UnlinkMoves, MoveOutMoves, IdleOK DEF Proceeds, Ends, Becomes
    <3>3. CASE MoveIn(t) \/ Value(t)
      BY <3>3, MoveInMoves, ValueMoves, IdleOK DEF Ends, Becomes
    <3>4. QED
      BY <1>3, <3>1, <3>2, <3>3 DEF Steps
  <2>2. QED
    BY <1>1, <2>1
<1>4. ASSUME NEW t \in Threads, Pop(t) PROVE Dropped'
  <2>1. \A u \in Threads : req[u].pc = "unlink" => req[u].node # None /\ req[u].out \in Keys
    BY DEF Shapes, ReqOK, Holds
  <2>2. Moves(t)
    BY <1>4, PopMoves
  <2>3. CASE /\ req[t].out \in Cached /\ cache' = [cache EXCEPT ![req[t].out] = None]
             /\ Becomes(t, "unlink", cache[req[t].out], req[t].out)
    <3>1. \A k \in Keys : cache'[k] \in {cache[k], None}
      BY <1>0, <2>3
    <3>2. cache'[req'[t].out] # req'[t].node
      BY <1>0, <2>3 DEF Becomes, Cached
    <3>3. QED
      BY <1>1, <2>1, <2>2, <3>1, <3>2
  <2>4. CASE cache' = cache /\ Proceeds(t)
    <3>1. req'[t].pc # "unlink"
      BY <2>4, IdleOK DEF Proceeds, Ends, Becomes
    <3>2. QED
      BY <1>1, <2>2, <2>4, <3>1
  <2>5. QED
    BY <1>4, <2>3, <2>4, PopMoves
<1>5. ASSUME NEW t \in Threads, Create(t) PROVE Dropped'
  <2>1. /\ Moves(t) /\ cache' = [cache EXCEPT ![req[t].key] = NewNode] /\ NewNode \notin Live
        /\ req'[t].pc = "movein"
    BY <1>5, CreateMoves DEF Becomes
  <2>2. \A u \in Threads : req[u].pc = "unlink" => req[u].node \in Live /\ req[u].out \in Keys
    BY LiveNodes DEF Shapes, ReqOK, Holds
  <2>3. \A k \in Keys : cache'[k] \in {cache[k], NewNode}
    BY <1>0, <2>1
  <2>4. QED
    BY <1>1, <2>1, <2>2, <2>3
<1>6. ASSUME NEW n \in DOMAIN node, Lapse(n) PROVE Dropped'
  BY <1>6 DEF Lapse, Dropped
<1>7. QED
  BY <1>2, <1>3, <1>4, <1>5, <1>6, NextCases

LEMMA FindableKept ==
  ASSUME Shapes, Labelled, Dropped, Lifted, Findable, Next, ~UNCHANGED vars
  PROVE  Findable'
<1>0. cache \in [Keys -> Nodes \cup {None}] /\ ListOK
  BY DEF Shapes, TypeOK, ListOK
<1>1. ASSUME NEW t \in Threads, Moves(t)
      PROVE  \A u \in Threads \ {t} : req'[u].pc = req[u].pc /\ req'[u].node = req[u].node
  BY <1>1 DEF Moves, Same
<1>2. ASSUME NEW t \in Threads, Moves(t), Range(order) \subseteq Range(order'), req[t].pc # "movein",
             \A k \in Keys : cache'[k] \in {cache[k], None}
      PROVE  Findable'
  BY <1>1, <1>2 DEF Findable, Cached
<1>3. ASSUME NEW t \in Threads, NEW k \in Keys, Starts(t, k) PROVE Findable'
  <2>1. Moves(t) /\ UNCHANGED <<cache, order>> /\ req[t].pc # "movein"
    BY <1>3, StartMoves, IdleOK
  <2>2. QED
    BY <1>2, <2>1
<1>4. ASSUME NEW t \in Threads, Check(t) \/ Expiry(t) \/ Pick(t) \/ Pop(t) \/ Value(t) PROVE Findable'
  <2>1. /\ Moves(t) /\ order' = order /\ req[t].pc # "movein"
        /\ \A k \in Keys : cache'[k] \in {cache[k], None}
    BY <1>0, <1>4, CheckMoves, ExpiryMoves, PickMoves, PopMoves, ValueMoves
  <2>2. QED
    BY <1>2, <2>1
<1>5. ASSUME NEW t \in Threads, Unlink(t) PROVE Findable'
  <2>1. Moves(t) /\ req[t].pc = "unlink" /\ cache' = cache /\ order' = Without(req[t].node)
    BY <1>5, UnlinkMoves
  <2>2. Range(order') = Range(order) \ {req[t].node}
    BY <1>0, <2>1, WithoutNode
  <2>3. \A k \in Cached : cache[k] # req[t].node
    BY <2>1 DEF Labelled, Dropped, KeyFor, Holds
  <2>4. QED
    BY <1>1, <2>1, <2>2, <2>3 DEF Findable, Cached
<1>6. ASSUME NEW t \in Threads, MoveOut(t) PROVE Findable'
  <2>1. /\ Moves(t) /\ req[t].pc = "moveout" /\ cache' = cache /\ order' = Without(req[t].node)
        /\ \/ req[t].node \notin Range(order)
           \/ req'[t].pc = "movein" /\ req'[t].node = req[t].node
    BY <1>6, MoveOutMoves DEF Becomes
  <2>2. Range(order') = Range(order) \ {req[t].node}
    BY <1>0, <2>1, WithoutNode
  <2>3. QED
    BY <1>1, <2>1, <2>2 DEF Findable, Cached
<1>7. ASSUME NEW t \in Threads, MoveIn(t) PROVE Findable'
  <2>1. /\ Moves(t) /\ req[t].pc = "movein" /\ cache' = cache /\ order' = <<req[t].node>> \o order
        /\ req[t].node \in Nodes
    BY <1>7, MoveInMoves
  <2>2. Range(order') = Range(order) \cup {req[t].node}
    BY <1>0, <2>1, InFront DEF Lifted
  <2>3. QED
    BY <1>1, <2>1, <2>2 DEF Findable, Cached
<1>8. ASSUME NEW t \in Threads, Create(t) PROVE Findable'
  <2>1. /\ Moves(t) /\ req[t].pc = "create" /\ order' = order
        /\ cache' = [cache EXCEPT ![req[t].key] = NewNode]
        /\ req'[t].pc = "movein" /\ req'[t].node = NewNode
    BY <1>8, CreateMoves DEF Becomes
  <2>2. \A k \in Keys : cache'[k] = cache[k] \/ cache'[k] = NewNode
    BY <1>0, <2>1
  <2>3. QED
    BY <1>1, <2>1, <2>2 DEF Findable, Cached
<1>9. ASSUME NEW n \in DOMAIN node, Lapse(n) PROVE Findable'
  BY <1>9 DEF Lapse, Findable, Cached
<1>10. QED
  BY <1>3, <1>4, <1>5, <1>6, <1>7, <1>8, <1>9, NextCases DEF Steps


\* A GET that is under way and holds its node.
Reading(r) == r.op = "get" /\ r.node \in Nodes /\ r.pc # "unlink"

LEMMA FreshFrom ==
  ASSUME Shapes, FreshReads, NEW t \in Threads, Moves(t),
         Reading(req'[t]) => \/ node'[req'[t].node].value \in req'[t].may
                             \/ /\ Reading(req[t]) /\ req'[t].node = req[t].node
                                /\ req[t].may \subseteq req'[t].may,
         \A u \in Threads : Reading(req[u]) =>
           \/ req[u].node \notin Live'
           \/ node'[req[u].node].value = node[req[u].node].value
           \/ u # t /\ node'[req[u].node].value \in req'[u].may
  PROVE  FreshReads'
<1> SUFFICES ASSUME NEW u \in Threads, Reading(req'[u])
             PROVE  node'[req'[u].node].value \in req'[u].may
  BY DEF FreshReads, Reading
<1>1. req'[u].node \in Live'
  BY LruAssumption DEF Live, Reading
<1>2. CASE u = t
  BY <1>1, <1>2 DEF FreshReads, Reading
<1>3. CASE u # t
  <2>1. Same(u)
    BY <1>3 DEF Moves
  <2>2. Reading(req[u]) /\ req'[u].node = req[u].node /\ req[u].may \subseteq req'[u].may
    BY <2>1 DEF Same, Reading
  <2>3. node[req[u].node].value \in req[u].may
    BY <2>2 DEF FreshReads, Reading
  <2>4. QED
    BY <1>1, <2>2, <2>3
<1>4. QED
  BY <1>2, <1>3

LEMMA FreshKept ==
  ASSUME Shapes, Labelled, Lifted, FreshReads, Next, ~UNCHANGED vars
  PROVE  FreshReads'
<1>0. \A u \in Threads : Reading(req[u]) => /\ req[u].pc \in Holds /\ req[u].node \in Live
                                           /\ node[req[u].node].key = req[u].key
  BY LiveNodes, LruAssumption DEF Shapes, ReqOK, Reading, Labelled, KeyFor
<1>1. ASSUME NEW t \in Threads, NEW k \in Keys, Get(t, k) PROVE FreshReads'
  <2>1. cache[k] # None
    BY <1>1 DEF Get, vars
  <2>2. /\ Moves(t) /\ node' = node /\ req'[t].node = cache[k]
        /\ req'[t].may = {node[cache[k]].value}
    BY <1>1, <2>1, GetMoves
  <2>3. QED
    BY <2>2, FreshFrom
<1>2. ASSUME NEW t \in Threads, NEW k \in Keys, Delete(t, k) PROVE FreshReads'
  <2>1. Moves(t) /\ node' = node /\ ~Reading(req'[t])
    BY <1>2, DeleteMoves DEF Reading
  <2>2. QED
    BY <2>1, FreshFrom
<1>3. ASSUME NEW t \in Threads, NEW k \in Keys, NEW v \in Values, NEW x \in BOOLEAN, Set(t, k, v, x)
      PROVE  FreshReads'
  <2>1. /\ Moves(t) /\ req[t] = Idle /\ ~Reading(req'[t])
        /\ \/ node' = node
           \/ /\ cache[k] # None
              /\ \E e \in Node : e.value = v /\ node' = [node EXCEPT ![cache[k]] = e]
              /\ \A u \in Threads \ {t} : req[u].op = "get" /\ req[u].key = k => v \in req'[u].may
    BY <1>3, SetMoves DEF Reading
  <2>2. CASE node' = node
    BY <2>1, <2>2, FreshFrom
  <2>3. ASSUME NEW e \in Node, cache[k] # None, e.value = v, node' = [node EXCEPT ![cache[k]] = e],
               \A u \in Threads \ {t} : req[u].op = "get" /\ req[u].key = k => v \in req'[u].may
        PROVE  FreshReads'
    <3>1. cache[k] \in Live /\ node[cache[k]].key = k /\ DOMAIN node = Live
      BY <2>3, LiveNodes DEF Cached, Labelled, Shapes, TypeOK
    <3>2. ASSUME NEW u \in Threads, Reading(req[u])
          PROVE  \/ node'[req[u].node].value = node[req[u].node].value
                 \/ u # t /\ node'[req[u].node].value \in req'[u].may
      <4>1. u # t
        BY <2>1, <3>2, IdleOK DEF Reading
      <4>2. CASE req[u].node = cache[k]
        <5>1. req[u].key = k /\ req[u].op = "get" /\ node'[req[u].node].value = v
          BY <1>0, <2>3, <3>1, <3>2, <4>2 DEF Reading
        <5>2. QED
          BY <2>3, <4>1, <5>1
      <4>3. CASE req[u].node # cache[k]
        BY <1>0, <2>3, <3>1, <3>2, <4>3
      <4>4. QED
        BY <4>2, <4>3
    <3>3. QED
      BY <2>1, <3>2, FreshFrom
  <2>4. QED
    BY <2>1, <2>2, <2>3
<1>4. ASSUME NEW t \in Threads, Check(t) \/ Unlink(t) \/ MoveOut(t) \/ MoveIn(t) \/ Value(t)
      PROVE  FreshReads'
  <2>1. /\ Moves(t) /\ Keep(node)
        /\ Reading(req'[t]) => Reading(req[t]) /\ req'[t].node = req[t].node /\ req'[t].may = req[t].may
    <3>1. CASE Check(t)
      BY <3>1, CheckMoves, IdleOK, LruAssumption DEF Ends, Becomes, Reading
    <3>2. CASE Unlink(t)
      BY <3>2, UnlinkMoves, IdleOK, LruAssumption DEF Proceeds, Ends, Becomes, Reading
    <3>3. CASE MoveOut(t) \/ MoveIn(t)
      BY <3>3, MoveOutMoves, MoveInMoves, IdleOK DEF Ends, Becomes, Reading
    <3>4. CASE Value(t)
      BY <3>4, ValueMoves, IdleOK DEF Ends, Reading
    <3>5. QED
      BY <1>4, <3>1, <3>2, <3>3, <3>4
  <2>2. \A n \in Live' : node'[n] = node[n]
    BY <2>1 DEF Keep
  <2>3. QED
    BY <2>1, <2>2, FreshFrom
<1>5. ASSUME NEW t \in Threads, Expiry(t) PROVE FreshReads'
  <2>1. /\ Moves(t) /\ req[t].pc = "expiry" /\ node' = [node EXCEPT ![req[t].node].expires = "later"]
        /\ Reading(req'[t]) => Reading(req[t]) /\ req'[t].node = req[t].node /\ req'[t].may = req[t].may
    BY <1>5, ExpiryMoves DEF Becomes, Reading
  <2>2. \A n \in Live : node[n] \in Node /\ n \in DOMAIN node
    BY DEF Shapes, TypeOK
  <2>3. \A n \in Live : node'[n].value = node[n].value
    BY <2>1, <2>2 DEF Node
  <2>4. QED
    BY <1>0, <2>1, <2>3, FreshFrom
<1>6. ASSUME NEW t \in Threads, Pick(t) \/ Pop(t) PROVE FreshReads'
  <2>1. Moves(t) /\ node' = node /\ ~Reading(req'[t])
    <3>1. CASE Pick(t)
      BY <3>1, PickMoves, LruAssumption DEF Becomes, Reading
    <3>2. CASE Pop(t)
      BY <3>2, PopMoves, IdleOK, LruAssumption DEF Proceeds, Ends, Becomes, Reading
    <3>3. QED
      BY <1>6, <3>1, <3>2
  <2>2. QED
    BY <2>1, FreshFrom
<1>7. ASSUME NEW t \in Threads, Create(t) PROVE FreshReads'
  <2>1. Moves(t) /\ NewNode \notin Live /\ req'[t].op = req[t].op /\ req[t].pc = "create"
    BY <1>7, CreateMoves DEF Becomes
  <2>2. ~Reading(req'[t])
    BY <2>1 DEF Reading, Shapes, ReqOK
  <2>3. \A n \in Live' \ {NewNode} : node'[n] = node[n]
    BY <1>7, CreateShape
  <2>4. QED
    BY <1>0, <2>1, <2>2, <2>3, FreshFrom
<1>8. ASSUME NEW n \in DOMAIN node, Lapse(n) PROVE FreshReads'
  <2>1. req' = req /\ \A m \in Live : node'[m].value = node[m].value
    BY <1>8, LapseShape DEF Lapse
  <2>2. QED
    BY <1>0, <2>1 DEF FreshReads, Reading
<1>9. ASSUME NEW t \in Threads, NEW k \in Keys, Starts(t, k) PROVE FreshReads'
  <2>1. \A w \in Writes : w[2] \in Values /\ w[3] \in BOOLEAN
    BY LruAssumption
  <2>2. QED
    BY <1>1, <1>2, <1>3, <1>9, <2>1 DEF Starts
<1>10. QED
  BY <1>4, <1>5, <1>6, <1>7, <1>8, <1>9, NextCases DEF Steps


-----------------------------------------------------------------------------
(* Order, as long as no two requests meet on a key.                        *)

LEMMA ApartKept ==
  ASSUME Shapes, Labelled, Orderly, Next, ~UNCHANGED vars, met' # "clash"
  PROVE  HandsApart'
<1>1. ASSUME NEW t \in Threads, Moves(t), NEW k,
             Hand(req'[t]) \subseteq Hand(req[t]) \cup ({k} \ {None}),
             k # None => \A u \in Threads \ {t} : k \notin Hand(req[u])
      PROVE  HandsApart'
  <2>1. \A u \in Threads \ {t} : Hand(req'[u]) = Hand(req[u])
    BY <1>1 DEF Moves, Same, Hand
  <2>2. \A u \in Threads \ {t} : Hand(req[t]) \cap Hand(req[u]) = {} /\ Hand(req[u]) \cap Hand(req[t]) = {}
    BY DEF Orderly, HandsApart
  <2>3. \A u \in Threads \ {t} : Hand(req'[t]) \cap Hand(req[u]) = {}
    BY <1>1, <2>2
  <2>4. QED
    BY <2>1, <2>3 DEF Orderly, HandsApart
<1>2. ASSUME NEW t \in Threads, Moves(t), Hand(req'[t]) \subseteq Hand(req[t])
      PROVE  HandsApart'
  BY <1>1, <1>2
<1>3. ASSUME NEW t \in Threads, NEW k \in Keys, Starts(t, k) PROVE HandsApart'
  <2>1. /\ Moves(t) /\ Meet(t, k) /\ Hand(req'[t]) \subseteq {k} \ {None}
    BY <1>3, StartMoves DEF Hand
  <2>2. k # None => \A u \in Threads \ {t} : k \notin Hand(req[u])
    BY <2>1, MeetOK
  <2>3. QED
    BY <1>1, <2>1, <2>2
<1>4. ASSUME NEW t \in Threads, Pick(t) PROVE HandsApart'
  <2>1. /\ Moves(t) /\ Meet(t, Victim) /\ Hand(req'[t]) \subseteq Hand(req[t]) \cup ({Victim} \ {None})
    BY <1>4, PickMoves DEF Hand, Becomes
  <2>2. Victim # None => \A u \in Threads \ {t} : Victim \notin Hand(req[u])
    BY <2>1, MeetOK
  <2>3. QED
    BY <1>1, <2>1, <2>2
<1>5. ASSUME NEW t \in Threads, Steps(t), ~Pick(t) PROVE HandsApart'
  <2>1. Moves(t) /\ Hand(req'[t]) \subseteq Hand(req[t])
    <3>1. CASE Check(t) \/ Expiry(t)
      BY <3>1, CheckMoves, ExpiryMoves, IdleOK DEF Hand, Ends, Becomes
    <3>2. CASE Pop(t) \/ Unlink(t)
      BY <3>2, PopMoves, UnlinkMoves, IdleOK DEF Hand, Proceeds, Ends, Becomes
    <3>3. CASE MoveOut(t) \/ MoveIn(t) \/ Value(t)
      BY <3>3, MoveOutMoves, MoveInMoves, ValueMoves, IdleOK DEF Hand, Ends, Becomes
    <3>4. QED
      BY <1>5, <3>1, <3>2, <3>3 DEF Steps
  <2>2. QED
    BY <1>2, <2>1
<1>6. ASSUME NEW t \in Threads, Create(t) PROVE HandsApart'
  <2>1. Moves(t) /\ Hand(req'[t]) \subseteq Hand(req[t])
    BY <1>6, CreateMoves DEF Hand, Becomes
  <2>2. QED
    BY <1>2, <2>1
<1>7. ASSUME NEW n \in DOMAIN node, Lapse(n) PROVE HandsApart'
  BY <1>7 DEF Lapse, Orderly, HandsApart
<1>8. QED
  BY <1>3, <1>4, <1>5, <1>6, <1>7, NextCases


\* A step of t touches only what t has in hand.
LEMMA OthersInPlace ==
  ASSUME Shapes, Labelled, Orderly, NEW t \in Threads, Moves(t),
         \A k \in Keys : cache'[k] = cache[k] \/ k \in Hand(req[t]),
         \A n \in Range(order) : n \in Range(order') \/ (n = req[t].node /\ req[t].pc \in Holds)
  PROVE  \A u \in Threads \ {t} : InPlace(u)'
<1> SUFFICES ASSUME NEW u \in Threads \ {t} PROVE InPlace(u)'
  OBVIOUS
<1>1. /\ Same(u) /\ InPlace(u) /\ ReqOK(req[u]) /\ ReqOK(req[t])
      /\ Hand(req[t]) \cap Hand(req[u]) = {}
  BY DEF Moves, Orderly, HandsApart, Shapes
<1>2. req[u].pc # "idle" => req[u].key \in Keys /\ cache'[req[u].key] = cache[req[u].key]
  <2> SUFFICES ASSUME req[u].pc # "idle"
               PROVE  req[u].key \in Keys /\ cache'[req[u].key] = cache[req[u].key]
    OBVIOUS
  <2>1. req[u].key \in Keys /\ req[u].key \in Hand(req[u])
    BY <1>1, LruAssumption DEF ReqOK, Hand
  <2>2. QED
    BY <1>1, <2>1
<1>3. req[u].out \in Cached => req[u].out \in Cached'
  <2> SUFFICES ASSUME req[u].out \in Cached PROVE req[u].out \in Cached'
    OBVIOUS
  <2>1. req[u].out \in Keys /\ req[u].out \in Hand(req[u])
    BY LruAssumption DEF Cached, Hand
  <2>2. QED
    BY <1>1, <2>1 DEF Cached
<1>4. req[u].pc \in Holds /\ req[u].node \in Range(order) => req[u].node \in Range(order')
  <2> SUFFICES ASSUME req[u].pc \in Holds, req[u].node \in Range(order), req[u].node = req[t].node,
                      req[t].pc \in Holds
               PROVE  FALSE
    OBVIOUS
  <2>1. KeyFor(req[u]) = KeyFor(req[t])
    BY DEF Labelled
  <2>2. KeyFor(req[u]) \in Hand(req[u]) /\ KeyFor(req[t]) \in Hand(req[t])
    BY <1>1, LruAssumption DEF KeyFor, Hand, ReqOK, Holds
  <2>3. QED
    BY <1>1, <2>1, <2>2
<1>5. QED
  BY <1>1, <1>2, <1>3, <1>4 DEF InPlace, Same, Holds

LEMMA InPlaceKept ==
  ASSUME Shapes, Labelled, Lifted, Findable, Orderly, Next, ~UNCHANGED vars, met' # "clash"
  PROVE  \A t \in Threads : InPlace(t)'
<1>0. cache \in [Keys -> Nodes \cup {None}] /\ ListOK
  BY DEF Shapes, TypeOK, ListOK
<1>1. ASSUME NEW t \in Threads, ReqOK(req[t]), NEW k \in Keys, k \in Cached,
             req[t].pc # "movein", \A u \in Threads \ {t} : k \notin Hand(req[u])
      PROVE  cache[k] \in Range(order)
  <2> SUFFICES ASSUME NEW u \in Threads, req[u].pc = "movein", req[u].node = cache[k] PROVE FALSE
    BY <1>1 DEF Findable
  <2>1. req[u].key = k /\ u # t
    BY <1>1 DEF Labelled, KeyFor, Holds
  <2>2. QED
    BY <1>1, <2>1, LruAssumption DEF Hand
<1>2. ASSUME NEW t \in Threads, NEW k \in Keys, Starts(t, k) PROVE \A u \in Threads : InPlace(u)'
  <2>1. /\ Moves(t) /\ req[t] = Idle /\ Meet(t, k) /\ UNCHANGED <<cache, order>>
        /\ req'[t].key = k
        /\ \/ /\ req'[t].op = "delete" /\ req'[t].pc = "pop"
           \/ /\ req'[t].pc \in {"check", "expiry", "moveout"} /\ k \in Cached
              /\ req'[t].node = cache[k]
           \/ /\ req'[t].pc \in {"pick", "create"} /\ k \notin Cached
    BY <1>2, StartMoves
  <2>2. \A u \in Threads \ {t} : k \notin Hand(req[u])
    BY <2>1, MeetOK, LruAssumption
  <2>3. k \in Cached => cache[k] \in Range(order)
    BY <1>1, <2>1, <2>2, IdleOK
  <2>4. InPlace(t)'
    BY <2>1, <2>3 DEF InPlace, Cached
  <2>5. QED
    BY <2>1, <2>4, OthersInPlace
<1>3. ASSUME NEW t \in Threads, Check(t) \/ Expiry(t) PROVE \A u \in Threads : InPlace(u)'
  <2>1. /\ Moves(t) /\ UNCHANGED <<cache, order>> /\ req[t].pc \in {"check", "expiry"}
        /\ \/ Ends(t)
           \/ req[t].op = "get" /\ Becomes(t, "pop", None, req[t].key)
           \/ Becomes(t, "moveout", req[t].node, None)
    BY <1>3, CheckMoves, ExpiryMoves DEF Shapes, ReqOK
  <2>2. InPlace(t)'
    BY <2>1, IdleOK DEF InPlace, Orderly, Ends, Becomes
  <2>3. QED
    BY <2>1, <2>2, OthersInPlace
<1>4. ASSUME NEW t \in Threads, Pick(t) PROVE \A u \in Threads : InPlace(u)'
  <2>1. /\ Moves(t) /\ UNCHANGED <<cache, order>> /\ req[t].pc = "pick" /\ req[t].op = "set"
        /\ Becomes(t, "pop", None, Victim) /\ Meet(t, Victim)
    BY <1>4, PickMoves DEF Shapes, ReqOK
  <2>2. Victim \in Cached \cup {None}
    <3> SUFFICES ASSUME Victim # None PROVE Victim \in Cached
      OBVIOUS
    <3>1. PICK n \in Range(order) : Victim = node[n].key
      BY <1>4, PickMoves
    <3>2. n \in Live /\ n # None /\ node[n].key \in Keys
      BY LiveNodes DEF Shapes, TypeOK, Node, Live
    <3>3. ASSUME NEW u \in Threads, req[u].pc = "unlink", req[u].node = n PROVE FALSE
      <4>1. req[u].out = Victim /\ u # t
        BY <2>1, <3>1, <3>3 DEF Labelled, KeyFor, Holds
      <4>2. QED
        BY <2>1, <4>1, MeetOK DEF Hand
    <3>4. QED
      BY <3>1, <3>2, <3>3 DEF Orderly, NoStrays, Cached
  <2>3. InPlace(t)'
    BY <2>1, <2>2 DEF InPlace, Orderly, Becomes, Cached
  <2>4. QED
    BY <2>1, <2>3, OthersInPlace
<1>5. ASSUME NEW t \in Threads, Pop(t) PROVE \A u \in Threads : InPlace(u)'
  <2>1. Moves(t) /\ order' = order /\ req[t].pc = "pop" /\ ReqOK(req[t]) /\ req[t].key \in Keys
    BY <1>5, PopMoves DEF Shapes, ReqOK
  <2>2. CASE /\ req[t].out \in Cached /\ cache' = [cache EXCEPT ![req[t].out] = None]
             /\ Becomes(t, "unlink", cache[req[t].out], req[t].out)
    <3>1. req[t].out \in Hand(req[t]) /\ req[t].out \in Keys
      BY <2>2, LruAssumption DEF Cached, Hand
    <3>2. \A u \in Threads \ {t} : req[t].out \notin Hand(req[u])
      BY <3>1 DEF Orderly, HandsApart
    <3>3. cache[req[t].out] \in Range(order)
      BY <1>1, <2>1, <2>2, <3>1, <3>2
    <3>4. \A k \in Keys : cache'[k] = IF k = req[t].out THEN None ELSE cache[k]
      BY <1>0, <2>2
    <3>5. InPlace(t)'
      BY <2>1, <2>2, <3>3, <3>4 DEF InPlace, Orderly, Becomes
    <3>6. QED
      BY <2>1, <3>1, <3>4, <3>5, OthersInPlace
  <2>3. CASE cache' = cache /\ Proceeds(t)
    <3>1. InPlace(t)'
      BY <2>1, <2>3, IdleOK DEF InPlace, Orderly, Proceeds, Ends, Becomes
    <3>2. QED
      BY <2>1, <2>3, <3>1, OthersInPlace
  <2>4. QED
    BY <1>5, <2>2, <2>3, PopMoves
<1>6. ASSUME NEW t \in Threads, Unlink(t) \/ MoveOut(t) PROVE \A u \in Threads : InPlace(u)'
  <2>1. Moves(t) /\ cache' = cache /\ order' = Without(req[t].node) /\ req[t].pc \in Holds
    BY <1>6, UnlinkMoves, MoveOutMoves DEF Holds
  <2>2. Range(order') = Range(order) \ {req[t].node}
    BY <1>0, <2>1, WithoutNode
  <2>3. InPlace(t)'
    <3>1. CASE Unlink(t)
      BY <2>1, <3>1, UnlinkMoves, IdleOK DEF InPlace, Orderly, Proceeds, Ends, Becomes
    <3>2. CASE MoveOut(t)
      BY <2>1, <3>2, MoveOutMoves, IdleOK DEF InPlace, Orderly, Ends, Becomes
    <3>3. QED
      BY <1>6, <3>1, <3>2
  <2>4. QED
    BY <2>1, <2>2, <2>3, OthersInPlace
<1>7. ASSUME NEW t \in Threads, MoveIn(t) \/ Value(t) PROVE \A u \in Threads : InPlace(u)'
  <2>1. /\ Moves(t) /\ cache' = cache /\ Range(order) \subseteq Range(order')
        /\ Ends(t) \/ req'[t].pc = "value"
    <3>1. CASE MoveIn(t)
      <4>1. /\ req[t].pc = "movein" /\ req[t].node \in Nodes /\ order' = <<req[t].node>> \o order
        BY <3>1, MoveInMoves
      <4>2. Range(order') = Range(order) \cup {req[t].node}
        BY <1>0, <4>1, InFront DEF Lifted
      <4>3. QED
        BY <3>1, <4>2, MoveInMoves DEF Becomes
    <3>2. CASE Value(t)
      BY <3>2, ValueMoves
    <3>3. QED
      BY <1>7, <3>1, <3>2
  <2>2. InPlace(t)'
    BY <2>1, IdleOK DEF InPlace, Ends
  <2>3. QED
    BY <2>1, <2>2, OthersInPlace
<1>8. ASSUME NEW t \in Threads, Create(t) PROVE \A u \in Threads : InPlace(u)'
  <2>1. /\ Moves(t) /\ order' = order /\ req[t].pc = "create" /\ Becomes(t, "movein", NewNode, None)
        /\ cache' = [cache EXCEPT ![req[t].key] = NewNode]
    BY <1>8, CreateMoves
  <2>2. req[t].key \in Keys /\ req[t].key \in Hand(req[t])
    BY <2>1, LruAssumption DEF Shapes, ReqOK, Hand
  <2>3. \A k \in Keys : cache'[k] = IF k = req[t].key THEN NewNode ELSE cache[k]
    BY <1>0, <2>1
  <2>4. InPlace(t)'
    BY <2>1, <2>2, <2>3 DEF InPlace, Becomes
  <2>5. QED
    BY <2>1, <2>2, <2>3, <2>4, OthersInPlace
<1>9. ASSUME NEW n \in DOMAIN node, Lapse(n) PROVE \A u \in Threads : InPlace(u)'
  BY <1>9 DEF Lapse, Orderly, InPlace, Cached
<1>10. QED
  BY <1>2, <1>3, <1>4, <1>5, <1>6, <1>7, <1>8, <1>9, NextCases DEF Steps


LEMMA NoStraysKept ==
  ASSUME Shapes, Labelled, Lifted, Orderly, LabelsStay, Next, ~UNCHANGED vars
  PROVE  NoStrays'
<1>0. /\ cache \in [Keys -> Nodes \cup {None}] /\ ListOK
      /\ \A n \in Range(order) : n \in Live /\ node[n].key \in Keys /\ n # None
  BY LiveNodes DEF Shapes, TypeOK, ListOK, Node, Live
<1>1. \A n \in Range(order) : n \in Range(order') => n \in Live \cap Live'
  BY <1>0 DEF Live
<1>2. ASSUME NEW t \in Threads, Moves(t), Range(order') \subseteq Range(order),
             \A n \in Range(order') : cache[node[n].key] = n =>
               \/ cache'[node[n].key] = n
               \/ req'[t].pc = "unlink" /\ req'[t].node = n,
             req[t].pc = "unlink" => req[t].node \notin Range(order')
      PROVE  NoStrays'
  <2> SUFFICES ASSUME NEW n \in Range(order')
               PROVE  \/ cache'[node'[n].key] = n
                      \/ \E u \in Threads : req'[u].pc = "unlink" /\ req'[u].node = n
    BY DEF NoStrays
  <2>1. n \in Range(order) /\ node'[n].key = node[n].key
    BY <1>1, <1>2 DEF LabelsStay
  <2>2. CASE cache[node[n].key] = n
    BY <1>2, <2>1, <2>2
  <2>3. ASSUME NEW u \in Threads, req[u].pc = "unlink", req[u].node = n
        PROVE  req'[u].pc = "unlink" /\ req'[u].node = n
    BY <1>2, <2>3 DEF Moves, Same
  <2>4. QED
    BY <2>1, <2>2, <2>3 DEF Orderly, NoStrays
<1>3. ASSUME NEW t \in Threads, NEW k \in Keys, Starts(t, k) PROVE NoStrays'
  <2>1. Moves(t) /\ req[t].pc # "unlink" /\ UNCHANGED <<cache, order>>
    BY <1>3, StartMoves, IdleOK
  <2>2. QED
    BY <1>2, <2>1
<1>4. ASSUME NEW t \in Threads, Check(t) \/ Expiry(t) \/ Pick(t) \/ Value(t) PROVE NoStrays'
  <2>1. Moves(t) /\ req[t].pc # "unlink" /\ UNCHANGED <<cache, order>>
    BY <1>4, CheckMoves, ExpiryMoves, PickMoves, ValueMoves
  <2>2. QED
    BY <1>2, <2>1
<1>5. ASSUME NEW t \in Threads, Pop(t) PROVE NoStrays'
  <2>1. /\ Moves(t) /\ req[t].pc # "unlink" /\ order' = order
        /\ \/ cache' = cache
           \/ /\ cache' = [cache EXCEPT ![req[t].out] = None]
              /\ req'[t].pc = "unlink" /\ req'[t].node = cache[req[t].out]
    BY <1>5, PopMoves DEF Becomes
  <2>2. QED
    BY <1>0, <1>2, <2>1
<1>6. ASSUME NEW t \in Threads, Unlink(t) \/ MoveOut(t) PROVE NoStrays'
  <2>1. Moves(t) /\ cache' = cache /\ order' = Without(req[t].node)
    BY <1>6, UnlinkMoves, MoveOutMoves
  <2>2. Range(order') = Range(order) \ {req[t].node}
    BY <1>0, <2>1, WithoutNode
  <2>3. QED
    BY <1>2, <2>1, <2>2
<1>7. ASSUME NEW t \in Threads, MoveIn(t) PROVE NoStrays'
  <2>1. /\ Moves(t) /\ cache' = cache /\ order' = <<req[t].node>> \o order
        /\ req[t].pc = "movein" /\ req[t].node \in Nodes
    BY <1>7, MoveInMoves
  <2>2. Range(order') = Range(order) \cup {req[t].node}
    BY <1>0, <2>1, InFront DEF Lifted
  <2>3. node[req[t].node].key = req[t].key /\ cache[req[t].key] = req[t].node
    BY <2>1 DEF Labelled, KeyFor, Holds, Orderly, InPlace
  <2>4. \A n \in Range(order') : n \in Live \cap Live' /\ node'[n].key = node[n].key
    BY <1>0, <2>1, <2>2, LiveNodes DEF LabelsStay, Live, Holds
  <2>5. \A u \in Threads : req[u].pc = "unlink" => req'[u].pc = "unlink" /\ req'[u].node = req[u].node
    BY <2>1 DEF Moves, Same
  <2>6. QED
    BY <2>1, <2>2, <2>3, <2>4, <2>5 DEF Orderly, NoStrays
<1>8. ASSUME NEW t \in Threads, Create(t) PROVE NoStrays'
  <2>1. /\ Moves(t) /\ order' = order /\ req[t].pc = "create"
        /\ cache' = [cache EXCEPT ![req[t].key] = NewNode]
    BY <1>8, CreateMoves
  <2>2. cache[req[t].key] = None
    BY <2>1 DEF Orderly, InPlace, Shapes, ReqOK
  <2>3. \A n \in Range(order) : cache[node[n].key] = n => cache'[node[n].key] = n
    BY <1>0, <2>1, <2>2
  <2>4. QED
    BY <1>2, <2>1, <2>3
<1>9. ASSUME NEW n \in DOMAIN node, Lapse(n) PROVE NoStrays'
  <2>1. \A m \in Range(order) : node'[m].key = node[m].key
    BY <1>1, <1>9 DEF Lapse, LabelsStay
  <2>2. QED
    BY <1>9, <2>1 DEF Lapse, Orderly, NoStrays
<1>10. QED
  BY <1>3, <1>4, <1>5, <1>6, <1>7, <1>8, <1>9, NextCases DEF Steps

LEMMA DatedKept ==
  ASSUME Shapes, Labelled, Orderly, Shapes', Next, ~UNCHANGED vars, met' # "clash"
  PROVE  Dated'
<1>1. \A u \in Threads : req[u].pc = "check" =>
        /\ req[u].node \in Live /\ node[req[u].node] \in Node /\ node[req[u].node].expires # "never"
        /\ node[req[u].node].key = req[u].key /\ req[u].key \in Keys /\ req[u].key \in Hand(req[u])
  BY LiveNodes, LruAssumption
     DEF Holds, Shapes, TypeOK, ReqOK, Orderly, Dated, Labelled, KeyFor, Hand
<1>2. \A u \in Threads : req'[u].pc = "check" => req'[u].node \in Live'
  BY LruAssumption DEF Live, Holds, Shapes, ReqOK
<1>3. ASSUME NEW t \in Threads, Moves(t),
             req'[t].pc = "check" => node'[req'[t].node].expires # "never",
             \A u \in Threads \ {t} : req[u].pc = "check" /\ req[u].node \in Live' =>
               node'[req[u].node].expires # "never"
      PROVE  Dated'
  BY <1>2, <1>3 DEF Dated, Moves, Same
<1>4. ASSUME NEW t \in Threads, NEW k \in Keys, Get(t, k) PROVE Dated'
  <2>1. cache[k] # None
    BY <1>4 DEF Get, vars
  <2>2. /\ Moves(t) /\ node' = node /\ req'[t].node = cache[k]
        /\ req'[t].pc = "check" => node[cache[k]].expires # "never"
    BY <1>4, <2>1, GetMoves
  <2>3. QED
    BY <1>1, <1>3, <2>2
<1>5. ASSUME NEW t \in Threads, NEW k \in Keys, Delete(t, k) PROVE Dated'
  <2>1. Moves(t) /\ node' = node /\ req'[t].pc # "check"
    BY <1>5, DeleteMoves
  <2>2. QED
    BY <1>1, <1>3, <2>1
<1>6. ASSUME NEW t \in Threads, NEW k \in Keys, NEW v \in Values, NEW x \in BOOLEAN, Set(t, k, v, x)
      PROVE  Dated'
  <2>1. /\ Moves(t) /\ Meet(t, k) /\ req'[t].pc # "check"
        /\ \/ node' = node
           \/ cache[k] # None /\ \E e \in Node : node' = [node EXCEPT ![cache[k]] = e]
    BY <1>6, SetMoves
  <2>2. \A u \in Threads \ {t} : k \notin Hand(req[u])
    BY <2>1, MeetOK, LruAssumption
  <2>3. cache[k] # None => node[cache[k]].key = k
    BY DEF Labelled, Cached
  <2>4. \A u \in Threads \ {t} : req[u].pc = "check" => cache[k] = None \/ req[u].node # cache[k]
    BY <1>1, <2>2, <2>3
  <2>5. DOMAIN node = Live
    BY DEF Shapes, TypeOK
  <2>6. \A u \in Threads \ {t} : req[u].pc = "check" => node'[req[u].node] = node[req[u].node]
    BY <1>1, <2>1, <2>4, <2>5
  <2>7. QED
    BY <1>1, <1>3, <2>1, <2>6
<1>7. ASSUME NEW t \in Threads, Pick(t) \/ Pop(t) PROVE Dated'
  <2>1. Moves(t) /\ node' = node /\ req'[t].pc # "check"
    BY <1>7, PickMoves, PopMoves, IdleOK DEF Proceeds, Ends, Becomes
  <2>2. QED
    BY <1>1, <1>3, <2>1
<1>8. ASSUME NEW t \in Threads, Check(t) \/ Unlink(t) \/ MoveOut(t) \/ MoveIn(t) \/ Value(t)
      PROVE  Dated'
  <2>1. Moves(t) /\ Keep(node) /\ req'[t].pc # "check"
    <3>1. CASE Check(t) \/ Unlink(t)
      BY <3>1, CheckMoves, UnlinkMoves, IdleOK DEF Proceeds, Ends, Becomes
    <3>2. CASE MoveOut(t) \/ MoveIn(t) \/ Value(t)
      BY <3>2, MoveOutMoves, MoveInMoves, ValueMoves, IdleOK DEF Ends, Becomes
    <3>3. QED
      BY <1>8, <3>1, <3>2
  <2>2. \A n \in Live' : node'[n] = node[n]
    BY <2>1 DEF Keep
  <2>3. QED
    BY <1>1, <1>3, <2>1, <2>2
<1>9. ASSUME NEW t \in Threads, Expiry(t) PROVE Dated'
  <2>1. /\ Moves(t) /\ node' = [node EXCEPT ![req[t].node].expires = "later"]
        /\ req'[t].pc # "check"
    BY <1>9, ExpiryMoves DEF Becomes
  <2>2. \A u \in Threads : req[u].pc = "check" =>
          node'[req[u].node].expires \in {"later", node[req[u].node].expires}
    BY <1>1, <2>1 DEF Node, Shapes, TypeOK
  <2>3. QED
    BY <1>1, <1>3, <2>1, <2>2
<1>10. ASSUME NEW t \in Threads, Create(t) PROVE Dated'
  <2>1. Moves(t) /\ req'[t].pc # "check"
    BY <1>10, CreateMoves DEF Becomes
  <2>2. \A n \in Live \cap Live' : node'[n] = node[n]
    BY <1>10, CreateMoves, CreateShape
  <2>3. QED
    BY <1>1, <1>3, <2>1, <2>2
<1>11. ASSUME NEW n \in DOMAIN node, Lapse(n) PROVE Dated'
  <2>1. \A u \in Threads : req[u].pc = "check" =>
          node'[req[u].node].expires \in {"passed", node[req[u].node].expires}
    BY <1>1, <1>11 DEF Lapse, Node, Shapes, TypeOK
  <2>2. QED
    BY <1>1, <1>11, <2>1 DEF Lapse, Dated
<1>12. \A w \in Writes : w[2] \in Values /\ w[3] \in BOOLEAN
  BY LruAssumption
<1>13. QED
  BY <1>4, <1>5, <1>6, <1>7, <1>8, <1>9, <1>10, <1>11, <1>12, NextCases DEF Starts, Steps

\* Requests that have met on a key have met for ever.
LEMMA ClashStays ==
  ASSUME Shapes, Next, ~UNCHANGED vars, met' # "clash"
  PROVE  met # "clash"
<1>1. ASSUME NEW t \in Threads, NEW k \in Keys, Starts(t, k) PROVE met # "clash"
  <2>1. Meet(t, k)
    BY <1>1, StartMoves
  <2>2. QED
    BY <2>1, MeetOK
<1>2. ASSUME NEW t \in Threads, Steps(t) \/ Create(t) PROVE met # "clash"
  <2>1. CASE Pick(t)
    BY <2>1, PickMoves, MeetOK
  <2>2. CASE ~Pick(t)
    BY <1>2, <2>2, CheckMoves, ExpiryMoves, PopMoves, UnlinkMoves, MoveOutMoves, MoveInMoves,
       ValueMoves, CreateMoves DEF Steps
  <2>3. QED
    BY <2>1, <2>2
<1>3. ASSUME NEW n \in DOMAIN node, Lapse(n) PROVE met # "clash"
  BY <1>3 DEF Lapse
<1>4. QED
  BY <1>1, <1>2, <1>3, NextCases

-----------------------------------------------------------------------------

LEMMA LruBegin == Init => LruInv
<1> SUFFICES ASSUME Init PROVE LruInv
  OBVIOUS
<1>1. Live = {} /\ Range(order) = {} /\ Cached = {} /\ \A t \in Threads : req[t] = Idle
  BY DEF Init, Live, Range, Cached, Idle
<1>2. Shapes
  <2>1. order \in Seq(Nodes) /\ IsInjective(order)
    BY DEF Init, IsInjective
  <2>2. DOMAIN node = Live /\ \A n \in Live : node[n] \in Node
    BY <1>1 DEF Init
  <2>3. QED
    BY <1>1, <2>1, <2>2, IdleOK DEF Init, Shapes, TypeOK, ReqOK
<1>3. Labelled /\ Lifted /\ Dropped /\ Findable /\ FreshReads
  BY <1>1, IdleOK DEF Labelled, Lifted, Dropped, Findable, FreshReads, Holds
<1>4. Orderly
  BY <1>1, IdleOK DEF Orderly, HandsApart, InPlace, NoStrays, Dated, Hand
<1>5. QED
  BY <1>2, <1>3, <1>4 DEF LruInv

LEMMA LruKept == LruInv /\ [Next]_vars => LruInv'
<1> SUFFICES ASSUME LruInv, [Next]_vars PROVE LruInv'
  OBVIOUS
<1>1. CASE UNCHANGED vars
  <2>1. UNCHANGED <<cache, order, node, req, met>>
    BY <1>1 DEF vars
  <2>2. Shapes' /\ Labelled' /\ Lifted' /\ Dropped' /\ Findable' /\ FreshReads'
    BY <2>1 DEF LruInv, Shapes, TypeOK, Live, Labelled, Cached, Lifted, Dropped, Findable, FreshReads
  <2>3. met' # "clash" => Orderly'
    BY <2>1 DEF LruInv, Orderly, HandsApart, InPlace, NoStrays, Dated, Cached
  <2>4. QED
    BY <2>2, <2>3 DEF LruInv
<1>2. CASE Next /\ ~UNCHANGED vars
  <2>1. Shapes /\ Labelled /\ Lifted /\ Dropped /\ Findable /\ FreshReads
    BY DEF LruInv
  <2>2. Shapes' /\ LabelsStay
    BY <1>2, <2>1, ShapesKept
  <2>3. Labelled' /\ Lifted' /\ Dropped' /\ Findable' /\ FreshReads'
    BY <1>2, <2>1, <2>2, LabelledKept, LiftedKept, DroppedKept, FindableKept, FreshKept
  <2>4. ASSUME met' # "clash" PROVE Orderly'
    <3>1. Orderly
      BY <1>2, <2>1, <2>4, ClashStays DEF LruInv
    <3>2. HandsApart' /\ (\A t \in Threads : InPlace(t)') /\ NoStrays' /\ Dated'
      BY <1>2, <2>1, <2>2, <2>4, <3>1, ApartKept, InPlaceKept, NoStraysKept, DatedKept
    <3>3. QED
      BY <3>2 DEF Orderly
  <2>5. QED
    BY <2>2, <2>3, <2>4 DEF LruInv
<1>3. QED
  BY <1>1, <1>2

LEMMA LruInvariant == Spec => []LruInv
BY LruBegin, LruKept, PTL DEF Spec

\* The five variables keep their shapes, the list is never torn and never holds a
\* node twice, and the objects in use are those that are referred to, for any number
\* of keys and threads that run delete, get and set of lru_cache.py (39-58, 93-137)
\* without a lock.
THEOREM LruTypes == Spec => []TypeOK
<1>1. LruInv => TypeOK
  BY DEF LruInv, Shapes
<1>2. QED
  BY <1>1, LruInvariant, PTL

\* What get (lru_cache.py:93-105) answers with was stored under its key after it
\* began or was there when it began, whatever the other threads do between its steps.
THEOREM ReadsAreFresh == Spec => []FreshReads
<1>1. LruInv => FreshReads
  BY DEF LruInv
<1>2. QED
  BY <1>1, LruInvariant, PTL

\* Whatever delete, get and set (lru_cache.py:53-58, 93-137) interleave, eviction can find
\* every key of the dictionary in the list, or a thread is about to put it there;
\* until two requests meet on a key, a GET never compares the clock with None (97), _remove
\* (39-44) never meets a node that is not in the list, no node stays there that the dictionary has lost, and every eviction
\* (131-134) finds a key to drop.
THEOREM DictionaryAndListAgree == Spec => []DictAndListAgree
<1>1. LruInv => DictAndListAgree
  <2> SUFFICES ASSUME LruInv PROVE DictAndListAgree
    OBVIOUS
  <2>1. Findable /\ Shapes
    BY DEF LruInv
  <2>2. ASSUME met # "clash", NEW t \in Threads
        PROVE  /\ req[t].pc = "check" => node[req[t].node].expires # "never"
               /\ req[t].pc \in {"moveout", "unlink"} => req[t].node \in Range(order)
               /\ req[t].pc = "pop" /\ req[t].op = "set" => req[t].out \in Cached \cup {None}
    BY <2>2 DEF LruInv, Orderly, InPlace, Dated
  <2>3. ASSUME met # "clash", NEW n \in Range(order)
        PROVE  \/ cache[node[n].key] = n
               \/ \E t \in Threads : req[t].pc = "unlink" /\ req[t].node = n
    BY <2>3 DEF LruInv, Orderly, NoStrays
  <2>4. QED
    BY <2>1, <2>2, <2>3 DEF DictAndListAgree, Findable
<1>2. QED
  BY <1>1, LruInvariant, PTL

-----------------------------------------------------------------------------
(* The node implements LruPolicy while requests do not overlap.  Line and  *)
(* Entries are restated with what they depend on as parameters, so that    *)
(* the same facts serve the states before and after a step.                *)

Cut(o, n) ==
  LET at == CHOOSE i \in DOMAIN o : o[i] = n
  IN  IF n \in Range(o)
      THEN [i \in 1 .. Len(o) - 1 |-> IF i < at THEN o[i] ELSE o[i + 1]]
      ELSE o

View(e, h, l) == [i \in DOMAIN l |-> IF l[i] = None THEN e ELSE h[l[i]]]

\* The shape of Unlinked: o without its element at place at.
Closes(w, o, at) ==
  /\ at \in 1 .. Len(o) /\ w \in Seq(Nodes) /\ Len(w) = Len(o) - 1
  /\ \A i \in 1 .. Len(o) - 1 : w[i] = IF i < at THEN o[i] ELSE o[i + 1]

IsList(o) == o \in Seq(Nodes) /\ IsInjective(o)

LEMMA ListFacts ==
  ASSUME NEW o, IsList(o)
  PROVE  /\ Len(o) \in Nat /\ DOMAIN o = 1 .. Len(o)
         /\ Range(o) \subseteq Nodes /\ None \notin Range(o)
         /\ \A i \in 1 .. Len(o) : o[i] \in Range(o)
         /\ \A n \in Range(o) : \E i \in 1 .. Len(o) : o[i] = n
         /\ \A i, j \in 1 .. Len(o) : o[i] = o[j] => i = j
BY LenProperties, ElementOfSeq, LruAssumption DEF IsList, Range, IsInjective

LEMMA CutShape ==
  ASSUME NEW o, IsList(o), NEW at \in 1 .. Len(o)
  PROVE  Closes(Cut(o, o[at]), o, at)
<1> DEFINE n == o[at]
           w == Cut(o, n)
           first == CHOOSE i \in DOMAIN o : o[i] = n
<1>1. first = at
  <2>1. at \in DOMAIN o /\ \A i \in DOMAIN o : o[i] = n <=> i = at
    BY ListFacts
  <2>2. QED
    BY <2>1
<1>2. n \in Range(o)
  BY ListFacts
<1>3. w = [i \in 1 .. Len(o) - 1 |-> IF i < at THEN o[i] ELSE o[i + 1]]
  BY <1>1, <1>2 DEF Cut
<1> HIDE DEF w
<1>4. Len(o) \in Nat /\ Len(o) - 1 \in Nat /\ \A i \in 1 .. Len(o) : o[i] \in Nodes
  BY ListFacts
<1>5. w \in [1 .. Len(o) - 1 -> Nodes]
  BY <1>3, <1>4
<1>6. w \in Seq(Nodes) /\ DOMAIN w = 1 .. Len(o) - 1
  BY <1>4, <1>5, SeqDef
<1>7. Len(w) = Len(o) - 1
  BY <1>4, <1>6, LenProperties
<1>8. QED
  BY <1>3, <1>6, <1>7 DEF Closes, w

LEMMA CutAbsent ==
  ASSUME NEW o, NEW n, n \notin Range(o)
  PROVE  Cut(o, n) = o
BY DEF Cut

\* Taking a node out leaves the others, each once.
LEMMA CutRange ==
  ASSUME NEW o, IsList(o), NEW n
  PROVE  /\ IsList(Cut(o, n))
         /\ Range(Cut(o, n)) \subseteq Range(o) \ {n}
<1>1. CASE n \notin Range(o)
  BY <1>1, CutAbsent
<1>2. CASE n \in Range(o)
  <2>1. PICK at \in 1 .. Len(o) : o[at] = n
    BY <1>2, ListFacts
  <2> DEFINE w == Cut(o, n)
  <2>2. Closes(w, o, at)
    BY <2>1, CutShape
  <2> HIDE DEF w
  <2>3. w \in Seq(Nodes) /\ Len(w) = Len(o) - 1 /\ DOMAIN w = 1 .. Len(o) - 1
    BY <2>2, LenProperties DEF Closes
  <2> DEFINE up(i) == IF i < at THEN i ELSE i + 1
  <2>4. \A i \in 1 .. Len(o) - 1 : up(i) \in 1 .. Len(o) /\ up(i) # at /\ w[i] = o[up(i)]
    BY <2>2, ListFacts DEF Closes
  <2>5. ASSUME NEW i \in 1 .. Len(o) - 1, NEW j \in 1 .. Len(o) - 1, w[i] = w[j]
        PROVE  i = j
    <3>1. up(i) = up(j)
      BY <2>4, <2>5, ListFacts
    <3>2. QED
      BY <2>1, <3>1, ListFacts
  <2> HIDE DEF up
  <2>6. \A i \in 1 .. Len(o) - 1 : w[i] \in Range(o) /\ w[i] # n
    BY <2>1, <2>4, ListFacts
  <2>7. QED
    BY <2>3, <2>5, <2>6 DEF IsList, IsInjective, Range, w
<1>3. QED
  BY <1>1, <1>2

\* A node that is first stays first when it is taken out and put back.
LEMMA CutFirst ==
  ASSUME NEW o, IsList(o), o # <<>>
  PROVE  Cons(o[1], Cut(o, o[1])) = o
<1> DEFINE w == Cut(o, o[1])
           l == <<o[1]>> \o w
<1>1. 1 \in 1 .. Len(o) /\ Len(o) \in Nat /\ o[1] \in Nodes
  BY EmptySeq, ListFacts DEF IsList
<1>2. w \in Seq(Nodes) /\ Len(w) = Len(o) - 1 /\ \A i \in 1 .. Len(o) - 1 : w[i] = o[i + 1]
  BY <1>1, CutShape DEF Closes
<1>3. <<o[1]>> \in Seq(Nodes) /\ Len(<<o[1]>>) = 1 /\ <<o[1]>>[1] = o[1]
  BY <1>1
<1> HIDE DEF w
<1>4. /\ l \in Seq(Nodes) /\ Len(l) = 1 + (Len(o) - 1)
      /\ \A i \in 1 .. 1 + (Len(o) - 1) : l[i] = IF i <= 1 THEN o[1] ELSE w[i - 1]
  BY <1>2, <1>3, ConcatProperties
<1> HIDE DEF l
<1>5. \A i \in 1 .. Len(l) : l[i] = o[i]
  BY <1>1, <1>2, <1>4
<1>6. l = o
  BY <1>1, <1>4, <1>5, SeqEqual DEF IsList
<1>7. QED
  BY <1>6 DEF l, w, Cons

-----------------------------------------------------------------------------
(* Lines and what the policy reads in them.                                *)

Lined(l) == l \in Seq(Nodes \cup {None})

LEMMA ListLined == ASSUME NEW o, IsList(o) PROVE Lined(o)
<1>1. Len(o) \in Nat /\ o \in [1 .. Len(o) -> Nodes]
  BY LenProperties, ListFacts DEF IsList
<1>2. o \in [1 .. Len(o) -> Nodes \cup {None}]
  BY <1>1
<1>3. QED
  BY <1>1, <1>2, SeqDef DEF Lined

LEMMA ConsLined ==
  ASSUME NEW a \in Nodes \cup {None}, NEW l, Lined(l)
  PROVE  /\ Lined(Cons(a, l)) /\ Len(Cons(a, l)) = 1 + Len(l)
         /\ \A i \in 1 .. 1 + Len(l) : Cons(a, l)[i] = IF i <= 1 THEN a ELSE l[i - 1]
<1>1. <<a>> \in Seq(Nodes \cup {None}) /\ Len(<<a>>) = 1 /\ <<a>>[1] = a
  OBVIOUS
<1>2. QED
  BY <1>1, ConcatProperties DEF Lined, Cons

\* What can be seen in a line.
Sight(e, h) == {h[n] : n \in Nodes} \cup {e}

LEMMA ViewShape ==
  ASSUME NEW e, NEW h, NEW l, Lined(l)
  PROVE  /\ Len(l) \in Nat /\ DOMAIN l = 1 .. Len(l) /\ DOMAIN View(e, h, l) = 1 .. Len(l)
         /\ View(e, h, l) \in Seq(Sight(e, h)) /\ Len(View(e, h, l)) = Len(l)
         /\ \A i \in 1 .. Len(l) : /\ l[i] \in Nodes \cup {None}
                                   /\ View(e, h, l)[i] = IF l[i] = None THEN e ELSE h[l[i]]
<1> DEFINE v == View(e, h, l)
           S == Sight(e, h)
<1>1. /\ Len(l) \in Nat /\ DOMAIN l = 1 .. Len(l)
      /\ \A i \in 1 .. Len(l) : l[i] \in Nodes \cup {None}
  BY LenProperties, ElementOfSeq DEF Lined
<1>2. v = [i \in 1 .. Len(l) |-> IF l[i] = None THEN e ELSE h[l[i]]]
  BY <1>1 DEF View
<1>3. \A i \in 1 .. Len(l) : (IF l[i] = None THEN e ELSE h[l[i]]) \in S
  BY <1>1 DEF Sight
<1> HIDE DEF v, S
<1>4. v \in [1 .. Len(l) -> S] /\ DOMAIN v = 1 .. Len(l)
  BY <1>2, <1>3
<1>5. v \in Seq(S)
  BY <1>1, <1>4, SeqDef
<1>6. Len(v) = Len(l)
  BY <1>1, <1>4, <1>5, LenProperties
<1>7. QED
  BY <1>1, <1>2, <1>4, <1>5, <1>6 DEF v, S

LEMMA ViewSame ==
  ASSUME NEW e, NEW h, NEW d, NEW g, NEW l,
         None \in Range(l) => e = d,
         \A n \in Range(l) \ {None} : h[n] = g[n]
  PROVE  View(e, h, l) = View(d, g, l)
BY DEF View, Range

LEMMA ViewCons ==
  ASSUME NEW e, NEW h, NEW a \in Nodes \cup {None}, NEW l, Lined(l)
  PROVE  /\ a = None => View(e, h, Cons(a, l)) = Cons(e, View(e, h, l))
         /\ a \in Nodes => View(e, h, Cons(a, l)) = Cons(h[a], View(e, h, l))
<1> DEFINE b == IF a = None THEN e ELSE h[a]
           m == Cons(a, l)
           v == View(e, h, l)
           u == View(e, h, m)
           S == Sight(e, h)
<1>1. /\ Lined(m) /\ Len(m) = 1 + Len(l) /\ Len(l) \in Nat
      /\ \A i \in 1 .. 1 + Len(l) : m[i] = IF i <= 1 THEN a ELSE l[i - 1]
  BY ConsLined, LenProperties DEF Lined
<1>2. /\ v \in Seq(S) /\ Len(v) = Len(l)
      /\ \A i \in 1 .. Len(l) : v[i] = IF l[i] = None THEN e ELSE h[l[i]]
  BY ViewShape
<1>3. b \in S
  BY DEF Sight
<1> HIDE DEF m
<1>4. /\ u \in Seq(S) /\ Len(u) = 1 + Len(l)
      /\ \A i \in 1 .. 1 + Len(l) : u[i] = IF m[i] = None THEN e ELSE h[m[i]]
  BY <1>1, ViewShape
<1> DEFINE w == Cons(b, v)
<1> HIDE DEF u, v, S, b
<1>5. /\ w \in Seq(S) /\ Len(w) = 1 + Len(l)
      /\ \A i \in 1 .. 1 + Len(l) : w[i] = IF i <= 1 THEN b ELSE v[i - 1]
  <2>1. <<b>> \in Seq(S) /\ Len(<<b>>) = 1 /\ <<b>>[1] = b
    BY <1>3
  <2>2. QED
    BY <1>2, <2>1, ConcatProperties DEF Cons
<1> HIDE DEF w
<1>6. ASSUME NEW i \in 1 .. 1 + Len(l)
      PROVE  u[i] = w[i]
  <2>1. CASE i <= 1
    BY <1>1, <1>4, <1>5, <2>1 DEF b
  <2>2. CASE ~ (i <= 1)
    <3>1. i - 1 \in 1 .. Len(l)
      BY <1>1, <2>2
    <3>2. u[i] = IF l[i - 1] = None THEN e ELSE h[l[i - 1]]
      BY <1>1, <1>4, <2>2
    <3>3. QED
      BY <1>2, <1>5, <2>2, <3>1, <3>2
  <2>3. QED
    BY <2>1, <2>2
<1>7. u = w
  BY <1>4, <1>5, <1>6, SeqEqual
<1>8. a = None => b = e
  BY DEF b
<1>9. a \in Nodes => b = h[a]
  BY LruAssumption DEF b
<1>10. QED
  BY <1>7, <1>8, <1>9, Zenon DEF u, v, w, m

LEMMA ViewNew ==
  ASSUME NEW e, NEW h, NEW l, Lined(l)
  PROVE  View(e, h, Cons(None, l)) = Cons(e, View(e, h, l))
BY ViewCons

LEMMA ViewOld ==
  ASSUME NEW e, NEW h, NEW n \in Nodes, NEW l, Lined(l)
  PROVE  View(e, h, Cons(n, l)) = Cons(h[n], View(e, h, l))
BY ViewCons

\* RemoveAt and Front take out one element and keep the order of the others.
LEMMA PartsOf ==
  ASSUME NEW S, NEW q \in Seq(S), NEW at \in 1 .. Len(q),
         NEW r \in Seq(S), Len(r) = Len(q) - 1,
         \A i \in 1 .. Len(q) - 1 : r[i] = IF i < at THEN q[i] ELSE q[i + 1]
  PROVE  RemoveAt(q, at) = r /\ (at = Len(q) => Front(q) = r)
<1> DEFINE front == SubSeq(q, 1, at - 1)
           back  == SubSeq(q, at + 1, Len(q))
           m     == at - 1
           n     == Len(q) - at
<1>1. Len(q) \in Nat /\ at \in 1 .. Len(q) /\ m \in Nat /\ n \in Nat /\ Len(q) - 1 = m + n
  BY LenProperties
<1>2. /\ r \in Seq(S) /\ Len(r) = m + n
      /\ \A i \in 1 .. m + n : r[i] = IF i < at THEN q[i] ELSE q[i + 1]
  BY <1>1
<1>3. /\ front \in Seq(S) /\ Len(front) = m
      /\ \A i \in 1 .. m : front[i] = q[i]
  <2>1. m \in Int /\ \A i \in 1 .. m : q[i] \in S
    BY <1>1, ElementOfSeq
  <2> HIDE DEF m
  <2>2. /\ SubSeq(q, 1, m) \in Seq(S)
        /\ Len(SubSeq(q, 1, m)) = IF 1 <= m THEN m - 1 + 1 ELSE 0
        /\ \A i \in 1 .. m - 1 + 1 : SubSeq(q, 1, m)[i] = q[1 + i - 1]
    BY <2>1, SubSeqProperties
  <2>3. Len(SubSeq(q, 1, m)) = m /\ 1 .. m - 1 + 1 = 1 .. m /\ \A i \in 1 .. m : 1 + i - 1 = i
    BY <1>1, <2>2
  <2>4. QED
    BY <2>2, <2>3 DEF m
<1>4. /\ back \in Seq(S) /\ Len(back) = n
      /\ \A i \in 1 .. n : back[i] = q[at + i]
  <2>1. at + 1 \in Int /\ Len(q) \in Int /\ \A i \in at + 1 .. Len(q) : q[i] \in S
    BY <1>1, ElementOfSeq
  <2>2. /\ back \in Seq(S)
        /\ Len(back) = IF at + 1 <= Len(q) THEN Len(q) - (at + 1) + 1 ELSE 0
        /\ \A i \in 1 .. Len(q) - (at + 1) + 1 : back[i] = q[(at + 1) + i - 1]
    BY <2>1, SubSeqProperties
  <2>3. /\ Len(back) = n /\ 1 .. Len(q) - (at + 1) + 1 = 1 .. n
        /\ \A i \in 1 .. n : (at + 1) + i - 1 = at + i
    BY <1>1, <2>2
  <2>4. QED
    BY <2>2, <2>3
<1> HIDE DEF front, back, n
<1>5. /\ front \o back \in Seq(S)
      /\ Len(front \o back) = m + n
      /\ \A i \in 1 .. m + n : (front \o back)[i] = IF i <= m THEN front[i] ELSE back[i - m]
  <2>1. front \in Seq(S) /\ back \in Seq(S)
    BY <1>3, <1>4
  <2>2. /\ front \o back \in Seq(S)
        /\ Len(front \o back) = Len(front) + Len(back)
        /\ \A i \in 1 .. Len(front) + Len(back) :
             (front \o back)[i] = IF i <= Len(front) THEN front[i] ELSE back[i - Len(front)]
    BY <2>1, ConcatProperties
  <2>3. Len(front) = m /\ Len(back) = n
    BY <1>3, <1>4
  <2>4. QED
    BY <2>2, <2>3
<1>6. ASSUME NEW i \in 1 .. m + n
      PROVE  (front \o back)[i] = r[i]
  <2>1. CASE i < at
    BY <1>1, <1>2, <1>3, <1>5, <2>1
  <2>2. CASE ~ (i < at)
    <3>1. ~ (i <= m) /\ i - m \in 1 .. n /\ at + (i - m) = i + 1
      BY <1>1, <2>2
    <3>2. (front \o back)[i] = back[i - m] /\ back[i - m] = q[at + (i - m)]
      BY <1>4, <1>5, <3>1
    <3>3. r[i] = q[i + 1]
      BY <1>2, <2>2
    <3>4. QED
      BY <3>1, <3>2, <3>3
  <2>3. QED
    BY <2>1, <2>2
<1>7. front \o back = r
  BY <1>1, <1>2, <1>5, <1>6, SeqEqual
<1>8. RemoveAt(q, at) = r
  BY <1>7 DEF front, back, RemoveAt
<1>9. ASSUME at = Len(q)
      PROVE  Front(q) = r
  <2>1. front \in Seq(S) /\ Len(front) = Len(r) /\ \A i \in 1 .. Len(front) : front[i] = r[i]
    BY <1>1, <1>2, <1>3, <1>9
  <2>2. front = r
    BY <1>2, <2>1, SeqEqual
  <2>3. QED
    BY <1>9, <2>2 DEF front, Front
<1>10. QED
  BY <1>8, <1>9

LEMMA ViewCut ==
  ASSUME NEW e, NEW h, NEW o, IsList(o), NEW at \in 1 .. Len(o)
  PROVE  /\ View(e, h, Cut(o, o[at])) = RemoveAt(View(e, h, o), at)
         /\ at = Len(o) => View(e, h, Cut(o, o[at])) = Front(View(e, h, o))
<1> DEFINE w == Cut(o, o[at])
           u == View(e, h, w)
           v == View(e, h, o)
<1>1. Closes(w, o, at) /\ IsList(w)
  BY CutShape, CutRange
<1>2. Len(w) = Len(o) - 1 /\ \A i \in 1 .. Len(o) - 1 : w[i] = IF i < at THEN o[i] ELSE o[i + 1]
  BY <1>1 DEF Closes
<1> HIDE DEF w
<1>3. /\ v \in Seq(Sight(e, h)) /\ Len(v) = Len(o) /\ Len(o) \in Nat
      /\ \A i \in 1 .. Len(o) : v[i] = IF o[i] = None THEN e ELSE h[o[i]]
  BY ListLined, ViewShape
<1>4. /\ u \in Seq(Sight(e, h)) /\ Len(u) = Len(o) - 1
      /\ \A i \in 1 .. Len(o) - 1 : u[i] = IF w[i] = None THEN e ELSE h[w[i]]
  BY <1>1, <1>2, ListLined, ViewShape
<1> HIDE DEF u, v
<1>5. ASSUME NEW i \in 1 .. Len(v) - 1
      PROVE  u[i] = IF i < at THEN v[i] ELSE v[i + 1]
  <2>1. i \in 1 .. Len(o) - 1 /\ i \in 1 .. Len(o) /\ i + 1 \in 1 .. Len(o)
    BY <1>3
  <2>2. u[i] = (IF w[i] = None THEN e ELSE h[w[i]]) /\ w[i] = IF i < at THEN o[i] ELSE o[i + 1]
    BY <1>2, <1>4, <2>1
  <2>3. /\ v[i] = IF o[i] = None THEN e ELSE h[o[i]]
        /\ v[i + 1] = IF o[i + 1] = None THEN e ELSE h[o[i + 1]]
    BY <1>3, <2>1
  <2>4. QED
    BY <2>2, <2>3
<1>6. at \in 1 .. Len(v)
  BY <1>3
<1>7. RemoveAt(v, at) = u /\ (at = Len(v) => Front(v) = u)
  BY <1>3, <1>4, <1>5, <1>6, PartsOf
<1>8. QED
  BY <1>3, <1>7 DEF u, v, w

\* Line and Entries for the request r, the list o, the dictionary c and the heap h.
Held(k, c) == IF k \in Keys /\ c[k] # None THEN c[k] ELSE None

LeavingOf(r, o, c) ==
  IF r.pc = "check" THEN None
  ELSE IF r.pc = "pick" THEN (IF o = <<>> THEN None ELSE Last(o))
  ELSE IF r.pc = "pop" THEN Held(r.out, c)
  ELSE r.node

LineOf(r, o, c) == Arriving(r) \o Cut(o, LeavingOf(r, o, c))

EntriesOf(r, o, c, h) == View(NewEntry(r), h, LineOf(r, o, c))

\* No thread but t has a request.
Solo(t) == \A u \in Threads \ {t} : req[u] = Idle

LEMMA EntriesAre ==
  ASSUME NEW t \in Threads, Solo(t)
  PROVE  Entries = EntriesOf(req[t], order, cache, node)
<1>1. Acting = req[t]
  <2>1. CASE req[t] = Idle
    BY <2>1 DEF Solo, Active, Acting
  <2>2. CASE req[t] # Idle
    <3>1. Active = {t}
      BY <2>2 DEF Solo, Active
    <3>2. (CHOOSE u \in Active : TRUE) = t /\ Active # {}
      BY <3>1
    <3>3. QED
      BY <3>2 DEF Acting
  <2>3. QED
    BY <2>1, <2>2
<1>2. Leaving(req[t]) = LeavingOf(req[t], order, cache)
  BY Zenon DEF Leaving, LeavingOf, Held, Cached
<1>3. Without(LeavingOf(req[t], order, cache)) = Cut(order, LeavingOf(req[t], order, cache))
  BY Zenon DEF Without, Cut
<1>4. Line = LineOf(req[t], order, cache)
  BY <1>1, <1>2, <1>3, Zenon DEF Line, LineOf
<1>5. QED
  BY <1>1, <1>4, Zenon DEF Entries, EntriesOf, View

LEMMA ActingNext ==
  ASSUME NEW t \in Threads, Solo(t)'
  PROVE  Acting' = req'[t]
<1>1. CASE req'[t] = Idle
  BY <1>1 DEF Solo, Active, Acting
<1>2. CASE req'[t] # Idle
  <2>1. Active' = {t}
    BY <1>2 DEF Solo, Active
  <2>2. (CHOOSE u \in Active' : TRUE) = t /\ Active' # {}
    BY <2>1
  <2>3. QED
    BY <2>2 DEF Acting
<1>3. QED
  BY <1>1, <1>2

LEMMA EntriesBecome ==
  ASSUME NEW t \in Threads, Solo(t)'
  PROVE  Entries' = EntriesOf(req'[t], order', cache', node')
<1>1. Acting' = req'[t]
  BY ActingNext
<1>2. Leaving(req[t])' = LeavingOf(req'[t], order', cache')
  BY Zenon DEF Leaving, LeavingOf, Held, Cached
<1>3. Without(Leaving(Acting))' = Cut(order', Leaving(Acting)')
  BY Zenon DEF Without, Cut
<1>4. Leaving(Acting)' = Leaving(req[t])'
  BY <1>1, Zenon DEF Leaving
<1>5. Line' = LineOf(req'[t], order', cache')
  BY <1>1, <1>2, <1>3, <1>4, Zenon DEF Line, LineOf, Arriving
<1>6. QED
  BY <1>1, <1>5, Zenon DEF Entries, EntriesOf, View, NewEntry

\* The line with what is to come in front.
Put(r, l) == IF r.op = "set" THEN Cons(None, l) ELSE l

Moving == {"moveout", "movein", "value"}

LEMMA RestLine ==
  ASSUME NEW r, r.pc \notin Moving, NEW o, IsList(o), NEW c
  PROVE  LineOf(r, o, c) = Put(r, Cut(o, LeavingOf(r, o, c)))
<1> DEFINE w == Cut(o, LeavingOf(r, o, c))
<1>1. LineOf(r, o, c) = Arriving(r) \o w
  BY DEF LineOf
<1>2. w \in Seq(Nodes)
  BY CutRange DEF IsList
<1>3. Arriving(r) = IF r.op = "set" THEN <<None>> ELSE <<>>
  BY DEF Arriving, Moving
<1> HIDE DEF w
<1>4. <<>> \o w = w
  BY <1>2, ConcatEmptySeq
<1>5. QED
  BY <1>1, <1>3, <1>4 DEF Put, Cons, w

LEMMA MoveLine ==
  ASSUME NEW r, r.pc \in Moving, NEW o, NEW c
  PROVE  LineOf(r, o, c) = Cons(r.node, Cut(o, r.node))
<1>1. LeavingOf(r, o, c) = r.node /\ Arriving(r) = <<r.node>>
  BY DEF LeavingOf, Arriving, Moving
<1>2. QED
  BY <1>1 DEF LineOf, Cons

LEMMA PlainLine ==
  ASSUME NEW r, ReqOK(r), r.pc \in {"idle", "check", "create"}, NEW o, IsList(o), NEW c
  PROVE  LineOf(r, o, c) = IF r.pc = "create" THEN Cons(None, o) ELSE o
<1>1. LeavingOf(r, o, c) = None
  BY DEF LeavingOf, ReqOK, Holds
<1>2. r.pc = "create" <=> r.op = "set"
  BY IdleOK DEF ReqOK
<1>3. Cut(o, None) = o
  BY ListFacts, CutAbsent
<1>4. LineOf(r, o, c) = Put(r, Cut(o, LeavingOf(r, o, c)))
  BY RestLine DEF Moving
<1>5. QED
  BY <1>1, <1>2, <1>3, <1>4 DEF Put

\* Every object has one place in a line at most.
OnceEach(l) == \A i, j \in 1 .. Len(l) : l[i] = l[j] /\ l[i] # None => i = j

LEMMA ConsOnce ==
  ASSUME NEW a \in Nodes \cup {None}, NEW l, Lined(l), OnceEach(l), a = None \/ a \notin Range(l)
  PROVE  /\ Lined(Cons(a, l)) /\ OnceEach(Cons(a, l))
         /\ Range(Cons(a, l)) \subseteq Range(l) \cup {a}
<1> DEFINE m == Cons(a, l)
<1>1. /\ Lined(m) /\ Len(m) = 1 + Len(l)
      /\ \A i \in 1 .. 1 + Len(l) : m[i] = IF i <= 1 THEN a ELSE l[i - 1]
  BY ConsLined
<1>2. Len(l) \in Nat /\ DOMAIN l = 1 .. Len(l) /\ DOMAIN m = 1 .. 1 + Len(l)
  BY <1>1, LenProperties DEF Lined
<1> HIDE DEF m
<1>3. \A i \in 1 .. Len(l) : l[i] \in Range(l)
  BY <1>2 DEF Range
<1>4. \A i \in 1 .. 1 + Len(l) : i <= 1 \/ i - 1 \in 1 .. Len(l)
  BY <1>2
<1>5. OnceEach(m)
  BY <1>1, <1>2, <1>3, <1>4 DEF OnceEach
<1>6. Range(m) \subseteq Range(l) \cup {a}
  BY <1>1, <1>2, <1>3, <1>4 DEF Range
<1>7. QED
  BY <1>1, <1>5, <1>6 DEF m

LEMMA LineShape ==
  ASSUME NEW r, ReqOK(r), NEW o, IsList(o), NEW c
  PROVE  /\ Lined(LineOf(r, o, c)) /\ OnceEach(LineOf(r, o, c))
         /\ Range(LineOf(r, o, c)) \subseteq Range(o) \cup {r.node, None}
<1>1. ASSUME NEW n
      PROVE  Lined(Cut(o, n)) /\ OnceEach(Cut(o, n)) /\ Range(Cut(o, n)) \subseteq Range(o) \ {n}
  BY CutRange, ListLined, ListFacts DEF OnceEach
<1>2. ASSUME NEW n, NEW a \in {None, n}, a \in Nodes \cup {None}
      PROVE  /\ Lined(Cons(a, Cut(o, n))) /\ OnceEach(Cons(a, Cut(o, n)))
             /\ Range(Cons(a, Cut(o, n))) \subseteq Range(o) \cup {a}
  BY <1>1, <1>2, ConsOnce
<1>3. CASE r.pc \in Moving
  <2>1. LineOf(r, o, c) = Cons(r.node, Cut(o, r.node)) /\ r.node \in Nodes \cup {None}
    BY <1>3, MoveLine DEF ReqOK, Req
  <2>2. QED
    BY <1>2, <2>1
<1>4. CASE r.pc \notin Moving
  <2> DEFINE n == LeavingOf(r, o, c)
  <2>1. LineOf(r, o, c) = Put(r, Cut(o, n))
    BY <1>4, RestLine
  <2> HIDE DEF n
  <2>2. /\ Lined(Cons(None, Cut(o, n))) /\ OnceEach(Cons(None, Cut(o, n)))
        /\ Range(Cons(None, Cut(o, n))) \subseteq Range(o) \cup {None}
    BY <1>2
  <2>3. Lined(Cut(o, n)) /\ OnceEach(Cut(o, n)) /\ Range(Cut(o, n)) \subseteq Range(o)
    BY <1>1
  <2>4. CASE r.op = "set"
    BY <2>1, <2>2, <2>4 DEF Put
  <2>5. CASE r.op # "set"
    BY <2>1, <2>3, <2>5 DEF Put
  <2>6. QED
    BY <2>4, <2>5
<1>5. QED
  BY <1>3, <1>4

-----------------------------------------------------------------------------
(* What a request that is alone has done so far.                           *)

\* Only one thread has a request.
Alone == \A t \in Threads : req[t] # Idle => Solo(t)

\* A SET has stored its value, with its TTL, in the node whose expiry it sets; a GET
\* that is about to answer has its node in front.
Matching(t) ==
  /\ req[t].pc = "expiry" => /\ req[t].op = "set" /\ req[t].ttl
                             /\ node[req[t].node].value = req[t].value
  /\ req[t].pc = "value" => order # <<>> /\ order[1] = req[t].node

ApartInv == met = "apart" => Alone /\ \A t \in Threads : Matching(t)

LEMMA MeetAlone ==
  ASSUME Shapes, NEW t \in Threads, NEW k, Meet(t, k), met' = "apart"
  PROVE  met = "apart" /\ Solo(t)
<1>1. ~ \E u \in Active \ {t} : k # None /\ k \in {req[u].key, req[u].out}
  BY DEF Meet
<1>2. met' = IF Active \ {t} # {} /\ met = "apart" THEN "overlap" ELSE met
  BY <1>1 DEF Meet
<1>3. met = "apart" /\ Active \ {t} = {}
  BY <1>2
<1>4. QED
  BY <1>3 DEF Active, Solo

LEMMA SoloStep ==
  ASSUME NEW t \in Threads, Moves(t), Solo(t)
  PROVE  Solo(t)'
BY DEF Moves, Same, Solo

LEMMA OthersIdle ==
  ASSUME NEW t \in Threads, Solo(t), NEW u \in Threads, req[u].pc # "idle"
  PROVE  u = t
BY IdleOK DEF Solo

\* Node n is at place at of o, and the objects of h and g differ in n only.
Place(o, at, n) == IsList(o) /\ at \in 1 .. Len(o) /\ o[at] = n

Alike(o, n, h, g) == \A m \in Range(o) \ {n} : h[m] = g[m]

\* The entries a line shows do not change with what is not in it.
LEMMA ViewLess ==
  ASSUME NEW e, NEW h, NEW d, NEW g, NEW o, NEW at, NEW n, Place(o, at, n), Alike(o, n, h, g)
  PROVE  View(e, h, Cut(o, n)) = RemoveAt(View(d, g, o), at)
<1> DEFINE w == Cut(o, n)
<1>1. IsList(w) /\ Range(w) \subseteq Range(o) \ {n} /\ None \notin Range(o)
  BY CutRange, ListFacts DEF Place
<1>2. View(d, g, w) = RemoveAt(View(d, g, o), at)
  <2>1. View(d, g, Cut(o, o[at])) = RemoveAt(View(d, g, o), at)
    BY ViewCut DEF Place
  <2>2. n = o[at]
    BY DEF Place
  <2>3. QED
    BY <2>1, <2>2, Zenon
<1> HIDE DEF w
<1>3. View(e, h, w) = View(d, g, w)
  BY <1>1, ViewSame DEF Alike
<1>4. QED
  BY <1>2, <1>3 DEF w

LEMMA ViewLast ==
  ASSUME NEW e, NEW h, NEW o, NEW at, NEW n, Place(o, at, n), at = Len(o)
  PROVE  RemoveAt(View(e, h, o), at) = Front(View(e, h, o))
<1>1. /\ View(e, h, Cut(o, o[at])) = RemoveAt(View(e, h, o), at)
      /\ at = Len(o) => View(e, h, Cut(o, o[at])) = Front(View(e, h, o))
  BY ViewCut DEF Place
<1>2. QED
  BY <1>1, Zenon

-----------------------------------------------------------------------------
(* The steps of a request that is alone, after its decision: no change.    *)

\* Thread t has the only request.
Single(t) == LruInv /\ met = "apart" /\ Solo(t) /\ Matching(t)

LEMMA SingleFacts ==
  ASSUME NEW t \in Threads, Single(t)
  PROVE  /\ Shapes /\ Orderly /\ InPlace(t) /\ ReqOK(req[t]) /\ IsList(order)
         /\ cache \in [Keys -> Nodes \cup {None}]
         /\ req[t].pc # "unlink" => \A n \in Range(order) : node[n].key \in Keys /\ cache[node[n].key] = n
         /\ req[t].pc # "movein" => \A k \in Cached : cache[k] \in Range(order)
         /\ \A k \in Cached : node[cache[k]].key = k
<1>1. Shapes /\ Orderly /\ InPlace(t) /\ Findable /\ Labelled
  BY DEF Single, LruInv, Orderly
<1>2. ReqOK(req[t]) /\ IsList(order) /\ cache \in [Keys -> Nodes \cup {None}]
  BY <1>1 DEF Shapes, TypeOK, IsList
<1>3. \A n \in Range(order) : n \in Nodes /\ n # None /\ node[n] \in Node
  BY <1>1, <1>2, ListFacts, LiveNodes DEF Shapes, TypeOK
<1>4. \A u \in Threads : req[u].pc # "idle" => u = t
  BY OthersIdle DEF Single
<1>5. req[t].pc # "unlink" => \A n \in Range(order) : node[n].key \in Keys /\ cache[node[n].key] = n
  BY <1>1, <1>3, <1>4 DEF Orderly, NoStrays, Node
<1>6. req[t].pc # "movein" => \A k \in Cached : cache[k] \in Range(order)
  BY <1>1, <1>4 DEF Findable
<1>7. QED
  BY <1>1, <1>2, <1>5, <1>6 DEF Labelled

\* What is in the list or in hand is not changed by reference counting.
LEMMA SightStays ==
  ASSUME Shapes', Keep(node) \/ node' = node, NEW t \in Threads, NEW l, NEW e,
         Range(l) \subseteq Range(order') \cup {req'[t].node, None}
  PROVE  View(e, node', l) = View(e, node, l)
<1>1. \A n \in Range(l) \ {None} : n \in Live'
  BY DEF Live
<1>2. \A n \in Range(l) \ {None} : node'[n] = node[n]
  BY <1>1 DEF Keep
<1>3. QED
  BY <1>2, ViewSame

LEMMA Stutters ==
  ASSUME Shapes', NEW t \in Threads, Solo(t), Moves(t), Keep(node) \/ node' = node,
         ReqOK(req[t]),
         NEW l, LineOf(req[t], order, cache) = l, LineOf(req'[t], order', cache') = l,
         None \in Range(l) => NewEntry(req'[t]) = NewEntry(req[t])
  PROVE  Entries' = Entries
<1>1. Solo(t)'
  BY SoloStep
<1>2. ReqOK(req'[t]) /\ IsList(order')
  BY DEF Shapes, TypeOK, Moves, IsList
<1>3. Range(l) \subseteq Range(order') \cup {req'[t].node, None}
  BY <1>2, LineShape
<1>4. Entries = View(NewEntry(req[t]), node, l)
  BY EntriesAre DEF EntriesOf
<1>5. Entries' = View(NewEntry(req'[t]), node', l)
  BY <1>1, EntriesBecome DEF EntriesOf
<1>6. View(NewEntry(req'[t]), node', l) = View(NewEntry(req'[t]), node, l)
  BY <1>3, SightStays
<1>7. View(NewEntry(req'[t]), node, l) = View(NewEntry(req[t]), node, l)
  BY ViewSame
<1>8. QED
  BY <1>4, <1>5, <1>6, <1>7

LEMMA SameEntry ==
  ASSUME NEW t \in Threads, NEW p, NEW n, NEW out, Becomes(t, p, n, out)
  PROVE  NewEntry(req'[t]) = NewEntry(req[t])
BY DEF Becomes, NewEntry

LEMMA PickQuiet ==
  ASSUME NEW t \in Threads, Single(t), Shapes', Pick(t)
  PROVE  Entries' = Entries
<1> DEFINE r == req[t]
           x == req'[t]
           last == IF order = <<>> THEN None ELSE Last(order)
           held == Held(x.out, cache')
<1>1. /\ Moves(t) /\ r.pc = "pick" /\ UNCHANGED <<cache, order, node>>
      /\ Becomes(t, "pop", None, Victim)
  BY SingleFacts, PickMoves
<1>2. ReqOK(r) /\ ReqOK(x) /\ IsList(order) /\ Shapes
  BY <1>1, SingleFacts DEF Moves
<1>3. r.op = "set" /\ x.op = "set" /\ x.pc = "pop" /\ x.out = Victim
  BY <1>1, <1>2 DEF ReqOK, Becomes
<1>4. held = last
  <2>1. CASE order = <<>>
    BY <1>3, <2>1, LruAssumption DEF Held, Victim
  <2>2. CASE order # <<>>
    <3>1. Len(order) \in 1 .. Len(order)
      BY <1>2, <2>2, EmptySeq, LenProperties DEF IsList
    <3>2. Last(order) \in Range(order) /\ Last(order) # None
      BY <1>2, <3>1, ListFacts DEF Last
    <3>3. Victim \in Keys /\ cache[Victim] = Last(order)
      BY <1>1, <2>2, <3>2, SingleFacts DEF Victim
    <3>4. QED
      BY <1>1, <1>3, <2>2, <3>2, <3>3 DEF Held
  <2>3. QED
    BY <2>1, <2>2
<1> DEFINE l == Cons(None, Cut(order, last))
<1>5. LeavingOf(r, order, cache) = last /\ LeavingOf(x, order', cache') = held
  BY <1>1, <1>3 DEF LeavingOf
<1>6. LineOf(r, order, cache) = Put(r, Cut(order, last))
  BY <1>1, <1>2, <1>5, RestLine DEF Moving
<1>7. LineOf(x, order', cache') = Put(x, Cut(order, last))
  BY <1>1, <1>2, <1>3, <1>4, <1>5, RestLine DEF Moving
<1>8. NewEntry(x) = NewEntry(r)
  BY <1>1, SameEntry
<1>9. LineOf(r, order, cache) = l /\ LineOf(x, order', cache') = l
  BY <1>3, <1>6, <1>7 DEF Put
<1> HIDE DEF l
<1>10. QED
  BY <1>1, <1>2, <1>8, <1>9, Stutters DEF Single

LEMMA PopQuiet ==
  ASSUME NEW t \in Threads, Single(t), Shapes', Pop(t)
  PROVE  Entries' = Entries
<1> DEFINE r == req[t]
           x == req'[t]
           held == Held(r.out, cache)
           l == Put(r, Cut(order, held))
<1>1. Moves(t) /\ r.pc = "pop" /\ UNCHANGED <<order, node>>
  BY SingleFacts, PopMoves
<1>2. ReqOK(r) /\ ReqOK(x) /\ IsList(order) /\ Shapes /\ cache \in [Keys -> Nodes \cup {None}]
  BY <1>1, SingleFacts DEF Moves
<1>3. LeavingOf(r, order, cache) = held
  BY <1>1 DEF LeavingOf
<1>4. LineOf(r, order, cache) = l
  BY <1>1, <1>2, <1>3, RestLine DEF Moving
<1>5. CASE r.out \in Cached
  <2>1. Becomes(t, "unlink", cache[r.out], r.out)
    BY <1>2, <1>5, PopMoves
  <2>2. LeavingOf(x, order', cache') = held /\ x.pc = "unlink" /\ x.op = r.op
    BY <1>5, <2>1 DEF Becomes, LeavingOf, Held, Cached
  <2>3. LineOf(x, order', cache') = Put(x, Cut(order, held))
    BY <1>1, <1>2, <2>2, RestLine DEF Moving
  <2>4. LineOf(x, order', cache') = l
    BY <2>2, <2>3 DEF Put
  <2>5. NewEntry(x) = NewEntry(r)
    BY <2>1, SameEntry
  <2> HIDE DEF l
  <2>6. QED
    BY <1>1, <1>2, <1>4, <2>4, <2>5, Stutters DEF Single
<1>6. CASE r.out \notin Cached
  <2>1. Cut(order, held) = order
    <3>1. held = None
      BY <1>2, <1>6 DEF Held, Cached
    <3>2. QED
      BY <1>2, <3>1, ListFacts, CutAbsent
  <2>2. x = AfterDelete(r)
    BY <1>2, <1>6 DEF Pop, Shapes, TypeOK
  <2> HIDE DEF held
  <2>3. CASE r.op = "set"
    <3>1. x.pc = "create" /\ NewEntry(x) = NewEntry(r)
      BY <1>1, <1>2, <2>2, <2>3 DEF AfterDelete, ReqOK, Req, NewEntry
    <3>2. LineOf(x, order', cache') = l
      BY <1>1, <1>2, <2>1, <2>3, <3>1, PlainLine DEF Put
    <3> HIDE DEF l
    <3>3. QED
      BY <1>1, <1>2, <1>4, <3>1, <3>2, Stutters DEF Single
  <2>4. CASE r.op # "set"
    <3>1. x.pc = "idle"
      BY <2>2, <2>4, IdleOK DEF AfterDelete
    <3>2. LineOf(x, order', cache') = l
      BY <1>1, <1>2, <2>1, <2>4, <3>1, PlainLine DEF Put
    <3>3. None \notin Range(l)
      BY <1>2, <2>1, <2>4, ListFacts DEF Put
    <3> HIDE DEF l
    <3>4. QED
      BY <1>1, <1>2, <1>4, <3>2, <3>3, Stutters DEF Single
  <2>5. QED
    BY <2>3, <2>4
<1>7. QED
  BY <1>5, <1>6

LEMMA UnlinkQuiet ==
  ASSUME NEW t \in Threads, Single(t), Shapes', Unlink(t)
  PROVE  Entries' = Entries
<1> DEFINE r == req[t]
           x == req'[t]
           l == Put(r, Cut(order, r.node))
<1>1. Moves(t) /\ r.pc = "unlink" /\ Keep(node) /\ order' = Without(r.node)
  BY SingleFacts, UnlinkMoves
<1>2. /\ ReqOK(r) /\ ReqOK(x) /\ IsList(order) /\ IsList(order') /\ Shapes
      /\ r.node \in Range(order)
  BY <1>1, SingleFacts DEF Moves, InPlace, Shapes, TypeOK, IsList
<1>3. order' = Cut(order, r.node)
  BY <1>1, Zenon DEF Without, Cut
<1>4. LeavingOf(r, order, cache) = r.node
  BY <1>1 DEF LeavingOf
<1>5. LineOf(r, order, cache) = l
  BY <1>1, <1>2, <1>4, RestLine DEF Moving
<1>6. x = AfterDelete(r)
  BY <1>2 DEF Unlink, Removed, Shapes, TypeOK
<1>7. CASE r.op = "set"
  <2>1. x.pc = "create" /\ NewEntry(x) = NewEntry(r)
    BY <1>1, <1>2, <1>6, <1>7 DEF AfterDelete, ReqOK, Req, NewEntry
  <2>2. LineOf(x, order', cache') = l
    BY <1>2, <1>3, <1>7, <2>1, PlainLine DEF Put
  <2> HIDE DEF l
  <2>3. QED
    BY <1>1, <1>2, <1>5, <2>1, <2>2, Stutters DEF Single
<1>8. CASE r.op # "set"
  <2>1. x.pc = "idle"
    BY <1>6, <1>8, IdleOK DEF AfterDelete
  <2>2. LineOf(x, order', cache') = l
    BY <1>2, <1>3, <1>8, <2>1, PlainLine DEF Put
  <2>3. None \notin Range(l)
    BY <1>2, <1>3, <1>8, ListFacts DEF Put
  <2> HIDE DEF l
  <2>4. QED
    BY <1>1, <1>2, <1>5, <2>2, <2>3, Stutters DEF Single
<1>9. QED
  BY <1>7, <1>8

LEMMA MoveOutQuiet ==
  ASSUME NEW t \in Threads, Single(t), Shapes', MoveOut(t)
  PROVE  Entries' = Entries
<1> DEFINE r == req[t]
           x == req'[t]
           l == Cons(r.node, Cut(order, r.node))
<1>1. Moves(t) /\ r.pc = "moveout" /\ Keep(node) /\ order' = Without(r.node)
  BY SingleFacts, MoveOutMoves
<1>2. /\ ReqOK(r) /\ ReqOK(x) /\ IsList(order) /\ IsList(order') /\ Shapes
      /\ r.node \in Range(order)
  BY <1>1, SingleFacts DEF Moves, InPlace, Shapes, TypeOK, IsList
<1>3. Becomes(t, "movein", r.node, None)
  BY <1>2, MoveOutMoves
<1>4. x.pc = "movein" /\ x.node = r.node /\ NewEntry(x) = NewEntry(r)
  BY <1>3, SameEntry DEF Becomes
<1>5. order' = Cut(order, r.node)
  BY <1>1, Zenon DEF Without, Cut
<1>6. r.node \notin Range(order')
  BY <1>2, <1>5, CutRange
<1>7. Cut(order', r.node) = order'
  BY <1>6, CutAbsent
<1>8. LineOf(r, order, cache) = l
  BY <1>1, MoveLine DEF Moving
<1>9. LineOf(x, order', cache') = l
  BY <1>4, <1>5, <1>7, MoveLine DEF Moving
<1> HIDE DEF l
<1>10. QED
  BY <1>1, <1>2, <1>4, <1>8, <1>9, Stutters DEF Single

LEMMA MoveInQuiet ==
  ASSUME NEW t \in Threads, Single(t), Shapes', MoveIn(t)
  PROVE  Entries' = Entries
<1> DEFINE r == req[t]
           x == req'[t]
<1>1. /\ Moves(t) /\ r.pc = "movein" /\ Keep(node) /\ r.node \in Nodes
      /\ order' = Cons(r.node, order)
      /\ Ends(t) \/ Becomes(t, "value", r.node, None)
  BY SingleFacts, MoveInMoves DEF Cons
<1>2. /\ ReqOK(r) /\ ReqOK(x) /\ IsList(order) /\ IsList(order') /\ Shapes
      /\ r.node \notin Range(order)
  BY <1>1, SingleFacts DEF Single, LruInv, Lifted, Moves, Shapes, TypeOK, IsList
<1>3. Cut(order, r.node) = order
  BY <1>2, CutAbsent
<1>4. LineOf(r, order, cache) = order'
  BY <1>1, <1>3, MoveLine DEF Moving
<1>5. None \notin Range(order')
  BY <1>2, ListFacts
<1>6. CASE Ends(t)
  <2>1. LineOf(x, order', cache') = order'
    BY <1>2, <1>6, IdleOK, PlainLine DEF Ends
  <2>2. QED
    BY <1>1, <1>2, <1>4, <1>5, <2>1, Stutters DEF Single
<1>7. CASE Becomes(t, "value", r.node, None)
  <2>1. order' # <<>> /\ order'[1] = r.node
    <3>1. Lined(order)
      BY <1>2, ListLined
    <3>2. /\ Len(order') = 1 + Len(order) /\ Len(order) \in Nat
          /\ \A i \in 1 .. 1 + Len(order) : order'[i] = IF i <= 1 THEN r.node ELSE order[i - 1]
      BY <1>1, <1>2, <3>1, ConsLined, ListFacts
    <3>3. QED
      BY <1>2, <3>2, EmptySeq DEF IsList
  <2>2. Cons(order'[1], Cut(order', order'[1])) = order'
    BY <1>2, <2>1, CutFirst
  <2>3. x.pc = "value" /\ x.node = r.node
    BY <1>7 DEF Becomes
  <2>4. Cons(r.node, Cut(order', r.node)) = order'
    BY <2>1, <2>2, Zenon
  <2>5. LineOf(x, order', cache') = order'
    <3>1. LineOf(x, order', cache') = Cons(x.node, Cut(order', x.node))
      BY <2>3, MoveLine DEF Moving
    <3>2. QED
      BY <2>3, <2>4, <3>1, Zenon
  <2>6. QED
    BY <1>1, <1>2, <1>4, <1>5, <2>5, Stutters DEF Single
<1>8. QED
  BY <1>1, <1>6, <1>7

LEMMA ValueQuiet ==
  ASSUME NEW t \in Threads, Single(t), Shapes', Value(t)
  PROVE  Entries' = Entries
<1> DEFINE r == req[t]
           x == req'[t]
<1>1. Moves(t) /\ r.pc = "value" /\ Keep(node) /\ UNCHANGED <<cache, order>> /\ x = Idle
  BY SingleFacts, ValueMoves DEF Ends
<1>2. ReqOK(r) /\ ReqOK(x) /\ IsList(order) /\ Shapes
  BY <1>1, SingleFacts DEF Moves
<1>3. order # <<>> /\ order[1] = r.node
  BY <1>1 DEF Single, Matching
<1>4. Cons(r.node, Cut(order, r.node)) = order
  <2>1. Cons(order[1], Cut(order, order[1])) = order
    BY <1>2, <1>3, CutFirst
  <2>2. QED
    BY <1>3, <2>1, Zenon
<1>5. LineOf(r, order, cache) = order
  <2>1. LineOf(r, order, cache) = Cons(r.node, Cut(order, r.node))
    BY <1>1, MoveLine DEF Moving
  <2>2. QED
    BY <1>4, <2>1, Zenon
<1>6. LineOf(x, order', cache') = order
  BY <1>1, <1>2, IdleOK, PlainLine
<1>7. None \notin Range(order)
  BY <1>2, ListFacts
<1>8. QED
  BY <1>1, <1>2, <1>5, <1>6, <1>7, Stutters DEF Single

LEMMA SameNode ==
  ASSUME NEW x \in Node, NEW y \in Node, x.key = y.key, x.value = y.value, x.expires = y.expires
  PROVE  x = y
BY DEF Node

LEMMA ExpiryQuiet ==
  ASSUME NEW t \in Threads, Single(t), Shapes', Expiry(t)
  PROVE  Entries' = Entries
<1> DEFINE r == req[t]
           x == req'[t]
           n == r.node
           w == Cut(order, n)
<1>1. /\ Moves(t) /\ r.pc = "expiry" /\ UNCHANGED <<cache, order>>
      /\ node' = [node EXCEPT ![n].expires = "later"]
      /\ Becomes(t, "moveout", n, None)
  BY SingleFacts, ExpiryMoves
<1>2. ReqOK(r) /\ IsList(order) /\ Shapes /\ cache[r.key] = n /\ r.key \in Keys
  BY <1>1, SingleFacts DEF Moves, InPlace, ReqOK
<1>3. /\ n \in Range(order) /\ n \in Live /\ n \in Nodes /\ n # None
      /\ node[n] \in Node /\ node[n].key = r.key
  <2>1. n \in Range(order) /\ r.key \in Cached
    BY <1>1, <1>2, SingleFacts, ListFacts DEF InPlace, Cached
  <2>2. QED
    BY <1>2, <2>1, SingleFacts, ListFacts, LiveNodes DEF Shapes, TypeOK
<1>4. r.op = "set" /\ r.ttl /\ node[n].value = r.value
  BY <1>1 DEF Single, Matching
<1>5. node'[n] = NewEntry(r) /\ \A m \in Range(order) \ {n} : node'[m] = node[m]
  <2> DEFINE e == NewEntry(r)
             d == [node[n] EXCEPT !.expires = "later"]
  <2>1. e \in Node /\ e.key = r.key /\ e.value = r.value /\ e.expires = "later"
    BY <1>2, <1>4 DEF NewEntry, Node, Expiries, ReqOK
  <2>2. d \in Node /\ d.key = node[n].key /\ d.value = node[n].value /\ d.expires = "later"
    BY <1>3 DEF Node, Expiries
  <2>3. node' = [node EXCEPT ![n] = d]
    BY <1>1
  <2> HIDE DEF e, d
  <2>4. d = e
    BY <1>3, <1>4, <2>1, <2>2, SameNode
  <2>5. Range(order) \subseteq DOMAIN node
    BY <1>2, LiveNodes DEF Shapes, TypeOK
  <2>6. QED
    BY <1>3, <2>3, <2>4, <2>5 DEF e
<1>6. PICK at \in 1 .. Len(order) : order[at] = n
  BY <1>2, <1>3, ListFacts
<1>7. LineOf(r, order, cache) = Cons(None, w)
  <2>1. LeavingOf(r, order, cache) = n
    BY <1>1 DEF LeavingOf
  <2>2. QED
    BY <1>1, <1>2, <1>4, <2>1, RestLine DEF Moving, Put
<1>8. LineOf(x, order', cache') = Cons(n, w)
  BY <1>1, MoveLine DEF Becomes, Moving
<1>9. Entries = View(NewEntry(r), node, Cons(None, w))
  BY <1>7, EntriesAre DEF Single, EntriesOf
<1>10. Entries' = View(NewEntry(x), node', Cons(n, w))
  BY <1>1, <1>8, SoloStep, EntriesBecome DEF Single, EntriesOf
<1>11. /\ View(NewEntry(r), node, Cons(None, w)) = Cons(NewEntry(r), View(NewEntry(r), node, w))
       /\ View(NewEntry(x), node', Cons(n, w)) = Cons(node'[n], View(NewEntry(x), node', w))
       /\ View(NewEntry(x), node', w) = View(NewEntry(r), node, w)
  <2>1. Lined(w) /\ None \notin Range(w) /\ Range(w) \subseteq Range(order) \ {n}
    BY <1>2, CutRange, ListFacts, ListLined
  <2> HIDE DEF w
  <2>2. View(NewEntry(x), node', w) = View(NewEntry(r), node, w)
    BY <1>5, <2>1, ViewSame
  <2>3. View(NewEntry(r), node, Cons(None, w)) = Cons(NewEntry(r), View(NewEntry(r), node, w))
    BY <2>1, ViewNew
  <2>4. View(NewEntry(x), node', Cons(n, w)) = Cons(node'[n], View(NewEntry(x), node', w))
    BY <1>3, <2>1, ViewOld
  <2>5. QED
    BY <2>2, <2>3, <2>4
<1>12. QED
  BY <1>5, <1>9, <1>10, <1>11, Zenon

LEMMA CreateQuiet ==
  ASSUME NEW t \in Threads, Single(t), Shapes', Create(t)
  PROVE  Entries' = Entries
<1> DEFINE r == req[t]
           x == req'[t]
           n == NewNode
<1>1. /\ Moves(t) /\ r.pc = "create" /\ UNCHANGED <<order, met>> /\ n \in Nodes \ Live
      /\ cache' = [cache EXCEPT ![r.key] = n]
      /\ Becomes(t, "movein", n, None)
  BY SingleFacts, CreateMoves
<1>2. /\ ReqOK(r) /\ IsList(order) /\ Shapes /\ r.key \in Keys
      /\ cache \in [Keys -> Nodes \cup {None}]
  BY <1>1, SingleFacts DEF ReqOK
<1>3. Range(order) \subseteq Live /\ Range(order) \subseteq Live' /\ n \in Live' /\ n # None
  BY <1>1, <1>2, LiveNodes, ListFacts, LruAssumption DEF Live
<1>4. node'[n] = NewEntry(r) /\ \A m \in Range(order) : node'[m] = node[m]
  BY <1>1, <1>2, <1>3, CreateShape
<1>5. Cut(order, n) = order
  BY <1>1, <1>3, CutAbsent
<1>6. LineOf(r, order, cache) = Cons(None, order)
  BY <1>1, <1>2, PlainLine
<1>7. LineOf(x, order', cache') = Cons(n, order)
  BY <1>1, <1>5, MoveLine DEF Becomes, Moving
<1>8. Entries = View(NewEntry(r), node, Cons(None, order))
  BY <1>6, EntriesAre DEF Single, EntriesOf
<1>9. Entries' = View(NewEntry(x), node', Cons(n, order))
  BY <1>1, <1>7, SoloStep, EntriesBecome DEF Single, EntriesOf
<1>10. Lined(order)
  BY <1>2, ListLined
<1>11. View(NewEntry(r), node, Cons(None, order))
         = Cons(NewEntry(r), View(NewEntry(r), node, order))
  BY <1>10, ViewNew
<1> HIDE DEF n
<1>12. View(NewEntry(x), node', Cons(n, order)) = Cons(node'[n], View(NewEntry(x), node', order))
  BY <1>1, <1>10, ViewOld
<1>13. View(NewEntry(x), node', order) = View(NewEntry(r), node, order)
  BY <1>2, <1>4, ListFacts, ViewSame
<1>14. QED
  BY <1>4, <1>8, <1>9, <1>11, <1>12, <1>13, Zenon

-----------------------------------------------------------------------------
(* Its decision is a step of the policy.                                   *)

LEMMA RestEntries ==
  ASSUME NEW t \in Threads, Single(t), req[t].pc \in {"idle", "check"}
  PROVE  /\ Entries = View(NewEntry(req[t]), node, order)
         /\ Len(Entries) = Len(order) /\ DOMAIN Entries = 1 .. Len(order)
         /\ \A i \in 1 .. Len(order) : Entries[i] = node[order[i]]
<1>1. ReqOK(req[t]) /\ IsList(order)
  BY SingleFacts
<1>2. LineOf(req[t], order, cache) = order
  BY <1>1, PlainLine
<1>3. Entries = View(NewEntry(req[t]), node, order)
  BY <1>2, EntriesAre DEF Single, EntriesOf
<1>4. Lined(order) /\ None \notin Range(order) /\ \A i \in 1 .. Len(order) : order[i] \in Range(order)
  BY <1>1, ListFacts, ListLined
<1>5. QED
  BY <1>3, <1>4, ViewShape

LEMMA TouchStep ==
  ASSUME NEW t \in Threads, Single(t), req[t].pc \in {"idle", "check"}, Shapes', Moves(t),
         Keep(node) \/ node' = node, order' = order,
         req'[t].pc = "moveout", req'[t].node \in Range(order),
         req'[t].op = "get", req'[t].key = node[req'[t].node].key,
         node[req'[t].node].expires # "passed"
  PROVE  Policy!Next
<1> DEFINE n == req'[t].node
           w == Cut(order, n)
           e == NewEntry(req'[t])
<1>1. IsList(order) /\ ReqOK(req'[t]) /\ n \in Nodes /\ n # None
  BY SingleFacts, ListFacts DEF Moves
<1>2. PICK i \in 1 .. Len(order) : order[i] = n
  BY <1>1, ListFacts
<1>3. LineOf(req'[t], order', cache') = Cons(n, w)
  BY MoveLine DEF Moving
<1>4. Entries' = View(e, node', Cons(n, w))
  BY <1>3, SoloStep, EntriesBecome DEF Single, EntriesOf
<1>5. View(e, node', Cons(n, w)) = View(e, node, Cons(n, w))
  <2>1. Range(Cons(n, w)) \subseteq Range(order') \cup {n, None}
    BY <1>1, <1>3, LineShape
  <2> HIDE DEF w
  <2>2. QED
    BY <2>1, SightStays
<1>6. View(e, node, Cons(n, w)) = Cons(node[n], View(e, node, w))
  <2>1. Lined(w)
    BY <1>1, CutRange, ListLined
  <2>2. QED
    BY <1>1, <2>1, ViewOld
<1>7. View(e, node, w) = RemoveAt(View(NewEntry(req[t]), node, order), i)
  <2>1. Place(order, i, n) /\ Alike(order, n, node, node)
    BY <1>1, <1>2 DEF Place, Alike
  <2>2. QED
    BY <2>1, ViewLess
<1>8. /\ Entries = View(NewEntry(req[t]), node, order) /\ i \in DOMAIN Entries
      /\ Entries[i] = node[n]
  BY <1>2, RestEntries
<1>9. Entries' = Cons(Entries[i], RemoveAt(Entries, i))
  BY <1>4, <1>5, <1>6, <1>7, <1>8, Zenon
<1>10. Acting'.op = "get" /\ Acting'.key = Entries[i].key /\ Entries[i].expires # "passed"
  BY <1>8, SoloStep, ActingNext DEF Single
<1>11. Policy!Read(i)
  BY <1>9, <1>10 DEF Policy!Read, Policy!RemoveAt, RemoveAt, Cons
<1>12. QED
  BY <1>8, <1>11 DEF Policy!Next

LEMMA LeaveStep ==
  ASSUME NEW t \in Threads, Single(t), req[t].pc \in {"idle", "check"}, Shapes', Moves(t),
         Keep(node) \/ node' = node, order' = order, cache' = cache,
         req'[t].pc = "pop", req'[t].out \in Cached, req'[t].key = req'[t].out,
         \/ req'[t].op = "delete"
         \/ req'[t].op = "get" /\ node[cache[req'[t].out]].expires = "passed"
  PROVE  Policy!Next
<1> DEFINE n == cache[req'[t].out]
           w == Cut(order, n)
           e == NewEntry(req'[t])
<1>1. IsList(order) /\ ReqOK(req'[t]) /\ n \in Range(order) /\ n # None
  BY SingleFacts, ListFacts DEF Moves
<1>2. PICK i \in 1 .. Len(order) : order[i] = n
  BY <1>1, ListFacts
<1>3. LineOf(req'[t], order', cache') = w
  <2>1. LeavingOf(req'[t], order', cache') = n
    BY DEF LeavingOf, Held, Cached
  <2>2. QED
    BY <1>1, <2>1, RestLine DEF Moving, Put
<1>4. Entries' = View(e, node', w)
  BY <1>3, SoloStep, EntriesBecome DEF Single, EntriesOf
<1>5. View(e, node', w) = View(e, node, w)
  <2>1. Range(w) \subseteq Range(order') \cup {req'[t].node, None}
    BY <1>1, <1>3, LineShape
  <2> HIDE DEF w
  <2>2. QED
    BY <2>1, SightStays
<1>6. View(e, node, w) = RemoveAt(View(NewEntry(req[t]), node, order), i)
  <2>1. Place(order, i, n) /\ Alike(order, n, node, node)
    BY <1>1, <1>2 DEF Place, Alike
  <2>2. QED
    BY <2>1, ViewLess
<1>7. /\ Entries = View(NewEntry(req[t]), node, order) /\ i \in DOMAIN Entries
      /\ Entries[i] = node[n]
  BY <1>2, RestEntries
<1>8. Entries' = RemoveAt(Entries, i)
  BY <1>4, <1>5, <1>6, <1>7, Zenon
<1>9. Acting' = req'[t] /\ Entries[i].key = req'[t].key
  <2>1. node[n].key = req'[t].out
    BY SingleFacts
  <2>2. QED
    BY <1>7, <2>1, SoloStep, ActingNext DEF Single
<1>10. CASE req'[t].op = "delete"
  <2>1. Policy!Delete(i)
    BY <1>8, <1>9, <1>10 DEF Policy!Delete, Policy!RemoveAt, RemoveAt
  <2>2. QED
    BY <1>7, <2>1 DEF Policy!Next
<1>11. CASE req'[t].op = "get" /\ node[n].expires = "passed"
  <2>1. Policy!Read(i)
    BY <1>7, <1>8, <1>9, <1>11 DEF Policy!Read, Policy!RemoveAt, RemoveAt
  <2>2. QED
    BY <1>7, <2>1 DEF Policy!Next
<1>12. QED
  BY <1>10, <1>11

LEMMA GetStep ==
  ASSUME NEW t \in Threads, NEW k \in Keys, Single(t), Shapes', Get(t, k), ~UNCHANGED vars
  PROVE  Policy!Next \/ Entries' = Entries
<1> DEFINE x == req'[t]
<1>1. Shapes /\ k \in Cached
  BY SingleFacts DEF Get, vars, Cached
<1>2. /\ Moves(t) /\ req[t] = Idle /\ UNCHANGED <<cache, order, node>>
      /\ x.pc \in {"check", "moveout"} /\ x.node = cache[k] /\ x.op = "get" /\ x.key = k
      /\ x.pc = "check" <=> node[cache[k]].expires # "never"
  BY <1>1, GetMoves DEF Cached
<1>3. ReqOK(req[t]) /\ ReqOK(x) /\ IsList(order) /\ x.node \in Range(order) /\ req[t].pc = "idle"
  BY <1>1, <1>2, SingleFacts, IdleOK DEF Moves
<1>4. CASE x.pc = "moveout"
  <2>1. node[x.node].key = x.key /\ node[x.node].expires # "passed"
    BY <1>1, <1>2, <1>4, SingleFacts
  <2>2. QED
    BY <1>2, <1>3, <1>4, <2>1, TouchStep
<1>5. CASE x.pc = "check"
  <2>1. LineOf(req[t], order, cache) = order /\ LineOf(x, order', cache') = order
    BY <1>2, <1>3, <1>5, PlainLine
  <2>2. None \notin Range(order)
    BY <1>3, ListFacts
  <2>3. QED
    BY <1>2, <1>3, <2>1, <2>2, Stutters DEF Single
<1>6. QED
  BY <1>2, <1>4, <1>5

LEMMA DeleteStep ==
  ASSUME NEW t \in Threads, NEW k \in Keys, Single(t), Shapes', Delete(t, k)
  PROVE  Policy!Next \/ Entries' = Entries
<1> DEFINE x == req'[t]
<1>1. Shapes
  BY SingleFacts
<1>2. /\ Moves(t) /\ req[t] = Idle /\ UNCHANGED <<cache, order, node>>
      /\ x.op = "delete" /\ x.pc = "pop" /\ x.out = k /\ x.key = k
  BY <1>1, DeleteMoves
<1>3. ReqOK(req[t]) /\ ReqOK(x) /\ IsList(order) /\ req[t].pc = "idle"
  BY <1>1, <1>2, SingleFacts, IdleOK DEF Moves
<1>4. CASE k \in Cached
  BY <1>2, <1>3, <1>4, LeaveStep
<1>5. CASE k \notin Cached
  <2>1. LineOf(req[t], order, cache) = order
    BY <1>3, PlainLine
  <2>2. LeavingOf(x, order', cache') = None
    BY <1>2, <1>5 DEF LeavingOf, Held, Cached
  <2>3. Cut(order, None) = order /\ None \notin Range(order)
    BY <1>3, ListFacts, CutAbsent
  <2>4. LineOf(x, order', cache') = order
    BY <1>2, <1>3, <2>2, <2>3, RestLine DEF Moving, Put
  <2>5. QED
    BY <1>2, <1>3, <2>1, <2>3, <2>4, Stutters DEF Single
<1>6. QED
  BY <1>4, <1>5

LEMMA CheckStep ==
  ASSUME NEW t \in Threads, Single(t), Shapes', Check(t)
  PROVE  Policy!Next
<1> DEFINE x == req'[t]
           r == req[t]
<1>1. /\ Moves(t) /\ r.pc = "check" /\ Keep(node) /\ UNCHANGED <<cache, order, met>>
      /\ \/ node[r.node].expires = "never"
         \/ node[r.node].expires = "passed" /\ Becomes(t, "pop", None, r.key)
         \/ node[r.node].expires # "passed" /\ Becomes(t, "moveout", r.node, None)
  BY SingleFacts, CheckMoves
<1>2. /\ ReqOK(r) /\ r.op = "get" /\ r.node \in Range(order) /\ r.key \in Cached
      /\ cache[r.key] = r.node /\ node[r.node].key = r.key
  <2>1. ReqOK(r) /\ InPlace(t) /\ IsList(order)
    BY SingleFacts
  <2>2. r.op = "get" /\ r.key \in Keys /\ cache[r.key] = r.node /\ r.node \in Range(order)
    BY <1>1, <2>1 DEF ReqOK, InPlace
  <2>3. r.key \in Cached
    BY <2>1, <2>2, ListFacts DEF Cached
  <2>4. QED
    BY <2>1, <2>2, <2>3, SingleFacts
<1>3. node[r.node].expires # "never"
  BY <1>1, SingleFacts DEF Orderly, Dated
<1>4. CASE node[r.node].expires = "passed" /\ Becomes(t, "pop", None, r.key)
  <2>1. x.pc = "pop" /\ x.op = "get" /\ x.out = r.key /\ x.key = x.out
    BY <1>2, <1>4 DEF Becomes
  <2>2. node[cache[x.out]].expires = "passed"
    BY <1>2, <1>4, <2>1
  <2>3. QED
    BY <1>1, <1>2, <2>1, <2>2, LeaveStep
<1>5. CASE node[r.node].expires # "passed" /\ Becomes(t, "moveout", r.node, None)
  <2>1. x.pc = "moveout" /\ x.node = r.node /\ x.op = "get" /\ x.key = r.key
    BY <1>2, <1>5 DEF Becomes
  <2>2. x.key = node[x.node].key /\ node[x.node].expires # "passed"
    BY <1>2, <1>5, <2>1
  <2>3. QED
    BY <1>1, <1>2, <2>1, <2>2, TouchStep
<1>6. QED
  BY <1>1, <1>3, <1>4, <1>5

\* The number that set compares with the capacity is the length of the list.
LEMMA CachedCount ==
  ASSUME NEW t \in Threads, Single(t), req[t].pc = "idle"
  PROVE  Cardinality(Cached) = Len(order)
<1> DEFINE f == [i \in 1 .. Len(order) |-> node[order[i]].key]
<1>1. IsList(order) /\ Len(order) \in Nat
  BY SingleFacts, ListFacts
<1>2. \A i \in 1 .. Len(order) : f[i] \in Cached /\ cache[f[i]] = order[i]
  <2> SUFFICES ASSUME NEW i \in 1 .. Len(order) PROVE f[i] \in Cached /\ cache[f[i]] = order[i]
    OBVIOUS
  <2>1. order[i] \in Range(order) /\ order[i] # None
    BY <1>1, ListFacts
  <2>2. node[order[i]].key \in Keys /\ cache[node[order[i]].key] = order[i]
    BY <2>1, SingleFacts
  <2>3. QED
    BY <2>1, <2>2 DEF Cached
<1>3. \A k \in Cached : \E i \in 1 .. Len(order) : f[i] = k
  <2> SUFFICES ASSUME NEW k \in Cached PROVE \E i \in 1 .. Len(order) : f[i] = k
    OBVIOUS
  <2>1. cache[k] \in Range(order) /\ node[cache[k]].key = k
    BY SingleFacts
  <2>2. PICK i \in 1 .. Len(order) : order[i] = cache[k]
    BY <1>1, <2>1, ListFacts
  <2>3. QED
    BY <2>1, <2>2
<1>4. f \in [1 .. Len(order) -> Cached] /\ DOMAIN f = 1 .. Len(order)
  BY <1>2
<1> HIDE DEF f
<1>5. \A i, j \in 1 .. Len(order) : f[i] = f[j] => i = j
  <2> SUFFICES ASSUME NEW i \in 1 .. Len(order), NEW j \in 1 .. Len(order), f[i] = f[j]
               PROVE  i = j
    OBVIOUS
  <2>1. order[i] = order[j]
    BY <1>2
  <2>2. QED
    BY <1>1, <2>1, ListFacts
<1>6. f \in Bijection(1 .. Len(order), Cached)
  BY <1>3, <1>4, <1>5 DEF Bijection, Injection, Surjection, IsInjective
<1>7. ExistsBijection(1 .. Len(order), Cached)
  BY <1>6 DEF ExistsBijection
<1>8. QED
  BY <1>1, <1>7, FS_CountingElements

\* A value is written in place.
LEMMA UpdateStep ==
  ASSUME NEW t \in Threads, NEW k \in Keys, NEW v \in Values, NEW z \in BOOLEAN,
         Single(t), Shapes', Set(t, k, v, z), cache[k] # None
  PROVE  Policy!Next
<1> DEFINE x == req'[t]
           n == cache[k]
           w == Cut(order, n)
           new == NewEntry(x)
           old == NewEntry(req[t])
<1>1. Shapes /\ IsList(order)
  BY SingleFacts
<1>2. /\ Moves(t) /\ req[t] = Idle /\ UNCHANGED <<cache, order>>
      /\ x.op = "set" /\ x.key = k /\ x.value = v /\ x.ttl = z /\ x.node = n
      /\ x.pc = IF z THEN "expiry" ELSE "moveout"
  BY <1>1, SetMoves
<1>3. PICK d \in Node : /\ d.key = node[n].key /\ d.value = v /\ (z \/ d.expires = "never")
                        /\ node' = [node EXCEPT ![n] = d]
  BY <1>1, SetMoves
<1>4. /\ k \in Cached /\ n \in Range(order) /\ n \in Nodes /\ n # None /\ node[n].key = k
      /\ req[t].pc = "idle"
  <2>1. k \in Cached /\ req[t].pc = "idle"
    BY <1>2, IdleOK DEF Cached
  <2>2. QED
    BY <1>1, <2>1, SingleFacts, ListFacts
<1>5. PICK i \in 1 .. Len(order) : order[i] = n
  BY <1>1, <1>4, ListFacts
<1>6. node'[n] = d /\ Place(order, i, n) /\ Alike(order, n, node', node)
  <2>1. DOMAIN node = Live /\ Range(order) \subseteq Live
    BY <1>1, LiveNodes DEF Shapes, TypeOK
  <2>2. QED
    BY <1>1, <1>3, <1>4, <1>5, <2>1 DEF Place, Alike
<1>7. /\ Entries = View(old, node, order) /\ i \in DOMAIN Entries /\ Entries[i].key = k
  BY <1>4, <1>5, RestEntries
<1>8. View(new, node', w) = RemoveAt(View(old, node, order), i)
  BY <1>6, ViewLess
<1>9. Entries' = View(new, node', LineOf(x, order', cache'))
  BY <1>2, SoloStep, EntriesBecome DEF Single, EntriesOf
<1>10. Lined(w)
  BY <1>1, CutRange, ListLined
<1>11. \E e \in Node : /\ e.key = k /\ e.expires # "passed"
                       /\ Entries' = Cons(e, View(new, node', w))
  <2>1. CASE z
    <3>1. x.pc = "expiry" /\ LeavingOf(x, order', cache') = n
      BY <1>2, <2>1 DEF LeavingOf
    <3>2. LineOf(x, order', cache') = Cons(None, w)
      BY <1>1, <1>2, <3>1, RestLine DEF Moving, Put
    <3> HIDE DEF w
    <3>3. Entries' = Cons(new, View(new, node', w))
      BY <1>9, <1>10, <3>2, ViewNew
    <3>4. new \in Node /\ new.key = k /\ new.expires = "later"
      BY <1>2, <2>1 DEF NewEntry, Node, Expiries
    <3> HIDE DEF new
    <3>5. QED
      BY <3>3, <3>4
  <2>2. CASE ~z
    <3>1. x.pc = "moveout"
      BY <1>2, <2>2
    <3>2. LineOf(x, order', cache') = Cons(n, w)
      BY <1>2, <3>1, MoveLine DEF Moving
    <3> HIDE DEF w, new
    <3>3. Entries' = Cons(node'[n], View(new, node', w))
      BY <1>4, <1>9, <1>10, <3>2, ViewOld
    <3>4. QED
      BY <1>3, <1>4, <1>6, <2>2, <3>3
  <2>3. QED
    BY <2>1, <2>2
<1>12. PICK e \in Node : /\ e.key = k /\ e.expires # "passed"
                         /\ Entries' = Cons(e, View(new, node', w))
  BY <1>11
<1>13. Entries' = Cons(e, RemoveAt(Entries, i))
  BY <1>7, <1>8, <1>12, Zenon
<1>14. Acting'.op = "set" /\ Acting'.key = e.key
  BY <1>2, <1>12, SoloStep, ActingNext DEF Single
<1>15. Policy!Update(i, e)
  BY <1>7, <1>12, <1>13, <1>14 DEF Policy!Update, Policy!RemoveAt, RemoveAt, Cons
<1>16. e \in Policy!Entry
  BY <1>12 DEF Node, Expiries, Policy!Entry, Policy!Expiries
<1>17. QED
  BY <1>7, <1>12, <1>15, <1>16 DEF Policy!Next

\* An entry is stored, the last one dropped if there is no place.
LEMMA InsertStep ==
  ASSUME NEW t \in Threads, NEW k \in Keys, NEW v \in Values, NEW z \in BOOLEAN,
         Single(t), Shapes', Set(t, k, v, z), cache[k] = None
  PROVE  Policy!Next
<1> DEFINE x == req'[t]
           e == NewEntry(x)
           old == NewEntry(req[t])
<1>1. Shapes /\ IsList(order)
  BY SingleFacts
<1>2. /\ Moves(t) /\ req[t] = Idle /\ UNCHANGED <<cache, order, node>>
      /\ x.op = "set" /\ x.key = k /\ x.value = v /\ x.ttl = z
      /\ x.pc = IF Full THEN "pick" ELSE "create"
  BY <1>1, SetMoves
<1>3. ReqOK(x) /\ req[t].pc = "idle"
  BY <1>2, IdleOK DEF Moves
<1>4. /\ Entries = View(old, node, order)
      /\ Len(Entries) = Len(order) /\ DOMAIN Entries = 1 .. Len(order)
      /\ \A i \in 1 .. Len(order) : Entries[i] = node[order[i]]
  BY <1>3, RestEntries
<1>5. e \in Policy!Entry /\ e.key = k /\ e.expires # "passed"
  BY <1>2 DEF NewEntry, Policy!Entry, Policy!Expiries
<1>6. \A i \in DOMAIN Entries : Entries[i].key # e.key
  <2> SUFFICES ASSUME NEW i \in 1 .. Len(order) PROVE node[order[i]].key # k
    BY <1>4, <1>5
  <2>1. order[i] \in Range(order) /\ order[i] # None
    BY <1>1, ListFacts
  <2>2. cache[node[order[i]].key] = order[i]
    BY <1>3, <2>1, SingleFacts
  <2>3. QED
    BY <2>1, <2>2
<1>7. Full <=> ~ (Len(Entries) < Capacity)
  <2>1. Cardinality(Cached) = Len(order) /\ Len(order) \in Nat
    BY <1>1, <1>3, CachedCount, ListFacts
  <2>2. QED
    BY <1>4, <2>1, LruAssumption DEF Full
<1>8. Entries' = View(e, node, LineOf(x, order', cache'))
  BY <1>2, SoloStep, EntriesBecome DEF Single, EntriesOf
<1>9. Acting'.op = "set" /\ Acting'.key = e.key
  BY <1>2, <1>5, SoloStep, ActingNext DEF Single
<1>10. CASE Full
  <2> DEFINE last == IF order = <<>> THEN None ELSE Last(order)
             n == order[Len(order)]
             w == Cut(order, n)
  <2>1. Len(order) \in 1 .. Len(order) /\ order # <<>>
    BY <1>1, <1>4, <1>7, <1>10, LruAssumption, ListFacts
  <2>2. last = n
    BY <2>1 DEF Last
  <2>3. x.pc = "pick" /\ LeavingOf(x, order', cache') = n
    BY <1>2, <1>10, <2>2 DEF LeavingOf
  <2>4. LineOf(x, order', cache') = Cons(None, w)
    BY <1>1, <1>2, <2>3, RestLine DEF Moving, Put
  <2>5. Lined(w)
    BY <1>1, CutRange, ListLined
  <2>6. Place(order, Len(order), n) /\ Alike(order, n, node, node)
    BY <1>1, <2>1 DEF Place, Alike
  <2>7. View(e, node, w) = Front(View(old, node, order))
    <3>1. PICK at \in 1 .. Len(order) : at = Len(order)
      BY <2>1
    <3>2. Place(order, at, n)
      BY <2>6, <3>1
    <3> HIDE DEF w, e, n, old
    <3>3. View(e, node, Cut(order, n)) = RemoveAt(View(old, node, order), at)
      BY <2>6, <3>2, ViewLess
    <3>4. RemoveAt(View(old, node, order), at) = Front(View(old, node, order))
      BY <3>1, <3>2, ViewLast
    <3>5. QED
      BY <3>3, <3>4 DEF w
  <2> HIDE DEF w, e
  <2>8. View(e, node, Cons(None, w)) = Cons(e, View(e, node, w))
    BY <2>5, ViewNew
  <2>9. Entries' = Cons(e, Front(Entries))
    BY <1>4, <1>8, <2>4, <2>7, <2>8, Zenon
  <2>10. Policy!Insert(e)
    BY <1>6, <1>7, <1>10, <1>9, <2>9 DEF Policy!Insert, Policy!Front, Front, Cons
  <2>11. QED
    BY <1>5, <2>10 DEF Policy!Next
<1>11. CASE ~Full
  <2>1. x.pc = "create"
    BY <1>2, <1>11
  <2>2. LineOf(x, order', cache') = Cons(None, order)
    BY <1>1, <1>2, <1>3, <2>1, PlainLine
  <2>3. Lined(order) /\ None \notin Range(order)
    BY <1>1, ListFacts, ListLined
  <2> HIDE DEF e
  <2>4. View(e, node, Cons(None, order)) = Cons(e, View(e, node, order))
    BY <2>3, ViewNew
  <2>5. View(e, node, order) = View(old, node, order)
    BY <2>3, ViewSame
  <2>6. Entries' = Cons(e, Entries)
    BY <1>4, <1>8, <2>2, <2>4, <2>5, Zenon
  <2>7. Policy!Insert(e)
    BY <1>6, <1>7, <1>11, <1>9, <2>6 DEF Policy!Insert, Cons
  <2>8. QED
    BY <1>5, <2>7 DEF Policy!Next
<1>12. QED
  BY <1>10, <1>11

\* An entry's time runs out, or that of a node that is no longer an entry.
LEMMA LapseStep ==
  ASSUME Shapes, NEW n \in DOMAIN node, Lapse(n)
  PROVE  Policy!Next \/ Entries' = Entries
<1>1. ReqOK(Acting) /\ Acting.node \in Live \cup {None}
  <2>1. CASE Active = {}
    BY <2>1, IdleOK DEF Acting
  <2>2. CASE Active # {}
    BY <2>2 DEF Acting, Active, Shapes, Live
  <2>3. QED
    BY <2>1, <2>2
<1>2. Line = LineOf(Acting, order, cache) /\ Entries = View(NewEntry(Acting), node, Line)
  <2>1. Leaving(Acting) = LeavingOf(Acting, order, cache)
    BY Zenon DEF Leaving, LeavingOf, Held, Cached
  <2>2. Without(Leaving(Acting)) = Cut(order, Leaving(Acting))
    BY Zenon DEF Without, Cut
  <2>3. QED
    BY <2>1, <2>2, Zenon DEF Line, LineOf, Entries, View
<1>3. IsList(order)
  BY DEF Shapes, TypeOK, IsList
<1> DEFINE l == Line
           e == NewEntry(Acting)
           v == View(e, node, l)
           u == View(e, node', l)
<1>4. Lined(l) /\ OnceEach(l) /\ Range(l) \ {None} \subseteq Live
  <2>1. Lined(l) /\ OnceEach(l) /\ Range(l) \subseteq Range(order) \cup {Acting.node, None}
    BY <1>1, <1>2, <1>3, LineShape
  <2>2. QED
    BY <1>1, <2>1, LiveNodes
<1>5. Entries' = u
  <2>1. UNCHANGED <<cache, order, req>>
    BY DEF Lapse
  <2>2. Acting' = Acting
    BY <2>1 DEF Acting, Active
  <2>3. Line' = Line
    BY <2>1, <2>2, Zenon DEF Line, Leaving, Without, Cached
  <2>4. QED
    BY <2>2, <2>3, Zenon DEF Entries, View
<1>6. /\ node[n].expires = "later" /\ node' = [node EXCEPT ![n].expires = "passed"]
      /\ DOMAIN node = Live /\ None \notin Live
  BY DEF Lapse, Shapes, TypeOK, Live
<1> HIDE DEF l, e
<1>7. /\ Len(l) \in Nat
      /\ DOMAIN v = 1 .. Len(l) /\ Len(v) = Len(l) /\ v \in Seq(Sight(e, node))
      /\ \A i \in 1 .. Len(l) : v[i] = IF l[i] = None THEN e ELSE node[l[i]]
  BY <1>4, ViewShape
<1>8. /\ DOMAIN u = 1 .. Len(l) /\ Len(u) = Len(l) /\ u \in Seq(Sight(e, node'))
      /\ \A i \in 1 .. Len(l) : u[i] = IF l[i] = None THEN e ELSE node'[l[i]]
  BY <1>4, ViewShape
<1>9. CASE n \notin Range(l)
  <2>1. \A m \in Range(l) \ {None} : node'[m] = node[m]
    BY <1>4, <1>6, <1>9
  <2>2. u = v
    BY <2>1, ViewSame
  <2>3. QED
    BY <1>2, <1>5, <2>2 DEF l, e
<1>10. CASE n \in Range(l)
  <2>1. PICK i \in 1 .. Len(l) : l[i] = n
    BY <1>4, <1>10, LenProperties DEF Lined, Range
  <2>2. n # None
    BY <1>6
  <2>3. \A j \in 1 .. Len(l) : l[j] = n => j = i
    BY <1>4, <2>1, <2>2 DEF OnceEach
  <2>4. v[i] = node[n] /\ u[i] = [v[i] EXCEPT !.expires = "passed"]
    BY <1>6, <1>7, <1>8, <2>1, <2>2
  <2>5. \A j \in 1 .. Len(l) : j # i => u[j] = v[j]
    <3>1. \A j \in 1 .. Len(l) : j # i => l[j] # n /\ (l[j] = None \/ l[j] \in Live)
      BY <1>4, <2>3, LenProperties DEF Lined, Range
    <3>2. \A m \in Live : m # n => node'[m] = node[m]
      BY <1>6
    <3>3. QED
      BY <1>7, <1>8, <3>1, <3>2
  <2>6. u = [v EXCEPT ![i].expires = "passed"]
    <3> DEFINE b == [v EXCEPT ![i].expires = "passed"]
    <3>1. u = [j \in 1 .. Len(l) |-> u[j]]
      BY <1>7, <1>8
    <3>2. b = [j \in 1 .. Len(l) |-> b[j]]
      BY <1>7
    <3>3. \A j \in 1 .. Len(l) : b[j] = u[j]
      BY <1>7, <2>1, <2>4, <2>5
    <3> HIDE DEF b, u
    <3>4. u = b
      BY <3>1, <3>2, <3>3
    <3>5. QED
      BY <3>4 DEF b
  <2>7. i \in DOMAIN Entries /\ Entries = v
    BY <1>2, <1>7, <2>1 DEF l, e
  <2>8. Policy!Lapse(i)
    BY <1>5, <1>6, <2>4, <2>6, <2>7 DEF Policy!Lapse
  <2>9. QED
    BY <2>7, <2>8 DEF Policy!Next
<1>11. QED
  BY <1>9, <1>10

-----------------------------------------------------------------------------
(* While no requests have overlapped, at most one is under way.            *)

LEMMA ApartBegins == Init => ApartInv
BY IdleOK DEF Init, ApartInv, Alone, Solo, Matching

\* The thread of a step that leaves the requests apart has the only request.
LEMMA StepSingle ==
  ASSUME LruInv, ApartInv, met' = "apart", NEW t \in Threads, Shapes,
         \/ \E k \in Keys : Starts(t, k) /\ ~UNCHANGED vars
         \/ Steps(t) \/ Create(t)
  PROVE  Single(t) /\ Moves(t)
<1>1. ASSUME met = "apart", req[t] # Idle
      PROVE  Single(t)
  BY <1>1 DEF ApartInv, Alone, Single
<1>2. ASSUME NEW k \in Keys, Starts(t, k), ~UNCHANGED vars
      PROVE  Single(t) /\ Moves(t)
  <2>1. Moves(t) /\ Meet(t, k)
    BY <1>2, StartMoves
  <2>2. met = "apart" /\ Solo(t)
    BY <2>1, MeetAlone
  <2>3. QED
    BY <2>1, <2>2 DEF ApartInv, Single
<1>3. ASSUME Pick(t)
      PROVE  Single(t) /\ Moves(t)
  <2>1. Moves(t) /\ Meet(t, Victim)
    BY <1>3, PickMoves
  <2>2. met = "apart" /\ Solo(t)
    BY <2>1, MeetAlone
  <2>3. QED
    BY <2>1, <2>2 DEF ApartInv, Single
<1>4. ASSUME Steps(t) \/ Create(t), ~Pick(t)
      PROVE  Single(t) /\ Moves(t)
  <2>1. Moves(t) /\ req[t].pc # "idle" /\ met = "apart"
    BY <1>4, CheckMoves, ExpiryMoves, PopMoves, UnlinkMoves, MoveOutMoves, MoveInMoves,
       ValueMoves, CreateMoves DEF Steps
  <2>2. req[t] # Idle
    BY <2>1, IdleOK
  <2>3. QED
    BY <1>1, <2>1, <2>2
<1>5. QED
  BY <1>2, <1>3, <1>4

LEMMA MatchingStep ==
  ASSUME NEW t \in Threads, Single(t), Moves(t), Shapes',
         \/ \E k \in Keys : Starts(t, k) /\ ~UNCHANGED vars
         \/ Steps(t) \/ Create(t)
  PROVE  Matching(t)'
<1> DEFINE x == req'[t]
<1>1. Shapes /\ IsList(order)
  BY SingleFacts
<1>2. ASSUME x.pc \notin {"expiry", "value"}
      PROVE  Matching(t)'
  BY <1>2 DEF Matching
<1>3. ASSUME NEW k \in Keys, Get(t, k), ~UNCHANGED vars
      PROVE  Matching(t)'
  <2>1. x.pc \in {"check", "moveout"}
    BY <1>1, <1>3, GetMoves DEF Get, vars
  <2>2. QED
    BY <1>2, <2>1
<1>4. ASSUME NEW k \in Keys, Delete(t, k)
      PROVE  Matching(t)'
  <2>1. x.pc = "pop"
    BY <1>1, <1>4, DeleteMoves
  <2>2. QED
    BY <1>2, <2>1
<1>5. ASSUME NEW k \in Keys, NEW v \in Values, NEW z \in BOOLEAN, Set(t, k, v, z)
      PROVE  Matching(t)'
  <2>1. /\ x.op = "set" /\ x.value = v /\ x.ttl = z /\ x.node = cache[k]
        /\ \/ x.pc = IF Full THEN "pick" ELSE "create"
           \/ /\ cache[k] # None /\ x.pc = IF z THEN "expiry" ELSE "moveout"
              /\ \E e \in Node : e.value = v /\ node' = [node EXCEPT ![cache[k]] = e]
    BY <1>1, <1>5, SetMoves
  <2>2. CASE x.pc = "expiry"
    <3>1. PICK e \in Node : e.value = v /\ node' = [node EXCEPT ![cache[k]] = e]
      BY <2>1, <2>2
    <3>2. z /\ cache[k] # None
      BY <2>1, <2>2
    <3>3. cache[k] \in DOMAIN node
      BY <1>1, <3>2, LiveNodes DEF Shapes, TypeOK, Cached
    <3>4. QED
      BY <2>1, <2>2, <3>1, <3>2, <3>3 DEF Matching
  <2>3. CASE x.pc # "expiry"
    BY <1>2, <2>1, <2>3
  <2>4. QED
    BY <2>2, <2>3
<1>6. ASSUME MoveIn(t)
      PROVE  Matching(t)'
  <2>1. /\ req[t].node \in Nodes /\ order' = Cons(req[t].node, order)
        /\ Ends(t) \/ Becomes(t, "value", req[t].node, None)
    BY <1>1, <1>6, MoveInMoves DEF Cons
  <2>2. IsList(order') /\ Lined(order)
    BY <1>1, ListLined DEF Shapes, TypeOK, IsList
  <2>3. /\ Len(order') = 1 + Len(order) /\ Len(order) \in Nat
        /\ \A i \in 1 .. 1 + Len(order) : order'[i] = IF i <= 1 THEN req[t].node ELSE order[i - 1]
    BY <1>1, <2>1, <2>2, ConsLined, ListFacts
  <2>4. order' # <<>> /\ order'[1] = req[t].node
    BY <2>2, <2>3, EmptySeq DEF IsList
  <2>5. CASE Ends(t)
    BY <1>2, <2>5, IdleOK DEF Ends
  <2>6. CASE Becomes(t, "value", req[t].node, None)
    BY <2>4, <2>6 DEF Becomes, Matching
  <2>7. QED
    BY <2>1, <2>5, <2>6
<1>7. ASSUME Steps(t) \/ Create(t), ~MoveIn(t)
      PROVE  Matching(t)'
  <2>1. Check(t) => x.pc \notin {"expiry", "value"}
    BY <1>1, IdleOK, CheckMoves DEF Becomes, Proceeds, Ends
  <2>2. Expiry(t) => x.pc \notin {"expiry", "value"}
    BY <1>1, IdleOK, ExpiryMoves DEF Becomes, Proceeds, Ends
  <2>3. Pick(t) => x.pc \notin {"expiry", "value"}
    BY <1>1, IdleOK, PickMoves DEF Becomes, Proceeds, Ends
  <2>4. Pop(t) => x.pc \notin {"expiry", "value"}
    BY <1>1, IdleOK, PopMoves DEF Becomes, Proceeds, Ends
  <2>5. Unlink(t) => x.pc \notin {"expiry", "value"}
    BY <1>1, IdleOK, UnlinkMoves DEF Becomes, Proceeds, Ends
  <2>6. MoveOut(t) => x.pc \notin {"expiry", "value"}
    BY <1>1, IdleOK, MoveOutMoves DEF Becomes, Proceeds, Ends
  <2>7. Value(t) => x.pc \notin {"expiry", "value"}
    BY <1>1, IdleOK, ValueMoves DEF Becomes, Proceeds, Ends
  <2>8. Create(t) => x.pc \notin {"expiry", "value"}
    BY <1>1, IdleOK, CreateMoves DEF Becomes, Proceeds, Ends
  <2>9. x.pc \notin {"expiry", "value"}
    BY <1>7, <2>1, <2>2, <2>3, <2>4, <2>5, <2>6, <2>7, <2>8 DEF Steps
  <2>10. QED
    BY <1>2, <2>9
<1>8. \A w \in Writes : w[2] \in Values /\ w[3] \in BOOLEAN
  BY LruAssumption
<1>9. QED
  BY <1>3, <1>4, <1>5, <1>6, <1>7, <1>8 DEF Starts

LEMMA AloneKept ==
  ASSUME LruInv, LruInv', ApartInv, [Next]_vars
  PROVE  ApartInv'
<1>1. Shapes /\ Shapes'
  BY DEF LruInv
<1>2. SUFFICES ASSUME met' = "apart"
               PROVE  Alone' /\ \A t \in Threads : Matching(t)'
  BY DEF ApartInv
<1>3. CASE UNCHANGED vars
  BY <1>2, <1>3 DEF vars, ApartInv, Alone, Solo, Matching
<1>4. ASSUME NEW t \in Threads,
             \/ \E k \in Keys : Starts(t, k) /\ ~UNCHANGED vars
             \/ Steps(t) \/ Create(t)
      PROVE  Alone' /\ \A u \in Threads : Matching(u)'
  <2>1. Single(t) /\ Moves(t)
    BY <1>1, <1>2, <1>4, StepSingle
  <2>2. Matching(t)' /\ Solo(t)'
    BY <1>1, <1>4, <2>1, MatchingStep, SoloStep DEF Single
  <2>3. Alone'
    BY <2>2 DEF Alone, Solo
  <2>4. \A u \in Threads \ {t} : Matching(u)'
    BY <2>2, IdleOK DEF Solo, Matching
  <2>5. QED
    BY <2>2, <2>3, <2>4
<1>5. ASSUME NEW n \in DOMAIN node, Lapse(n)
      PROVE  Alone' /\ \A u \in Threads : Matching(u)'
  <2>1. UNCHANGED <<cache, order, req, met>> /\ \A m \in Live : node'[m].value = node[m].value
    BY <1>1, <1>5, LapseShape DEF Lapse
  <2>2. Alone /\ \A u \in Threads : Matching(u)
    BY <1>2, <2>1 DEF ApartInv
  <2>3. Alone'
    BY <2>1, <2>2 DEF Alone, Solo
  <2>4. \A u \in Threads : req[u].pc = "expiry" => req[u].node \in Live
    BY <1>1, LiveNodes DEF Holds
  <2>5. QED
    BY <2>1, <2>2, <2>3, <2>4 DEF Matching
<1>6. QED
  BY <1>3, <1>4, <1>5, NextCases

LEMMA NextImplements ==
  ASSUME LruInv, LruInv', ApartInv, [Next]_vars, met' = "apart"
  PROVE  Policy!Next \/ Entries' = Entries
<1>1. Shapes /\ Shapes'
  BY DEF LruInv
<1>2. CASE UNCHANGED vars
  <2>1. UNCHANGED <<cache, order, node, req>>
    BY <1>2 DEF vars
  <2>2. Acting' = Acting
    BY <2>1 DEF Acting, Active
  <2>3. Line' = Line
    BY <2>1, <2>2, Zenon DEF Line, Leaving, Without, Cached
  <2>4. Entries' = Entries
    BY <2>1, <2>2, <2>3, Zenon DEF Entries
  <2>5. QED
    BY <2>4
<1>3. ASSUME NEW t \in Threads, NEW k \in Keys, Starts(t, k), ~UNCHANGED vars
      PROVE  Policy!Next \/ Entries' = Entries
  <2>1. Single(t)
    BY <1>1, <1>3, StepSingle
  <2>2. \A w \in Writes : w[2] \in Values /\ w[3] \in BOOLEAN
    BY LruAssumption
  <2>3. CASE Get(t, k) \/ Delete(t, k)
    BY <1>1, <1>3, <2>1, <2>3, GetStep, DeleteStep
  <2>4. ASSUME NEW v \in Values, NEW z \in BOOLEAN, Set(t, k, v, z)
        PROVE  Policy!Next
    BY <1>1, <2>1, <2>4, UpdateStep, InsertStep
  <2>5. QED
    BY <1>3, <2>2, <2>3, <2>4 DEF Starts
<1>4. ASSUME NEW t \in Threads, Steps(t) \/ Create(t)
      PROVE  Policy!Next \/ Entries' = Entries
  <2>1. Single(t)
    BY <1>1, <1>4, StepSingle
  <2>2. QED
    BY <1>1, <1>4, <2>1, CheckStep, ExpiryQuiet, PickQuiet, PopQuiet, UnlinkQuiet, MoveOutQuiet,
       CreateQuiet, MoveInQuiet, ValueQuiet DEF Steps
<1>5. ASSUME NEW n \in DOMAIN node, Lapse(n)
      PROVE  Policy!Next \/ Entries' = Entries
  BY <1>1, <1>5, LapseStep
<1>6. QED
  BY <1>2, <1>3, <1>4, <1>5, NextCases

LEMMA EmptyAtFirst == Init => Policy!Init
<1> SUFFICES ASSUME Init PROVE Entries = <<>>
  BY DEF Policy!Init
<1>1. Acting = Idle
  BY DEF Init, Active, Acting
<1>2. Arriving(Idle) = <<>>
  BY IdleOK DEF Arriving
<1>3. order = <<>> /\ Range(order) = {}
  BY DEF Init, Range
<1>4. Without(Leaving(Acting)) = <<>>
  BY <1>3 DEF Without
<1>5. Line = <<>>
  BY <1>1, <1>2, <1>4 DEF Line
<1>6. QED
  BY <1>5 DEF Entries

\* Whatever delete, get and set (lru_cache.py:53-58, 93-137) do in their steps: as long as
\* requests have not overlapped, the node is the cache that LruPolicy describes, with
\* its order of use, its capacity and its times to live.
THEOREM NodeImplementsPolicy == Spec => ImplementsPolicy
<1>1. Init => ApartInv
  BY ApartBegins
<1>2. LruInv /\ LruInv' /\ ApartInv /\ [Next]_vars => ApartInv'
  BY AloneKept
<1>3. Spec => []ApartInv
  BY <1>1, <1>2, LruInvariant, PTL DEF Spec
<1>4. LruInv /\ LruInv' /\ ApartInv /\ [Next]_vars => [met' = "apart" => Policy!Next]_Entries
  <2> SUFFICES ASSUME LruInv, LruInv', ApartInv, [Next]_vars, met' = "apart"
               PROVE  Policy!Next \/ Entries' = Entries
    OBVIOUS
  <2>1. QED
    BY NextImplements
<1>5. Init => Policy!Init
  BY EmptyAtFirst
<1>6. QED
  BY <1>3, <1>4, <1>5, LruInvariant, PTL DEF Spec, ImplementsPolicy
=============================================================================
