----------------------------- MODULE LfuPolicy -----------------------------
(***************************************************************************)
(* What "exact LFU" means, without hash maps and frequency buckets: a      *)
(* cache of at most Capacity keys, each with the number of hits recorded   *)
(* since it came in.  A full cache makes room by dropping, among the keys  *)
(* with the fewest hits, the one whose last hit is oldest.  Keys may be    *)
(* dropped at any time: they are invalidated, and they expire.             *)
(***************************************************************************)
EXTENDS Integers, Sequences

CONSTANTS Keys, Capacity
VARIABLES
  count,  \* hits recorded for each key since it came in, 0 if not cached
  order   \* the cached keys, the one hit longest ago first

Init ==
  /\ count = [k \in Keys |-> 0]
  /\ order = <<>>

\* The key to drop: the first in order among those with the fewest hits.
Weakest ==
  order[CHOOSE i \in DOMAIN order :
          \A j \in DOMAIN order :
            \/ count[order[i]] < count[order[j]]
            \/ count[order[i]] = count[order[j]] /\ i <= j]

\* order without its element k.
Without(k) ==
  LET at == CHOOSE i \in DOMAIN order : order[i] = k
  IN  SubSeq(order, 1, at - 1) \o SubSeq(order, at + 1, Len(order))

Hit(k) ==
  /\ count[k] > 0
  /\ count' = [count EXCEPT ![k] = @ + 1]
  /\ order' = Append(Without(k), k)

Insert(k) ==
  /\ count[k] = 0
  /\ Len(order) < Capacity
  /\ count' = [count EXCEPT ![k] = 1]
  /\ order' = Append(order, k)

Replace(k) ==
  /\ count[k] = 0
  /\ Len(order) = Capacity
  /\ count' = [count EXCEPT ![Weakest] = 0, ![k] = 1]
  /\ order' = Append(Without(Weakest), k)

Drop(k) ==
  /\ count[k] > 0
  /\ count' = [count EXCEPT ![k] = 0]
  /\ order' = Without(k)

Next == \E k \in Keys : Hit(k) \/ Insert(k) \/ Replace(k) \/ Drop(k)

Spec == Init /\ [][Next]_<<count, order>>
=============================================================================
