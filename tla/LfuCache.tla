------------------------------ MODULE LfuCache ------------------------------
(***************************************************************************)
(* The "lfu" strategy of the router's local cache (go_router/              *)
(* local_cache.go): a key map, a map from each frequency to the list of    *)
(* keys with it, most recently hit first, and the smallest frequency.      *)
(* Handlers call Get, RecordHit and Invalidate concurrently.  Each of them *)
(* holds the write lock for its whole body, except Get: it looks the entry *)
(* up under the read lock, and takes the write lock later, when it saw an  *)
(* expired entry, to remove it.                                            *)
(***************************************************************************)
EXTENDS Integers, Sequences, FiniteSets

CONSTANTS
  Keys,      \* cache keys
  Capacity,  \* L1_CAPACITY; newLocalCache makes no lfuCache for 0
  Readers,   \* goroutines between the two halves of Get
  NoKey,     \* "none"
  MaxFreq    \* bound: the hits recorded for a key while it stays in the cache

ASSUME KeysAssumption ==
  /\ IsFiniteSet(Keys)
  /\ NoKey \notin Keys
  /\ Capacity \in Nat \ {0}
  /\ MaxFreq \in Nat \ {0}

VARIABLES
  lfu,     \* the lfuCache struct: freq (of keyMap's entries), freqMap, minFreq, size
  expiry,  \* expiresAt of each entry: zero, in the future, or passed
  seen,    \* the expired key each reader saw under the read lock
  touched  \* history: the cached keys, the one hit longest ago first

vars == <<lfu, expiry, seen, touched>>

Freqs == 0 .. MaxFreq
Expiries == {"never", "later", "passed"}

Init ==
  /\ lfu = [freq    |-> [k \in Keys |-> 0],
            freqMap |-> [f \in Freqs |-> <<>>],
            minFreq |-> 0,
            size    |-> 0]
  /\ expiry = [k \in Keys |-> "never"]
  /\ seen = [r \in Readers |-> NoKey]
  /\ touched = <<>>

\* list.Remove: the list without its element k, the others in their order.
Unlink(q, k) ==
  LET at == CHOOSE i \in DOMAIN q : q[i] = k
  IN  [i \in 1 .. Len(q) - 1 |-> IF i < at THEN q[i] ELSE q[i + 1]]

\* Mutant of RemoveEntry: the entry stays in its frequency's list.
RemoveFromMapOnly(c, k) ==
  [freq    |-> [c.freq EXCEPT ![k] = 0],
   freqMap |-> c.freqMap,
   minFreq |-> c.minFreq,
   size    |-> c.size - 1]

\* minFreq is left alone, and may name a list that no longer exists.
RemoveEntry(c, k) ==
  [freq    |-> [c.freq EXCEPT ![k] = 0],
   freqMap |-> [c.freqMap EXCEPT ![c.freq[k]] = Unlink(@, k)],
   minFreq |-> c.minFreq,
   size    |-> c.size - 1]

\* Mutant of PromoteEntry: minFreq stays behind when its list becomes empty.
PromoteKeepsMin(c, k) ==
  LET old == c.freq[k]
  IN  [freq    |-> [c.freq EXCEPT ![k] = old + 1],
       freqMap |-> [c.freqMap EXCEPT ![old] = Unlink(@, k), ![old + 1] = <<k>> \o @],
       minFreq |-> c.minFreq,
       size    |-> c.size]

PromoteEntry(c, k) ==
  LET old  == c.freq[k]
      rest == Unlink(c.freqMap[old], k)
  IN  [freq    |-> [c.freq EXCEPT ![k] = old + 1],
       freqMap |-> [c.freqMap EXCEPT ![old] = rest, ![old + 1] = <<k>> \o @],
       minFreq |-> IF rest = <<>> /\ c.minFreq = old THEN old + 1 ELSE c.minFreq,
       size    |-> c.size]

\* Mutant of Victim: the front of the list, its most recently hit key.
VictimInFront(c) == c.freqMap[c.minFreq][1]

Victim(c) == c.freqMap[c.minFreq][Len(c.freqMap[c.minFreq])]

\* A full cache without an entry at minFreq evicts nothing.
Evicts(c) == c.size = Capacity /\ c.freqMap[c.minFreq] # <<>>
Evict(c) == IF Evicts(c) THEN RemoveEntry(c, Victim(c)) ELSE c

\* Mutant of InsertEntry: minFreq is not reset to 1.
InsertKeepsMin(c, k) ==
  [freq    |-> [c.freq EXCEPT ![k] = 1],
   freqMap |-> [c.freqMap EXCEPT ![1] = <<k>> \o @],
   minFreq |-> c.minFreq,
   size    |-> c.size + 1]

InsertEntry(c, k) ==
  [freq    |-> [c.freq EXCEPT ![k] = 1],
   freqMap |-> [c.freqMap EXCEPT ![1] = <<k>> \o @],
   minFreq |-> 1,
   size    |-> c.size + 1]

Cached(c) == {k \in Keys : c.freq[k] > 0}

-----------------------------------------------------------------------------
(* Called on every 200 of a node, with the ttl_remaining of its answer.    *)
RecordHit(k, due) ==
  /\ \/ /\ k \in Cached(lfu)
        /\ lfu.freq[k] < MaxFreq
        /\ lfu' = PromoteEntry(lfu, k)
        /\ touched' = Append(Unlink(touched, k), k)
     \/ /\ k \notin Cached(lfu)
        /\ lfu' = InsertEntry(Evict(lfu), k)
        /\ touched' = Append(IF Evicts(lfu) THEN Unlink(touched, Victim(lfu)) ELSE touched, k)
  /\ expiry' = [expiry EXCEPT ![k] = due]
  /\ UNCHANGED seen

\* Called at the end of every SET and DELETE.
Invalidate(k) ==
  /\ k \in Cached(lfu)
  /\ lfu' = RemoveEntry(lfu, k)
  /\ touched' = Unlink(touched, k)
  /\ UNCHANGED <<expiry, seen>>

\* Get under the read lock: only a look at an expired entry has an effect.
GetExpired(r, k) ==
  /\ seen[r] = NoKey
  /\ k \in Cached(lfu)
  /\ expiry[k] = "passed"
  /\ seen' = [seen EXCEPT ![r] = k]
  /\ UNCHANGED <<lfu, expiry, touched>>

\* Get under the write lock: it looks the key up again before removing it.
GetRemoves(r) ==
  /\ seen[r] # NoKey
  /\ IF seen[r] \in Cached(lfu) /\ expiry[seen[r]] = "passed"
     THEN /\ lfu' = RemoveEntry(lfu, seen[r])
          /\ touched' = Unlink(touched, seen[r])
     ELSE UNCHANGED <<lfu, touched>>
  /\ seen' = [seen EXCEPT ![r] = NoKey]
  /\ UNCHANGED expiry

Expire(k) ==
  /\ expiry[k] = "later"
  /\ expiry' = [expiry EXCEPT ![k] = "passed"]
  /\ UNCHANGED <<lfu, seen, touched>>

Next ==
  \/ \E k \in Keys : \E due \in {"never", "later"} : RecordHit(k, due)
  \/ \E k \in Keys : Invalidate(k) \/ Expire(k)
  \/ \E r \in Readers : \E k \in Keys : GetExpired(r, k)
  \/ \E r \in Readers : GetRemoves(r)

Spec == Init /\ [][Next]_vars
-----------------------------------------------------------------------------
(* Properties.                                                             *)

\* The types of the struct's fields.
StructOK(c) == c \in [freq    : [Keys -> Freqs],
                      freqMap : [Freqs -> Seq(Keys)],
                      minFreq : Freqs,
                      size    : Nat]

Elements(q) == {q[i] : i \in DOMAIN q}
Distinct(q) == \A i, j \in DOMAIN q : q[i] = q[j] => i = j

Agree(c) ==
  /\ \A f \in Freqs : Elements(c.freqMap[f]) = {k \in Cached(c) : c.freq[k] = f}
  /\ \A f \in Freqs : Distinct(c.freqMap[f])
  /\ c.size = Cardinality(Cached(c))

(* The two maps and the size agree: each cached key is in exactly one      *)
(* list, the one of its frequency, and there once.  An entry that is left  *)
(* in a list after it went (or is linked twice) would be evicted again.    *)
MapsAgree == StructOK(lfu) /\ Agree(lfu)

(* The cache never outgrows L1_CAPACITY.  RecordHit evicts only what it    *)
(* finds at minFreq, and nothing when that list is gone.                   *)
CapacityHeld == lfu.size <= Capacity

(* Removals leave minFreq behind; yet when the cache is full, and so when  *)
(* the next insertion relies on it, it names the least frequent keys.      *)
MinFreqWhenFull ==
  lfu.size = Capacity =>
    /\ lfu.freqMap[lfu.minFreq] # <<>>
    /\ \A f \in Freqs : lfu.freqMap[f] # <<>> => lfu.minFreq <= f

(* The cache implements exact LFU with the oldest hit breaking ties.       *)
Policy == INSTANCE LfuPolicy WITH count <- lfu.freq, order <- touched
ImplementsPolicy == Policy!Spec
=============================================================================
