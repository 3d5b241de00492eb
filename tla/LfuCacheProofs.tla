--------------------------- MODULE LfuCacheProofs ---------------------------
(***************************************************************************)
(* Proofs about LfuCache, for every set of keys and every capacity: the    *)
(* cache's two maps stay consistent, its size stays within the capacity,   *)
(* minFreq is exact whenever an insertion needs it, and the whole          *)
(* implements LfuPolicy.                                                   *)
(***************************************************************************)
EXTENDS LfuCache, TLAPS, FiniteSetTheorems, SequenceTheorems

-----------------------------------------------------------------------------
(* list.Remove and list.PushFront.                                         *)

LEMMA UnlinkProperties ==
  ASSUME NEW S, NEW q \in Seq(S), Distinct(q), NEW k \in Elements(q)
  PROVE  /\ Unlink(q, k) \in Seq(S)
         /\ Distinct(Unlink(q, k))
         /\ Elements(Unlink(q, k)) = Elements(q) \ {k}
<1> DEFINE at == CHOOSE i \in DOMAIN q : q[i] = k
           r  == Unlink(q, k)
<1>1. /\ Len(q) \in Nat /\ DOMAIN q = 1 .. Len(q)
      /\ \A i \in 1 .. Len(q) : q[i] \in S
  BY LenProperties, ElementOfSeq
<1>2. at \in 1 .. Len(q) /\ q[at] = k
  BY <1>1 DEF Elements
<1>3. r = [i \in 1 .. Len(q) - 1 |-> IF i < at THEN q[i] ELSE q[i + 1]]
  BY DEF Unlink
<1> HIDE DEF at, r
<1>4. r \in [1 .. Len(q) - 1 -> S] /\ Len(q) - 1 \in Nat
  BY <1>1, <1>2, <1>3
<1>5. r \in Seq(S) /\ DOMAIN r = 1 .. Len(q) - 1
  BY <1>4, SeqDef
<1>6. Distinct(r)
  <2>1. SUFFICES ASSUME NEW i \in DOMAIN r, NEW j \in DOMAIN r, r[i] = r[j]
                 PROVE  i = j
    BY DEF Distinct
  <2> DEFINE up(n) == IF n < at THEN n ELSE n + 1
  <2>2. /\ up(i) \in DOMAIN q /\ q[up(i)] = r[i]
        /\ up(j) \in DOMAIN q /\ q[up(j)] = r[j]
    BY <1>1, <1>2, <1>3, <1>5
  <2>3. up(i) = up(j)
    BY <2>1, <2>2 DEF Distinct
  <2>4. QED
    BY <1>2, <1>5, <2>3
<1>7. ASSUME NEW i \in DOMAIN r
      PROVE  r[i] \in Elements(q) /\ r[i] # k
  BY <1>1, <1>2, <1>3, <1>5 DEF Elements, Distinct
<1>8. ASSUME NEW j \in DOMAIN q, q[j] # k
      PROVE  q[j] \in Elements(r)
  <2>1. CASE j < at
    <3>1. j \in DOMAIN r /\ r[j] = q[j]
      BY <1>1, <1>2, <1>3, <1>5, <2>1
    <3>2. QED
      BY <3>1 DEF Elements
  <2>2. CASE j > at
    <3>1. j - 1 \in DOMAIN r /\ r[j - 1] = q[j]
      BY <1>1, <1>2, <1>3, <1>5, <2>2
    <3>2. QED
      BY <3>1 DEF Elements
  <2>3. QED
    BY <1>1, <1>2, <1>8, <2>1, <2>2
<1>9. Elements(r) = Elements(q) \ {k}
  BY <1>7, <1>8 DEF Elements
<1>10. QED
  BY <1>5, <1>6, <1>9 DEF r

LEMMA PushFrontProperties ==
  ASSUME NEW S, NEW q \in Seq(S), Distinct(q), NEW k \in S, k \notin Elements(q)
  PROVE  /\ <<k>> \o q \in Seq(S)
         /\ Distinct(<<k>> \o q)
         /\ Elements(<<k>> \o q) = Elements(q) \cup {k}
         /\ <<k>> \o q # <<>>
<1> DEFINE r == <<k>> \o q
<1>1. Len(q) \in Nat /\ DOMAIN q = 1 .. Len(q)
  BY LenProperties
<1>2. <<k>> \in Seq(S) /\ Len(<<k>>) = 1 /\ <<k>>[1] = k
  OBVIOUS
<1>3. /\ r \in Seq(S) /\ Len(r) = 1 + Len(q)
      /\ \A i \in 1 .. 1 + Len(q) : r[i] = IF i <= 1 THEN k ELSE q[i - 1]
  BY <1>1, <1>2, ConcatProperties
<1>4. DOMAIN r = 1 .. 1 + Len(q)
  BY <1>3, LenProperties
<1> HIDE DEF r
<1>5. Distinct(r)
  BY <1>1, <1>3, <1>4 DEF Distinct, Elements
<1>6. Elements(r) \subseteq Elements(q) \cup {k}
  BY <1>1, <1>3, <1>4 DEF Elements
<1>7. ASSUME NEW j \in DOMAIN q
      PROVE  q[j] \in Elements(r)
  <2>1. j + 1 \in DOMAIN r /\ r[j + 1] = q[j]
    BY <1>1, <1>3, <1>4
  <2>2. QED
    BY <2>1 DEF Elements
<1>8. k \in Elements(r)
  <2>1. 1 \in DOMAIN r /\ r[1] = k
    BY <1>1, <1>3, <1>4
  <2>2. QED
    BY <2>1 DEF Elements
<1>9. Elements(r) = Elements(q) \cup {k}
  BY <1>6, <1>7, <1>8 DEF Elements
<1>10. r # <<>>
  BY <1>1, <1>3, EmptySeq
<1>11. QED
  BY <1>3, <1>5, <1>9, <1>10 DEF r

LEMMA NonEmpty ==
  ASSUME NEW S, NEW q \in Seq(S)
  PROVE  /\ q # <<>> <=> Elements(q) # {}
         /\ q # <<>> => q[Len(q)] \in Elements(q)
<1>1. Len(q) \in Nat /\ DOMAIN q = 1 .. Len(q)
  BY LenProperties
<1>2. q # <<>> => Len(q) \in DOMAIN q
  BY <1>1, EmptySeq
<1>3. q = <<>> => Elements(q) = {}
  BY DEF Elements
<1>4. QED
  BY <1>2, <1>3 DEF Elements

-----------------------------------------------------------------------------
(* What removeEntry, promoteEntry and an insertion do to a consistent      *)
(* cache.                                                                  *)

LEMMA CachedFinite ==
  ASSUME NEW c
  PROVE  IsFiniteSet(Cached(c)) /\ Cardinality(Cached(c)) \in Nat
<1>1. IsFiniteSet(Cached(c))
  BY KeysAssumption, FS_Subset DEF Cached
<1>2. QED
  BY <1>1, FS_CardinalityType

LEMMA Fields ==
  ASSUME NEW c, StructOK(c)
  PROVE  /\ c.freq \in [Keys -> Freqs] /\ c.freqMap \in [Freqs -> Seq(Keys)]
         /\ c.minFreq \in Freqs /\ c.size \in Nat
BY DEF StructOK

LEMMA NoKeyAtZero ==
  ASSUME NEW c, StructOK(c), Agree(c)
  PROVE  c.freqMap[0] = <<>>
<1>1. 0 \in Freqs /\ c.freqMap[0] \in Seq(Keys)
  BY KeysAssumption, Fields DEF Freqs
<1>2. Elements(c.freqMap[0]) = {}
  BY <1>1 DEF Agree, Cached
<1>3. QED
  BY <1>1, <1>2, NonEmpty

LEMMA RemoveKeeps ==
  ASSUME NEW c, StructOK(c), Agree(c), NEW k \in Cached(c)
  PROVE  /\ StructOK(RemoveEntry(c, k)) /\ Agree(RemoveEntry(c, k))
         /\ RemoveEntry(c, k).size = c.size - 1
         /\ Cached(RemoveEntry(c, k)) = Cached(c) \ {k}
<1> DEFINE d == RemoveEntry(c, k)
           f == c.freq[k]
<1>0. /\ c.freq \in [Keys -> Freqs] /\ c.freqMap \in [Freqs -> Seq(Keys)]
      /\ c.minFreq \in Freqs /\ c.size \in Nat
  BY Fields
<1>1. f \in Freqs \ {0} /\ k \in Keys /\ k \in Elements(c.freqMap[f])
  BY DEF StructOK, Cached, Agree, Freqs
<1>2. /\ Unlink(c.freqMap[f], k) \in Seq(Keys)
      /\ Distinct(Unlink(c.freqMap[f], k))
      /\ Elements(Unlink(c.freqMap[f], k)) = Elements(c.freqMap[f]) \ {k}
  BY <1>1, UnlinkProperties DEF StructOK, Agree
<1>3. /\ d.freq = [c.freq EXCEPT ![k] = 0]
      /\ d.freqMap = [c.freqMap EXCEPT ![f] = Unlink(c.freqMap[f], k)]
      /\ d.minFreq = c.minFreq /\ d.size = c.size - 1
  BY DEF RemoveEntry
<1>4. Cached(d) = Cached(c) \ {k}
  BY <1>1, <1>3 DEF Cached, StructOK
<1>5. Cardinality(Cached(d)) = Cardinality(Cached(c)) - 1 /\ Cardinality(Cached(c)) # 0
  BY <1>4, CachedFinite, FS_RemoveElement, FS_EmptySet
<1>6. c.size - 1 \in Nat
  BY <1>5, CachedFinite DEF Agree
<1>7. StructOK(d)
  <2>1. d = [freq |-> d.freq, freqMap |-> d.freqMap, minFreq |-> d.minFreq, size |-> d.size]
    BY DEF RemoveEntry
  <2>2. 0 \in Freqs
    BY KeysAssumption DEF Freqs
  <2> HIDE DEF d
  <2>3. d.freq \in [Keys -> Freqs] /\ d.freqMap \in [Freqs -> Seq(Keys)]
    BY <1>0, <1>1, <1>2, <1>3, <2>2
  <2>4. QED
    BY <1>0, <1>3, <1>6, <2>1, <2>3 DEF StructOK
<1>8. Agree(d)
  <2> HIDE DEF d
  <2>1. ASSUME NEW g \in Freqs
        PROVE  Elements(d.freqMap[g]) = {j \in Cached(d) : d.freq[j] = g} /\ Distinct(d.freqMap[g])
    <3>1. CASE g = f
      BY <1>0, <1>1, <1>2, <1>3, <1>4, <3>1 DEF Agree, Cached
    <3>2. CASE g # f
      BY <1>0, <1>1, <1>3, <1>4, <3>2 DEF Agree, Cached
    <3>3. QED
      BY <3>1, <3>2
  <2>2. QED
    BY <1>3, <1>5, <2>1 DEF Agree
<1>9. QED
  BY <1>3, <1>4, <1>7, <1>8

LEMMA PromoteKeeps ==
  ASSUME NEW c, StructOK(c), Agree(c), NEW k \in Cached(c), c.freq[k] < MaxFreq
  PROVE  /\ StructOK(PromoteEntry(c, k)) /\ Agree(PromoteEntry(c, k))
<1> DEFINE d == PromoteEntry(c, k)
           f == c.freq[k]
           rest == Unlink(c.freqMap[f], k)
           up == <<k>> \o c.freqMap[f + 1]
<1>1. /\ f \in Freqs \ {0} /\ f + 1 \in Freqs /\ f # f + 1
      /\ k \in Keys /\ k \in Elements(c.freqMap[f])
  BY KeysAssumption DEF StructOK, Cached, Agree, Freqs
<1>2. rest \in Seq(Keys) /\ Distinct(rest) /\ Elements(rest) = Elements(c.freqMap[f]) \ {k}
  BY <1>1, UnlinkProperties DEF StructOK, Agree
<1>3. up \in Seq(Keys) /\ Distinct(up) /\ Elements(up) = Elements(c.freqMap[f + 1]) \cup {k}
  BY <1>1, PushFrontProperties DEF StructOK, Agree
<1>4. /\ d.freq = [c.freq EXCEPT ![k] = f + 1]
      /\ d.freqMap = [c.freqMap EXCEPT ![f] = rest, ![f + 1] = up]
      /\ d.minFreq \in {c.minFreq, f + 1} /\ d.size = c.size
  <2>1. [c.freqMap EXCEPT ![f] = rest, ![f + 1] = <<k>> \o @]
          = [c.freqMap EXCEPT ![f] = rest, ![f + 1] = up]
    BY <1>1 DEF StructOK
  <2>2. QED
    BY <2>1 DEF PromoteEntry
<1> HIDE DEF rest, up
<1>5. Cached(d) = Cached(c)
  BY <1>1, <1>4 DEF Cached, StructOK, Freqs
<1>6. StructOK(d)
  <2>1. d = [freq |-> d.freq, freqMap |-> d.freqMap, minFreq |-> d.minFreq, size |-> d.size]
    BY DEF PromoteEntry
  <2>2. d.freq \in [Keys -> Freqs] /\ d.freqMap \in [Freqs -> Seq(Keys)]
    <3>1. c.freq \in [Keys -> Freqs] /\ c.freqMap \in [Freqs -> Seq(Keys)]
      BY Fields
    <3> HIDE DEF d, f
    <3>2. d.freq \in [Keys -> Freqs]
      BY <1>1, <1>4, <3>1
    <3>3. d.freqMap \in [Freqs -> Seq(Keys)]
      BY <1>1, <1>2, <1>3, <1>4, <3>1
    <3>4. QED
      BY <3>2, <3>3
  <2>3. d.minFreq \in Freqs /\ d.size \in Nat
    BY <1>1, <1>4 DEF StructOK
  <2> HIDE DEF d
  <2>4. QED
    BY <2>1, <2>2, <2>3 DEF StructOK
<1>7. Agree(d)
  <2> HIDE DEF d
  <2>1. ASSUME NEW g \in Freqs
        PROVE  Elements(d.freqMap[g]) = {j \in Cached(d) : d.freq[j] = g} /\ Distinct(d.freqMap[g])
    <3>1. CASE g = f
      BY <1>1, <1>2, <1>4, <1>5, <3>1 DEF Agree, StructOK, Cached
    <3>2. CASE g = f + 1
      BY <1>1, <1>3, <1>4, <1>5, <3>2 DEF Agree, StructOK, Cached
    <3>3. CASE g # f /\ g # f + 1
      BY <1>1, <1>4, <1>5, <3>3 DEF Agree, StructOK, Cached
    <3>4. QED
      BY <3>1, <3>2, <3>3
  <2>2. QED
    BY <1>4, <1>5, <2>1 DEF Agree
<1>8. QED
  BY <1>6, <1>7

LEMMA InsertKeeps ==
  ASSUME NEW c, StructOK(c), Agree(c), NEW k \in Keys \ Cached(c)
  PROVE  /\ StructOK(InsertEntry(c, k)) /\ Agree(InsertEntry(c, k))
         /\ InsertEntry(c, k).freqMap[1] # <<>>
<1> DEFINE d == InsertEntry(c, k)
           up == <<k>> \o c.freqMap[1]
<1>1. 1 \in Freqs /\ 0 \in Freqs /\ c.freq[k] = 0
  BY KeysAssumption DEF Freqs, Cached, StructOK
<1>2. k \notin Elements(c.freqMap[1])
  BY <1>1 DEF Agree
<1>3. up \in Seq(Keys) /\ Distinct(up) /\ Elements(up) = Elements(c.freqMap[1]) \cup {k} /\ up # <<>>
  BY <1>1, <1>2, PushFrontProperties DEF StructOK, Agree
<1>4. /\ d.freq = [c.freq EXCEPT ![k] = 1] /\ d.freqMap = [c.freqMap EXCEPT ![1] = up]
      /\ d.minFreq = 1 /\ d.size = c.size + 1
  BY DEF InsertEntry
<1> HIDE DEF up
<1>5. Cached(d) = Cached(c) \cup {k}
  BY <1>1, <1>4 DEF Cached, StructOK
<1>6. Cardinality(Cached(d)) = Cardinality(Cached(c)) + 1
  BY <1>5, CachedFinite, FS_AddElement
<1>7. StructOK(d)
  <2>1. d = [freq |-> d.freq, freqMap |-> d.freqMap, minFreq |-> d.minFreq, size |-> d.size]
    BY DEF InsertEntry
  <2>2. d.freq \in [Keys -> Freqs] /\ d.freqMap \in [Freqs -> Seq(Keys)]
    BY <1>1, <1>3, <1>4 DEF StructOK
  <2>3. d.minFreq \in Freqs /\ d.size \in Nat
    BY <1>1, <1>4 DEF StructOK
  <2> HIDE DEF d
  <2>4. QED
    BY <2>1, <2>2, <2>3 DEF StructOK
<1>8. Agree(d)
  <2> HIDE DEF d
  <2>1. ASSUME NEW g \in Freqs
        PROVE  Elements(d.freqMap[g]) = {j \in Cached(d) : d.freq[j] = g} /\ Distinct(d.freqMap[g])
    <3>1. CASE g = 1
      BY <1>1, <1>3, <1>4, <1>5, <3>1 DEF Agree, StructOK, Cached
    <3>2. CASE g # 1
      BY <1>1, <1>4, <1>5, <3>2 DEF Agree, StructOK, Cached
    <3>3. QED
      BY <3>1, <3>2
  <2>2. QED
    BY <1>4, <1>6, <2>1 DEF Agree
<1>9. QED
  BY <1>1, <1>3, <1>4, <1>7, <1>8 DEF StructOK

-----------------------------------------------------------------------------
(* The inductive invariant.  MinFreqWhenFull is not a by-product: an       *)
(* insertion into a full cache evicts only what is at minFreq, so the      *)
(* capacity holds because minFreq is exact then; and minFreq, which no     *)
(* removal maintains, is exact when the cache is full because a removal    *)
(* makes room and the insertion that fills the cache again resets it.      *)

Inv(c) ==
  /\ StructOK(c)
  /\ Agree(c)
  /\ c.size <= Capacity
  /\ c.size = Capacity =>
       /\ c.freqMap[c.minFreq] # <<>>
       /\ \A f \in Freqs : c.freqMap[f] # <<>> => c.minFreq <= f

LEMMA RemoveInv ==
  ASSUME NEW c, Inv(c), NEW k \in Cached(c)
  PROVE  Inv(RemoveEntry(c, k))
<1>1. c.size \in Nat /\ Capacity \in Nat
  BY KeysAssumption, Fields DEF Inv
<1>2. QED
  BY <1>1, RemoveKeeps DEF Inv

LEMMA PromoteInv ==
  ASSUME NEW c, Inv(c), NEW k \in Cached(c), c.freq[k] < MaxFreq
  PROVE  Inv(PromoteEntry(c, k))
<1> DEFINE d == PromoteEntry(c, k)
           f == c.freq[k]
           rest == Unlink(c.freqMap[f], k)
           up == <<k>> \o c.freqMap[f + 1]
<1>1. StructOK(d) /\ Agree(d)
  BY PromoteKeeps DEF Inv
<1>2. f \in Freqs /\ f + 1 \in Freqs /\ f # f + 1 /\ k \in Keys /\ c.minFreq \in Nat
      /\ c.freqMap \in [Freqs -> Seq(Keys)]
  <2>1. /\ c.freq \in [Keys -> Freqs] /\ c.freqMap \in [Freqs -> Seq(Keys)]
        /\ c.minFreq \in Freqs
    BY Fields DEF Inv
  <2>2. k \in Keys /\ f \in Freqs
    BY <2>1 DEF Cached
  <2>3. QED
    BY <2>1, <2>2, KeysAssumption DEF Freqs
<1>3. d.size = c.size
  BY DEF PromoteEntry
<1>4. d.freqMap = [c.freqMap EXCEPT ![f] = rest, ![f + 1] = <<k>> \o @]
  BY DEF PromoteEntry
<1>5. d.minFreq = IF rest = <<>> /\ c.minFreq = f THEN f + 1 ELSE c.minFreq
  BY DEF PromoteEntry
<1>6. up # <<>>
  <2>1. c.freqMap[f + 1] \in Seq(Keys) /\ k \notin Elements(c.freqMap[f + 1])
        /\ Distinct(c.freqMap[f + 1])
    BY <1>2 DEF Inv, Agree
  <2>2. QED
    BY <1>2, <2>1, PushFrontProperties
<1>7. /\ d.freqMap[f] = rest /\ d.freqMap[f + 1] = up
      /\ \A g \in Freqs : g # f /\ g # f + 1 => d.freqMap[g] = c.freqMap[g]
  <2> HIDE DEF d, f, rest
  <2>1. QED
    BY <1>2, <1>4
<1> HIDE DEF d, f, rest, up
<1>8. c.size = Capacity =>
        /\ d.freqMap[d.minFreq] # <<>>
        /\ \A g \in Freqs : d.freqMap[g] # <<>> => d.minFreq <= g
  <2>1. SUFFICES ASSUME c.size = Capacity
                 PROVE  /\ d.freqMap[d.minFreq] # <<>>
                        /\ \A g \in Freqs : d.freqMap[g] # <<>> => d.minFreq <= g
    OBVIOUS
  <2>2. c.minFreq <= f /\ c.minFreq \in Freqs
    <3>1. k \in Elements(c.freqMap[f])
      BY <1>2 DEF Inv, Agree, f
    <3>2. c.freqMap[f] # <<>>
      BY <1>2, <3>1, NonEmpty
    <3>3. QED
      BY <1>2, <2>1, <3>2, Fields DEF Inv
  <2>3. \A g \in Freqs : g # f /\ d.freqMap[g] # <<>> => c.minFreq <= g
    BY <1>2, <1>7, <2>1, <2>2 DEF Inv, Freqs
  <2>4. CASE c.minFreq = f /\ rest = <<>>
    <3>1. d.minFreq = f + 1
      BY <1>5, <2>4
    <3>2. \A g \in Freqs : d.freqMap[g] # <<>> => f + 1 <= g
      <4>1. \A g \in Freqs : d.freqMap[g] # <<>> => g # f /\ f <= g
        BY <1>7, <2>3, <2>4
      <4>2. QED
        BY <1>2, <4>1 DEF Freqs
    <3>3. QED
      BY <1>6, <1>7, <3>1, <3>2
  <2>5. CASE c.minFreq = f /\ rest # <<>>
    BY <1>2, <1>5, <1>7, <2>3, <2>5 DEF Freqs
  <2>6. CASE c.minFreq # f
    <3>1. d.minFreq = c.minFreq /\ c.minFreq # f + 1
      BY <1>2, <1>5, <2>2, <2>6 DEF Freqs
    <3>2. d.freqMap[d.minFreq] # <<>>
      BY <1>7, <2>1, <2>2, <2>6, <3>1 DEF Inv
    <3>3. QED
      BY <1>2, <2>2, <2>3, <3>1, <3>2
  <2>7. QED
    BY <2>4, <2>5, <2>6
<1>9. QED
  BY <1>1, <1>3, <1>8 DEF Inv, d

LEMMA VictimCached ==
  ASSUME NEW c, StructOK(c), Agree(c), c.freqMap[c.minFreq] # <<>>
  PROVE  Victim(c) \in Cached(c)
<1>1. c.minFreq \in Freqs /\ c.freqMap[c.minFreq] \in Seq(Keys)
  BY Fields
<1>2. Victim(c) \in Elements(c.freqMap[c.minFreq])
  BY <1>1, NonEmpty DEF Victim
<1>3. QED
  BY <1>1, <1>2 DEF Agree

LEMMA InsertInv ==
  ASSUME NEW c, Inv(c), NEW k \in Keys \ Cached(c)
  PROVE  Inv(InsertEntry(Evict(c), k))
<1> DEFINE e == Evict(c)
           d == InsertEntry(e, k)
<1>1. StructOK(e) /\ Agree(e) /\ e.size < Capacity /\ k \in Keys \ Cached(e)
  <2>1. c.size \in Nat /\ Capacity \in Nat /\ c.size <= Capacity /\ StructOK(c) /\ Agree(c)
    BY KeysAssumption, Fields DEF Inv
  <2>2. CASE c.size = Capacity
    <3>1. e = RemoveEntry(c, Victim(c)) /\ Victim(c) \in Cached(c)
      BY <2>1, <2>2, VictimCached DEF Inv, Evict, Evicts
    <3>2. QED
      BY <2>1, <2>2, <3>1, RemoveKeeps
  <2>3. CASE c.size # Capacity
    BY <2>1, <2>3 DEF Evict, Evicts
  <2>4. QED
    BY <2>2, <2>3
<1> HIDE DEF e
<1>2. StructOK(d) /\ Agree(d) /\ d.freqMap[1] # <<>>
  BY <1>1, InsertKeeps
<1>3. d.minFreq = 1 /\ d.size = e.size + 1
  BY DEF InsertEntry
<1>4. d.size <= Capacity
  BY <1>1, <1>3, KeysAssumption, Fields
<1>5. \A f \in Freqs : d.freqMap[f] # <<>> => 1 <= f
  BY <1>2, NoKeyAtZero DEF Freqs
<1> HIDE DEF d
<1>6. Inv(d)
  BY <1>2, <1>3, <1>4, <1>5 DEF Inv
<1>7. QED
  BY <1>6 DEF d, e

LEMMA InitInv == Init => Inv(lfu)
<1>1. SUFFICES ASSUME Init PROVE Inv(lfu)
  OBVIOUS
<1>2. <<>> \in Seq(Keys) /\ Elements(<<>>) = {} /\ Distinct(<<>>)
  BY DEF Elements, Distinct
<1>3. 0 \in Freqs
  BY KeysAssumption DEF Freqs
<1>4. StructOK(lfu)
  BY <1>1, <1>2, <1>3 DEF Init, StructOK
<1>5. Cached(lfu) = {}
  BY <1>1 DEF Init, Cached
<1>6. Agree(lfu)
  BY <1>1, <1>2, <1>5, FS_EmptySet DEF Init, Agree
<1>7. QED
  BY <1>1, <1>4, <1>6, KeysAssumption DEF Init, Inv

LEMMA NextInv == Inv(lfu) /\ [Next]_vars => Inv(lfu)'
<1>1. SUFFICES ASSUME Inv(lfu), [Next]_vars PROVE Inv(lfu)'
  OBVIOUS
<1>2. CASE UNCHANGED lfu
  BY <1>1, <1>2 DEF Inv, StructOK, Agree, Cached, Elements, Distinct
<1>3. ASSUME NEW k \in Keys, NEW due \in {"never", "later"}, RecordHit(k, due)
      PROVE  Inv(lfu')
  <2>1. CASE k \in Cached(lfu)
    BY <1>1, <1>3, <2>1, PromoteInv DEF RecordHit
  <2>2. CASE k \notin Cached(lfu)
    BY <1>1, <1>3, <2>2, InsertInv DEF RecordHit
  <2>3. QED
    BY <2>1, <2>2
<1>4. ASSUME NEW k \in Keys, Invalidate(k)
      PROVE  Inv(lfu')
  BY <1>1, <1>4, RemoveInv DEF Invalidate
<1>5. ASSUME NEW r \in Readers, GetRemoves(r), ~ UNCHANGED lfu
      PROVE  Inv(lfu')
  BY <1>1, <1>5, RemoveInv DEF GetRemoves
<1>6. Inv(lfu') => Inv(lfu)'
  BY DEF Inv, StructOK, Agree, Cached, Elements, Distinct
<1>7. QED
  BY <1>1, <1>2, <1>3, <1>4, <1>5, <1>6 DEF Next, Expire, GetExpired, vars

(* The cache never outgrows L1_CAPACITY, whatever hits, invalidations and  *)
(* expiries are interleaved (RecordHit in local_cache.go).                 *)
THEOREM WithinCapacity == Spec => []CapacityHeld
<1>1. Inv(lfu) => CapacityHeld
  BY DEF Inv, CapacityHeld
<1>2. QED
  BY <1>1, InitInv, NextInv, PTL DEF Spec

(* Whenever an insertion would evict, minFreq names the least frequent     *)
(* keys, although no removal maintains it.                                 *)
THEOREM MinFreqExact == Spec => []MinFreqWhenFull
<1>1. Inv(lfu) => MinFreqWhenFull
  BY DEF Inv, MinFreqWhenFull
<1>2. QED
  BY <1>1, InitInv, NextInv, PTL DEF Spec

(* keyMap, freqMap and size describe the same set of entries.              *)
THEOREM MapsStayConsistent == Spec => []MapsAgree
<1>1. Inv(lfu) => MapsAgree
  BY DEF Inv, MapsAgree
<1>2. QED
  BY <1>1, InitInv, NextInv, PTL DEF Spec

-----------------------------------------------------------------------------
(* The cache implements LfuPolicy.  The policy breaks ties by the last     *)
(* hit, which no field of the cache records: it is the order of each       *)
(* frequency's list.  Ranked ties the lists to the history touched, and    *)
(* with MinFreqWhenFull makes the back of minFreq's list the very key the  *)
(* policy drops.                                                           *)

\* k comes after l in the sequence q.
Later(q, k, l) == \E a, b \in DOMAIN q : a > b /\ q[a] = k /\ q[b] = l

Ranked(c, q) ==
  /\ q \in Seq(Keys) /\ Distinct(q) /\ Elements(q) = Cached(c) /\ Len(q) = c.size
  /\ \A f \in Freqs : \A k, l \in Keys : Later(c.freqMap[f], l, k) => Later(q, k, l)

LEMMA UnlinkShape ==
  ASSUME NEW S, NEW q \in Seq(S), NEW k \in Elements(q)
  PROVE  \E at \in 1 .. Len(q) :
           /\ at = CHOOSE i \in DOMAIN q : q[i] = k
           /\ q[at] = k
           /\ Unlink(q, k) \in Seq(S) /\ Len(Unlink(q, k)) = Len(q) - 1
           /\ \A i \in 1 .. Len(q) - 1 : Unlink(q, k)[i] = IF i < at THEN q[i] ELSE q[i + 1]
<1> DEFINE at == CHOOSE i \in DOMAIN q : q[i] = k
           r  == Unlink(q, k)
<1>1. /\ Len(q) \in Nat /\ DOMAIN q = 1 .. Len(q)
      /\ \A i \in 1 .. Len(q) : q[i] \in S
  BY LenProperties, ElementOfSeq
<1>2. at \in 1 .. Len(q) /\ q[at] = k
  BY <1>1 DEF Elements
<1>3. r = [i \in 1 .. Len(q) - 1 |-> IF i < at THEN q[i] ELSE q[i + 1]]
  BY DEF Unlink
<1> HIDE DEF at, r
<1>4. r \in [1 .. Len(q) - 1 -> S] /\ Len(q) - 1 \in Nat
  BY <1>1, <1>2, <1>3
<1>5. r \in Seq(S) /\ Len(r) = Len(q) - 1
  <2>1. r \in Seq(S) /\ DOMAIN r = 1 .. Len(q) - 1
    BY <1>4, SeqDef
  <2>2. QED
    BY <1>4, <2>1, LenProperties
<1>6. QED
  BY <1>2, <1>3, <1>5 DEF at, r

(* list.Remove takes one element out and keeps the order of the others.    *)
LEMMA UnlinkOrder ==
  ASSUME NEW S, NEW q \in Seq(S), Distinct(q), NEW k \in Elements(q), NEW x, NEW y
  PROVE  Later(Unlink(q, k), x, y) <=> Later(q, x, y) /\ x # k /\ y # k
<1> DEFINE r == Unlink(q, k)
<1>1. Len(q) \in Nat /\ DOMAIN q = 1 .. Len(q)
  BY LenProperties
<1>2. PICK at \in 1 .. Len(q) :
        /\ q[at] = k
        /\ r \in Seq(S) /\ Len(r) = Len(q) - 1
        /\ \A i \in 1 .. Len(q) - 1 : r[i] = IF i < at THEN q[i] ELSE q[i + 1]
  BY UnlinkShape
<1>3. DOMAIN r = 1 .. Len(q) - 1
  BY <1>2, LenProperties
<1> HIDE DEF r
<1>4. ASSUME Later(r, x, y)
      PROVE  Later(q, x, y) /\ x # k /\ y # k
  <2>1. PICK a \in DOMAIN r, b \in DOMAIN r : a > b /\ r[a] = x /\ r[b] = y
    BY <1>4 DEF Later
  <2> DEFINE up(n) == IF n < at THEN n ELSE n + 1
  <2>2. /\ up(a) \in DOMAIN q /\ up(b) \in DOMAIN q /\ up(a) > up(b)
        /\ up(a) # at /\ up(b) # at /\ q[up(a)] = x /\ q[up(b)] = y
    BY <1>1, <1>2, <1>3, <2>1
  <2>3. x # k /\ y # k
    BY <1>1, <1>2, <2>2 DEF Distinct
  <2>4. QED
    BY <2>2, <2>3 DEF Later
<1>5. ASSUME Later(q, x, y), x # k, y # k
      PROVE  Later(r, x, y)
  <2>1. PICK a \in DOMAIN q, b \in DOMAIN q : a > b /\ q[a] = x /\ q[b] = y
    BY <1>5 DEF Later
  <2> DEFINE down(n) == IF n < at THEN n ELSE n - 1
  <2>2. a # at /\ b # at
    BY <1>2, <1>5, <2>1
  <2>3. /\ down(a) \in DOMAIN r /\ down(b) \in DOMAIN r /\ down(a) > down(b)
        /\ r[down(a)] = x /\ r[down(b)] = y
    BY <1>1, <1>2, <1>3, <2>1, <2>2
  <2>4. QED
    BY <2>3 DEF Later
<1>6. QED
  BY <1>4, <1>5 DEF r

(* list.PushFront puts its element before all others.                      *)
LEMMA PushFrontOrder ==
  ASSUME NEW S, NEW q \in Seq(S), NEW k \in S, NEW x, NEW y, Later(<<k>> \o q, x, y)
  PROVE  Later(q, x, y) \/ (y = k /\ x \in Elements(q))
<1> DEFINE r == <<k>> \o q
<1>1. Len(q) \in Nat /\ DOMAIN q = 1 .. Len(q)
  BY LenProperties
<1>2. <<k>> \in Seq(S) /\ Len(<<k>>) = 1 /\ <<k>>[1] = k
  OBVIOUS
<1>3. /\ r \in Seq(S) /\ Len(r) = 1 + Len(q)
      /\ \A i \in 1 .. 1 + Len(q) : r[i] = IF i <= 1 THEN k ELSE q[i - 1]
  BY <1>1, <1>2, ConcatProperties
<1>4. DOMAIN r = 1 .. 1 + Len(q)
  BY <1>3, LenProperties
<1> HIDE DEF r
<1>5. PICK a \in DOMAIN r, b \in DOMAIN r : a > b /\ r[a] = x /\ r[b] = y
  BY DEF Later, r
<1>6. a - 1 \in DOMAIN q /\ q[a - 1] = x
  BY <1>1, <1>3, <1>4, <1>5
<1>7. CASE b = 1
  BY <1>3, <1>4, <1>5, <1>6, <1>7 DEF Elements
<1>8. CASE b # 1
  <2>1. b - 1 \in DOMAIN q /\ q[b - 1] = y /\ a - 1 > b - 1
    BY <1>1, <1>3, <1>4, <1>5, <1>8
  <2>2. QED
    BY <1>6, <2>1 DEF Later
<1>9. QED
  BY <1>7, <1>8

(* What is appended to the history comes after everything in it.           *)
LEMMA AppendOrder ==
  ASSUME NEW S, NEW q \in Seq(S), Distinct(q), NEW k \in S, k \notin Elements(q)
  PROVE  /\ Append(q, k) \in Seq(S) /\ Distinct(Append(q, k))
         /\ Elements(Append(q, k)) = Elements(q) \cup {k}
         /\ Len(Append(q, k)) = Len(q) + 1
         /\ \A x, y : Later(q, x, y) => Later(Append(q, k), x, y)
         /\ \A x \in Elements(q) : Later(Append(q, k), k, x)
<1> DEFINE r == Append(q, k)
<1>1. Len(q) \in Nat /\ DOMAIN q = 1 .. Len(q)
  BY LenProperties
<1>2. /\ r \in Seq(S) /\ Len(r) = Len(q) + 1
      /\ \A i \in 1 .. Len(q) : r[i] = q[i]
      /\ r[Len(q) + 1] = k
  BY <1>1, AppendProperties
<1>3. DOMAIN r = 1 .. Len(q) + 1
  BY <1>2, LenProperties
<1> HIDE DEF r
<1>4. Distinct(r)
  BY <1>1, <1>2, <1>3 DEF Distinct, Elements
<1>5. Elements(r) = Elements(q) \cup {k}
  <2>1. \A i \in DOMAIN r : r[i] \in Elements(q) \cup {k}
    BY <1>1, <1>2, <1>3 DEF Elements
  <2>2. \A i \in DOMAIN q : q[i] \in Elements(r)
    BY <1>1, <1>2, <1>3 DEF Elements
  <2>3. k \in Elements(r)
    BY <1>1, <1>2, <1>3 DEF Elements
  <2>4. QED
    BY <2>1, <2>2, <2>3 DEF Elements
<1>6. ASSUME NEW x, NEW y, Later(q, x, y)
      PROVE  Later(r, x, y)
  BY <1>1, <1>2, <1>3, <1>6 DEF Later
<1>7. ASSUME NEW x \in Elements(q)
      PROVE  Later(r, k, x)
  <2>1. PICK b \in DOMAIN q : q[b] = x
    BY DEF Elements
  <2>2. /\ Len(q) + 1 \in DOMAIN r /\ b \in DOMAIN r /\ Len(q) + 1 > b
        /\ r[Len(q) + 1] = k /\ r[b] = x
    BY <1>1, <1>2, <1>3, <2>1
  <2>3. QED
    BY <2>2 DEF Later
<1>8. QED
  BY <1>2, <1>4, <1>5, <1>6, <1>7 DEF r

LEMMA LaterElements ==
  ASSUME NEW q, NEW x, NEW y, Later(q, x, y)
  PROVE  x \in Elements(q) /\ y \in Elements(q)
BY DEF Later, Elements

LEMMA RemoveRanked ==
  ASSUME NEW c, StructOK(c), Agree(c), NEW q, Ranked(c, q), NEW k \in Cached(c)
  PROVE  Ranked(RemoveEntry(c, k), Unlink(q, k))
<1> DEFINE d == RemoveEntry(c, k)
           r == Unlink(q, k)
           f == c.freq[k]
<1>1. q \in Seq(Keys) /\ Distinct(q) /\ Elements(q) = Cached(c) /\ Len(q) = c.size
  BY DEF Ranked
<1>2. /\ r \in Seq(Keys) /\ Distinct(r) /\ Elements(r) = Cached(c) \ {k}
      /\ Len(r) = c.size - 1
  BY <1>1, UnlinkProperties, UnlinkShape
<1>3. Cached(d) = Cached(c) \ {k} /\ d.size = c.size - 1
  BY RemoveKeeps
<1>4. /\ d.freqMap = [c.freqMap EXCEPT ![f] = Unlink(c.freqMap[f], k)]
      /\ c.freqMap \in [Freqs -> Seq(Keys)]
  BY Fields DEF RemoveEntry
<1>5. f \in Freqs /\ k \in Elements(c.freqMap[f]) /\ Distinct(c.freqMap[f]) /\ c.freqMap[f] \in Seq(Keys)
  BY DEF StructOK, Cached, Agree
<1>6. ASSUME NEW g \in Freqs, NEW x \in Keys, NEW y \in Keys, Later(d.freqMap[g], y, x)
      PROVE  Later(r, x, y)
  <2>1. Later(c.freqMap[g], y, x) /\ x # k /\ y # k
    <3>1. CASE g = f
      <4>1. d.freqMap[g] = Unlink(c.freqMap[f], k)
        BY <1>4, <1>5, <3>1
      <4>2. Later(Unlink(c.freqMap[f], k), y, x)
        BY <1>6, <4>1
      <4>3. QED
        BY <1>5, <3>1, <4>2, UnlinkOrder
    <3>2. CASE g # f
      <4>1. d.freqMap[g] = c.freqMap[g]
        BY <1>4, <1>5, <3>2
      <4>2. x \in Elements(c.freqMap[g]) /\ y \in Elements(c.freqMap[g])
        BY <1>6, <4>1, LaterElements
      <4>3. x # k /\ y # k
        BY <3>2, <4>2 DEF Agree
      <4>4. QED
        BY <1>6, <4>1, <4>3
    <3>3. QED
      BY <3>1, <3>2
  <2>2. Later(q, x, y)
    BY <2>1 DEF Ranked
  <2>3. k \in Elements(q)
    BY <1>1
  <2>4. QED
    BY <1>1, <2>1, <2>2, <2>3, UnlinkOrder
<1> HIDE DEF d, r
<1>7. Ranked(d, r)
  BY <1>2, <1>3, <1>6 DEF Ranked
<1>8. QED
  BY <1>7 DEF d, r

LEMMA PromoteRanked ==
  ASSUME NEW c, StructOK(c), Agree(c), NEW q, Ranked(c, q), NEW k \in Cached(c), c.freq[k] < MaxFreq
  PROVE  Ranked(PromoteEntry(c, k), Append(Unlink(q, k), k))
<1> DEFINE d == PromoteEntry(c, k)
           u == Unlink(q, k)
           r == Append(u, k)
           f == c.freq[k]
<1>1. q \in Seq(Keys) /\ Distinct(q) /\ Elements(q) = Cached(c) /\ Len(q) = c.size /\ c.size \in Nat
  BY Fields DEF Ranked
<1>2. /\ u \in Seq(Keys) /\ Distinct(u) /\ Elements(u) = Cached(c) \ {k} /\ k \in Keys
      /\ Len(u) = c.size - 1
  BY <1>1, UnlinkProperties, UnlinkShape DEF Cached
<1> HIDE DEF u
<1>3. /\ r \in Seq(Keys) /\ Distinct(r) /\ Elements(r) = (Cached(c) \ {k}) \cup {k}
      /\ Len(r) = (c.size - 1) + 1
      /\ \A x, y : Later(u, x, y) => Later(r, x, y)
      /\ \A x \in Elements(u) : Later(r, k, x)
  BY <1>2, AppendOrder
<1>4. Elements(r) = Cached(c) /\ Len(r) = c.size
  BY <1>1, <1>3
<1>5. /\ f \in Freqs /\ f + 1 \in Freqs /\ f # f + 1
      /\ k \in Elements(c.freqMap[f]) /\ Distinct(c.freqMap[f]) /\ c.freqMap[f] \in Seq(Keys)
      /\ c.freqMap[f + 1] \in Seq(Keys)
  BY KeysAssumption DEF StructOK, Cached, Agree, Freqs
<1>6. /\ d.freq = [c.freq EXCEPT ![k] = f + 1] /\ d.size = c.size
      /\ d.freqMap = [c.freqMap EXCEPT ![f] = Unlink(c.freqMap[f], k), ![f + 1] = <<k>> \o @]
      /\ c.freqMap \in [Freqs -> Seq(Keys)] /\ c.freq \in [Keys -> Freqs]
  BY Fields DEF PromoteEntry
<1>7. Cached(d) = Cached(c)
  BY <1>2, <1>5, <1>6 DEF Cached, Freqs
<1>8. /\ d.freqMap[f] = Unlink(c.freqMap[f], k)
      /\ d.freqMap[f + 1] = <<k>> \o c.freqMap[f + 1]
      /\ \A g \in Freqs : g # f /\ g # f + 1 => d.freqMap[g] = c.freqMap[g]
  <2> HIDE DEF d, f
  <2>1. QED
    BY <1>5, <1>6
<1> HIDE DEF d, f, r
<1>9. ASSUME NEW x \in Keys, NEW y \in Keys, NEW g \in Freqs, Later(c.freqMap[g], y, x),
             x # k, y # k
      PROVE  Later(r, x, y)
  <2>1. Later(q, x, y) /\ k \in Elements(q)
    BY <1>1, <1>9 DEF Ranked
  <2>2. Later(u, x, y)
    BY <1>1, <1>9, <2>1, UnlinkOrder DEF u
  <2>3. QED
    BY <1>3, <2>2
<1>10. ASSUME NEW g \in Freqs, NEW x \in Elements(c.freqMap[g]), g # f
       PROVE  x # k /\ x \in Elements(u)
  BY <1>2, <1>10 DEF Agree, f
<1>11. ASSUME NEW g \in Freqs, NEW x \in Keys, NEW y \in Keys, Later(d.freqMap[g], y, x)
       PROVE  Later(r, x, y)
  <2>1. CASE g = f
    <3>1. Later(Unlink(c.freqMap[f], k), y, x)
      BY <1>8, <1>11, <2>1
    <3>2. Later(c.freqMap[f], y, x) /\ x # k /\ y # k
      BY <1>5, <3>1, UnlinkOrder
    <3>3. QED
      BY <1>5, <1>9, <3>2
  <2>2. CASE g = f + 1
    <3>1. Later(<<k>> \o c.freqMap[f + 1], y, x)
      BY <1>8, <1>11, <2>2
    <3>2. \/ Later(c.freqMap[f + 1], y, x)
          \/ x = k /\ y \in Elements(c.freqMap[f + 1])
      BY <1>2, <1>5, <3>1, PushFrontOrder
    <3>3. CASE Later(c.freqMap[f + 1], y, x)
      <4>1. x # k /\ y # k
        BY <1>5, <1>10, <3>3, LaterElements
      <4>2. QED
        BY <1>5, <1>9, <3>3, <4>1
    <3>4. CASE x = k /\ y \in Elements(c.freqMap[f + 1])
      BY <1>3, <1>5, <1>10, <3>4
    <3>5. QED
      BY <3>2, <3>3, <3>4
  <2>3. CASE g # f /\ g # f + 1
    <3>1. Later(c.freqMap[g], y, x)
      BY <1>8, <1>11, <2>3
    <3>2. x # k /\ y # k
      BY <1>10, <2>3, <3>1, LaterElements
    <3>3. QED
      BY <1>9, <3>1, <3>2
  <2>4. QED
    BY <2>1, <2>2, <2>3
<1>12. Ranked(d, r)
  BY <1>3, <1>4, <1>6, <1>7, <1>11 DEF Ranked
<1>13. QED
  BY <1>12 DEF d, r, u

LEMMA InsertRanked ==
  ASSUME NEW c, StructOK(c), Agree(c), NEW q, Ranked(c, q), NEW k \in Keys \ Cached(c)
  PROVE  Ranked(InsertEntry(c, k), Append(q, k))
<1> DEFINE d == InsertEntry(c, k)
           r == Append(q, k)
<1>1. q \in Seq(Keys) /\ Distinct(q) /\ Elements(q) = Cached(c) /\ Len(q) = c.size
  BY DEF Ranked
<1>2. /\ r \in Seq(Keys) /\ Distinct(r) /\ Elements(r) = Cached(c) \cup {k}
      /\ Len(r) = c.size + 1
      /\ \A x, y : Later(q, x, y) => Later(r, x, y)
      /\ \A x \in Elements(q) : Later(r, k, x)
  BY <1>1, AppendOrder
<1>3. 1 \in Freqs /\ c.freqMap[1] \in Seq(Keys)
  BY KeysAssumption, Fields DEF Freqs
<1>4. /\ d.freq = [c.freq EXCEPT ![k] = 1] /\ d.size = c.size + 1
      /\ d.freqMap = [c.freqMap EXCEPT ![1] = <<k>> \o c.freqMap[1]]
      /\ c.freqMap \in [Freqs -> Seq(Keys)] /\ c.freq \in [Keys -> Freqs]
  BY Fields DEF InsertEntry
<1> HIDE DEF d, r
<1>5. Cached(d) = Cached(c) \cup {k}
  BY <1>4 DEF Cached
<1>6. ASSUME NEW g \in Freqs, NEW x \in Keys, NEW y \in Keys, Later(d.freqMap[g], y, x)
      PROVE  Later(r, x, y)
  <2>1. \/ Later(c.freqMap[g], y, x)
        \/ x = k /\ y \in Elements(c.freqMap[g])
    <3>1. CASE g = 1
      <4>1. Later(<<k>> \o c.freqMap[1], y, x)
        BY <1>3, <1>4, <1>6, <3>1
      <4>2. QED
        BY <1>3, <3>1, <4>1, PushFrontOrder
    <3>2. CASE g # 1
      BY <1>3, <1>4, <1>6, <3>2
    <3>3. QED
      BY <3>1, <3>2
  <2>2. CASE Later(c.freqMap[g], y, x)
    BY <1>2, <2>2 DEF Ranked
  <2>3. CASE x = k /\ y \in Elements(c.freqMap[g])
    <3>1. y \in Elements(q)
      BY <1>1, <2>3 DEF Agree
    <3>2. QED
      BY <1>2, <2>3, <3>1
  <2>4. QED
    BY <2>1, <2>2, <2>3
<1>7. Ranked(d, r)
  BY <1>2, <1>4, <1>5, <1>6 DEF Ranked
<1>8. QED
  BY <1>7 DEF d, r

\* The strengthened invariant of the refinement.
PolicyInv == Inv(lfu) /\ Ranked(lfu, touched)

LEMMA InitPolicyInv == Init => PolicyInv
<1>1. SUFFICES ASSUME Init PROVE Ranked(lfu, touched)
  BY InitInv DEF PolicyInv
<1>2. /\ touched = <<>> /\ lfu.size = 0
      /\ \A f \in Freqs : lfu.freqMap[f] = <<>>
  BY <1>1 DEF Init
<1>3. Cached(lfu) = {}
  BY <1>1 DEF Init, Cached
<1>4. <<>> \in Seq(Keys) /\ Elements(<<>>) = {} /\ Distinct(<<>>) /\ Len(<<>>) = 0
  BY DEF Elements, Distinct
<1>5. \A x, y : ~ Later(<<>>, x, y)
  BY <1>4, LaterElements
<1>6. QED
  BY <1>2, <1>3, <1>4, <1>5 DEF Ranked

(* One step of RecordHit that makes room first, seen through its parts.    *)
LEMMA EvictKeeps ==
  ASSUME PolicyInv
  PROVE  /\ Evicts(lfu) <=> lfu.size = Capacity
         /\ Evicts(lfu) => Victim(lfu) \in Cached(lfu)
         /\ StructOK(Evict(lfu)) /\ Agree(Evict(lfu))
         /\ Cached(Evict(lfu)) \subseteq Cached(lfu)
         /\ Ranked(Evict(lfu), IF Evicts(lfu) THEN Unlink(touched, Victim(lfu)) ELSE touched)
<1>1. StructOK(lfu) /\ Agree(lfu) /\ Ranked(lfu, touched)
  BY DEF PolicyInv, Inv
<1>2. Evicts(lfu) <=> lfu.size = Capacity
  BY DEF PolicyInv, Inv, Evicts
<1>3. CASE Evicts(lfu)
  <2>1. Victim(lfu) \in Cached(lfu)
    BY <1>1, <1>3, VictimCached DEF Evicts
  <2>2. Evict(lfu) = RemoveEntry(lfu, Victim(lfu))
    BY <1>3 DEF Evict
  <2>3. QED
    BY <1>1, <1>2, <1>3, <2>1, <2>2, RemoveKeeps, RemoveRanked
<1>4. CASE ~ Evicts(lfu)
  BY <1>1, <1>2, <1>4 DEF Evict
<1>5. QED
  BY <1>3, <1>4

LEMMA NextPolicyInv == PolicyInv /\ [Next]_vars => PolicyInv'
<1>1. SUFFICES ASSUME PolicyInv, [Next]_vars PROVE Ranked(lfu', touched')
  <2>1. Ranked(lfu', touched') => Ranked(lfu, touched)'
    BY DEF Ranked, Later, Cached, Elements, Distinct
  <2>2. QED
    BY <2>1, NextInv DEF PolicyInv
<1>2. StructOK(lfu) /\ Agree(lfu) /\ Ranked(lfu, touched)
  BY <1>1 DEF PolicyInv, Inv
<1>3. CASE UNCHANGED <<lfu, touched>>
  BY <1>2, <1>3
<1>4. ASSUME NEW k \in Keys, NEW due \in {"never", "later"}, RecordHit(k, due)
      PROVE  Ranked(lfu', touched')
  <2>1. CASE k \in Cached(lfu)
    BY <1>2, <1>4, <2>1, PromoteRanked DEF RecordHit
  <2>2. CASE k \notin Cached(lfu)
    <3>1. /\ lfu' = InsertEntry(Evict(lfu), k)
          /\ touched' = Append(IF Evicts(lfu) THEN Unlink(touched, Victim(lfu)) ELSE touched, k)
      BY <1>4, <2>2 DEF RecordHit
    <3>2. k \in Keys \ Cached(Evict(lfu))
      BY <1>1, <2>2, EvictKeeps
    <3>3. QED
      BY <1>1, <3>1, <3>2, EvictKeeps, InsertRanked
  <2>3. QED
    BY <2>1, <2>2
<1>5. ASSUME NEW k \in Keys, Invalidate(k)
      PROVE  Ranked(lfu', touched')
  BY <1>2, <1>5, RemoveRanked DEF Invalidate
<1>6. ASSUME NEW r \in Readers, GetRemoves(r), ~ UNCHANGED <<lfu, touched>>
      PROVE  Ranked(lfu', touched')
  BY <1>2, <1>6, RemoveRanked DEF GetRemoves
<1>7. QED
  BY <1>1, <1>3, <1>4, <1>5, <1>6 DEF Next, Expire, GetExpired, vars

(* The policy's Without is list.Remove.                                    *)
LEMMA PartsOf ==
  ASSUME NEW S, NEW q \in Seq(S), NEW at \in 1 .. Len(q),
         NEW r \in Seq(S), Len(r) = Len(q) - 1,
         \A i \in 1 .. Len(q) - 1 : r[i] = IF i < at THEN q[i] ELSE q[i + 1]
  PROVE  SubSeq(q, 1, at - 1) \o SubSeq(q, at + 1, Len(q)) = r
<1> DEFINE front == SubSeq(q, 1, at - 1)
           back  == SubSeq(q, at + 1, Len(q))
           m     == at - 1
           n     == Len(q) - at
<1>1. Len(q) \in Nat /\ at \in 1 .. Len(q) /\ m \in Nat /\ n \in Nat /\ Len(q) - 1 = m + n
  BY LenProperties
<1>2. /\ r \in Seq(S) /\ Len(r) = m + n
      /\ \A i \in 1 .. m + n : r[i] = IF i < at THEN q[i] ELSE q[i + 1]
  BY <1>1
<1>3. /\ front \in Seq(S) /\ Len(front) = m
      /\ \A i \in 1 .. m : front[i] = q[i]
  <2>1. m \in Int /\ \A i \in 1 .. m : q[i] \in S
    BY <1>1, ElementOfSeq
  <2> HIDE DEF m
  <2>2. /\ SubSeq(q, 1, m) \in Seq(S)
        /\ Len(SubSeq(q, 1, m)) = IF 1 <= m THEN m - 1 + 1 ELSE 0
        /\ \A i \in 1 .. m - 1 + 1 : SubSeq(q, 1, m)[i] = q[1 + i - 1]
    BY <2>1, SubSeqProperties
  <2>3. Len(SubSeq(q, 1, m)) = m /\ 1 .. m - 1 + 1 = 1 .. m /\ \A i \in 1 .. m : 1 + i - 1 = i
    BY <1>1, <2>2
  <2>4. QED
    BY <2>2, <2>3 DEF m
<1>4. /\ back \in Seq(S) /\ Len(back) = n
      /\ \A i \in 1 .. n : back[i] = q[at + i]
  <2>1. at + 1 \in Int /\ Len(q) \in Int /\ \A i \in at + 1 .. Len(q) : q[i] \in S
    BY <1>1, ElementOfSeq
  <2>2. /\ back \in Seq(S)
        /\ Len(back) = IF at + 1 <= Len(q) THEN Len(q) - (at + 1) + 1 ELSE 0
        /\ \A i \in 1 .. Len(q) - (at + 1) + 1 : back[i] = q[(at + 1) + i - 1]
    BY <2>1, SubSeqProperties
  <2>3. /\ Len(back) = n /\ 1 .. Len(q) - (at + 1) + 1 = 1 .. n
        /\ \A i \in 1 .. n : (at + 1) + i - 1 = at + i
    BY <1>1, <2>2
  <2>4. QED
    BY <2>2, <2>3
<1> HIDE DEF front, back, n
<1>5. /\ front \o back \in Seq(S)
      /\ Len(front \o back) = m + n
      /\ \A i \in 1 .. m + n : (front \o back)[i] = IF i <= m THEN front[i] ELSE back[i - m]
  <2>1. front \in Seq(S) /\ back \in Seq(S)
    BY <1>3, <1>4
  <2>2. /\ front \o back \in Seq(S)
        /\ Len(front \o back) = Len(front) + Len(back)
        /\ \A i \in 1 .. Len(front) + Len(back) :
             (front \o back)[i] = IF i <= Len(front) THEN front[i] ELSE back[i - Len(front)]
    BY <2>1, ConcatProperties
  <2>3. Len(front) = m /\ Len(back) = n
    BY <1>3, <1>4
  <2>4. QED
    BY <2>2, <2>3
<1>6. ASSUME NEW i \in 1 .. m + n
      PROVE  (front \o back)[i] = r[i]
  <2>1. CASE i < at
    BY <1>1, <1>2, <1>3, <1>5, <2>1
  <2>2. CASE ~ (i < at)
    <3>1. ~ (i <= m) /\ i - m \in 1 .. n /\ at + (i - m) = i + 1
      BY <1>1, <2>2
    <3>2. (front \o back)[i] = back[i - m] /\ back[i - m] = q[at + (i - m)]
      BY <1>4, <1>5, <3>1
    <3>3. r[i] = q[i + 1]
      BY <1>2, <2>2
    <3>4. QED
      BY <3>1, <3>2, <3>3
  <2>3. QED
    BY <2>1, <2>2
<1>7. front \o back = r
  BY <1>1, <1>2, <1>5, <1>6, SeqEqual
<1>8. QED
  BY <1>7 DEF front, back

LEMMA WithoutIsUnlink ==
  ASSUME touched \in Seq(Keys), NEW k \in Elements(touched)
  PROVE  Policy!Without(k) = Unlink(touched, k)
<1> DEFINE q == touched
           r == Unlink(touched, k)
           first == CHOOSE i \in DOMAIN touched : touched[i] = k
           cut(i) == SubSeq(q, 1, i - 1) \o SubSeq(q, i + 1, Len(q))
<1>1. Policy!Without(k) = cut(first)
  BY DEF Policy!Without
<1>2. PICK at \in 1 .. Len(q) :
        /\ at = first
        /\ r \in Seq(Keys) /\ Len(r) = Len(q) - 1
        /\ \A i \in 1 .. Len(q) - 1 : r[i] = IF i < at THEN q[i] ELSE q[i + 1]
  BY UnlinkShape
<1> HIDE DEF r, first
<1>3. cut(at) = r
  BY <1>2, PartsOf
<1> HIDE DEF cut
<1>4. QED
  BY <1>1, <1>2, <1>3 DEF r

(* When the cache is full, the back of minFreq's list is the policy's      *)
(* Weakest: no key was hit less often, and those hit as often were hit     *)
(* later.                                                                  *)
LEMMA WeakestIsVictim ==
  ASSUME PolicyInv, lfu.size = Capacity
  PROVE  Policy!Weakest = Victim(lfu)
<1> DEFINE q == touched
           list == lfu.freqMap[lfu.minFreq]
           v == Victim(lfu)
           Beats(i) == \A j \in DOMAIN q :
                         \/ lfu.freq[q[i]] < lfu.freq[q[j]]
                         \/ lfu.freq[q[i]] = lfu.freq[q[j]] /\ i <= j
<1>1. /\ q \in Seq(Keys) /\ Distinct(q) /\ Elements(q) = Cached(lfu)
      /\ Len(q) \in Nat /\ DOMAIN q = 1 .. Len(q)
      /\ \A j \in DOMAIN q : q[j] \in Cached(lfu) /\ q[j] \in Keys
  BY LenProperties, ElementOfSeq DEF PolicyInv, Ranked, Elements
<1>2. /\ lfu.minFreq \in Freqs /\ list \in Seq(Keys) /\ list # <<>>
      /\ lfu.freq \in [Keys -> Freqs] /\ lfu.freqMap \in [Freqs -> Seq(Keys)]
      /\ \A f \in Freqs : lfu.freqMap[f] # <<>> => lfu.minFreq <= f
  BY Fields DEF PolicyInv, Inv
<1>3. /\ Len(list) \in Nat /\ DOMAIN list = 1 .. Len(list) /\ v = list[Len(list)]
      /\ v \in Elements(list) /\ Len(list) \in DOMAIN list
  <2>1. Len(list) \in Nat /\ DOMAIN list = 1 .. Len(list)
    BY <1>2, LenProperties
  <2>2. Len(list) \in DOMAIN list
    BY <1>2, <2>1, EmptySeq
  <2>3. v = list[Len(list)]
    BY DEF Victim
  <2>4. QED
    BY <2>1, <2>2, <2>3 DEF Elements
<1>4. v \in Cached(lfu) /\ v \in Keys /\ lfu.freq[v] = lfu.minFreq
  BY <1>2, <1>3 DEF PolicyInv, Inv, Agree, Cached
<1>5. PICK at \in DOMAIN q : q[at] = v
  BY <1>1, <1>4 DEF Elements
<1> HIDE DEF v, list
<1>6. ASSUME NEW j \in DOMAIN q
      PROVE  \/ lfu.freq[q[at]] < lfu.freq[q[j]]
             \/ lfu.freq[q[at]] = lfu.freq[q[j]] /\ at <= j
  <2> DEFINE g == lfu.freq[q[j]]
  <2>1. g \in Freqs /\ q[j] \in Elements(lfu.freqMap[g])
    BY <1>1, <1>2 DEF PolicyInv, Inv, Agree
  <2>2. lfu.minFreq <= g
    BY <1>2, <2>1, NonEmpty
  <2>3. CASE g = lfu.minFreq
    <3>1. PICK m \in DOMAIN list : list[m] = q[j]
      BY <2>1, <2>3 DEF Elements, list
    <3>2. CASE m = Len(list)
      <4>1. q[j] = q[at]
        BY <1>3, <1>5, <3>1, <3>2
      <4>2. j = at
        BY <1>1, <4>1 DEF Distinct
      <4>3. QED
        BY <1>1, <4>2
    <3>3. CASE m # Len(list)
      <4>1. Later(list, v, q[j])
        BY <1>3, <3>1, <3>3 DEF Later
      <4>2. Later(q, q[j], v)
        BY <1>1, <1>2, <1>4, <4>1 DEF PolicyInv, Ranked, list
      <4>3. PICK a \in DOMAIN q, b \in DOMAIN q : a > b /\ q[a] = q[j] /\ q[b] = v
        BY <4>2 DEF Later
      <4>4. a = j /\ b = at
        BY <1>1, <1>5, <4>3 DEF Distinct
      <4>5. QED
        BY <1>1, <1>4, <1>5, <2>3, <4>3, <4>4
    <3>4. QED
      BY <3>2, <3>3
  <2>4. CASE g # lfu.minFreq
    <3>1. lfu.minFreq < g
      BY <1>2, <2>1, <2>2, <2>4 DEF Freqs
    <3>2. QED
      BY <1>4, <1>5, <3>1
  <2>5. QED
    BY <2>3, <2>4
<1>7. Beats(at)
  BY <1>6
<1>8. ASSUME NEW i \in DOMAIN q, Beats(i)
      PROVE  i = at
  <2>1. \/ lfu.freq[q[i]] < lfu.freq[q[at]]
        \/ lfu.freq[q[i]] = lfu.freq[q[at]] /\ i <= at
    BY <1>8
  <2>2. \/ lfu.freq[q[at]] < lfu.freq[q[i]]
        \/ lfu.freq[q[at]] = lfu.freq[q[i]] /\ at <= i
    BY <1>6
  <2>3. lfu.freq[q[i]] \in Nat /\ lfu.freq[q[at]] \in Nat
    BY <1>1, <1>2 DEF Freqs
  <2>4. QED
    BY <1>1, <2>1, <2>2, <2>3
<1>9. (CHOOSE i \in DOMAIN q : Beats(i)) = at
  <2> HIDE DEF Beats
  <2>1. QED
    BY <1>7, <1>8
<1>10. Policy!Weakest = q[CHOOSE i \in DOMAIN q : Beats(i)]
  BY DEF Policy!Weakest
<1>11. QED
  BY <1>5, <1>9, <1>10 DEF v

LEMMA InitImplements == Init => Policy!Init
BY DEF Init, Policy!Init

LEMMA NextImplements ==
  PolicyInv /\ [Next]_vars => [Policy!Next]_<<lfu.freq, touched>>
<1>1. SUFFICES ASSUME PolicyInv, [Next]_vars
               PROVE  [Policy!Next]_<<lfu.freq, touched>>
  OBVIOUS
<1>2. /\ touched \in Seq(Keys) /\ Elements(touched) = Cached(lfu) /\ Len(touched) = lfu.size
      /\ lfu.freq \in [Keys -> Freqs]
      /\ lfu.size \in Nat /\ lfu.size <= Capacity
  BY <1>1, Fields DEF PolicyInv, Inv, Ranked
<1>3. \A k \in Keys : k \in Cached(lfu) => lfu.freq[k] > 0 /\ Policy!Without(k) = Unlink(touched, k)
  BY <1>2, WithoutIsUnlink DEF Cached
<1>4. \A k \in Keys : k \notin Cached(lfu) => lfu.freq[k] = 0
  BY <1>2 DEF Cached, Freqs
<1>5. ASSUME NEW k \in Keys, NEW due \in {"never", "later"}, RecordHit(k, due), k \in Cached(lfu)
      PROVE  Policy!Hit(k)
  <2>1. lfu'.freq = [lfu.freq EXCEPT ![k] = lfu.freq[k] + 1]
    BY <1>5 DEF RecordHit, PromoteEntry
  <2>2. touched' = Append(Unlink(touched, k), k)
    BY <1>5 DEF RecordHit
  <2>3. QED
    BY <1>3, <1>5, <2>1, <2>2 DEF Policy!Hit
<1>6. ASSUME NEW k \in Keys, NEW due \in {"never", "later"}, RecordHit(k, due), k \notin Cached(lfu)
      PROVE  Policy!Insert(k) \/ Policy!Replace(k)
  <2>1. /\ lfu'.freq = [Evict(lfu).freq EXCEPT ![k] = 1]
        /\ touched' = Append(IF Evicts(lfu) THEN Unlink(touched, Victim(lfu)) ELSE touched, k)
    BY <1>6 DEF RecordHit, InsertEntry
  <2>2. CASE Evicts(lfu)
    <3>1. lfu.size = Capacity /\ Victim(lfu) \in Cached(lfu) /\ Victim(lfu) \in Keys
      BY <1>1, <2>2, EvictKeeps DEF Cached
    <3>2. Policy!Weakest = Victim(lfu)
      BY <1>1, <3>1, WeakestIsVictim
    <3>3. lfu'.freq = [lfu.freq EXCEPT ![Victim(lfu)] = 0, ![k] = 1]
      BY <2>1, <2>2 DEF Evict, RemoveEntry
    <3>4. touched' = Append(Policy!Without(Victim(lfu)), k)
      BY <1>3, <2>1, <2>2, <3>1
    <3>5. Policy!Replace(k)
      BY <1>2, <1>4, <1>6, <3>1, <3>2, <3>3, <3>4 DEF Policy!Replace
    <3>6. QED
      BY <3>5
  <2>3. CASE ~ Evicts(lfu)
    <3>1. lfu.size # Capacity
      BY <1>1, <2>3, EvictKeeps
    <3>2. Len(touched) < Capacity
      BY <1>2, <3>1, KeysAssumption
    <3>3. lfu'.freq = [lfu.freq EXCEPT ![k] = 1] /\ touched' = Append(touched, k)
      BY <2>1, <2>3 DEF Evict
    <3>4. Policy!Insert(k)
      BY <1>4, <1>6, <3>2, <3>3 DEF Policy!Insert
    <3>5. QED
      BY <3>4
  <2>4. QED
    BY <2>2, <2>3
<1>7. ASSUME NEW k \in Cached(lfu), lfu' = RemoveEntry(lfu, k), touched' = Unlink(touched, k)
      PROVE  k \in Keys /\ Policy!Drop(k)
  <2>1. k \in Keys
    BY DEF Cached
  <2>2. lfu'.freq = [lfu.freq EXCEPT ![k] = 0]
    BY <1>7 DEF RemoveEntry
  <2>3. QED
    BY <1>3, <1>7, <2>1, <2>2 DEF Policy!Drop
<1>8. ASSUME UNCHANGED <<lfu, touched>>
      PROVE  UNCHANGED <<lfu.freq, touched>>
  BY <1>8
<1>9. ASSUME NEW k \in Keys, Invalidate(k)
      PROVE  Policy!Next
  BY <1>7, <1>9 DEF Invalidate, Policy!Next
<1>10. ASSUME NEW r \in Readers, GetRemoves(r)
       PROVE  Policy!Next \/ UNCHANGED <<lfu, touched>>
  BY <1>7, <1>10 DEF GetRemoves, Policy!Next
<1>11. ASSUME NEW k \in Keys, NEW due \in {"never", "later"}, RecordHit(k, due)
       PROVE  Policy!Next
  BY <1>5, <1>6, <1>11 DEF Policy!Next
<1>12. QED
  BY <1>1, <1>8, <1>9, <1>10, <1>11 DEF Next, Expire, GetExpired, vars

(* The cache implements exact LFU, the oldest hit breaking ties            *)
(* (RecordHit, Invalidate and Get in local_cache.go): every step of the    *)
(* maps and lists is a step of LfuPolicy or changes nothing it sees.       *)
THEOREM CacheImplementsPolicy == Spec => ImplementsPolicy
<1>1. Init => PolicyInv /\ Policy!Init
  BY InitPolicyInv, InitImplements
<1>2. QED
  BY <1>1, NextPolicyInv, NextImplements, PTL DEF Spec, ImplementsPolicy, Policy!Spec
=============================================================================
