----------------------------- MODULE LruPolicy -----------------------------
(***************************************************************************)
(* What a cache node promises: at most Capacity entries, most recently     *)
(* used first.  A GET of a key brings its entry to the front, unless its   *)
(* TTL has passed: then the entry leaves, and is never answered.  A SET    *)
(* writes the entry in front; if the key is new and the cache is full it   *)
(* drops the last entry and no other.  Otherwise entries leave by DELETE.  *)
(***************************************************************************)
EXTENDS Integers, Sequences, SequencesExt

CONSTANTS Keys, Values, Capacity
VARIABLES
  entries,  \* the cached entries, most recently used first
  asked     \* the request under way, which its caller chooses: an operation and a key

Expiries == {"never", "later", "passed"}
Entry == [key : Keys, value : Values, expires : Expiries]

Init == entries = <<>>

Read(i) ==
  /\ asked'.op = "get" /\ asked'.key = entries[i].key
  /\ entries' = IF entries[i].expires = "passed" THEN RemoveAt(entries, i)
                ELSE <<entries[i]>> \o RemoveAt(entries, i)

Delete(i) ==
  /\ asked'.op = "delete" /\ asked'.key = entries[i].key
  /\ entries' = RemoveAt(entries, i)

Lapse(i) ==
  /\ entries[i].expires = "later"
  /\ entries' = [entries EXCEPT ![i].expires = "passed"]

Update(i, e) ==
  /\ asked'.op = "set" /\ asked'.key = e.key
  /\ entries[i].key = e.key
  /\ entries' = <<e>> \o RemoveAt(entries, i)

Insert(e) ==
  /\ asked'.op = "set" /\ asked'.key = e.key
  /\ \A i \in DOMAIN entries : entries[i].key # e.key
  /\ entries' = <<e>> \o (IF Len(entries) < Capacity THEN entries ELSE Front(entries))

Next ==
  \/ \E i \in DOMAIN entries :
       \/ Read(i) \/ Delete(i) \/ Lapse(i)
       \/ \E e \in Entry : e.expires # "passed" /\ Update(i, e)
  \/ \E e \in Entry : e.expires # "passed" /\ Insert(e)

Spec == Init /\ [][Next]_entries
=============================================================================
