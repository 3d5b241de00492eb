---------------------------- MODULE RouterWrites ----------------------------
(***************************************************************************)
(* The life of one key in the Go cache: handleSet, handleDelete and        *)
(* handleGet of go_router/main.go, the copies of the key in its primary,   *)
(* its replica and the backing store, and the entry in the router's local  *)
(* cache.  Requests overlap, calls fail or arrive late, nodes leave the    *)
(* ring and return to it with what they held.                              *)
(*                                                                         *)
(* A SET is known by its writer, whose name stands for the value.  The key *)
(* is one that a URL can hold.                                             *)
(***************************************************************************)
EXTENDS Integers, FiniteSets, Sequences, SequencesExt

CONSTANTS
  Preference,  \* the cache nodes in the order nodesForKey prefers them
  Writers,     \* SETs and DELETEs; bound: how many there are
  Deleters,    \* the writers that DELETE
  Readers,     \* GETs that are under way at once
  Modes,       \* WRITE_THROUGH_MODE, or "none" without STORE_URL
  Strategies,  \* "direct" (counter, lfu) or "periodic"
  MaxFlips,    \* bound: changes of the ring
  MaxFaults,   \* bound: calls of writes that fail, and copies that vanish
  Before,      \* what every copy holds at the start: an older value, or None
  Store, None

Nodes == Range(Preference)
Copies == Nodes \cup {Store}
Values == (Writers \ Deleters) \cup ({Before} \ {None})

ASSUME WritesAssumption ==
  /\ Preference \in Seq(Nodes)
  /\ Store \notin Nodes /\ None \notin Writers \cup Nodes
  /\ Deleters \subseteq Writers
  /\ Modes \subseteq {"none", "parallel", "store_first", "cache_first"}
  /\ Strategies \subseteq {"direct", "periodic"}
  /\ Before \notin Deleters
  /\ MaxFlips \in Nat /\ MaxFaults \in Nat

VARIABLES
  mode,      \* writeThroughMode
  strategy,  \* of the local cache
  ring,      \* nodes in the ring
  held,      \* the value of the key in each copy, None if there is none
  adrift,    \* calls the router has given up that may still be executed
  wr,        \* SETs and DELETEs
  rd,        \* GETs
  local,     \* the key's entry in the local cache
  counted,   \* does the periodic cache count the key?
  rebuild,   \* doRebuild
  flips, faults,
  allowed    \* history: what each copy may hold after the acknowledged writes

vars == <<mode, strategy, ring, held, adrift, wr, rd, local, counted, rebuild,
          flips, faults, allowed>>

Value == [w \in Writers |-> IF w \in Deleters THEN None ELSE w]

Entry == [value : Values \cup {None}, from : Nodes \cup {None}, late : BOOLEAN]
NoEntry == [value |-> None, from |-> None, late |-> FALSE]

Idle == [pc |-> "idle", nodes |-> <<>>, got |-> NoEntry]
Quiet == [pc |-> "done", nodes |-> {}, plan |-> <<>>, todo |-> {}, failed |-> {}, refuses |-> {},
          with |-> {}]

Init ==
  /\ mode \in Modes /\ strategy \in Strategies
  /\ ring = Nodes
  /\ held = [c \in Copies |-> Before]
  /\ adrift = {}
  /\ wr = [w \in Writers |-> [Quiet EXCEPT !.pc = "new"]]
  /\ rd = [r \in Readers |-> Idle]
  /\ local = NoEntry
  /\ counted = FALSE
  /\ rebuild = Idle
  /\ flips = 0 /\ faults = 0
  /\ allowed = [c \in Copies |-> {Before}]

\* The node among S that is met first.
First(S) == Preference[SelectInSeq(Preference, LAMBDA n : n \in S)]

\* ring.nodesForKey(key, 2)
NodesForKey ==
  IF ring = {} THEN <<>>
  ELSE IF ring = {First(ring)} THEN <<First(ring)>>
  ELSE <<First(ring), First(ring \ {First(ring)})>>

\* The calls of a write: sets of copies that are called in parallel, in order.
\* With one node left there is neither replication nor write-through.
Plan(nodes) ==
  IF mode = "none" \/ Cardinality(nodes) < 2 THEN <<nodes>>
  ELSE [parallel    |-> <<nodes \cup {Store}>>,
        store_first |-> <<{Store}, nodes>>,
        cache_first |-> <<nodes, {Store}>>][mode]

\* The copies that answer a SET with 400 and keep what they had: the store when the
\* body is above 1 MiB, the nodes when it has not their shape, all when it is no JSON.
Refusals(w) == IF w \in Deleters THEN {{}} ELSE {{}, {Store}, Nodes, Copies}

\* The calls that must succeed (a 400 counts as a success); the others are best effort.
Required(nodes) ==
  IF mode = "none" \/ Cardinality(nodes) < 2 THEN nodes
  ELSE [parallel    |-> nodes \cup {Store},
        store_first |-> {Store},
        cache_first |-> nodes][mode]

\* History: the copies an acknowledgement promises (notes/key_learnings.md:660).
Promised(nodes) ==
  (IF mode = "store_first" /\ Cardinality(nodes) > 1 THEN {} ELSE nodes)
  \cup (IF mode \in {"parallel", "store_first"} /\ Cardinality(nodes) > 1 THEN {Store} ELSE {})

\* Mutant of Refused: one success is enough.
RefusedByAll(x) == x.nodes = {} \/ Required(x.nodes) \subseteq x.failed

Refused(x) == x.nodes = {} \/ x.failed \cap Required(x.nodes) # {}

\* The client gets the primary's answer, or 200 where a failed primary does not matter.
Acknowledged(x) == ~Refused(x) /\ First(x.nodes) \notin x.refuses \ x.failed

Open == {w \in Writers : wr[w].pc = "open"}
-----------------------------------------------------------------------------
Begin(w) ==
  /\ wr[w].pc = "new"
  /\ LET nodes == Range(NodesForKey)
         called == UNION Range(Plan(nodes))
         Joined(x) == IF x.pc = "open" THEN [x EXCEPT !.with = @ \cup {w}] ELSE x
     IN  \E copies \in Refusals(w) :
           wr' = [[u \in Writers |-> Joined(wr[u])] EXCEPT ![w] =
                    [pc |-> "open", nodes |-> nodes, plan |-> Tail(Plan(nodes)),
                     todo |-> Head(Plan(nodes)), failed |-> {}, refuses |-> copies \cap called,
                     with |-> Open \cup {x[2] : x \in adrift}]]
  /\ allowed' = [c \in Copies |-> allowed[c] \cup {Value[w]}]
  /\ UNCHANGED <<mode, strategy, ring, held, adrift, rd, local, counted, rebuild, flips, faults>>

\* The second calls start, unless the first ones have failed the request.
Proceed(w) ==
  /\ wr[w].pc = "open" /\ wr[w].todo = {} /\ wr[w].plan # <<>> /\ ~Refused(wr[w])
  /\ wr' = [wr EXCEPT ![w].todo = Head(wr[w].plan), ![w].plan = Tail(@)]
  /\ UNCHANGED <<mode, strategy, ring, held, adrift, rd, local, counted, rebuild, flips,
                 faults, allowed>>

\* callNode and callStore.  A call that is answered has been executed, unless the
\* answer is a 400.  A call that fails (a refusal of the circuit breaker, a 5xx, a
\* timeout) has not been executed, or will be executed later.
Call(w, c) ==
  /\ wr[w].pc = "open" /\ c \in wr[w].todo
  /\ \/ /\ held' = IF c \in wr[w].refuses THEN held ELSE [held EXCEPT ![c] = Value[w]]
        /\ wr' = [wr EXCEPT ![w].todo = @ \ {c}]
        /\ UNCHANGED <<adrift, faults>>
     \/ /\ faults < MaxFaults
        /\ faults' = faults + 1
        /\ \/ UNCHANGED adrift
           \/ c \notin wr[w].refuses /\ adrift' = adrift \cup {<<c, w>>}
        /\ wr' = [wr EXCEPT ![w].todo = @ \ {c}, ![w].failed = @ \cup {c}]
        /\ UNCHANGED held
  /\ UNCHANGED <<mode, strategy, ring, rd, local, counted, rebuild, flips, allowed>>

\* The copy's handler runs late.  (A late call that it answers with 400 changes nothing,
\* and is not adrift.)
Arrive(c, w) ==
  /\ <<c, w>> \in adrift
  /\ adrift' = adrift \ {<<c, w>>}
  /\ held' = [held EXCEPT ![c] = Value[w]]
  /\ UNCHANGED <<mode, strategy, ring, wr, rd, local, counted, rebuild, flips, faults, allowed>>

\* What a reader or the rebuild holds was read before the invalidation.
Late(x) == IF x.got = NoEntry THEN x ELSE [x EXCEPT !.got.late = TRUE]

\* Mutant of Invalidate: the entry of the local cache stays.
InvalidateCounter ==
  /\ counted' = FALSE
  /\ rd' = [r \in Readers |-> Late(rd[r])]
  /\ rebuild' = Late(rebuild)
  /\ UNCHANGED local

\* localCache.Invalidate, which runs after the calls ("defer").
Invalidate ==
  /\ local' = NoEntry
  /\ counted' = FALSE
  /\ rd' = [r \in Readers |-> Late(rd[r])]
  /\ rebuild' = Late(rebuild)

\* The answer.  An acknowledged write supersedes, in the copies it had to reach and
\* that took it, every write that had ended, late calls included, when it began.
Finish(w) ==
  /\ wr[w].pc = "open" /\ wr[w].todo = {}
  /\ wr[w].plan = <<>> \/ Refused(wr[w])
  /\ wr' = [wr EXCEPT ![w] = Quiet]
  /\ Invalidate
  /\ allowed' = [c \in Copies |->
       IF Acknowledged(wr[w]) /\ c \in Promised(wr[w].nodes) \ wr[w].refuses
       THEN {Value[u] : u \in {w} \cup wr[w].with} ELSE allowed[c]]
  /\ UNCHANGED <<mode, strategy, ring, held, adrift, flips, faults>>
-----------------------------------------------------------------------------
Forward == <<mode, strategy, ring, held, adrift, wr, flips, faults, allowed>>

Holding(pc, n) == [pc |-> pc, nodes |-> <<>>,
                   got |-> [value |-> held[n], from |-> n, late |-> FALSE]]

\* A GET that misses the local cache.
Get(r) ==
  /\ rd[r].pc = "idle" /\ local = NoEntry
  /\ rd' = [rd EXCEPT ![r].pc = "ask", ![r].nodes = NodesForKey]
  /\ UNCHANGED <<local, counted, rebuild, Forward>>

\* Mutant of Hit: the answer "miss" is remembered as well.
AnyAnswer(n) == TRUE

Hit(n) == held[n] # None

\* The first node that answers decides, with a value or with 404; the next one
\* is asked only when the call failed.  The periodic cache only needs the key.
Ask(r) ==
  /\ rd[r].pc = "ask"
  /\ LET nodes == rd[r].nodes
     IN  \/ nodes = <<>> /\ rd' = [rd EXCEPT ![r] = Idle]
         \/ nodes # <<>> /\ rd' = [rd EXCEPT ![r] =
              IF ~Hit(Head(nodes)) THEN Idle
              ELSE IF strategy = "periodic" THEN [Idle EXCEPT !.pc = "record"]
              ELSE Holding("record", Head(nodes))]
         \/ nodes # <<>> /\ rd' = [rd EXCEPT ![r].nodes = Tail(@)]
  /\ UNCHANGED <<local, counted, rebuild, Forward>>

\* localCache.RecordHit: the direct strategies refresh an entry they have and may
\* admit one they have not; the periodic one only counts.
Record(r) ==
  /\ rd[r].pc = "record"
  /\ rd' = [rd EXCEPT ![r] = Idle]
  /\ IF strategy = "periodic"
     THEN counted' = TRUE /\ UNCHANGED local
     ELSE /\ local' \in {rd[r].got} \cup (IF local = NoEntry THEN {local} ELSE {})
          /\ UNCHANGED counted
  /\ UNCHANGED <<rebuild, Forward>>

\* Eviction, or expiry found by Get.
Leave ==
  /\ local # NoEntry
  /\ local' = NoEntry
  /\ UNCHANGED <<rd, counted, rebuild, Forward>>

\* doRebuild: a key among the most counted keeps the value of the old snapshot,
\* or is to be fetched; another key will not be in the new snapshot.
StartRebuild ==
  /\ strategy = "periodic" /\ rebuild.pc = "idle"
  /\ \/ /\ counted
        /\ rebuild' = IF local # NoEntry
                      THEN [Idle EXCEPT !.pc = "install", !.got = local]
                      ELSE [Idle EXCEPT !.pc = "fetch", !.nodes = NodesForKey]
     \/ rebuild' = [Idle EXCEPT !.pc = "install"]
  /\ UNCHANGED <<rd, local, counted, Forward>>

\* fetchFromL2 goes on to the replica after a 404, too.
Fetch ==
  /\ rebuild.pc = "fetch"
  /\ \/ /\ rebuild.nodes = <<>>
        /\ rebuild' = [rebuild EXCEPT !.pc = "install"]
     \/ /\ rebuild.nodes # <<>>
        /\ held[Head(rebuild.nodes)] # None
        /\ rebuild' = Holding("install", Head(rebuild.nodes))
     \/ /\ rebuild.nodes # <<>>
        /\ rebuild' = [rebuild EXCEPT !.nodes = Tail(@)]
  /\ UNCHANGED <<rd, local, counted, Forward>>

Install ==
  /\ rebuild.pc = "install"
  /\ local' = rebuild.got
  /\ rebuild' = Idle
  /\ UNCHANGED <<rd, counted, Forward>>

\* The health checker takes a node out of the ring, or puts it back.
Flip(n) ==
  /\ flips < MaxFlips
  /\ flips' = flips + 1
  /\ ring' = IF n \in ring THEN ring \ {n} ELSE ring \cup {n}
  /\ UNCHANGED <<mode, strategy, held, adrift, wr, rd, local, counted, rebuild, faults, allowed>>

\* A copy is evicted, expires, or goes with its process.
Lose(c) ==
  /\ held[c] # None /\ faults < MaxFaults
  /\ faults' = faults + 1
  /\ held' = [held EXCEPT ![c] = None]
  /\ UNCHANGED <<mode, strategy, ring, adrift, wr, rd, local, counted, rebuild, flips, allowed>>

Next ==
  \/ \E w \in Writers : Begin(w) \/ Proceed(w) \/ Finish(w)
  \/ \E w \in Writers, c \in Copies : Call(w, c) \/ Arrive(c, w)
  \/ \E r \in Readers : Get(r) \/ Ask(r) \/ Record(r)
  \/ Leave \/ StartRebuild \/ Fetch \/ Install
  \/ \E n \in Nodes : Flip(n)
  \/ \E c \in Copies : Lose(c)

Spec == Init /\ [][Next]_vars
-----------------------------------------------------------------------------
Write == [pc : {"new", "open", "done"}, nodes : SUBSET Nodes, plan : Seq(SUBSET Copies),
          todo : SUBSET Copies, failed : SUBSET Copies, refuses : SUBSET Copies,
          with : SUBSET Writers]
Read == [pc : {"idle", "ask", "record", "fetch", "install"}, nodes : Seq(Nodes), got : Entry]
EntryOK(e) == e \in Entry /\ (e.value = None <=> e = NoEntry)

\* The variables have the shapes of the code, and no cache entry lacks a value:
\* the answer "miss" is never remembered.
TypeOK ==
  /\ mode \in Modes /\ strategy \in Strategies
  /\ ring \subseteq Nodes
  /\ held \in [Copies -> Values \cup {None}]
  /\ adrift \subseteq Copies \X Writers
  /\ wr \in [Writers -> Write]
  /\ rd \in [Readers -> Read] /\ \A r \in Readers : EntryOK(rd[r].got)
  /\ EntryOK(local) /\ rebuild \in Read /\ EntryOK(rebuild.got)
  /\ counted \in BOOLEAN /\ (counted => strategy = "periodic")
  /\ flips \in 0 .. MaxFlips /\ faults \in 0 .. MaxFaults
  /\ allowed \in [Copies -> SUBSET (Values \cup {None})]

\* When a SET or DELETE is acknowledged, the copies its mode promises have left
\* every earlier write behind for good: a copy holds nothing, or the value of
\* this write, or one of a write that overlapped it, came later, or was given up
\* and had still to arrive.  Of the copies that answered it with 400 nothing is said:
\* the router takes that for a success, and the copy keeps what it had.
CopiesAreCurrent == \A c \in Copies : held[c] \in allowed[c] \cup {None}

\* The same of the local cache, unless the entry was read before an invalidation
\* and recorded after it.
LocalIsCurrent ==
  local # NoEntry /\ ~local.late => local.value \in allowed[local.from]
=============================================================================
