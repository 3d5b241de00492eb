------------------------- MODULE RouterWritesProofs -------------------------
(***************************************************************************)
(* Proofs about RouterWrites, for any number of nodes, writers and readers *)
(* and any faults: its type invariant, and that neither a copy nor the     *)
(* local cache keeps what an acknowledged write has superseded.            *)
(***************************************************************************)
EXTENDS RouterWrites, SequenceTheorems, FunctionTheorems, FiniteSetTheorems,
        WellFoundedInduction, TLAPS

-----------------------------------------------------------------------------
(* The inductive invariant.                                                *)

\* The copies that a write has still to call, besides those in todo.
Rest(x) == IF x.plan = <<>> THEN {} ELSE Head(x.plan)

Targets(nodes) == UNION Range(Plan(nodes))

\* Where a write has been executed.
Reached(x) == Targets(x.nodes) \ (x.todo \cup Rest(x) \cup x.failed \cup x.refuses)

Superseding(w) == {w} \cup wr[w].with

Named(x) == x # NoEntry => x.from \in Nodes

\* A plan has two stages at most, and what was read from a copy names it.
Shapes ==
  /\ TypeOK
  /\ \A w \in Writers : wr[w].plan = <<>> \/ Tail(wr[w].plan) = <<>>
  /\ \A r \in Readers : Named(rd[r].got)
  /\ Named(local) /\ Named(rebuild.got)

\* Each write knows the others that are open or adrift while it is open.
Company ==
  \A w \in Open :
    /\ Open \subseteq Superseding(w)
    /\ \A x \in adrift : x[2] \in Superseding(w)

\* What may still be written is allowed.
Foreseen ==
  \A c \in Copies :
    /\ \A w \in Open : Value[w] \in allowed[c]
    /\ \A x \in adrift : Value[x[2]] \in allowed[c]

\* The copies an open write has reached hold it, or what came after it began.
Overwritten ==
  \A w \in Open : \A c \in Reached(wr[w]) :
    held[c] \in {None} \cup {Value[u] : u \in Superseding(w)}

Fresh(x) == x # NoEntry /\ ~x.late => x.value \in allowed[x.from]

EntriesFresh ==
  /\ \A r \in Readers : Fresh(rd[r].got)
  /\ Fresh(local) /\ Fresh(rebuild.got)

WritesInv ==
  /\ Shapes /\ Company /\ Foreseen
  /\ Overwritten /\ CopiesAreCurrent /\ EntriesFresh

-----------------------------------------------------------------------------
(* The ring's nodes for the key, and the calls they lead to.               *)

LEMMA LeastIndex ==
  ASSUME NEW I, I \subseteq Nat, I # {}
  PROVE  Min(I) \in I
<1>1. PICK i \in I : \A k \in I : ~ (<<k, i>> \in OpToRel(<, Nat))
  BY NatLessThanWellFounded, WFMin
<1>2. \A k \in I : ~ (k < i)
  BY <1>1 DEF OpToRel
<1>3. \A k \in I : i =< k
  BY <1>2
<1>4. QED
  BY <1>3, Zenon DEF Min

LEMMA FirstOfSome ==
  ASSUME NEW S \in SUBSET Nodes, S # {}
  PROVE  First(S) \in S
<1> DEFINE I == {i \in 1 .. Len(Preference) : Preference[i] \in S}
<1>1. Preference \in Seq(Nodes) /\ DOMAIN Preference = 1 .. Len(Preference) /\ Len(Preference) \in Nat
  BY WritesAssumption, LenProperties
<1>2. PICK n \in S : TRUE
  OBVIOUS
<1>3. \E i \in 1 .. Len(Preference) : Preference[i] = n
  BY <1>1, <1>2 DEF Nodes, Range
<1>4. I # {} /\ I \subseteq Nat
  BY <1>1, <1>2, <1>3
<1>5. Min(I) \in I
  BY <1>4, LeastIndex
<1>6. SelectInSeq(Preference, LAMBDA x : x \in S) = Min(I)
  BY <1>4, Zenon DEF SelectInSeq
<1>7. First(S) = Preference[Min(I)]
  BY <1>6 DEF First
<1>8. QED
  BY <1>5, <1>7

LEMMA NodesOfRing ==
  ASSUME ring \subseteq Nodes
  PROVE  NodesForKey \in Seq(Nodes) /\ Range(NodesForKey) \subseteq Nodes
<1> DEFINE p == First(ring)
           q == First(ring \ {p})
<1>1. CASE ring = {}
  BY <1>1 DEF NodesForKey, Range
<1>2. CASE ring # {} /\ ring = {p}
  <2>1. NodesForKey = <<p>> /\ p \in Nodes
    BY <1>2 DEF NodesForKey
  <2>2. QED
    BY <2>1 DEF Range
<1>3. CASE ring # {} /\ ring # {p}
  <2>1. p \in ring
    BY <1>3, FirstOfSome
  <2>2. q \in ring
    BY <1>3, <2>1, FirstOfSome
  <2>3. NodesForKey = <<p, q>>
    BY <1>3 DEF NodesForKey
  <2>4. QED
    BY <2>1, <2>2, <2>3 DEF Range
<1>4. QED
  BY <1>1, <1>2, <1>3

LEMMA NodesFinite ==
  ASSUME NEW nodes \in SUBSET Nodes
  PROVE  Cardinality(nodes) \in Nat
<1>1. Preference \in [1 .. Len(Preference) -> Nodes] /\ Len(Preference) \in Nat
  BY WritesAssumption, LenProperties
<1>2. Preference \in Surjection(1 .. Len(Preference), Nodes)
  BY <1>1, Fun_RangeProperties DEF Nodes
<1>3. IsFiniteSet(Nodes)
  BY <1>1, <1>2, FS_Interval, FS_Surjection
<1>4. QED
  BY <1>3, FS_Subset, FS_CardinalityType

LEMMA PlanStages ==
  ASSUME mode \in Modes, NEW nodes \in SUBSET Nodes
  PROVE  /\ Plan(nodes) \in Seq(SUBSET Copies) /\ Plan(nodes) # <<>>
         /\ Tail(Plan(nodes)) = <<>> \/ Tail(Tail(Plan(nodes))) = <<>>
         /\ Targets(nodes) = Head(Plan(nodes))
              \cup (IF Tail(Plan(nodes)) = <<>> THEN {} ELSE Head(Tail(Plan(nodes))))
         /\ nodes # {} => Promised(nodes) \subseteq Targets(nodes) \cap Required(nodes)
<1> DEFINE plain == mode = "none" \/ Cardinality(nodes) < 2
<1>1. mode \in {"none", "parallel", "store_first", "cache_first"}
  BY WritesAssumption
<1>2. /\ nodes \in SUBSET Copies /\ {Store} \in SUBSET Copies
      /\ nodes \cup {Store} \in SUBSET Copies
  BY DEF Copies
<1>0. Cardinality(nodes) \in Nat
  BY NodesFinite
<1>3. CASE plain
  <2>1. Plan(nodes) = <<nodes>> /\ Required(nodes) = nodes
    BY <1>3 DEF Plan, Required
  <2>2. Targets(nodes) = nodes
    BY <2>1 DEF Targets, Range
  <2>3. Promised(nodes) \subseteq nodes
    BY <1>0, <1>3 DEF Promised
  <2>4. QED
    BY <1>2, <2>1, <2>2, <2>3
<1>4. CASE ~plain /\ mode = "parallel"
  <2>1. Plan(nodes) = <<nodes \cup {Store}>> /\ Required(nodes) = nodes \cup {Store}
    BY <1>4 DEF Plan, Required
  <2>2. Targets(nodes) = nodes \cup {Store}
    BY <2>1 DEF Targets, Range
  <2>3. Promised(nodes) \subseteq nodes \cup {Store}
    BY DEF Promised
  <2>4. QED
    BY <1>2, <2>1, <2>2, <2>3
<1>5. CASE ~plain /\ mode = "store_first"
  <2>1. Plan(nodes) = <<{Store}, nodes>> /\ Required(nodes) = {Store}
    BY <1>5 DEF Plan, Required
  <2>2. Targets(nodes) = {Store} \cup nodes
    BY <2>1 DEF Targets, Range
  <2>3. Promised(nodes) \subseteq {Store}
    BY <1>0, <1>5 DEF Promised
  <2>4. QED
    BY <1>2, <2>1, <2>2, <2>3
<1>6. CASE ~plain /\ mode = "cache_first"
  <2>1. Plan(nodes) = <<nodes, {Store}>> /\ Required(nodes) = nodes
    BY <1>6 DEF Plan, Required
  <2>2. Targets(nodes) = nodes \cup {Store}
    BY <2>1 DEF Targets, Range
  <2>3. Promised(nodes) \subseteq nodes
    BY <1>6 DEF Promised
  <2>4. QED
    BY <1>2, <2>1, <2>2, <2>3
<1>7. QED
  BY <1>1, <1>3, <1>4, <1>5, <1>6

LEMMA StagesOfPlan ==
  ASSUME NEW x \in Write
  PROVE  /\ Rest(x) \in SUBSET Copies
         /\ x.plan # <<>> => Head(x.plan) \in SUBSET Copies /\ Tail(x.plan) \in Seq(SUBSET Copies)
BY DEF Write, Rest

-----------------------------------------------------------------------------
(* Shapes is inductive.                                                    *)

LEMMA NoEntryShape == EntryOK(NoEntry) /\ Idle \in Read /\ Idle.got = NoEntry
BY DEF EntryOK, NoEntry, Entry, Idle, Read

LEMMA HoldingShape ==
  ASSUME TypeOK, NEW n \in Nodes, held[n] # None, NEW pc \in {"record", "install"}
  PROVE  /\ Holding(pc, n) \in Read
         /\ EntryOK(Holding(pc, n).got) /\ Holding(pc, n).got.from = n
         /\ Holding(pc, n).got.value = held[n] /\ ~Holding(pc, n).got.late
<1>1. held[n] \in Values
  BY DEF TypeOK, Copies
<1>2. QED
  BY <1>1 DEF Holding, Read, Entry, EntryOK, NoEntry

LEMMA LateShape ==
  ASSUME NEW x \in Read, EntryOK(x.got)
  PROVE  /\ Late(x) \in Read /\ EntryOK(Late(x).got) /\ Late(x).got.from = x.got.from
         /\ Late(x).got = NoEntry <=> x.got = NoEntry
         /\ Late(x).got # NoEntry => Late(x).got.late
<1>1. CASE x.got = NoEntry
  BY <1>1 DEF Late
<1>2. CASE x.got # NoEntry
  <2>1. /\ Late(x) = [x EXCEPT !.got.late = TRUE]
        /\ Late(x).got = [x.got EXCEPT !.late = TRUE]
    BY <1>2 DEF Late, Read, Entry
  <2>2. x.got.value # None
    BY <1>2 DEF EntryOK
  <2>3. /\ Late(x).got \in Entry /\ Late(x).got.value = x.got.value
        /\ Late(x).got.from = x.got.from /\ Late(x).got.late
    BY <2>1 DEF Read, Entry
  <2>4. Late(x) \in Read
    BY <2>1, <2>3 DEF Read
  <2>5. NoEntry.value = None
    BY DEF NoEntry
  <2>6. QED
    BY <1>2, <2>2, <2>3, <2>4, <2>5 DEF EntryOK
<1>3. QED
  BY <1>1, <1>2

LEMMA WriteUpdates ==
  ASSUME NEW x \in Write
  PROVE  /\ \A t, f \in SUBSET Copies :
              LET y == [x EXCEPT !.todo = t, !.failed = f]
              IN  y \in Write /\ y.todo = t /\ y.failed = f
                  /\ y.pc = x.pc /\ y.plan = x.plan /\ y.nodes = x.nodes /\ y.with = x.with
                  /\ y.refuses = x.refuses
         /\ \A t \in SUBSET Copies, p \in Seq(SUBSET Copies) :
              LET y == [x EXCEPT !.todo = t, !.plan = p]
              IN  y \in Write /\ y.todo = t /\ y.plan = p
                  /\ y.pc = x.pc /\ y.failed = x.failed /\ y.nodes = x.nodes /\ y.with = x.with
                  /\ y.refuses = x.refuses
         /\ \A w \in Writers :
              LET y == [x EXCEPT !.with = @ \cup {w}]
              IN  y \in Write /\ y.with = x.with \cup {w} /\ y.todo = x.todo
                  /\ y.pc = x.pc /\ y.failed = x.failed /\ y.nodes = x.nodes /\ y.plan = x.plan
                  /\ y.refuses = x.refuses
BY DEF Write

LEMMA RefusalsOfCopies ==
  ASSUME NEW w \in Writers, NEW copies \in Refusals(w), NEW called
  PROVE  copies \cap called \in SUBSET Copies
BY DEF Refusals, Copies

LEMMA WriteShape ==
  ASSUME Shapes, NEW w \in Writers, Begin(w) \/ Proceed(w) \/ Finish(w)
  PROVE  Shapes'
<1> USE DEF Named
<1>1. CASE Begin(w)
  <2> DEFINE nodes == Range(NodesForKey)
             x(copies) == [pc |-> "open", nodes |-> nodes, plan |-> Tail(Plan(nodes)),
                           todo |-> Head(Plan(nodes)), failed |-> {},
                           refuses |-> copies, with |-> Open \cup {a[2] : a \in adrift}]
  <2>1. nodes \in SUBSET Nodes /\ mode \in Modes
    BY NodesOfRing DEF Shapes, TypeOK
  <2>2. /\ Plan(nodes) \in Seq(SUBSET Copies) /\ Plan(nodes) # <<>>
        /\ Tail(Plan(nodes)) = <<>> \/ Tail(Tail(Plan(nodes))) = <<>>
    BY <2>1, PlanStages
  <2>3. Head(Plan(nodes)) \in SUBSET Copies /\ Tail(Plan(nodes)) \in Seq(SUBSET Copies)
    BY <2>2
  <2>4. Open \cup {a[2] : a \in adrift} \subseteq Writers
    BY DEF Shapes, TypeOK, Open
  <2>5. \A copies \in SUBSET Copies : x(copies) \in Write /\ x(copies).plan = Tail(Plan(nodes))
    BY <2>1, <2>3, <2>4 DEF Write
  <2>0. PICK copies \in SUBSET Copies :
          wr' = [[u \in Writers |-> IF wr[u].pc = "open" THEN [wr[u] EXCEPT !.with = @ \cup {w}]
                                    ELSE wr[u]] EXCEPT ![w] = x(copies)]
    BY <1>1, RefusalsOfCopies DEF Begin
  <2>6. /\ wr'[w] = x(copies)
        /\ \A u \in Writers \ {w} : wr'[u] = IF wr[u].pc = "open"
                 THEN [wr[u] EXCEPT !.with = @ \cup {w}] ELSE wr[u]
        /\ wr' = [u \in Writers |-> wr'[u]]
    BY <2>0
  <2>7. \A u \in Writers \ {w} : wr'[u] \in Write /\ wr'[u].plan = wr[u].plan
    <3> SUFFICES ASSUME NEW u \in Writers \ {w}
                 PROVE  wr'[u] \in Write /\ wr'[u].plan = wr[u].plan
      OBVIOUS
    <3>1. wr[u] \in Write
      BY DEF Shapes, TypeOK
    <3>2. wr'[u] = [wr[u] EXCEPT !.with = @ \cup {w}] \/ wr'[u] = wr[u]
      BY <2>6
    <3>3. /\ [wr[u] EXCEPT !.with = @ \cup {w}] \in Write
          /\ [wr[u] EXCEPT !.with = @ \cup {w}].plan = wr[u].plan
      BY <3>1, WriteUpdates, Zenon
    <3>4. QED
      BY <3>1, <3>2, <3>3
  <2>8. wr' \in [Writers -> Write]
    BY <2>5, <2>6, <2>7
  <2>9. \A u \in Writers : wr'[u].plan = <<>> \/ Tail(wr'[u].plan) = <<>>
    BY <2>2, <2>6, <2>7 DEF Shapes
  <2>10. allowed' \in [Copies -> SUBSET (Values \cup {None})]
    BY <1>1 DEF Begin, Value, Values, Shapes, TypeOK
  <2>11. TypeOK'
    BY <1>1, <2>8, <2>10 DEF Begin, Shapes, TypeOK
  <2>12. QED
    BY <1>1, <2>9, <2>11 DEF Begin, Shapes
<1>2. CASE Proceed(w)
  <2>1. Head(wr[w].plan) \in SUBSET Copies /\ Tail(wr[w].plan) \in Seq(SUBSET Copies)
    BY <1>2, StagesOfPlan DEF Proceed, Shapes, TypeOK
  <2>2. /\ wr' = [wr EXCEPT ![w] = [wr[w] EXCEPT !.todo = Head(wr[w].plan), !.plan = Tail(wr[w].plan)]]
        /\ Tail(wr[w].plan) = <<>>
    BY <1>2 DEF Proceed, Shapes, TypeOK, Write
  <2>3. wr' \in [Writers -> Write]
    BY <2>1, <2>2, WriteUpdates DEF Shapes, TypeOK
  <2>4. \A u \in Writers : wr'[u].plan = <<>> \/ Tail(wr'[u].plan) = <<>>
    BY <2>2 DEF Shapes, TypeOK, Write
  <2>5. QED
    BY <1>2, <2>3, <2>4 DEF Proceed, Shapes, TypeOK
<1>3. CASE Finish(w)
  <2>1. Quiet \in Write /\ Quiet.plan = <<>>
    BY DEF Quiet, Write
  <2>2. wr' \in [Writers -> Write]
    BY <1>3, <2>1 DEF Finish, Shapes, TypeOK
  <2>3. \A u \in Writers : wr'[u].plan = <<>> \/ Tail(wr'[u].plan) = <<>>
    BY <1>3, <2>1 DEF Finish, Shapes, TypeOK
  <2>4. \A r \in Readers : rd[r] \in Read /\ EntryOK(rd[r].got) /\ rd'[r] = Late(rd[r])
    BY <1>3 DEF Finish, Invalidate, Shapes, TypeOK
  <2>5. /\ rd' \in [Readers -> Read]
        /\ \A r \in Readers : EntryOK(rd'[r].got) /\ Named(rd'[r].got)
    BY <1>3, <2>4, LateShape DEF Finish, Invalidate, Shapes
  <2>6. rebuild' \in Read /\ EntryOK(rebuild'.got) /\ Named(rebuild'.got)
    BY <1>3, LateShape DEF Finish, Invalidate, Shapes, TypeOK
  <2>7. EntryOK(local') /\ Named(local')
    BY <1>3, NoEntryShape DEF Finish, Invalidate
  <2>8. {w} \cup wr[w].with \subseteq Writers
    BY DEF Shapes, TypeOK, Write
  <2>9. {Value[u] : u \in {w} \cup wr[w].with} \subseteq Values \cup {None}
    BY <2>8 DEF Value, Values
  <2>10. allowed' \in [Copies -> SUBSET (Values \cup {None})]
    BY <1>3, <2>9 DEF Finish, Shapes, TypeOK
  <2>11. QED
    BY <1>3, <2>2, <2>3, <2>5, <2>6, <2>7, <2>10 DEF Finish, Invalidate, Shapes, TypeOK
<1>4. QED
  BY <1>1, <1>2, <1>3

LEMMA CopyShape ==
  ASSUME Shapes, NEW w \in Writers, NEW c \in Copies, Call(w, c) \/ Arrive(c, w) \/ Lose(c)
  PROVE  Shapes'
<1> USE DEF Named
<1>1. Value[w] \in Values \cup {None}
  BY DEF Value, Values
<1>2. held' \in [Copies -> Values \cup {None}]
  <2>1. held' = held \/ \E v \in Values \cup {None} : held' = [held EXCEPT ![c] = v]
    BY <1>1 DEF Call, Arrive, Lose
  <2>2. QED
    BY <2>1 DEF Shapes, TypeOK
<1>3. adrift' \subseteq Copies \X Writers
  BY DEF Call, Arrive, Lose, Shapes, TypeOK
<1>4. faults' \in 0 .. MaxFaults
  BY WritesAssumption DEF Call, Arrive, Lose, Shapes, TypeOK
<1>5. CASE Call(w, c)
  <2>1. \E t, f \in SUBSET Copies : wr' = [wr EXCEPT ![w] = [wr[w] EXCEPT !.todo = t, !.failed = f]]
    <3>1. CASE wr' = [wr EXCEPT ![w].todo = @ \ {c}]
      <4>1. wr' = [wr EXCEPT ![w] = [wr[w] EXCEPT !.todo = wr[w].todo \ {c}, !.failed = wr[w].failed]]
        BY <3>1 DEF Shapes, TypeOK, Write
      <4>2. QED
        BY <4>1 DEF Shapes, TypeOK, Write
    <3>2. CASE wr' = [wr EXCEPT ![w].todo = @ \ {c}, ![w].failed = @ \cup {c}]
      <4>1. wr' = [wr EXCEPT ![w] = [wr[w] EXCEPT !.todo = wr[w].todo \ {c},
                                                  !.failed = wr[w].failed \cup {c}]]
        BY <3>2 DEF Shapes, TypeOK, Write
      <4>2. QED
        BY <4>1 DEF Shapes, TypeOK, Write
    <3>3. QED
      BY <1>5, <3>1, <3>2 DEF Call
  <2>2. PICK t \in SUBSET Copies, f \in SUBSET Copies :
          wr' = [wr EXCEPT ![w] = [wr[w] EXCEPT !.todo = t, !.failed = f]]
    BY <2>1
  <2>3. wr' \in [Writers -> Write]
    BY <2>2, WriteUpdates DEF Shapes, TypeOK
  <2>4. \A u \in Writers : wr'[u].plan = wr[u].plan
    BY <2>2 DEF Shapes, TypeOK, Write
  <2>5. QED
    BY <1>2, <1>3, <1>4, <1>5, <2>3, <2>4 DEF Call, Shapes, TypeOK
<1>6. CASE Arrive(c, w)
  BY <1>2, <1>3, <1>6 DEF Arrive, Shapes, TypeOK
<1>7. CASE Lose(c)
  BY <1>2, <1>4, <1>7 DEF Lose, Shapes, TypeOK
<1>8. QED
  BY <1>5, <1>6, <1>7

LEMMA ReadShape ==
  ASSUME Shapes, NEW r \in Readers, Get(r) \/ Ask(r) \/ Record(r)
  PROVE  Shapes'
<1> USE DEF Named
<1>1. rd[r] \in Read /\ EntryOK(rd[r].got)
  BY DEF Shapes, TypeOK
<1>2. CASE Get(r)
  <2>1. NodesForKey \in Seq(Nodes)
    BY NodesOfRing DEF Shapes, TypeOK
  <2>2. rd' = [rd EXCEPT ![r] = [rd[r] EXCEPT !.pc = "ask", !.nodes = NodesForKey]]
    BY <1>2 DEF Get, Shapes, TypeOK
  <2>3. [rd[r] EXCEPT !.pc = "ask", !.nodes = NodesForKey] \in Read
    BY <1>1, <2>1 DEF Read
  <2>4. rd' \in [Readers -> Read] /\ \A q \in Readers : rd'[q].got = rd[q].got
    BY <1>1, <2>2, <2>3 DEF Read, Shapes, TypeOK
  <2>5. QED
    BY <1>2, <2>4 DEF Get, Forward, Shapes, TypeOK
<1>3. CASE Ask(r)
  <2> DEFINE nodes == rd[r].nodes
  <2>1. nodes \in Seq(Nodes)
    BY <1>1 DEF Read
  <2>2. \E y \in Read : EntryOK(y.got) /\ Named(y.got) /\ rd' = [rd EXCEPT ![r] = y]
    <3>1. CASE rd' = [rd EXCEPT ![r] = Idle]
      BY <3>1, NoEntryShape
    <3>2. CASE nodes # <<>> /\ rd' = [rd EXCEPT ![r] = [Idle EXCEPT !.pc = "record"]]
      BY <3>2, NoEntryShape DEF Idle, Read
    <3>3. CASE nodes # <<>> /\ Hit(Head(nodes)) /\ rd' = [rd EXCEPT ![r] = Holding("record", Head(nodes))]
      <4>1. Head(nodes) \in Nodes
        BY <2>1, <3>3
      <4>2. QED
        BY <3>3, <4>1, HoldingShape DEF Hit, Shapes
    <3>4. CASE nodes # <<>> /\ rd' = [rd EXCEPT ![r].nodes = Tail(@)]
      <4>1. Tail(nodes) \in Seq(Nodes)
        BY <2>1, <3>4
      <4>2. rd' = [rd EXCEPT ![r] = [rd[r] EXCEPT !.nodes = Tail(nodes)]]
        BY <3>4 DEF Shapes, TypeOK
      <4>3. [rd[r] EXCEPT !.nodes = Tail(nodes)] \in Read /\ [rd[r] EXCEPT !.nodes = Tail(nodes)].got = rd[r].got
        BY <1>1, <4>1 DEF Read
      <4>4. QED
        BY <1>1, <4>2, <4>3 DEF Shapes
    <3>5. QED
      BY <1>3, <3>1, <3>2, <3>3, <3>4 DEF Ask
  <2>3. QED
    BY <1>3, <2>2 DEF Ask, Forward, Shapes, TypeOK
<1>4. CASE Record(r)
  <2>1. rd' \in [Readers -> Read] /\ \A q \in Readers : EntryOK(rd'[q].got) /\ Named(rd'[q].got)
    BY <1>4, NoEntryShape DEF Record, Shapes, TypeOK
  <2>2. local' \in {local, rd[r].got}
    BY <1>4 DEF Record
  <2>3. EntryOK(local') /\ Named(local')
    BY <1>1, <2>2 DEF Shapes, TypeOK
  <2>4. counted' \in BOOLEAN /\ (counted' => strategy' = "periodic")
    BY <1>4 DEF Record, Forward, Shapes, TypeOK
  <2>5. QED
    BY <1>4, <2>1, <2>3, <2>4 DEF Record, Forward, Shapes, TypeOK
<1>5. QED
  BY <1>2, <1>3, <1>4

LEMMA RebuildShape ==
  ASSUME Shapes, StartRebuild \/ Fetch \/ Install
  PROVE  Shapes'
<1> USE DEF Named
<1>1. Idle \in Read /\ Idle.got = NoEntry /\ Idle.nodes = <<>>
  BY NoEntryShape DEF Idle
<1>2. rebuild \in Read /\ EntryOK(rebuild.got) /\ Named(rebuild.got) /\ EntryOK(local) /\ Named(local)
  BY DEF Shapes, TypeOK
<1>3. CASE StartRebuild
  <2>1. \A p \in {"install", "fetch"}, s \in Seq(Nodes), e \in Entry :
          /\ [pc |-> p, nodes |-> s, got |-> e] \in Read
          /\ [pc |-> p, nodes |-> s, got |-> e].got = e
    BY DEF Read
  <2>2. NodesForKey \in Seq(Nodes) /\ <<>> \in Seq(Nodes)
    BY NodesOfRing DEF Shapes, TypeOK
  <2>3. NoEntry \in Entry /\ local \in Entry /\ EntryOK(NoEntry)
    BY <1>2, NoEntryShape DEF EntryOK
  <2>4. \/ rebuild' = [pc |-> "install", nodes |-> <<>>, got |-> local]
        \/ rebuild' = [pc |-> "fetch", nodes |-> NodesForKey, got |-> NoEntry]
        \/ rebuild' = [pc |-> "install", nodes |-> <<>>, got |-> NoEntry]
    BY <1>3 DEF StartRebuild, Idle
  <2>5. rebuild' \in Read /\ EntryOK(rebuild'.got) /\ Named(rebuild'.got)
    <3>1. CASE rebuild' = [pc |-> "install", nodes |-> <<>>, got |-> local]
      BY <1>2, <2>1, <2>2, <2>3, <3>1
    <3>2. CASE rebuild' = [pc |-> "fetch", nodes |-> NodesForKey, got |-> NoEntry]
      BY <2>1, <2>2, <2>3, <3>2
    <3>3. CASE rebuild' = [pc |-> "install", nodes |-> <<>>, got |-> NoEntry]
      BY <2>1, <2>2, <2>3, <3>3
    <3>4. QED
      BY <2>4, <3>1, <3>2, <3>3
  <2>6. QED
    BY <1>3, <2>5 DEF StartRebuild, Forward, Shapes, TypeOK
<1>4. CASE Fetch
  <2> DEFINE nodes == rebuild.nodes
  <2>1. nodes \in Seq(Nodes)
    BY <1>2 DEF Read
  <2>2. rebuild' \in Read /\ EntryOK(rebuild'.got) /\ Named(rebuild'.got)
    <3>1. CASE rebuild' = [rebuild EXCEPT !.pc = "install"]
      BY <1>2, <3>1 DEF Read
    <3>2. CASE /\ nodes # <<>> /\ held[Head(nodes)] # None
               /\ rebuild' = Holding("install", Head(nodes))
      <4>1. Head(nodes) \in Nodes
        BY <2>1, <3>2
      <4>2. QED
        BY <3>2, <4>1, HoldingShape DEF Shapes
    <3>3. CASE nodes # <<>> /\ rebuild' = [rebuild EXCEPT !.nodes = Tail(@)]
      <4>1. Tail(nodes) \in Seq(Nodes)
        BY <2>1, <3>3
      <4>2. QED
        BY <1>2, <3>3, <4>1 DEF Read
    <3>4. QED
      BY <1>4, <3>1, <3>2, <3>3 DEF Fetch
  <2>3. QED
    BY <1>4, <2>2 DEF Fetch, Forward, Shapes, TypeOK
<1>5. CASE Install
  BY <1>1, <1>2, <1>5, NoEntryShape DEF Install, Forward, Shapes, TypeOK
<1>6. QED
  BY <1>3, <1>4, <1>5

LEMMA ShapesKept == Shapes /\ [Next]_vars => Shapes'
<1> SUFFICES ASSUME Shapes, [Next]_vars PROVE Shapes'
  OBVIOUS
<1>1. ASSUME NEW w \in Writers, Begin(w) \/ Proceed(w) \/ Finish(w) PROVE Shapes'
  BY <1>1, WriteShape
<1>2. ASSUME NEW w \in Writers, NEW c \in Copies, Call(w, c) \/ Arrive(c, w) PROVE Shapes'
  BY <1>2, CopyShape
<1>3. ASSUME NEW r \in Readers, Get(r) \/ Ask(r) \/ Record(r) PROVE Shapes'
  BY <1>3, ReadShape
<1>4. CASE Leave
  BY <1>4, NoEntryShape DEF Leave, Forward, Shapes, TypeOK, Named
<1>5. CASE StartRebuild \/ Fetch \/ Install
  BY <1>5, RebuildShape
<1>6. ASSUME NEW n \in Nodes, Flip(n) PROVE Shapes'
  BY <1>6, WritesAssumption DEF Flip, Shapes, TypeOK, Named
<1>7. ASSUME NEW c \in Copies, Lose(c) PROVE Shapes'
  <2>1. CASE Writers # {}
    BY <1>7, <2>1, CopyShape
  <2>2. CASE Writers = {}
    BY <1>7, <2>2, WritesAssumption DEF Lose, Shapes, TypeOK, Named
  <2>3. QED
    BY <2>1, <2>2
<1>8. CASE UNCHANGED vars
  BY <1>8 DEF vars, Shapes, TypeOK, Named
<1>9. QED
  BY <1>1, <1>2, <1>3, <1>4, <1>5, <1>6, <1>7, <1>8 DEF Next

-----------------------------------------------------------------------------
(* What each step does to the open writes.                                 *)

LEMMA OpenAfterBegin ==
  ASSUME Shapes, NEW w \in Writers, Begin(w)
  PROVE  /\ w \notin Open /\ Open' = Open \cup {w}
         /\ Superseding(w)' = {w} \cup Open \cup {a[2] : a \in adrift}
         /\ \A u \in Open : Superseding(u)' = Superseding(u) \cup {w}
         /\ Reached(wr[w])' = {}
         /\ \A u \in Open : Reached(wr[u])' = Reached(wr[u])
<1> DEFINE nodes == Range(NodesForKey)
           x(copies) == [pc |-> "open", nodes |-> nodes, plan |-> Tail(Plan(nodes)),
                         todo |-> Head(Plan(nodes)), failed |-> {},
                         refuses |-> copies, with |-> Open \cup {a[2] : a \in adrift}]
<1>0. PICK copies :
        wr' = [[u \in Writers |-> IF wr[u].pc = "open" THEN [wr[u] EXCEPT !.with = @ \cup {w}]
                                  ELSE wr[u]] EXCEPT ![w] = x(copies)]
  BY DEF Begin
<1>1. /\ wr'[w] = x(copies) /\ mode' = mode
      /\ \A u \in Writers \ {w} : wr'[u] = IF wr[u].pc = "open"
               THEN [wr[u] EXCEPT !.with = wr[u].with \cup {w}] ELSE wr[u]
  BY <1>0 DEF Begin
<1>2. wr[w].pc = "new"
  BY DEF Begin
<1>3. \A u \in Open : u \in Writers \ {w} /\ wr[u] \in Write
  BY <1>2 DEF Open, Shapes, TypeOK
<1>4. \A u \in Open : /\ wr'[u].pc = "open" /\ wr'[u].with = wr[u].with \cup {w}
                      /\ wr'[u].nodes = wr[u].nodes /\ wr'[u].plan = wr[u].plan
                      /\ wr'[u].todo = wr[u].todo /\ wr'[u].failed = wr[u].failed
                      /\ wr'[u].refuses = wr[u].refuses
  <2> SUFFICES ASSUME NEW u \in Open
               PROVE  /\ wr'[u].pc = "open" /\ wr'[u].with = wr[u].with \cup {w}
                      /\ wr'[u].nodes = wr[u].nodes /\ wr'[u].plan = wr[u].plan
                      /\ wr'[u].todo = wr[u].todo /\ wr'[u].failed = wr[u].failed
                      /\ wr'[u].refuses = wr[u].refuses
    OBVIOUS
  <2>1. wr[u].pc = "open"
    BY DEF Open
  <2>2. wr'[u] = [wr[u] EXCEPT !.with = wr[u].with \cup {w}]
    BY <1>1, <1>3, <2>1
  <2>3. wr[u] \in Write
    BY <1>3
  <2>4. QED
    BY <2>1, <2>2, <2>3 DEF Write
<1>5. w \notin Open /\ Open' = Open \cup {w}
  <2>1. wr'[w].pc = "open"
    BY <1>1
  <2>2. \A u \in Writers \ {w} : u \notin Open => wr'[u].pc # "open"
    BY <1>1 DEF Open
  <2>3. QED
    BY <1>2, <1>4, <2>1, <2>2 DEF Open
<1>6. Superseding(w)' = {w} \cup Open \cup {a[2] : a \in adrift}
  BY <1>1 DEF Superseding
<1>7. \A u \in Open : Superseding(u)' = Superseding(u) \cup {w}
  BY <1>4 DEF Superseding
<1>8. \A u \in Open : Reached(wr[u])' = Reached(wr[u])
  BY <1>1, <1>4 DEF Reached, Targets, Rest, Plan
<1>9. Reached(wr[w])' = {}
  <2>1. nodes \in SUBSET Nodes /\ mode \in Modes
    BY NodesOfRing DEF Shapes, TypeOK
  <2>2. Targets(nodes) = x(copies).todo \cup Rest(x(copies))
    BY <2>1, PlanStages DEF Rest
  <2>3. Reached(x(copies)) = {}
    BY <2>2 DEF Reached
  <2>4. QED
    BY <1>1, <2>3 DEF Reached, Targets, Rest, Plan
<1>10. QED
  BY <1>5, <1>6, <1>7, <1>8, <1>9

LEMMA OpenAfterProceed ==
  ASSUME Shapes, NEW w \in Writers, Proceed(w)
  PROVE  /\ Open' = Open
         /\ \A u \in Writers : /\ Superseding(u)' = Superseding(u)
                               /\ Reached(wr[u])' = Reached(wr[u])
<1>1. wr[w] \in Write /\ wr[w].todo = {} /\ wr[w].plan # <<>> /\ Tail(wr[w].plan) = <<>>
  BY DEF Proceed, Shapes, TypeOK
<1>2. /\ wr' = [wr EXCEPT ![w] = [wr[w] EXCEPT !.todo = Head(wr[w].plan), !.plan = Tail(wr[w].plan)]]
      /\ mode' = mode
  BY DEF Proceed, Shapes, TypeOK, Write
<1>3. /\ wr'[w].todo = Head(wr[w].plan) /\ wr'[w].plan = <<>>
      /\ wr'[w].pc = wr[w].pc /\ wr'[w].failed = wr[w].failed
      /\ wr'[w].nodes = wr[w].nodes /\ wr'[w].with = wr[w].with
      /\ wr'[w].refuses = wr[w].refuses
  BY <1>1, <1>2 DEF Write, Shapes, TypeOK
<1>4. \A u \in Writers \ {w} : wr'[u] = wr[u]
  BY <1>2 DEF Shapes, TypeOK
<1>5. Reached(wr[w])' = Reached(wr[w])
  BY <1>1, <1>2, <1>3 DEF Reached, Targets, Rest, Plan
<1>6. \A u \in Writers \ {w} : Reached(wr[u])' = Reached(wr[u])
  BY <1>2, <1>4 DEF Reached, Targets, Rest, Plan
<1>7. QED
  BY <1>3, <1>4, <1>5, <1>6 DEF Open, Superseding

LEMMA OpenAfterCall ==
  ASSUME Shapes, NEW w \in Writers, NEW c \in Copies, Call(w, c)
  PROVE  /\ w \in Open /\ Open' = Open
         /\ \A u \in Writers : Superseding(u)' = Superseding(u)
         /\ \/ /\ held' = [held EXCEPT ![c] = Value[w]] /\ adrift' = adrift
               /\ Reached(wr[w])' \subseteq Reached(wr[w]) \cup {c}
               /\ \A u \in Writers \ {w} : Reached(wr[u])' = Reached(wr[u])
            \/ /\ held' = held /\ adrift' \subseteq adrift \cup {<<c, w>>}
               /\ \A u \in Writers : Reached(wr[u])' \subseteq Reached(wr[u])
<1>1. wr[w] \in Write /\ wr[w].pc = "open" /\ c \in wr[w].todo /\ mode' = mode
  BY DEF Call, Shapes, TypeOK
<1>2. CASE held' = [held EXCEPT ![c] = Value[w]] /\ adrift' = adrift
           /\ wr' = [wr EXCEPT ![w].todo = @ \ {c}]
  <2>1. /\ wr'[w].todo = wr[w].todo \ {c} /\ wr'[w].plan = wr[w].plan
        /\ wr'[w].pc = wr[w].pc /\ wr'[w].failed = wr[w].failed
        /\ wr'[w].nodes = wr[w].nodes /\ wr'[w].with = wr[w].with
        /\ wr'[w].refuses = wr[w].refuses
    BY <1>1, <1>2 DEF Write, Shapes, TypeOK
  <2>2. \A u \in Writers \ {w} : wr'[u] = wr[u]
    BY <1>2 DEF Shapes, TypeOK
  <2>3. Reached(wr[w])' \subseteq Reached(wr[w]) \cup {c}
    BY <1>1, <2>1 DEF Reached, Targets, Rest, Plan
  <2>4. \A u \in Writers \ {w} : Reached(wr[u])' = Reached(wr[u])
    BY <1>1, <2>2 DEF Reached, Targets, Rest, Plan
  <2>5. QED
    BY <1>1, <1>2, <2>1, <2>2, <2>3, <2>4 DEF Open, Superseding
<1>3. CASE /\ held' = held /\ adrift' = adrift /\ c \in wr[w].refuses
           /\ wr' = [wr EXCEPT ![w].todo = @ \ {c}]
  <2>1. /\ wr'[w].todo = wr[w].todo \ {c} /\ wr'[w].plan = wr[w].plan
        /\ wr'[w].pc = wr[w].pc /\ wr'[w].failed = wr[w].failed
        /\ wr'[w].nodes = wr[w].nodes /\ wr'[w].with = wr[w].with
        /\ wr'[w].refuses = wr[w].refuses
    BY <1>1, <1>3 DEF Write, Shapes, TypeOK
  <2>2. \A u \in Writers \ {w} : wr'[u] = wr[u]
    BY <1>3 DEF Shapes, TypeOK
  <2>3. Reached(wr[w])' \subseteq Reached(wr[w])
    BY <1>1, <1>3, <2>1 DEF Reached, Targets, Rest, Plan
  <2>4. \A u \in Writers \ {w} : Reached(wr[u])' = Reached(wr[u])
    BY <1>1, <2>2 DEF Reached, Targets, Rest, Plan
  <2>5. QED
    BY <1>1, <1>3, <2>1, <2>2, <2>3, <2>4 DEF Open, Superseding
<1>4. CASE /\ held' = held /\ adrift' \in {adrift, adrift \cup {<<c, w>>}}
           /\ wr' = [wr EXCEPT ![w].todo = @ \ {c}, ![w].failed = @ \cup {c}]
  <2>1. /\ wr'[w].todo = wr[w].todo \ {c} /\ wr'[w].plan = wr[w].plan
        /\ wr'[w].pc = wr[w].pc /\ wr'[w].failed = wr[w].failed \cup {c}
        /\ wr'[w].nodes = wr[w].nodes /\ wr'[w].with = wr[w].with
        /\ wr'[w].refuses = wr[w].refuses
    BY <1>1, <1>4 DEF Write, Shapes, TypeOK
  <2>2. \A u \in Writers \ {w} : wr'[u] = wr[u]
    BY <1>4 DEF Shapes, TypeOK
  <2>3. Reached(wr[w])' \subseteq Reached(wr[w])
    BY <1>1, <2>1 DEF Reached, Targets, Rest, Plan
  <2>4. \A u \in Writers \ {w} : Reached(wr[u])' = Reached(wr[u])
    BY <1>1, <2>2 DEF Reached, Targets, Rest, Plan
  <2>5. QED
    BY <1>1, <1>4, <2>1, <2>2, <2>3, <2>4 DEF Open, Superseding
<1>5. QED
  BY <1>2, <1>3, <1>4 DEF Call

LEMMA OpenAfterFinish ==
  ASSUME Shapes, NEW w \in Writers, Finish(w)
  PROVE  /\ w \in Open /\ Open' = Open \ {w}
         /\ \A u \in Open \ {w} : /\ Superseding(u)' = Superseding(u)
                                  /\ Reached(wr[u])' = Reached(wr[u])
<1>1. /\ wr[w].pc = "open" /\ wr'[w].pc = "done" /\ mode' = mode
      /\ \A u \in Writers \ {w} : wr'[u] = wr[u]
  BY DEF Finish, Quiet, Shapes, TypeOK
<1>2. w \in Open /\ Open' = Open \ {w}
  BY <1>1 DEF Open
<1>3. \A u \in Open \ {w} : wr'[u] = wr[u]
  BY <1>1 DEF Open
<1>4. QED
  BY <1>1, <1>2, <1>3 DEF Superseding, Reached, Targets, Rest, Plan

LEMMA OpenStays ==
  ASSUME UNCHANGED <<mode, wr>>
  PROVE  /\ Open' = Open
         /\ \A u \in Writers : /\ Superseding(u)' = Superseding(u)
                               /\ Reached(wr[u])' = Reached(wr[u])
BY DEF Open, Superseding, Reached, Targets, Rest, Plan

\* GETs and the rebuild only read the copies.
Reading ==
  \/ \E r \in Readers : Get(r) \/ Ask(r) \/ Record(r)
  \/ Leave \/ StartRebuild \/ Fetch \/ Install

LEMMA ReadingKeepsCopies == Reading => UNCHANGED Forward
BY DEF Reading, Get, Ask, Record, Leave, StartRebuild, Fetch, Install

-----------------------------------------------------------------------------
(* The other conjuncts, one lemma each.                                    *)

LEMMA CompanyKept == Shapes /\ Company /\ [Next]_vars => Company'
<1> SUFFICES ASSUME Shapes, Company, [Next]_vars PROVE Company'
  OBVIOUS
<1>0. Open \subseteq Writers /\ adrift \subseteq Copies \X Writers
  BY DEF Open, Shapes, TypeOK
<1>1. ASSUME NEW w \in Writers, Begin(w) PROVE Company'
  <2>1. adrift' = adrift
    BY <1>1 DEF Begin
  <2>2. QED
    BY <1>1, <2>1, OpenAfterBegin DEF Company
<1>2. ASSUME NEW w \in Writers, Proceed(w) PROVE Company'
  <2>1. adrift' = adrift
    BY <1>2 DEF Proceed
  <2>2. QED
    BY <1>0, <1>2, <2>1, OpenAfterProceed DEF Company
<1>3. ASSUME NEW w \in Writers, Finish(w) PROVE Company'
  <2>1. adrift' = adrift
    BY <1>3 DEF Finish
  <2>2. QED
    BY <1>0, <1>3, <2>1, OpenAfterFinish DEF Company
<1>4. ASSUME NEW w \in Writers, NEW c \in Copies, Call(w, c) PROVE Company'
  <2>1. /\ w \in Open /\ Open' = Open /\ adrift' \subseteq adrift \cup {<<c, w>>}
        /\ \A u \in Writers : Superseding(u)' = Superseding(u)
    BY <1>4, OpenAfterCall
  <2>2. QED
    BY <1>0, <2>1 DEF Company
<1>5. ASSUME NEW w \in Writers, NEW c \in Copies, Arrive(c, w) PROVE Company'
  <2>1. adrift' \subseteq adrift /\ UNCHANGED <<mode, wr>>
    BY <1>5 DEF Arrive
  <2>2. QED
    BY <1>0, <2>1, OpenStays DEF Company
<1>6. CASE UNCHANGED <<mode, wr, adrift>>
  BY <1>0, <1>6, OpenStays DEF Company
<1>7. \/ \E w \in Writers : Begin(w) \/ Proceed(w) \/ Finish(w)
      \/ \E w \in Writers, c \in Copies : Call(w, c) \/ Arrive(c, w)
      \/ UNCHANGED <<mode, wr, adrift>>
  BY ReadingKeepsCopies DEF Next, Reading, Forward, Flip, Lose, vars
<1>8. QED
  BY <1>1, <1>2, <1>3, <1>4, <1>5, <1>6, <1>7

LEMMA ForeseenKept == Shapes /\ Company /\ Foreseen /\ [Next]_vars => Foreseen'
<1> SUFFICES ASSUME Shapes, Company, Foreseen, [Next]_vars PROVE Foreseen'
  OBVIOUS
<1>0. /\ Open \subseteq Writers /\ adrift \subseteq Copies \X Writers
      /\ \A w \in Writers : Value[w]' = Value[w]
  BY DEF Open, Shapes, TypeOK
<1>1. ASSUME NEW w \in Writers, Begin(w) PROVE Foreseen'
  <2>1. adrift' = adrift /\ \A c \in Copies : allowed'[c] = allowed[c] \cup {Value[w]}
    BY <1>1 DEF Begin
  <2>2. QED
    BY <1>0, <1>1, <2>1, OpenAfterBegin DEF Foreseen
<1>2. ASSUME NEW w \in Writers, Proceed(w) PROVE Foreseen'
  <2>1. adrift' = adrift /\ allowed' = allowed
    BY <1>2 DEF Proceed
  <2>2. QED
    BY <1>0, <1>2, <2>1, OpenAfterProceed DEF Foreseen
<1>3. ASSUME NEW w \in Writers, Finish(w) PROVE Foreseen'
  <2>1. /\ adrift' = adrift
        /\ \A c \in Copies : allowed'[c] \in {allowed[c], {Value[u] : u \in Superseding(w)}}
    BY <1>3 DEF Finish, Superseding
  <2>2. w \in Open /\ Open' \subseteq Open
    BY <1>3, OpenAfterFinish
  <2>3. /\ Open \subseteq Superseding(w)
        /\ \A x \in adrift : x[2] \in Superseding(w)
    BY <2>2 DEF Company
  <2>4. QED
    BY <1>0, <2>1, <2>2, <2>3 DEF Foreseen
<1>4. ASSUME NEW w \in Writers, NEW c \in Copies, Call(w, c) PROVE Foreseen'
  <2>1. /\ w \in Open /\ Open' = Open /\ adrift' \subseteq adrift \cup {<<c, w>>}
        /\ allowed' = allowed
    BY <1>4, OpenAfterCall DEF Call
  <2>2. QED
    BY <1>0, <2>1 DEF Foreseen
<1>5. ASSUME NEW w \in Writers, NEW c \in Copies, Arrive(c, w) PROVE Foreseen'
  <2>1. adrift' \subseteq adrift /\ UNCHANGED <<mode, wr, allowed>>
    BY <1>5 DEF Arrive
  <2>2. QED
    BY <1>0, <2>1, OpenStays DEF Foreseen
<1>6. CASE UNCHANGED <<mode, wr, adrift, allowed>>
  BY <1>0, <1>6, OpenStays DEF Foreseen
<1>7. \/ \E w \in Writers : Begin(w) \/ Proceed(w) \/ Finish(w)
      \/ \E w \in Writers, c \in Copies : Call(w, c) \/ Arrive(c, w)
      \/ UNCHANGED <<mode, wr, adrift, allowed>>
  BY ReadingKeepsCopies DEF Next, Reading, Forward, Flip, Lose, vars
<1>8. QED
  BY <1>1, <1>2, <1>3, <1>4, <1>5, <1>6, <1>7

LEMMA OverwrittenKept == Shapes /\ Company /\ Overwritten /\ [Next]_vars => Overwritten'
<1> SUFFICES ASSUME Shapes, Company, Overwritten, [Next]_vars PROVE Overwritten'
  OBVIOUS
<1>0. Open \subseteq Writers /\ held \in [Copies -> Values \cup {None}]
  BY DEF Open, Shapes, TypeOK
<1>01. \A w \in Writers : Reached(wr[w]) \subseteq Copies
  <2> SUFFICES ASSUME NEW w \in Writers PROVE Reached(wr[w]) \subseteq Copies
    OBVIOUS
  <2>1. mode \in Modes /\ wr[w].nodes \in SUBSET Nodes
    BY DEF Shapes, TypeOK, Write
  <2>2. Plan(wr[w].nodes) \in Seq(SUBSET Copies)
    BY <2>1, PlanStages
  <2>3. Targets(wr[w].nodes) \subseteq Copies
    BY <2>2 DEF Targets, Range
  <2>4. QED
    BY <2>3 DEF Reached
<1>1. ASSUME NEW w \in Writers, Begin(w) PROVE Overwritten'
  <2>1. held' = held
    BY <1>1 DEF Begin
  <2>2. QED
    BY <1>1, <2>1, OpenAfterBegin DEF Overwritten
<1>2. ASSUME NEW w \in Writers, Proceed(w) PROVE Overwritten'
  <2>1. held' = held
    BY <1>2 DEF Proceed
  <2>2. QED
    BY <1>0, <1>2, <2>1, OpenAfterProceed DEF Overwritten
<1>3. ASSUME NEW w \in Writers, Finish(w) PROVE Overwritten'
  <2>1. held' = held
    BY <1>3 DEF Finish
  <2>2. QED
    BY <1>0, <1>3, <2>1, OpenAfterFinish DEF Overwritten
<1>4. ASSUME NEW w \in Writers, NEW c \in Copies, Call(w, c) PROVE Overwritten'
  <2>1. w \in Open /\ Open' = Open /\ \A u \in Writers : Superseding(u)' = Superseding(u)
    BY <1>4, OpenAfterCall
  <2>2. \A u \in Open : w \in Superseding(u)
    BY <2>1 DEF Company
  <2>3. CASE /\ held' = [held EXCEPT ![c] = Value[w]]
             /\ \A u \in Open : Reached(wr[u])' \subseteq Reached(wr[u]) \cup {c}
    BY <1>0, <1>01, <2>1, <2>2, <2>3 DEF Overwritten
  <2>4. CASE held' = held /\ \A u \in Open : Reached(wr[u])' \subseteq Reached(wr[u])
    BY <2>1, <2>4, <1>0 DEF Overwritten
  <2>5. QED
    BY <1>0, <1>4, <2>3, <2>4, OpenAfterCall
<1>5. ASSUME NEW w \in Writers, NEW c \in Copies, Arrive(c, w) PROVE Overwritten'
  <2>1. /\ <<c, w>> \in adrift /\ held' = [held EXCEPT ![c] = Value[w]]
        /\ UNCHANGED <<mode, wr>>
    BY <1>5 DEF Arrive
  <2>2. \A u \in Open : w \in Superseding(u)
    BY <2>1 DEF Company
  <2>3. QED
    BY <1>0, <1>01, <2>1, <2>2, OpenStays DEF Overwritten
<1>6. ASSUME NEW c \in Copies, Lose(c) PROVE Overwritten'
  <2>1. held' = [held EXCEPT ![c] = None] /\ UNCHANGED <<mode, wr>>
    BY <1>6 DEF Lose
  <2>2. QED
    BY <1>0, <1>01, <2>1, OpenStays DEF Overwritten
<1>7. CASE UNCHANGED <<mode, wr, held>>
  BY <1>0, <1>7, OpenStays DEF Overwritten
<1>8. \/ \E w \in Writers : Begin(w) \/ Proceed(w) \/ Finish(w)
      \/ \E w \in Writers, c \in Copies : Call(w, c) \/ Arrive(c, w)
      \/ \E c \in Copies : Lose(c)
      \/ UNCHANGED <<mode, wr, held>>
  BY ReadingKeepsCopies DEF Next, Reading, Forward, Flip, vars
<1>9. QED
  BY <1>1, <1>2, <1>3, <1>4, <1>5, <1>6, <1>7, <1>8

LEMMA CopiesKept ==
  Shapes /\ Company /\ Foreseen /\ Overwritten /\ CopiesAreCurrent /\ [Next]_vars
    => CopiesAreCurrent'
<1> SUFFICES ASSUME Shapes, Company, Foreseen, Overwritten, CopiesAreCurrent, [Next]_vars
             PROVE  CopiesAreCurrent'
  OBVIOUS
<1>0. held \in [Copies -> Values \cup {None}]
  BY DEF Shapes, TypeOK
<1>1. ASSUME NEW w \in Writers, Begin(w) PROVE CopiesAreCurrent'
  <2>1. held' = held /\ \A c \in Copies : allowed'[c] = allowed[c] \cup {Value[w]}
    BY <1>1 DEF Begin
  <2>2. QED
    BY <2>1 DEF CopiesAreCurrent
<1>2. ASSUME NEW w \in Writers, Finish(w) PROVE CopiesAreCurrent'
  <2> SUFFICES ASSUME NEW c \in Copies PROVE held'[c] \in allowed'[c] \cup {None}
    BY DEF CopiesAreCurrent
  <2>1. /\ w \in Open /\ held' = held
        /\ wr[w].todo = {}
        /\ wr[w].plan = <<>> \/ Refused(wr[w])
        /\ allowed'[c] = IF Acknowledged(wr[w]) /\ c \in Promised(wr[w].nodes) \ wr[w].refuses
                         THEN {Value[u] : u \in Superseding(w)} ELSE allowed[c]
    BY <1>2 DEF Finish, Open, Superseding
  <2>2. CASE Acknowledged(wr[w]) /\ c \in Promised(wr[w].nodes) \ wr[w].refuses
    <3>0. ~Refused(wr[w])
      BY <2>2 DEF Acknowledged
    <3>1. mode \in Modes /\ wr[w].nodes \in SUBSET Nodes
      BY DEF Shapes, TypeOK, Write
    <3>2. wr[w].nodes # {} /\ wr[w].failed \cap Required(wr[w].nodes) = {}
      BY <3>0 DEF Refused
    <3>3. c \in Targets(wr[w].nodes) \cap Required(wr[w].nodes)
      BY <2>2, <3>1, <3>2, PlanStages
    <3>4. c \in Reached(wr[w])
      BY <2>1, <2>2, <3>0, <3>2, <3>3 DEF Reached, Rest
    <3>5. held[c] \in {None} \cup {Value[u] : u \in Superseding(w)}
      BY <2>1, <3>4 DEF Overwritten
    <3>6. QED
      BY <2>1, <2>2, <3>5
  <2>3. CASE ~(Acknowledged(wr[w]) /\ c \in Promised(wr[w].nodes) \ wr[w].refuses)
    BY <2>1, <2>3 DEF CopiesAreCurrent
  <2>4. QED
    BY <2>2, <2>3
<1>3. ASSUME NEW w \in Writers, NEW c \in Copies, Call(w, c) PROVE CopiesAreCurrent'
  <2>1. /\ w \in Open /\ allowed' = allowed
        /\ held' = held \/ held' = [held EXCEPT ![c] = Value[w]]
    BY <1>3, OpenAfterCall DEF Call
  <2>2. Value[w] \in allowed[c]
    BY <2>1 DEF Foreseen
  <2>3. QED
    BY <1>0, <2>1, <2>2 DEF CopiesAreCurrent
<1>4. ASSUME NEW w \in Writers, NEW c \in Copies, Arrive(c, w) PROVE CopiesAreCurrent'
  <2>1. /\ <<c, w>> \in adrift /\ allowed' = allowed
        /\ held' = [held EXCEPT ![c] = Value[w]]
    BY <1>4 DEF Arrive
  <2>2. Value[w] \in allowed[c]
    BY <2>1 DEF Foreseen
  <2>3. QED
    BY <1>0, <2>1, <2>2 DEF CopiesAreCurrent
<1>5. ASSUME NEW c \in Copies, Lose(c) PROVE CopiesAreCurrent'
  BY <1>0, <1>5 DEF Lose, CopiesAreCurrent
<1>6. CASE UNCHANGED <<held, allowed>>
  BY <1>6 DEF CopiesAreCurrent
<1>7. \/ \E w \in Writers : Begin(w) \/ Finish(w)
      \/ \E w \in Writers, c \in Copies : Call(w, c) \/ Arrive(c, w)
      \/ \E c \in Copies : Lose(c)
      \/ UNCHANGED <<held, allowed>>
  BY ReadingKeepsCopies DEF Next, Reading, Proceed, Forward, Flip, vars
<1>8. QED
  BY <1>1, <1>2, <1>3, <1>4, <1>5, <1>6, <1>7

\* A value read from a node is allowed there when it is read.
LEMMA HoldingFresh ==
  ASSUME Shapes, CopiesAreCurrent, NEW n \in Nodes, held[n] # None,
         NEW pc \in {"record", "install"}
  PROVE  Fresh(Holding(pc, n).got)
<1>1. held[n] \in allowed[n]
  BY DEF CopiesAreCurrent, Copies
<1>2. Holding(pc, n).got.from = n /\ Holding(pc, n).got.value = held[n]
  BY HoldingShape DEF Shapes
<1>3. QED
  BY <1>1, <1>2 DEF Fresh

LEMMA EntriesKept ==
  Shapes /\ CopiesAreCurrent /\ EntriesFresh /\ [Next]_vars => EntriesFresh'
<1> SUFFICES ASSUME Shapes, CopiesAreCurrent, EntriesFresh, [Next]_vars PROVE EntriesFresh'
  OBVIOUS
<1>0. /\ rd \in [Readers -> Read] /\ rebuild \in Read
      /\ \A r \in Readers : EntryOK(rd[r].got) /\ Named(rd[r].got)
      /\ EntryOK(rebuild.got) /\ Named(local) /\ Named(rebuild.got)
  BY DEF Shapes, TypeOK
<1>1. Fresh(NoEntry) /\ Fresh(NoEntry)' /\ Idle.got = NoEntry
  BY DEF Fresh, Idle
<1>2. ASSUME NEW w \in Writers, Begin(w) PROVE EntriesFresh'
  <2>1. /\ UNCHANGED <<rd, local, rebuild>>
        /\ \A c \in Copies : allowed[c] \subseteq allowed'[c]
    BY <1>2 DEF Begin
  <2>2. QED
    BY <1>0, <2>1 DEF EntriesFresh, Fresh, Named, Copies
<1>3. ASSUME NEW w \in Writers, Finish(w) PROVE EntriesFresh'
  <2>1. /\ local' = NoEntry /\ rebuild' = Late(rebuild)
        /\ \A r \in Readers : rd'[r] = Late(rd[r])
    BY <1>3 DEF Finish, Invalidate
  <2>2. \A r \in Readers : rd'[r].got # NoEntry => rd'[r].got.late
    BY <1>0, <2>1, LateShape
  <2>3. rebuild'.got # NoEntry => rebuild'.got.late
    BY <1>0, <2>1, LateShape
  <2>4. QED
    BY <2>1, <2>2, <2>3 DEF EntriesFresh, Fresh, NoEntry
<1>4. ASSUME NEW r \in Readers, Ask(r) PROVE EntriesFresh'
  <2> DEFINE nodes == rd[r].nodes
  <2>1. UNCHANGED <<local, rebuild, allowed>> /\ nodes \in Seq(Nodes)
    BY <1>0, <1>4 DEF Ask, Forward, Read
  <2>2. /\ \A q \in Readers \ {r} : rd'[q] = rd[q]
        /\ \/ rd'[r].got \in {NoEntry, rd[r].got}
           \/ /\ nodes # <<>> /\ Hit(Head(nodes))
              /\ rd'[r] = Holding("record", Head(nodes))
    <3>1. CASE rd' = [rd EXCEPT ![r] = Idle]
      BY <1>0, <1>1, <3>1
    <3>2. CASE rd' = [rd EXCEPT ![r] = [Idle EXCEPT !.pc = "record"]]
      BY <1>0, <1>1, <3>2 DEF Idle
    <3>3. CASE nodes # <<>> /\ Hit(Head(nodes)) /\ rd' = [rd EXCEPT ![r] = Holding("record", Head(nodes))]
      BY <1>0, <3>3
    <3>4. CASE rd' = [rd EXCEPT ![r].nodes = Tail(@)]
      BY <1>0, <3>4 DEF Read
    <3>5. QED
      BY <1>4, <3>1, <3>2, <3>3, <3>4 DEF Ask
  <2>3. Fresh(rd'[r].got)
    <3>1. CASE nodes # <<>> /\ Hit(Head(nodes)) /\ rd'[r] = Holding("record", Head(nodes))
      <4>1. Head(nodes) \in Nodes
        BY <2>1, <3>1
      <4>2. QED
        BY <3>1, <4>1, HoldingFresh DEF Hit
    <3>2. CASE rd'[r].got \in {NoEntry, rd[r].got}
      BY <1>1, <3>2 DEF EntriesFresh
    <3>3. QED
      BY <2>2, <3>1, <3>2
  <2>4. QED
    BY <2>1, <2>2, <2>3 DEF EntriesFresh, Fresh
<1>5. CASE Fetch
  <2> DEFINE nodes == rebuild.nodes
  <2>1. UNCHANGED <<local, rd, allowed>> /\ nodes \in Seq(Nodes)
    BY <1>0, <1>5 DEF Fetch, Forward, Read
  <2>2. CASE nodes # <<>> /\ held[Head(nodes)] # None /\ rebuild' = Holding("install", Head(nodes))
    <3>1. Head(nodes) \in Nodes
      BY <2>1, <2>2
    <3>2. Fresh(rebuild'.got)
      BY <2>2, <3>1, HoldingFresh
    <3>3. QED
      BY <2>1, <3>2 DEF EntriesFresh, Fresh
  <2>3. CASE rebuild'.got = rebuild.got
    BY <2>1, <2>3 DEF EntriesFresh, Fresh
  <2>4. QED
    BY <1>0, <1>5, <2>2, <2>3 DEF Fetch, Read
<1>6. ASSUME NEW r \in Readers, Get(r) \/ Record(r) PROVE EntriesFresh'
  <2>1. UNCHANGED <<rebuild, allowed>> /\ local' \in {local, rd[r].got}
    BY <1>6 DEF Get, Record, Forward
  <2>2. \A q \in Readers : rd'[q].got \in {NoEntry, rd[q].got}
    <3>1. CASE Get(r)
      <4>1. rd' = [rd EXCEPT ![r] = [rd[r] EXCEPT !.pc = "ask", !.nodes = NodesForKey]]
        BY <1>0, <3>1 DEF Get
      <4>2. QED
        BY <1>0, <4>1 DEF Read
    <3>2. CASE Record(r)
      BY <1>0, <1>1, <3>2 DEF Record
    <3>3. QED
      BY <1>6, <3>1, <3>2
  <2>3. QED
    BY <1>1, <2>1, <2>2 DEF EntriesFresh, Fresh
<1>7. CASE Leave \/ StartRebuild \/ Install
  <2>1. UNCHANGED <<rd, allowed>> /\ local' \in {local, NoEntry, rebuild.got}
    BY <1>7 DEF Leave, StartRebuild, Install, Forward
  <2>2. rebuild'.got \in {NoEntry, rebuild.got, local}
    <3>1. CASE StartRebuild
      BY <3>1 DEF StartRebuild, Idle
    <3>2. CASE Install
      BY <1>1, <3>2 DEF Install
    <3>3. CASE Leave
      BY <3>3 DEF Leave
    <3>4. QED
      BY <1>7, <3>1, <3>2, <3>3
  <2>3. QED
    BY <1>1, <2>1, <2>2 DEF EntriesFresh, Fresh
<1>8. CASE UNCHANGED <<rd, local, rebuild, allowed>>
  BY <1>8 DEF EntriesFresh, Fresh
<1>9. \/ \E w \in Writers : Begin(w) \/ Finish(w)
      \/ \E r \in Readers : Get(r) \/ Ask(r) \/ Record(r)
      \/ Leave \/ StartRebuild \/ Fetch \/ Install
      \/ UNCHANGED <<rd, local, rebuild, allowed>>
  BY DEF Next, Proceed, Call, Arrive, Flip, Lose, vars
<1>10. QED
  BY <1>2, <1>3, <1>4, <1>5, <1>6, <1>7, <1>8, <1>9

-----------------------------------------------------------------------------
(* The theorems.                                                           *)

LEMMA WritesBegin == Init => WritesInv
<1> SUFFICES ASSUME Init PROVE WritesInv
  OBVIOUS
<1> DEFINE x == [Quiet EXCEPT !.pc = "new"]
<1>1. x \in Write /\ x.plan = <<>> /\ x.pc = "new"
  <2>1. Quiet \in Write /\ Quiet.plan = <<>>
    BY DEF Quiet, Write
  <2>2. QED
    BY <2>1 DEF Write
<1> HIDE DEF x
<1>2. TypeOK
  <2>1. wr = [w \in Writers |-> x]
    BY DEF Init, x
  <2>2. wr \in [Writers -> Write]
    BY <1>1, <2>1
  <2>3. rd \in [Readers -> Read] /\ \A r \in Readers : EntryOK(rd[r].got)
    BY NoEntryShape DEF Init
  <2>4. /\ held \in [Copies -> Values \cup {None}]
        /\ allowed \in [Copies -> SUBSET (Values \cup {None})]
    BY DEF Init, Values
  <2>5. flips \in 0 .. MaxFlips /\ faults \in 0 .. MaxFaults
    BY WritesAssumption DEF Init
  <2>6. QED
    BY <2>2, <2>3, <2>4, <2>5, NoEntryShape DEF Init, TypeOK
<1>3. Shapes
  BY <1>1, <1>2, NoEntryShape DEF Init, x, Shapes, Named
<1>4. Open = {}
  BY DEF Init, Open, Quiet
<1>5. QED
  BY <1>3, <1>4, NoEntryShape DEF Init, WritesInv, Company, Foreseen, Overwritten, CopiesAreCurrent,
     EntriesFresh, Fresh

LEMMA WritesInvariant == Spec => []WritesInv
<1>1. WritesInv /\ [Next]_vars => WritesInv'
  BY ShapesKept, CompanyKept, ForeseenKept, OverwrittenKept, CopiesKept, EntriesKept DEF WritesInv
<1>2. QED
  BY <1>1, WritesBegin, PTL DEF Spec

\* The router's type invariant (go_router/main.go:178): the local cache, a GET that is
\* under way and a rebuild hold an entry with a value, or none.
THEOREM RouterWritesTypes == Spec => []TypeOK
<1>1. WritesInv => TypeOK
  BY DEF WritesInv, Shapes
<1>2. QED
  BY <1>1, WritesInvariant, PTL

\* An acknowledged SET or DELETE (go_router/main.go:230) leaves every earlier write behind
\* in the copies its mode promises that did not answer it with 400, for any overlap of writers, any calls that
\* fail or arrive late, and any changes of the ring.
THEOREM AcknowledgedWritesStay == Spec => []CopiesAreCurrent
<1>1. WritesInv => CopiesAreCurrent
  BY DEF WritesInv
<1>2. QED
  BY <1>1, WritesInvariant, PTL

\* The same of the local cache, whose entry goes when the write is answered.
THEOREM LocalCacheStaysCurrent == Spec => []LocalIsCurrent
<1>1. WritesInv => LocalIsCurrent
  BY DEF WritesInv, EntriesFresh, Fresh, LocalIsCurrent
<1>2. QED
  BY <1>1, WritesInvariant, PTL
=============================================================================
