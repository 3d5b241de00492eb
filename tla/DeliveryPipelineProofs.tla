----------------------- MODULE DeliveryPipelineProofs -----------------------
(***************************************************************************)
(* Proofs about DeliveryPipeline, for all values of its constants: types,  *)
(* who holds a message, that nothing is lost, what "sent" and "failed"     *)
(* mean, and that the pipeline implements DeliveryContract.                *)
(***************************************************************************)
EXTENDS DeliveryPipeline, TLAPS, FiniteSetTheorems, SequenceTheorems,
        WellFoundedInduction

-----------------------------------------------------------------------------
(* Facts about the operators of the model.                                 *)

(* The ids of the fan-out pipeline form a sequence of ids.                 *)
LEMMA OrdersAreSequences ==
  ASSUME NEW S, IsFiniteSet(S), NEW q \in Orders(S)
  PROVE  q \in Seq(S)
<1>1. Cardinality(S) \in Nat
  BY FS_CardinalityType
<1>2. q \in [1 .. Cardinality(S) -> S]
  BY DEF Orders
<1>3. QED
  BY <1>1, <1>2, SeqDef

(* The notifications a call creates are finitely many ids.                 *)
LEMMA CreatedFinite ==
  ASSUME TypeOK, NEW c \in Calls
  PROVE  IsFiniteSet(Created(c)) /\ Created(c) \subseteq Nids
<1>1. fresh[c] \subseteq Targets[c] /\ Targets[c] \subseteq Keys
  BY CallsAssumption DEF TypeOK, ApiOK
<1>2. IsFiniteSet(fresh[c])
  BY <1>1, CallsAssumption, FS_Subset
<1>3. IsFiniteSet({c} \X fresh[c])
  BY <1>2, FS_Singleton, FS_Product
<1>4. Created(c) \subseteq {c} \X fresh[c]
  BY DEF Created
<1>5. QED
  BY <1>1, <1>3, <1>4, FS_Subset DEF Created, Nids

(* A nonempty set of naturals has a least element.                         *)
LEMMA LeastElement ==
  ASSUME NEW S, S \subseteq Nat, S # {}
  PROVE  \E i \in S : \A j \in S : i <= j
<1>1. PICK i \in S : \A j \in S : ~ (<<j, i>> \in OpToRel(<, Nat))
  BY NatLessThanWellFounded, WFMin
<1>2. \A j \in S : ~ (j < i)
  BY <1>1 DEF OpToRel
<1>3. QED
  BY <1>2

(* XAUTOCLAIM's cursor is a message id or 0.                               *)
LEMMA CursorType ==
  ASSUME TypeOK, NEW s \in Streams, NEW page
  PROVE  Cursor(s, page) \in Nat
<1> DEFINE rest == {i \in Pending(s) : \A j \in page : j < i}
<1>1. Pending(s) \subseteq Nat
  BY DEF TypeOK, StreamOK, Pending
<1>2. CASE rest = {} \/ Cardinality(page) < BatchSize
  BY <1>2 DEF Cursor
<1>3. CASE rest # {} /\ ~ (Cardinality(page) < BatchSize)
  <2>1. \E i \in rest : \A j \in rest : i <= j
    BY <1>1, <1>3, LeastElement
  <2>2. (CHOOSE i \in rest : \A j \in rest : i <= j) \in rest
    BY <2>1
  <2>3. QED
    BY <1>1, <1>3, <2>2 DEF Cursor
<1>4. QED
  BY <1>2, <1>3

-----------------------------------------------------------------------------
(* Type correctness: one lemma per group of actions.                       *)

LEMMA ApiTypes ==
  ASSUME TypeOK, ApiStep \/ Expiry
  PROVE  TypeOK'
<1> USE DEF TypeOK
<1>1. ASSUME NEW c \in Calls, Check(c)
      PROVE  TypeOK'
  <2>1. ApiOK'
    BY <1>1, CallsAssumption DEF Check, Known, ApiOK, StoreOK, CallPcs
  <2>2. QED
    BY <1>1, <2>1 DEF Check, StoreOK, StreamOK, DlqOK, WorkerOK, BatchOK, HistoryOK,
       storeVars, streamVars, workerVars, adminVars, bounds, Pending, Batch
<1>2. ASSUME NEW c \in Calls, Save(c)
      PROVE  TypeOK'
  <2>1. ApiOK' /\ StoreOK'
    BY <1>2, CallsAssumption DEF Save, Created, ApiOK, StoreOK, CallPcs, Statuses, Nids
  <2>2. QED
    BY <1>2, <2>1 DEF Save, StreamOK, DlqOK, WorkerOK, BatchOK, HistoryOK, streamVars,
       workerVars, adminVars, bounds, Pending, Batch
<1>3. ASSUME NEW c \in Calls, Enqueue(c)
      PROVE  TypeOK'
  <2>1. PICK q \in Orders(Created(c)) : log' = [log EXCEPT ![StreamOf(c)] = @ \o q]
    BY <1>3 DEF Enqueue
  <2>2. q \in Seq(Nids)
    BY CreatedFinite, OrdersAreSequences, SeqDef
  <2>3. StreamOf(c) \in Streams
    BY DEF StreamOf, Streams
  <2>4. ApiOK'
    BY <1>3, CreatedFinite DEF Enqueue, ApiOK, CallPcs
  <2>5. StreamOK'
    <3>1. /\ log[StreamOf(c)] \o q \in Seq(Nids)
          /\ Len(log[StreamOf(c)] \o q) >= Len(log[StreamOf(c)])
      BY <2>2, <2>3, ConcatProperties, LenProperties DEF StreamOK
    <3>2. log' \in [Streams -> Seq(Nids)] /\ \A s \in Streams : Len(log'[s]) >= Len(log[s])
      BY <2>1, <2>3, <3>1, LenProperties DEF StreamOK
    <3>3. \A s \in Streams : Len(log[s]) \in Nat /\ Len(log'[s]) \in Nat
      BY <3>2, LenProperties DEF StreamOK
    <3>4. QED
      BY <1>3, <3>2, <3>3 DEF Enqueue, StreamOK, Pending
  <2>6. QED
    BY <1>3, <2>4, <2>5 DEF Enqueue, StoreOK, DlqOK, WorkerOK, BatchOK, HistoryOK, storeVars,
       workerVars, adminVars, bounds, Batch
<1>4. ASSUME NEW c \in Calls, ApiDie(c)
      PROVE  TypeOK'
  <2>1. ApiOK'
    BY <1>4 DEF ApiDie, ApiOK, CallPcs
  <2>2. QED
    BY <1>4, <2>1 DEF ApiDie, StoreOK, StreamOK, DlqOK, WorkerOK, BatchOK, HistoryOK,
       storeVars, streamVars, workerVars, adminVars, bounds, Pending, Batch
<1>5. ASSUME Expiry
      PROVE  TypeOK'
  <2>1. StoreOK'
    BY <1>5 DEF Expiry, ExpireKey, ExpireHash, StoreOK, Statuses
  <2>2. UNCHANGED <<apiVars, streamVars, dlq, workerVars, adminVars, sends, bounds>>
    BY <1>5 DEF Expiry, ExpireKey, ExpireHash
  <2>3. ApiOK' /\ StreamOK' /\ DlqOK'
    BY <2>2 DEF ApiOK, StreamOK, DlqOK, apiVars, streamVars, adminVars, Pending
  <2>4. WorkerOK' /\ HistoryOK'
    BY <2>2 DEF WorkerOK, BatchOK, HistoryOK, streamVars, workerVars, adminVars, bounds, Batch
  <2>5. QED
    BY <2>1, <2>3, <2>4
<1>6. QED
  BY <1>1, <1>2, <1>3, <1>4, <1>5 DEF ApiStep

(* A worker whose batch, stream and position a step leaves alone.          *)
LEMMA BatchKept ==
  ASSUME TypeOK, NEW v \in Workers, UNCHANGED <<task[v], src[v], pc[v]>>,
         lastRead' \in [Streams -> Nat], lastRead[src[v]] <= lastRead'[src[v]]
  PROVE  BatchOK(v)'
BY DEF TypeOK, StreamOK, WorkerOK, BatchOK, Batch

LEMMA BatchUntouched ==
  ASSUME TypeOK, NEW v \in Workers, UNCHANGED <<task[v], src[v], pc[v], lastRead>>
  PROVE  BatchOK(v)'
BY DEF TypeOK, WorkerOK, BatchOK, Batch

LEMMA EmptyBatchOK ==
  ASSUME NEW w \in Workers, task'[w] = NoBatch
  PROVE  BatchOK(w)'
BY DEF BatchOK, Batch, NoBatch

(* A fresh batch starts without an attempt.                                *)
LEMMA ClaimedBatchOK ==
  ASSUME NEW w \in Workers, NEW page, task'[w] = Claimed(page), pc'[w] = "fetch",
         page \subseteq 1 .. lastRead'[src'[w]]
  PROVE  BatchOK(w)'
BY SizesAssumption DEF BatchOK, Batch, Claimed, Task, Stages

LEMMA NextPageTypes ==
  ASSUME TypeOK, NEW w \in Workers, NEW next \in Nat, NextPage(w, next)
  PROVE  /\ pc' \in [Workers -> Pcs] /\ start' \in [Workers -> Nat]
         /\ src' \in [Workers -> Streams] /\ sweeping' \in [Workers -> BOOLEAN]
         /\ \A v \in Workers \ {w} : UNCHANGED <<src[v], pc[v]>>
<1> USE DEF TypeOK, WorkerOK, NextPage, Pcs, Streams
<1>1. CASE next # 0
  BY <1>1
<1>2. CASE next = 0 /\ src[w] = "critical"
  BY <1>2
<1>3. CASE next = 0 /\ src[w] # "critical"
  BY <1>3
<1>4. QED
  BY <1>1, <1>2, <1>3

LEMMA LoopTypes ==
  ASSUME TypeOK, NEW w \in Workers, StartSweep(w) \/ Loop(w) \/ Crash(w) \/ Restart(w)
  PROVE  TypeOK'
<1> USE DEF TypeOK
<1>1. CASE StartSweep(w)
  <2>1. WorkerOK'
    BY <1>1 DEF StartSweep, WorkerOK, BatchOK, StreamOK, Pcs, Streams, Batch, streamVars
  <2>2. QED
    BY <1>1, <2>1 DEF StartSweep, ApiOK, StoreOK, StreamOK, DlqOK, HistoryOK,
       apiVars, storeVars, streamVars, adminVars, bounds, Pending
<1>2. CASE Claim(w)
  <2> DEFINE s == src[w]
             page == FirstN(Claimable(w), BatchSize)
  <2>1. s \in Streams
    BY DEF WorkerOK
  <2>2. page \subseteq idle[s] /\ page \subseteq 1 .. lastRead[s]
    BY <2>1 DEF FirstN, Claimable, StreamOK, Pending
  <2>3. ApiOK' /\ StoreOK' /\ DlqOK' /\ HistoryOK'
    BY <1>2 DEF Claim, ApiOK, StoreOK, DlqOK, HistoryOK, apiVars, storeVars, adminVars,
       bounds
  <2>4. UNCHANGED <<log, lastRead, abandoned>>
    BY <1>2 DEF Claim
  <2>5. CASE /\ pel' = [pel EXCEPT ![s] = [v \in Workers |-> IF v = w
                                                            THEN pel[s][v] \cup page
                                                            ELSE pel[s][v] \ page]]
             /\ idle' = [idle EXCEPT ![s] = @ \ page]
             /\ task' = [task EXCEPT ![w] = Claimed(page)]
             /\ start' = [start EXCEPT ![w] = Cursor(s, page)]
             /\ pc' = [pc EXCEPT ![w] = "fetch"]
             /\ UNCHANGED <<src, sweeping>>
    <3> HIDE DEF s, page
    <3>1. /\ pel' \in [Streams -> [Workers -> SUBSET Nat]]
          /\ idle' \in [Streams -> SUBSET Nat]
      BY <2>1, <2>2, <2>5 DEF StreamOK
    <3>2. \A t \in Streams, v \in Workers : pel'[t][v] \subseteq 1 .. lastRead[t]
      BY <2>1, <2>2, <2>5 DEF StreamOK
    <3>3. ASSUME NEW t \in Streams, NEW j \in idle'[t]
          PROVE  \E v \in Workers : j \in pel'[t][v]
      <4>1. j \in idle[t] /\ (t = s => j \notin page)
        BY <2>1, <2>5, <3>3 DEF StreamOK
      <4>2. PICK v \in Workers : j \in pel[t][v]
        BY <4>1 DEF StreamOK, Pending
      <4>3. j \in pel'[t][v]
        BY <2>1, <2>5, <4>1, <4>2 DEF StreamOK
      <4>4. QED
        BY <4>3
    <3>4. StreamOK'
      BY <2>4, <3>1, <3>2, <3>3 DEF StreamOK, Pending
    <3>5. BatchOK(w)'
      BY <2>2, <2>4, <2>5, ClaimedBatchOK DEF WorkerOK, s
    <3>6. ASSUME NEW v \in Workers, v # w PROVE BatchOK(v)'
      BY <2>4, <2>5, <3>6, BatchUntouched DEF WorkerOK
    <3>7. Cursor(s, page) \in Nat
      BY <2>1, CursorType
    <3>8. WorkerOK'
      BY <2>4, <2>5, <3>5, <3>6, <3>7 DEF WorkerOK, Pcs
    <3>9. QED
      BY <2>3, <3>4, <3>8
  <2>6. CASE NextPage(w, 0) /\ UNCHANGED <<pel, idle, task>>
    <3>1. \A v \in Workers : BatchOK(v)'
      BY <1>2, <2>4, <2>6 DEF Claim, NextPage, WorkerOK, BatchOK, Batch
    <3>2. WorkerOK'
      BY <2>4, <2>6, <3>1, NextPageTypes DEF WorkerOK
    <3>3. StreamOK'
      BY <2>4, <2>6 DEF StreamOK, Pending
    <3>4. QED
      BY <2>3, <3>2, <3>3
  <2>7. QED
    BY <1>2, <2>5, <2>6 DEF Claim
<1>3. ASSUME NEW s \in Streams, Take(w, s), UNCHANGED <<sweeping, start, abandoned>>
      PROVE  StreamOK' /\ WorkerOK'
  <2>1. Len(log[s]) \in Nat /\ lastRead[s] \in Nat
    BY LenProperties DEF StreamOK
  <2>2. StreamOK'
    BY <1>3, <2>1, SizesAssumption DEF Take, StreamOK, Pending
  <2>3. WorkerOK'
    <3>1. BatchOK(w)'
      <4> DEFINE last == IF lastRead[s] + BatchSize < Len(log[s])
                         THEN lastRead[s] + BatchSize ELSE Len(log[s])
                 page == lastRead[s] + 1 .. last
      <4>1. /\ task' = [task EXCEPT ![w] = Claimed(page)]
            /\ page \subseteq 1 .. lastRead'[s]
        BY <1>3, <2>1, SizesAssumption DEF Take, StreamOK
      <4>2. src'[w] = s /\ pc'[w] = "fetch" /\ task'[w] = Claimed(page)
        BY <1>3, <4>1 DEF Take, WorkerOK
      <4>3. QED
        BY <4>1, <4>2, ClaimedBatchOK
    <3>2. ASSUME NEW v \in Workers, v # w PROVE BatchOK(v)'
      <4>1. lastRead' \in [Streams -> Nat] /\ \A t \in Streams : lastRead[t] <= lastRead'[t]
        BY <1>3, <2>1, SizesAssumption DEF Take, StreamOK
      <4>2. UNCHANGED <<task[v], src[v], pc[v]>> /\ src[v] \in Streams
        BY <1>3, <3>2 DEF Take, WorkerOK
      <4>3. QED
        BY <4>1, <4>2, BatchKept
    <3>3. QED
      BY <1>3, <3>1, <3>2 DEF Take, WorkerOK, Pcs
  <2>4. QED
    BY <2>2, <2>3
<1>4. ASSUME NEW s \in Streams, NEW next \in {"normal", "top"}, pc[w] \notin {"fetch", "deliver"},
             NothingNew(w, s, next), UNCHANGED <<sweeping, start, abandoned>>
      PROVE  StreamOK' /\ WorkerOK'
  <2>1. \A v \in Workers : BatchOK(v)'
    BY <1>4 DEF NothingNew, WorkerOK, BatchOK, Batch, streamVars
  <2>2. WorkerOK'
    BY <1>4, <2>1 DEF NothingNew, WorkerOK, Pcs
  <2>3. QED
    BY <1>4, <2>2 DEF NothingNew, StreamOK, Pending, streamVars
<1>5. CASE ReadCritical(w) \/ ReadNormal(w)
  <2>1. StreamOK' /\ WorkerOK'
    BY <1>3, <1>4, <1>5 DEF ReadCritical, ReadNormal, Streams
  <2>2. QED
    BY <1>5, <2>1 DEF ReadCritical, ReadNormal, ApiOK, StoreOK, DlqOK, HistoryOK,
       apiVars, storeVars, adminVars, bounds
<1>6. CASE Fetch(w)
  <2>1. WorkerOK'
    <3>1. BatchOK(w)'
      BY <1>6, SizesAssumption
      DEF Fetch, WorkerOK, BatchOK, Batch, Pcs, Stages, Task, streamVars
    <3>2. ASSUME NEW v \in Workers, v # w PROVE BatchOK(v)'
      BY <1>6, <3>2, BatchUntouched DEF Fetch, WorkerOK, streamVars
    <3>3. QED
      BY <1>6, <3>1, <3>2 DEF Fetch, WorkerOK, Pcs
  <2>2. QED
    BY <1>6, <2>1 DEF Fetch, ApiOK, StoreOK, StreamOK, DlqOK, HistoryOK,
       apiVars, storeVars, streamVars, adminVars, bounds, Pending
<1>7. CASE Ack(w)
  <2>1. src[w] \in Streams
    BY DEF WorkerOK
  <2>2. StreamOK'
    BY <1>7, <2>1 DEF Ack, StreamOK, Pending
  <2>3. WorkerOK'
    <3>1. \A v \in Workers : BatchOK(v)'
      <4>1. ASSUME NEW v \in Workers, v # w PROVE BatchOK(v)'
        BY <1>7, <4>1, BatchUntouched DEF Ack, NextPage, WorkerOK
      <4>2. BatchOK(w)'
        BY <1>7, EmptyBatchOK DEF Ack, WorkerOK
      <4>3. QED
        BY <4>1, <4>2
    <3>2. CASE sweeping[w] /\ NextPage(w, start[w])
      BY <1>7, <3>1, <3>2, NextPageTypes DEF Ack, WorkerOK
    <3>3. CASE ~sweeping[w]
      BY <1>7, <3>1, <3>3 DEF Ack, WorkerOK, Pcs
    <3>4. QED
      BY <1>7, <3>2, <3>3 DEF Ack
  <2>4. QED
    BY <1>7, <2>2, <2>3 DEF Ack, ApiOK, StoreOK, DlqOK, HistoryOK,
       apiVars, storeVars, adminVars, bounds
<1>8. CASE BatchError(w) \/ Crash(w) \/ Restart(w)
  <2>1. WorkerOK'
    <3>1. ASSUME NEW v \in Workers PROVE BatchOK(v)'
      <4>1. UNCHANGED <<lastRead, src>>
        BY <1>8 DEF BatchError, Crash, Restart, streamVars
      <4>2. CASE v = w /\ ~Restart(w)
        BY <1>8, <4>2, EmptyBatchOK DEF BatchError, Crash, WorkerOK
      <4>3. CASE v # w
        BY <1>8, <4>1, <4>3, BatchUntouched DEF BatchError, Crash, Restart, WorkerOK
      <4>4. CASE v = w /\ Restart(w)
        BY <4>1, <4>4 DEF Restart, WorkerOK, BatchOK, Batch
      <4>5. QED
        BY <4>2, <4>3, <4>4
    <3>2. QED
      <4>1. CASE BatchError(w)
        BY <3>1, <4>1 DEF BatchError, WorkerOK, Pcs
      <4>2. CASE Crash(w)
        BY <3>1, <4>2 DEF Crash, WorkerOK, Pcs
      <4>3. CASE Restart(w)
        BY <3>1, <4>3 DEF Restart, WorkerOK, Pcs
      <4>4. QED
        BY <1>8, <4>1, <4>2, <4>3
  <2>2. QED
    BY <1>8, <2>1 DEF BatchError, Crash, Restart, ApiOK, StoreOK, StreamOK, DlqOK,
       HistoryOK, apiVars, storeVars, streamVars, adminVars, bounds, Pending
<1>9. QED
  BY <1>1, <1>2, <1>5, <1>6, <1>7, <1>8 DEF Loop

LEMMA DeliverTypes ==
  ASSUME TypeOK, NEW w \in Workers, Deliver(w)
  PROVE  TypeOK'
<1> USE DEF TypeOK
<1>1. ASSUME NEW i \in Batch(w)
      PROVE  NidOf(w, i) \in Nids
  <2>1. src[w] \in Streams /\ i \in 1 .. Len(log[src[w]])
    BY <1>1, LenProperties DEF WorkerOK, BatchOK, StreamOK
  <2>2. QED
    BY <2>1, ElementOfSeq DEF NidOf, StreamOK
<1>2. ASSUME NEW i \in Batch(w), SendOk(w, i) \/ SendFails(w, i)
      PROVE  TypeOK'
  <2>1. task[w][i] \in Task /\ task[w][i].attempt + 1 \in 0 .. MaxRetries
    BY <1>2, SizesAssumption DEF SendOk, SendFails, AtStage, WorkerOK, BatchOK, Task
  <2>2. WorkerOK'
    <3>1. PICK st \in Stages :
            /\ AttemptEnds(w, i, st)
            /\ st = "try" => task[w][i].attempt + 1 < MaxRetries
            /\ st # "claimed"
      BY <1>2 DEF SendOk, SendFails, AfterFailure, Stages
    <3>2. BatchOK(w)'
      BY <1>2, <2>1, <3>1 DEF SendOk, SendFails, AtStage, AttemptEnds, WorkerOK, BatchOK,
         Batch, Task, streamVars
    <3>3. ASSUME NEW v \in Workers, v # w PROVE BatchOK(v)'
      BY <1>2, <3>3, BatchUntouched DEF SendOk, SendFails, AttemptEnds, WorkerOK,
         streamVars
    <3>4. QED
      BY <1>1, <1>2, <3>2, <3>3 DEF SendOk, SendFails, AttemptEnds, WorkerOK
  <2>3. HistoryOK'
    BY <1>1, <1>2, SizesAssumption DEF SendOk, SendFails, Sent, HistoryOK, adminVars, bounds
  <2>4. QED
    BY <1>2, <2>2, <2>3 DEF SendOk, SendFails, ApiOK, StoreOK, StreamOK, DlqOK,
       apiVars, storeVars, streamVars, adminVars, Pending
<1>3. ASSUME NEW i \in Batch(w), SaveOutcome(w, i) \/ EnqueueDlq(w, i) \/ TaskError(w, i)
      PROVE  TypeOK'
  <2>1. WorkerOK'
    <3>1. PICK st \in {"dlq", "done"} : GoTo(w, i, st)
      BY <1>3 DEF SaveOutcome, EnqueueDlq, TaskError
    <3>2. UNCHANGED <<pc, src, sweeping, start, abandoned, lastRead>> /\ pc[w] = "deliver"
      BY <1>3 DEF SaveOutcome, EnqueueDlq, TaskError, AtStage, streamVars
    <3>3. BatchOK(w)'
      BY <1>3, <3>1, <3>2 DEF GoTo, WorkerOK, BatchOK, Batch, Task, Stages
    <3>4. ASSUME NEW v \in Workers, v # w PROVE BatchOK(v)'
      BY <3>1, <3>2, <3>4, BatchUntouched DEF GoTo, WorkerOK
    <3>5. QED
      BY <3>1, <3>2, <3>3, <3>4 DEF GoTo, WorkerOK
  <2>2. StoreOK'
    BY <1>1, <1>3 DEF SaveOutcome, SaveStatus, EnqueueDlq, TaskError, StoreOK, Statuses,
       storeVars
  <2>3. DlqOK'
    BY <1>1, <1>3, AppendProperties DEF SaveOutcome, EnqueueDlq, TaskError, DlqOK, adminVars
  <2>4. QED
    BY <1>3, <2>1, <2>2, <2>3 DEF SaveOutcome, EnqueueDlq, TaskError, ApiOK, StreamOK,
       HistoryOK, apiVars, streamVars, adminVars, bounds, Pending
<1>4. ASSUME NEW n \in Nids, LateSend(w, n)
      PROVE  TypeOK'
  <2>1. HistoryOK'
    BY <1>4, SizesAssumption DEF LateSend, Sent, HistoryOK, adminVars, bounds
  <2>2. WorkerOK'
    BY <1>4 DEF LateSend, WorkerOK, BatchOK, StreamOK, Batch, streamVars
  <2>3. QED
    BY <1>4, <2>1, <2>2 DEF LateSend, ApiOK, StoreOK, StreamOK, DlqOK,
       apiVars, storeVars, streamVars, adminVars, Pending
<1>5. QED
  BY <1>2, <1>3, <1>4 DEF Deliver

LEMMA AdminTypes ==
  ASSUME TypeOK, Admin
  PROVE  TypeOK'
<1> USE DEF TypeOK
<1>1. Len(dlq) \in Nat /\ Len(hand) \in Nat
  BY LenProperties DEF DlqOK
<1>2. CASE DlqPop
  <2> DEFINE n == IF DlqCount < Len(dlq) THEN DlqCount ELSE Len(dlq)
  <2>1. n \in 0 .. Len(dlq)
    BY <1>1, SizesAssumption
  <2>2. SubSeq(dlq, 1, n) \in Seq(Nids) /\ SubSeq(dlq, n + 1, Len(dlq)) \in Seq(Nids)
    BY <1>1, <2>1, SubSeqProperties DEF DlqOK
  <2>3. DlqOK'
    BY <1>2, <2>2 DEF DlqPop, DlqOK
  <2>4. QED
    BY <1>2, <2>3 DEF DlqPop, ApiOK, StoreOK, StreamOK, WorkerOK, BatchOK, HistoryOK,
       apiVars, storeVars, streamVars, workerVars, bounds, Pending, Batch
<1>3. CASE DlqRequeue
  <2>1. Head(hand) \in Nids /\ Tail(hand) \in Seq(Nids)
    BY <1>3, HeadTailProperties DEF DlqRequeue, DlqOK
  <2>2. "normal" \in Streams
    BY DEF Streams
  <2>3. /\ log' \in [Streams -> Seq(Nids)]
        /\ \A s \in Streams : Len(log'[s]) >= Len(log[s])
    BY <1>3, <2>1, <2>2, AppendProperties, LenProperties DEF DlqRequeue, StreamOK
  <2>4. \A s \in Streams : Len(log[s]) \in Nat /\ Len(log'[s]) \in Nat
    BY <2>3, LenProperties DEF StreamOK
  <2>5. StreamOK'
    BY <1>3, <2>3, <2>4 DEF DlqRequeue, StreamOK, Pending
  <2>6. QED
    BY <1>3, <2>1, <2>5 DEF DlqRequeue, DlqOK, ApiOK, StoreOK, WorkerOK, BatchOK, HistoryOK,
       apiVars, storeVars, workerVars, bounds, Batch
<1>4. CASE DlqDie
  BY <1>4 DEF DlqDie, DlqOK, ApiOK, StoreOK, StreamOK, WorkerOK, BatchOK, HistoryOK,
     apiVars, storeVars, streamVars, workerVars, bounds, Pending, Batch
<1>5. QED
  BY <1>2, <1>3, <1>4 DEF Admin

(* Initially, and after every step, the state has its type.                *)
LEMMA InitTypes == Init => TypeOK
<1>1. SUFFICES ASSUME Init PROVE TypeOK
  OBVIOUS
<1>2. <<>> \in Seq(Nids) /\ Len(<<>>) = 0
  BY EmptySeq
<1>3. ApiOK /\ StoreOK
  BY <1>1 DEF Init, ApiOK, StoreOK, CallPcs, Statuses
<1>4. StreamOK /\ DlqOK
  BY <1>1, <1>2 DEF Init, StreamOK, DlqOK, Streams
<1>5. WorkerOK
  BY <1>1 DEF Init, WorkerOK, BatchOK, NoBatch, Batch, Pcs, Streams
<1>6. HistoryOK
  BY <1>1, SizesAssumption DEF Init, HistoryOK
<1>7. QED
  BY <1>3, <1>4, <1>5, <1>6 DEF TypeOK

LEMMA AgeTypes ==
  ASSUME TypeOK, NEW s \in Streams, NEW i \in Pending(s), Age(s, i)
  PROVE  TypeOK'
<1>1. StreamOK'
  BY DEF Age, TypeOK, StreamOK, Pending
<1>2. QED
  BY <1>1 DEF Age, TypeOK, ApiOK, StoreOK, DlqOK, WorkerOK, BatchOK, HistoryOK, apiVars,
     storeVars, workerVars, adminVars, Batch

LEMMA StutterTypes == TypeOK /\ UNCHANGED vars => TypeOK'
BY DEF TypeOK, ApiOK, StoreOK, StreamOK, DlqOK, WorkerOK, BatchOK, HistoryOK, vars, apiVars,
   storeVars, streamVars, workerVars, adminVars, bounds, Pending, Batch

LEMMA NextTypes == TypeOK /\ [Next]_vars => TypeOK'
<1>1. SUFFICES ASSUME TypeOK, Next PROVE TypeOK'
  BY StutterTypes
<1>2. CASE ApiStep \/ Expiry
  BY <1>1, <1>2, ApiTypes
<1>3. ASSUME NEW w \in Workers, StartSweep(w) \/ Loop(w) \/ Crash(w) \/ Restart(w)
      PROVE  TypeOK'
  BY <1>1, <1>3, LoopTypes
<1>4. ASSUME NEW w \in Workers, Deliver(w)
      PROVE  TypeOK'
  BY <1>1, <1>4, DeliverTypes
<1>5. ASSUME NEW s \in Streams, NEW i \in Pending(s), Age(s, i)
      PROVE  TypeOK'
  BY <1>1, <1>5, AgeTypes
<1>6. CASE Admin
  BY <1>1, <1>6, AdminTypes
<1>7. QED
  BY <1>1, <1>2, <1>3, <1>4, <1>5, <1>6 DEF Next

(* In every behaviour the state has its type: in particular pending        *)
(* entries and batches name delivered messages, and no delivery thread     *)
(* runs more than MAX_RETRIES attempts (the loop of delivery.deliver).     *)
THEOREM TypeCorrect == Spec => []TypeOK
<1>1. Init => TypeOK
  BY InitTypes
<1>2. TypeOK /\ [Next]_vars => TypeOK'
  BY NextTypes
<1>3. QED
  BY <1>1, <1>2, PTL DEF Spec

-----------------------------------------------------------------------------
(* OneProcessor: a worker's batch is its own part of the pending entries.  *)

Disjoint ==
  \A s \in Streams : \A v, w \in Workers : v # w => pel[s][v] \cap pel[s][w] = {}

Owned(w) == Batch(w) \subseteq pel[src[w]][w] \ idle[src[w]]

Ownership == Disjoint /\ \A w \in Workers : Owned(w)

(* The steps that leave the batches and the pending entries alone.         *)
LEMMA OwnershipKept ==
  ASSUME Ownership, TypeOK, UNCHANGED <<pel, idle>>,
         \A w \in Workers : Batch(w)' = {} \/ (Batch(w)' = Batch(w) /\ src'[w] = src[w])
  PROVE  Ownership'
BY DEF Ownership, Disjoint, Owned

LEMMA LoopOwnership ==
  ASSUME Ownership, TypeOK, NEW w \in Workers,
         StartSweep(w) \/ Loop(w) \/ Crash(w) \/ Restart(w)
  PROVE  Ownership'
<1> USE DEF TypeOK
<1>1. CASE StartSweep(w) \/ Restart(w)
  <2>1. UNCHANGED <<pel, idle, task>> /\ Batch(w) = {}
    BY <1>1 DEF StartSweep, Restart, WorkerOK, BatchOK, streamVars
  <2>2. \A v \in Workers : v # w => src'[v] = src[v]
    BY <1>1 DEF StartSweep, Restart, WorkerOK
  <2>3. QED
    BY <2>1, <2>2, OwnershipKept DEF Batch
<1>2. CASE BatchError(w) \/ Crash(w)
  <2>1. UNCHANGED <<pel, idle, src>> /\ task' = [task EXCEPT ![w] = NoBatch]
    BY <1>2 DEF BatchError, Crash, streamVars
  <2>2. QED
    BY <2>1, OwnershipKept DEF Batch, NoBatch, WorkerOK
<1>3. CASE Fetch(w)
  BY <1>3, OwnershipKept DEF Fetch, Batch, WorkerOK, streamVars
<1>4. CASE Claim(w)
  <2> DEFINE s == src[w]
             page == FirstN(Claimable(w), BatchSize)
  <2>1. s \in Streams /\ page \subseteq idle[s]
    BY DEF WorkerOK, FirstN, Claimable
  <2>2. Batch(w) = {}
    BY <1>4 DEF Claim, WorkerOK, BatchOK
  <2>3. CASE /\ pel' = [pel EXCEPT ![s] = [v \in Workers |-> IF v = w
                                                            THEN pel[s][v] \cup page
                                                            ELSE pel[s][v] \ page]]
             /\ idle' = [idle EXCEPT ![s] = @ \ page]
             /\ task' = [task EXCEPT ![w] = Claimed(page)]
             /\ UNCHANGED src
    <3> HIDE DEF page
    <3>1. Disjoint'
      BY <2>1, <2>3 DEF Ownership, Disjoint, StreamOK
    <3>2. Owned(w)'
      BY <2>1, <2>3 DEF Owned, Batch, Claimed, StreamOK, WorkerOK
    <3>3. ASSUME NEW v \in Workers, v # w PROVE Owned(v)'
      <4>1. Batch(v)' = Batch(v) /\ src'[v] = src[v] /\ src[v] \in Streams
        BY <2>3, <3>3 DEF Batch, WorkerOK
      <4>2. pel[src[v]][v] \ idle[src[v]] \subseteq pel'[src[v]][v] \ idle'[src[v]]
        BY <2>1, <2>3, <3>3, <4>1 DEF StreamOK
      <4>3. QED
        BY <4>1, <4>2 DEF Ownership, Owned
    <3>4. QED
      BY <3>1, <3>2, <3>3 DEF Ownership
  <2>4. CASE NextPage(w, 0) /\ UNCHANGED <<pel, idle, task>>
    <3>1. \A v \in Workers \ {w} : src'[v] = src[v]
      BY <2>4, NextPageTypes
    <3>2. QED
      BY <2>2, <2>4, <3>1, OwnershipKept DEF Batch
  <2>5. QED
    BY <1>4, <2>3, <2>4 DEF Claim
<1>5. ASSUME NEW s \in Streams, Take(w, s)
      PROVE  Ownership'
  <2> DEFINE last == IF lastRead[s] + BatchSize < Len(log[s])
                     THEN lastRead[s] + BatchSize ELSE Len(log[s])
             page == lastRead[s] + 1 .. last
  <2>1. /\ pel' = [pel EXCEPT ![s][w] = @ \cup page]
        /\ task' = [task EXCEPT ![w] = Claimed(page)]
        /\ src' = [src EXCEPT ![w] = s]
        /\ UNCHANGED idle
    BY <1>5 DEF Take
  <2>2. \A v \in Workers : pel[s][v] \cap page = {}
    BY DEF StreamOK
  <2>3. idle[s] \cap page = {}
    BY DEF StreamOK, Pending
  <2> HIDE DEF page
  <2>4. Disjoint'
    BY <2>1, <2>2 DEF Ownership, Disjoint, StreamOK
  <2>5. Owned(w)'
    BY <2>1, <2>3 DEF Owned, Batch, Claimed, StreamOK, WorkerOK
  <2>6. ASSUME NEW v \in Workers, v # w PROVE Owned(v)'
    BY <2>1, <2>6 DEF Ownership, Owned, Batch, StreamOK, WorkerOK
  <2>7. QED
    BY <2>4, <2>5, <2>6 DEF Ownership
<1>6. CASE ReadCritical(w) \/ ReadNormal(w)
  <2>1. CASE \E s \in Streams : Take(w, s)
    BY <1>5, <2>1
  <2>2. CASE \E s \in Streams, next \in Pcs : NothingNew(w, s, next)
    BY <2>2, OwnershipKept DEF NothingNew, Batch, streamVars
  <2>3. QED
    BY <1>6, <2>1, <2>2 DEF ReadCritical, ReadNormal, Streams, Pcs
<1>7. CASE Ack(w)
  <2> DEFINE s == src[w]
  <2>1. s \in Streams
    BY DEF WorkerOK
  <2>2. /\ pel' = [pel EXCEPT ![s] = [v \in Workers |-> pel[s][v] \ Batch(w)]]
        /\ idle' = [idle EXCEPT ![s] = @ \ Batch(w)]
        /\ task' = [task EXCEPT ![w] = NoBatch]
    BY <1>7 DEF Ack
  <2>3. \A v \in Workers \ {w} : src'[v] = src[v]
    BY <1>7, NextPageTypes DEF Ack, WorkerOK
  <2>4. Disjoint'
    BY <2>1, <2>2 DEF Ownership, Disjoint, StreamOK
  <2>5. Owned(w)'
    BY <2>2 DEF Owned, Batch, NoBatch, WorkerOK
  <2>6. ASSUME NEW v \in Workers, v # w PROVE Owned(v)'
    <3>1. Batch(v)' = Batch(v) /\ src'[v] = src[v] /\ src[v] \in Streams
      BY <2>2, <2>3, <2>6 DEF Batch, WorkerOK
    <3>2. src[v] = s => Batch(v) \cap Batch(w) = {}
      BY <2>1, <2>6 DEF Ownership, Disjoint, Owned
    <3>3. QED
      BY <2>1, <2>2, <3>1, <3>2 DEF Ownership, Owned, StreamOK
  <2>7. QED
    BY <2>4, <2>5, <2>6 DEF Ownership
<1>8. QED
  BY <1>1, <1>2, <1>3, <1>4, <1>6, <1>7 DEF Loop

LEMMA DeliverOwnership ==
  ASSUME Ownership, TypeOK, NEW w \in Workers, Deliver(w)
  PROVE  Ownership'
<1>1. UNCHANGED <<pel, idle, src>>
  BY DEF Deliver, SendOk, SendFails, SaveOutcome, EnqueueDlq, TaskError, LateSend, streamVars
<1>2. \/ UNCHANGED task
      \/ \E i \in Batch(w) : \E t : task' = [task EXCEPT ![w][i] = t]
  BY DEF Deliver, SendOk, SendFails, SaveOutcome, EnqueueDlq, TaskError, LateSend, GoTo,
     AttemptEnds
<1>3. \A v \in Workers : Batch(v)' = Batch(v)
  BY <1>2 DEF Batch, TypeOK, WorkerOK
<1>4. QED
  BY <1>1, <1>3, OwnershipKept

LEMMA NextOwnership ==
  ASSUME Timely
  PROVE  TypeOK /\ Ownership /\ [Next]_vars => Ownership'
<1>1. SUFFICES ASSUME TypeOK, Ownership, [Next]_vars PROVE Ownership'
  OBVIOUS
<1>2. CASE ApiStep \/ Expiry \/ Admin \/ UNCHANGED vars
  <2>1. UNCHANGED <<pel, idle, src, task>>
    BY <1>2 DEF ApiStep, Check, Save, Enqueue, ApiDie, Expiry, ExpireKey, ExpireHash, Admin,
       DlqPop, DlqRequeue, DlqDie, vars, streamVars, workerVars
  <2>2. QED
    BY <1>1, <2>1, OwnershipKept DEF Batch
<1>3. ASSUME NEW w \in Workers, StartSweep(w) \/ Loop(w) \/ Crash(w) \/ Restart(w)
      PROVE  Ownership'
  BY <1>1, <1>3, LoopOwnership
<1>4. ASSUME NEW w \in Workers, Deliver(w)
      PROVE  Ownership'
  BY <1>1, <1>4, DeliverOwnership
<1>5. ASSUME NEW s \in Streams, NEW i \in Pending(s), Age(s, i)
      PROVE  Ownership'
  <2>1. UNCHANGED <<pel, src, task>> /\ idle' = [idle EXCEPT ![s] = @ \cup {i}]
    BY <1>5 DEF Age, workerVars
  <2>2. \A w \in Workers : src[w] = s => i \notin Batch(w)
    BY <1>5 DEF Age, Timely
  <2>3. QED
    BY <1>1, <2>1, <2>2 DEF Ownership, Disjoint, Owned, Batch, TypeOK, StreamOK, WorkerOK
<1>6. QED
  BY <1>1, <1>2, <1>3, <1>4, <1>5 DEF Next

(* While no delivery outlives PEL_CLAIM_TIMEOUT_MS, no message is in the   *)
(* hands of two workers, whatever crashes, failed commands, expiries and   *)
(* dead-letter retries do (XREADGROUP and XAUTOCLAIM in worker.py).        *)
THEOREM NoTwoProcessors == ASSUME Timely PROVE Spec => []OneProcessor
<1>1. Init => Ownership
  BY DEF Init, Ownership, Disjoint, Owned, Batch, NoBatch
<1>2. TypeOK /\ Ownership /\ [Next]_vars => Ownership'
  BY NextOwnership
<1>3. TypeOK /\ Ownership => OneProcessor
  BY DEF TypeOK, WorkerOK, Ownership, Disjoint, Owned, OneProcessor
<1>4. QED
  BY <1>1, <1>2, <1>3, TypeCorrect, PTL DEF Spec

-----------------------------------------------------------------------------
(* What one step does to sequences of ids.                                 *)

LEMMA ElementsOfAppend ==
  ASSUME NEW S, NEW q \in Seq(S), NEW e \in S
  PROVE  Elements(Append(q, e)) = Elements(q) \cup {e}
<1>1. /\ Len(q) \in Nat /\ DOMAIN q = 1 .. Len(q)
      /\ Append(q, e) \in Seq(S) /\ Len(Append(q, e)) = Len(q) + 1
      /\ \A i \in 1 .. Len(q) : Append(q, e)[i] = q[i]
      /\ Append(q, e)[Len(q) + 1] = e
  BY AppendProperties, LenProperties
<1>2. DOMAIN Append(q, e) = 1 .. Len(q) + 1
  BY <1>1, LenProperties
<1>3. QED
  BY <1>1, <1>2 DEF Elements

LEMMA ElementsOfTail ==
  ASSUME NEW S, NEW q \in Seq(S), q # <<>>
  PROVE  Elements(q) = Elements(Tail(q)) \cup {Head(q)}
<1>1. /\ Len(q) \in Nat \ {0} /\ DOMAIN q = 1 .. Len(q)
      /\ Tail(q) \in Seq(S) /\ Len(Tail(q)) = Len(q) - 1
      /\ \A i \in 1 .. Len(Tail(q)) : Tail(q)[i] = q[i + 1]
  BY HeadTailProperties, LenProperties, EmptySeq
<1>2. DOMAIN Tail(q) = 1 .. Len(q) - 1 /\ Head(q) = q[1]
  BY <1>1, LenProperties
<1>3. ASSUME NEW j \in 1 .. Len(q), j # 1
      PROVE  q[j] \in Elements(Tail(q))
  <2>1. j - 1 \in DOMAIN Tail(q) /\ Tail(q)[j - 1] = q[j]
    BY <1>1, <1>2, <1>3
  <2>2. QED
    BY <2>1 DEF Elements
<1>4. QED
  BY <1>1, <1>2, <1>3 DEF Elements

LEMMA ElementsOfSplit ==
  ASSUME NEW S, NEW q \in Seq(S), NEW n \in 0 .. Len(q)
  PROVE  Elements(q) = Elements(SubSeq(q, 1, n)) \cup Elements(SubSeq(q, n + 1, Len(q)))
<1> DEFINE a == SubSeq(q, 1, n)
           b == SubSeq(q, n + 1, Len(q))
<1>1. /\ Len(q) \in Nat /\ n \in Nat /\ n <= Len(q)
      /\ DOMAIN q = 1 .. Len(q) /\ \A i \in 1 .. Len(q) : q[i] \in S
  BY LenProperties, ElementOfSeq
<1>2. a \in Seq(S) /\ Len(a) = n /\ \A i \in 1 .. n : a[i] = q[i]
  BY <1>1, SubSeqProperties
<1>3. b \in Seq(S) /\ Len(b) = Len(q) - n /\ \A i \in 1 .. Len(q) - n : b[i] = q[n + i]
  <2>1. \A i \in n + 1 .. Len(q) : q[i] \in S
    BY <1>1
  <2>2. /\ b \in Seq(S) /\ Len(b) = IF n + 1 <= Len(q) THEN Len(q) - (n + 1) + 1 ELSE 0
        /\ \A i \in 1 .. Len(q) - (n + 1) + 1 : b[i] = q[(n + 1) + i - 1]
    BY <1>1, <2>1, SubSeqProperties
  <2>3. /\ Len(q) - (n + 1) + 1 = Len(q) - n
        /\ n + 1 <= Len(q) \/ Len(q) - n = 0
        /\ \A i \in 1 .. Len(q) - n : (n + 1) + i - 1 = n + i
    <3>1. \A l \in Nat : \A m \in 0 .. l :
            /\ l - (m + 1) + 1 = l - m
            /\ m + 1 <= l \/ l - m = 0
            /\ \A i \in 1 .. l - m : (m + 1) + i - 1 = m + i
      OBVIOUS
    <3>2. QED
      BY <1>1, <3>1
  <2> HIDE DEF b
  <2>4. Len(b) = Len(q) - n
    BY <1>1, <2>2, <2>3
  <2>5. QED
    BY <2>2, <2>3, <2>4
<1>4. DOMAIN a = 1 .. n /\ DOMAIN b = 1 .. Len(q) - n
  BY <1>2, <1>3, LenProperties
<1> HIDE DEF a, b
<1>5. ASSUME NEW j \in 1 .. Len(q), j > n
      PROVE  q[j] \in Elements(b)
  <2>1. j - n \in DOMAIN b /\ b[j - n] = q[j]
    <3>1. j - n \in 1 .. Len(q) - n /\ n + (j - n) = j
      BY <1>1, <1>5
    <3>2. QED
      BY <1>3, <1>4, <3>1
  <2>2. QED
    BY <2>1 DEF Elements
<1>6. Elements(q) \subseteq Elements(a) \cup Elements(b)
  BY <1>1, <1>2, <1>4, <1>5 DEF Elements
<1>7. Elements(a) \cup Elements(b) \subseteq Elements(q)
  <2>1. \A i \in 1 .. n : i \in DOMAIN q /\ a[i] = q[i]
    BY <1>1, <1>2
  <2>2. \A i \in 1 .. Len(q) - n : n + i \in DOMAIN q /\ b[i] = q[n + i]
    BY <1>1, <1>3
  <2>3. QED
    BY <1>4, <2>1, <2>2 DEF Elements
<1>8. QED
  BY <1>6, <1>7 DEF a, b

-----------------------------------------------------------------------------
(* NothingLost.  An id leaves the pending entries only when a worker that  *)
(* is done with it acknowledges its batch; "done" must therefore mean that *)
(* the id was sent, or is dead-lettered, or was put back into the stream   *)
(* of normal messages behind everything in this worker's batch - behind,   *)
(* because another worker may acknowledge that later entry first, and its  *)
(* own reason for being done must not be an entry of this batch.           *)

Settled(w, n) ==
  \/ sends[n] > 0
  \/ DeadLettered(n)
  \/ \E j \in Live("normal") :
       /\ log["normal"][j] = n
       /\ src[w] = "normal" => \A b \in Batch(w) : b < j

Stored ==
  /\ \A n \in Nids : Enqueued(n) \/ DeadLettered(n) => status[n] # "gone"
  /\ \A c \in Calls : callPc[c] = "saved" => \A n \in Created(c) : status[n] # "gone"

StageTrue(w, i) ==
  /\ task[w][i].stage = "sent" => sends[NidOf(w, i)] > 0
  /\ task[w][i].stage = "done" => Settled(w, NidOf(w, i))

StagesTrue == \A w \in Workers : \A i \in Batch(w) : StageTrue(w, i)

LEMMA LogEntry ==
  ASSUME TypeOK, NEW s \in Streams, NEW i \in DOMAIN log[s]
  PROVE  i \in Nat \ {0} /\ i <= Len(log[s]) /\ log[s][i] \in Nids
BY LenProperties, ElementOfSeq DEF TypeOK, StreamOK

LEMMA BatchEntry ==
  ASSUME TypeOK, NEW w \in Workers, NEW i \in Batch(w)
  PROVE  src[w] \in Streams /\ i \in DOMAIN log[src[w]] /\ NidOf(w, i) \in Nids
<1>1. src[w] \in Streams /\ i \in DOMAIN log[src[w]]
  BY LenProperties DEF TypeOK, StreamOK, WorkerOK, BatchOK
<1>2. QED
  BY <1>1, LogEntry DEF NidOf

(* A step leaves the streams alone, or appends entries that a call submits *)
(* or the retry of the dead-letter queue holds; they are unread.           *)
LEMMA StreamsGrow ==
  ASSUME TypeOK, [Next]_vars, NEW s \in Streams
  PROVE  /\ \A i \in DOMAIN log[s] : i \in DOMAIN log'[s] /\ log'[s][i] = log[s][i]
         /\ \A i \in DOMAIN log'[s] \ DOMAIN log[s] :
              /\ i > Len(log[s])
              /\ i \in Live(s)'
              /\ \/ \E c \in Calls : Enqueue(c) /\ log'[s][i] \in Created(c)
                 \/ log'[s][i] \in Elements(hand)
<1>1. log[s] \in Seq(Nids) /\ Len(log[s]) \in Nat /\ DOMAIN log[s] = 1 .. Len(log[s])
  BY LenProperties DEF TypeOK, StreamOK
<1>2. CASE UNCHANGED log
  BY <1>2
<1>3. ASSUME NEW q \in Seq(Nids), log'[s] = log[s] \o q, UNCHANGED lastRead,
             \A i \in DOMAIN q : \/ \E c \in Calls : Enqueue(c) /\ q[i] \in Created(c)
                                 \/ q[i] \in Elements(hand)
      PROVE  /\ \A i \in DOMAIN log[s] : i \in DOMAIN log'[s] /\ log'[s][i] = log[s][i]
             /\ \A i \in DOMAIN log'[s] \ DOMAIN log[s] :
                  /\ i > Len(log[s])
                  /\ i \in Live(s)'
                  /\ \/ \E c \in Calls : Enqueue(c) /\ log'[s][i] \in Created(c)
                     \/ log'[s][i] \in Elements(hand)
  <2>1. /\ Len(q) \in Nat /\ DOMAIN q = 1 .. Len(q)
        /\ DOMAIN log'[s] = 1 .. Len(log[s]) + Len(q)
        /\ \A i \in 1 .. Len(log[s]) + Len(q) :
             log'[s][i] = IF i <= Len(log[s]) THEN log[s][i] ELSE q[i - Len(log[s])]
    BY <1>1, <1>3, ConcatProperties, LenProperties
  <2>2. ASSUME NEW i \in DOMAIN log'[s] \ DOMAIN log[s]
        PROVE  i > Len(log[s]) /\ i - Len(log[s]) \in DOMAIN q /\ log'[s][i] = q[i - Len(log[s])]
    BY <1>1, <2>1, <2>2
  <2>3. lastRead'[s] \in Nat /\ lastRead'[s] <= Len(log[s])
    BY <1>3 DEF TypeOK, StreamOK
  <2>4. ASSUME NEW i \in DOMAIN log'[s] \ DOMAIN log[s]
        PROVE  i \in Live(s)'
    BY <1>1, <2>1, <2>2, <2>3, <2>4 DEF Live
  <2>5. QED
    BY <1>1, <1>3, <2>1, <2>2, <2>4
<1>4. ASSUME NEW c \in Calls, Enqueue(c), ~ UNCHANGED log
      PROVE  \E q \in Seq(Nids) :
               /\ log'[s] = log[s] \o q
               /\ \A i \in DOMAIN q : q[i] \in Created(c)
  <2>1. PICK q \in Orders(Created(c)) : log' = [log EXCEPT ![StreamOf(c)] = @ \o q]
    BY <1>4 DEF Enqueue
  <2>2. q \in Seq(Nids) /\ \A i \in DOMAIN q : q[i] \in Created(c)
    <3>1. q \in Seq(Created(c)) /\ Created(c) \subseteq Nids
      BY CreatedFinite, OrdersAreSequences
    <3>2. q \in Seq(Nids)
      BY <3>1, SeqMonotonic
    <3>3. QED
      BY <3>2 DEF Orders
  <2>3. CASE s = StreamOf(c)
    BY <2>1, <2>2, <2>3 DEF TypeOK, StreamOK
  <2>4. CASE s # StreamOf(c)
    <3>1. log'[s] = log[s] \o <<>> /\ <<>> \in Seq(Nids) /\ DOMAIN <<>> = {}
      BY <1>1, <2>1, <2>4, ConcatEmptySeq, EmptySeq DEF TypeOK, StreamOK
    <3>2. QED
      BY <3>1
  <2>5. QED
    BY <2>3, <2>4
<1>5. CASE DlqRequeue
  <2>1. Head(hand) \in Nids /\ Head(hand) \in Elements(hand)
    BY <1>5, HeadTailProperties, ElementsOfTail DEF DlqRequeue, TypeOK, DlqOK
  <2>2. CASE s = "normal"
    <3>1. log'[s] = log[s] \o <<Head(hand)>> /\ <<Head(hand)>> \in Seq(Nids)
      BY <1>1, <1>5, <2>1, <2>2, AppendIsConcat DEF DlqRequeue, TypeOK, StreamOK
    <3>2. UNCHANGED lastRead /\ \A i \in DOMAIN <<Head(hand)>> : <<Head(hand)>>[i] \in Elements(hand)
      BY <1>5, <2>1 DEF DlqRequeue
    <3>3. QED
      BY <1>3, <3>1, <3>2
  <2>3. CASE s # "normal"
    BY <1>5, <2>3 DEF DlqRequeue, TypeOK, StreamOK
  <2>4. QED
    BY <2>2, <2>3
<1>6. CASE ~ DlqRequeue /\ ~ \E c \in Calls : Enqueue(c)
  <2>1. ASSUME NEW w \in Workers, StartSweep(w) \/ Loop(w) \/ Crash(w) \/ Restart(w)
        PROVE  UNCHANGED log
    BY <2>1 DEF StartSweep, Loop, Claim, ReadCritical, ReadNormal, Take, NothingNew, Fetch,
       Ack, BatchError, Crash, Restart, streamVars
  <2>2. ASSUME NEW w \in Workers, Deliver(w)
        PROVE  UNCHANGED log
    BY <2>2 DEF Deliver, SendOk, SendFails, LateSend, SaveOutcome, EnqueueDlq, TaskError,
       streamVars
  <2>3. CASE \/ ApiStep \/ Expiry \/ Admin \/ UNCHANGED vars
             \/ \E t \in Streams : \E i \in Pending(t) : Age(t, i)
    <3>1. UNCHANGED log
      BY <1>6, <2>3 DEF ApiStep, Check, Save, ApiDie, Expiry, ExpireKey, ExpireHash, Age,
         Admin, DlqPop, DlqDie, vars, streamVars
    <3>2. QED
      BY <1>2, <3>1
  <2>4. QED
    BY <1>2, <2>1, <2>2, <2>3 DEF Next
<1>7. ASSUME NEW c \in Calls, Enqueue(c), ~ UNCHANGED log
      PROVE  /\ \A i \in DOMAIN log[s] : i \in DOMAIN log'[s] /\ log'[s][i] = log[s][i]
             /\ \A i \in DOMAIN log'[s] \ DOMAIN log[s] :
                  /\ i > Len(log[s])
                  /\ i \in Live(s)'
                  /\ \/ \E d \in Calls : Enqueue(d) /\ log'[s][i] \in Created(d)
                     \/ log'[s][i] \in Elements(hand)
  <2>1. PICK q \in Seq(Nids) : /\ log'[s] = log[s] \o q
                               /\ \A i \in DOMAIN q : q[i] \in Created(c)
    BY <1>4, <1>7
  <2>2. UNCHANGED lastRead
    BY <1>7 DEF Enqueue
  <2>3. QED
    BY <1>3, <1>7, <2>1, <2>2
<1>8. QED
  BY <1>2, <1>5, <1>6, <1>7

(* The pending entries shrink only when a worker that is done with its     *)
(* whole batch acknowledges it.                                            *)
LEMMA LiveShrinks ==
  ASSUME TypeOK, [Next]_vars
  PROVE  \/ \A s \in Streams : Live(s) \subseteq Live(s)'
         \/ \E w \in Workers :
              /\ AllDone(w)
              /\ \A s \in Streams : \A j \in Live(s) : j \in Live(s)' \/ (s = src[w] /\ j \in Batch(w))
<1>1. \A s \in Streams : DOMAIN log[s] \subseteq DOMAIN log'[s]
  BY StreamsGrow
<1>2. \A s \in Streams : lastRead[s] \in Nat /\ lastRead'[s] \in Nat
  BY NextTypes DEF TypeOK, StreamOK
<1>3. CASE UNCHANGED <<lastRead, pel>>
  BY <1>1, <1>3 DEF Live, Pending
<1>4. ASSUME NEW w \in Workers, NEW s \in Streams, Take(w, s)
      PROVE  \A t \in Streams : Live(t) \subseteq Live(t)'
  <2> DEFINE last == IF lastRead[s] + BatchSize < Len(log[s])
                     THEN lastRead[s] + BatchSize ELSE Len(log[s])
             page == lastRead[s] + 1 .. last
  <2>1. /\ lastRead' = [lastRead EXCEPT ![s] = last]
        /\ pel' = [pel EXCEPT ![s][w] = @ \cup page]
    BY <1>4 DEF Take
  <2>2. \A t \in Streams : Pending(t) \subseteq Pending(t)'
    BY <2>1 DEF Pending, TypeOK, StreamOK
  <2>3. last \in Nat
    BY <1>2, SizesAssumption, LenProperties DEF TypeOK, StreamOK
  <2>4. ASSUME NEW j \in DOMAIN log[s], j > lastRead[s], ~ (j > lastRead'[s])
        PROVE  j \in Pending(s)'
    <3>1. j \in page
      BY <1>2, <2>1, <2>3, <2>4, LogEntry DEF TypeOK, StreamOK
    <3>2. j \in pel'[s][w]
      BY <2>1, <3>1 DEF TypeOK, StreamOK
    <3>3. QED
      BY <3>2 DEF Pending
  <2>5. \A t \in Streams : t # s => lastRead'[t] = lastRead[t]
    BY <2>1 DEF TypeOK, StreamOK
  <2>6. QED
    BY <1>1, <2>2, <2>4, <2>5 DEF Live
<1>5. ASSUME NEW w \in Workers, Claim(w), ~ UNCHANGED pel
      PROVE  \A t \in Streams : Live(t) \subseteq Live(t)'
  <2> DEFINE s == src[w]
             page == FirstN(Claimable(w), BatchSize)
  <2>1. /\ pel' = [pel EXCEPT ![s] = [v \in Workers |-> IF v = w
                                                        THEN pel[s][v] \cup page
                                                        ELSE pel[s][v] \ page]]
        /\ UNCHANGED lastRead
    BY <1>5 DEF Claim
  <2> HIDE DEF page
  <2>2. s \in Streams
    BY DEF TypeOK, WorkerOK
  <2>3. ASSUME NEW t \in Streams, NEW j \in Pending(t)
        PROVE  j \in Pending(t)'
    <3>1. PICK v \in Workers : j \in pel[t][v]
      BY <2>3 DEF Pending
    <3>2. j \in pel'[t][v] \/ j \in pel'[t][w]
      BY <2>1, <2>2, <3>1 DEF TypeOK, StreamOK
    <3>3. QED
      BY <3>2 DEF Pending
  <2>4. QED
    BY <1>1, <2>1, <2>3 DEF Live
<1>6. ASSUME NEW w \in Workers, Ack(w)
      PROVE  /\ AllDone(w)
             /\ \A s \in Streams : \A j \in Live(s) : j \in Live(s)' \/ (s = src[w] /\ j \in Batch(w))
  <2>1. /\ pel' = [pel EXCEPT ![src[w]] = [v \in Workers |-> pel[src[w]][v] \ Batch(w)]]
        /\ UNCHANGED lastRead
        /\ AllDone(w)
    BY <1>6 DEF Ack
  <2>2. src[w] \in Streams
    BY DEF TypeOK, WorkerOK
  <2>3. ASSUME NEW s \in Streams, NEW j \in Pending(s), ~ (s = src[w] /\ j \in Batch(w))
        PROVE  j \in Pending(s)'
    <3>1. PICK v \in Workers : j \in pel[s][v]
      BY <2>3 DEF Pending
    <3>2. j \in pel'[s][v]
      BY <2>1, <2>2, <2>3, <3>1 DEF TypeOK, StreamOK
    <3>3. QED
      BY <3>2 DEF Pending
  <2>4. QED
    BY <1>1, <2>1, <2>3 DEF Live
<1>7. ASSUME NEW w \in Workers, StartSweep(w) \/ Loop(w) \/ Crash(w) \/ Restart(w)
      PROVE  \/ UNCHANGED <<lastRead, pel>> \/ Ack(w) \/ (Claim(w) /\ ~ UNCHANGED pel)
             \/ \E s \in Streams : Take(w, s)
  BY <1>7 DEF StartSweep, Loop, Claim, ReadCritical, ReadNormal, NothingNew, Fetch,
     BatchError, Crash, Restart, streamVars, Streams
<1>8. ASSUME NEW w \in Workers, Deliver(w)
      PROVE  UNCHANGED <<lastRead, pel>>
  BY <1>8 DEF Deliver, SendOk, SendFails, LateSend, SaveOutcome, EnqueueDlq, TaskError,
     streamVars
<1>9. ASSUME \/ ApiStep \/ Expiry \/ Admin \/ UNCHANGED vars
             \/ \E t \in Streams : \E i \in Pending(t) : Age(t, i)
      PROVE  UNCHANGED <<lastRead, pel>>
  BY <1>9 DEF ApiStep, Check, Save, Enqueue, ApiDie, Expiry, ExpireKey, ExpireHash, Age,
     Admin, DlqPop, DlqRequeue, DlqDie, vars, streamVars
<1>10. QED
  BY <1>3, <1>4, <1>5, <1>6, <1>7, <1>8, <1>9 DEF Next

LEMMA SendsGrow ==
  ASSUME TypeOK, [Next]_vars, NEW n \in Nids, sends[n] > 0
  PROVE  sends'[n] > 0
<1>1. sends \in [Nids -> 0 .. SendCap] /\ SendCap \in Nat \ {0}
  BY SizesAssumption DEF TypeOK, HistoryOK
<1>2. CASE UNCHANGED sends
  BY <1>2
<1>3. ASSUME NEW m \in Nids, Sent(m)
      PROVE  sends'[n] > 0
  BY <1>1, <1>3 DEF Sent
<1>4. ASSUME NEW w \in Workers, Deliver(w)
      PROVE  UNCHANGED sends \/ \E m \in Nids : Sent(m)
  BY <1>4, BatchEntry DEF Deliver, SendOk, SendFails, LateSend, SaveOutcome, EnqueueDlq,
     TaskError
<1>5. ASSUME NEW w \in Workers, StartSweep(w) \/ Loop(w) \/ Crash(w) \/ Restart(w)
      PROVE  UNCHANGED sends
  BY <1>5 DEF StartSweep, Loop, Claim, ReadCritical, ReadNormal, Fetch, Ack, BatchError,
     Crash, Restart
<1>6. ASSUME \/ ApiStep \/ Expiry \/ Admin \/ UNCHANGED vars
             \/ \E t \in Streams : \E i \in Pending(t) : Age(t, i)
      PROVE  UNCHANGED sends
  BY <1>6 DEF ApiStep, Check, Save, Enqueue, ApiDie, Expiry, ExpireKey, ExpireHash, Age,
     Admin, DlqPop, DlqRequeue, DlqDie, vars
<1>7. QED
  BY <1>2, <1>3, <1>4, <1>5, <1>6 DEF Next

(* Without an expiry no hash disappears.                                   *)
LEMMA StatusKept ==
  ASSUME Lossless, TypeOK, [Next]_vars, NEW n \in Nids, status[n] # "gone"
  PROVE  status'[n] # "gone"
<1>1. CASE UNCHANGED status
  BY <1>1
<1>2. ASSUME NEW c \in Calls, Save(c)
      PROVE  status'[n] # "gone"
  BY <1>2 DEF Save
<1>3. ASSUME NEW w \in Workers, NEW i \in Batch(w), SaveOutcome(w, i)
      PROVE  status'[n] # "gone"
  BY <1>3 DEF SaveOutcome, SaveStatus, TypeOK, StoreOK
<1>4. ASSUME NEW w \in Workers, Deliver(w), \A i \in Batch(w) : ~ SaveOutcome(w, i)
      PROVE  UNCHANGED status
  BY <1>4 DEF Deliver, SendOk, SendFails, LateSend, EnqueueDlq, TaskError, storeVars
<1>5. ASSUME NEW w \in Workers, StartSweep(w) \/ Loop(w) \/ Crash(w) \/ Restart(w)
      PROVE  UNCHANGED status
  BY <1>5 DEF StartSweep, Loop, Claim, ReadCritical, ReadNormal, Fetch, Ack, BatchError,
     Crash, Restart, storeVars
<1>6. ~ Expiry
  BY DEF Lossless, Expiry, ExpireKey, ExpireHash
<1>7. ASSUME \/ \E c \in Calls : Check(c) \/ Enqueue(c) \/ ApiDie(c)
             \/ Admin \/ UNCHANGED vars
             \/ \E t \in Streams : \E i \in Pending(t) : Age(t, i)
      PROVE  UNCHANGED status
  BY <1>7 DEF Check, Enqueue, ApiDie, Age, Admin, DlqPop, DlqRequeue, DlqDie, vars, storeVars
<1>8. QED
  BY <1>1, <1>2, <1>3, <1>4, <1>5, <1>6, <1>7 DEF Next, ApiStep

(* An id leaves the dead-letter queue, and the hands of its retry, only    *)
(* for the end of the stream of normal messages; it enters the queue only  *)
(* from a batch.                                                           *)
LEMMA DeadLetters ==
  ASSUME "admin" \notin Faults, TypeOK, [Next]_vars, NEW n \in Nids
  PROVE  /\ DeadLettered(n) => \/ DeadLettered(n)'
                               \/ /\ DlqRequeue /\ n = Head(hand)
                                  /\ \E j \in DOMAIN log'["normal"] \ DOMAIN log["normal"] :
                                       log'["normal"][j] = n
         /\ DeadLettered(n)' => \/ DeadLettered(n)
                                \/ /\ Enqueued(n)
                                   /\ \E w \in Workers : \E i \in Batch(w) :
                                        EnqueueDlq(w, i) /\ NidOf(w, i) = n
<1>1. CASE UNCHANGED <<dlq, hand>>
  BY <1>1 DEF DeadLettered
<1>2. CASE DlqPop
  <2> DEFINE m == IF DlqCount < Len(dlq) THEN DlqCount ELSE Len(dlq)
  <2>1. m \in 0 .. Len(dlq)
    BY LenProperties, SizesAssumption DEF TypeOK, DlqOK
  <2>2. hand = <<>> /\ hand' = SubSeq(dlq, 1, m) /\ dlq' = SubSeq(dlq, m + 1, Len(dlq))
    BY <1>2 DEF DlqPop
  <2>3. Elements(dlq) = Elements(hand') \cup Elements(dlq')
    BY <2>1, <2>2, ElementsOfSplit DEF TypeOK, DlqOK
  <2>4. Elements(hand) = {}
    BY <2>2 DEF Elements
  <2>5. Elements(hand)' = Elements(hand') /\ Elements(dlq)' = Elements(dlq')
    BY DEF Elements
  <2>6. QED
    BY <2>3, <2>4, <2>5 DEF DeadLettered
<1>3. CASE DlqRequeue
  <2>1. Elements(hand) = Elements(hand') \cup {Head(hand)} /\ UNCHANGED dlq
    BY <1>3, ElementsOfTail DEF DlqRequeue, TypeOK, DlqOK
  <2>2. Head(hand) \in Nids
    BY <1>3, HeadTailProperties DEF DlqRequeue, TypeOK, DlqOK
  <2>3. \E j \in DOMAIN log'["normal"] \ DOMAIN log["normal"] : log'["normal"][j] = Head(hand)
    <3>1. log["normal"] \in Seq(Nids) /\ log'["normal"] = Append(log["normal"], Head(hand))
      BY <1>3 DEF DlqRequeue, TypeOK, StreamOK, Streams
    <3>2. /\ Len(log["normal"]) \in Nat
          /\ DOMAIN log["normal"] = 1 .. Len(log["normal"])
          /\ DOMAIN log'["normal"] = 1 .. Len(log["normal"]) + 1
          /\ log'["normal"][Len(log["normal"]) + 1] = Head(hand)
      BY <2>2, <3>1, AppendProperties, LenProperties
    <3>3. QED
      BY <3>2
  <2>4. Elements(hand)' = Elements(hand') /\ Elements(dlq)' = Elements(dlq)
    BY <2>1 DEF Elements
  <2>5. QED
    BY <1>3, <2>1, <2>3, <2>4 DEF DeadLettered
<1>4. ASSUME NEW w \in Workers, NEW i \in Batch(w), EnqueueDlq(w, i)
      PROVE  /\ DeadLettered(n) => DeadLettered(n)'
             /\ DeadLettered(n)' => DeadLettered(n) \/ (Enqueued(n) /\ NidOf(w, i) = n)
  <2>1. dlq' = Append(dlq, NidOf(w, i)) /\ UNCHANGED hand
    BY <1>4 DEF EnqueueDlq, adminVars
  <2>2. /\ src[w] \in Streams /\ i \in DOMAIN log[src[w]] /\ NidOf(w, i) \in Nids
    BY BatchEntry
  <2>3. Elements(dlq') = Elements(dlq) \cup {NidOf(w, i)}
    BY <2>1, <2>2, ElementsOfAppend DEF TypeOK, DlqOK
  <2>4. Enqueued(NidOf(w, i))
    BY <2>2 DEF Enqueued, Elements, NidOf
  <2>5. Elements(hand)' = Elements(hand) /\ Elements(dlq)' = Elements(dlq')
    BY <2>1 DEF Elements
  <2>6. QED
    BY <2>3, <2>4, <2>5 DEF DeadLettered
<1>5. ASSUME NEW w \in Workers, Deliver(w), \A i \in Batch(w) : ~ EnqueueDlq(w, i)
      PROVE  UNCHANGED <<dlq, hand>>
  BY <1>5 DEF Deliver, SendOk, SendFails, LateSend, SaveOutcome, TaskError, adminVars
<1>6. ASSUME NEW w \in Workers, StartSweep(w) \/ Loop(w) \/ Crash(w) \/ Restart(w)
      PROVE  UNCHANGED <<dlq, hand>>
  BY <1>6 DEF StartSweep, Loop, Claim, ReadCritical, ReadNormal, Fetch, Ack, BatchError,
     Crash, Restart, adminVars
<1>7. ASSUME \/ ApiStep \/ Expiry \/ UNCHANGED vars
             \/ \E t \in Streams : \E i \in Pending(t) : Age(t, i)
      PROVE  UNCHANGED <<dlq, hand>>
  BY <1>7 DEF ApiStep, Check, Save, Enqueue, ApiDie, Expiry, ExpireKey, ExpireHash, Age,
     vars, adminVars
<1>8. ~ DlqDie
  BY DEF DlqDie
<1>9. QED
  BY <1>1, <1>2, <1>3, <1>4, <1>5, <1>6, <1>7, <1>8 DEF Next, Admin

LEMMA StoredKept ==
  ASSUME Lossless, TypeOK, Stored, [Next]_vars
  PROVE  Stored'
<1>1. ASSUME NEW n \in Nids, Enqueued(n)' \/ DeadLettered(n)'
      PROVE  status'[n] # "gone"
  <2>1. \/ Enqueued(n) \/ DeadLettered(n)
        \/ \E c \in Calls : callPc[c] = "saved" /\ n \in Created(c)
    <3>1. CASE DeadLettered(n)'
      BY <3>1, DeadLetters DEF Lossless
    <3>2. CASE Enqueued(n)'
      <4>1. PICK s \in Streams : \E i \in DOMAIN log'[s] : log'[s][i] = n
        BY <3>2 DEF Enqueued, Elements
      <4>2. PICK i \in DOMAIN log'[s] : log'[s][i] = n
        BY <4>1
      <4>3. CASE i \in DOMAIN log[s]
        BY <4>2, <4>3, StreamsGrow DEF Enqueued, Elements
      <4>4. CASE i \notin DOMAIN log[s]
        BY <4>2, <4>4, StreamsGrow DEF DeadLettered, Enqueue
      <4>5. QED
        BY <4>3, <4>4
    <3>3. QED
      BY <1>1, <3>1, <3>2
  <2>2. status[n] # "gone"
    BY <2>1 DEF Stored
  <2>3. QED
    BY <2>2, StatusKept
<1>2. ASSUME NEW c \in Calls, callPc'[c] = "saved", NEW n \in Created(c)'
      PROVE  status'[n] # "gone"
  <2>1. CASE Save(c)
    <3>1. n \in Created(c) /\ Created(c) \subseteq Nids
      BY <1>2, <2>1, CreatedFinite DEF Save, Created
    <3>2. QED
      BY <2>1, <3>1 DEF Save
  <2>2. CASE callPc[c] = "saved" /\ fresh'[c] = fresh[c]
    <3>1. n \in Created(c) /\ n \in Nids
      BY <1>2, <2>2, CreatedFinite DEF Created
    <3>2. QED
      BY <2>2, <3>1, StatusKept DEF Stored
  <2>3. ASSUME NEW d \in Calls, Check(d) \/ (Save(d) /\ d # c) \/ Enqueue(d) \/ ApiDie(d)
        PROVE  callPc[c] = "saved" /\ fresh'[c] = fresh[c]
    BY <1>2, <2>3 DEF Check, Save, Enqueue, ApiDie, TypeOK, ApiOK
  <2>4. ASSUME NEW w \in Workers, StartSweep(w) \/ Loop(w) \/ Crash(w) \/ Restart(w) \/ Deliver(w)
        PROVE  UNCHANGED <<callPc, fresh>>
    BY <2>4 DEF StartSweep, Loop, Claim, ReadCritical, ReadNormal, Fetch, Ack, BatchError,
       Crash, Restart, Deliver, SendOk, SendFails, LateSend, SaveOutcome, EnqueueDlq, TaskError,
       apiVars
  <2>5. ASSUME \/ Expiry \/ Admin \/ UNCHANGED vars
               \/ \E t \in Streams : \E i \in Pending(t) : Age(t, i)
        PROVE  UNCHANGED <<callPc, fresh>>
    BY <2>5 DEF Expiry, ExpireKey, ExpireHash, Age, Admin, DlqPop, DlqRequeue, DlqDie, vars,
       apiVars
  <2>6. QED
    BY <1>2, <2>1, <2>2, <2>3, <2>4, <2>5 DEF Next, ApiStep
<1>3. QED
  BY <1>1, <1>2 DEF Stored

(* What one step does to a message that is in a batch after it.            *)
LEMMA StageSteps ==
  ASSUME TypeOK, [Next]_vars, NEW w \in Workers, NEW i \in Batch(w)'
  PROVE  \/ task'[w][i].stage \in {"claimed", "try"}
         \/ /\ i \in Batch(w) /\ Batch(w)' = Batch(w) /\ src'[w] = src[w]
            /\ \/ task'[w][i].stage = task[w][i].stage
               \/ task'[w][i].stage = "sent" /\ sends'[NidOf(w, i)] > 0
               \/ task'[w][i].stage \in {"failed", "dlq"}
               \/ /\ task'[w][i].stage = "done"
                  /\ \/ status[NidOf(w, i)] = "gone"
                     \/ task[w][i].stage = "sent" /\ status'[NidOf(w, i)] = "sent"
                     \/ DeadLettered(NidOf(w, i))'
                     \/ "redis" \in Faults
<1> DEFINE Goal ==
         \/ task'[w][i].stage \in {"claimed", "try"}
         \/ /\ i \in Batch(w) /\ Batch(w)' = Batch(w) /\ src'[w] = src[w]
            /\ \/ task'[w][i].stage = task[w][i].stage
               \/ task'[w][i].stage = "sent" /\ sends'[NidOf(w, i)] > 0
               \/ task'[w][i].stage \in {"failed", "dlq"}
               \/ /\ task'[w][i].stage = "done"
                  /\ \/ status[NidOf(w, i)] = "gone"
                     \/ task[w][i].stage = "sent" /\ status'[NidOf(w, i)] = "sent"
                     \/ DeadLettered(NidOf(w, i))'
                     \/ "redis" \in Faults
<1>1. CASE task'[w] = task[w]
  <2>1. Batch(w)' = Batch(w) /\ i \in Batch(w) /\ pc[w] \in {"fetch", "deliver"}
    BY <1>1 DEF Batch, TypeOK, WorkerOK, BatchOK
  <2>2. ASSUME NEW v \in Workers, StartSweep(v) \/ Loop(v) \/ Crash(v) \/ Restart(v)
        PROVE  src'[w] = src[w]
    <3>1. CASE v # w
      BY <2>2, <3>1, NextPageTypes DEF StartSweep, Loop, Claim, ReadCritical, ReadNormal, Take,
         NothingNew, Fetch, Ack, BatchError, Crash, Restart, TypeOK, WorkerOK
    <3>2. CASE v = w /\ (StartSweep(v) \/ Claim(v) \/ ReadCritical(v) \/ ReadNormal(v))
      BY <2>1, <3>2 DEF StartSweep, Claim, ReadCritical, ReadNormal
    <3>3. CASE v = w /\ (Fetch(v) \/ BatchError(v) \/ Crash(v) \/ Restart(v))
      BY <3>3 DEF Fetch, BatchError, Crash, Restart
    <3>4. CASE v = w /\ Ack(v)
      BY <1>1, <2>1, <3>4 DEF Ack, NoBatch, Batch, TypeOK, WorkerOK
    <3>5. QED
      BY <2>2, <3>1, <3>2, <3>3, <3>4 DEF Loop
  <2>3. ASSUME NEW v \in Workers, Deliver(v)
        PROVE  UNCHANGED src
    BY <2>3 DEF Deliver, SendOk, SendFails, LateSend, SaveOutcome, EnqueueDlq, TaskError
  <2>4. ASSUME \/ ApiStep \/ Expiry \/ Admin \/ UNCHANGED vars
               \/ \E t \in Streams : \E j \in Pending(t) : Age(t, j)
        PROVE  UNCHANGED src
    BY <2>4 DEF ApiStep, Check, Save, Enqueue, ApiDie, Expiry, ExpireKey, ExpireHash, Age,
       Admin, DlqPop, DlqRequeue, DlqDie, vars, workerVars
  <2>5. QED
    BY <1>1, <2>1, <2>2, <2>3, <2>4 DEF Next
<1>2. CASE Claim(w) \/ (\E s \in Streams : Take(w, s))
  <2>1. CASE pc'[w] = "fetch" /\ \E page : task' = [task EXCEPT ![w] = Claimed(page)]
    BY <2>1 DEF Claimed, Batch, TypeOK, WorkerOK
  <2>2. CASE UNCHANGED task
    BY <1>1, <2>2
  <2>3. QED
    BY <1>2, <2>1, <2>2 DEF Claim, Take, TypeOK, WorkerOK
<1>3. CASE Fetch(w)
  <2>1. i \in Batch(w) /\ task'[w][i].stage = IF status[NidOf(w, i)] = "gone" THEN "done" ELSE "try"
    BY <1>3 DEF Fetch, Batch, TypeOK, WorkerOK
  <2>2. src'[w] = src[w] /\ Batch(w)' = Batch(w)
    BY <1>3 DEF Fetch, Batch, TypeOK, WorkerOK
  <2>3. QED
    BY <2>1, <2>2
<1>4. CASE Ack(w) \/ BatchError(w) \/ Crash(w)
  BY <1>4 DEF Ack, BatchError, Crash, NoBatch, Batch, TypeOK, WorkerOK
<1>5. ASSUME NEW j \in Batch(w),
             SendOk(w, j) \/ SendFails(w, j) \/ SaveOutcome(w, j) \/ EnqueueDlq(w, j)
      PROVE  Goal
  <2>1. UNCHANGED src /\ Batch(w)' = Batch(w) /\ i \in Batch(w)
    BY <1>5 DEF SendOk, SendFails, AttemptEnds, SaveOutcome, EnqueueDlq, GoTo, Batch, TypeOK,
       WorkerOK
  <2>2. CASE i # j
    <3>1. task'[w][i] = task[w][i]
      BY <1>5, <2>1, <2>2 DEF SendOk, SendFails, AttemptEnds, SaveOutcome, EnqueueDlq, GoTo,
         Batch, TypeOK, WorkerOK
    <3>2. QED
      BY <2>1, <3>1
  <2>3. CASE i = j /\ SendOk(w, i)
    <3>1. task'[w][i].stage = "sent"
      BY <2>1, <2>3 DEF SendOk, AttemptEnds, Batch, TypeOK, WorkerOK
    <3>2. sends'[NidOf(w, i)] > 0
      <4>1. NidOf(w, i) \in Nids /\ sends \in [Nids -> 0 .. SendCap] /\ SendCap \in Nat \ {0}
        BY <2>1, BatchEntry, SizesAssumption DEF TypeOK, HistoryOK
      <4>2. QED
        BY <2>3, <4>1 DEF SendOk, Sent
    <3>3. QED
      BY <2>1, <3>1, <3>2
  <2>4. CASE i = j /\ SendFails(w, i)
    <3>1. task'[w][i].stage \in {"try", "failed"}
      BY <2>1, <2>4 DEF SendFails, AfterFailure, AttemptEnds, Batch, TypeOK, WorkerOK
    <3>2. QED
      BY <2>1, <3>1
  <2>5. CASE i = j /\ SaveOutcome(w, i)
    <3>1. NidOf(w, i) \in Nids /\ status \in [Nids -> Statuses]
      BY <2>1, BatchEntry DEF TypeOK, StoreOK
    <3>2. \/ /\ task'[w][i].stage = "done" /\ task[w][i].stage = "sent"
             /\ status'[NidOf(w, i)] = "sent"
          \/ task'[w][i].stage = "dlq"
      BY <2>1, <2>5, <3>1 DEF SaveOutcome, SaveStatus, AtStage, GoTo, Batch, TypeOK, WorkerOK
    <3>3. QED
      BY <2>1, <3>2
  <2>6. CASE i = j /\ EnqueueDlq(w, i)
    <3>1. task'[w][i].stage = "done"
      BY <2>1, <2>6 DEF EnqueueDlq, GoTo, Batch, TypeOK, WorkerOK
    <3>2. NidOf(w, i) \in Elements(dlq')
      BY <2>1, <2>6, BatchEntry, ElementsOfAppend DEF EnqueueDlq, TypeOK, DlqOK
    <3>3. DeadLettered(NidOf(w, i))'
      <4>1. NidOf(w, i)' = NidOf(w, i)
        BY <2>1, <2>6 DEF EnqueueDlq, NidOf, streamVars
      <4>2. QED
        BY <3>2, <4>1 DEF DeadLettered, Elements
    <3>4. QED
      BY <2>1, <3>1, <3>3
  <2>7. QED
    BY <1>5, <2>2, <2>3, <2>4, <2>5, <2>6
<1>6. ASSUME NEW v \in Workers, v # w, StartSweep(v) \/ Loop(v) \/ Crash(v) \/ Restart(v)
      PROVE  task'[w] = task[w]
  BY <1>6 DEF StartSweep, Loop, Claim, ReadCritical, ReadNormal, Take, NothingNew, Fetch, Ack,
     BatchError, Crash, Restart, TypeOK, WorkerOK
<1>7. ASSUME NEW v \in Workers, v # w, Deliver(v)
      PROVE  task'[w] = task[w]
  BY <1>7 DEF Deliver, SendOk, SendFails, LateSend, SaveOutcome, EnqueueDlq, TaskError, GoTo,
     AttemptEnds, TypeOK, WorkerOK
<1>8. ASSUME \/ ApiStep \/ Expiry \/ Admin \/ UNCHANGED vars
             \/ \E t \in Streams : \E j \in Pending(t) : Age(t, j)
      PROVE  task'[w] = task[w]
  BY <1>8 DEF ApiStep, Check, Save, Enqueue, ApiDie, Expiry, ExpireKey, ExpireHash, Age,
     Admin, DlqPop, DlqRequeue, DlqDie, vars, workerVars
<1>9. ASSUME StartSweep(w) \/ Restart(w) \/ (\E s \in Streams, next \in Pcs : NothingNew(w, s, next))
             \/ \E n \in Nids : LateSend(w, n)
      PROVE  task'[w] = task[w]
  BY <1>9 DEF StartSweep, Restart, NothingNew, LateSend
<1>10. ASSUME Loop(w) PROVE Goal
  <2>1. CASE ReadCritical(w) \/ ReadNormal(w)
    <3>1. \/ \E s \in Streams : Take(w, s)
          \/ \E s \in Streams, next \in Pcs : NothingNew(w, s, next)
      BY <2>1 DEF ReadCritical, ReadNormal, Streams, Pcs
    <3>2. QED
      BY <1>1, <1>2, <1>9, <3>1
  <2>2. QED
    BY <1>2, <1>3, <1>4, <1>10, <2>1 DEF Loop
<1>11. ASSUME NEW j \in Batch(w), TaskError(w, j) PROVE Goal
  <2>1. UNCHANGED src /\ Batch(w)' = Batch(w) /\ i \in Batch(w) /\ "redis" \in Faults
    BY <1>11 DEF TaskError, GoTo, Batch, TypeOK, WorkerOK
  <2>2. task'[w][i].stage \in {"done", task[w][i].stage}
    BY <1>11, <2>1 DEF TaskError, GoTo, Batch, TypeOK, WorkerOK
  <2>3. QED
    BY <2>1, <2>2
<1>12. ASSUME Deliver(w) PROVE Goal
  BY <1>1, <1>5, <1>9, <1>11, <1>12 DEF Deliver
<1>13. QED
  BY <1>1, <1>4, <1>6, <1>7, <1>8, <1>9, <1>10, <1>12 DEF Next

LEMMA TaskSteps ==
  ASSUME Lossless, TypeOK, Stored, StagesTrue, [Next]_vars,
         NEW w \in Workers, NEW i \in Batch(w)'
  PROVE  \/ task'[w][i].stage \in {"claimed", "try"}
         \/ /\ i \in Batch(w) /\ Batch(w)' = Batch(w) /\ src'[w] = src[w]
            /\ \/ task'[w][i].stage = task[w][i].stage
               \/ task'[w][i].stage = "sent" /\ sends'[NidOf(w, i)] > 0
               \/ task'[w][i].stage \in {"failed", "dlq"}
               \/ task'[w][i].stage = "done" /\ sends[NidOf(w, i)] > 0
               \/ task'[w][i].stage = "done" /\ DeadLettered(NidOf(w, i))'
<1>1. ASSUME i \in Batch(w) PROVE status[NidOf(w, i)] # "gone"
  BY <1>1, BatchEntry DEF Stored, Enqueued, Elements, NidOf
<1>2. ASSUME i \in Batch(w), task[w][i].stage = "sent" PROVE sends[NidOf(w, i)] > 0
  BY <1>2 DEF StagesTrue, StageTrue
<1>3. "redis" \notin Faults
  BY DEF Lossless
<1>4. QED
  BY <1>1, <1>2, <1>3, StageSteps

(* A settled message stays settled: the entry that justified it, if it is  *)
(* acknowledged, hands over the reason of the worker that acknowledged it. *)
LEMMA SettledKept ==
  ASSUME Lossless, TypeOK, StagesTrue, [Next]_vars,
         NEW w \in Workers, NEW n \in Nids, Settled(w, n),
         Batch(w)' = Batch(w), src'[w] = src[w]
  PROVE  Settled(w, n)'
<1>1. CASE sends[n] > 0
  BY <1>1, SendsGrow DEF Settled
<1>2. CASE DeadLettered(n)
  <2>1. CASE DeadLettered(n)'
    BY <2>1 DEF Settled
  <2>2. ASSUME NEW j \in DOMAIN log'["normal"] \ DOMAIN log["normal"], log'["normal"][j] = n
        PROVE  Settled(w, n)'
    <3>1. "normal" \in Streams
      BY DEF Streams
    <3>2. j > Len(log["normal"]) /\ j \in Live("normal")'
      BY <2>2, <3>1, StreamsGrow
    <3>3. ASSUME src[w] = "normal", NEW b \in Batch(w) PROVE b < j
      <4>1. b \in Nat /\ b <= Len(log["normal"]) /\ Len(log["normal"]) \in Nat
        BY <3>1, <3>3, BatchEntry, LogEntry, LenProperties DEF TypeOK, StreamOK
      <4>2. j \in Nat
        BY <2>2, <3>1, NextTypes, LenProperties DEF TypeOK, StreamOK
      <4>3. QED
        BY <3>2, <4>1, <4>2
    <3>4. (Live("normal"))' = Live("normal")' /\ \A b : b \in Batch(w)' <=> b \in Batch(w)
      OBVIOUS
    <3>5. QED
      BY <2>2, <3>2, <3>3 DEF Settled
  <2>3. QED
    BY <1>2, <2>1, <2>2, DeadLetters DEF Lossless
<1>3. ASSUME NEW j \in Live("normal"), log["normal"][j] = n,
             src[w] = "normal" => \A b \in Batch(w) : b < j,
             ~ (sends[n] > 0), ~ DeadLettered(n)
      PROVE  Settled(w, n)'
  <2>1. "normal" \in Streams /\ \A k \in Live("normal") : k \in DOMAIN log["normal"]
    BY DEF Streams, Live
  <2>2. ASSUME NEW k \in Live("normal"), k \in Live("normal")', log["normal"][k] = n,
               src[w] = "normal" => \A b \in Batch(w) : b < k
        PROVE  Settled(w, n)'
    <3>1. log'["normal"][k] = n
      BY <2>1, <2>2, StreamsGrow
    <3>2. QED
      BY <2>2, <3>1 DEF Settled
  <2>3. CASE j \in Live("normal")'
    BY <1>3, <2>2, <2>3
  <2>4. ASSUME NEW v \in Workers, AllDone(v), src[v] = "normal", j \in Batch(v),
               \A k \in Live("normal") : k \in Live("normal")' \/ k \in Batch(v)
        PROVE  Settled(w, n)'
    <3>1. NidOf(v, j) = n /\ task[v][j].stage = "done"
      BY <1>3, <2>4 DEF NidOf, AllDone
    <3>2. PICK k \in Live("normal") : log["normal"][k] = n /\ \A b \in Batch(v) : b < k
      BY <1>3, <2>4, <3>1 DEF StagesTrue, StageTrue, Settled
    <3>3. k \in Live("normal")'
      <4>1. k \in Nat
        BY <2>1, <3>2, LogEntry
      <4>2. k \notin Batch(v)
        BY <3>2, <4>1
      <4>3. QED
        BY <2>4, <3>2, <4>2
    <3>4. ASSUME src[w] = "normal", NEW b \in Batch(w) PROVE b < k
      <4>1. b \in Nat /\ j \in Nat /\ k \in Nat
        BY <2>1, <3>2, <3>4, BatchEntry, LogEntry
      <4>2. b < j /\ j < k
        BY <1>3, <2>4, <3>2, <3>4
      <4>3. QED
        BY <4>1, <4>2
    <3>5. QED
      BY <2>2, <3>2, <3>3, <3>4
  <2>5. QED
    BY <1>3, <2>1, <2>3, <2>4, LiveShrinks
<1>4. QED
  BY <1>1, <1>2, <1>3 DEF Settled

LEMMA StagesTrueKept ==
  ASSUME Lossless, TypeOK, Stored, StagesTrue, [Next]_vars
  PROVE  StagesTrue'
<1>1. SUFFICES ASSUME NEW w \in Workers, NEW i \in Batch(w)'
               PROVE  StageTrue(w, i)'
  BY DEF StagesTrue
<1>2. CASE task'[w][i].stage \in {"claimed", "try", "failed", "dlq"}
  BY <1>2 DEF StageTrue
<1>3. ASSUME i \in Batch(w), Batch(w)' = Batch(w), src'[w] = src[w],
             \/ task'[w][i].stage = task[w][i].stage
             \/ task'[w][i].stage = "sent" /\ sends'[NidOf(w, i)] > 0
             \/ task'[w][i].stage = "done" /\ sends[NidOf(w, i)] > 0
             \/ task'[w][i].stage = "done" /\ DeadLettered(NidOf(w, i))'
      PROVE  StageTrue(w, i)'
  <2>1. PICK n \in Nids : NidOf(w, i) = n /\ NidOf(w, i)' = n
    BY <1>3, BatchEntry, StreamsGrow DEF NidOf
  <2>2. sends[n] > 0 => sends'[n] > 0
    BY <2>1, SendsGrow
  <2>3. ASSUME task'[w][i].stage = "sent" PROVE sends'[n] > 0
    BY <1>3, <2>1, <2>2, <2>3 DEF StagesTrue, StageTrue
  <2>4. ASSUME task'[w][i].stage = "done" PROVE Settled(w, n)'
    <3>1. CASE task[w][i].stage = "done"
      BY <1>3, <2>1, <3>1, SettledKept DEF StagesTrue, StageTrue
    <3>2. CASE sends'[n] > 0 \/ DeadLettered(n)'
      BY <3>2 DEF Settled
    <3>3. QED
      BY <1>3, <2>1, <2>2, <2>4, <3>1, <3>2
  <2>5. QED
    BY <2>1, <2>3, <2>4 DEF StageTrue
<1>4. QED
  BY <1>2, <1>3, TaskSteps

LEMMA NothingLostKept ==
  ASSUME Lossless, TypeOK, StagesTrue, NothingLost, [Next]_vars
  PROVE  NothingLost'
<1>1. SUFFICES ASSUME NEW n \in Nids, Enqueued(n)', ~ (sends'[n] > 0), ~ DeadLettered(n)'
               PROVE  Queued(n)'
  BY DEF NothingLost
<1>2. ASSUME NEW s \in Streams, NEW i \in DOMAIN log'[s] \ DOMAIN log[s], log'[s][i] = n
      PROVE  Queued(n)'
  <2>1. i \in Live(s)'
    BY <1>2, StreamsGrow
  <2>2. QED
    BY <1>2, <2>1 DEF Queued
<1>3. ~ (sends[n] > 0)
  BY <1>1, SendsGrow
<1>4. CASE DeadLettered(n)
  BY <1>1, <1>2, <1>4, DeadLetters DEF Streams, Lossless
<1>5. ASSUME NEW s \in Streams, NEW i \in Live(s), log[s][i] = n, i \in Live(s)'
      PROVE  Queued(n)'
  <2>1. log'[s][i] = n
    BY <1>5, StreamsGrow DEF Live
  <2>2. QED
    BY <1>5, <2>1 DEF Queued
<1>6. ASSUME NEW s \in Streams, NEW i \in Live(s), log[s][i] = n, ~ (i \in Live(s)'),
             ~ DeadLettered(n)
      PROVE  Queued(n)'
  <2>1. PICK w \in Workers :
          /\ AllDone(w)
          /\ \A t \in Streams : \A j \in Live(t) : j \in Live(t)' \/ (t = src[w] /\ j \in Batch(w))
          /\ s = src[w] /\ i \in Batch(w)
    BY <1>6, LiveShrinks
  <2>2. Settled(w, n)
    BY <1>6, <2>1 DEF StagesTrue, StageTrue, AllDone, NidOf
  <2>3. PICK j \in Live("normal") :
          log["normal"][j] = n /\ (src[w] = "normal" => \A b \in Batch(w) : b < j)
    BY <1>3, <1>6, <2>2 DEF Settled
  <2>4. "normal" \in Streams /\ j \in Nat
    BY <2>3, LogEntry DEF Streams, Live
  <2>5. j \in Live("normal")'
    BY <2>1, <2>3, <2>4
  <2>6. QED
    BY <1>5, <2>3, <2>4, <2>5
<1>7. CASE Enqueued(n) /\ ~ DeadLettered(n)
  <2>1. PICK s \in Streams : \E i \in Live(s) : log[s][i] = n
    BY <1>3, <1>7 DEF NothingLost, Queued
  <2>2. QED
    BY <1>5, <1>6, <1>7, <2>1
<1>8. CASE ~ Enqueued(n)
  <2>1. PICK s \in Streams : \E i \in DOMAIN log'[s] : log'[s][i] = n
    BY <1>1 DEF Enqueued, Elements
  <2>2. PICK i \in DOMAIN log'[s] : log'[s][i] = n
    BY <2>1
  <2>3. i \notin DOMAIN log[s]
    BY <1>8, <2>2, StreamsGrow DEF Enqueued, Elements
  <2>4. QED
    BY <1>2, <2>2, <2>3
<1>9. QED
  BY <1>4, <1>7, <1>8

(* No id that ever reached a stream is forgotten, for any number of calls, *)
(* workers, crashes, sweeps that steal from slow workers, timed-out sends  *)
(* and dead-letter retries (_process_batch's order of gather and XACK).    *)
THEOREM NothingIsLost == ASSUME Lossless PROVE Spec => []NothingLost
<1> DEFINE IInv == Stored /\ StagesTrue /\ NothingLost
<1>1. Init => IInv
  <2>1. SUFFICES ASSUME Init PROVE IInv
    OBVIOUS
  <2>2. \A n \in Nids : ~ Enqueued(n) /\ ~ DeadLettered(n)
    BY <2>1 DEF Init, Enqueued, DeadLettered, Elements, Streams
  <2>3. \A w \in Workers : Batch(w) = {}
    BY <2>1 DEF Init, Batch, NoBatch
  <2>4. \A c \in Calls : callPc[c] # "saved"
    BY <2>1 DEF Init
  <2>5. QED
    BY <2>2, <2>3, <2>4 DEF Stored, StagesTrue, NothingLost
<1>2. TypeOK /\ IInv /\ [Next]_vars => IInv'
  <2>1. SUFFICES ASSUME TypeOK, IInv, [Next]_vars PROVE IInv'
    OBVIOUS
  <2>2. QED
    BY <2>1, StoredKept, StagesTrueKept, NothingLostKept
<1>3. QED
  BY <1>1, <1>2, TypeCorrect, PTL DEF Spec

-----------------------------------------------------------------------------
(* The status a client reads.                                              *)

(* A status becomes "sent" or "failed" only when a delivery stores it.     *)
LEMMA StatusSteps ==
  ASSUME TypeOK, [Next]_vars, NEW n \in Nids
  PROVE  \/ status'[n] \in {status[n], "gone", "pending"}
         \/ \E w \in Workers : \E i \in Batch(w) : SaveOutcome(w, i) /\ NidOf(w, i) = n
<1>1. CASE UNCHANGED status
  BY <1>1
<1>2. ASSUME NEW c \in Calls, Save(c)
      PROVE  status'[n] \in {status[n], "pending"}
  BY <1>2 DEF Save
<1>3. ASSUME NEW w \in Workers, NEW i \in Batch(w), SaveOutcome(w, i), NidOf(w, i) # n
      PROVE  status'[n] = status[n]
  BY <1>3 DEF SaveOutcome, SaveStatus, TypeOK, StoreOK
<1>4. ASSUME NEW w \in Workers, Deliver(w), \A i \in Batch(w) : ~ SaveOutcome(w, i)
      PROVE  UNCHANGED status
  BY <1>4 DEF Deliver, SendOk, SendFails, LateSend, EnqueueDlq, TaskError, storeVars
<1>5. ASSUME NEW w \in Workers, StartSweep(w) \/ Loop(w) \/ Crash(w) \/ Restart(w)
      PROVE  UNCHANGED status
  BY <1>5 DEF StartSweep, Loop, Claim, ReadCritical, ReadNormal, Fetch, Ack, BatchError,
     Crash, Restart, storeVars
<1>6. ASSUME Expiry PROVE status'[n] \in {status[n], "gone"}
  BY <1>6 DEF Expiry, ExpireKey, ExpireHash, TypeOK, StoreOK
<1>7. ASSUME \/ \E c \in Calls : Check(c) \/ Enqueue(c) \/ ApiDie(c)
             \/ Admin \/ UNCHANGED vars
             \/ \E t \in Streams : \E i \in Pending(t) : Age(t, i)
      PROVE  UNCHANGED status
  BY <1>7 DEF Check, Enqueue, ApiDie, Age, Admin, DlqPop, DlqRequeue, DlqDie, vars, storeVars
<1>8. QED
  BY <1>1, <1>2, <1>3, <1>4, <1>5, <1>6, <1>7 DEF Next, ApiStep

(* Between a send and the HSET of "sent" the delivery knows it has sent.   *)
SentStages ==
  \A w \in Workers : \A i \in Batch(w) : task[w][i].stage = "sent" => sends[NidOf(w, i)] > 0

LEMMA SentStagesKept ==
  ASSUME TypeOK, SentStages, [Next]_vars
  PROVE  SentStages'
<1> SUFFICES ASSUME NEW w \in Workers, NEW i \in Batch(w)', task'[w][i].stage = "sent"
             PROVE  sends'[NidOf(w, i)'] > 0
  BY DEF SentStages
<1>1. /\ i \in Batch(w) /\ src'[w] = src[w]
      /\ task[w][i].stage = "sent" \/ sends'[NidOf(w, i)] > 0
  BY StageSteps
<1>2. PICK n \in Nids : NidOf(w, i) = n /\ NidOf(w, i)' = n
  BY <1>1, BatchEntry, StreamsGrow DEF NidOf
<1>3. CASE task[w][i].stage = "sent"
  <2>1. sends[n] > 0
    BY <1>1, <1>2, <1>3 DEF SentStages
  <2>2. QED
    BY <1>2, <2>1, SendsGrow
<1>4. QED
  BY <1>1, <1>2, <1>3

LEMMA SentIsTrueKept ==
  ASSUME TypeOK, SentStages, SentIsTrue, [Next]_vars
  PROVE  SentIsTrue'
<1> SUFFICES ASSUME NEW n \in Nids, status'[n] = "sent" PROVE sends'[n] > 0
  BY DEF SentIsTrue
<1>1. CASE status[n] = "sent"
  BY <1>1, SendsGrow DEF SentIsTrue
<1>2. ASSUME NEW w \in Workers, NEW i \in Batch(w), SaveOutcome(w, i), NidOf(w, i) = n
      PROVE  sends'[n] > 0
  <2>1. task[w][i].stage = "sent"
    BY <1>2, BatchEntry DEF SaveOutcome, SaveStatus, AtStage, TypeOK, StoreOK
  <2>2. sends[n] > 0
    BY <1>2, <2>1 DEF SentStages
  <2>3. QED
    BY <2>2, SendsGrow
<1>3. QED
  BY <1>1, <1>2, StatusSteps

(* A client never reads "sent" for a notification that no channel.send     *)
(* took, under every fault: crashes, stolen batches, failed commands,      *)
(* timed-out sends, expired hashes (deliver, delivery.py:30-67).         *)
THEOREM SentMeansSent == Spec => []SentIsTrue
<1>1. Init => SentStages /\ SentIsTrue
  BY DEF Init, SentStages, SentIsTrue, Batch, NoBatch
<1>2. TypeOK /\ SentStages /\ SentIsTrue /\ [Next]_vars => SentStages' /\ SentIsTrue'
  BY SentStagesKept, SentIsTrueKept
<1>3. QED
  BY <1>1, <1>2, TypeCorrect, PTL DEF Spec

(* What FailedIsRetriable asks of the environment: no command of a worker  *)
(* or of the dead-letter retry fails.                                      *)
Steady == Faults \cap {"redis", "admin"} = {}

(* A live entry that no worker has finished: its worker will store another *)
(* outcome or dead-letter it, or leaves it in the pending entries list.    *)
Open(s, j) ==
  /\ j \in Live(s)
  /\ \A v \in Workers : src[v] = s /\ j \in Batch(v) => task[v][j].stage # "done"

FailedIsOpen ==
  \A n \in Nids : status[n] = "failed" =>
    DeadLettered(n) \/ \E s \in Streams : \E j \in DOMAIN log[s] : log[s][j] = n /\ Open(s, j)

LEMMA FailedIsOpenKept ==
  ASSUME Steady, TypeOK, Ownership, FailedIsOpen, [Next]_vars
  PROVE  FailedIsOpen'
<1> SUFFICES ASSUME NEW n \in Nids, status'[n] = "failed", ~ DeadLettered(n)'
             PROVE  \E s \in Streams : \E j \in DOMAIN log'[s] : log'[s][j] = n /\ Open(s, j)'
  BY DEF FailedIsOpen
<1>0. "redis" \notin Faults /\ "admin" \notin Faults
  BY DEF Steady
<1>1. ASSUME NEW s \in Streams, NEW j \in DOMAIN log'[s] \ DOMAIN log[s], log'[s][j] = n
      PROVE  Open(s, j)'
  <2>1. j \in Live(s)'
    BY <1>1, StreamsGrow
  <2>2. ASSUME NEW v \in Workers, src'[v] = s, j \in Batch(v)' PROVE task'[v][j].stage # "done"
    BY <1>1, <2>2, StageSteps, BatchEntry
  <2>3. QED
    BY <2>1, <2>2 DEF Open
<1>2. ASSUME NEW s \in Streams, NEW j \in DOMAIN log[s], log[s][j] = n, Open(s, j), status[n] = "failed"
      PROVE  j \in DOMAIN log'[s] /\ log'[s][j] = n /\ Open(s, j)'
  <2>1. j \in DOMAIN log'[s] /\ log'[s][j] = n
    BY <1>2, StreamsGrow
  <2>2. j \in Live(s)'
    BY <1>2, LiveShrinks DEF Open, AllDone
  <2>3. ASSUME NEW v \in Workers, src'[v] = s, j \in Batch(v)', task'[v][j].stage = "done" PROVE FALSE
    <3>1. /\ j \in Batch(v) /\ src[v] = s
          /\ \/ task[v][j].stage = "done"
             \/ status[NidOf(v, j)] = "gone"
             \/ status'[NidOf(v, j)] = "sent"
             \/ DeadLettered(NidOf(v, j))'
      BY <1>0, <2>3, StageSteps
    <3>2. NidOf(v, j) = n
      BY <1>2, <3>1 DEF NidOf
    <3>3. task[v][j].stage # "done"
      BY <1>2, <3>1 DEF Open
    <3>4. ~ DeadLettered(NidOf(v, j))'
      <4>1. NidOf(v, j)' = n
        BY <2>1, <2>3 DEF NidOf
      <4>2. QED
        BY <4>1 DEF DeadLettered
    <3>5. QED
      BY <1>2, <3>1, <3>2, <3>3, <3>4
  <2>4. QED
    BY <2>1, <2>2, <2>3 DEF Open
<1>3. CASE status[n] = "failed"
  <2>1. CASE DeadLettered(n)
    <3>1. "normal" \in Streams
      BY DEF Streams
    <3>2. PICK j \in DOMAIN log'["normal"] \ DOMAIN log["normal"] : log'["normal"][j] = n
      BY <1>0, <2>1, DeadLetters
    <3>3. QED
      BY <1>1, <3>1, <3>2
  <2>2. CASE ~ DeadLettered(n)
    <3>1. PICK s \in Streams : \E j \in DOMAIN log[s] : log[s][j] = n /\ Open(s, j)
      BY <1>3, <2>2 DEF FailedIsOpen
    <3>2. QED
      BY <1>2, <1>3, <3>1
  <2>3. QED
    BY <2>1, <2>2
<1>4. ASSUME NEW w \in Workers, NEW i \in Batch(w), SaveOutcome(w, i), NidOf(w, i) = n
      PROVE  \E s \in Streams : \E j \in DOMAIN log'[s] : log'[s][j] = n /\ Open(s, j)'
  <2>1. PICK s \in Streams : s = src[w] /\ i \in DOMAIN log[s] /\ log[s][i] = n
    BY <1>4, BatchEntry DEF NidOf
  <2>2. i \in DOMAIN log'[s] /\ log'[s][i] = n
    BY <2>1, StreamsGrow
  <2>3. /\ task[w][i].stage = "failed" /\ UNCHANGED <<log, lastRead, pel, src>>
        /\ task' = [task EXCEPT ![w][i] = [stage |-> "dlq", attempt |-> @.attempt]]
    BY <1>4, <2>1 DEF SaveOutcome, SaveStatus, AtStage, GoTo, TypeOK, StoreOK, streamVars
  <2>4. i \in pel[s][w]
    BY <2>1 DEF Ownership, Owned
  <2>5. i \in Live(s)'
    BY <2>2, <2>3, <2>4 DEF Live, Pending
  <2>6. ASSUME NEW v \in Workers, src'[v] = s, i \in Batch(v)' PROVE task'[v][i].stage # "done"
    <3>1. CASE v = w
      BY <2>3, <3>1 DEF Batch, TypeOK, WorkerOK
    <3>2. CASE v # w
      <4>1. src[v] = s /\ i \in Batch(v)
        BY <2>1, <2>3, <2>6, <3>2 DEF Batch, TypeOK, WorkerOK
      <4>2. i \in pel[s][v]
        BY <4>1 DEF Ownership, Owned
      <4>3. QED
        BY <2>1, <2>4, <3>2, <4>2 DEF Ownership, Disjoint
    <3>3. QED
      BY <3>1, <3>2
  <2>7. Open(s, i)'
    BY <2>5, <2>6 DEF Open
  <2>8. QED
    BY <2>1, <2>2, <2>7
<1>5. \/ status[n] = "failed"
      \/ \E w \in Workers : \E i \in Batch(w) : SaveOutcome(w, i) /\ NidOf(w, i) = n
  BY StatusSteps
<1>6. QED
  BY <1>3, <1>4, <1>5

(* While deliveries are faster than PEL_CLAIM_TIMEOUT_MS and no command    *)
(* fails, a notification that reads "failed" can still be retried: it is   *)
(* in the dead-letter queue, its retry, or not yet acknowledged, whatever  *)
(* crashes, sweeps and retries do (delivery.py:30-67, worker.py:74-108).   *)
THEOREM FailedCanBeRetried == ASSUME Timely, Steady PROVE Spec => []FailedIsRetriable
<1>1. Init => Ownership /\ FailedIsOpen
  BY DEF Init, Ownership, Disjoint, Owned, Batch, NoBatch, FailedIsOpen
<1>2. TypeOK /\ Ownership /\ [Next]_vars => Ownership'
  BY NextOwnership
<1>3. TypeOK /\ Ownership /\ FailedIsOpen /\ [Next]_vars => FailedIsOpen'
  BY FailedIsOpenKept
<1>4. FailedIsOpen => FailedIsRetriable
  BY DEF FailedIsOpen, FailedIsRetriable, Open, Queued
<1>5. QED
  BY <1>1, <1>2, <1>3, <1>4, TypeCorrect, PTL DEF Spec

-----------------------------------------------------------------------------
(* The pipeline implements DeliveryContract.  The refinement mapping reads *)
(* the life of a notification from four facts - was it sent, is it         *)
(* dead-lettered, is it in a stream, has it a hash - and each of them is   *)
(* made true by one kind of step, of a notification whose life got there.  *)

Held(n) == \E w \in Workers : n \in abandoned[w]

Beginnings ==
  /\ \A n \in Nids : Enqueued(n) => callPc[n[1]] = "replied"
  /\ \A n \in Nids : status[n] # "gone" => callPc[n[1]] \notin {"idle", "checked"}
  /\ \A n \in Nids : sends[n] > 0 \/ DeadLettered(n) \/ Held(n) => Enqueued(n)
  /\ \A c \in Calls : callPc[c] \in {"checked", "saved"} => fresh[c] # {}

(* The life of a call.                                                     *)
LEMMA CallSteps ==
  ASSUME TypeOK, [Next]_vars, NEW c \in Calls
  PROVE  \/ callPc'[c] = callPc[c] /\ fresh'[c] = fresh[c]
         \/ callPc[c] = "idle" /\ callPc'[c] = "checked" /\ fresh'[c] # {}
         \/ callPc[c] = "idle" /\ callPc'[c] = "replied"
         \/ Save(c) /\ callPc'[c] = "saved" /\ fresh'[c] = fresh[c]
         \/ callPc[c] = "saved" /\ callPc'[c] = "replied"
         \/ callPc[c] \in {"checked", "saved"} /\ callPc'[c] = "died"
<1>1. CASE Check(c)
  BY <1>1 DEF Check, TypeOK, ApiOK
<1>2. CASE Save(c) \/ Enqueue(c) \/ ApiDie(c)
  BY <1>2 DEF Save, Enqueue, ApiDie, TypeOK, ApiOK
<1>3. ASSUME NEW d \in Calls, d # c, Check(d) \/ Save(d) \/ Enqueue(d) \/ ApiDie(d)
      PROVE  callPc'[c] = callPc[c] /\ fresh'[c] = fresh[c]
  BY <1>3 DEF Check, Save, Enqueue, ApiDie, TypeOK, ApiOK
<1>4. ASSUME NEW w \in Workers, StartSweep(w) \/ Loop(w) \/ Crash(w) \/ Restart(w) \/ Deliver(w)
      PROVE  UNCHANGED <<callPc, fresh>>
  BY <1>4 DEF StartSweep, Loop, Claim, ReadCritical, ReadNormal, Fetch, Ack, BatchError,
     Crash, Restart, Deliver, SendOk, SendFails, LateSend, SaveOutcome, EnqueueDlq, TaskError,
     apiVars
<1>5. ASSUME \/ Expiry \/ Admin \/ UNCHANGED vars
             \/ \E t \in Streams : \E i \in Pending(t) : Age(t, i)
      PROVE  UNCHANGED <<callPc, fresh>>
  BY <1>5 DEF Expiry, ExpireKey, ExpireHash, Age, Admin, DlqPop, DlqRequeue, DlqDie, vars,
     apiVars
<1>6. QED
  BY <1>1, <1>2, <1>3, <1>4, <1>5 DEF Next, ApiStep

(* A hash appears when a call writes it, or an outcome is stored.          *)
LEMMA HashSteps ==
  ASSUME TypeOK, [Next]_vars, NEW n \in Nids, status'[n] # "gone"
  PROVE  \/ status[n] # "gone"
         \/ \E c \in Calls : Save(c) /\ n \in Created(c)
         \/ \E w \in Workers : \E i \in Batch(w) : SaveOutcome(w, i) /\ NidOf(w, i) = n
<1>1. CASE UNCHANGED status
  BY <1>1
<1>2. ASSUME NEW c \in Calls, Save(c), n \notin Created(c)
      PROVE  status'[n] = status[n]
  BY <1>2 DEF Save
<1>3. ASSUME NEW w \in Workers, NEW i \in Batch(w), SaveOutcome(w, i), NidOf(w, i) # n
      PROVE  status'[n] = status[n]
  BY <1>3 DEF SaveOutcome, SaveStatus, TypeOK, StoreOK
<1>4. ASSUME NEW w \in Workers, Deliver(w), \A i \in Batch(w) : ~ SaveOutcome(w, i)
      PROVE  UNCHANGED status
  BY <1>4 DEF Deliver, SendOk, SendFails, LateSend, EnqueueDlq, TaskError, storeVars
<1>5. ASSUME NEW w \in Workers, StartSweep(w) \/ Loop(w) \/ Crash(w) \/ Restart(w)
      PROVE  UNCHANGED status
  BY <1>5 DEF StartSweep, Loop, Claim, ReadCritical, ReadNormal, Fetch, Ack, BatchError,
     Crash, Restart, storeVars
<1>6. ASSUME Expiry PROVE status'[n] \in {status[n], "gone"}
  BY <1>6 DEF Expiry, ExpireKey, ExpireHash, TypeOK, StoreOK
<1>7. ASSUME \/ \E c \in Calls : Check(c) \/ Enqueue(c) \/ ApiDie(c)
             \/ Admin \/ UNCHANGED vars
             \/ \E t \in Streams : \E i \in Pending(t) : Age(t, i)
      PROVE  UNCHANGED status
  BY <1>7 DEF Check, Enqueue, ApiDie, Age, Admin, DlqPop, DlqRequeue, DlqDie, vars, storeVars
<1>8. QED
  BY <1>1, <1>2, <1>3, <1>4, <1>5, <1>6, <1>7 DEF Next, ApiStep

(* A notification is sent by its delivery, or by one that timed out; a     *)
(* delivery that times out is one of a message of the worker's batch.      *)
LEMMA SendSteps ==
  ASSUME TypeOK, [Next]_vars, NEW n \in Nids
  PROVE  /\ sends'[n] > 0 => \/ sends[n] > 0
                             \/ \E w \in Workers : \/ \E i \in Batch(w) : SendOk(w, i) /\ NidOf(w, i) = n
                                                   \/ LateSend(w, n)
         /\ Held(n)' => \/ Held(n)
                        \/ \E w \in Workers : \E i \in Batch(w) : NidOf(w, i) = n
<1>1. CASE UNCHANGED <<sends, abandoned>>
  BY <1>1 DEF Held
<1>2. ASSUME NEW m \in Nids, Sent(m), n # m PROVE sends'[n] = sends[n]
  BY <1>2 DEF Sent, TypeOK, HistoryOK
<1>3. ASSUME NEW w \in Workers, NEW i \in Batch(w), SendOk(w, i)
      PROVE  NidOf(w, i) \in Nids /\ Sent(NidOf(w, i)) /\ UNCHANGED abandoned
  BY <1>3, BatchEntry DEF SendOk
<1>4. ASSUME NEW w \in Workers, NEW m \in Nids, LateSend(w, m)
      PROVE  Sent(m) /\ (Held(n)' => Held(n))
  BY <1>4 DEF LateSend, Held, TypeOK, WorkerOK
<1>5. ASSUME NEW w \in Workers, NEW i \in Batch(w), SendFails(w, i)
      PROVE  UNCHANGED sends /\ (Held(n)' => Held(n) \/ NidOf(w, i) = n)
  BY <1>5 DEF SendFails, Held, TypeOK, WorkerOK
<1>6. ASSUME NEW w \in Workers, NEW i \in Batch(w),
             SaveOutcome(w, i) \/ EnqueueDlq(w, i) \/ TaskError(w, i)
      PROVE  UNCHANGED <<sends, abandoned>>
  BY <1>6 DEF SaveOutcome, EnqueueDlq, TaskError
<1>7. ASSUME NEW w \in Workers, Crash(w)
      PROVE  UNCHANGED sends /\ (Held(n)' => Held(n))
  BY <1>7 DEF Crash, Held, TypeOK, WorkerOK
<1>8. ASSUME NEW w \in Workers, StartSweep(w) \/ Loop(w) \/ Restart(w)
      PROVE  UNCHANGED <<sends, abandoned>>
  BY <1>8 DEF StartSweep, Loop, Claim, ReadCritical, ReadNormal, Fetch, Ack, BatchError,
     Restart
<1>9. ASSUME \/ ApiStep \/ Expiry \/ Admin \/ UNCHANGED vars
             \/ \E t \in Streams : \E i \in Pending(t) : Age(t, i)
      PROVE  UNCHANGED <<sends, abandoned>>
  BY <1>9 DEF ApiStep, Check, Save, Enqueue, ApiDie, Expiry, ExpireKey, ExpireHash, Age,
     Admin, DlqPop, DlqRequeue, DlqDie, vars, workerVars
<1>10. ASSUME NEW w \in Workers, Deliver(w)
       PROVE  /\ sends'[n] > 0 => \/ sends[n] > 0
                                  \/ \E i \in Batch(w) : SendOk(w, i) /\ NidOf(w, i) = n
                                  \/ LateSend(w, n)
              /\ Held(n)' => Held(n) \/ \E i \in Batch(w) : NidOf(w, i) = n
  <2>1. ASSUME NEW i \in Batch(w), SendOk(w, i)
        PROVE  /\ sends'[n] > 0 => sends[n] > 0 \/ NidOf(w, i) = n
               /\ Held(n)' => Held(n)
    BY <1>2, <1>3, <2>1 DEF Held
  <2>2. ASSUME NEW m \in Nids, LateSend(w, m)
        PROVE  /\ sends'[n] > 0 => sends[n] > 0 \/ m = n
               /\ Held(n)' => Held(n)
    BY <1>2, <1>4, <2>2
  <2>3. ASSUME UNCHANGED <<sends, abandoned>>
        PROVE  (sends'[n] > 0 => sends[n] > 0) /\ (Held(n)' => Held(n))
    BY <2>3 DEF Held
  <2>4. QED
    BY <1>5, <1>6, <1>10, <2>1, <2>2, <2>3 DEF Deliver
<1>11. QED
  BY <1>1, <1>7, <1>8, <1>9, <1>10 DEF Next

(* A message of a batch is in a stream.                                    *)
LEMMA BatchEnqueued ==
  ASSUME TypeOK, NEW w \in Workers, NEW i \in Batch(w)
  PROVE  NidOf(w, i) \in Nids /\ Enqueued(NidOf(w, i))
BY BatchEntry DEF Enqueued, Elements, NidOf

(* An id comes to a stream by its call; the retry only adds it again.      *)
LEMMA EnqueuedSteps ==
  ASSUME TypeOK, Beginnings, [Next]_vars, NEW n \in Nids
  PROVE  /\ Enqueued(n) => Enqueued(n)'
         /\ Enqueued(n)' => Enqueued(n) \/ \E c \in Calls : Enqueue(c) /\ n \in Created(c)
<1>1. ASSUME Enqueued(n) PROVE Enqueued(n)'
  <2>1. PICK s \in Streams : \E i \in DOMAIN log[s] : log[s][i] = n
    BY <1>1 DEF Enqueued, Elements
  <2>2. \E i \in DOMAIN log'[s] : log'[s][i] = n
    BY <2>1, StreamsGrow
  <2>3. QED
    BY <2>2 DEF Enqueued, Elements
<1>2. ASSUME Enqueued(n)', ~ Enqueued(n)
      PROVE  \E c \in Calls : Enqueue(c) /\ n \in Created(c)
  <2>1. PICK s \in Streams : \E i \in DOMAIN log'[s] : log'[s][i] = n
    BY <1>2 DEF Enqueued, Elements
  <2>2. PICK i \in DOMAIN log'[s] : log'[s][i] = n
    BY <2>1
  <2>3. i \notin DOMAIN log[s]
    BY <1>2, <2>2, StreamsGrow DEF Enqueued, Elements
  <2>4. n \notin Elements(hand)
    BY <1>2 DEF Beginnings, DeadLettered
  <2>5. QED
    BY <2>2, <2>3, <2>4, StreamsGrow
<1>3. QED
  BY <1>1, <1>2

LEMMA BeginningsKept ==
  ASSUME Lossless, TypeOK, Stored, Beginnings, [Next]_vars
  PROVE  Beginnings'
<1>1. ASSUME NEW c \in Calls, callPc[c] = "replied" PROVE callPc'[c] = "replied"
  BY <1>1, CallSteps DEF Save
<1>2. ASSUME NEW n \in Nids PROVE n[1] \in Calls
  BY <1>2 DEF Nids
<1>3. ASSUME NEW n \in Nids, Enqueued(n)' PROVE callPc'[n[1]] = "replied"
  <2>1. CASE Enqueued(n)
    BY <1>1, <1>2, <2>1 DEF Beginnings
  <2>2. ASSUME NEW c \in Calls, Enqueue(c), n \in Created(c) PROVE callPc'[n[1]] = "replied"
    BY <2>2 DEF Enqueue, Created, TypeOK, ApiOK
  <2>3. QED
    BY <1>3, <2>1, <2>2, EnqueuedSteps
<1>4. ASSUME NEW n \in Nids, status'[n] # "gone"
      PROVE  callPc'[n[1]] \notin {"idle", "checked"}
  <2>1. CASE status[n] # "gone"
    BY <1>2, <2>1, CallSteps DEF Beginnings
  <2>2. ASSUME NEW c \in Calls, Save(c), n \in Created(c)
        PROVE  callPc'[n[1]] \notin {"idle", "checked"}
    BY <2>2 DEF Save, Created, TypeOK, ApiOK
  <2>3. ASSUME NEW w \in Workers, NEW i \in Batch(w), NidOf(w, i) = n PROVE status[n] # "gone"
    BY <2>3, BatchEnqueued DEF Stored
  <2>4. QED
    BY <1>4, <2>1, <2>2, <2>3, HashSteps
<1>5. ASSUME NEW n \in Nids, sends'[n] > 0 \/ DeadLettered(n)' \/ Held(n)'
      PROVE  Enqueued(n)'
  <2>1. ASSUME NEW w \in Workers, NEW i \in Batch(w), NidOf(w, i) = n PROVE Enqueued(n)
    BY <2>1, BatchEnqueued
  <2>2. ASSUME NEW w \in Workers, LateSend(w, n) PROVE Held(n)
    BY <2>2 DEF LateSend, Held
  <2>3. sends[n] > 0 \/ DeadLettered(n) \/ Held(n) \/ Enqueued(n)
    BY <1>5, <2>1, <2>2, SendSteps, DeadLetters DEF Lossless
  <2>4. QED
    BY <2>3, EnqueuedSteps DEF Beginnings
<1>6. ASSUME NEW c \in Calls, callPc'[c] \in {"checked", "saved"} PROVE fresh'[c] # {}
  BY <1>6, CallSteps DEF Beginnings, Save
<1>7. QED
  BY <1>3, <1>4, <1>5, <1>6 DEF Beginnings

(* The life of a notification, read from the four facts.                   *)
LEMMA LifeIs ==
  ASSUME NothingLost, NEW n \in Nids
  PROVE  Life(n) = IF sends[n] > 0 THEN "delivered"
                   ELSE IF DeadLettered(n) THEN "dead"
                   ELSE IF Enqueued(n) THEN "queued"
                   ELSE IF status[n] # "gone" THEN "stored"
                   ELSE "absent"
<1>1. Queued(n) => Enqueued(n)
  BY DEF Queued, Live, Enqueued, Elements
<1>2. Enqueued(n) => sends[n] > 0 \/ DeadLettered(n) \/ Queued(n)
  BY DEF NothingLost
<1>3. QED
  BY <1>1, <1>2 DEF Life

LEMMA NextLifeIs ==
  ASSUME NothingLost', NEW n \in Nids
  PROVE  Life(n)' = IF sends'[n] > 0 THEN "delivered"
                    ELSE IF DeadLettered(n)' THEN "dead"
                    ELSE IF Enqueued(n)' THEN "queued"
                    ELSE IF status'[n] # "gone" THEN "stored"
                    ELSE "absent"
<1>1. Queued(n)' => Enqueued(n)'
  BY DEF Queued, Live, Enqueued, Elements
<1>2. Enqueued(n)' => sends'[n] > 0 \/ DeadLettered(n)' \/ Queued(n)'
  BY DEF NothingLost
<1>3. QED
  BY <1>1, <1>2 DEF Life

(* The steps that begin a stage of a life.                                 *)
LEMMA SaveBegins ==
  ASSUME Lossless, TypeOK, Stored, Beginnings, NothingLost, NothingLost', [Next]_vars,
         NEW c \in Calls, Save(c)
  PROVE  /\ Created(c) # {} /\ Created(c) \subseteq Nids
         /\ \A n \in Created(c) : Life(n) = "absent" /\ Life(n)' = "stored"
         /\ \A n \in Nids \ Created(c) : Life(n)' = Life(n)
<1>1. Created(c) # {} /\ Created(c) \subseteq Nids
  BY CreatedFinite DEF Save, Beginnings, Created
<1>2. UNCHANGED <<sends, dlq, hand, log>>
  BY DEF Save, streamVars, adminVars
<1>3. ASSUME NEW n \in Nids
      PROVE  /\ sends'[n] = sends[n]
             /\ DeadLettered(n)' <=> DeadLettered(n)
             /\ Enqueued(n)' <=> Enqueued(n)
  BY <1>2 DEF DeadLettered, Enqueued
<1>4. ASSUME NEW n \in Created(c)
      PROVE  Life(n) = "absent" /\ Life(n)' = "stored"
  <2>1. n \in Nids /\ callPc[n[1]] = "checked"
    BY <1>1 DEF Created, Save
  <2>2. status[n] = "gone" /\ ~ Enqueued(n) /\ ~ (sends[n] > 0) /\ ~ DeadLettered(n)
    BY <2>1 DEF Beginnings
  <2>3. status'[n] # "gone"
    BY <2>1 DEF Save
  <2>4. QED
    BY <1>3, <2>1, <2>2, <2>3, LifeIs, NextLifeIs
<1>5. ASSUME NEW n \in Nids \ Created(c) PROVE Life(n)' = Life(n)
  <2>1. status'[n] = status[n]
    BY DEF Save
  <2>2. QED
    BY <1>3, <2>1, LifeIs, NextLifeIs
<1>6. QED
  BY <1>1, <1>4, <1>5

LEMMA EnqueueBegins ==
  ASSUME Lossless, TypeOK, Stored, Beginnings, NothingLost, NothingLost', [Next]_vars,
         NEW c \in Calls, Enqueue(c)
  PROVE  /\ Created(c) # {} /\ Created(c) \subseteq Nids
         /\ \A n \in Created(c) : Life(n) = "stored" /\ Life(n)' = "queued"
         /\ \A n \in Nids \ Created(c) : Life(n)' = Life(n)
<1>0. callPc[c] = "saved"
  BY DEF Enqueue
<1>1. Created(c) # {} /\ Created(c) \subseteq Nids
  BY <1>0, CreatedFinite DEF Beginnings, Created
<1>2. UNCHANGED <<sends, dlq, hand, status>>
  BY DEF Enqueue, storeVars, adminVars
<1>3. ASSUME NEW n \in Nids
      PROVE  /\ sends'[n] = sends[n] /\ status'[n] = status[n]
             /\ DeadLettered(n)' <=> DeadLettered(n)
  BY <1>2 DEF DeadLettered
<1>4. ASSUME NEW n \in Created(c)
      PROVE  Enqueued(n)'
  <2>1. PICK q \in Orders(Created(c)) : log' = [log EXCEPT ![StreamOf(c)] = @ \o q]
    BY DEF Enqueue
  <2>2. PICK i \in DOMAIN q : q[i] = n
    BY <1>4 DEF Orders
  <2>3. q \in Seq(Nids)
    <3>1. q \in Seq(Created(c))
      BY CreatedFinite, OrdersAreSequences
    <3>2. QED
      BY <1>1, <3>1, SeqMonotonic
  <2>4. PICK s \in Streams : s = StreamOf(c)
    BY DEF StreamOf, Streams
  <2>5. log[s] \in Seq(Nids) /\ log'[s] = log[s] \o q
    BY <2>1, <2>4 DEF TypeOK, StreamOK
  <2>6. /\ Len(log[s]) \in Nat /\ Len(q) \in Nat /\ i \in 1 .. Len(q)
        /\ DOMAIN log'[s] = 1 .. Len(log[s]) + Len(q)
        /\ \A j \in 1 .. Len(log[s]) + Len(q) :
             log'[s][j] = IF j <= Len(log[s]) THEN log[s][j] ELSE q[j - Len(log[s])]
    BY <2>2, <2>3, <2>5, ConcatProperties, LenProperties
  <2>7. Len(log[s]) + i \in DOMAIN log'[s] /\ log'[s][Len(log[s]) + i] = n
    BY <2>2, <2>6
  <2>8. QED
    BY <2>7 DEF Enqueued, Elements
<1>5. ASSUME NEW n \in Created(c)
      PROVE  Life(n) = "stored" /\ Life(n)' = "queued"
  <2>1. n \in Nids /\ callPc[n[1]] = "saved"
    BY <1>1 DEF Created, Enqueue
  <2>2. status[n] # "gone" /\ ~ Enqueued(n) /\ ~ (sends[n] > 0) /\ ~ DeadLettered(n)
    BY <2>1 DEF Beginnings, Stored, Enqueue
  <2>3. QED
    BY <1>3, <1>4, <2>1, <2>2, LifeIs, NextLifeIs
<1>6. ASSUME NEW n \in Nids \ Created(c) PROVE Life(n)' = Life(n)
  <2>1. Enqueued(n)' <=> Enqueued(n)
    <3>1. ASSUME NEW d \in Calls, Enqueue(d), n \in Created(d) PROVE d = c
      BY <3>1 DEF Enqueue, TypeOK, ApiOK
    <3>2. QED
      BY <3>1, EnqueuedSteps
  <2>2. QED
    BY <1>3, <2>1, LifeIs, NextLifeIs
<1>7. QED
  BY <1>1, <1>5, <1>6

(* A send that took effect, late or not.                                   *)
LEMMA SendDelivers ==
  ASSUME Lossless, TypeOK, Stored, Beginnings, NothingLost, NothingLost', [Next]_vars,
         NEW m \in Nids, Enqueued(m), Sent(m), UNCHANGED <<dlq, hand, log, status>>
  PROVE  /\ Life(m) \in {"queued", "dead", "delivered"} /\ Life(m)' = "delivered"
         /\ \A n \in Nids \ {m} : Life(n)' = Life(n)
<1>1. ASSUME NEW n \in Nids
      PROVE  /\ status'[n] = status[n]
             /\ DeadLettered(n)' <=> DeadLettered(n)
             /\ Enqueued(n)' <=> Enqueued(n)
  BY DEF DeadLettered, Enqueued
<1>2. sends'[m] > 0 /\ \A n \in Nids \ {m} : sends'[n] = sends[n]
  <2>1. sends \in [Nids -> 0 .. SendCap] /\ SendCap \in Nat \ {0}
    BY SizesAssumption DEF TypeOK, HistoryOK
  <2>2. QED
    BY <2>1 DEF Sent
<1>3. Life(m) \in {"queued", "dead", "delivered"}
  BY LifeIs
<1>4. Life(m)' = "delivered"
  BY <1>2, NextLifeIs
<1>5. ASSUME NEW n \in Nids \ {m} PROVE Life(n)' = Life(n)
  BY <1>1, <1>2, LifeIs, NextLifeIs
<1>6. QED
  BY <1>3, <1>4, <1>5

LEMMA DeadLetterBegins ==
  ASSUME Lossless, TypeOK, Stored, Beginnings, NothingLost, NothingLost', [Next]_vars,
         NEW w \in Workers, NEW i \in Batch(w), EnqueueDlq(w, i),
         NEW m \in Nids, m = NidOf(w, i)
  PROVE  /\ \/ Life(m)' = Life(m)
            \/ Life(m) = "queued" /\ Life(m)' = "dead"
         /\ \A n \in Nids \ {m} : Life(n)' = Life(n)
<1>1. UNCHANGED <<sends, hand, log, status>> /\ dlq' = Append(dlq, m)
  BY DEF EnqueueDlq, streamVars, storeVars, adminVars
<1>2. ASSUME NEW n \in Nids
      PROVE  /\ sends'[n] = sends[n] /\ status'[n] = status[n]
             /\ Enqueued(n)' <=> Enqueued(n)
             /\ DeadLettered(n)' <=> DeadLettered(n) \/ n = m
  <2>1. Elements(dlq') = Elements(dlq) \cup {m}
    BY <1>1, ElementsOfAppend DEF TypeOK, DlqOK
  <2>2. QED
    BY <1>1, <2>1 DEF DeadLettered, Enqueued, Elements
<1>3. Enqueued(m)
  BY BatchEnqueued
<1>4. ASSUME NEW n \in Nids, n # m \/ sends[n] > 0 \/ DeadLettered(n) PROVE Life(n)' = Life(n)
  BY <1>2, <1>4, LifeIs, NextLifeIs
<1>5. CASE ~ (sends[m] > 0) /\ ~ DeadLettered(m)
  BY <1>2, <1>3, <1>4, <1>5, LifeIs, NextLifeIs
<1>6. QED
  BY <1>4, <1>5

LEMMA RequeueBegins ==
  ASSUME Lossless, TypeOK, Stored, Beginnings, NothingLost, NothingLost', [Next]_vars,
         DlqRequeue, NEW m \in Nids, m = Head(hand)
  PROVE  /\ \/ Life(m)' = Life(m)
            \/ Life(m) = "dead" /\ Life(m)' = "queued"
         /\ \A n \in Nids \ {m} : Life(n)' = Life(n)
<1>1. UNCHANGED <<sends, dlq, status>> /\ hand # <<>> /\ hand' = Tail(hand)
  BY DEF DlqRequeue, storeVars
<1>2. Elements(hand) = Elements(hand') \cup {m}
  BY <1>1, ElementsOfTail DEF TypeOK, DlqOK
<1>3. DeadLettered(m) /\ Enqueued(m)
  BY <1>2 DEF DeadLettered, Beginnings
<1>4. ASSUME NEW n \in Nids
      PROVE  /\ sends'[n] = sends[n] /\ status'[n] = status[n]
             /\ Enqueued(n)' <=> Enqueued(n)
             /\ DeadLettered(n)' => DeadLettered(n)
             /\ DeadLettered(n) => DeadLettered(n)' \/ n = m
  <2>1. Enqueued(n)' <=> Enqueued(n)
    <3>1. ~ \E c \in Calls : Enqueue(c)
      BY <1>1 DEF Enqueue, adminVars
    <3>2. QED
      BY <3>1, EnqueuedSteps
  <2>2. QED
    BY <1>1, <1>2, <2>1 DEF DeadLettered, Elements
<1>5. ASSUME NEW n \in Nids, n # m \/ sends[n] > 0 \/ DeadLettered(n)' PROVE Life(n)' = Life(n)
  BY <1>4, <1>5, LifeIs, NextLifeIs
<1>6. CASE ~ (sends[m] > 0) /\ ~ DeadLettered(m)'
  BY <1>3, <1>4, <1>6, LifeIs, NextLifeIs
<1>7. QED
  BY <1>5, <1>6

(* Every step is one of these, or changes no life.                         *)
LEMMA OtherSteps ==
  ASSUME Lossless, TypeOK, Stored, Beginnings, NothingLost, NothingLost', [Next]_vars,
         \A c \in Calls : ~ Save(c) /\ ~ Enqueue(c),
         \A w \in Workers : \A i \in Batch(w) : ~ SendOk(w, i) /\ ~ EnqueueDlq(w, i),
         \A w \in Workers, n \in Nids : ~ LateSend(w, n),
         ~ DlqRequeue,
         NEW n \in Nids
  PROVE  Life(n)' = Life(n)
<1>1. sends'[n] > 0 <=> sends[n] > 0
  BY SendsGrow, SendSteps
<1>2. DeadLettered(n)' <=> DeadLettered(n)
  BY DeadLetters DEF Lossless
<1>3. Enqueued(n)' <=> Enqueued(n)
  BY EnqueuedSteps
<1>4. status'[n] # "gone" <=> status[n] # "gone"
  <2>1. ASSUME NEW w \in Workers, NEW i \in Batch(w), NidOf(w, i) = n PROVE status[n] # "gone"
    BY <2>1, BatchEnqueued DEF Stored
  <2>2. QED
    BY <2>1, StatusKept, HashSteps
<1>5. QED
  BY <1>1, <1>2, <1>3, <1>4, LifeIs, NextLifeIs

LEMMA LifeBecomes ==
  ASSUME NEW S \in SUBSET Nids, S # {}, NEW from, NEW to,
         \A n \in S : Life(n) \in from /\ Life(n)' = to,
         \A n \in Nids \ S : Life(n)' = Life(n)
  PROVE  Contract!Becomes(S, from, to)
BY DEF Contract!Becomes

LEMMA NextImplements ==
  ASSUME Lossless, TypeOK, Stored, Beginnings, NothingLost, NothingLost', [Next]_vars
  PROVE  Contract!Next \/ \A n \in Nids : Life(n)' = Life(n)
<1>1. ASSUME NEW c \in Calls, Save(c) PROVE Contract!Next
  <2>1. Contract!Becomes(Created(c), {"absent"}, "stored")
    BY <1>1, SaveBegins, LifeBecomes
  <2>2. QED
    BY <1>1, <2>1, SaveBegins DEF Contract!Next
<1>2. ASSUME NEW c \in Calls, Enqueue(c) PROVE Contract!Next
  <2>1. Contract!Becomes(Created(c), {"stored"}, "queued")
    BY <1>2, EnqueueBegins, LifeBecomes
  <2>2. QED
    BY <1>2, <2>1, EnqueueBegins DEF Contract!Next
<1>3. ASSUME NEW m \in Nids, NEW from, NEW to, Contract!Becomes({m}, from, to),
             \/ from = {"queued", "dead"} /\ to = "delivered"
             \/ from = {"queued"} /\ to = "dead"
             \/ from = {"dead"} /\ to = "queued"
      PROVE  Contract!Next
  BY <1>3 DEF Contract!Next
<1>4. ASSUME NEW m \in Nids, Enqueued(m), Sent(m), UNCHANGED <<dlq, hand, log, status>>
      PROVE  Contract!Next \/ \A n \in Nids : Life(n)' = Life(n)
  <2>1. CASE Life(m) = "delivered"
    BY <1>4, <2>1, SendDelivers
  <2>2. CASE Life(m) \in {"queued", "dead"}
    <3>1. Contract!Becomes({m}, {"queued", "dead"}, "delivered")
      BY <1>4, <2>2, SendDelivers, LifeBecomes
    <3>2. QED
      BY <1>3, <3>1
  <2>3. QED
    BY <1>4, <2>1, <2>2, SendDelivers
<1>5. ASSUME NEW w \in Workers, NEW i \in Batch(w), SendOk(w, i)
      PROVE  Contract!Next \/ \A n \in Nids : Life(n)' = Life(n)
  <2>1. PICK m \in Nids : m = NidOf(w, i) /\ Enqueued(m)
    BY BatchEnqueued
  <2>2. Sent(m) /\ UNCHANGED <<dlq, hand, log, status>>
    BY <1>5, <2>1 DEF SendOk, storeVars, streamVars, adminVars
  <2>3. QED
    BY <1>4, <2>1, <2>2
<1>6. ASSUME NEW w \in Workers, NEW m \in Nids, LateSend(w, m)
      PROVE  Contract!Next \/ \A n \in Nids : Life(n)' = Life(n)
  <2>1. Sent(m) /\ UNCHANGED <<dlq, hand, log, status>>
    BY <1>6 DEF LateSend, storeVars, streamVars, adminVars
  <2>2. Enqueued(m)
    BY <1>6 DEF LateSend, Beginnings, Held
  <2>3. QED
    BY <1>4, <2>1, <2>2
<1>7. ASSUME NEW w \in Workers, NEW i \in Batch(w), EnqueueDlq(w, i)
      PROVE  Contract!Next \/ \A n \in Nids : Life(n)' = Life(n)
  <2>1. PICK m \in Nids : m = NidOf(w, i)
    BY BatchEnqueued
  <2>2. CASE Life(m) = "queued" /\ Life(m)' = "dead"
    <3>1. Contract!Becomes({m}, {"queued"}, "dead")
      BY <1>7, <2>1, <2>2, DeadLetterBegins, LifeBecomes
    <3>2. QED
      BY <1>3, <3>1
  <2>3. CASE Life(m)' = Life(m)
    BY <1>7, <2>1, <2>3, DeadLetterBegins
  <2>4. QED
    BY <1>7, <2>1, <2>2, <2>3, DeadLetterBegins
<1>8. ASSUME DlqRequeue
      PROVE  Contract!Next \/ \A n \in Nids : Life(n)' = Life(n)
  <2>1. PICK m \in Nids : m = Head(hand)
    BY <1>8, HeadTailProperties DEF DlqRequeue, TypeOK, DlqOK
  <2>2. CASE Life(m) = "dead" /\ Life(m)' = "queued"
    <3>1. Contract!Becomes({m}, {"dead"}, "queued")
      BY <1>8, <2>1, <2>2, RequeueBegins, LifeBecomes
    <3>2. QED
      BY <1>3, <3>1
  <2>3. CASE Life(m)' = Life(m)
    BY <1>8, <2>1, <2>3, RequeueBegins
  <2>4. QED
    BY <1>8, <2>1, <2>2, <2>3, RequeueBegins
<1>9. QED
  BY <1>1, <1>2, <1>5, <1>6, <1>7, <1>8, OtherSteps

(* At-least-once delivery with a dead-letter queue: while no command fails *)
(* and nothing expires, every notification runs through the life that      *)
(* DeliveryContract describes and leaves "queued" only for a delivery or   *)
(* the dead-letter queue - with any number of requests, worker crashes,    *)
(* stolen batches, late sends and retries of dead letters.                 *)
THEOREM PipelineImplementsContract == ASSUME Lossless PROVE Spec => ImplementsContract
<1> DEFINE IInv == Stored /\ StagesTrue /\ NothingLost /\ Beginnings
<1>1. Init => IInv
  <2>1. SUFFICES ASSUME Init PROVE IInv
    OBVIOUS
  <2>2. \A n \in Nids : ~ Enqueued(n) /\ ~ DeadLettered(n)
    BY <2>1 DEF Init, Enqueued, DeadLettered, Elements, Streams
  <2>3. \A w \in Workers : Batch(w) = {}
    BY <2>1 DEF Init, Batch, NoBatch
  <2>4. \A c \in Calls : callPc[c] = "idle"
    BY <2>1 DEF Init
  <2>5. \A n \in Nids : ~ (sends[n] > 0) /\ ~ Held(n) /\ status[n] = "gone"
    BY <2>1 DEF Init, Held
  <2>6. QED
    BY <2>2, <2>3, <2>4, <2>5 DEF Stored, StagesTrue, NothingLost, Beginnings
<1>2. TypeOK /\ IInv /\ [Next]_vars => IInv'
  BY StoredKept, StagesTrueKept, NothingLostKept, BeginningsKept
<1>3. Init => Contract!Init
  <2>1. SUFFICES ASSUME Init, NEW n \in Nids PROVE Life(n) = "absent"
    BY DEF Contract!Init
  <2>2. ~ Queued(n) /\ ~ DeadLettered(n) /\ ~ (sends[n] > 0) /\ status[n] = "gone"
    BY <2>1 DEF Init, Queued, Live, DeadLettered, Elements, Streams
  <2>3. QED
    BY <2>2 DEF Life
<1>4. TypeOK /\ IInv /\ IInv' /\ [Next]_vars => [Contract!Next]_([n \in Nids |-> Life(n)])
  BY NextImplements
<1>5. QED
  BY <1>1, <1>2, <1>3, <1>4, TypeCorrect, PTL DEF Spec, ImplementsContract, Contract!Spec
=============================================================================
