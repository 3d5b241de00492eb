------------------------ MODULE TaskSchedulerProofs ------------------------
(***************************************************************************)
(* Proofs about TaskScheduler, for any number of jobs and schedulers: its  *)
(* type invariant, that one scheduler executes a job at most once, that    *)
(* "completed" is true, that cancellations hold, and that no job is lost   *)
(* while nothing crashes or fails.                                         *)
(***************************************************************************)
EXTENDS TaskScheduler, FunctionTheorems, FiniteSetTheorems, SequenceTheorems, TLAPS

-----------------------------------------------------------------------------
(* Sequences of jobs.                                                      *)

Elements(q) == {q[i] : i \in DOMAIN q}
Distinct(q) == \A i, k \in DOMAIN q : q[i] = q[k] => i = k

(* The queries' results: as many jobs as there are due, each of them once. *)
LEMMA OrderOfDue ==
  ASSUME NEW S, S \subseteq Jobs, NEW q \in Orders(S)
  PROVE  /\ q \in Seq(Jobs)
         /\ S # {} => q # <<>>
         /\ Elements(q) = S
         /\ Distinct(q)
<1>1. IsFiniteSet(S) /\ Cardinality(S) \in Nat
  BY JobsAssumption, FS_Subset, FS_CardinalityType
<1>2. q \in [1 .. Cardinality(S) -> S]
  BY DEF Orders
<1>3. q \in Seq(S) /\ Len(q) = Cardinality(S) /\ DOMAIN q = 1 .. Cardinality(S)
  BY <1>1, <1>2, SeqDef, LenProperties
<1>4. q \in Seq(Jobs)
  BY <1>1, <1>2, SeqDef
<1>5. S # {} => q # <<>>
  BY <1>1, <1>3, FS_EmptySet
<1>6. Elements(q) = S
  <2>1. \A x \in S : \E i \in DOMAIN q : q[i] = x
    BY DEF Orders
  <2>2. \A i \in DOMAIN q : q[i] \in S
    BY <1>2, <1>3
  <2>3. QED
    BY <2>1, <2>2 DEF Elements
<1>7. Distinct(q)
  <2>1. q \in Surjection(1 .. Cardinality(S), S)
    BY <1>2, Fun_IsSurj DEF Orders
  <2>2. IsFiniteSet(1 .. Cardinality(S)) /\ Cardinality(1 .. Cardinality(S)) = Cardinality(S)
    BY <1>1, FS_Interval
  <2>3. q \in Injection(1 .. Cardinality(S), S)
    BY <2>1, <2>2, FS_SurjSameCardinalityImpliesInj
  <2>4. QED
    BY <1>3, <2>3, Fun_InjectionProperties DEF Distinct
<1>8. QED
  BY <1>4, <1>5, <1>6, <1>7

LEMMA HeadAndTail ==
  ASSUME NEW q \in Seq(Jobs), q # <<>>
  PROVE  /\ Head(q) \in Jobs /\ Tail(q) \in Seq(Jobs)
         /\ Head(q) \in Elements(q)
         /\ Elements(Tail(q)) \subseteq Elements(q)
         /\ Distinct(q) => Distinct(Tail(q)) /\ Head(q) \notin Elements(Tail(q))
         /\ Len(q) = 1 => Tail(q) = <<>>
         /\ Len(q) # 1 => Tail(q) # <<>>
<1>1. Len(q) \in Nat \ {0} /\ DOMAIN q = 1 .. Len(q) /\ \A i \in 1 .. Len(q) : q[i] \in Jobs
  BY EmptySeq, LenProperties, ElementOfSeq
<1>2. Head(q) = q[1] /\ Tail(q) \in Seq(Jobs) /\ Len(Tail(q)) = Len(q) - 1
      /\ \A i \in 1 .. Len(Tail(q)) : Tail(q)[i] = q[i + 1]
  BY HeadTailProperties
<1>3. DOMAIN Tail(q) = 1 .. Len(q) - 1
  BY <1>2, LenProperties
<1>4. Elements(Tail(q)) \subseteq Elements(q)
  <2>1. \A i \in 1 .. Len(q) - 1 : Tail(q)[i] = q[i + 1] /\ i + 1 \in DOMAIN q
    BY <1>1, <1>2
  <2>2. QED
    BY <1>3, <2>1 DEF Elements
<1>5. ASSUME Distinct(q)
      PROVE  Distinct(Tail(q)) /\ Head(q) \notin Elements(Tail(q))
  <2>1. \A i \in 1 .. Len(q) - 1 : Tail(q)[i] = q[i + 1] /\ i + 1 \in DOMAIN q /\ i + 1 # 1
    BY <1>1, <1>2
  <2>2. Distinct(Tail(q))
    BY <1>1, <1>3, <1>5, <2>1 DEF Distinct
  <2>3. Head(q) \notin Elements(Tail(q))
    BY <1>1, <1>2, <1>3, <1>5, <2>1 DEF Distinct, Elements
  <2>4. QED
    BY <2>2, <2>3
<1>6. Len(q) = 1 => Tail(q) = <<>>
  <2>1. Tail(q) # <<>> => Len(Tail(q)) \in Nat \ {0}
    BY <1>2, EmptySeq
  <2>2. QED
    BY <1>1, <1>2, <2>1
<1>7. Len(q) # 1 => Tail(q) # <<>>
  <2>1. Len(<<>>) = 0
    BY EmptySeq
  <2>2. Tail(q) = <<>> => Len(Tail(q)) = 0
    BY <2>1, Zenon
  <2>3. QED
    BY <1>1, <1>2, <2>2
<1>8. QED
  BY <1>1, <1>2, <1>4, <1>5, <1>6, <1>7 DEF Elements

LEMMA Appended ==
  ASSUME NEW q \in Seq(Jobs), NEW j \in Jobs
  PROVE  /\ Append(q, j) \in Seq(Jobs)
         /\ Elements(Append(q, j)) = Elements(q) \cup {j}
         /\ Distinct(q) /\ j \notin Elements(q) => Distinct(Append(q, j))
<1>1. /\ Append(q, j) \in Seq(Jobs)
      /\ Len(Append(q, j)) = Len(q) + 1
      /\ \A i \in 1 .. Len(q) : Append(q, j)[i] = q[i]
      /\ Append(q, j)[Len(q) + 1] = j
  BY AppendProperties
<1>2. Len(q) \in Nat /\ DOMAIN q = 1 .. Len(q) /\ DOMAIN Append(q, j) = 1 .. Len(q) + 1
  BY <1>1, LenProperties
<1>3. Elements(Append(q, j)) = Elements(q) \cup {j}
  <2>1. \A i \in DOMAIN Append(q, j) : i \in DOMAIN q \/ i = Len(q) + 1
    BY <1>2
  <2>2. DOMAIN q \subseteq DOMAIN Append(q, j) /\ Len(q) + 1 \in DOMAIN Append(q, j)
    BY <1>2
  <2>3. QED
    BY <1>1, <1>2, <2>1, <2>2 DEF Elements
<1>4. ASSUME Distinct(q), j \notin Elements(q)
      PROVE  Distinct(Append(q, j))
  <2>1. SUFFICES ASSUME NEW i \in DOMAIN Append(q, j), NEW k \in DOMAIN Append(q, j),
                        Append(q, j)[i] = Append(q, j)[k]
                 PROVE  i = k
    BY DEF Distinct
  <2>2. CASE i \in DOMAIN q /\ k \in DOMAIN q
    BY <1>1, <1>2, <1>4, <2>1, <2>2 DEF Distinct
  <2>3. CASE i \in DOMAIN q /\ k = Len(q) + 1
    BY <1>1, <1>2, <1>4, <2>1, <2>3 DEF Elements
  <2>4. CASE i = Len(q) + 1 /\ k \in DOMAIN q
    BY <1>1, <1>2, <1>4, <2>1, <2>4 DEF Elements
  <2>5. QED
    BY <1>2, <2>1, <2>2, <2>3, <2>4
<1>5. QED
  BY <1>1, <1>3, <1>4

-----------------------------------------------------------------------------
(* The type invariant.                                                     *)

LEMMA FlushType ==
  ASSUME status \in [Jobs -> Statuses], NEW j \in Jobs, NEW was, NEW new \in Statuses,
         Flush(j, was, new)
  PROVE  status' \in [Jobs -> Statuses]
  BY DEF Flush

LEMMA ThreadType ==
  ASSUME NEW S, NEW pc \in S, NEW j \in Jobs \cup {NoJob}, NEW was \in Statuses
  PROVE  /\ Thread(pc, j, was) \in TaskRec(S)
         /\ Thread(pc, j, was).pc = pc
         /\ Thread(pc, j, was).job = j
         /\ Thread(pc, j, was).was = was
  BY DEF Thread, TaskRec

WorkerPcs == {"idle", "loaded", "running", "executed", "dead"}

WorkersOK ==
  /\ worker \in [Schedulers -> TaskRec(WorkerPcs)]
  /\ \A s \in Schedulers : worker[s].pc \notin {"idle", "dead"} => worker[s].job \in Jobs

\* What a worker's step leaves in its variable.
LEMMA WorkerSet ==
  ASSUME WorkersOK, NEW s \in Schedulers, NEW pc \in WorkerPcs,
         NEW j \in Jobs \cup {NoJob}, NEW was \in Statuses,
         pc \in {"idle", "dead"} \/ j \in Jobs,
         worker' = [worker EXCEPT ![s] = Thread(pc, j, was)]
  PROVE  WorkersOK'
<1>1. /\ Thread(pc, j, was) \in TaskRec(WorkerPcs)
      /\ Thread(pc, j, was).pc = pc
      /\ Thread(pc, j, was).job = j
  BY ThreadType
<1>2. worker' \in [Schedulers -> TaskRec(WorkerPcs)]
  BY <1>1 DEF WorkersOK
<1>3. \A t \in Schedulers : worker'[t] = IF t = s THEN Thread(pc, j, was) ELSE worker[t]
  BY DEF WorkersOK
<1>4. \A t \in Schedulers : worker'[t].pc \notin {"idle", "dead"} => worker'[t].job \in Jobs
  BY <1>1, <1>3 DEF WorkersOK
<1>5. QED
  BY <1>2, <1>4 DEF WorkersOK

LEMMA WorkerFields ==
  ASSUME WorkersOK, NEW s \in Schedulers
  PROVE  /\ worker[s].pc \in WorkerPcs
         /\ worker[s].job \in Jobs \cup {NoJob}
         /\ worker[s].was \in Statuses
  BY DEF WorkersOK, TaskRec

LEMMA WorkersOKInType == TypeOK => WorkersOK
  BY DEF TypeOK, WorkersOK, WorkerPcs

LEMMA TypesAtInit == Init => TypeOK
<1>1. Idle \in TaskRec(WorkerPcs) /\ Idle \in TaskRec({"idle", "loaded"}) /\ Idle.pc = "idle"
  BY DEF Idle, Thread, TaskRec, WorkerPcs, Statuses
<1>2. <<>> \in Seq(Jobs)
  BY EmptySeq
<1>3. QED
  BY <1>1, <1>2 DEF Init, TypeOK, Statuses, WorkerPcs

LEMMA TypesKept == TypeOK /\ [Next]_vars => TypeOK'
<1> SUFFICES ASSUME TypeOK, [Next]_vars
             PROVE  TypeOK'
  OBVIOUS
<1> USE WorkersOKInType
<1>1. CASE UNCHANGED vars
  BY <1>1 DEF TypeOK, vars
<1>2. ASSUME NEW j \in Jobs, Create(j)
      PROVE  TypeOK'
  <2>1. status' \in [Jobs -> Statuses]
    BY <1>2 DEF Create, TypeOK, Statuses
  <2>2. QED
    BY <1>2, <2>1 DEF Create, TypeOK
<1>3. ASSUME NEW j \in Jobs, BecomeDue(j)
      PROVE  TypeOK'
  BY <1>3 DEF BecomeDue, TypeOK
<1>4. ASSUME NEW c \in Cancellers, NEW j \in Jobs, CancelLoad(c, j)
      PROVE  TypeOK'
  <2>1. status[j] \in Statuses
    BY DEF TypeOK
  <2>2. /\ Thread("loaded", j, status[j]) \in TaskRec({"idle", "loaded"})
        /\ Thread("loaded", j, status[j]).job = j
    BY <2>1 DEF Thread, TaskRec
  <2>3. /\ cancel' \in [Cancellers -> TaskRec({"idle", "loaded"})]
        /\ \A d \in Cancellers : cancel'[d].pc = "loaded" => cancel'[d].job \in Jobs
    BY <1>4, <2>2 DEF CancelLoad, TypeOK
  <2>4. QED
    BY <1>4, <2>3 DEF CancelLoad, TypeOK
<1>5. ASSUME NEW c \in Cancellers, CancelCommit(c)
      PROVE  TypeOK'
  <2>1. cancel[c].job \in Jobs
    BY <1>5 DEF CancelCommit, TypeOK
  <2>2. status' \in [Jobs -> Statuses]
    BY <1>5, <2>1, FlushType DEF CancelCommit, TypeOK, Statuses
  <2>3. Idle \in TaskRec({"idle", "loaded"}) /\ Idle.pc = "idle"
    BY DEF Idle, Thread, TaskRec, Statuses
  <2>4. /\ cancel' \in [Cancellers -> TaskRec({"idle", "loaded"})]
        /\ \A d \in Cancellers : cancel'[d].pc = "loaded" => cancel'[d].job \in Jobs
    BY <1>5, <2>3 DEF CancelCommit, TypeOK
  <2>5. QED
    BY <1>5, <2>2, <2>4 DEF CancelCommit, TypeOK
<1>6. ASSUME NEW s \in Schedulers, Scan(s)
      PROVE  TypeOK'
  <2>1. PICK q \in Orders(DueJobs) : batch' = [batch EXCEPT ![s] = q]
    BY <1>6 DEF Scan
  <2>2. DueJobs \subseteq Jobs
    BY DEF DueJobs, TypeOK
  <2>3. q \in Seq(Jobs) /\ q # <<>>
    BY <1>6, <2>2, OrderOfDue DEF Scan
  <2>4. QED
    BY <1>6, <2>1, <2>3 DEF Scan, TypeOK
<1>7. ASSUME NEW s \in Schedulers, Mark(s)
      PROVE  TypeOK'
  <2>1. Head(batch[s]) \in Jobs
    BY <1>7, HeadAndTail DEF Mark, TypeOK
  <2>2. status' \in [Jobs -> Statuses]
    BY <1>7, <2>1 DEF Mark, TypeOK, Statuses
  <2>3. QED
    BY <1>7, <2>2 DEF Mark, TypeOK
<1>8. ASSUME NEW s \in Schedulers, Put(s)
      PROVE  TypeOK'
  <2>1. batch[s] \in Seq(Jobs) /\ batch[s] # <<>> /\ queue[s] \in Seq(Jobs)
    BY <1>8 DEF Put, TypeOK
  <2>2. /\ Head(batch[s]) \in Jobs
        /\ Tail(batch[s]) \in Seq(Jobs)
        /\ Len(batch[s]) # 1 => Tail(batch[s]) # <<>>
    BY <2>1, HeadAndTail
  <2>3. Append(queue[s], Head(batch[s])) \in Seq(Jobs)
    BY <2>1, <2>2, Appended
  <2>4. queue' \in [Schedulers -> Seq(Jobs)]
    BY <1>8, <2>3 DEF Put, TypeOK
  <2>5. /\ batch' \in [Schedulers -> Seq(Jobs)]
        /\ watcher' \in [Schedulers -> {"scan", "mark", "put", "dead"}]
    BY <1>8, <2>2 DEF Put, TypeOK
  <2>6. \A t \in Schedulers : watcher'[t] \in {"mark", "put"} => batch'[t] # <<>>
    BY <1>8, <2>2 DEF Put, TypeOK
  <2>7. QED
    BY <1>8, <2>4, <2>5, <2>6 DEF Put, TypeOK
<1>9. ASSUME NEW s \in Schedulers, WatcherDies(s)
      PROVE  TypeOK'
  BY <1>9, EmptySeq DEF WatcherDies, TypeOK
<1>10. ASSUME NEW s \in Schedulers, Load(s)
       PROVE  TypeOK'
  <2>1. Head(queue[s]) \in Jobs /\ Tail(queue[s]) \in Seq(Jobs)
    BY <1>10, HeadAndTail DEF Load, TypeOK
  <2>2. status[Head(queue[s])] \in Statuses
    BY <2>1 DEF TypeOK
  <2>3. WorkersOK'
    <3>1. CASE status[Head(queue[s])] = "cancelled"
      BY <1>10, <3>1, WorkerSet DEF Load, Idle, WorkerPcs, Statuses
    <3>2. CASE status[Head(queue[s])] # "cancelled"
      BY <1>10, <2>1, <2>2, <3>2, WorkerSet DEF Load, WorkerPcs
    <3>3. QED
      BY <3>1, <3>2
  <2>4. queue' \in [Schedulers -> Seq(Jobs)]
    BY <1>10, <2>1 DEF Load, TypeOK
  <2>5. QED
    BY <1>10, <2>3, <2>4 DEF Load, TypeOK, WorkersOK, WorkerPcs
<1>11. ASSUME NEW s \in Schedulers, Start(s)
       PROVE  TypeOK'
  <2>1. worker[s].job \in Jobs
    BY <1>11 DEF Start, TypeOK
  <2>2. status' \in [Jobs -> Statuses]
    BY <1>11, <2>1, FlushType DEF Start, TypeOK, Statuses
  <2>3. WorkersOK'
    BY <1>11, <2>1, WorkerFields, WorkerSet DEF Start, WorkerPcs
  <2>4. QED
    BY <1>11, <2>2, <2>3 DEF Start, TypeOK, WorkersOK, WorkerPcs
<1>12. ASSUME NEW s \in Schedulers, Execute(s)
       PROVE  TypeOK'
  <2>1. worker[s].job \in Jobs /\ status[worker[s].job] \in Statuses
    BY <1>12 DEF Execute, TypeOK
  <2>2. WorkersOK'
    BY <1>12, <2>1, WorkerSet DEF Execute, WorkerPcs
  <2>3. runs' \in [Schedulers -> [Jobs -> Nat]]
    BY <1>12, <2>1 DEF Execute, TypeOK
  <2>4. QED
    BY <1>12, <2>2, <2>3 DEF Execute, TypeOK, WorkersOK, WorkerPcs
<1>13. ASSUME NEW s \in Schedulers, Complete(s)
       PROVE  TypeOK'
  <2>1. worker[s].job \in Jobs
    BY <1>13 DEF Complete, TypeOK
  <2>2. status' \in [Jobs -> Statuses]
    BY <1>13, <2>1, FlushType DEF Complete, TypeOK, Statuses, Finished
  <2>3. WorkersOK'
    BY <1>13, WorkerSet DEF Complete, Idle, WorkerPcs, Statuses
  <2>4. QED
    BY <1>13, <2>2, <2>3 DEF Complete, TypeOK, WorkersOK, WorkerPcs
<1>14. ASSUME NEW s \in Schedulers, WorkerFails(s)
       PROVE  TypeOK'
  <2>1. CASE /\ worker[s].pc # "idle"
             /\ status' = [status EXCEPT ![worker[s].job] = "failed"]
             /\ worker' = [worker EXCEPT ![s] = Idle]
             /\ UNCHANGED queue
    <3>1. status' \in [Jobs -> Statuses]
      <4>1. worker[s].job \in Jobs
        BY <1>14, <2>1 DEF WorkerFails, TypeOK
      <4>2. QED
        BY <2>1, <4>1 DEF TypeOK, Statuses, Finished
    <3>2. WorkersOK'
      BY <2>1, WorkerSet DEF Idle, WorkerPcs, Statuses
    <3>3. QED
      BY <1>14, <2>1, <3>1, <3>2 DEF WorkerFails, TypeOK, WorkersOK, WorkerPcs
  <2>2. CASE /\ worker' = [worker EXCEPT ![s] = Thread("dead", NoJob, "absent")]
             /\ UNCHANGED <<status, queue>>
    <3>1. WorkersOK'
      BY <2>2, WorkerSet DEF WorkerPcs, Statuses
    <3>2. QED
      BY <1>14, <2>2, <3>1 DEF WorkerFails, TypeOK, WorkersOK, WorkerPcs
  <2>3. CASE /\ queue[s] # <<>>
             /\ queue' = [queue EXCEPT ![s] = Tail(@)]
             /\ \E pc \in {"idle", "dead"} :
                  worker' = [worker EXCEPT ![s] = Thread(pc, NoJob, "absent")]
             /\ UNCHANGED status
    <3>1. queue' \in [Schedulers -> Seq(Jobs)]
      BY <2>3, HeadAndTail DEF TypeOK
    <3>2. WorkersOK'
      <4>1. PICK pc \in {"idle", "dead"} :
                   worker' = [worker EXCEPT ![s] = Thread(pc, NoJob, "absent")]
        BY <2>3
      <4>2. QED
        BY <4>1, WorkerSet DEF WorkerPcs, Statuses
    <3>3. QED
      BY <1>14, <2>3, <3>1, <3>2 DEF WorkerFails, TypeOK, WorkersOK, WorkerPcs
  <2>4. QED
    BY <1>14, <2>1, <2>2, <2>3 DEF WorkerFails
<1>15. ASSUME NEW s \in Schedulers, Crash(s)
       PROVE  TypeOK'
  <2>1. WorkersOK'
    BY <1>15, WorkerSet DEF Crash, Idle, WorkerPcs, Statuses
  <2>2. QED
    BY <1>15, <2>1, EmptySeq DEF Crash, TypeOK, WorkersOK, WorkerPcs
<1>16. QED
  BY <1>1, <1>2, <1>3, <1>4, <1>5, <1>6, <1>7, <1>8, <1>9, <1>10, <1>11, <1>12, <1>13,
     <1>14, <1>15 DEF Next, Watch, Work

(* Every variable of the scheduler has its type in every behaviour; in     *)
(* particular a watcher that marks or queues has a job to do so with.      *)
THEOREM SchedulerTypes == Spec => []TypeOK
  BY TypesAtInit, TypesKept, PTL DEF Spec

-----------------------------------------------------------------------------
(* One scheduler, one execution.  A job is in at most one of a scheduler's *)
(* places (batch, queue, worker, executed), and once it has left the batch *)
(* the row is never "pending" again, so that no scan returns it.           *)

Taken == Statuses \ {"absent", "pending"}

PlaceOK(s, j) ==
  /\ j \in Elements(batch[s]) => /\ j \notin Elements(queue[s])
                                 /\ ~Working(s, j)
                                 /\ runs[s][j] = 0
  /\ j \in Elements(queue[s]) => ~Working(s, j) /\ runs[s][j] = 0
  /\ Working(s, j) /\ worker[s].pc # "executed" => runs[s][j] = 0
  /\ runs[s][j] <= 1
  /\ status[j] \notin Taken =>
       /\ j \notin Elements(queue[s]) /\ ~Working(s, j) /\ runs[s][j] = 0
       /\ watcher[s] = "put" => Head(batch[s]) # j

SchedulerOK(s) ==
  /\ Distinct(batch[s]) /\ Distinct(queue[s])
  /\ watcher[s] \in {"scan", "dead"} => batch[s] = <<>>
  /\ \A j \in Jobs : PlaceOK(s, j)

PlacesOK == \A s \in Schedulers : SchedulerOK(s)

\* Creations apart, every write of a status writes a taken one.
LEMMA TakenForGood ==
  ASSUME TypeOK, [Next]_vars, NEW j \in Jobs, status[j] \in Taken
  PROVE  status'[j] \in Taken
<1>1. {"queued", "running", "cancelled", "completed", "failed"} \subseteq Taken
  BY DEF Taken, Statuses, Finished
<1>2. ASSUME NEW k \in Jobs, NEW was, NEW new \in Taken, Flush(k, was, new)
      PROVE  status'[j] \in Taken
  BY <1>2 DEF Flush, TypeOK
<1>3. CASE UNCHANGED status
  BY <1>3
<1>4. ASSUME NEW k \in Jobs, Create(k)
      PROVE  status'[j] \in Taken
  BY <1>4 DEF Create, TypeOK, Taken
<1>5. ASSUME NEW c \in Cancellers, CancelCommit(c)
      PROVE  status'[j] \in Taken
  BY <1>1, <1>2, <1>5 DEF CancelCommit, TypeOK
<1>6. ASSUME NEW s \in Schedulers, Mark(s)
      PROVE  status'[j] \in Taken
  BY <1>1, <1>6 DEF Mark, TypeOK
<1>7. ASSUME NEW s \in Schedulers, Start(s)
      PROVE  status'[j] \in Taken
  <2>1. worker[s].job \in Jobs
    BY <1>7 DEF Start, TypeOK
  <2>2. QED
    BY <1>1, <1>2, <1>7, <2>1 DEF Start
<1>8. ASSUME NEW s \in Schedulers, Complete(s)
      PROVE  status'[j] \in Taken
  <2>1. worker[s].job \in Jobs
    BY <1>8 DEF Complete, TypeOK
  <2>2. QED
    BY <1>1, <1>2, <1>8, <2>1 DEF Complete
<1>9. ASSUME NEW s \in Schedulers, WorkerFails(s)
      PROVE  status'[j] \in Taken
  BY <1>1, <1>9 DEF WorkerFails, TypeOK
<1>10. QED
  BY <1>3, <1>4, <1>5, <1>6, <1>7, <1>8, <1>9
     DEF Next, vars, Watch, Work, BecomeDue, CancelLoad, Scan, Put, WatcherDies, Load,
         Execute, Crash

\* A scheduler none of whose variables changes stays as it is.
LEMMA Untouched ==
  ASSUME TypeOK, [Next]_vars, NEW s \in Schedulers, SchedulerOK(s),
         batch'[s] = batch[s], watcher'[s] = watcher[s], queue'[s] = queue[s],
         worker'[s] = worker[s], runs'[s] = runs[s]
  PROVE  SchedulerOK(s)'
<1>1. \A j \in Jobs : status[j] \in Taken => status'[j] \in Taken
  BY TakenForGood
<1>2. ASSUME NEW j \in Jobs
      PROVE  PlaceOK(s, j)'
  <2>1. PlaceOK(s, j)
    BY DEF SchedulerOK
  <2>2. QED
    BY <1>1, <2>1 DEF PlaceOK, Working, Elements
<1>3. QED
  BY <1>2 DEF SchedulerOK, Distinct

LEMMA PlacesAtInit == Init => PlacesOK
<1>1. Elements(<<>>) = {} /\ Distinct(<<>>)
  BY DEF Elements, Distinct
<1>2. SUFFICES ASSUME Init, NEW s \in Schedulers
               PROVE  SchedulerOK(s)
  BY DEF PlacesOK
<1>3. batch[s] = <<>> /\ queue[s] = <<>> /\ watcher[s] = "scan" /\ worker[s].pc = "idle"
  BY <1>2 DEF Init, Idle, Thread
<1>4. \A j \in Jobs : runs[s][j] = 0
  BY <1>2 DEF Init
<1>5. \A j \in Jobs : PlaceOK(s, j)
  BY <1>1, <1>3, <1>4 DEF PlaceOK, Working
<1>6. QED
  BY <1>1, <1>3, <1>5 DEF SchedulerOK

LEMMA PlacesKept == TypeOK /\ PlacesOK /\ [Next]_vars => PlacesOK'
<1> SUFFICES ASSUME TypeOK, PlacesOK, [Next]_vars, NEW s \in Schedulers
             PROVE  SchedulerOK(s)'
  BY DEF PlacesOK
<1> DEFINE Unmoved(t) == /\ batch'[t] = batch[t] /\ watcher'[t] = watcher[t]
                         /\ queue'[t] = queue[t] /\ worker'[t] = worker[t]
                         /\ runs'[t] = runs[t]
<1>1. SchedulerOK(s) /\ \A j \in Jobs : PlaceOK(s, j)
  BY DEF PlacesOK, SchedulerOK
<1>2. \A j \in Jobs : status[j] \in Taken => status'[j] \in Taken
  BY TakenForGood
<1>3. Unmoved(s) => SchedulerOK(s)'
  BY <1>1, Untouched
<1>4. /\ batch[s] \in Seq(Jobs) /\ queue[s] \in Seq(Jobs)
      /\ watcher[s] \in {"mark", "put"} => batch[s] # <<>>
      /\ \A j \in Jobs : runs[s][j] \in Nat
  BY DEF TypeOK
<1>5. Elements(<<>>) = {} /\ Distinct(<<>>)
  BY DEF Elements, Distinct
<1>6. CASE \/ UNCHANGED vars
           \/ \E j \in Jobs : Create(j) \/ BecomeDue(j)
           \/ \E c \in Cancellers : CancelCommit(c) \/ \E j \in Jobs : CancelLoad(c, j)
  <2>1. Unmoved(s)
    BY <1>6 DEF vars, Create, BecomeDue, CancelCommit, CancelLoad
  <2>2. QED
    BY <1>3, <2>1
<1>7. ASSUME NEW t \in Schedulers, t # s,
             \/ Watch(t) \/ Work(t) \/ WatcherDies(t) \/ WorkerFails(t) \/ Crash(t)
      PROVE  SchedulerOK(s)'
  <2>1. CASE Watch(t) \/ WatcherDies(t)
    BY <1>3, <1>7, <2>1 DEF Watch, Scan, Mark, Put, WatcherDies, TypeOK
  <2>2. CASE Work(t)
    BY <1>3, <1>7, <2>2 DEF Work, Load, Start, Execute, Complete, TypeOK
  <2>3. CASE WorkerFails(t) \/ Crash(t)
    BY <1>3, <1>7, <2>3 DEF WorkerFails, Crash, TypeOK
  <2>4. QED
    BY <1>7, <2>1, <2>2, <2>3
<1>8. CASE Scan(s)
  <2>1. PICK q \in Orders(DueJobs) : batch' = [batch EXCEPT ![s] = q]
    BY <1>8 DEF Scan
  <2>2. Elements(q) = DueJobs /\ Distinct(q)
    BY <2>1, OrderOfDue DEF DueJobs, TypeOK
  <2>3. batch'[s] = q /\ watcher'[s] = "mark" /\ UNCHANGED <<status, queue, worker, runs>>
    BY <1>8, <2>1 DEF Scan, TypeOK
  <2>4. ASSUME NEW j \in Jobs
        PROVE  PlaceOK(s, j)'
    <3>1. j \in DueJobs => status[j] \notin Taken
      BY DEF DueJobs, Taken
    <3>2. PlaceOK(s, j)
      BY <1>1
    <3>3. QED
      BY <2>2, <2>3, <3>1, <3>2 DEF PlaceOK, Working, Elements
  <2>5. QED
    BY <1>1, <2>2, <2>3, <2>4 DEF SchedulerOK, Distinct
<1>9. CASE Mark(s)
  <2>1. Head(batch[s]) \in Jobs /\ Head(batch[s]) \in Elements(batch[s])
    BY <1>4, <1>9, HeadAndTail DEF Mark
  <2>2. /\ status'[Head(batch[s])] = "queued" /\ watcher'[s] = "put"
        /\ UNCHANGED <<batch, queue, worker, runs>>
    BY <1>9, <2>1 DEF Mark, TypeOK
  <2>3. "queued" \in Taken
    BY DEF Taken, Statuses
  <2>4. ASSUME NEW j \in Jobs
        PROVE  PlaceOK(s, j)'
    <3>1. PlaceOK(s, j)
      BY <1>1
    <3>2. QED
      BY <1>2, <2>2, <2>3, <3>1 DEF PlaceOK, Working, Elements
  <2>5. QED
    BY <1>1, <2>2, <2>4 DEF SchedulerOK, Distinct
<1>10. CASE Put(s)
  <2> DEFINE h == Head(batch[s])
  <2>1. batch[s] # <<>>
    BY <1>4, <1>10 DEF Put
  <2>2. /\ h \in Jobs /\ h \in Elements(batch[s]) /\ h \notin Elements(Tail(batch[s]))
        /\ Elements(Tail(batch[s])) \subseteq Elements(batch[s])
        /\ Distinct(Tail(batch[s])) /\ (Len(batch[s]) = 1 => Tail(batch[s]) = <<>>)
    BY <1>1, <1>4, <2>1, HeadAndTail DEF SchedulerOK
  <2>3. PlaceOK(s, h) /\ status[h] \in Taken
    BY <1>1, <1>10, <2>2 DEF Put, PlaceOK
  <2>4. /\ Elements(Append(queue[s], h)) = Elements(queue[s]) \cup {h}
        /\ Distinct(Append(queue[s], h))
    BY <1>1, <1>4, <2>2, <2>3, Appended DEF SchedulerOK, PlaceOK
  <2>5. /\ batch'[s] = Tail(batch[s]) /\ queue'[s] = Append(queue[s], h)
        /\ watcher'[s] = IF Len(batch[s]) = 1 THEN "scan" ELSE "mark"
        /\ UNCHANGED <<status, worker, runs>>
    BY <1>10 DEF Put, TypeOK
  <2>6. Elements(batch[s])' = Elements(Tail(batch[s]))
        /\ Elements(queue[s])' = Elements(queue[s]) \cup {h}
    BY <2>4, <2>5 DEF Elements
  <2>7. ASSUME NEW j \in Jobs
        PROVE  PlaceOK(s, j)'
    <3>1. PlaceOK(s, j)
      BY <1>1
    <3>2. Working(s, j)' <=> Working(s, j)
      BY <2>5 DEF Working
    <3>3. watcher'[s] # "put"
      BY <2>5
    <3>4. CASE j = h
      BY <2>2, <2>3, <2>5, <2>6, <3>2, <3>3, <3>4 DEF PlaceOK
    <3>5. CASE j # h
      BY <2>2, <2>5, <2>6, <3>1, <3>2, <3>3, <3>5 DEF PlaceOK
    <3>6. QED
      BY <3>4, <3>5
  <2>8. Distinct(batch[s])' /\ Distinct(queue[s])'
    BY <2>2, <2>4, <2>5 DEF Distinct
  <2>9. QED
    BY <2>2, <2>5, <2>7, <2>8 DEF SchedulerOK
<1>11. CASE WatcherDies(s)
  <2>1. /\ batch'[s] = <<>> /\ watcher'[s] = "dead"
        /\ UNCHANGED <<status, queue, worker, runs>>
    BY <1>11 DEF WatcherDies, TypeOK
  <2>2. Elements(batch[s])' = {} /\ Distinct(batch[s])'
    BY <1>5, <2>1 DEF Elements, Distinct
  <2>3. ASSUME NEW j \in Jobs
        PROVE  PlaceOK(s, j)'
    <3>1. PlaceOK(s, j)
      BY <1>1
    <3>2. QED
      BY <2>1, <2>2, <3>1 DEF PlaceOK, Working, Elements
  <2>4. QED
    BY <1>1, <2>1, <2>2, <2>3 DEF SchedulerOK, Distinct
<1>12. CASE Load(s)
  <2> DEFINE h == Head(queue[s])
  <2>1. /\ h \in Jobs /\ h \in Elements(queue[s]) /\ h \notin Elements(Tail(queue[s]))
        /\ Elements(Tail(queue[s])) \subseteq Elements(queue[s]) /\ Distinct(Tail(queue[s]))
    BY <1>1, <1>4, <1>12, HeadAndTail DEF Load, SchedulerOK
  <2>2. /\ queue'[s] = Tail(queue[s])
        /\ \/ worker'[s] = Idle
           \/ worker'[s] = Thread("loaded", h, status[h])
        /\ worker[s].pc = "idle"
        /\ UNCHANGED <<status, batch, watcher, runs>>
    BY <1>12 DEF Load, TypeOK
  <2>3. Elements(queue[s])' = Elements(Tail(queue[s])) /\ Distinct(queue[s])'
    BY <2>1, <2>2 DEF Elements, Distinct
  <2>4. \A j \in Jobs : Working(s, j)' => j = h
    BY <2>2 DEF Working, Idle, Thread
  <2>5. PlaceOK(s, h) /\ runs[s][h] = 0 /\ status[h] \in Taken /\ h \notin Elements(batch[s])
    BY <1>1, <2>1 DEF PlaceOK
  <2>6. ASSUME NEW j \in Jobs
        PROVE  PlaceOK(s, j)'
    <3>1. PlaceOK(s, j)
      BY <1>1
    <3>2. Elements(batch[s])' = Elements(batch[s])
      BY <2>2 DEF Elements
    <3>3. CASE j = h
      BY <2>1, <2>2, <2>3, <2>5, <3>2, <3>3 DEF PlaceOK
    <3>4. CASE j # h
      BY <2>1, <2>2, <2>3, <2>4, <3>1, <3>2, <3>4 DEF PlaceOK
    <3>5. QED
      BY <3>3, <3>4
  <2>7. QED
    BY <1>1, <2>2, <2>3, <2>6 DEF SchedulerOK, Distinct
<1>13. CASE Start(s)
  <2>1. /\ worker[s].pc = "loaded" /\ worker'[s].pc = "running"
        /\ worker'[s].job = worker[s].job
        /\ UNCHANGED <<batch, watcher, queue, runs>>
    BY <1>13 DEF Start, Thread, TypeOK
  <2>2. ASSUME NEW j \in Jobs
        PROVE  PlaceOK(s, j)'
    <3>1. PlaceOK(s, j) /\ (Working(s, j)' <=> Working(s, j))
      BY <1>1, <2>1 DEF Working
    <3>2. QED
      BY <1>2, <2>1, <3>1 DEF PlaceOK, Elements
  <2>3. QED
    BY <1>1, <2>1, <2>2 DEF SchedulerOK, Distinct
<1>14. CASE Execute(s)
  <2> DEFINE h == worker[s].job
  <2>1. h \in Jobs /\ Working(s, h)
    BY <1>14 DEF Execute, TypeOK, Working
  <2>2. PlaceOK(s, h) /\ runs[s][h] = 0 /\ status[h] \in Taken
    BY <1>1, <1>14, <2>1 DEF PlaceOK, Execute
  <2>3. /\ worker[s].pc = "running" /\ worker'[s].pc = "executed" /\ worker'[s].job = h
        /\ UNCHANGED <<status, batch, watcher, queue>>
    BY <1>14 DEF Execute, Thread, TypeOK
  <2>4. runs'[s][h] = runs[s][h] + 1 /\ \A j \in Jobs : j # h => runs'[s][j] = runs[s][j]
    BY <1>14, <2>1 DEF Execute, TypeOK
  <2>5. ASSUME NEW j \in Jobs
        PROVE  PlaceOK(s, j)'
    <3>1. PlaceOK(s, j) /\ (Working(s, j)' <=> Working(s, j))
      BY <1>1, <2>3 DEF Working
    <3>2. CASE j = h
      BY <2>1, <2>2, <2>3, <2>4, <3>1, <3>2 DEF PlaceOK, Elements
    <3>3. CASE j # h
      BY <2>3, <2>4, <3>1, <3>3 DEF PlaceOK, Elements
    <3>4. QED
      BY <3>2, <3>3
  <2>6. QED
    BY <1>1, <2>3, <2>5 DEF SchedulerOK, Distinct
<1>15. ASSUME worker'[s].pc \in {"idle", "dead"},
              UNCHANGED <<batch[s], watcher[s], runs[s]>>,
              \/ queue'[s] = queue[s]
              \/ queue[s] # <<>> /\ queue'[s] = Tail(queue[s])
       PROVE  SchedulerOK(s)'
  <2>1. Elements(queue[s])' \subseteq Elements(queue[s]) /\ Distinct(queue[s])'
    <3>1. CASE queue'[s] = queue[s]
      BY <1>1, <3>1 DEF SchedulerOK, Elements, Distinct
    <3>2. CASE queue[s] # <<>> /\ queue'[s] = Tail(queue[s])
      <4>1. Distinct(Tail(queue[s])) /\ Elements(Tail(queue[s])) \subseteq Elements(queue[s])
        BY <1>1, <1>4, <3>2, HeadAndTail DEF SchedulerOK
      <4>2. QED
        BY <3>2, <4>1 DEF Elements, Distinct
    <3>3. QED
      BY <1>15, <3>1, <3>2
  <2>2. ASSUME NEW j \in Jobs
        PROVE  PlaceOK(s, j)'
    <3>1. PlaceOK(s, j) /\ ~Working(s, j)'
      BY <1>1, <1>15 DEF Working
    <3>2. Elements(batch[s])' = Elements(batch[s])
      BY <1>15 DEF Elements
    <3>3. QED
      BY <1>2, <1>15, <2>1, <3>1, <3>2 DEF PlaceOK
  <2>3. QED
    BY <1>1, <1>15, <2>1, <2>2 DEF SchedulerOK, Distinct
<1>16. CASE Complete(s)
  BY <1>15, <1>16 DEF Complete, Idle, Thread, TypeOK
<1>17. CASE WorkerFails(s)
  BY <1>15, <1>17 DEF WorkerFails, Idle, Thread, TypeOK
<1>18. CASE Crash(s)
  <2>1. /\ batch'[s] = <<>> /\ watcher'[s] = "scan" /\ queue'[s] = <<>>
        /\ worker'[s].pc = "idle" /\ UNCHANGED <<status, runs>>
    BY <1>18 DEF Crash, Idle, Thread, TypeOK
  <2>2. /\ Elements(batch[s])' = {} /\ Elements(queue[s])' = {}
        /\ Distinct(batch[s])' /\ Distinct(queue[s])'
    BY <1>5, <2>1 DEF Elements, Distinct
  <2>3. ASSUME NEW j \in Jobs
        PROVE  PlaceOK(s, j)'
    <3>1. PlaceOK(s, j)
      BY <1>1
    <3>2. QED
      BY <2>1, <2>2, <3>1 DEF PlaceOK, Working
  <2>4. QED
    BY <2>1, <2>2, <2>3 DEF SchedulerOK
<1>19. QED
  BY <1>6, <1>7, <1>8, <1>9, <1>10, <1>11, <1>12, <1>13, <1>14, <1>16, <1>17, <1>18
     DEF Next, Watch, Work

(* One scheduler executes a job at most once, with any number of jobs,     *)
(* schedulers and cancelling threads, of crashes and of failing            *)
(* statements: the queue and the worker hold a job only when its row has   *)
(* left "pending" for good.                                                *)
THEOREM AtMostOnce == Spec => []AtMostOncePerScheduler
<1>1. TypeOK /\ PlacesOK /\ [Next]_vars => (TypeOK /\ PlacesOK)'
  BY TypesKept, PlacesKept
<1>2. PlacesOK => AtMostOncePerScheduler
  BY DEF PlacesOK, SchedulerOK, PlaceOK, AtMostOncePerScheduler
<1>3. QED
  BY TypesAtInit, PlacesAtInit, <1>1, <1>2, PTL DEF Spec

-----------------------------------------------------------------------------
(* "completed" is true: a worker that is about to report an execution has  *)
(* executed its job, and no execution is ever taken back.                  *)

Ran(j) == \E s \in Schedulers : runs[s][j] > 0

RanOK ==
  /\ \A j \in Jobs : status[j] = "completed" => Ran(j)
  /\ \A s \in Schedulers : worker[s].pc = "executed" => Ran(worker[s].job)

LEMMA RunsGrow ==
  ASSUME TypeOK, [Next]_vars, NEW j \in Jobs, Ran(j)
  PROVE  Ran(j)'
<1>1. ASSUME NEW s \in Schedulers, Execute(s)
      PROVE  Ran(j)'
  <2>1. worker[s].job \in Jobs
    BY <1>1 DEF Execute, TypeOK
  <2>2. PICK t \in Schedulers : runs[t][j] > 0
    BY DEF Ran
  <2>3. runs[t][j] \in Nat /\ runs'[t][j] \in {runs[t][j], runs[t][j] + 1}
    BY <1>1, <2>1 DEF Execute, TypeOK
  <2>4. QED
    BY <2>2, <2>3 DEF Ran
<1>2. CASE UNCHANGED runs
  BY <1>2 DEF Ran
<1>3. QED
  BY <1>1, <1>2
     DEF Next, vars, Create, BecomeDue, CancelLoad, CancelCommit, Watch, Scan, Mark, Put, Work,
         Load, Start, Complete, WatcherDies, WorkerFails, Crash

\* The only writer of "completed" is a worker that has executed the job.
LEMMA CompletedBy ==
  ASSUME TypeOK, [Next]_vars, NEW j \in Jobs, status'[j] = "completed", status[j] # "completed"
  PROVE  \E s \in Schedulers : worker[s].pc = "executed" /\ worker[s].job = j
<1>1. ASSUME NEW k \in Jobs, NEW was, NEW new, new # "completed", Flush(k, was, new)
      PROVE  FALSE
  BY <1>1 DEF Flush, TypeOK
<1>2. ASSUME NEW s \in Schedulers, Complete(s)
      PROVE  worker[s].pc = "executed" /\ worker[s].job = j
  BY <1>2 DEF Complete, Flush, TypeOK
<1>3. ASSUME NEW c \in Cancellers, CancelCommit(c)
      PROVE  FALSE
  BY <1>1, <1>3 DEF CancelCommit, TypeOK
<1>4. ASSUME NEW s \in Schedulers, Start(s)
      PROVE  FALSE
  BY <1>1, <1>4 DEF Start, TypeOK
<1>5. ASSUME \/ \E s \in Schedulers : Mark(s) \/ WorkerFails(s)
             \/ \E k \in Jobs : Create(k)
      PROVE  FALSE
  BY <1>5 DEF Mark, WorkerFails, Create, TypeOK
<1>6. status' # status
  OBVIOUS
<1>7. QED
  BY <1>2, <1>3, <1>4, <1>5, <1>6
     DEF Next, vars, BecomeDue, CancelLoad, Watch, Scan, Put, Work, Load, Execute,
         WatcherDies, Crash

\* A worker is where it was, with the same job, or has come there by its step.
LEMMA ExecutedBy ==
  ASSUME TypeOK, [Next]_vars, NEW s \in Schedulers, worker'[s].pc = "executed"
  PROVE  \/ worker[s].pc = "executed" /\ worker'[s].job = worker[s].job
         \/ worker[s].job \in Jobs /\ worker'[s].job = worker[s].job
            /\ runs'[s][worker[s].job] > 0
<1>1. CASE worker'[s] = worker[s]
  BY <1>1
<1>2. CASE Execute(s)
  <2>1. worker[s].job \in Jobs
    BY <1>2 DEF Execute, TypeOK
  <2>2. runs[s][worker[s].job] \in Nat
    BY <2>1 DEF TypeOK
  <2>3. worker'[s].job = worker[s].job /\ runs'[s][worker[s].job] = runs[s][worker[s].job] + 1
    BY <1>2, <2>1 DEF Execute, Thread, TypeOK
  <2>4. QED
    BY <2>1, <2>2, <2>3
<1>3. ASSUME \/ Load(s) \/ Start(s) \/ Complete(s) \/ WorkerFails(s) \/ Crash(s)
      PROVE  FALSE
  <2>1. CASE Load(s) \/ Start(s) \/ Complete(s)
    BY <2>1 DEF Load, Start, Complete, Idle, Thread, TypeOK
  <2>2. CASE WorkerFails(s) \/ Crash(s)
    BY <2>2 DEF WorkerFails, Crash, Idle, Thread, TypeOK
  <2>3. QED
    BY <1>3, <2>1, <2>2
<1>4. ASSUME NEW t \in Schedulers, t # s, Work(t) \/ WorkerFails(t) \/ Crash(t)
      PROVE  worker'[s] = worker[s]
  <2>1. CASE Work(t)
    BY <1>4, <2>1 DEF Work, Load, Start, Execute, Complete, TypeOK
  <2>2. CASE WorkerFails(t) \/ Crash(t)
    BY <1>4, <2>2 DEF WorkerFails, Crash, TypeOK
  <2>3. QED
    BY <1>4, <2>1, <2>2
<1>5. \/ UNCHANGED worker
      \/ \E t \in Schedulers : Work(t) \/ WorkerFails(t) \/ Crash(t)
  BY DEF Next, vars, Create, BecomeDue, CancelLoad, CancelCommit, Watch, Scan, Mark, Put,
         WatcherDies
<1>6. QED
  BY <1>1, <1>2, <1>3, <1>4, <1>5 DEF Work

LEMMA RanKept == TypeOK /\ RanOK /\ [Next]_vars => RanOK'
<1> SUFFICES ASSUME TypeOK, RanOK, [Next]_vars
             PROVE  RanOK'
  OBVIOUS
<1>1. \A s \in Schedulers : worker[s].pc = "executed" => worker[s].job \in Jobs
  BY DEF TypeOK
<1>2. ASSUME NEW j \in Jobs, status'[j] = "completed"
      PROVE  Ran(j)'
  <2>1. Ran(j)
    BY <1>2, CompletedBy DEF RanOK
  <2>2. QED
    BY <2>1, RunsGrow
<1>3. ASSUME NEW s \in Schedulers, worker'[s].pc = "executed"
      PROVE  Ran(worker[s].job)'
  <2>1. CASE worker[s].pc = "executed" /\ worker'[s].job = worker[s].job
    <3>1. Ran(worker[s].job) /\ worker[s].job \in Jobs
      BY <1>1, <2>1 DEF RanOK
    <3>2. \E t \in Schedulers : runs'[t][worker[s].job] > 0
      BY <3>1, RunsGrow DEF Ran
    <3>3. QED
      BY <2>1, <3>2 DEF Ran
  <2>2. CASE worker'[s].job = worker[s].job /\ runs'[s][worker[s].job] > 0
    BY <2>2 DEF Ran
  <2>3. QED
    BY <1>3, <2>1, <2>2, ExecutedBy
<1>4. QED
  BY <1>2, <1>3 DEF RanOK

(* scheduler.py, worker_loop: a job that the API reports as "completed"    *)
(* has been executed, whatever cancellations, other schedulers, crashes    *)
(* and failing statements do between the execution and the report.         *)
THEOREM CompletedMeansExecuted == Spec => []CompletedIsTrue
<1>1. Init => RanOK
  BY DEF Init, RanOK, Idle, Thread
<1>2. RanOK => CompletedIsTrue
  BY DEF RanOK, Ran, CompletedIsTrue
<1>3. QED
  BY <1>1, <1>2, TypesAtInit, TypesKept, RanKept, PTL DEF Spec

-----------------------------------------------------------------------------
(* A cancellation holds once no thread is past the point where it looks.   *)

LEMMA InBatchElements ==
  ASSUME NEW s \in Schedulers, NEW j
  PROVE  InBatch(s, j) <=> j \in Elements(batch[s])
  BY DEF InBatch, Elements

LEMMA CancelKept ==
  ASSUME TypeOK, [Next]_vars, NEW j \in Jobs, CancelSeen(j)
  PROVE  CancelSeen(j)'
<1>1. /\ status[j] = "cancelled"
      /\ \A s \in Schedulers : j \notin Elements(batch[s]) /\ ~Working(s, j)
  BY InBatchElements DEF CancelSeen
<1>2. /\ batch \in [Schedulers -> Seq(Jobs)] /\ queue \in [Schedulers -> Seq(Jobs)]
      /\ status \in [Jobs -> Statuses] /\ DOMAIN worker = Schedulers
      /\ \A s \in Schedulers : watcher[s] \in {"mark", "put"} => batch[s] # <<>>
  BY DEF TypeOK
<1>3. ASSUME NEW k \in Jobs, k # j, NEW was, NEW new, Flush(k, was, new)
      PROVE  status'[j] = status[j]
  BY <1>2, <1>3 DEF Flush
<1>4. ASSUME NEW s \in Schedulers, worker[s].pc \notin {"idle", "dead"}
      PROVE  worker[s].job \in Jobs /\ worker[s].job # j
  BY <1>1, <1>4 DEF Working, TypeOK
<1>5. status'[j] = "cancelled"
  <2>1. ASSUME NEW c \in Cancellers, CancelCommit(c)
        PROVE  status'[j] = "cancelled"
    BY <1>1, <1>2, <2>1 DEF CancelCommit, Flush, TypeOK
  <2>2. ASSUME NEW s \in Schedulers, Mark(s)
        PROVE  status'[j] = "cancelled"
    <3>1. Head(batch[s]) \in Elements(batch[s])
      BY <1>2, <2>2, HeadAndTail DEF Mark
    <3>2. QED
      BY <1>1, <1>2, <2>2, <3>1 DEF Mark
  <2>3. ASSUME NEW s \in Schedulers, Start(s) \/ Complete(s)
        PROVE  status'[j] = "cancelled"
    BY <1>1, <1>3, <1>4, <2>3 DEF Start, Complete
  <2>4. ASSUME NEW s \in Schedulers, WorkerFails(s)
        PROVE  status'[j] = "cancelled"
    <3>1. worker[s].pc # "idle" /\ worker[s].pc # "dead" => worker[s].job # j
      BY <1>4
    <3>2. QED
      BY <1>1, <1>2, <2>4, <3>1 DEF WorkerFails
  <2>5. ASSUME NEW k \in Jobs, Create(k)
        PROVE  status'[j] = "cancelled"
    BY <1>1, <1>2, <2>5 DEF Create
  <2>6. CASE UNCHANGED status
    BY <1>1, <2>6
  <2>7. QED
    BY <2>1, <2>2, <2>3, <2>4, <2>5, <2>6
       DEF Next, vars, BecomeDue, CancelLoad, Watch, Scan, Put, Work, Load, Execute,
           WatcherDies, Crash
<1>6. ASSUME NEW s \in Schedulers
      PROVE  j \notin Elements(batch'[s])
  <2>1. CASE Scan(s)
    <3>1. PICK q \in Orders(DueJobs) : batch' = [batch EXCEPT ![s] = q]
      BY <2>1 DEF Scan
    <3>2. Elements(q) = DueJobs
      BY OrderOfDue DEF DueJobs, TypeOK
    <3>3. QED
      BY <1>1, <1>2, <3>1, <3>2 DEF DueJobs
  <2>2. CASE Put(s)
    <3>1. Elements(Tail(batch[s])) \subseteq Elements(batch[s])
      BY <1>2, <2>2, HeadAndTail DEF Put
    <3>2. QED
      BY <1>1, <1>2, <2>2, <3>1 DEF Put
  <2>3. CASE batch'[s] = <<>>
    BY <2>3 DEF Elements
  <2>4. CASE batch'[s] = batch[s]
    BY <1>1, <2>4
  <2>5. ASSUME NEW t \in Schedulers, Scan(t) \/ Put(t) \/ WatcherDies(t) \/ Crash(t)
        PROVE  \/ t = s /\ (Scan(s) \/ Put(s))
               \/ batch'[s] \in {<<>>, batch[s]}
    BY <1>2, <2>5 DEF Scan, Put, WatcherDies, Crash
  <2>6. \/ UNCHANGED batch
        \/ \E t \in Schedulers : Scan(t) \/ Put(t) \/ WatcherDies(t) \/ Crash(t)
    BY DEF Next, vars, Create, BecomeDue, CancelLoad, CancelCommit, Watch, Mark, Work,
           Load, Start, Execute, Complete, WorkerFails
  <2>7. QED
    BY <2>1, <2>2, <2>3, <2>4, <2>5, <2>6
<1>7. ASSUME NEW s \in Schedulers
      PROVE  ~Working(s, j)'
  <2>1. CASE worker'[s] = worker[s]
    BY <1>1, <2>1 DEF Working
  <2>2. CASE Load(s)
    BY <1>1, <1>2, <2>2 DEF Load, Working, Idle, Thread
  <2>3. CASE Start(s) \/ Execute(s)
    <3>1. worker[s].pc \notin {"idle", "dead"}
      BY <2>3 DEF Start, Execute
    <3>2. worker'[s].job = worker[s].job
      BY <1>2, <2>3 DEF Start, Execute, Thread
    <3>3. QED
      BY <1>4, <3>1, <3>2 DEF Working
  <2>4. CASE Complete(s) \/ WorkerFails(s) \/ Crash(s)
    BY <1>2, <2>4 DEF Complete, WorkerFails, Crash, Working, Idle, Thread
  <2>5. ASSUME NEW t \in Schedulers, t # s, Work(t) \/ WorkerFails(t) \/ Crash(t)
        PROVE  worker'[s] = worker[s]
    <3>1. CASE Work(t)
      BY <1>2, <2>5, <3>1 DEF Work, Load, Start, Execute, Complete
    <3>2. CASE WorkerFails(t) \/ Crash(t)
      BY <1>2, <2>5, <3>2 DEF WorkerFails, Crash
    <3>3. QED
      BY <2>5, <3>1, <3>2
  <2>6. \/ UNCHANGED worker
        \/ \E t \in Schedulers : Work(t) \/ WorkerFails(t) \/ Crash(t)
    BY DEF Next, vars, Create, BecomeDue, CancelLoad, CancelCommit, Watch, Scan, Mark, Put,
           WatcherDies
  <2>7. QED
    BY <2>1, <2>2, <2>3, <2>4, <2>5, <2>6 DEF Work
<1>8. QED
  BY <1>5, <1>6, <1>7 DEF CancelSeen, InBatch, Elements

(* mcp_server.py, handle_cancel_task: once no watcher has the job in its   *)
(* batch and no worker has loaded it, a cancellation is final.  It holds   *)
(* in every step, those of crashes and failing statements included.        *)
THEOREM CancellationsHold == Spec => CancelHolds
<1>1. TypeOK /\ [Next]_vars => [\A j \in Jobs : CancelSeen(j) => CancelSeen(j)']_vars
  BY CancelKept
<1>2. QED
  BY <1>1, SchedulerTypes, PTL DEF Spec, CancelHolds

-----------------------------------------------------------------------------
(* A job that was taken over is in somebody's hands.  `Has` alone is not   *)
(* inductive: a worker that loaded the row of a job when another scheduler *)
(* had just completed it will not write "completed" again, so it does not  *)
(* count as a holder.                                                      *)

Reliable == ~DbFails /\ MaxCrashes = 0

Holds(s, j) ==
  \/ j \in Elements(batch[s])
  \/ j \in Elements(queue[s])
  \/ Working(s, j) /\ (worker[s].pc = "executed" => worker[s].was # "completed")

HeldOK ==
  \A j \in Jobs : status[j] \in {"queued", "running"} => \E s \in Schedulers : Holds(s, j)

LEMMA HeadOrTail ==
  ASSUME NEW q \in Seq(Jobs), q # <<>>, NEW j \in Elements(q)
  PROVE  j = Head(q) \/ j \in Elements(Tail(q))
<1>1. PICK i \in DOMAIN q : q[i] = j
  BY DEF Elements
<1>2. /\ DOMAIN q = 1 .. Len(q) /\ Len(q) \in Nat /\ Head(q) = q[1]
      /\ Tail(q) \in Seq(Jobs) /\ Len(Tail(q)) = Len(q) - 1
      /\ \A k \in 1 .. Len(Tail(q)) : Tail(q)[k] = q[k + 1]
  BY LenProperties, HeadTailProperties
<1>3. DOMAIN Tail(q) = 1 .. Len(q) - 1
  BY <1>2, LenProperties
<1>4. CASE i # 1
  <2>1. i - 1 \in 1 .. Len(q) - 1
    BY <1>1, <1>2, <1>4
  <2>2. Tail(q)[i - 1] = q[(i - 1) + 1] /\ (i - 1) + 1 = i
    BY <1>2, <2>1
  <2>3. QED
    BY <1>1, <1>3, <2>1, <2>2 DEF Elements
<1>5. QED
  BY <1>1, <1>2, <1>4

\* A holder stays one, through every step but the one that ends its work.
LEMMA HolderKept ==
  ASSUME Reliable, TypeOK, PlacesOK, [Next]_vars, NEW s \in Schedulers, NEW j \in Jobs,
         Holds(s, j), status[j] \in {"queued", "running"}
  PROVE  Holds(s, j)' \/ status'[j] \notin {"queued", "running"}
<1>1. /\ batch \in [Schedulers -> Seq(Jobs)] /\ queue \in [Schedulers -> Seq(Jobs)]
      /\ status \in [Jobs -> Statuses] /\ DOMAIN worker = Schedulers
      /\ \A t \in Schedulers : watcher[t] \in {"mark", "put"} => batch[t] # <<>>
      /\ watcher[s] = "scan" => batch[s] = <<>>
  BY DEF TypeOK, PlacesOK, SchedulerOK
<1>2. CASE UNCHANGED <<batch[s], queue[s], worker[s]>>
  BY <1>2 DEF Holds, Working
<1>3. CASE Put(s)
  <2> DEFINE h == Head(batch[s])
  <2>1. batch[s] # <<>> /\ h \in Jobs /\ Tail(batch[s]) \in Seq(Jobs)
    BY <1>1, <1>3, HeadAndTail DEF Put
  <2>2. /\ batch'[s] = Tail(batch[s]) /\ queue'[s] = Append(queue[s], h)
        /\ worker' = worker
    BY <1>1, <1>3 DEF Put
  <2>3. Elements(queue'[s]) = Elements(queue[s]) \cup {h}
    BY <1>1, <2>1, <2>2, Appended
  <2>4. j \in Elements(batch[s]) => j = h \/ j \in Elements(batch'[s])
    BY <1>1, <2>1, <2>2, HeadOrTail
  <2>5. QED
    BY <2>2, <2>3, <2>4 DEF Holds, Working, Elements
<1>4. CASE Load(s)
  <2>1. j \in Elements(queue[s]) => j = Head(queue[s]) \/ j \in Elements(Tail(queue[s]))
    BY <1>1, <1>4, HeadOrTail DEF Load
  <2>2. /\ queue'[s] = Tail(queue[s]) /\ batch' = batch /\ ~Working(s, j)
    BY <1>1, <1>4 DEF Load, Working
  <2>3. j = Head(queue[s]) => worker'[s] = Thread("loaded", j, status[j])
    BY <1>1, <1>4 DEF Load
  <2>4. j = Head(queue[s]) => Holds(s, j)'
    BY <2>3 DEF Holds, Working, Thread
  <2>5. j \in Elements(Tail(queue[s])) => Holds(s, j)'
    BY <2>2 DEF Holds, Elements
  <2>6. j \in Elements(batch[s]) => Holds(s, j)'
    BY <2>2 DEF Holds, Elements
  <2>7. QED
    BY <2>1, <2>2, <2>4, <2>5, <2>6 DEF Holds
<1>5. CASE Start(s) \/ Execute(s)
  <2>1. /\ batch' = batch /\ queue' = queue
        /\ worker[s].pc \notin {"idle", "dead"} /\ worker'[s].pc \in {"running", "executed"}
        /\ worker'[s].job = worker[s].job
    BY <1>1, <1>5 DEF Start, Execute, Thread
  <2>2. worker'[s].pc = "executed" => worker'[s].was = status[worker[s].job]
    BY <1>1, <1>5 DEF Start, Execute, Thread
  <2>3. Working(s, j) => Holds(s, j)'
    BY <2>1, <2>2 DEF Working, Holds
  <2>4. QED
    BY <2>1, <2>3 DEF Holds, Elements
<1>6. CASE Complete(s)
  <2>1. batch' = batch /\ queue' = queue
    BY <1>6 DEF Complete
  <2>2. ASSUME Working(s, j), worker[s].was # "completed"
        PROVE  status'[j] = "completed"
    BY <1>1, <1>6, <2>2 DEF Complete, Flush, Working
  <2>3. worker[s].pc = "executed"
    BY <1>6 DEF Complete
  <2>4. QED
    BY <2>1, <2>2, <2>3 DEF Holds, Elements
<1>7. CASE Scan(s)
  <2>1. queue' = queue /\ worker' = worker
    BY <1>7 DEF Scan
  <2>2. j \notin Elements(batch[s])
    BY <1>1, <1>7 DEF Scan, Elements
  <2>3. QED
    BY <2>1, <2>2 DEF Holds, Working, Elements
<1>8. ASSUME NEW t \in Schedulers, t # s, Watch(t) \/ Work(t)
      PROVE  UNCHANGED <<batch[s], queue[s], worker[s]>>
  <2>1. CASE Watch(t)
    BY <1>1, <1>8, <2>1 DEF Watch, Scan, Mark, Put
  <2>2. CASE Work(t)
    BY <1>1, <1>8, <2>2 DEF Work, Load, Start, Execute, Complete
  <2>3. QED
    BY <1>8, <2>1, <2>2
<1>9. CASE Mark(s)
  BY <1>2, <1>9 DEF Mark
<1>10. ASSUME NEW t \in Schedulers, WatcherDies(t) \/ WorkerFails(t) \/ Crash(t)
       PROVE  FALSE
  BY <1>10 DEF WatcherDies, WorkerFails, Crash, Reliable, TypeOK
<1>11. CASE \/ UNCHANGED vars
            \/ \E k \in Jobs : Create(k) \/ BecomeDue(k)
            \/ \E c \in Cancellers : CancelCommit(c) \/ \E k \in Jobs : CancelLoad(c, k)
  BY <1>2, <1>11 DEF vars, Create, BecomeDue, CancelCommit, CancelLoad
<1>12. CASE \E t \in Schedulers : Watch(t) \/ Work(t)
  BY <1>2, <1>3, <1>4, <1>5, <1>6, <1>7, <1>8, <1>9, <1>12 DEF Watch, Work
<1>13. QED
  BY <1>10, <1>11, <1>12 DEF Next

\* Who marks a job has it in its batch, who starts one is working on it.
LEMMA TakerHolds ==
  ASSUME Reliable, TypeOK, [Next]_vars, NEW j \in Jobs,
         status[j] \notin {"queued", "running"}, status'[j] \in {"queued", "running"}
  PROVE  \E s \in Schedulers : Holds(s, j)'
<1>1. /\ batch \in [Schedulers -> Seq(Jobs)] /\ status \in [Jobs -> Statuses]
      /\ DOMAIN worker = Schedulers
      /\ \A t \in Schedulers : watcher[t] \in {"mark", "put"} => batch[t] # <<>>
  BY DEF TypeOK
<1>2. ASSUME NEW s \in Schedulers, Mark(s)
      PROVE  Holds(s, j)'
  <2>1. Head(batch[s]) = j /\ batch' = batch
    BY <1>1, <1>2 DEF Mark
  <2>2. j \in Elements(batch[s])
    BY <1>1, <1>2, <2>1, HeadAndTail DEF Mark
  <2>3. QED
    BY <2>1, <2>2 DEF Holds, Elements
<1>3. ASSUME NEW s \in Schedulers, Start(s)
      PROVE  Holds(s, j)'
  <2>1. worker[s].job = j
    BY <1>1, <1>3 DEF Start, Flush, TypeOK
  <2>2. worker'[s].job = j /\ worker'[s].pc = "running"
    BY <1>1, <1>3, <2>1 DEF Start, Thread
  <2>3. QED
    BY <2>2 DEF Holds, Working
<1>4. ASSUME \/ \E k \in Jobs : Create(k)
             \/ \E c \in Cancellers : CancelCommit(c)
             \/ \E s \in Schedulers : Complete(s)
      PROVE  FALSE
  <2>1. ASSUME NEW k \in Jobs, NEW was, NEW new, Flush(k, was, new),
               new \in {"cancelled", "completed"}
        PROVE  FALSE
    BY <1>1, <2>1 DEF Flush
  <2>2. ASSUME NEW c \in Cancellers, CancelCommit(c)
        PROVE  FALSE
    BY <2>1, <2>2 DEF CancelCommit, TypeOK
  <2>3. ASSUME NEW s \in Schedulers, Complete(s)
        PROVE  FALSE
    BY <2>1, <2>3 DEF Complete, TypeOK
  <2>4. QED
    BY <1>1, <1>4, <2>2, <2>3 DEF Create
<1>5. ASSUME NEW s \in Schedulers, WatcherDies(s) \/ WorkerFails(s) \/ Crash(s)
      PROVE  FALSE
  BY <1>5 DEF WatcherDies, WorkerFails, Crash, Reliable, TypeOK
<1>6. status' # status
  OBVIOUS
<1>7. QED
  BY <1>2, <1>3, <1>4, <1>5, <1>6
     DEF Next, vars, BecomeDue, CancelLoad, Watch, Scan, Put, Work, Load, Execute

LEMMA HeldKept ==
  ASSUME Reliable, TypeOK, PlacesOK, HeldOK, [Next]_vars
  PROVE  HeldOK'
<1>1. SUFFICES ASSUME NEW j \in Jobs, status'[j] \in {"queued", "running"}
               PROVE  \E s \in Schedulers : Holds(s, j)'
  BY DEF HeldOK
<1>2. CASE status[j] \in {"queued", "running"}
  <2>1. PICK s \in Schedulers : Holds(s, j)
    BY <1>2 DEF HeldOK
  <2>2. QED
    BY <1>1, <1>2, <2>1, HolderKept
<1>3. CASE status[j] \notin {"queued", "running"}
  BY <1>1, <1>3, TakerHolds
<1>4. QED
  BY <1>2, <1>3

(* scheduler.py: without crashes and failing statements no job that a      *)
(* watcher has marked is lost, for any number of schedulers that overwrite *)
(* each other's status.                                                    *)
THEOREM NoJobIsLost == ASSUME Reliable PROVE Spec => []QueuedIsHeld
<1>1. Init => HeldOK
  BY DEF Init, HeldOK
<1>2. TypeOK /\ PlacesOK /\ HeldOK /\ [Next]_vars => HeldOK'
  BY HeldKept
<1>3. HeldOK => QueuedIsHeld
  BY DEF HeldOK, Holds, QueuedIsHeld, Has, InBatch, InQueue, Elements
<1>4. QED
  BY <1>1, <1>2, <1>3, TypesAtInit, TypesKept, PlacesAtInit, PlacesKept, PTL DEF Spec
=============================================================================
