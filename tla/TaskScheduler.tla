--------------------------- MODULE TaskScheduler ---------------------------
(***************************************************************************)
(* The job scheduler of chatgpt_task/scaffold/app.  A watcher thread scans *)
(* the jobs table for due jobs, marks each "queued" and puts its id on an  *)
(* in-memory queue; a worker thread takes ids from the queue and executes  *)
(* the jobs; request handlers create and cancel jobs.  Everybody reads a   *)
(* row in one transaction and writes its status in a later one, without a  *)
(* lock or a condition on the old value.  Each commit is a step.           *)
(*                                                                         *)
(* SQLAlchemy emits the UPDATE of a status only when the value changes     *)
(* with respect to the row the session has loaded: `was` keeps that value. *)
(***************************************************************************)
EXTENDS Integers, Sequences, FiniteSets

CONSTANTS
  Jobs,        \* rows of the jobs table
  Schedulers,  \* processes that call start_scheduler (app.api, app.mcp_server)
  Cancellers,  \* threads in handle_cancel_task
  NoJob,       \* "none"
  DbFails,     \* may a statement of a scheduler thread raise
  MaxCrashes   \* bound: crashes of scheduler processes in a behaviour

ASSUME JobsAssumption ==
  /\ IsFiniteSet(Jobs)
  /\ NoJob \notin Jobs
  /\ DbFails \in BOOLEAN
  /\ MaxCrashes \in Nat

VARIABLES
  status,   \* jobs.status, "absent" before task.create
  due,      \* the jobs whose scheduled_at has passed
  batch,    \* each watcher: the jobs of find_due_jobs it has still to handle
  watcher,  \* where each watcher thread is
  queue,    \* job_queue of each process
  worker,   \* where each worker thread is, its job and the status it loaded
  cancel,   \* each handle_cancel_task: its job and the status it loaded
  runs,     \* history: how often each scheduler has executed a job
  crashes   \* counts towards MaxCrashes

vars == <<status, due, batch, watcher, queue, worker, cancel, runs, crashes>>

Finished == {"completed", "failed"}
Statuses == {"absent", "pending", "queued", "running", "cancelled"} \cup Finished

Thread(pc, job, was) == [pc |-> pc, job |-> job, was |-> was]
Idle == Thread("idle", NoJob, "absent")

Init ==
  /\ status = [j \in Jobs |-> "absent"]
  /\ due = {}
  /\ batch = [s \in Schedulers |-> <<>>]
  /\ watcher = [s \in Schedulers |-> "scan"]
  /\ queue = [s \in Schedulers |-> <<>>]
  /\ worker = [s \in Schedulers |-> Idle]
  /\ cancel = [c \in Cancellers |-> Idle]
  /\ runs = [s \in Schedulers |-> [j \in Jobs |-> 0]]
  /\ crashes = 0

\* The status a flush leaves in the row.
Flush(j, was, new) ==
  status' = IF was = new THEN status ELSE [status EXCEPT ![j] = new]

-----------------------------------------------------------------------------
(* Request handlers, in any process.                                       *)

Create(j) ==
  /\ status[j] = "absent"
  /\ status' = [status EXCEPT ![j] = "pending"]
  /\ UNCHANGED <<due, batch, watcher, queue, worker, cancel, runs, crashes>>

\* scheduled_at passes, or has passed when the job is created.
BecomeDue(j) ==
  /\ j \notin due
  /\ due' = due \cup {j}
  /\ UNCHANGED <<status, batch, watcher, queue, worker, cancel, runs, crashes>>

\* A missing or a finished job is an error, and nothing is written.
CancelLoad(c, j) ==
  /\ cancel[c].pc = "idle"
  /\ status[j] \notin Finished \cup {"absent"}
  /\ cancel' = [cancel EXCEPT ![c] = Thread("loaded", j, status[j])]
  /\ UNCHANGED <<status, due, batch, watcher, queue, worker, runs, crashes>>

CancelCommit(c) ==
  /\ cancel[c].pc = "loaded"
  /\ Flush(cancel[c].job, cancel[c].was, "cancelled")
  /\ cancel' = [cancel EXCEPT ![c] = Idle]
  /\ UNCHANGED <<due, batch, watcher, queue, worker, runs, crashes>>

-----------------------------------------------------------------------------
(* watcher_loop.                                                           *)

Orders(S) ==
  {q \in [1 .. Cardinality(S) -> S] : \A x \in S : \E i \in DOMAIN q : q[i] = x}

\* Mutant of DueJobs: find_due_jobs does not look at the status.
DueWhateverStatus == {j \in due : status[j] \notin Finished \cup {"absent"}}

\* find_due_jobs.  Buckets are ordered like the times they contain.
DueJobs == {j \in due : status[j] = "pending"}

Scan(s) ==
  /\ watcher[s] = "scan"
  /\ DueJobs # {}
  /\ \E q \in Orders(DueJobs) : batch' = [batch EXCEPT ![s] = q]
  /\ watcher' = [watcher EXCEPT ![s] = "mark"]
  /\ UNCHANGED <<status, due, queue, worker, cancel, runs, crashes>>

\* The row is not read again: whatever it holds becomes "queued".
Mark(s) ==
  /\ watcher[s] = "mark"
  /\ status' = [status EXCEPT ![Head(batch[s])] = "queued"]
  /\ watcher' = [watcher EXCEPT ![s] = "put"]
  /\ UNCHANGED <<due, batch, queue, worker, cancel, runs, crashes>>

\* Mutant of Put: the loop runs once more after the last job.
PutOneMore(s) ==
  /\ watcher[s] = "put"
  /\ queue' = [queue EXCEPT ![s] = Append(@, Head(batch[s]))]
  /\ batch' = [batch EXCEPT ![s] = Tail(@)]
  /\ watcher' = [watcher EXCEPT ![s] = "mark"]
  /\ UNCHANGED <<status, due, worker, cancel, runs, crashes>>

Put(s) ==
  /\ watcher[s] = "put"
  /\ queue' = [queue EXCEPT ![s] = Append(@, Head(batch[s]))]
  /\ batch' = [batch EXCEPT ![s] = Tail(@)]
  /\ watcher' = [watcher EXCEPT ![s] = IF Len(batch[s]) = 1 THEN "scan" ELSE "mark"]
  /\ UNCHANGED <<status, due, worker, cancel, runs, crashes>>

\* try has no except: a statement that raises ends the thread.
WatcherDies(s) ==
  /\ DbFails
  /\ watcher[s] # "dead"
  /\ watcher' = [watcher EXCEPT ![s] = "dead"]
  /\ batch' = [batch EXCEPT ![s] = <<>>]
  /\ UNCHANGED <<status, due, queue, worker, cancel, runs, crashes>>

-----------------------------------------------------------------------------
(* worker_loop.                                                            *)

\* Mutant of Load: a cancelled job is executed all the same.
LoadAny(s) ==
  /\ worker[s].pc = "idle"
  /\ queue[s] # <<>>
  /\ queue' = [queue EXCEPT ![s] = Tail(@)]
  /\ LET j == Head(queue[s])
     IN  worker' = [worker EXCEPT ![s] = Thread("loaded", j, status[j])]
  /\ UNCHANGED <<status, due, batch, watcher, cancel, runs, crashes>>

Load(s) ==
  /\ worker[s].pc = "idle"
  /\ queue[s] # <<>>
  /\ queue' = [queue EXCEPT ![s] = Tail(@)]
  /\ LET j == Head(queue[s])
     IN  worker' = [worker EXCEPT ![s] =
           IF status[j] = "cancelled"
           THEN Idle ELSE Thread("loaded", j, status[j])]
  /\ UNCHANGED <<status, due, batch, watcher, cancel, runs, crashes>>

\* Mutant of Start: the outcome is written before the execution.
StartAsCompleted(s) ==
  /\ worker[s].pc = "loaded"
  /\ Flush(worker[s].job, worker[s].was, "completed")
  /\ worker' = [worker EXCEPT ![s] = Thread("running", @.job, @.was)]
  /\ UNCHANGED <<due, batch, watcher, queue, cancel, runs, crashes>>

Start(s) ==
  /\ worker[s].pc = "loaded"
  /\ Flush(worker[s].job, worker[s].was, "running")
  /\ worker' = [worker EXCEPT ![s] = Thread("running", @.job, @.was)]
  /\ UNCHANGED <<due, batch, watcher, queue, cancel, runs, crashes>>

\* job.description loads the row again, for the execution.
Execute(s) ==
  /\ worker[s].pc = "running"
  /\ runs' = [runs EXCEPT ![s][worker[s].job] = @ + 1]
  /\ worker' = [worker EXCEPT ![s] = Thread("executed", @.job, status[@.job])]
  /\ UNCHANGED <<status, due, batch, watcher, queue, cancel, crashes>>

\* Mutant of Complete: the last commit is forgotten.
CompleteWithoutCommit(s) ==
  /\ worker[s].pc = "executed"
  /\ worker' = [worker EXCEPT ![s] = Idle]
  /\ UNCHANGED <<status, due, batch, watcher, queue, cancel, runs, crashes>>

Complete(s) ==
  /\ worker[s].pc = "executed"
  /\ Flush(worker[s].job, worker[s].was, "completed")
  /\ worker' = [worker EXCEPT ![s] = Idle]
  /\ UNCHANGED <<due, batch, watcher, queue, cancel, runs, crashes>>

\* A statement raises.  The handler marks the job as failed, unless its own
\* commit raises and ends the thread.  When it was the first query that raised,
\* the handler holds no row, or the previous one: the job's id is forgotten.
WorkerFails(s) ==
  /\ DbFails
  /\ worker[s].pc # "dead"
  /\ \/ /\ worker[s].pc # "idle"
        /\ status' = [status EXCEPT ![worker[s].job] = "failed"]
        /\ worker' = [worker EXCEPT ![s] = Idle]
        /\ UNCHANGED queue
     \/ /\ worker[s].pc # "idle"
        /\ worker' = [worker EXCEPT ![s] = Thread("dead", NoJob, "absent")]
        /\ UNCHANGED <<status, queue>>
     \/ /\ worker[s].pc = "idle"
        /\ queue[s] # <<>>
        /\ queue' = [queue EXCEPT ![s] = Tail(@)]
        /\ \E pc \in {"idle", "dead"} :
             worker' = [worker EXCEPT ![s] = Thread(pc, NoJob, "absent")]
        /\ UNCHANGED status
  /\ UNCHANGED <<due, batch, watcher, cancel, runs, crashes>>

\* The process ends, with its queue, and is started again.
Crash(s) ==
  /\ crashes < MaxCrashes
  /\ crashes' = crashes + 1
  /\ batch' = [batch EXCEPT ![s] = <<>>]
  /\ watcher' = [watcher EXCEPT ![s] = "scan"]
  /\ queue' = [queue EXCEPT ![s] = <<>>]
  /\ worker' = [worker EXCEPT ![s] = Idle]
  /\ UNCHANGED <<status, due, cancel, runs>>

-----------------------------------------------------------------------------
Watch(s) == Scan(s) \/ Mark(s) \/ Put(s)
Work(s)  == Load(s) \/ Start(s) \/ Execute(s) \/ Complete(s)

Next ==
  \/ \E j \in Jobs : Create(j) \/ BecomeDue(j)
  \/ \E c \in Cancellers : CancelCommit(c) \/ \E j \in Jobs : CancelLoad(c, j)
  \/ \E s \in Schedulers :
       Watch(s) \/ Work(s) \/ WatcherDies(s) \/ WorkerFails(s) \/ Crash(s)

Spec == Init /\ [][Next]_vars

(* Both threads are infinite loops, time passes, and a handler that has    *)
(* loaded a row goes on to commit.                                         *)
FairSpec ==
  /\ Spec
  /\ \A s \in Schedulers : WF_vars(Watch(s)) /\ WF_vars(Work(s))
  /\ \A j \in Jobs : WF_vars(BecomeDue(j))
  /\ \A c \in Cancellers : WF_vars(CancelCommit(c))
-----------------------------------------------------------------------------
(* Properties.                                                             *)

TaskRec(pcs) == [pc : pcs, job : Jobs \cup {NoJob}, was : Statuses]

(* Type invariant.                                                         *)
TypeOK ==
  /\ status \in [Jobs -> Statuses]
  /\ due \subseteq Jobs
  /\ batch \in [Schedulers -> Seq(Jobs)]
  /\ watcher \in [Schedulers -> {"scan", "mark", "put", "dead"}]
  /\ \A s \in Schedulers : watcher[s] \in {"mark", "put"} => batch[s] # <<>>
  /\ queue \in [Schedulers -> Seq(Jobs)]
  /\ worker \in [Schedulers -> TaskRec({"idle", "loaded", "running", "executed", "dead"})]
  /\ \A s \in Schedulers : worker[s].pc \notin {"idle", "dead"} => worker[s].job \in Jobs
  /\ cancel \in [Cancellers -> TaskRec({"idle", "loaded"})]
  /\ \A c \in Cancellers : cancel[c].pc = "loaded" => cancel[c].job \in Jobs
  /\ runs \in [Schedulers -> [Jobs -> Nat]]
  /\ crashes \in Nat

InBatch(s, j) == \E i \in DOMAIN batch[s] : batch[s][i] = j
InQueue(s, j) == \E i \in DOMAIN queue[s] : queue[s][i] = j
Working(s, j) == worker[s].pc \notin {"idle", "dead"} /\ worker[s].job = j
Has(s, j) == InBatch(s, j) \/ InQueue(s, j) \/ Working(s, j)

(* One scheduler executes a job at most once, whatever crashes, failures   *)
(* and cancellations do to the row: a job never becomes "pending" again.   *)
AtMostOncePerScheduler == \A s \in Schedulers, j \in Jobs : runs[s][j] <= 1

(* "completed" is reported only for a job that was executed, although the  *)
(* watcher and cancellations write over the status without reading it.     *)
CompletedIsTrue ==
  \A j \in Jobs : status[j] = "completed" => \E s \in Schedulers : runs[s][j] > 0

(* A job that a watcher has taken over does not get lost: it is queued in  *)
(* some process, or about to be, or being executed.  (Without crashes and  *)
(* failing statements: the queue is in memory, see the README.)            *)
QueuedIsHeld ==
  \A j \in Jobs :
    status[j] \in {"queued", "running"} => \E s \in Schedulers : Has(s, j)

\* Cancelled, and no thread is past the point where it looks at the status.
CancelSeen(j) ==
  /\ status[j] = "cancelled"
  /\ \A s \in Schedulers : ~InBatch(s, j) /\ ~Working(s, j)

(* A cancellation holds for good unless a watcher has already scanned the  *)
(* job and not yet queued it, or a worker has already loaded it.           *)
CancelHolds == [][\A j \in Jobs : CancelSeen(j) => CancelSeen(j)']_vars

(* A job that was created is eventually executed, failed or cancelled;     *)
(* key_learnings.md: jobs left over from the past are picked up as well.   *)
EventuallyHandled ==
  \A j \in Jobs : status[j] = "pending" ~> status[j] \in Finished \cup {"cancelled"}
=============================================================================
