-------------------------- MODULE DeliveryPipeline --------------------------
(***************************************************************************)
(* The asynchronous notification pipeline of notification_system/app:      *)
(* API coroutines (routes.py) write a notification to the primary Redis    *)
(* (store_redis.py) and its id to one of two streams of the delivery Redis *)
(* (queue.py); worker processes (worker.py) read the streams through one   *)
(* consumer group, deliver each message in an executor thread              *)
(* (delivery.py) and acknowledge the batch; every worker also sweeps the   *)
(* pending entries list for messages of dead consumers; an admin request   *)
(* moves dead-lettered ids back to a stream.                               *)
(*                                                                         *)
(* Each await, each executor thread and each Redis command is a step of    *)
(* its own.  A pipeline() is one step: redis-py runs it as MULTI/EXEC.     *)
(***************************************************************************)
EXTENDS Integers, Sequences, FiniteSets

CONSTANTS
  Calls,       \* POST /send and POST /fanout requests
  Keys,        \* idempotency keys: hash(user, topic, message)
  Targets,     \* the keys a call creates notifications for: [Calls -> SUBSET Keys]
  Fanout,      \* the calls that are POST /fanout; the others are POST /send
  Critical,    \* the calls whose priority is "critical"
  Workers,     \* worker processes, one consumer name each
  NoNid,       \* "no notification": a missing idempotency key
  BatchSize,   \* config.WORKER_BATCH_SIZE
  MaxRetries,  \* config.MAX_RETRIES
  DlqCount,    \* the count parameter of POST /admin/dlq/retry
  Faults,      \* the kinds of failure the environment may inject
  MaxCrashes,  \* bound: worker crashes in a behaviour
  MaxDlqRuns,  \* bound: POST /admin/dlq/retry requests in a behaviour
  MaxAges,     \* bound: how often an entry's idle time passes the timeout
  SendCap      \* bound: the history counter of sends saturates here

(***************************************************************************)
(* "slow": a delivery outlives PEL_CLAIM_TIMEOUT_MS, which config.py asks  *)
(* to be much longer than any delivery.  "redis": a command of a worker    *)
(* raises.  "api", "admin": an API process dies inside a handler.          *)
(* "timeout": channel.send outlives ATTEMPT_TIMEOUT_S.  "expiry": TTLs.    *)
(***************************************************************************)
FaultKinds == {"api", "admin", "redis", "slow", "timeout", "expiry"}

Nids == {n \in Calls \X Keys : n[2] \in Targets[n[1]]}

ASSUME CallsAssumption ==
  /\ IsFiniteSet(Keys)
  /\ Targets \in [Calls -> SUBSET Keys]
  /\ Fanout \subseteq Calls
  /\ Critical \subseteq Calls
  /\ NoNid \notin Nids
ASSUME SizesAssumption ==
  /\ BatchSize \in Nat \ {0}
  /\ MaxRetries \in Nat \ {0}
  /\ DlqCount \in Nat \ {0}
  /\ SendCap \in Nat \ {0}
  /\ MaxCrashes \in Nat
  /\ MaxDlqRuns \in Nat
  /\ MaxAges \in Nat
ASSUME FaultsAssumption == Faults \subseteq FaultKinds

VARIABLES
  callPc,    \* where each API coroutine is
  fresh,     \* the keys it found unused, for which it creates notifications
  accepted,  \* ids the client was given in a 202 response
  idem,      \* idempotency:{key} -> id                        (primary Redis)
  status,    \* notification:{id}.status, "gone" when no hash  (primary Redis)
  partial,   \* hashes that only hold the fields of save_status (primary Redis)
  log,       \* the entries of each stream                     (delivery Redis)
  lastRead,  \* the group's last-delivered id of each stream   (delivery Redis)
  pel,       \* pending entries of each stream and consumer    (delivery Redis)
  idle,      \* pending entries idle past PEL_CLAIM_TIMEOUT_MS (delivery Redis)
  dlq,       \* notifications:dlq                              (delivery Redis)
  pc,        \* where each worker's event loop is
  src,       \* the stream its current batch comes from
  task,      \* message id -> state of its delivery thread
  sweeping,  \* is the worker inside _recover_pending
  start,     \* XAUTOCLAIM's next start_id; 0 is the answer "0-0"
  abandoned, \* timed-out sends whose thread still runs, per worker
  hand,      \* ids dlq_retry_batch has popped and not yet re-added
  sends,     \* history: how often channel.send took effect, up to SendCap
  crashes,   \* counts towards MaxCrashes
  ages,      \* counts towards MaxAges
  dlqRuns    \* counts towards MaxDlqRuns

apiVars    == <<callPc, fresh, accepted>>
storeVars  == <<idem, status, partial>>
streamVars == <<log, lastRead, pel, idle>>
workerVars == <<pc, src, task, sweeping, start, abandoned>>
adminVars  == <<hand, dlqRuns>>
bounds     == <<crashes, ages>>
vars == <<apiVars, storeVars, streamVars, dlq, workerVars, adminVars, sends, bounds>>

Streams == {"critical", "normal"}
StreamOf(c) == IF c \in Critical THEN "critical" ELSE "normal"

CallPcs  == {"idle", "checked", "saved", "replied", "died"}
Statuses == {"gone", "pending", "sent", "failed"}
Pcs      == {"top", "claim", "read", "normal", "fetch", "deliver", "down"}
Stages   == {"claimed", "try", "sent", "failed", "dlq", "done"}
Task     == [stage : Stages, attempt : 0 .. MaxRetries]

\* The batch a worker holds in memory, and the notification a message names.
Batch(w) == DOMAIN task[w]
NidOf(w, i) == log[src[w]][i]
NoBatch == [i \in {} |-> [stage |-> "claimed", attempt |-> 0]]
Claimed(ids) == [i \in ids |-> [stage |-> "claimed", attempt |-> 0]]

Pending(s) == UNION {pel[s][w] : w \in Workers}
Live(s) == {i \in DOMAIN log[s] : i > lastRead[s] \/ i \in Pending(s)}
Elements(q) == {q[i] : i \in DOMAIN q}

\* The n smallest members of a set of message ids.
FirstN(S, n) == {i \in S : Cardinality({j \in S : j < i}) < n}

Init ==
  /\ callPc = [c \in Calls |-> "idle"]
  /\ fresh = [c \in Calls |-> {}]
  /\ accepted = {}
  /\ idem = [k \in Keys |-> NoNid]
  /\ status = [n \in Nids |-> "gone"]
  /\ partial = {}
  /\ log = [s \in Streams |-> <<>>]
  /\ lastRead = [s \in Streams |-> 0]
  /\ pel = [s \in Streams |-> [w \in Workers |-> {}]]
  /\ idle = [s \in Streams |-> {}]
  /\ dlq = <<>>
  /\ pc = [w \in Workers |-> "top"]
  /\ src = [w \in Workers |-> "critical"]
  /\ task = [w \in Workers |-> NoBatch]
  /\ sweeping = [w \in Workers |-> FALSE]
  /\ start = [w \in Workers |-> 0]
  /\ abandoned = [w \in Workers |-> {}]
  /\ hand = <<>>
  /\ sends = [n \in Nids |-> 0]
  /\ crashes = 0
  /\ ages = 0
  /\ dlqRuns = 0

-----------------------------------------------------------------------------
(* The API: send_notification and fanout_notification.                     *)

\* aget_by_key also reads the hash; aget_existing_keys only the key.
Known(c, k) ==
  /\ idem[k] # NoNid
  /\ c \in Fanout \/ status[idem[k]] # "gone"

\* The dedup lookup.  A send that finds its notification answers with its id.
Check(c) ==
  /\ callPc[c] = "idle"
  /\ LET new == {k \in Targets[c] : ~Known(c, k)}
     IN  /\ fresh' = [fresh EXCEPT ![c] = new]
         /\ callPc' = [callPc EXCEPT ![c] = IF new = {} THEN "replied" ELSE "checked"]
         /\ accepted' = IF c \in Fanout
                        THEN accepted
                        ELSE accepted \cup {idem[k] : k \in Targets[c] \ new}
  /\ UNCHANGED <<storeVars, streamVars, dlq, workerVars, adminVars, sends, bounds>>

Created(c) == {<<c, k>> : k \in fresh[c]}

\* asave and asave_batch: hash and idempotency key in one pipeline.
Save(c) ==
  /\ callPc[c] = "checked"
  /\ callPc' = [callPc EXCEPT ![c] = "saved"]
  /\ status' = [n \in Nids |-> IF n \in Created(c) THEN "pending" ELSE status[n]]
  /\ idem' = [k \in Keys |-> IF k \in fresh[c] THEN <<c, k>> ELSE idem[k]]
  /\ UNCHANGED <<fresh, accepted, partial, streamVars, dlq, workerVars, adminVars,
                 sends, bounds>>

\* The orders in which a pipeline can list the ids of S.
Orders(S) ==
  {q \in [1 .. Cardinality(S) -> S] : \A n \in S : \E i \in DOMAIN q : q[i] = n}

\* aenqueue and aenqueue_batch, then the 202 response.
Enqueue(c) ==
  /\ callPc[c] = "saved"
  /\ callPc' = [callPc EXCEPT ![c] = "replied"]
  /\ \E q \in Orders(Created(c)) :
       log' = [log EXCEPT ![StreamOf(c)] = @ \o q]
  /\ accepted' = accepted \cup Created(c)
  /\ UNCHANGED <<fresh, storeVars, lastRead, pel, idle, dlq, workerVars, adminVars,
                 sends, bounds>>

\* The API process dies, or its Redis command raises: the client gets no 202.
ApiDie(c) ==
  /\ "api" \in Faults
  /\ callPc[c] \in {"checked", "saved"}
  /\ callPc' = [callPc EXCEPT ![c] = "died"]
  /\ UNCHANGED <<fresh, accepted, storeVars, streamVars, dlq, workerVars, adminVars,
                 sends, bounds>>

\* The idempotency key lives 24 h, the hash 7 days from its creation.
ExpireKey(k) ==
  /\ "expiry" \in Faults
  /\ idem[k] # NoNid
  /\ idem' = [idem EXCEPT ![k] = NoNid]
  /\ UNCHANGED <<apiVars, status, partial, streamVars, dlq, workerVars, adminVars,
                 sends, bounds>>

ExpireHash(n) ==
  /\ "expiry" \in Faults
  /\ status[n] # "gone"
  /\ n \notin partial
  /\ idem[n[2]] # n
  /\ status' = [status EXCEPT ![n] = "gone"]
  /\ UNCHANGED <<apiVars, idem, partial, streamVars, dlq, workerVars, adminVars,
                 sends, bounds>>

-----------------------------------------------------------------------------
(* The worker's event loop: run, _recover_pending, _process_batch.         *)

\* Mutant of StartSweep: the sweep forgets the critical stream.
SweepNormalOnly(w) ==
  /\ pc[w] = "top"
  /\ pc' = [pc EXCEPT ![w] = "claim"]
  /\ sweeping' = [sweeping EXCEPT ![w] = TRUE]
  /\ src' = [src EXCEPT ![w] = "normal"]
  /\ start' = [start EXCEPT ![w] = 1]
  /\ UNCHANGED <<apiVars, storeVars, streamVars, dlq, task, abandoned, adminVars,
                 sends, bounds>>

\* PEL_CHECK_INTERVAL_S has passed: sweep the critical stream from "0-0".
StartSweep(w) ==
  /\ pc[w] = "top"
  /\ pc' = [pc EXCEPT ![w] = "claim"]
  /\ sweeping' = [sweeping EXCEPT ![w] = TRUE]
  /\ src' = [src EXCEPT ![w] = "critical"]
  /\ start' = [start EXCEPT ![w] = 1]
  /\ UNCHANGED <<apiVars, storeVars, streamVars, dlq, task, abandoned, adminVars,
                 sends, bounds>>

\* Where the loop of _recover_pending goes after a page whose cursor is next.
NextPage(w, next) ==
  IF next # 0
  THEN /\ pc' = [pc EXCEPT ![w] = "claim"]
       /\ start' = [start EXCEPT ![w] = next]
       /\ UNCHANGED <<src, sweeping>>
  ELSE IF src[w] = "critical"
  THEN /\ pc' = [pc EXCEPT ![w] = "claim"]
       /\ start' = [start EXCEPT ![w] = 1]
       /\ src' = [src EXCEPT ![w] = "normal"]
       /\ UNCHANGED sweeping
  ELSE /\ pc' = [pc EXCEPT ![w] = "read"]
       /\ start' = [start EXCEPT ![w] = 0]
       /\ sweeping' = [sweeping EXCEPT ![w] = FALSE]
       /\ UNCHANGED src

\* XAUTOCLAIM's answer: the next pending id after a full page, else "0-0".
Cursor(s, page) ==
  LET rest == {i \in Pending(s) : \A j \in page : j < i}
  IN  IF Cardinality(page) < BatchSize \/ rest = {}
      THEN 0
      ELSE CHOOSE i \in rest : \A j \in rest : i <= j

\* Mutant of Claimable: min_idle_time is 0.
ClaimableAtOnce(w) == {i \in Pending(src[w]) : i >= start[w]}

\* What XAUTOCLAIM may hand out: entries idle past min_idle_time.
Claimable(w) == {i \in idle[src[w]] : i >= start[w]}

\* XAUTOCLAIM: take over up to BatchSize idle entries, whoever holds them.
Claim(w) ==
  LET s    == src[w]
      page == FirstN(Claimable(w), BatchSize)
  IN  /\ pc[w] = "claim"
      /\ \/ /\ page # {}
            /\ pel' = [pel EXCEPT ![s] = [v \in Workers |-> IF v = w
                                                            THEN pel[s][v] \cup page
                                                            ELSE pel[s][v] \ page]]
            /\ idle' = [idle EXCEPT ![s] = @ \ page]
            /\ task' = [task EXCEPT ![w] = Claimed(page)]
            /\ start' = [start EXCEPT ![w] = Cursor(s, page)]
            /\ pc' = [pc EXCEPT ![w] = "fetch"]
            /\ UNCHANGED <<src, sweeping>>
         \/ /\ page = {}
            /\ NextPage(w, 0)
            /\ UNCHANGED <<pel, idle, task>>
      /\ UNCHANGED <<apiVars, storeVars, log, lastRead, dlq, abandoned, adminVars,
                     sends, bounds>>

\* XREADGROUP ">": the next entries become pending for w.
Take(w, s) ==
  LET last == IF lastRead[s] + BatchSize < Len(log[s])
              THEN lastRead[s] + BatchSize ELSE Len(log[s])
      page == lastRead[s] + 1 .. last
  IN  /\ page # {}
      /\ lastRead' = [lastRead EXCEPT ![s] = last]
      /\ pel' = [pel EXCEPT ![s][w] = @ \cup page]
      /\ task' = [task EXCEPT ![w] = Claimed(page)]
      /\ src' = [src EXCEPT ![w] = s]
      /\ pc' = [pc EXCEPT ![w] = "fetch"]
      /\ UNCHANGED <<log, idle>>

NothingNew(w, s, next) ==
  /\ lastRead[s] = Len(log[s])
  /\ pc' = [pc EXCEPT ![w] = next]
  /\ UNCHANGED <<streamVars, task, src>>

ReadCritical(w) ==
  /\ pc[w] \in {"top", "read"}
  /\ Take(w, "critical") \/ NothingNew(w, "critical", "normal")
  /\ UNCHANGED <<apiVars, storeVars, dlq, sweeping, start, abandoned, adminVars,
                 sends, bounds>>

ReadNormal(w) ==
  /\ pc[w] = "normal"
  /\ Take(w, "normal") \/ NothingNew(w, "normal", "top")
  /\ UNCHANGED <<apiVars, storeVars, dlq, sweeping, start, abandoned, adminVars,
                 sends, bounds>>

\* abatch_get: messages whose hash is gone get asyncio.sleep(0) for a delivery.
Fetch(w) ==
  /\ pc[w] = "fetch"
  /\ \A i \in Batch(w) : NidOf(w, i) \notin partial
  /\ pc' = [pc EXCEPT ![w] = "deliver"]
  /\ task' = [task EXCEPT ![w] =
       [i \in Batch(w) |->
          [stage |-> IF status[NidOf(w, i)] = "gone" THEN "done" ELSE "try",
           attempt |-> 0]]]
  /\ UNCHANGED <<apiVars, storeVars, streamVars, dlq, src, sweeping, start, abandoned,
                 adminVars, sends, bounds>>

\* Mutant of AllDone: the batch is acknowledged before gather() returns.
AckEarly(w) == TRUE

AllDone(w) == \A i \in Batch(w) : task[w][i].stage = "done"

\* gather() has returned: one XACK for the whole batch, then on with the loop.
Ack(w) ==
  LET s == src[w]
  IN  /\ pc[w] = "deliver"
      /\ AllDone(w)
      /\ pel' = [pel EXCEPT ![s] = [v \in Workers |-> pel[s][v] \ Batch(w)]]
      /\ idle' = [idle EXCEPT ![s] = @ \ Batch(w)]
      /\ task' = [task EXCEPT ![w] = NoBatch]
      /\ \/ sweeping[w] /\ NextPage(w, start[w])
         \/ /\ ~sweeping[w]
            /\ pc' = [pc EXCEPT ![w] = "top"]
            /\ UNCHANGED <<src, sweeping, start>>
      /\ UNCHANGED <<apiVars, storeVars, log, lastRead, dlq, abandoned, adminVars,
                     sends, bounds>>

\* abatch_get or XACK raises, or a hash cannot be deserialized: the exception
\* is printed, the batch is dropped and its messages stay in the PEL.
BatchError(w) ==
  /\ \/ /\ pc[w] = "fetch"
        /\ "redis" \in Faults \/ \E i \in Batch(w) : NidOf(w, i) \in partial
     \/ pc[w] = "deliver" /\ AllDone(w) /\ "redis" \in Faults
  /\ pc' = [pc EXCEPT ![w] = IF sweeping[w] THEN "read" ELSE "top"]
  /\ task' = [task EXCEPT ![w] = NoBatch]
  /\ sweeping' = [sweeping EXCEPT ![w] = FALSE]
  /\ start' = [start EXCEPT ![w] = 0]
  /\ UNCHANGED <<apiVars, storeVars, streamVars, dlq, src, abandoned, adminVars,
                 sends, bounds>>

\* The process is killed, or XREADGROUP raises outside any try.
Crash(w) ==
  /\ pc[w] # "down"
  /\ crashes < MaxCrashes
  /\ crashes' = crashes + 1
  /\ pc' = [pc EXCEPT ![w] = "down"]
  /\ task' = [task EXCEPT ![w] = NoBatch]
  /\ sweeping' = [sweeping EXCEPT ![w] = FALSE]
  /\ start' = [start EXCEPT ![w] = 0]
  /\ abandoned' = [abandoned EXCEPT ![w] = {}]
  /\ UNCHANGED <<apiVars, storeVars, streamVars, dlq, src, adminVars, sends, ages>>

Restart(w) ==
  /\ pc[w] = "down"
  /\ pc' = [pc EXCEPT ![w] = "top"]
  /\ UNCHANGED <<apiVars, storeVars, streamVars, dlq, src, task, sweeping, start,
                 abandoned, adminVars, sends, bounds>>

\* A pending entry's idle time passes PEL_CLAIM_TIMEOUT_MS.
Age(s, i) ==
  /\ i \in Pending(s) \ idle[s]
  /\ "slow" \in Faults \/ \A w \in Workers : src[w] = s => i \notin Batch(w)
  /\ idle' = [idle EXCEPT ![s] = @ \cup {i}]
  /\ ages < MaxAges
  /\ ages' = ages + 1
  /\ UNCHANGED <<apiVars, storeVars, log, lastRead, pel, dlq, workerVars, adminVars,
                 sends, crashes>>

-----------------------------------------------------------------------------
(* deliver() in an executor thread, one per message of the batch.          *)

AtStage(w, i, stage) ==
  /\ pc[w] = "deliver"
  /\ i \in Batch(w)
  /\ task[w][i].stage = stage

GoTo(w, i, stage) == task' = [task EXCEPT ![w][i] = [stage |-> stage, attempt |-> @.attempt]]

Sent(n) == sends' = [sends EXCEPT ![n] = IF @ < SendCap THEN @ + 1 ELSE @]

AttemptEnds(w, i, stage) ==
  task' = [task EXCEPT ![w][i] = [stage |-> stage, attempt |-> @.attempt + 1]]

SendOk(w, i) ==
  /\ AtStage(w, i, "try")
  /\ Sent(NidOf(w, i))
  /\ AttemptEnds(w, i, "sent")
  /\ UNCHANGED <<apiVars, storeVars, streamVars, dlq, pc, src, sweeping, start,
                 abandoned, adminVars, bounds>>

\* Mutant of AfterFailure: one attempt too many.
OneMoreAttempt(attempt) == IF attempt + 1 <= MaxRetries THEN "try" ELSE "failed"

AfterFailure(attempt) == IF attempt + 1 < MaxRetries THEN "try" ELSE "failed"

\* ChannelDeliveryError: the channel, its circuit breaker or the timeout.
\* A timed-out future is not cancelled: its thread may still send.
SendFails(w, i) ==
  /\ AtStage(w, i, "try")
  /\ AttemptEnds(w, i, AfterFailure(task[w][i].attempt))
  /\ \/ UNCHANGED abandoned
     \/ /\ "timeout" \in Faults
        /\ abandoned' = [abandoned EXCEPT ![w] = @ \cup {NidOf(w, i)}]
  /\ UNCHANGED <<apiVars, storeVars, streamVars, dlq, pc, src, sweeping, start,
                 adminVars, sends, bounds>>

LateSend(w, n) ==
  /\ n \in abandoned[w]
  /\ abandoned' = [abandoned EXCEPT ![w] = @ \ {n}]
  /\ Sent(n)
  /\ UNCHANGED <<apiVars, storeVars, streamVars, dlq, pc, src, task, sweeping, start,
                 adminVars, bounds>>

\* Mutant of SaveStatus: whatever the outcome, "sent" is written.
SaveSent(n, st) ==
  /\ status' = [status EXCEPT ![n] = "sent"]
  /\ partial' = IF status[n] = "gone" THEN partial \cup {n} ELSE partial

\* save_status: HSET of the outcome's fields, which creates a missing hash.
SaveStatus(n, st) ==
  /\ status' = [status EXCEPT ![n] = st]
  /\ partial' = IF status[n] = "gone" THEN partial \cup {n} ELSE partial

SaveOutcome(w, i) ==
  /\ \/ /\ AtStage(w, i, "sent")
        /\ SaveStatus(NidOf(w, i), "sent")
        /\ GoTo(w, i, "done")
     \/ /\ AtStage(w, i, "failed")
        /\ SaveStatus(NidOf(w, i), "failed")
        /\ GoTo(w, i, "dlq")
  /\ UNCHANGED <<apiVars, idem, streamVars, dlq, pc, src, sweeping, start, abandoned,
                 adminVars, sends, bounds>>

\* Mutant of EnqueueDlq: a failed delivery is only marked as failed.
NoDeadLetter(w, i) ==
  /\ AtStage(w, i, "dlq")
  /\ GoTo(w, i, "done")
  /\ UNCHANGED <<apiVars, storeVars, streamVars, dlq, pc, src, sweeping, start, abandoned,
                 adminVars, sends, bounds>>

EnqueueDlq(w, i) ==
  /\ AtStage(w, i, "dlq")
  /\ dlq' = Append(dlq, NidOf(w, i))
  /\ GoTo(w, i, "done")
  /\ UNCHANGED <<apiVars, storeVars, streamVars, pc, src, sweeping, start, abandoned,
                 adminVars, sends, bounds>>

\* save_status or enqueue_dlq raises: gather(return_exceptions=True) keeps the
\* exception as a result, and the message is acknowledged with its batch.
TaskError(w, i) ==
  /\ "redis" \in Faults
  /\ \E stage \in {"sent", "failed", "dlq"} : AtStage(w, i, stage)
  /\ GoTo(w, i, "done")
  /\ UNCHANGED <<apiVars, storeVars, streamVars, dlq, pc, src, sweeping, start,
                 abandoned, adminVars, sends, bounds>>

-----------------------------------------------------------------------------
(* POST /admin/dlq/retry: dlq_retry_batch.                                 *)

DlqPop ==
  /\ hand = <<>>
  /\ dlq # <<>>
  /\ dlqRuns < MaxDlqRuns
  /\ dlqRuns' = dlqRuns + 1
  /\ LET n == IF DlqCount < Len(dlq) THEN DlqCount ELSE Len(dlq)
     IN  /\ hand' = SubSeq(dlq, 1, n)
         /\ dlq' = SubSeq(dlq, n + 1, Len(dlq))
  /\ UNCHANGED <<apiVars, storeVars, streamVars, workerVars, sends, bounds>>

\* Mutant of DlqRequeue: only the first of the popped ids is added again.
RequeueFirstOnly ==
  /\ hand # <<>>
  /\ log' = [log EXCEPT !["normal"] = Append(@, Head(hand))]
  /\ hand' = <<>>
  /\ UNCHANGED <<apiVars, storeVars, lastRead, pel, idle, dlq, workerVars, dlqRuns,
                 sends, bounds>>

\* Always to STREAM_KEY, whatever the notification's priority was.
DlqRequeue ==
  /\ hand # <<>>
  /\ log' = [log EXCEPT !["normal"] = Append(@, Head(hand))]
  /\ hand' = Tail(hand)
  /\ UNCHANGED <<apiVars, storeVars, lastRead, pel, idle, dlq, workerVars, dlqRuns,
                 sends, bounds>>

DlqDie ==
  /\ "admin" \in Faults
  /\ hand # <<>>
  /\ hand' = <<>>
  /\ UNCHANGED <<apiVars, storeVars, streamVars, dlq, workerVars, dlqRuns, sends,
                 bounds>>

-----------------------------------------------------------------------------
ApiStep == \E c \in Calls : Check(c) \/ Save(c) \/ Enqueue(c) \/ ApiDie(c)

Expiry == (\E k \in Keys : ExpireKey(k)) \/ (\E n \in Nids : ExpireHash(n))

Deliver(w) ==
  \/ \E i \in Batch(w) :
       SendOk(w, i) \/ SendFails(w, i) \/ SaveOutcome(w, i) \/ EnqueueDlq(w, i)
         \/ TaskError(w, i)
  \/ \E n \in Nids : LateSend(w, n)

Loop(w) ==
  Claim(w) \/ ReadCritical(w) \/ ReadNormal(w) \/ Fetch(w) \/ Ack(w) \/ BatchError(w)

Admin == DlqPop \/ DlqRequeue \/ DlqDie

Next ==
  \/ ApiStep
  \/ Expiry
  \/ \E w \in Workers : StartSweep(w) \/ Loop(w) \/ Deliver(w) \/ Crash(w) \/ Restart(w)
  \/ \E s \in Streams : \E i \in Pending(s) : Age(s, i)
  \/ Admin

Spec == Init /\ [][Next]_vars

(***************************************************************************)
(* Fairness: a handler that runs keeps running (uvicorn and asyncio        *)
(* schedule every ready coroutine); a live worker's loop and its executor  *)
(* threads keep running; the loop tests the sweep interval every time      *)
(* round, so the sweep that is due again and again does start; time        *)
(* passes.  Nothing restarts a dead worker: docker-compose.yml has no      *)
(* restart policy.  Nobody is obliged to call the API.                     *)
(***************************************************************************)
Fairness ==
  /\ \A c \in Calls : WF_vars(Save(c)) /\ WF_vars(Enqueue(c))
  /\ \A w \in Workers : WF_vars(Loop(w)) /\ SF_vars(StartSweep(w))
  /\ \A w \in Workers : WF_vars(\E i \in Batch(w) : SendOk(w, i) \/ SendFails(w, i)
                                  \/ SaveOutcome(w, i) \/ EnqueueDlq(w, i))
  /\ \A s \in Streams : WF_vars(\E i \in Pending(s) : Age(s, i))
  /\ WF_vars(DlqRequeue)

FairSpec == Spec /\ Fairness
-----------------------------------------------------------------------------
(* Properties.                                                             *)

ApiOK ==
  /\ callPc \in [Calls -> CallPcs]
  /\ fresh \in [Calls -> SUBSET Keys]
  /\ \A c \in Calls : fresh[c] \subseteq Targets[c]
  /\ accepted \subseteq Nids

StoreOK ==
  /\ idem \in [Keys -> Nids \cup {NoNid}]
  /\ status \in [Nids -> Statuses]
  /\ partial \subseteq Nids

StreamOK ==
  /\ log \in [Streams -> Seq(Nids)]
  /\ lastRead \in [Streams -> Nat]
  /\ \A s \in Streams : lastRead[s] <= Len(log[s])
  /\ pel \in [Streams -> [Workers -> SUBSET Nat]]
  /\ \A s \in Streams, w \in Workers : pel[s][w] \subseteq 1 .. lastRead[s]
  /\ idle \in [Streams -> SUBSET Nat]
  /\ \A s \in Streams : idle[s] \subseteq Pending(s)

DlqOK == dlq \in Seq(Nids) /\ hand \in Seq(Nids)

BatchOK(w) ==
  /\ Batch(w) \subseteq 1 .. lastRead[src[w]]
  /\ pc[w] \in {"fetch", "deliver"} \/ Batch(w) = {}
  /\ \A i \in Batch(w) :
       /\ task[w][i] \in Task
       /\ task[w][i].stage \in {"claimed", "try"} => task[w][i].attempt < MaxRetries

WorkerOK ==
  /\ pc \in [Workers -> Pcs]
  /\ src \in [Workers -> Streams]
  /\ task = [w \in Workers |-> task[w]]
  /\ \A w \in Workers : BatchOK(w)
  /\ sweeping \in [Workers -> BOOLEAN]
  /\ start \in [Workers -> Nat]
  /\ abandoned \in [Workers -> SUBSET Nids]

HistoryOK ==
  /\ sends \in [Nids -> 0 .. SendCap]
  /\ crashes \in Nat
  /\ ages \in Nat
  /\ dlqRuns \in Nat

(* Type invariant of the pipeline's state: among others, the group's read  *)
(* position and the pending entries stay inside each stream, and no        *)
(* delivery thread is asked for an attempt beyond MAX_RETRIES.             *)
TypeOK == ApiOK /\ StoreOK /\ StreamOK /\ DlqOK /\ WorkerOK /\ HistoryOK

\* What NothingLost and OneProcessor ask of the environment.
Lossless == Faults \cap {"redis", "admin", "expiry"} = {}
Timely   == "slow" \notin Faults

Enqueued(n) == \E s \in Streams : n \in Elements(log[s])
Queued(n) == \E s \in Streams : \E i \in Live(s) : log[s][i] = n
DeadLettered(n) == n \in Elements(dlq) \/ n \in Elements(hand)

(* No message is forgotten: an id that ever reached a stream has been sent *)
(* or is still in a stream's unread tail, in the pending entries list, in  *)
(* the dead-letter queue or in the hands of its retry - across crashes of  *)
(* workers, sweeps that steal a batch from a slow one, and batched         *)
(* acknowledgements.  (_process_batch acknowledges after gather.)  It needs *)
(* that Redis commands and hashes do not fail: see TaskError and Fetch.    *)
NothingLost == \A n \in Nids : Enqueued(n) => sends[n] > 0 \/ Queued(n) \/ DeadLettered(n)

(* While PEL_CLAIM_TIMEOUT_MS exceeds every delivery, no message is in the *)
(* hands of two workers: neither XREADGROUP nor XAUTOCLAIM hands out what  *)
(* a live worker still processes.                                          *)
OneProcessor ==
  \A v, w \in Workers :
    v # w /\ src[v] = src[w] => Batch(v) \cap Batch(w) = {}

(* The status a client reads is backed by what happened: "sent" only after *)
(* channel.send took effect; a "failed" notification can still be retried, *)
(* being in the dead-letter queue, its retry, or not yet acknowledged.     *)
SentIsTrue == \A n \in Nids : status[n] = "sent" => sends[n] > 0
FailedIsRetriable ==
  \A n \in Nids : status[n] = "failed" => Queued(n) \/ DeadLettered(n)

(* A notification whose id was given in a 202 response is eventually sent  *)
(* or dead-lettered; LEARNINGS.md: "restart no longer loses notifications".*)
AcceptedSettles ==
  \A n \in Nids : n \in accepted ~> (sends[n] > 0 \/ n \in Elements(dlq))

(* The pipeline implements DeliveryContract: the life of a notification.   *)
Life(n) ==
  IF sends[n] > 0 THEN "delivered"
  ELSE IF DeadLettered(n) THEN "dead"
  ELSE IF Queued(n) THEN "queued"
  ELSE IF status[n] # "gone" THEN "stored"
  ELSE "absent"

Contract == INSTANCE DeliveryContract WITH life <- [n \in Nids |-> Life(n)]

(* Every step of the pipeline keeps the contract: at-least-once delivery   *)
(* with a dead-letter queue, as the notes on tier 10A describe it.         *)
ImplementsContract == Contract!Spec
=============================================================================
