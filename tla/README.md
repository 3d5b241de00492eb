# Verification of the services in this repository

The repository holds four practice systems, each a few processes around Redis,
SQL or HTTP: an asynchronous **notification system**, a **distributed cache**
(Go router, Go nodes, Go store), a **task scheduler** with an MCP front end, and a
**QR code generator** with a cached redirect. This directory holds TLA+ models of
the parts in which several actors share state, TLC configurations that check
them on small instances, and TLAPS proofs of what matters most for any size.

Contents: [1 inventory](#1-the-systems) · [2 plan](#2-plan) ·
[3 modules and code](#3-modules-and-code) · [4 runs](#4-runs) ·
[5 proofs](#5-proofs) · [6 divergences](#6-divergences-from-the-documentation) ·
[7 not modelled](#7-what-is-not-modelled).

How to run everything: `tlc -config d_crash.cfg MCDeliveryPipeline` (the module of
each configuration is in section 4), `tlapm DeliveryPipelineProofs.tla`.
`PROJECT.json` maps every definition to the lines it models and names, for every
property, a mutation of the code's model that breaks it (the operators commented
"Mutant of ..." are those mutations, and are used by nothing else).

## 1. The systems

### Notification system (`src/notification_system/app`)

| component | state | operations | interacts with |
|---|---|---|---|
| API (`routes.py`, `idempotency.py`) | none of its own | `POST /send`, `POST /fanout`: dedup lookup, save, enqueue, 202 | store, streams |
| store (`store_redis.py`) | hash per notification, idempotency keys, both with TTLs | `asave`, `asave_batch`, `save_status`, `abatch_get`, `aget_by_key` | written by API and delivery threads |
| streams (`queue.py`) | two Redis streams, a consumer group with a pending entries list (PEL), a dead-letter list | enqueue, XREADGROUP, XAUTOCLAIM, XACK, RPUSH, LPOP | API, workers, admin |
| worker (`worker.py`, `delivery.py`) | batch in memory, executor threads | main loop, PEL sweep, batch delivery with retries | several processes compete |
| DLQ administration (`admin.py`) | none | `POST /admin/dlq/retry` | streams |
| channels (`delivery.py`, `circuit_breaker.py`, `channels/`) | per process: a breaker per channel, one pool of 32 threads with its queue | an attempt: submit, guarded send, wait with a timeout | delivery threads, which share all of it |

Hard: a worker may die anywhere, and everything it held comes back through the PEL;
a sweep may take a batch from a worker that is merely slow; a timed-out send is
not cancelled, keeps its pool thread and reports to the breaker whenever it ends; save and enqueue are two steps on two Redis servers; a failing
command inside `gather` is swallowed. What makes it correct: nothing that reached a stream
is forgotten, a status is backed by what happened, a dead-lettered id can be
retried, everything accepted is eventually settled; a circuit goes by its channel's answers, and
a delivery ends even when no channel answers.

### Distributed cache (`src/distributed_cache/scaffold`)

| component | state | operations | interacts with |
|---|---|---|---|
| hash ring (`go_router/ring.go`) | sorted positions, position map, node set, under one RWMutex | `addNode`, `removeNode`, `nodesForKey` | health checker, handlers |
| health checker (`main.go`) | `healthState` per node under `healthMu` | ticker, one `checkNode` goroutine per node and tick | ring, breakers |
| circuit breakers (`circuit_breaker.go`) | state, failures, last failure | `Allow`, `RecordSuccess`, `RecordFailure`, `Reset` | handlers, health checker |
| local cache (`local_cache.go`) | LFU: key map, frequency buckets, `minFreq`; or counters, or a snapshot that is rebuilt periodically | `Get`, `RecordHit`, `Invalidate` | handlers |
| write path (`main.go`, `go_store`) | replicas, backing store | `handleSet`, `handleDelete`, three write modes | nodes, store, local cache |
| cache node (`go_node/lru.go`) | LRU list with TTLs under one mutex | get, set, delete | router |
| Python node (`app/lru_cache.py`, `app/node_api.py`) | dictionary and linked list, no lock | get, set, delete in FastAPI's threads | Python router |

Hard: `checkNode` changes the ring after it has released `healthMu`, and a probe
may outlast the next tick, so checks of one node overlap; results of old calls
reach a breaker in another state; `Get` drops the read lock before it removes an
expired entry; a write is three calls on three machines, each of which may fail, or time out and happen
later; a node returns with what it held when it left; the Python node's threads meet inside its linked
list. What makes it correct: an acknowledged write leaves no older value behind where it promises
to, the ring is the set of healthy nodes, every key
finds its nodes and its replica takes over, a half-open breaker has at most one trial and gets out
of that state when the trial ends,
the cache stays within capacity and evicts what LFU says.

### Task scheduler (`src/chatgpt_task/scaffold/app`)

The table `jobs` (`models.py`) is the shared state. `task.create` and `task.cancel`
(`mcp_server.py`, over REST or MCP) write it; the watcher thread of `scheduler.py`
turns due `pending` jobs into `queued` ones and puts their ids on an in-memory
queue; the worker thread executes them. Hard: nobody's write is conditional on what
it has read; the queue dies with the process; an exception ends the watcher
thread; two entry points start a scheduler on the same database. What makes it correct: a job is
executed at most once, `completed` is true, a cancellation that came in time
holds, a job that was taken over is not lost.

### QR code generator (`src/qr_code_generator`)

| component | state | operations | interacts with |
|---|---|---|---|
| routes (`routes.py`) | the row in `url_mappings` | create, redirect, update, delete | caches, database |
| redirect cache (`cache.py`) | Redis keys `r:<token>` (24 h or the link's life) and `gone:<token>` (60 s) | get, set, delete | filled by redirects, deleted by writers |
| Varnish (`default.vcl`) | one object per `/r/<token>`, 60 s, 302 only | lookup, PURGE | in front of redirects on port 8200 |
| scan stream (`consumer.py`) | stream with a consumer group | XADD per redirect, batch insert, XACK | redirects, database |

Hard: a redirect writes to a cache what it read before an await, an invalidation
may come between; `update_qr` invalidates before its commit, `delete_qr` after it;
a lifetime that is rounded to 0 becomes the default of 24 h; PURGE may be lost;
scans of a dead consumer stay pending. What makes it correct: an outdated answer ends in bounded
time, a deleted link is not answered, a live one is not hidden for longer than 60 s.

## 2. Plan

Written and checked, in this order, the most important behaviour first:

1. `DeliveryContract`, `DeliveryPipeline` and its proofs: the notification pipeline.
2. `LfuPolicy`, `LfuCache` and its proofs: the router's LFU cache.
3. `HashRing`, `RouterHealth` (composes the ring, the health checker, the breakers
   and the handlers that call nodes) and its proofs.
4. `TaskScheduler` and its proofs.
5. `RedirectCache` and its proofs: Varnish, Redis, the negative cache and the row
   of one token.
6. `LruPolicy`, `LruNode`: a cache node, as the Go service promises it and as the
   Python one behaves.
7. `RouterWrites`: `handleSet`, `handleDelete`, `handleGet` with the copies, the store
   and the local cache of one key.
8. `ChannelDelivery`: the attempts of a delivery, their thread pool and the channel
   breakers. It opens up what `DeliveryPipeline` does in `SendOk`, `SendFails`, `LateSend`.

9. Proofs about 6 to 8, the router's lookups, the three refinements, and the rest of
   the safety properties (section 5).

Next:

10. `ScanStream`: the QR service's scan events, their consumer and its crashes.
11. `counterCache` with several keys (is `minKey` ever stale?), the lifetimes of
   local entries, the rate limiters.

## 3. Modules and code

**DeliveryPipeline.** One action per await of an API coroutine (`Check`, `Save`,
`Enqueue`), per step of a worker's loop (`StartSweep`, `Claim`, `ReadCritical`,
`ReadNormal`, `Fetch`, `Ack`), per step of a delivery thread (`SendOk`,
`SendFails`, `SaveOutcome`, `EnqueueDlq`) and of the admin request (`DlqPop`,
`DlqRequeue`). A stream is a sequence of ids, an entry's place its message id;
`lastRead` and `pel` are the consumer group; `idle` says which pending entries
have passed `PEL_CLAIM_TIMEOUT_MS`. The environment's failures are named in the
constant `Faults`: `api`, `admin` (a process dies inside a request: an
interrupted retry loses the ids it has popped), `redis` (a worker's command
raises: `BatchError`, `TaskError`), `slow` (a delivery outlasts the claim timeout),
`timeout` (a send that timed out may still take effect: `LateSend`), `expiry`
(TTLs). `Crash` is bounded by `MaxCrashes`.
`DeliveryContract` is what the pipeline promises about one notification: stored,
queued, delivered or dead-lettered, and no way out of "queued" but the last two.

**LfuCache** has the struct `lfu` with the fields of the code, one action per
method, and `Get` in its two halves, because it changes locks in between.
`LfuPolicy` is exact LFU with LRU among equals, with no buckets and no `minFreq`.

**HashRing** is the data structure as operators on a record: positions as a bag,
because `addNode` inserts the positions of a node it already has again;
`ringMap` reads as `NoNode` ("") where it has no entry. No two virtual nodes have one position and
no two nodes one rendezvous score: both are 64 bits of MD5, whose collisions are left out. **RouterHealth** has one action per
step of `checkNode` between which another goroutine can run (the probe with its answer, health
update, ring change, breaker reset), the steps of a call through a breaker, and
`OpenTimeout`, the passing of 15 s. `Checks` is how many checks of a node may
be in flight: a probe lasts up to 5 s, a tick is 2 s. `crossed` is history: the nodes of which a check has decided on
a change of the ring while another one's change was still to be made. `Unsendable` are the keys that
no URL can hold (a GET of `/cache/%25zz` has the key `%zz`): `CallNode` then takes the breaker through `Allow`,
panics on the missing request (`main.go:114`), and leaves the breaker as `Allow` made it.

**TaskScheduler** has one action per transaction of the watcher (`Scan`, `Mark`,
`Put`), the worker (`Load`, `Start`, `Execute`, `Complete`) and the tools (`Create`,
`CancelLoad`, `CancelCommit`). `Flush` is SQLAlchemy's rule that a column is
written only when it differs from what the session loaded. `DbFails` lets any
statement raise; `Crash` restarts a process with an empty queue.

**RedirectCache** is one token. Each `await` of `redirect`, `create_qr`, `update_qr` and
`delete_qr` on Redis, the database or Varnish ends an action: `ReadUrl`,
`ReadGone`, `Select`, `SetUrl`, `SetGone`, `Reply`; `Create`, `Store`, `Patch`, `Delete`, `DropUrl`,
`DropGone`, `Commit`, `Purge`. `DropUrl` and `DropGone` are two commands, and a PATCH
with both fields runs them twice. `Reply` is where Varnish may keep the 302 - also when its
fetch began before a PURGE. `ReadFails` and `WriteFails` are a raising command or
the end of the process. Time is explicit: `Tick` runs all timers down, a
second is `Second` ticks, so that `int()` truncates; `age` is a history variable, the time since the
row last changed what it answers or was written; `r.late` marks an entry that was outdated when it was
written. No request lasts longer than `Span` ticks.

**LruNode** is one worker process of the Python cache node. The interpreter (3.11)
switches threads when a Python function is entered and after a built-in has
returned, never inside the bodies of `_remove` and `_prepend`; what a thread
does between two such points is an action: `Get`, `Check`, `Set`, `Expiry`, `Pick`, `Pop`, `Unlink`,
`MoveOut`, `Create`, `MoveIn`, `Value`. So the list is a sequence of nodes, a key's node is an
object of its own (two nodes may carry one key), and a node that is not in
the list makes `_remove` raise, which ends the request (`Removed`), as does an `expires_at` that has become
`None` when `get` compares it with the clock (`Check`). `met` is history: have requests
overlapped, even on one key? `LruPolicy` is the exact LRU cache: `Read`, `Delete`, `Update` and `Insert` are what
`Get`, `Delete` and `Set` do to its entries, `Lapse` the passing of a TTL; the first four act on the key of the request under way
(`asked`), and `Read` drops the entry if and only if its TTL has passed. `Entries` maps the Python node to it: the
list, without the node that the acting thread is about to take out (`Leaving`) or with the one it is about
to put in front (`Arriving`). The Go node's methods each hold the mutex from beginning to
end, so it is a model of the Go node as it stands.

**RouterWrites** is the life of one key: `held` is what primary, replica and store
hold, `wr` the SETs and DELETEs under way, `local` the entry in the local cache. `Plan` says which calls a
write makes at the same time and in which order, `Required` which of them must succeed, for each
`WRITE_THROUGH_MODE` and for a ring with one node left. A call either happens, or fails and never happens, or fails and
happens later (`Call`, `Arrive`). Of a SET's copies some may answer 400 and keep what they had (`Refusals`): the store
when the body is above 1 MiB, the nodes when it is not a request of theirs, all when it is no JSON; the
router takes that for a success (`Acknowledged` is whether the client reads one, too). `Get`, `Ask`, `Record` are a read: the local cache, one node after
the other, `RecordHit`. `StartRebuild`, `Fetch`, `Install` are `doRebuild` of the periodic cache.
`Flip` stands for the health checker of `RouterHealth`, `Lose` for an eviction, an expiry or the end
of a node's process. `allowed` is history: what a copy may still hold, given
the writes that were acknowledged.

**ChannelDelivery** has the threads that run `deliver` (`Submit`, `Result`, `Timeout`), and the pool's
threads: `Take` a call from the queue, then the two locked sections of
`CircuitBreaker.call` with the send between them (`Admit`, `Send`, `Report`). `Recover` is the passing of
`CB_RECOVERY_SECONDS`. A timed-out call stays where it is. A channel that hangs is one that
never takes `Send`. A back-off is the time until the next `Submit`.

**MC modules** give the constants values, and say which permutations are
symmetries. Symmetry is used in runs without liveness properties only; workers,
jobs, schedulers, callers and concurrent checks are interchangeable because nothing
in the code orders them.

## 4. Runs

| run | instance | checks | distinct states |
|---|---|---|---|
| `d_crash` | 1 fan-out to 2 users, 2 workers, batches of 2, 1 crash, API may die, 1 DLQ retry | `TypeOK`, `NothingLost`, `OneProcessor`, `FailedIsRetriable`, `ImplementsContract` | 761,722 |
| `d_all` | 1 send, 2 workers, 2 attempts, all six faults, 1 crash, 1 DLQ retry | `SentIsTrue` | 2,335,611 |
| `d_live` | 2 sends with one key, 2 workers, 1 crash, fair | `AcceptedSettles` | 65,552 |
| `lfu_policy` | 4 keys, capacity 3, 2 readers | `MapsAgree`, `CapacityHeld`, `MinFreqWhenFull`, `ImplementsPolicy` | 44,803 |
| `h_ring` | 3 nodes with 2 positions, 3 keys, both strategies, 1 check per node, 4 stops or returns, fair | `LookupFindsNodes`, `FailsOverToReplica`, `RingSettles` | 11,296 |
| `h_overlap` | 2 nodes, 2 overlapping checks of one of them, 2 callers, 1 key of 2 that no URL can hold, thresholds 1, 1 stop, calls end | `RingFollowsHealth`, `OneTrial`, `WalkEnds`, `TrialResolves` | 178,470 |
| `t_one` | 1 scheduler, 2 jobs, 1 canceller, no failures, fair | `QueuedIsHeld`, `CancelHolds`, `EventuallyHandled` | 1,562 |
| `t_two` | 2 schedulers, 2 jobs, failing statements, 1 crash | `TypeOK`, `AtMostOncePerScheduler`, `CompletedIsTrue` | 800,269 |
| `q_redirect` | 1 redirect, 2 writers, 2 urls, lifetimes 0, 2 s and NULL, failures | `TypeOK`, `StaleRedirectEnds`, `NegativeCacheEnds`, `StaleEdgeEnds`, `DeleteInvalidates` | 1,047,481 |
| `lru_node` | 3 keys, capacity 2, 2 threads, 4 different SETs, 3 node objects | `TypeOK`, `FreshReads`, `DictAndListAgree`, `ImplementsPolicy` | 1,449,495 |
| `rw_writes` | 2 nodes and the store, 1 SET that copies may refuse, 1 DELETE, 1 reader, every mode with one kind of local cache, 2 ring changes, 1 failed call or lost copy, an older value everywhere | `TypeOK`, `CopiesAreCurrent`, `LocalIsCurrent` | 2,414,974 |
| `c_channels` | 2 deliveries of 3 attempts to 1 or 2 channels, 2 pool threads, threshold 2, fair | `TypeOK`, `CircuitFollowsResults`, `DeliveriesSettle`, `HalfOpenResolves` | 422,595 |

What they show.
*Delivery:* with crashes and lossless Redis, at-least-once delivery with a
dead-letter queue is implemented step by step; with every fault at once
a client never reads a `sent` that was not sent (it may read `failed` for one that was: the slower of two
deliveries writes last). `OneProcessor` holds as long as no delivery
outlasts the claim timeout: neither XREADGROUP nor XAUTOCLAIM hands out what a
live worker has. What is accepted is settled even if a worker stays
down - the other one sweeps its pending entries - but not if the API dies
between save and enqueue (section 6).
*LFU:* `removeEntry` leaves `minFreq` stale, and the runs show that it is exact
whenever an eviction uses it: only a full cache evicts, and nothing but an insertion
that resets `minFreq` can make a cache full again after a removal.
*Router:* checks of a node overlap, and still ring and health agree whenever no check is about to change the
ring, the ring settles on the nodes that answer, and a key's replica is the node that takes over - until a check
decides to change the ring while an earlier decision is still on its way there. Then
ring positions are duplicated or orphaned and a node may stay out of the ring for
good (section 6), but the search loop of `nodesForKey` still ends. A half-open circuit never has two calls
in flight, and a trial that is sent ends the state; one that panics before it is sent does not (section 6).
*Tasks:* see section 6; in spite of unconditional writes no scheduler executes a job twice
and `completed` is true.
*Redirects:* whatever races and fails, Redis answers an outdated url for at most the longer of 24 h and
the link's own life, and one request, after the row changed; Varnish adds at most 60 s and
one request, the negative cache at most 60 s in all. Nothing renews an entry
without reading the row. After a DELETE a cached link is the work of a redirect that read before
the commit, or of a DELETE that failed before its invalidation. For a PATCH there is
no such property: its invalidation comes first (section 6).
*Python node:* a read never returns what its key did not hold since the read began, and whatever
interleaves, a key in the dictionary stays within reach of eviction. Requests that do not overlap see an exact LRU
cache that answers no entry whose TTL has passed. As long as no two requests meet on a
key (the one being served, or the one being evicted) nothing else goes wrong either; section 6 says what
does when they meet.
*Write path:* an acknowledged SET or DELETE has replaced every earlier value, calls that arrive late included,
in the copies its mode must reach, unless the copy answered 400 (section 6); a copy it need not reach (the caches of `store_first`, the store of
`cache_first`) may keep the old one. The local cache follows, except for entries that were read before an invalidation
and recorded after it.
*Channels:* no answer is lost or attributed to another channel, refusals do not count as
failures, and no order of late answers leaves a circuit half-open. Deliveries end
by their timeouts even when hung calls hold every pool thread; queued calls then wait,
also those of healthy channels.

Bounds. `MaxCrashes` 1: a crash hands what the worker held to the other one; a second one does
the same again from a state the first one leads to. `MaxAges` 2: two
pending entries can pass the claim timeout, or one of them twice, so that a sweep can take an entry, lose it
and find it again. `MaxRetries` 1 or 2: no and one further attempt. `MaxDlqRuns` 1. `SendCap` 1: the
history counter of sends saturates, because the properties ask only whether
there was one. `MaxFreq` in `lfu_policy` lets one key be hit more often than the
other; a further hit is cut off, not mapped to another state. `MaxFlips`: how often a
node stops or returns; with four in `h_ring` one node stops, returns and stops again, or two are away at once. Counters
that the code compares with a threshold saturate there (`Bump`). `t_one` and `t_two` set
`CHECK_DEADLOCK FALSE`: when all jobs are handled nothing more happens, the loops only poll. So does
`c_channels`: when the deliveries have ended and the pool is idle nothing more happens.
`lru_node`: three keys for two places, so that evictions occur while a thread holds a node; one key is stored
with two values, with a TTL and without, so that updates, expiry and recycling meet, and a SET takes the TTL away
under a GET. Three node objects: a SET
waits for a free one, so that two cached nodes and one in each thread's hand are not reached together; with
`Capacity = 1` three suffice for that, and the same properties hold (1,561,953 states). `rw_writes`: one fault and one pair of overlapping writes reach every branch of the
modes; two ring changes let a node leave and return; the mode rules the copies and the strategy the local cache, and
neither reads the other, so that each mode is combined with one strategy (`SpecOneStrategyEach`; in the other four
combinations, of up to 6,015,570 states, the same properties hold). `h_overlap`: with two checks a probe sent before a node's
stop can be applied as its recovery after the stop, so one stop and thresholds of 1 reach every order of ring changes; two nodes let the
ring answer with no node (`Panic`); the checks of the second node do not overlap (`NextOverlapAtN1`), since the properties speak
of one node at a time and a check touches one node only. `c_channels`: three attempts of two deliveries are more than the two pool threads
and more than the threshold, so that calls queue, circuits open, half-open and re-open, and abandoned
calls report between later ones.
In `q_redirect` the longest lifetime is longer than `Day`, so that both sides of `MaxLife` occur,
and a second has two ticks, so that a rest of half a second is truncated to 0; each writer makes one
request, readers any number; `age` saturates above every bound it is compared with (`AgeCap`);
`EdgeTtl` stands for the 60 s and Varnish's default grace.

Fairness. *Delivery:* coroutines and threads that can run do run (asyncio, the
executor); a live worker's loop goes on, and since it tests the sweep interval
every time round, the sweep has strong fairness; time passes. Not assumed: that anything
restarts a dead worker (docker-compose.yml has no restart policy), that a send
succeeds, that anybody calls the API. *Router:* the ticker never stops and
`proxyClient.Timeout` ends every probe and call; failures and requests are not
fair. `h_overlap` says this of the calls only (`CallsEnd`). *Tasks:* both threads are infinite loops, time passes, a handler that has
loaded a row goes on to commit. *Channels:* a thread that can run does run, and
`future.result` has a timeout; nothing makes a channel answer (`Send` is not fair). *Redirects:* none;
the bounds are invariants over explicit time, and `Span` is an assumption on how long a request takes.

## 5. Proofs

For every value of the constants, under the named assumptions of the modules:

| theorem | statement | argument |
|---|---|---|
| `DeliveryPipelineProofs!TypeCorrect` | `Spec => []TypeOK` | `TypeOK` is inductive |
| `...!NoTwoProcessors` | if `Timely` (no slow deliveries), `Spec => []OneProcessor` | two batches overlap only if an entry was handed out twice; an entry in a live worker's batch is pending for that worker and not idle |
| `...!NothingIsLost` | if `Lossless` (no failing Redis commands of workers, interrupted retries, TTLs), `Spec => []NothingLost` | stronger invariant: a message whose hash is stored stays stored (`Stored`), a delivery thread past its send has sent (`StagesTrue`) |
| `...!SentMeansSent` | `Spec => []SentIsTrue`, under every fault | `SentStages`: a delivery thread whose stage is "sent" has sent |
| `...!FailedCanBeRetried` | if `Timely` and `Steady` (no failing command of a worker or of the retry), `Spec => []FailedIsRetriable` | `FailedIsOpen`: the id is dead-lettered or has an entry that nobody has finished; needs `NoTwoProcessors`, since a second processor could finish it with another outcome |
| `...!PipelineImplementsContract` | if `Lossless`, `Spec => ImplementsContract` | with the invariant of `NothingIsLost` and `Beginnings` (what is queued, sent or dead-lettered was replied to), each action moves the life of a notification by one step of `DeliveryContract` or not at all |
| `LfuCacheProofs!MapsStayConsistent`, `!MinFreqExact`, `!WithinCapacity` | `MapsAgree`, `MinFreqWhenFull`, `CapacityHeld` | proved together: the victim exists because `minFreq` names a bucket, which holds because the cache is full |
| `...!CacheImplementsPolicy` | `Spec => ImplementsPolicy` | `Ranked`: every bucket is ordered as the history of touches is, so the tail of the lowest bucket is the policy's victim |
| `RouterHealthProofs!WalkTerminates` | `Spec => []WalkEnds`, with any overlapping checks | every node in the ring's node set keeps one copy of each position with its map entry |
| `...!TrialIsAlone` | `Spec => []OneTrial` | half-open means at most one call in flight, open with the timeout elapsed means none |
| `...!RingIsHealth` | `Spec => []RingFollowsHealth`, with any overlapping checks | of a node that has not crossed, at most one check is about to change the ring, and it is the only reason for a difference |
| `...!LookupsReturnMembers`, `!ReplicasTakeOver` | `LookupFindsNodes`, `FailsOverToReplica`, with any overlapping checks | `RingInv`: while no node has crossed, the ring holds each member's positions once and no other's (`Proper`), so that a lookup is the first of a set of positions, or the best of a set of nodes, and removing a node removes the first |
| `TaskSchedulerProofs!SchedulerTypes` | `Spec => []TypeOK` | inductive; the order of a query's result comes from finite-set theorems |
| `...!AtMostOnce` | `Spec => []AtMostOncePerScheduler`, with any number of schedulers, crashes, failures | `PlacesOK`: a job is in one place of a scheduler (batch, queue, worker, done), and once it left the batch its row is never `pending` again |
| `...!CompletedMeansExecuted` | `Spec => []CompletedIsTrue` | `RanOK`: a worker that is about to write "completed" has executed the job, and executions are not taken back |
| `...!CancellationsHold` | `Spec => CancelHolds` | only a watcher whose batch has the job, or a worker that has loaded it, overwrites a cancelled row, and neither can come to have a job that is cancelled |
| `...!NoJobIsLost` | if `Reliable` (no crashes, no failing statements), `Spec => []QueuedIsHeld` | `HeldOK`, where a worker that loaded a row already `completed` does not count as a holder |
| `RedirectCacheProofs!RedirectTypes` | `Spec => []TypeOK` | inductive with what a request in flight carries (`Carried`); `LifeOf` is never 0 |
| `...!RedirectStalenessBounded`, `!NegativeStalenessBounded`, `!EdgeStalenessBounded` | `StaleRedirectEnds`, `NegativeCacheEnds`, `StaleEdgeEnds` for any requests, failures and timer values | proved together (`Bounds`): what a request carries is at most as outdated as the request is old (`ReqFresh`, `JobFresh`), an answer from Redis at most as outdated as an entry can be |
| `...!DeletesInvalidate` | `Spec => []DeleteInvalidates` | inductive over `Types` |
| `RouterWritesProofs!RouterWritesTypes`, `!AcknowledgedWritesStay`, `!LocalCacheStaysCurrent` | `TypeOK`, `CopiesAreCurrent`, `LocalIsCurrent` | proved together (`WritesInv`): a write under way may still reach the copies it has to call (`Foreseen`), what was acknowledged has overwritten its copies, those that answered 400 excepted (`Overwritten`), an entry that is, or is on its way to be, in the local cache was allowed when it was read or is marked late (`EntriesFresh`) |
| `ChannelDeliveryProofs!ChannelTypes`, `!CircuitsFollowResults` | `TypeOK`, `CircuitFollowsResults` | `Counted`: until a success, a closed breaker's count is the number of calls of its channel that reported an error |
| `LruNodeProofs!LruTypes`, `!ReadsAreFresh`, `!DictionaryAndListAgree` | `TypeOK`, `FreshReads`, `DictAndListAgree`, with any interleaving | proved together (`LruInv`): a node carries the key it is held for (`Labelled`), a node being moved is out of the list and in one hand (`Lifted`); while no two requests met on a key no two hands hold one node and the list has no strays (`Orderly`), and a node under comparison with the clock has an expiry (`Dated`) |
| `...!NodeImplementsPolicy` | `Spec => ImplementsPolicy` | while requests have not overlapped (`ApartInv`) one thread acts, and each of its steps is a step of `LruPolicy` on `Entries` for the request it serves, or leaves `Entries` alone |

`NothingIsLost` covers the faults `slow`, `timeout` and `api`, any number of
crashes, and any batch size, which no single run does.

The assumptions of single theorems are about the environment and mean what the
section 4 instances fix: `Timely`, `Steady` and `Lossless` exclude faults, `Reliable` that nothing crashes or fails.
The theorems about the router, the local cache, the redirects, the channels and the Python node have none.

Every safety property that a run checks is the statement of a theorem. Only
model-checked are the liveness properties `AcceptedSettles`, `RingSettles`, `TrialResolves`,
`EventuallyHandled`, `DeliveriesSettle` and `HalfOpenResolves`: fairness and ENABLED are out of the prover's
reach. What a recursive definition computes for every input could
not be proved either (induction over data needs operator parameters); the
modules use none.

## 6. Divergences from the documentation

Seen while modelling. Each is a behaviour of a model; where one violates a formula in
an instance close to a run of section 4, that instance is named.

* `notes/key_learnings.md:476` (distributed cache) says that one successful check adds a node
  back. Two overlapping checks may apply `addNode` before a delayed
  `removeNode`; then the node is marked alive but out of the ring, and no later check adds it, because
  `checkNode` adds only nodes that were not alive (in the instance of `h_overlap` without callers, under `FairSpec`, `RingSettles`
is violated once it says the same of crossed nodes).
* `circuit_breaker.go:75` "A trial is already in flight; block all others until it resolves": `callNode` ignores the
  error of `NewRequestWithContext` (`main.go:114`). For a key that makes no URL the next line panics, after `Allow`, and
  `net/http` recovers the handler. A circuit that was open, its timeout over, stays half-open with no trial in flight, and
  refuses every call of the node until the node has been taken out of the ring and comes back (`Reset`). A SET or DELETE of
  such a key calls two nodes in goroutines of their own, where nothing recovers the panic: it ends the router's process (not in
  `store_first`, where `callStore` reports the error first). `RouterWrites` is about keys that make a URL.
* `main.go:291` "all three must succeed", and the table at `notes/key_learnings.md:660`: the router refuses on an error or a status of 500 and more
  only (`main.go:250`, `318`), and the store answers 400 to a body above 1 MiB (`go_store/main.go:34`), the nodes
  have no such limit. In the modes `parallel` and `store_first` such a SET is acknowledged with 200 and the store keeps the older value.
  In `store_first`, a body that is no JSON and a failing primary give a 200 although no copy took anything (`CopiesAreCurrent` is
  violated in `rw_writes` when it does not except the copies that refuse).
* `qr_code_generator/notes/phase12a_cache_purge.md:65` and `:69` say that
  cached data is at most 60 s behind without PURGE, and that the application
  itself answers correctly. `update_qr` deletes `r:<token>` (`routes.py:118`) before it commits; a redirect in
  between caches the old url in Redis for up to 24 h, and Varnish refills itself from there (the
  invariant `edge.url \notin {None, Answer} => age <= EdgeTtl + Span` is violated in `q_redirect`, also with `Failures = FALSE`).
* `circuit_breaker.py:7` "one probe allowed": in HALF_OPEN every caller passes until
  a result arrives. A success closes the circuit in whatever state it arrives, also that of
  a call admitted before the circuit opened; failures of such calls open it anew.
* A channel that hangs never opens its circuit: the timeout is outside `breaker.call`, so the
  breaker hears of it only when the send returns. 32 hung sends stop every channel of the process.
* `PROMPT.md:8` of the cache, a node "evicts the least-recently-used key when it reaches its
  capacity": two SETs of new keys in the Python node may both see the last free place. When two requests meet on one
  key, one of them may fail with status 500 (`AttributeError` in `_remove`; `TypeError` at `lru_cache.py:97`, when a SET without
  a TTL has made `expires_at` None under a GET), and a node may stay in the
  list that the dictionary has lost; once it is the last, every eviction picks it and
  removes nothing, and the dictionary grows for good. An expired GET may delete a value set meanwhile.
* `docker-compose.yml:35` of the cache starts the Python node with two worker processes; each has
  a cache of its own, so half of the GETs do not see a SET.
* `key_learnings.md:663`, after a failed cache write `store_first` answers 200 and the cache is
  cold: it may also be stale, because the old value stays where the call failed.
* A GET asks the replica when a call to the primary fails, not when the primary answers 404
  (`main.go:354`); `fetchFromL2` does both. A node that returns to the ring serves what it held when it
  left. With one node left in the ring a SET skips the store in every mode (`main.go:198`). Concurrent SETs may leave
  primary and replica with different values.
* An entry that `RecordHit` or a rebuild takes from a response older than an invalidation stays in
  the local cache until its TTL, or for good without one (`Late`). `doRebuild` reads the old snapshot without
  the lock while `Get` deletes from it, which the Go runtime may answer by ending the process.
* `LEARNINGS.md:38` "restart no longer loses notifications": an API process that
  dies between `asave` and `aenqueue` leaves a `pending` notification in no stream, and
  the idempotency key answers the client's retries with its id (`d_live` with the
  fault `api` violates `AcceptedSettles`).
* `chatgpt_task/notes/key_learnings.md:95`, jobs left over from the past are picked up: a job marked
  `queued` by a process that died is not (`t_one` with `MaxCrashes` 1 violates
  `EventuallyHandled`).
* `qr_code_generator/notes/phase7_result.md:17`, the Redis key expires with the link: a link
  with less than a second to live, or created with an `expires_at` in the past, is cached for
  24 h (`routes.py:58`, `cache.py:20`; `LifeOf`).
* `worker.py:8` "delivery is never duplicated": a crash between send and XACK
  delivers again (at-least-once, which is what `DeliveryContract` states).
* `queue.py:11` "critical messages are drained before any normal messages": a
  message that arrives between the two reads waits for a normal batch.
* `LEARNINGS.md:37` "duplicate POSTs now dedup across all workers": two concurrent
  ones both find no key and both create a notification (this happens in `d_live`).
* `config.py:26` "Expired HASHes are filtered out": `save_status` on an expired
  hash creates a partial one (variable `partial`), and `abatch_get` fails on it.
* `LEARNINGS.md:156`: when RPUSH raises, a failed notification is acknowledged without
  being dead-lettered (`TaskError`).
* `ring.go:106` "up to n distinct physical nodes": with overlapping checks a
  lookup can return "" (in the instance of `h_overlap` `LookupFindsNodes` is false without its condition on `crossed`); the router then panics in that request (`Panic`).
* `chatgpt_task/notes/key_learnings.md:115` "only one scheduler": `mcp_server.py`
  starts one too, and two schedulers execute a job twice, each once.
* `mcp_server.py:128`: a job can be executed after its cancellation was confirmed, in the two
  windows that `CancelHolds` names.

## 7. What is not modelled

The QR service's scan stream is planned (section 2), as are several keys in `counterCache`, the lifetimes of
local cache entries (`parseTTL` turns less than a second into "never") and the rate limiters. The
in-memory store is used by one process that delivers inside the request handler, one request at a
time: nothing there interleaves or survives. The Python router's ring is built once; it forwards requests and
keeps nothing. Of the Python node one worker process is modelled. Schemas, URL validation, metrics, MCP and REST
wiring, deployment files and load tests have no state that another part reads.
The QR service's token generation relies on the database's unique index; its info and analytics
endpoints only read. Abstracted in what is modelled: message contents, users, topics (an idempotency
key is a model value), back-off times, the XADD ids' format, hash values (positions and scores
without collisions), log output.
