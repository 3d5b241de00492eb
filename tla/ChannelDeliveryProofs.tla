----------------------- MODULE ChannelDeliveryProofs -----------------------
(***************************************************************************)
(* Proofs about ChannelDelivery, for any number of deliveries, attempts    *)
(* and pool threads: its type invariant, and that a circuit follows the    *)
(* answers of its own channel.                                             *)
(***************************************************************************)
EXTENDS ChannelDelivery, FunctionTheorems, FiniteSetTheorems, SequenceTheorems, TLAPS

Stages == InPool \cup Finished \cup {"new", "queued"}

Shapes ==
  /\ channelOf \in [Deliveries -> Channels] /\ channelOf \in Assignments
  /\ breaker \in [Channels -> Breaker]
  /\ \A ch \in Channels : breaker[ch].openedAt = "None" <=> breaker[ch].state = "CLOSED"
  /\ delivery \in [Deliveries -> Delivery]
  /\ call \in [Calls -> Stages]

\* The attempts that have been made are those whose calls were submitted.
Numbered ==
  /\ \A d \in Deliveries, i \in 1 .. MaxRetries :
       call[<<d, i>>] = "new" <=> i > delivery[d].attempts
  /\ \A d \in Deliveries : delivery[d].pc = "try" => delivery[d].attempts < MaxRetries
  /\ \A d \in Deliveries : delivery[d].pc = "wait" => delivery[d].attempts > 0

\* Each queued call waits in one place of the queue.
QueuedOnce ==
  /\ queue \in Seq(Calls)
  /\ \A i, j \in 1 .. Len(queue) : queue[i] = queue[j] => i = j
  /\ \A i \in 1 .. Len(queue) : call[queue[i]] = "queued"
  /\ \A c \in Calls : call[c] = "queued" => \E i \in 1 .. Len(queue) : queue[i] = c

\* A circuit counts no more failures than its channel had, and all of them
\* while it is closed and nothing has succeeded.
Counted ==
  \A ch \in Channels :
    LET errors == CallsOf(ch, {"error"})
    IN  /\ IsFiniteSet(errors)
        /\ breaker[ch].failures =< Cardinality(errors)
        /\ breaker[ch].state # "CLOSED" => Cardinality(errors) >= Threshold
        /\ breaker[ch].state = "CLOSED" /\ CallsOf(ch, {"ok"}) = {}
             => breaker[ch].failures = Cardinality(errors)

ChannelInv == Shapes /\ Numbered /\ QueuedOnce /\ Counted

-----------------------------------------------------------------------------
(* Breakers, and the places of the queue.                                  *)

LEMMA BreakerAnswers ==
  ASSUME NEW b \in Breaker, b.openedAt = "None" <=> b.state = "CLOSED"
  PROVE  /\ OnSuccess(b) \in Breaker /\ OnSuccess(b).openedAt = "None"
         /\ OnSuccess(b).state = "CLOSED" /\ OnSuccess(b).failures = 0
         /\ OnFailure(b) \in Breaker
         /\ OnFailure(b).openedAt = "None" <=> OnFailure(b).state = "CLOSED"
         /\ \/ /\ OnFailure(b).state = "OPEN" /\ OnFailure(b).failures = 0
               /\ b.state = "HALF_OPEN" \/ b.failures + 1 >= Threshold
            \/ /\ OnFailure(b).state = b.state /\ OnFailure(b).failures = b.failures + 1
<1>1. Threshold \in Nat \ {0}
  BY ChannelAssumption
<1>2. OnSuccess(b) \in Breaker
  BY <1>1 DEF OnSuccess, Breaker
<1>3. CASE b.state = "HALF_OPEN" \/ b.failures + 1 >= Threshold
  <2>1. OnFailure(b) = [state |-> "OPEN", failures |-> 0, openedAt |-> "recent"]
    BY <1>3 DEF OnFailure
  <2>2. QED
    BY <1>1, <1>2, <1>3, <2>1 DEF OnSuccess, Breaker
<1>4. CASE ~(b.state = "HALF_OPEN" \/ b.failures + 1 >= Threshold)
  <2>1. OnFailure(b) = [b EXCEPT !.failures = b.failures + 1]
    BY <1>4 DEF OnFailure, Breaker
  <2>2. b.failures + 1 \in 0 .. Threshold - 1
    BY <1>1, <1>4 DEF Breaker
  <2>3. QED
    BY <1>2, <2>1, <2>2 DEF OnSuccess, Breaker
<1>5. QED
  BY <1>3, <1>4

\* The length of the queue is the number of its calls.
LEMMA QueueLength ==
  ASSUME QueuedOnce
  PROVE  Len(queue) = Cardinality({c \in Calls : call[c] = "queued"})
<1> DEFINE Q == {c \in Calls : call[c] = "queued"}
<1>1. queue \in [1 .. Len(queue) -> Calls] /\ Len(queue) \in Nat
  BY LenProperties DEF QueuedOnce
<1>2. queue \in [1 .. Len(queue) -> Q]
  BY <1>1 DEF QueuedOnce
<1>3. \A c \in Q : \E i \in 1 .. Len(queue) : queue[i] = c
  BY DEF QueuedOnce
<1>4. queue \in Bijection(1 .. Len(queue), Q)
  BY <1>2, <1>3, Fun_IsBij DEF QueuedOnce
<1>5. ExistsBijection(1 .. Len(queue), Q)
  BY <1>4 DEF ExistsBijection
<1>6. QED
  BY <1>1, <1>5, FS_CountingElements

-----------------------------------------------------------------------------
(* Shapes and Numbered.                                                    *)

LEMMA StagesMove ==
  ASSUME Shapes, NEW c \in Calls, NEW stage \in Stages, MoveTo(c, stage)
  PROVE  call' \in [Calls -> Stages] /\ call'[c] = stage /\ \A k \in Calls \ {c} : call'[k] = call[k]
BY DEF Shapes, MoveTo

\* What the pool does with a call that was submitted keeps the numbers.
LEMMA NumbersStay ==
  ASSUME Shapes, Numbered, NEW c \in Calls, call[c] # "new", NEW stage \in Stages \ {"new"},
         MoveTo(c, stage), delivery' = delivery
  PROVE  Numbered'
BY StagesMove DEF Numbered, Calls

LEMMA CurrentCall ==
  ASSUME Shapes, Numbered, NEW d \in Deliveries, delivery[d].pc = "wait"
  PROVE  Current(d) \in Calls /\ call[Current(d)] # "new"
<1>1. delivery[d].attempts \in 1 .. MaxRetries
  BY DEF Shapes, Delivery, Numbered
<1>2. QED
  BY <1>1 DEF Current, Calls, Numbered

LEMMA WaitsKept ==
  ASSUME Shapes, Numbered, NEW d \in Deliveries, Waits(d), channelOf' = channelOf
  PROVE  Shapes' /\ Numbered'
<1>0. delivery[d] \in Delivery /\ MaxRetries \in Nat \ {0}
  BY ChannelAssumption DEF Shapes
<1>1. CASE Submit(d)
  <2> DEFINE n == delivery[d].attempts + 1
             c == <<d, n>>
  <2>1. delivery[d].pc = "try" /\ n \in 1 .. MaxRetries
    BY <1>0, <1>1 DEF Submit, Numbered, Delivery
  <2>2. c \in Calls
    BY <2>1 DEF Calls
  <2>3. delivery' = [delivery EXCEPT ![d] = [pc |-> "wait", attempts |-> n]]
    BY <1>1 DEF Submit
  <2>4. MoveTo(c, "queued") /\ breaker' = breaker
    BY <1>1 DEF Submit
  <2>5. delivery' \in [Deliveries -> Delivery]
    BY <2>1, <2>3 DEF Shapes, Delivery
  <2>6. Shapes'
    BY <2>2, <2>4, <2>5, StagesMove DEF Shapes, Stages
  <2>7. ASSUME NEW e \in Deliveries, NEW i \in 1 .. MaxRetries
        PROVE  call'[<<e, i>>] = "new" <=> i > delivery'[e].attempts
    <3>1. call'[c] = "queued" /\ \A k \in Calls \ {c} : call'[k] = call[k]
      BY <2>2, <2>4, StagesMove DEF Stages
    <3>2. CASE e = d /\ i = n
      BY <2>3, <3>1, <3>2 DEF Shapes
    <3>3. CASE e = d /\ i # n
      <4>1. <<e, i>> \in Calls \ {c}
        BY <3>3 DEF Calls
      <4>2. QED
        BY <1>0, <2>3, <3>1, <3>3, <4>1 DEF Numbered, Shapes, Delivery
    <3>4. CASE e # d
      <4>1. <<e, i>> \in Calls \ {c}
        BY <3>4 DEF Calls
      <4>2. QED
        BY <2>3, <3>1, <3>4, <4>1 DEF Numbered, Shapes
    <3>5. QED
      BY <3>2, <3>3, <3>4
  <2>8. /\ \A e \in Deliveries : delivery'[e].pc = "try" => delivery'[e].attempts < MaxRetries
        /\ \A e \in Deliveries : delivery'[e].pc = "wait" => delivery'[e].attempts > 0
    BY <2>1, <2>3 DEF Numbered, Shapes
  <2>9. Numbered'
    <3>1. \A e \in Deliveries, i \in 1 .. MaxRetries :
            call'[<<e, i>>] = "new" <=> i > delivery'[e].attempts
      BY <2>7
    <3>2. QED
      BY <2>8, <3>1, Zenon DEF Numbered
  <2>10. QED
    BY <2>6, <2>9
<1>2. CASE Result(d) \/ Timeout(d)
  <2>1. PICK p \in {"sent", AttemptFailed(d)} : delivery' = [delivery EXCEPT ![d].pc = p]
    BY <1>2 DEF Result, Timeout
  <2>2. /\ UNCHANGED <<call, breaker>> /\ p \in {"sent", "try", "failed"}
        /\ p = "try" => delivery[d].attempts < MaxRetries
    BY <1>2, <2>1 DEF Result, Timeout, AttemptFailed
  <2>3. delivery'[d].pc = p /\ delivery'[d].attempts = delivery[d].attempts /\ delivery'[d] \in Delivery
    BY <1>0, <2>1, <2>2 DEF Shapes, Delivery
  <2>4. delivery' \in [Deliveries -> Delivery]
    BY <2>1, <2>3 DEF Shapes
  <2>5. \A e \in Deliveries \ {d} : delivery'[e] = delivery[e]
    BY <2>1 DEF Shapes
  <2>6. QED
    BY <2>2, <2>3, <2>4, <2>5 DEF Shapes, Numbered
<1>3. QED
  BY <1>1, <1>2 DEF Waits

LEMMA WorksKept ==
  ASSUME Shapes, Numbered, NEW c \in Calls, Works(c) \/ Send(c), channelOf' = channelOf
  PROVE  Shapes' /\ Numbered'
<1>1. Through(c) \in Channels
  BY DEF Through, Calls, Shapes
<1>2. delivery' = delivery
  BY DEF Works, Admit, Report, Send
<1>3. \E stage \in Stages \ {"new"} : MoveTo(c, stage)
  BY DEF Works, Admit, Report, Send, Stages, InPool, Finished
<1>4. call[c] # "new"
  BY DEF Works, Admit, Report, Send
<1>5. Numbered' /\ call' \in [Calls -> Stages]
  BY <1>2, <1>3, <1>4, NumbersStay, StagesMove
<1>6. /\ breaker' \in [Channels -> Breaker]
      /\ \A ch \in Channels : breaker'[ch].openedAt = "None" <=> breaker'[ch].state = "CLOSED"
  <2> DEFINE b == breaker[Through(c)]
  <2>1. b \in Breaker /\ (b.openedAt = "None" <=> b.state = "CLOSED")
    BY <1>1 DEF Shapes
  <2>2. \/ breaker' = breaker
        \/ breaker' = [breaker EXCEPT ![Through(c)] = OnSuccess(b)]
        \/ breaker' = [breaker EXCEPT ![Through(c)] = OnFailure(b)]
        \/ breaker' = [breaker EXCEPT ![Through(c)].state = IF @ = "OPEN" THEN "HALF_OPEN" ELSE @]
    BY DEF Works, Admit, Report, Send
  <2>3. CASE breaker' = breaker
    BY <2>3 DEF Shapes
  <2>4. CASE breaker' = [breaker EXCEPT ![Through(c)] = OnSuccess(b)]
    BY <1>1, <2>1, <2>4, BreakerAnswers DEF Shapes
  <2>5. CASE breaker' = [breaker EXCEPT ![Through(c)] = OnFailure(b)]
    BY <1>1, <2>1, <2>5, BreakerAnswers DEF Shapes
  <2>6. CASE breaker' = [breaker EXCEPT ![Through(c)].state = IF @ = "OPEN" THEN "HALF_OPEN" ELSE @]
    <3>1. PICK s : /\ breaker' = [breaker EXCEPT ![Through(c)] = [b EXCEPT !.state = s]]
                   /\ s = IF b.state = "OPEN" THEN "HALF_OPEN" ELSE b.state
      BY <1>1, <2>1, <2>6 DEF Shapes, Breaker
    <3>2. /\ [b EXCEPT !.state = s] \in Breaker
          /\ [b EXCEPT !.state = s].openedAt = "None" <=> [b EXCEPT !.state = s].state = "CLOSED"
      BY <2>1, <3>1 DEF Breaker
    <3>3. QED
      BY <1>1, <3>1, <3>2 DEF Shapes
  <2>7. QED
    BY <2>2, <2>3, <2>4, <2>5, <2>6
<1>7. QED
  BY <1>2, <1>5, <1>6 DEF Shapes

LEMMA PoolKept ==
  ASSUME Shapes, Numbered, QueuedOnce, Take \/ \E ch \in Channels : Recover(ch), channelOf' = channelOf
  PROVE  Shapes' /\ Numbered'
<1>1. CASE Take
  <2>1. Head(queue) \in Calls /\ call[Head(queue)] = "queued" /\ MoveTo(Head(queue), "taken")
    BY <1>1 DEF Take, QueuedOnce
  <2>2. "taken" \in Stages \ {"new"}
    BY DEF Stages, InPool
  <2>3. Numbered' /\ call' \in [Calls -> Stages]
    BY <1>1, <2>1, <2>2, NumbersStay, StagesMove DEF Take
  <2>4. QED
    BY <1>1, <2>3 DEF Take, Shapes
<1>2. ASSUME NEW ch \in Channels, Recover(ch) PROVE Shapes' /\ Numbered'
  <2>1. /\ breaker' = [breaker EXCEPT ![ch] = [breaker[ch] EXCEPT !.openedAt = "elapsed"]]
        /\ [breaker[ch] EXCEPT !.openedAt = "elapsed"] \in Breaker
        /\ breaker[ch].state = "OPEN"
    BY <1>2 DEF Recover, Shapes, Breaker
  <2>2. UNCHANGED <<delivery, call>>
    BY <1>2 DEF Recover
  <2>3. QED
    BY <2>1, <2>2 DEF Shapes, Numbered, Breaker
<1>3. QED
  BY <1>1, <1>2

-----------------------------------------------------------------------------
(* QueuedOnce.                                                             *)

LEMMA QueueKept ==
  ASSUME Shapes, Numbered, QueuedOnce, [Next]_vars
  PROVE  QueuedOnce'
<1>0. queue \in Seq(Calls) /\ Len(queue) \in Nat
  BY DEF QueuedOnce
<1>1. ASSUME NEW d \in Deliveries, Submit(d) PROVE QueuedOnce'
  <2> DEFINE c == <<d, delivery[d].attempts + 1>>
  <2>1. delivery[d].attempts + 1 \in 1 .. MaxRetries
    BY <1>1, ChannelAssumption DEF Submit, Numbered, Shapes, Delivery
  <2>2. c \in Calls /\ call[c] = "new"
    BY <2>1 DEF Calls, Numbered, Shapes, Delivery
  <2>3. call'[c] = "queued" /\ \A k \in Calls \ {c} : call'[k] = call[k]
    BY <1>1, <2>2, StagesMove DEF Submit, Stages
  <2>4. queue' = Append(queue, c)
    BY <1>1 DEF Submit
  <2>5. /\ queue' \in Seq(Calls) /\ Len(queue') = Len(queue) + 1
        /\ queue'[Len(queue) + 1] = c
        /\ \A i \in 1 .. Len(queue) : queue'[i] = queue[i] /\ queue[i] \in Calls
    BY <1>0, <2>2, <2>4
  <2>6. \A i \in 1 .. Len(queue) : queue[i] # c
    BY <2>2 DEF QueuedOnce
  <2>7. \A i \in 1 .. Len(queue') : i \in 1 .. Len(queue) \/ i = Len(queue) + 1
    BY <1>0, <2>5
  <2>8. \A i, j \in 1 .. Len(queue') : queue'[i] = queue'[j] => i = j
    BY <2>5, <2>6, <2>7 DEF QueuedOnce
  <2>9. \A i \in 1 .. Len(queue') : call'[queue'[i]] = "queued"
    BY <2>3, <2>5, <2>6, <2>7 DEF QueuedOnce
  <2>10. \A k \in Calls : call'[k] = "queued" => \E i \in 1 .. Len(queue') : queue'[i] = k
    <3> SUFFICES ASSUME NEW k \in Calls, call'[k] = "queued"
                 PROVE  \E i \in 1 .. Len(queue') : queue'[i] = k
      OBVIOUS
    <3>1. CASE k = c
      <4>1. Len(queue) + 1 \in 1 .. Len(queue')
        BY <1>0, <2>5
      <4>2. QED
        BY <2>5, <3>1, <4>1
    <3>2. CASE k # c
      <4>1. call[k] = "queued"
        BY <2>3, <3>2
      <4>2. PICK i \in 1 .. Len(queue) : queue[i] = k
        BY <4>1 DEF QueuedOnce
      <4>3. i \in 1 .. Len(queue') /\ queue'[i] = k
        BY <1>0, <2>5, <4>2
      <4>4. QED
        BY <4>3
    <3>3. QED
      BY <3>1, <3>2
  <2>11. QED
    BY <2>5, <2>8, <2>9, <2>10 DEF QueuedOnce
<1>2. CASE Take
  <2> DEFINE c == Head(queue)
  <2>1. queue # <<>> /\ queue' = Tail(queue) /\ MoveTo(c, "taken")
    BY <1>2 DEF Take
  <2>2. /\ c \in Calls /\ c = queue[1] /\ queue' \in Seq(Calls) /\ Len(queue') = Len(queue) - 1
        /\ \A i \in 1 .. Len(queue') : i + 1 \in 1 .. Len(queue) /\ queue'[i] = queue[i + 1]
    BY <1>0, <2>1
  <2>3. call'[c] = "taken" /\ \A k \in Calls \ {c} : call'[k] = call[k]
    BY <2>1, <2>2, StagesMove DEF Stages, InPool
  <2>4. \A i, j \in 1 .. Len(queue') : queue'[i] = queue'[j] => i = j
    BY <1>0, <2>2 DEF QueuedOnce
  <2>5. \A i \in 1 .. Len(queue') : queue[i + 1] \in Calls \ {c}
    <3> SUFFICES ASSUME NEW i \in 1 .. Len(queue') PROVE queue[i + 1] \in Calls \ {c}
      OBVIOUS
    <3>1. i + 1 \in 1 .. Len(queue) /\ 1 \in 1 .. Len(queue) /\ i + 1 # 1
      BY <1>0, <2>2
    <3>2. queue[i + 1] \in Calls
      BY <1>0, <3>1
    <3>3. QED
      BY <2>2, <3>1, <3>2 DEF QueuedOnce
  <2>6. \A i \in 1 .. Len(queue') : call'[queue'[i]] = "queued"
    BY <2>2, <2>3, <2>5 DEF QueuedOnce
  <2>7. \A k \in Calls : call'[k] = "queued" => \E i \in 1 .. Len(queue') : queue'[i] = k
    <3> SUFFICES ASSUME NEW k \in Calls, call'[k] = "queued"
                 PROVE  \E i \in 1 .. Len(queue') : queue'[i] = k
      OBVIOUS
    <3>1. k # c /\ call[k] = "queued"
      BY <2>3
    <3>2. PICK i \in 1 .. Len(queue) : queue[i] = k
      BY <3>1 DEF QueuedOnce
    <3>3. i - 1 \in 1 .. Len(queue')
      BY <1>0, <2>2, <3>1, <3>2
    <3>4. queue'[i - 1] = queue[(i - 1) + 1] /\ (i - 1) + 1 = i
      BY <2>2, <3>3
    <3>5. QED
      BY <3>2, <3>3, <3>4
  <2>8. QED
    BY <2>2, <2>4, <2>6, <2>7 DEF QueuedOnce
<1>3. ASSUME NEW c \in Calls, Works(c) \/ Send(c) PROVE QueuedOnce'
  <2>1. \E stage \in Stages \ {"queued"} : MoveTo(c, stage)
    BY <1>3 DEF Works, Admit, Report, Send, Stages, InPool, Finished
  <2>2. call[c] # "queued" /\ queue' = queue
    BY <1>3 DEF Works, Admit, Report, Send
  <2>3. \A k \in Calls : call'[k] = "queued" <=> call[k] = "queued"
    BY <2>1, <2>2, StagesMove
  <2>4. \A i \in 1 .. Len(queue) : queue[i] \in Calls
    BY <1>0
  <2>5. QED
    BY <2>2, <2>3, <2>4 DEF QueuedOnce
<1>4. CASE UNCHANGED <<call, queue>>
  BY <1>4 DEF QueuedOnce
<1>5. \/ \E d \in Deliveries : Submit(d)
      \/ Take
      \/ \E c \in Calls : Works(c) \/ Send(c)
      \/ UNCHANGED <<call, queue>>
  BY DEF Next, Waits, Result, Timeout, Recover, vars
<1>6. QED
  BY <1>1, <1>2, <1>3, <1>4, <1>5

-----------------------------------------------------------------------------
(* Counted.                                                                *)

\* A step that is not a report leaves the answers as they are.
LEMMA CountsStay ==
  ASSUME Shapes, Counted, channelOf' = channelOf,
         \A c \in Calls : call'[c] \in {"ok", "error"} <=> call[c] \in {"ok", "error"},
         \A c \in Calls : call[c] \in {"ok", "error"} => call'[c] = call[c],
         \A ch \in Channels : /\ breaker'[ch].failures = breaker[ch].failures
                              /\ breaker'[ch].state = "CLOSED" <=> breaker[ch].state = "CLOSED"
  PROVE  Counted'
<1>1. \A ch \in Channels : /\ CallsOf(ch, {"error"})' = CallsOf(ch, {"error"})
                           /\ CallsOf(ch, {"ok"})' = CallsOf(ch, {"ok"})
  BY DEF CallsOf, Through
<1>2. QED
  BY <1>1 DEF Counted

LEMMA ReportCounted ==
  ASSUME Shapes, Counted, NEW c \in Calls, Report(c), channelOf' = channelOf
  PROVE  Counted'
<1> DEFINE ch == Through(c)
           b == breaker[ch]
           errors(k) == CallsOf(k, {"error"})
<1>1. ch \in Channels /\ Threshold \in Nat \ {0}
  BY ChannelAssumption DEF Through, Calls, Shapes
<1>2. b \in Breaker /\ (b.openedAt = "None" <=> b.state = "CLOSED")
  BY <1>1 DEF Shapes
<1>3. \A k \in Channels : /\ IsFiniteSet(errors(k)) /\ Cardinality(errors(k)) \in Nat
                          /\ breaker[k].failures \in Nat
  BY FS_CardinalityType DEF Counted, Shapes, Breaker
<1>4. \A k \in Channels \ {ch} : breaker'[k] = breaker[k]
  BY <1>1 DEF Report, Shapes
<1>5. c \in CallsOf(ch, {call[c]}) /\ \A k \in Calls \ {c} : call'[k] = call[k]
  BY StagesMove DEF Report, CallsOf, Stages, Finished
<1>6. CASE call[c] = "accepted"
  <2>1. call'[c] = "ok" /\ breaker'[ch] = OnSuccess(b)
    BY <1>1, <1>6, StagesMove DEF Report, Shapes, Stages, Finished
  <2>2. \A k \in Channels : CallsOf(k, {"error"})' = errors(k)
    BY <1>5, <1>6, <2>1 DEF CallsOf, Through
  <2>3. \A k \in Channels \ {ch} : CallsOf(k, {"ok"})' = CallsOf(k, {"ok"})
    BY <1>5, <1>6, <2>1 DEF CallsOf, Through
  <2>4. c \in CallsOf(ch, {"ok"})'
    BY <2>1 DEF CallsOf, Through
  <2>5. breaker'[ch].failures = 0 /\ breaker'[ch].state = "CLOSED"
    BY <1>2, <2>1, BreakerAnswers
  <2>6. ASSUME NEW k \in Channels
        PROVE  /\ IsFiniteSet(errors(k))
               /\ breaker'[k].failures =< Cardinality(errors(k))
               /\ breaker'[k].state # "CLOSED" => Cardinality(errors(k)) >= Threshold
               /\ breaker'[k].state = "CLOSED" /\ CallsOf(k, {"ok"})' = {}
                    => breaker'[k].failures = Cardinality(errors(k))
    <3>1. CASE k = ch
      BY <1>1, <1>3, <2>4, <2>5, <3>1 DEF CallsOf, Through, Counted
    <3>2. CASE k # ch
      <4>1. /\ IsFiniteSet(errors(k))
            /\ breaker[k].failures =< Cardinality(errors(k))
            /\ breaker[k].state # "CLOSED" => Cardinality(errors(k)) >= Threshold
            /\ breaker[k].state = "CLOSED" /\ CallsOf(k, {"ok"}) = {}
                 => breaker[k].failures = Cardinality(errors(k))
        BY DEF Counted
      <4>2. breaker'[k] = breaker[k]
        BY <1>4, <3>2
      <4>3. QED
        BY <2>3, <3>2, <4>1, <4>2
    <3>3. QED
      BY <3>1, <3>2
  <2>7. QED
    BY <2>2, <2>6 DEF Counted
<1>7. CASE call[c] = "rejected"
  <2>1. call'[c] = "error" /\ breaker'[ch] = OnFailure(b)
    BY <1>1, <1>7, StagesMove DEF Report, Shapes, Stages, Finished
  <2>2. \A k \in Channels : CallsOf(k, {"ok"})' = CallsOf(k, {"ok"})
    BY <1>5, <1>7, <2>1 DEF CallsOf, Through
  <2>3. \A k \in Channels \ {ch} : CallsOf(k, {"error"})' = errors(k)
    BY <1>5, <1>7, <2>1 DEF CallsOf, Through
  <2>4. CallsOf(ch, {"error"})' = errors(ch) \cup {c} /\ c \notin errors(ch)
    BY <1>5, <1>7, <2>1 DEF CallsOf, Through
  <2>5. /\ IsFiniteSet(errors(ch) \cup {c})
        /\ Cardinality(errors(ch) \cup {c}) = Cardinality(errors(ch)) + 1
    BY <1>1, <1>3, <2>4, FS_AddElement
  <2>6. \/ /\ breaker'[ch].state = "OPEN" /\ breaker'[ch].failures = 0
           /\ b.state = "HALF_OPEN" \/ b.failures + 1 >= Threshold
        \/ /\ breaker'[ch].state = b.state /\ breaker'[ch].failures = b.failures + 1
    BY <1>2, <2>1, BreakerAnswers
  <2>7. /\ b.failures =< Cardinality(errors(ch))
        /\ b.state # "CLOSED" => Cardinality(errors(ch)) >= Threshold
        /\ b.state = "CLOSED" /\ CallsOf(ch, {"ok"}) = {} => b.failures = Cardinality(errors(ch))
    BY <1>1 DEF Counted
  <2>8. /\ breaker'[ch].failures =< Cardinality(errors(ch)) + 1
        /\ breaker'[ch].state # "CLOSED" => Cardinality(errors(ch)) + 1 >= Threshold
        /\ breaker'[ch].state = "CLOSED" /\ CallsOf(ch, {"ok"}) = {}
             => breaker'[ch].failures = Cardinality(errors(ch)) + 1
    BY <1>1, <1>3, <2>6, <2>7
  <2>9. ASSUME NEW k \in Channels
        PROVE  /\ IsFiniteSet(CallsOf(k, {"error"})')
               /\ breaker'[k].failures =< Cardinality(CallsOf(k, {"error"})')
               /\ breaker'[k].state # "CLOSED" => Cardinality(CallsOf(k, {"error"})') >= Threshold
               /\ breaker'[k].state = "CLOSED" /\ CallsOf(k, {"ok"}) = {}
                    => breaker'[k].failures = Cardinality(CallsOf(k, {"error"})')
    <3>1. CASE k = ch
      BY <2>4, <2>5, <2>8, <3>1 DEF CallsOf, Through
    <3>2. CASE k # ch
      <4>1. /\ IsFiniteSet(errors(k))
            /\ breaker[k].failures =< Cardinality(errors(k))
            /\ breaker[k].state # "CLOSED" => Cardinality(errors(k)) >= Threshold
            /\ breaker[k].state = "CLOSED" /\ CallsOf(k, {"ok"}) = {}
                 => breaker[k].failures = Cardinality(errors(k))
        BY DEF Counted
      <4>2. breaker'[k] = breaker[k]
        BY <1>4, <3>2
      <4>3. QED
        BY <2>3, <3>2, <4>1, <4>2
    <3>3. QED
      BY <3>1, <3>2
  <2>10. QED
    BY <2>2, <2>9 DEF Counted
<1>8. QED
  BY <1>6, <1>7 DEF Report

LEMMA CountedKept ==
  ASSUME ChannelInv, [Next]_vars
  PROVE  Counted'
<1> USE DEF ChannelInv
<1>0. channelOf' = channelOf
  BY DEF Next, vars
<1>1. ASSUME NEW d \in Deliveries, Submit(d) PROVE Counted'
  <2> DEFINE c == <<d, delivery[d].attempts + 1>>
  <2>1. delivery[d].attempts + 1 \in 1 .. MaxRetries
    BY <1>1, ChannelAssumption DEF Submit, Numbered, Shapes, Delivery
  <2>2. c \in Calls /\ call[c] = "new"
    BY <1>1, <2>1 DEF Calls, Numbered, Shapes, Delivery
  <2>3. call'[c] = "queued" /\ \A k \in Calls \ {c} : call'[k] = call[k]
    BY <1>1, <2>2, StagesMove DEF Submit, Stages
  <2>4. QED
    BY <1>0, <1>1, <2>2, <2>3, CountsStay DEF Submit
<1>2. CASE Take
  <2>1. Head(queue) \in Calls /\ call[Head(queue)] = "queued" /\ MoveTo(Head(queue), "taken")
    BY <1>2 DEF Take, QueuedOnce
  <2>2. call'[Head(queue)] = "taken" /\ \A k \in Calls \ {Head(queue)} : call'[k] = call[k]
    BY <2>1, StagesMove DEF Stages, InPool
  <2>3. QED
    BY <1>0, <1>2, <2>1, <2>2, CountsStay DEF Take
<1>3. ASSUME NEW c \in Calls, Send(c) \/ Admit(c) PROVE Counted'
  <2>1. call[c] \in {"taken", "sending"}
    BY <1>3 DEF Send, Admit
  <2>2. call'[c] \in {"accepted", "rejected", "sending", "refused"} /\ \A k \in Calls \ {c} : call'[k] = call[k]
    BY <1>3, StagesMove DEF Send, Admit, Stages, InPool, Finished
  <2>3. Through(c) \in Channels
    BY DEF Through, Calls, Shapes
  <2>4. \A ch \in Channels : /\ breaker'[ch].failures = breaker[ch].failures
                             /\ breaker'[ch].state = "CLOSED" <=> breaker[ch].state = "CLOSED"
    <3>1. CASE breaker' = breaker
      BY <3>1
    <3>2. CASE breaker' = [breaker EXCEPT ![Through(c)].state = IF @ = "OPEN" THEN "HALF_OPEN" ELSE @]
      BY <2>3, <3>2 DEF Shapes, Breaker
    <3>3. QED
      BY <1>3, <3>1, <3>2 DEF Send, Admit
  <2>5. QED
    BY <1>0, <2>1, <2>2, <2>4, CountsStay
<1>4. ASSUME NEW c \in Calls, Report(c) PROVE Counted'
  BY <1>0, <1>4, ReportCounted
<1>5. ASSUME NEW ch \in Channels, Recover(ch) PROVE Counted'
  <2>1. call' = call
    BY <1>5 DEF Recover
  <2>2. \A k \in Channels : /\ breaker'[k].failures = breaker[k].failures
                            /\ breaker'[k].state = breaker[k].state
    BY <1>5 DEF Recover, Shapes, Breaker
  <2>3. QED
    BY <1>0, <2>1, <2>2, CountsStay
<1>6. CASE UNCHANGED <<call, breaker>>
  BY <1>0, <1>6, CountsStay
<1>7. \/ \E d \in Deliveries : Submit(d)
      \/ Take
      \/ \E c \in Calls : Send(c) \/ Admit(c) \/ Report(c)
      \/ \E ch \in Channels : Recover(ch)
      \/ UNCHANGED <<call, breaker>>
  BY DEF Next, Waits, Works, Result, Timeout, vars
<1>8. QED
  BY <1>1, <1>2, <1>3, <1>4, <1>5, <1>6, <1>7

-----------------------------------------------------------------------------
(* The theorems.                                                           *)

LEMMA ChannelBegin == Init => ChannelInv
<1> SUFFICES ASSUME Init PROVE ChannelInv
  OBVIOUS
<1>1. PoolSize \in Nat \ {0} /\ MaxRetries \in Nat \ {0} /\ Threshold \in Nat \ {0}
  BY ChannelAssumption
<1>2. Shapes
  <2>1. [state |-> "CLOSED", failures |-> 0, openedAt |-> "None"] \in Breaker
    BY <1>1 DEF Breaker
  <2>2. [pc |-> "try", attempts |-> 0] \in Delivery
    BY <1>1 DEF Delivery
  <2>3. channelOf \in [Deliveries -> Channels]
    BY ChannelAssumption DEF Init
  <2>4. call \in [Calls -> Stages]
    BY DEF Init, Stages
  <2>5. QED
    BY <2>1, <2>2, <2>3, <2>4 DEF Init, Shapes
<1>3. Numbered
  <2>1. \A d \in Deliveries : delivery[d].pc = "try" /\ delivery[d].attempts = 0
    BY DEF Init
  <2>2. \A d \in Deliveries, i \in 1 .. MaxRetries : call[<<d, i>>] = "new" /\ i > 0
    BY <1>1 DEF Init, Calls
  <2>3. /\ \A d \in Deliveries, i \in 1 .. MaxRetries :
             call[<<d, i>>] = "new" <=> i > delivery[d].attempts
        /\ \A d \in Deliveries : delivery[d].pc = "try" => delivery[d].attempts < MaxRetries
        /\ \A d \in Deliveries : delivery[d].pc = "wait" => delivery[d].attempts > 0
    BY <1>1, <2>1, <2>2
  <2>4. QED
    BY <2>3, Zenon DEF Numbered
<1>4. QueuedOnce
  BY DEF Init, QueuedOnce
<1>5. \A ch \in Channels : CallsOf(ch, {"error"}) = {}
  BY DEF Init, CallsOf
<1>6. Counted
  <2>1. ASSUME NEW ch \in Channels
        PROVE  /\ IsFiniteSet(CallsOf(ch, {"error"})) /\ Cardinality(CallsOf(ch, {"error"})) = 0
               /\ breaker[ch].failures = 0 /\ breaker[ch].state = "CLOSED"
    BY <1>5, FS_EmptySet DEF Init
  <2>2. QED
    BY <2>1 DEF Counted
<1>7. QED
  BY <1>2, <1>3, <1>4, <1>6 DEF ChannelInv

LEMMA ChannelInvariant == Spec => []ChannelInv
<1>1. ASSUME ChannelInv, [Next]_vars PROVE Shapes' /\ Numbered'
  <2> USE <1>1 DEF ChannelInv
  <2>1. channelOf' = channelOf
    BY DEF Next, vars
  <2>2. CASE UNCHANGED vars
    BY <2>2 DEF vars, Shapes, Numbered
  <2>3. CASE Next
    BY <2>1, <2>3, WaitsKept, WorksKept, PoolKept DEF Next
  <2>4. QED
    BY <2>2, <2>3
<1>2. ChannelInv /\ [Next]_vars => ChannelInv'
  BY <1>1, QueueKept, CountedKept DEF ChannelInv
<1>3. QED
  BY <1>2, ChannelBegin, PTL DEF Spec

\* The queue of _executor (delivery.py:26) holds each waiting call once, and a breaker
\* keeps an opening time exactly while it is not closed (circuit_breaker.py:29), for any
\* number of deliveries, attempts and pool threads.
THEOREM ChannelTypes == Spec => []TypeOK
<1>1. ChannelInv => TypeOK
  <2> SUFFICES ASSUME ChannelInv PROVE TypeOK
    OBVIOUS
  <2>1. Shapes /\ QueuedOnce
    BY DEF ChannelInv
  <2>2. {queue[i] : i \in DOMAIN queue} = {c \in Calls : call[c] = "queued"}
    <3>1. DOMAIN queue = 1 .. Len(queue) /\ \A i \in 1 .. Len(queue) : queue[i] \in Calls
      BY <2>1 DEF QueuedOnce
    <3>2. QED
      BY <2>1, <3>1 DEF QueuedOnce
  <2>3. QED
    BY <2>1, <2>2, QueueLength DEF TypeOK, Shapes, Stages
<1>2. QED
  BY <1>1, ChannelInvariant, PTL

\* The circuit breaker that registry.py puts before a channel opens only after the
\* failures of that channel's own calls, and does not stay closed over them, in
\* whatever order the pool's threads report.
THEOREM CircuitsFollowResults == Spec => []CircuitFollowsResults
<1>1. ChannelInv => CircuitFollowsResults
  <2> SUFFICES ASSUME ChannelInv, NEW ch \in Channels
               PROVE  LET errors == Cardinality(CallsOf(ch, {"error"}))
                      IN  /\ breaker[ch].state # "CLOSED" => errors >= Threshold
                          /\ CallsOf(ch, {"ok"}) = {} /\ errors >= Threshold
                               => breaker[ch].state # "CLOSED"
    BY DEF CircuitFollowsResults
  <2>1. breaker[ch].failures \in 0 .. Threshold - 1 /\ Threshold \in Nat
    BY ChannelAssumption DEF ChannelInv, Shapes, Breaker
  <2>2. QED
    BY <2>1 DEF ChannelInv, Counted
<1>2. QED
  BY <1>1, ChannelInvariant, PTL
=============================================================================
