-------------------------- MODULE ChannelDelivery --------------------------
(***************************************************************************)
(* How a worker process hands notifications to their channels: deliver and *)
(* _send_with_timeout of delivery.py, the thread pool they share, and the  *)
(* circuit breaker that channels/registry.py puts before every channel.    *)
(* Each delivery runs in a thread of its own; each attempt is a call that  *)
(* waits in the pool's queue for a pool thread, and goes on there when the *)
(* delivery has given it up.  A channel may answer, refuse or hang.        *)
(***************************************************************************)
EXTENDS Integers, FiniteSets, Sequences

CONSTANTS
  Deliveries,  \* notifications that are delivered at the same time
  Channels,
  Assignments, \* channels the notifications may have: functions on Deliveries
  PoolSize,    \* max_workers of _executor
  MaxRetries,  \* MAX_RETRIES
  Threshold    \* CB_FAILURE_THRESHOLD

ASSUME ChannelAssumption ==
  /\ Assignments \subseteq [Deliveries -> Channels]
  /\ PoolSize \in Nat \ {0} /\ MaxRetries \in Nat \ {0} /\ Threshold \in Nat \ {0}

VARIABLES
  channelOf, \* notification.channel
  breaker,   \* _BREAKERS
  delivery,  \* the threads that run deliver
  call,      \* the channel.send of each attempt
  queue      \* calls that wait for a pool thread

vars == <<channelOf, breaker, delivery, call, queue>>

\* openedAt: has recovery_seconds elapsed since _opened_at?
Breaker == [state : {"CLOSED", "OPEN", "HALF_OPEN"}, failures : 0 .. Threshold - 1,
            openedAt : {"None", "recent", "elapsed"}]
Delivery == [pc : {"try", "wait", "sent", "failed"}, attempts : 0 .. MaxRetries]

\* "accepted", "rejected": the channel answered, the breaker does not know yet
InPool == {"taken", "sending", "accepted", "rejected"}
Finished == {"ok", "error", "refused"}
Calls == Deliveries \X (1 .. MaxRetries)

Init ==
  /\ channelOf \in Assignments
  /\ breaker = [ch \in Channels |-> [state |-> "CLOSED", failures |-> 0, openedAt |-> "None"]]
  /\ delivery = [d \in Deliveries |-> [pc |-> "try", attempts |-> 0]]
  /\ call = [c \in Calls |-> "new"]
  /\ queue = <<>>

Through(c) == channelOf[c[1]]
CallsOf(ch, stages) == {c \in Calls : Through(c) = ch /\ call[c] \in stages}
Current(d) == <<d, delivery[d].attempts>>
MoveTo(c, stage) == call' = [call EXCEPT ![c] = stage]

-----------------------------------------------------------------------------
(* The threads that run deliver.                                           *)

\* _executor.submit; the sleep before a retry is the time until this step
Submit(d) ==
  LET c == <<d, delivery[d].attempts + 1>>
  IN  /\ delivery[d].pc = "try"
      /\ delivery' = [delivery EXCEPT ![d] = [pc |-> "wait", attempts |-> @.attempts + 1]]
      /\ MoveTo(c, "queued")
      /\ queue' = Append(queue, c)
      /\ UNCHANGED breaker

AttemptFailed(d) == IF delivery[d].attempts < MaxRetries THEN "try" ELSE "failed"

\* future.result returns, or raises what the call raised
Result(d) ==
  /\ delivery[d].pc = "wait"
  /\ call[Current(d)] \in Finished
  /\ delivery' = [delivery EXCEPT ![d].pc =
                    IF call[Current(d)] = "ok" THEN "sent" ELSE AttemptFailed(d)]
  /\ UNCHANGED <<breaker, call, queue>>

\* Mutant of Timeout: future.result() without a timeout.
NoTimeout(d) == FALSE /\ UNCHANGED vars

\* The call outlives ATTEMPT_TIMEOUT_S: nothing cancels it.
Timeout(d) ==
  /\ delivery[d].pc = "wait"
  /\ call[Current(d)] \notin Finished
  /\ delivery' = [delivery EXCEPT ![d].pc = AttemptFailed(d)]
  /\ UNCHANGED <<breaker, call, queue>>

-----------------------------------------------------------------------------
(* The pool's threads: _ProtectedChannel.send and CircuitBreaker.call.     *)

Take ==
  /\ queue # <<>>
  /\ Cardinality({c \in Calls : call[c] \in InPool}) < PoolSize
  /\ MoveTo(Head(queue), "taken")
  /\ queue' = Tail(queue)
  /\ UNCHANGED <<breaker, delivery>>

Admits(b) == b.state # "OPEN" \/ b.openedAt = "elapsed"

\* the first locked section of call
Admit(c) ==
  LET ch == Through(c)
  IN  /\ call[c] = "taken"
      /\ IF Admits(breaker[ch])
         THEN /\ MoveTo(c, "sending")
              /\ breaker' = [breaker EXCEPT ![ch].state = IF @ = "OPEN" THEN "HALF_OPEN" ELSE @]
         ELSE MoveTo(c, "refused") /\ UNCHANGED breaker
      /\ UNCHANGED <<delivery, queue>>

\* BaseChannel.send; a channel that hangs never takes this step
Send(c) ==
  /\ call[c] = "sending"
  /\ \E answer \in {"accepted", "rejected"} : MoveTo(c, answer)
  /\ UNCHANGED <<breaker, delivery, queue>>

\* Mutant of OnSuccess: the opening time is not reset.
SuccessKeepsTime(b) == [b EXCEPT !.state = "CLOSED", !.failures = 0]

OnSuccess(b) == [state |-> "CLOSED", failures |-> 0, openedAt |-> "None"]

\* Mutant of OnFailure: one failure too few opens the circuit.
OpensEarly(b) ==
  IF b.state = "HALF_OPEN" \/ b.failures + 2 >= Threshold
  THEN [state |-> "OPEN", failures |-> 0, openedAt |-> "recent"]
  ELSE [b EXCEPT !.failures = @ + 1]
\* Mutant of OnFailure: only the count opens the circuit.
OpensByCount(b) ==
  IF b.failures + 1 >= Threshold
  THEN [state |-> "OPEN", failures |-> 0, openedAt |-> "recent"]
  ELSE [b EXCEPT !.failures = @ + 1]

OnFailure(b) ==
  IF b.state = "HALF_OPEN" \/ b.failures + 1 >= Threshold
  THEN [state |-> "OPEN", failures |-> 0, openedAt |-> "recent"]
  ELSE [b EXCEPT !.failures = @ + 1]

\* the second locked section: a result counts in whatever state it meets
Report(c) ==
  LET ok == call[c] = "accepted"
  IN  /\ call[c] \in {"accepted", "rejected"}
      /\ MoveTo(c, IF ok THEN "ok" ELSE "error")
      /\ breaker' = [breaker EXCEPT ![Through(c)] = IF ok THEN OnSuccess(@) ELSE OnFailure(@)]
      /\ UNCHANGED <<delivery, queue>>

\* recovery_seconds pass
Recover(ch) ==
  /\ breaker[ch].state = "OPEN" /\ breaker[ch].openedAt = "recent"
  /\ breaker' = [breaker EXCEPT ![ch].openedAt = "elapsed"]
  /\ UNCHANGED <<delivery, call, queue>>

Waits(d) == Submit(d) \/ Result(d) \/ Timeout(d)
Works(c) == Admit(c) \/ Report(c)

Next ==
  /\ \/ \E d \in Deliveries : Waits(d)
     \/ Take
     \/ \E c \in Calls : Works(c) \/ Send(c)
     \/ \E ch \in Channels : Recover(ch)
  /\ UNCHANGED channelOf

Spec == Init /\ [][Next]_vars

\* Threads run on, and future.result has a timeout.  Nothing makes a channel
\* answer: Send has no fairness.
FairSpec ==
  /\ Spec
  /\ \A d \in Deliveries : WF_vars(Waits(d) /\ UNCHANGED channelOf)
  /\ WF_vars(Take /\ UNCHANGED channelOf)
  /\ \A c \in Calls : WF_vars(Works(c) /\ UNCHANGED channelOf)

-----------------------------------------------------------------------------
(* Properties.                                                             *)

\* An opening time is kept exactly while the circuit is not closed, so
\* "_opened_at or 0" never takes 0; the queue holds the queued calls once.
TypeOK ==
  /\ channelOf \in Assignments
  /\ breaker \in [Channels -> Breaker]
  /\ \A ch \in Channels : breaker[ch].openedAt = "None" <=> breaker[ch].state = "CLOSED"
  /\ delivery \in [Deliveries -> Delivery]
  /\ call \in [Calls -> InPool \cup Finished \cup {"new", "queued"}]
  /\ Len(queue) = Cardinality({c \in Calls : call[c] = "queued"})
  /\ {queue[i] : i \in DOMAIN queue} = {c \in Calls : call[c] = "queued"}

(* A circuit goes by the answers of its own channel, whatever order they   *)
(* are reported in: it is not opened before Threshold calls have failed,   *)
(* calls it refused not counted, and when Threshold have failed and none   *)
(* has succeeded it is not closed.                                         *)
CircuitFollowsResults ==
  \A ch \in Channels :
    LET errors == Cardinality(CallsOf(ch, {"error"}))
    IN  /\ breaker[ch].state # "CLOSED" => errors >= Threshold
        /\ CallsOf(ch, {"ok"}) = {} /\ errors >= Threshold => breaker[ch].state # "CLOSED"

(* deliver ends, even when channels hang and calls that never end hold all *)
(* the pool's threads.                                                     *)
DeliveriesSettle == \A d \in Deliveries : <>(delivery[d].pc \in {"sent", "failed"})

(* A half-open circuit that has an answer to hear closes or opens: no      *)
(* answer is lost, and none is taken for that of an earlier state.         *)
HalfOpenResolves ==
  \A ch \in Channels :
    (breaker[ch].state = "HALF_OPEN" /\ CallsOf(ch, {"accepted", "rejected"}) # {})
      ~> breaker[ch].state # "HALF_OPEN"

=============================================================================
