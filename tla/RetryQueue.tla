----------------------------- MODULE RetryQueue -----------------------------
(***************************************************************************)
(* The durations Broker and Consumer leave out: what becomes of the delay  *)
(* that backoff_delay_ms of worker/src/consumer.py computes and            *)
(* publish_retry of worker/src/publisher.py hands to the broker as the     *)
(* message's expiration.  There is one retry queue for all attempts, so    *)
(* messages with a short and with a long delay stand in one line, and      *)
(* RabbitMQ (external) expires the head of a queue only.                   *)
(***************************************************************************)
EXTENDS Naturals, Sequences

CONSTANTS Messages,          \* copies of requests that keep failing
          RetryMaxAttempts,  \* RETRY_MAX_ATTEMPTS
          backoff_delay_ms,  \* per attempt
          LongestDelay,
          Horizon            \* bound on time

ASSUME RetryQueueAssumptions ==
    /\ RetryMaxAttempts \in Nat \ {0}
    /\ backoff_delay_ms \in [1..RetryMaxAttempts -> Nat]
    /\ LongestDelay \in Nat /\ Horizon \in Nat
    /\ \A a \in 1..RetryMaxAttempts : backoff_delay_ms[a] <= LongestDelay

VARIABLES now,
          queue,    \* orders.inbound.retry
          attempt,  \* per message: its retry.attempt
          since,    \* per message: when it was last published to the queue
          \* History: when the delays are over of a message and of those it was
          \* published behind; and the retry that came back last, if any.
          front, released

rvars == <<now, queue, attempt, since, front, released>>

Queued == {queue[i] : i \in 1..Len(queue)}

-----------------------------------------------------------------------------
\* Mutant: the delay is computed before the attempt is incremented.
Mutdue(m) == since[m] + (IF attempt[m] = 1 THEN 0 ELSE backoff_delay_ms[attempt[m] - 1])

due(m) == since[m] + backoff_delay_ms[attempt[m]]

\* What m waits for, from its publication on.
Stands(m) == front' = [front EXCEPT ![m] = {due(n) : n \in Queued}
                                 \cup {now + backoff_delay_ms[attempt[m] + 1]}]

\* Mutant: a retry overtakes those that wait already.
Mutpublish_retry(m) == /\ m \notin Queued
                       /\ attempt[m] < RetryMaxAttempts
                       /\ queue' = <<m>> \o queue
                       /\ attempt' = [attempt EXCEPT ![m] = @ + 1]
                       /\ since' = [since EXCEPT ![m] = now]
                       /\ Stands(m)
                       /\ UNCHANGED <<now, released>>

\* Mutant: one retry too many.
MutRetryAgain(m) == /\ m \notin Queued
                    /\ attempt[m] <= RetryMaxAttempts
                    /\ queue' = Append(queue, m)
                    /\ attempt' = [attempt EXCEPT ![m] = @ + 1]
                    /\ since' = [since EXCEPT ![m] = now]
                    /\ UNCHANGED <<now, front, released>>

\* An upload round for m fails with attempts left.
publish_retry(m) == /\ m \notin Queued
                    /\ attempt[m] < RetryMaxAttempts
                    /\ queue' = Append(queue, m)
                    /\ attempt' = [attempt EXCEPT ![m] = @ + 1]
                    /\ since' = [since EXCEPT ![m] = now]
                    /\ Stands(m)
                    /\ UNCHANGED <<now, released>>

(***************************************************************************)
(* The head's TTL has run out: the broker dead-letters it to the main      *)
(* queue.  The messages behind it have to wait for that, expired or not.   *)
(***************************************************************************)
Release == /\ queue # <<>> /\ due(Head(queue)) <= now
           /\ queue' = Tail(queue)
           /\ released' = {[at |-> now, since |-> since[Head(queue)],
                            front |-> front[Head(queue)]]}
           /\ front' = [front EXCEPT ![Head(queue)] = {}]
           /\ UNCHANGED <<now, attempt, since>>

\* Time passes, but the broker does not sit on a head that has expired.
Tick == /\ now < Horizon
        /\ queue # <<>> => due(Head(queue)) > now
        /\ now' = now + 1
        /\ UNCHANGED <<queue, attempt, since, front, released>>

RInit == /\ now = 0 /\ queue = <<>> /\ released = {}
         /\ attempt = [m \in Messages |-> 0]
         /\ since = [m \in Messages |-> 0]
         /\ front = [m \in Messages |-> {}]

RNext == Release \/ Tick \/ \E m \in Messages : publish_retry(m)

RSpec == RInit /\ [][RNext]_rvars

-----------------------------------------------------------------------------
(* What a retry can rely on.                                               *)

\* The type invariant.
RTypeOK == /\ now \in Nat
           /\ queue \in Seq(Messages)
           /\ attempt \in [Messages -> 0..RetryMaxAttempts]
           /\ \A m \in Queued : attempt[m] > 0
           /\ since \in [Messages -> Nat]
           /\ front \in [Messages -> SUBSET Nat]
           /\ released \subseteq [at : Nat, since : Nat, front : SUBSET Nat]

(***************************************************************************)
(* How long a retry really waits: until its own delay is over and the one  *)
(* of every message it was published behind, whatever their attempts were  *)
(* and whenever the queue was published to; no earlier, and no later for   *)
(* what is published behind it.                                            *)
(***************************************************************************)
WaitExplained == \A w \in released : /\ w.at \in w.front
                                     /\ \A t \in w.front : t <= w.at

(***************************************************************************)
(* Waiting behind others has a limit: however many retries with whatever   *)
(* delays stand in front, no retry waits longer than the longest backoff.  *)
(***************************************************************************)
BoundedWait == \A w \in released : w.at <= w.since + LongestDelay

(***************************************************************************)
(* Why: the queue is in the order of publication, so whatever stands in    *)
(* front of a message was published before it and is gone LongestDelay     *)
(* after that; the head has not been there for longer.                     *)
(***************************************************************************)
QueueInOrder ==
    /\ \A i, j \in 1..Len(queue) : i < j => /\ queue[i] # queue[j]
                                            /\ since[queue[i]] <= since[queue[j]]
    /\ \A m \in Queued : since[m] <= now
    /\ queue # <<>> => now <= since[Head(queue)] + LongestDelay
=============================================================================
